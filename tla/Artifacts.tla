------------------------------ MODULE Artifacts ------------------------------
(***************************************************************************)
(* The data of a Release collaborative object and the effect of one action *)
(* on it: `Release::action` of radicle-artifact/src/lib.rs.  The operators *)
(* are pure, so that a single replay (Release), many replicas              *)
(* (ReleaseReplicas) and the readers (Trust) share them.                   *)
(*                                                                         *)
(* `artifacts` is a function over all of Cid; a CID that the release does  *)
(* not carry maps to Absent.  The maps the code keys by DID are a relation *)
(* (locations: the code drops a DID whose URL set becomes empty, so a pair *)
(* set says the same) or a function into the values and a "none" element   *)
(* (redactions).                                                           *)
(***************************************************************************)
EXTENDS Integers, Sequences, SequencesExt

CONSTANTS
  Did,       \* the users, by their decentralised identifier
  Cid,       \* content identifiers
  Name,      \* artifact names
  Url,       \* discovery locations
  Reason,    \* redaction reasons
  Key,       \* metadata keys
  Value,     \* metadata values
  Removed,   \* the tombstone `MetadataWrite::Removed`
  NoReason,  \* the user has not redacted
  Absent     \* the release does not carry this CID

Write == [by: Did, write: Value \cup {Removed}]

Artifact ==
  [author: Did, name: Name, locations: SUBSET (Did \X Url),
   attestations: SUBSET Did, redactions: [Did -> Reason \cup {NoReason}],
   metadata: [Key -> Seq(Write)]]

ASSUME ArtifactsAssumption ==
  /\ Removed \notin Value
  /\ NoReason \notin Reason
  /\ Absent \notin Artifact

Artifacts == [Cid -> Artifact \cup {Absent}]

Action ==
       [type: {"create"}]
  \cup [type: {"register"}, cid: Cid, name: Name]
  \cup [type: {"addLocation", "removeLocation"}, cid: Cid, url: Url]
  \cup [type: {"attest"}, cid: Cid]
  \cup [type: {"redact"}, cid: Cid, reason: Reason]
  \cup [type: {"metadata"}, cid: Cid, key: Key, write: Value \cup {Removed}]

NewArtifact(user, name) ==
  [author |-> user, name |-> name, locations |-> {}, attestations |-> {},
   redactions |-> [did \in Did |-> NoReason],
   metadata |-> [key \in Key |-> <<>>]]

RedactedBy(artifact, user) == artifact.redactions[user] # NoReason

\* Mutant: a redaction does not bar later attestations.
CanAttestAfterRedacting(artifact, user) == user # artifact.author

CanAttest(artifact, user) ==
  /\ user # artifact.author
  /\ ~ RedactedBy(artifact, user)

\* Mutants: the old entry stays; the new one takes its place.
WriteMetadataTwice(writes, user, write) ==
  Append(writes, [by |-> user, write |-> write])

WriteMetadataInPlace(writes, user, write) ==
  LET old == SelectInSeq(writes, LAMBDA w : w.by = user)
  IN  IF old = 0 THEN Append(writes, [by |-> user, write |-> write])
      ELSE [writes EXCEPT ![old].write = write]

\* shift_remove the user's entry, then insert it at the end.
WriteMetadata(writes, user, write) ==
  Append(RemoveFirstMatch(writes, LAMBDA w : w.by = user),
         [by |-> user, write |-> write])

\* Mutant: keyed by the location instead of the user.
AddLocationByUrl(artifact, user, url) ==
  [artifact EXCEPT !.locations = @ \cup {<<url, user>>}]

AddLocation(artifact, user, url) ==
  [artifact EXCEPT !.locations = @ \cup {<<user, url>>}]

RemoveLocation(artifact, user, url) ==
  [artifact EXCEPT !.locations = @ \ {<<user, url>>}]

Attest(artifact, user) ==
  IF CanAttest(artifact, user)
  THEN [artifact EXCEPT !.attestations = @ \cup {user}]
  ELSE artifact

\* Mutant: the attestation survives.
RedactBesideAttestation(artifact, user, reason) ==
  [artifact EXCEPT !.redactions[user] = reason]

Redact(artifact, user, reason) ==
  [artifact EXCEPT !.redactions[user] = reason, !.attestations = @ \ {user}]

SetOrRemoveMetadata(artifact, user, key, write) ==
  [artifact EXCEPT !.metadata[key] = WriteMetadata(@, user, write)]

\* Mutants: a later registration starts over; it renames, whoever sends it.
RegisterAnew(artifact, user, name) == NewArtifact(user, name)

RegisterForAnyone(artifact, user, name) ==
  IF artifact = Absent THEN NewArtifact(user, name)
  ELSE [artifact EXCEPT !.name = name]

\* The first registration makes the artifact, later ones rename it, and only
\* when its author sends them.
Register(artifact, user, name) ==
  IF artifact = Absent THEN NewArtifact(user, name)
  ELSE IF artifact.author = user THEN [artifact EXCEPT !.name = name]
  ELSE artifact

\* An action on an artifact the release already carries.
Edit(artifact, user, action) ==
  CASE action.type = "addLocation"    -> AddLocation(artifact, user, action.url)
    [] action.type = "removeLocation" -> RemoveLocation(artifact, user, action.url)
    [] action.type = "attest"         -> Attest(artifact, user)
    [] action.type = "redact"         -> Redact(artifact, user, action.reason)
    [] action.type = "metadata"       ->
         SetOrRemoveMetadata(artifact, user, action.key, action.write)

\* Release::action.  A second Create is ignored, and so is every action but a
\* registration on a CID the release does not carry.
Act(artifacts, user, action) ==
  CASE action.type = "create"   -> artifacts
    [] action.type = "register" ->
         [artifacts EXCEPT ![action.cid] = Register(@, user, action.name)]
    [] OTHER ->
         IF artifacts[action.cid] = Absent THEN artifacts
         ELSE [artifacts EXCEPT ![action.cid] = Edit(@, user, action)]

NoArtifacts == [cid \in Cid |-> Absent]

Carries(artifacts, cid) == artifacts[cid] # Absent
==============================================================================
