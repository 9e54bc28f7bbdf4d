------------------------------- MODULE Release -------------------------------
(***************************************************************************)
(* One replay of a Release collaborative object: `from_root` makes the     *)
(* release from the Create action of the root operation, `op` applies the  *)
(* actions of each later operation, in the order the object store hands    *)
(* them over.  The replay trusts nobody: any user may have signed any      *)
(* action, on a CID the release carries or not, so every sequence of       *)
(* operations is a behaviour here.  What the local API refuses to sign     *)
(* (ReleaseMut::redact) is in ReleaseReplicas.                             *)
(***************************************************************************)
EXTENDS Trust

VARIABLES
  creator,   \* the signer of the root operation
  artifacts  \* what the release carries

vars == <<creator, artifacts>>

\* from_root: the API signs a root with exactly one action, the Create.
Init ==
  /\ creator \in Did
  /\ artifacts = NoArtifacts

\* op, for an operation of one action.
Op(user, action) ==
  /\ artifacts' = Act(artifacts, user, action)
  /\ UNCHANGED creator

CreateAgain(user) == Op(user, [type |-> "create"])

RegisterArtifact(user, cid) ==
  \E name \in Name : Op(user, [type |-> "register", cid |-> cid, name |-> name])

\* register_artifact_with_size: two actions in one operation.
RegisterArtifactWithSize(user, cid) ==
  \E name \in Name, key \in Key, size \in Value :
    /\ artifacts' =
         Act(Act(artifacts, user, [type |-> "register", cid |-> cid, name |-> name]),
             user, [type |-> "metadata", cid |-> cid, key |-> key, write |-> size])
    /\ UNCHANGED creator

AddOrRemoveLocation(user, cid) ==
  \E type \in {"addLocation", "removeLocation"}, url \in Url :
    Op(user, [type |-> type, cid |-> cid, url |-> url])

AttestArtifact(user, cid) == Op(user, [type |-> "attest", cid |-> cid])

RedactArtifact(user, cid) ==
  \E reason \in Reason :
    Op(user, [type |-> "redact", cid |-> cid, reason |-> reason])

SetMetadata(user, cid) ==
  \E key \in Key, value \in Value :
    Op(user, [type |-> "metadata", cid |-> cid, key |-> key, write |-> value])

RemoveMetadata(user, cid) ==
  \E key \in Key :
    Op(user, [type |-> "metadata", cid |-> cid, key |-> key, write |-> Removed])

Next ==
  \E user \in Did :
    \/ CreateAgain(user)
    \/ \E cid \in Cid :
         \/ RegisterArtifact(user, cid)
         \/ RegisterArtifactWithSize(user, cid)
         \/ AddOrRemoveLocation(user, cid)
         \/ AttestArtifact(user, cid)
         \/ RedactArtifact(user, cid)
         \/ SetMetadata(user, cid)
         \/ RemoveMetadata(user, cid)

Spec == Init /\ [][Next]_vars
-----------------------------------------------------------------------------
\* The replay keeps a well-formed release.
TypeOK ==
  /\ creator \in Did
  /\ artifacts \in Artifacts

\* An attestation is an independent voucher: it never comes from the artifact's
\* author, who vouches by registering, nor from somebody who redacted the
\* artifact, whichever of the two operations the replay met first.
AttestationsAreIndependent ==
  \A cid \in Cid : Carries(artifacts, cid) =>
    \A did \in artifacts[cid].attestations :
      /\ did # artifacts[cid].author
      /\ ~ RedactedBy(artifacts[cid], did)

\* The write list of a metadata key holds at most one write of each party, so
\* that a superseded value can never come back when a later one is skipped.
OneWritePerParty ==
  \A cid \in Cid, key \in Key : Carries(artifacts, cid) =>
    LET writes == artifacts[cid].metadata[key]
    IN  \A i, j \in 1..Len(writes) : writes[i].by = writes[j].by => i = j

\* Filters, verify and watch draw the same line: what passes the trust check in
\* a scope is exactly what `list` and `show` display in it by default, and a
\* release holding such an artifact is itself listed.
ListingAgreesWithCheck ==
  \A scope \in Scope, cid \in Cid : Carries(artifacts, cid) =>
    /\ CheckBy(scope, creator, artifacts[cid]) = "ok" <=>
         /\ ShowsRelease(scope, FALSE, creator, artifacts)
         /\ cid \in ShownArtifacts(scope, FALSE, artifacts)

\* Once registered, an artifact stays in the release under the same author, and
\* once somebody redacted it they never lose that redaction: only its reason
\* can be amended.
RedactionIsPermanent ==
  [][\A cid \in Cid : Carries(artifacts, cid) =>
       /\ Carries(artifacts', cid)
       /\ artifacts'[cid].author = artifacts[cid].author
       /\ \A did \in Did : RedactedBy(artifacts[cid], did)
                             => RedactedBy(artifacts'[cid], did)]_vars

\* What one user has said about an artifact.
SaidBy(as, cid, did) ==
  IF ~ Carries(as, cid)
  THEN [urls |-> {}, attested |-> FALSE, reason |-> NoReason,
        writes |-> [key \in Key |-> {}]]
  ELSE [urls |-> {url \in Url : <<did, url>> \in as[cid].locations},
        attested |-> did \in as[cid].attestations,
        reason |-> as[cid].redactions[did],
        writes |-> [key \in Key |->
          {as[cid].metadata[key][i].write :
             i \in {j \in DOMAIN as[cid].metadata[key] :
                      as[cid].metadata[key][j].by = did}}]]

\* Every step speaks for one user: it leaves what the others said alone, and
\* the name of a registered artifact changes only in its author's step.
OnlyTheSignerSpeaks ==
  [][\E user \in Did :
       /\ \A other \in Did \ {user}, cid \in Cid :
            SaidBy(artifacts', cid, other) = SaidBy(artifacts, cid, other)
       /\ \A cid \in Cid :
            Carries(artifacts, cid) /\ artifacts'[cid].name # artifacts[cid].name
              => user = artifacts[cid].author]_vars

\* What readers conclude about a registered artifact: whether it is withdrawn,
\* and the metadata that holds.
Verdict(artifact) ==
  [withdrawn |-> IsRedactedByTrusted(artifact),
   metadata  |-> [key \in Key |-> TrustedMetadata(artifact, key)]]

\* "No stranger can veto a release": the verdict on an artifact changes only in
\* a step in which its author or a delegate said something new about it, or
\* repeated a metadata write and so became the last to speak.
StrangersHaveNoSay ==
  [][\A cid \in Cid :
       Carries(artifacts, cid) /\ Verdict(artifacts'[cid]) # Verdict(artifacts[cid])
         => \E did \in Did :
              /\ IsAuthorOrDelegate(did, artifacts[cid])
              /\ \/ SaidBy(artifacts', cid, did) # SaidBy(artifacts, cid, did)
                 \/ \E key \in Key :
                      /\ artifacts'[cid].metadata[key] # artifacts[cid].metadata[key]
                      /\ Last(artifacts'[cid].metadata[key]).by = did]_vars
==============================================================================
