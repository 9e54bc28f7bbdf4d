-------------------------------- MODULE Trust --------------------------------
(***************************************************************************)
(* Who is believed about an artifact: radicle-artifact/src/trust.rs, and   *)
(* the visibility rules of filters.rs that `list` and `show` lay over it.  *)
(* The delegate set belongs to the repository, not to the object, so it is *)
(* a parameter of every reader.                                            *)
(***************************************************************************)
EXTENDS Artifacts

CONSTANTS
  Delegates,  \* the delegates of the repository
  Local       \* the local user, who always trusts their own work

ASSUME TrustAssumption ==
  /\ Delegates \subseteq Did
  /\ Local \in Did

Scope == {"trusted", "untrusted", "all"}

Trusts(did) == did \in Delegates \/ did = Local

\* Scope::admits and Trust::admits.
Admits(scope, did) ==
  \/ scope = "trusted" /\ Trusts(did)
  \/ scope = "untrusted" /\ ~ Trusts(did)
  \/ scope = "all"

IsAuthorOrDelegate(did, artifact) ==
  did = artifact.author \/ did \in Delegates

\* Mutant: everybody's redactions count.
WithdrawalsOfAnyone(artifact) == {did \in Did : RedactedBy(artifact, did)}

Withdrawals(artifact) ==
  {did \in Did : RedactedBy(artifact, did) /\ IsAuthorOrDelegate(did, artifact)}

IsRedactedByTrusted(artifact) == Withdrawals(artifact) # {}

\* Trust::check_by: the reasons in the order the code reports them.
CheckBy(scope, creator, artifact) ==
  IF ~ Admits(scope, creator) THEN "creator"
  ELSE IF IsRedactedByTrusted(artifact) THEN "redacted"
  ELSE IF ~ Admits(scope, artifact.author) THEN "author"
  ELSE "ok"

\* trust::metadata at one key: the last write of the author or a delegate,
\* unless that write is a removal.  Removed stands for "no entry".
TrustedMetadata(artifact, key) ==
  LET writes == artifact.metadata[key]
      last   == SelectLastInSeq(writes,
                                LAMBDA w : IsAuthorOrDelegate(w.by, artifact))
  IN  IF last = 0 THEN Removed ELSE writes[last].write

\* Mutant: one redacted artifact hides the release.
IsPartlyRedacted(artifacts) ==
  \E cid \in Cid : Carries(artifacts, cid) /\ IsRedactedByTrusted(artifacts[cid])

\* Release::is_fully_redacted.
IsFullyRedacted(artifacts) ==
  LET carried == {cid \in Cid : Carries(artifacts, cid)}
  IN  /\ carried # {}
      /\ \A cid \in carried : IsRedactedByTrusted(artifacts[cid])

\* Filters, as `list` and `show` apply them.
ShowsArtifact(scope, includeRedacted, artifact) ==
  /\ includeRedacted \/ ~ IsRedactedByTrusted(artifact)
  /\ Admits(scope, artifact.author)

ShowsRelease(scope, includeRedacted, creator, artifacts) ==
  /\ Admits(scope, creator)
  /\ includeRedacted \/ ~ IsFullyRedacted(artifacts)

ShownArtifacts(scope, includeRedacted, artifacts) ==
  {cid \in Cid : /\ Carries(artifacts, cid)
                 /\ ShowsArtifact(scope, includeRedacted, artifacts[cid])}
==============================================================================
