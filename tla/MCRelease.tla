------------------------------ MODULE MCRelease ------------------------------
(* A small instance of Release for TLC: one delegate, one local user who is   *)
(* not a delegate and one stranger.  Two artifacts come without locations and *)
(* metadata; one alone has both, without attestations and with one reason to  *)
(* be redacted for.                                                           *)
EXTENDS Release, TLC

CONSTANTS cid1, cid2, name1, name2, reason1, reason2

MCCid == {cid1, cid2}
MCName == {name1, name2}
MCReason == {reason1, reason2}

Bare(artifact) ==
  /\ artifact.name = name1 /\ artifact.locations = {}
  /\ \A key \in Key : artifact.metadata[key] = <<>>

\* CONSTRAINT
TwoBareOrOneFull ==
  \/ \A cid \in Cid : Carries(artifacts, cid) => Bare(artifacts[cid])
  \/ /\ ~ Carries(artifacts, cid2)
     /\ Carries(artifacts, cid1) =>
          /\ artifacts[cid1].attestations = {}
          /\ \A did \in Did : artifacts[cid1].redactions[did] # reason2
==============================================================================
