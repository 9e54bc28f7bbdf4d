------------------------------- MODULE MCWatch -------------------------------
(***************************************************************************)
(* Watch for TLC: an artifact that does not tell its size and one that     *)
(* tells less.                                                             *)
(***************************************************************************)
EXTENDS Watch

CONSTANTS unhinted, understated

MCCid == {unhinted, understated}
MCOneCid == {unhinted}

MCRelease == 1..2
MCOneRelease == 1..1

MCSize == [cid \in Cid |-> IF cid = understated THEN 3 ELSE 2]

MCHint == [cid \in Cid |-> IF cid = understated THEN 1 ELSE NoHint]
=============================================================================
