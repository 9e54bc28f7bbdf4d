------------------------------ MODULE MCSeedNode ------------------------------
(* Small instances of SeedNode for TLC: a collection of one member, and a blob *)
(* that is the same bytes as the member.                                       *)
EXTENDS SeedNode, TLC

CONSTANTS coll, blob, seq, bytes

MCCid == {coll, blob}
MCHash == {seq, bytes}
MCRoot == coll :> seq @@ blob :> bytes
MCMembers == coll :> {bytes} @@ blob :> {}
===============================================================================
