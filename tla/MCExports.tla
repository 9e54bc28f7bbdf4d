------------------------------- MODULE MCExports -------------------------------
(* Exports for TLC: a blob of one chunk and a collection of two members.       *)
EXTENDS Exports, TLC

CONSTANTS coll, blob, part1, part2, chunk

MCCid == {coll, blob}
MCPart == {part1, part2, chunk}
MCParts == coll :> {part1, part2} @@ blob :> {chunk}
================================================================================
