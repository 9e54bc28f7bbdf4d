------------------------------ MODULE MCCommands ------------------------------
(* Commands for TLC: two terminals that both publish or both see to what is    *)
(* seeded, and releases of a delegate and of a stranger.                       *)
EXTENDS Commands, TLC

CONSTANTS delegate, stranger, cid1, tag1

MCDid == {Local, delegate, stranger}

MCTheirs ==
  {[creator |-> delegate, tag |-> tag1, carries |-> {}, urls |-> {}],
   [creator |-> stranger, tag |-> NoTag, carries |-> {cid1}, urls |-> {}]}

Publishing == {"create", "register"}
Advertising == {"seed", "fetch", "unseed", "reconcile"}

MCOverlaps == (Publishing \X Publishing) \cup (Advertising \X Advertising)

\* Terminals differ in nothing but their names.
Symmetry == Permutations(Proc)
===============================================================================
