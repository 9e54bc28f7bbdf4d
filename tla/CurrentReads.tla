------------------------------ MODULE CurrentReads ------------------------------
(***************************************************************************)
(* What the readers of releases are promised (Releases::all, list, get,    *)
(* find_by_cid, locations_for and counts of lib.rs): an answer that is     *)
(* true of each object they ask about at some moment between the call and  *)
(* the return.  About an object that does not materialise the promise is   *)
(* weaker, and with a cache it is not what git alone would give: git drops *)
(* it or fails, "the cache keeps serving the last good copy".  There is no *)
(* cache here, only the versions git once had.  ReleaseCache implements it *)
(* for a lone reader.                                                      *)
(***************************************************************************)
EXTENDS Integers

CONSTANTS Reader, Id, MaxVersion, Unreadable

VARIABLES
  git,  \* the version of each object, 0 when it has no refs
  good, \* the versions it ever had that materialise
  read  \* read[r]: the call of a reader

vars == <<git, good, read>>

NoRead == [pc |-> "none"]

Failed == [pc |-> "failed"]

Init ==
  /\ git \in [Id -> {0, 1}] /\ good \in [Id -> SUBSET ({1} \ Unreadable)]
  /\ \A id \in Id : git[id] \in good[id] \cup {0} \cup Unreadable
  /\ read = [r \in Reader |-> NoRead]

Change(id) ==
  \E version \in 0..MaxVersion \ {git[id]} :
    /\ git' = [git EXCEPT ![id] = version]
    /\ good' = [good EXCEPT ![id] = @ \cup (({version} \ {0}) \ Unreadable)]
    /\ read' = [r \in Reader |->
         IF read[r].pc # "reading" THEN read[r]
         ELSE [read[r] EXCEPT !.seen[id] = @ \cup {version}]]

\* A call asks about some objects, and counts them only in some versions.
Invoke(r) ==
  /\ read[r] = NoRead
  /\ \E ids \in SUBSET Id, counts \in SUBSET (1..MaxVersion) :
       read' = [read EXCEPT ![r] =
         [pc |-> "reading", ids |-> ids, counts |-> counts, seen |-> [id \in Id |-> {git[id]}]]]
  /\ UNCHANGED <<git, good>>

\* The objects of a call that did not materialise at some moment of it.
Broken(r) == {id \in read[r].ids : read[r].seen[id] \cap Unreadable # {}}

\* True of the object at some moment of the call.
Current(r, id) ==
  {IF version \in read[r].counts THEN version ELSE 0 : version \in read[r].seen[id] \ Unreadable}

\* Skipped, or answered with a former version that did materialise.
LastGood(r, id) == {0} \cup (good[id] \cap read[r].counts)

Answer(r) ==
  /\ read[r].pc = "reading"
  /\ \E answer \in [Id -> 0..MaxVersion] :
       /\ read' = [read EXCEPT ![r] = [pc |-> "answered", answer |-> answer]]
       /\ \A id \in read[r].ids :
            answer[id] \in Current(r, id) \cup (IF id \in Broken(r) THEN LastGood(r, id) ELSE {})
  /\ UNCHANGED <<git, good>>

Fail(r) ==
  /\ read[r].pc = "reading" /\ Broken(r) # {}
  /\ read' = [read EXCEPT ![r] = Failed]
  /\ UNCHANGED <<git, good>>

Return(r) ==
  /\ read[r].pc \in {"answered", "failed"}
  /\ read' = [read EXCEPT ![r] = NoRead]
  /\ UNCHANGED <<git, good>>

Next ==
  \/ \E id \in Id : Change(id)
  \/ \E r \in Reader : Invoke(r) \/ Answer(r) \/ Fail(r) \/ Return(r)

Spec == Init /\ [][Next]_vars
===============================================================================
