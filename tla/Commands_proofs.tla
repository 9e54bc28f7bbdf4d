---------------------------- MODULE Commands_proofs ----------------------------
(***************************************************************************)
(* Theorems about the commands of rad-artifact, for any number of          *)
(* terminals, releases and artifacts, whatever commands may overlap.       *)
(***************************************************************************)
EXTENDS Commands, WellFoundedInduction, TLAPS

-----------------------------------------------------------------------------
\* The releases there are: finitely many so far, and locations only of what they
\* carry.
Stored ==
  /\ store \in [Id -> Release \cup {Absent}]
  /\ \E last \in Nat : \A id \in Existing : id <= last
  /\ \A id \in Existing : \A at \in store[id].urls : at[1] \in store[id].carries

\* What a command has in hand is there: a release that was found stays, the
\* rows are of releases that carry their artifact, and what reconcile is to
\* retract was not seeded when it asked.
Fits(job) ==
  \/ job = Idle
  \/ /\ job \in Job
     /\ job.pc \in {"register", "seed", "locate", "edit"} => job.id \in Existing
     /\ job.pc \in {"unseed", "targets"} => job.id \in Existing \cup {0} /\ job.remove = {}
     /\ job.pc = "locate" => \A a, b \in job.seen : a = b
     /\ job.pc \in {"sweep", "rows"} => \A row \in job.add : row[1] \in Existing
     /\ job.pc \in {"sweep", "rows"} => \A row \in job.remove : row[1] \in Existing
     /\ job.pc = "compare" => job.held \subseteq job.seen
     /\ job.pc = "rows" => job.held = {}
     /\ job.lone => job.pc \in {"list", "compare", "rows"}

Sound ==
  /\ Stored
  /\ seeded \subseteq Id \X Cid
  /\ proc \in [Proc -> Job \cup {Idle}]
  /\ \A p \in Proc : Fits(proc[p])

\* A reconcile that nothing disturbs runs alone, and all that does not point to
\* this node is on its list.
Undisturbed(p) ==
  proc[p] # Idle /\ proc[p].lone =>
    /\ Running = {p}
    /\ At(p, "rows") =>
         \A id \in Existing : \A at \in store[id].urls :
           at[2] # "current" => <<id, at[1], at[2]>> \in proc[p].remove

\* No two releases of the user of one tag, and none of the tag that a command is
\* about to make one of.
Apart ==
  /\ \A a, b \in Existing :
       store[a].creator = Local /\ store[b].creator = Local /\ store[a].tag = store[b].tag => a = b
  /\ \A p, q \in Running : p = q
  /\ \A p \in Running : At(p, "mint") =>
       \A id \in Existing : store[id].creator = Local => store[id].tag # proc[p].tag

\* What is advertised from this node, release by release.
Rows == {row \in Existing \X Cid : <<row[2], "current">> \in store[row[1]].urls}

\* What an unseed is still to retract, of the releases it has and has not opened.
ToGo(job) ==
  job.add \cup {<<row[1], row[2]>> : row \in {r \in job.remove : r[3] = "current"}}

\* How far the tags of the node are from that while a command is at work.
Behind(job) ==
  IF job.pc = "locate" THEN seeded = Rows \cup ({job.id} \X job.seen)
  ELSE IF job.pc = "targets"
       THEN seeded = {row \in Rows : row[2] \in job.cids => job.id \notin {0, row[1]}}
  ELSE IF job.pc = "sweep" THEN seeded = Rows \ ToGo(job)
  ELSE /\ seeded = Rows
       /\ job.pc = "compare" => job.seen = Seeded
       /\ job.pc = "rows" => job.add = {} /\ job.remove = {}

Even ==
  /\ Stale = {}
  /\ \A p, q \in Running : p = q
  /\ \A p \in Running : Behind(proc[p])
  /\ Running = {} => seeded = Rows

\* The inductive invariant.
IInv ==
  /\ Sound
  /\ \A p \in Proc : Undisturbed(p)
  /\ ~doubled => Apart
  /\ ~loose => Even
-----------------------------------------------------------------------------
\* A bounded set of numbers, unless it is empty, has a greatest one, and Max
\* chooses it.
LEMMA GreatestNumber ==
  ASSUME NEW S \in SUBSET Nat, S # {}, NEW b \in Nat, \A m \in S : m <= b
  PROVE  Max(S) \in S /\ \A m \in S : m <= Max(S)
<1> DEFINE R == OpToRel(<, Nat)
           Bounds == {n \in Nat : \A m \in S : m <= n}
<1>1. IsWellFoundedOn(R, Nat)
  BY NatLessThanWellFounded
<1>2. \A x, y \in Nat : x < y => <<x, y>> \in R
  BY DEF OpToRel
<1> HIDE DEF R
<1>3. PICK n \in Bounds : \A k \in Bounds : ~ (<<k, n>> \in R)
  BY <1>1, WFMin, Bounds \in SUBSET Nat, b \in Bounds
<1>4. \A k \in Bounds : ~ (k < n)
  BY <1>2, <1>3
<1>5. n \in S
  <2>1. SUFFICES ASSUME n \notin S  PROVE FALSE
    OBVIOUS
  <2>2. PICK m \in S : TRUE
    OBVIOUS
  <2>3. n - 1 \in Bounds
    BY <1>3, <2>1, <2>2
  <2>4. QED  BY <1>4, <2>3
<1>6. \E x \in S : \A y \in S : x >= y
  BY <1>3, <1>5
<1>7. Max(S) \in S /\ \A y \in S : Max(S) >= y
  BY <1>6 DEF Max
<1>8. QED  BY <1>7

\* Of releases, Max chooses the newest, and a new one is newer.
LEMMA Newest ==
  ASSUME Stored, NEW S \in SUBSET (Existing \cup {0}), S # {}
  PROVE  Max(S) \in S /\ \A m \in S : m <= Max(S)
<1>1. S \in SUBSET Nat
  BY CommandsAssumption DEF Existing
<1>2. PICK last \in Nat : \A id \in Existing : id <= last
  BY DEF Stored
<1>3. \A m \in S : m <= last
  BY <1>2
<1>4. QED  BY <1>1, <1>3, GreatestNumber

\* Nothing of one release changes another.
LEMMA Put ==
  ASSUME Stored, NEW id \in Id, NEW release \in Release,
         store' = [store EXCEPT ![id] = release],
         \A at \in release.urls : at[1] \in release.carries
  PROVE  /\ Stored' /\ Existing' = Existing \cup {id} /\ store'[id] = release
         /\ \A other \in Id : other # id => store'[other] = store[other]
<1>1. /\ store'[id] = release /\ store' \in [Id -> Release \cup {Absent}]
      /\ \A other \in Id : other # id => store'[other] = store[other]
  BY DEF Stored
<1>2. Existing' = Existing \cup {id}
  BY <1>1, CommandsAssumption DEF Existing
<1>3. \E last \in Nat : \A other \in Existing' : other <= last
  <2>1. PICK last \in Nat : \A other \in Existing : other <= last
    BY DEF Stored
  <2>2. id \in Nat /\ \A other \in Existing : other \in Nat
    BY CommandsAssumption DEF Existing
  <2>3. PICK new \in Nat : last <= new /\ id <= new
    BY <2>2
  <2>4. \A other \in Existing' : other <= new
    BY <1>2, <2>1, <2>2, <2>3
  <2>5. QED  BY <2>4
<1>4. ASSUME NEW other \in Existing', NEW at \in store'[other].urls
      PROVE  at[1] \in store'[other].carries
  BY <1>1, <1>2, <1>4 DEF Stored, Existing
<1>5. QED  BY <1>1, <1>2, <1>3, <1>4 DEF Stored

LEMMA Written ==
  ASSUME Stored, NEW id \in Id, NEW release \in Release, Sign(id, release),
         \A at \in release.urls : at[1] \in release.carries
  PROVE  /\ Stored' /\ Existing' = Existing \cup {id} /\ store'[id] = release
         /\ \A other \in Id : other # id => store'[other] = store[other]
         /\ unannounced'
BY Put DEF Sign

\* A command in hand stays so while more releases come.
LEMMA FitsStays ==
  ASSUME Existing \subseteq Existing', NEW job, Fits(job)
  PROVE  Fits(job)'
BY DEF Fits

\* k is job j, but that less may be held, and that it may have been disturbed.
Keeps(j, k) ==
  \/ j = Idle /\ k = Idle
  \/ /\ j \in Job /\ k \in Job
     /\ k = [j EXCEPT !.held = k.held, !.lone = k.lone]
     /\ k.held \subseteq j.held
     /\ k.lone => j.lone

LEMMA Kept ==
  ASSUME NEW j, NEW k, Keeps(j, k)
  PROVE  /\ k = Idle <=> j = Idle
         /\ k.pc = j.pc
         /\ k # Idle => /\ k.id = j.id /\ k.tag = j.tag /\ k.cids = j.cids
                        /\ k.wrote = j.wrote /\ k.seen = j.seen /\ k.add = j.add
                        /\ k.remove = j.remove /\ k.held \subseteq j.held
                        /\ k.lone => j.lone
<1>1. CASE j = Idle /\ k = Idle
  BY <1>1
<1>2. CASE j \in Job /\ k \in Job /\ k = [j EXCEPT !.held = k.held, !.lone = k.lone]
             /\ k.held \subseteq j.held /\ (k.lone => j.lone)
  <2>1. PICK held, lone : k = [j EXCEPT !.held = held, !.lone = lone]
    BY <1>2
  <2>2. /\ k.pc = j.pc /\ k.id = j.id /\ k.tag = j.tag /\ k.cids = j.cids
        /\ k.wrote = j.wrote /\ k.seen = j.seen /\ k.add = j.add
        /\ k.remove = j.remove
    BY <1>2, <2>1 DEF Job
  <2>3. j # Idle /\ k # Idle
    BY <1>2 DEF Job, Idle
  <2>4. QED  BY <1>2, <2>2, <2>3
<1>3. QED  BY <1>1, <1>2 DEF Keeps

LEMMA KeptFits ==
  ASSUME NEW j, NEW k, Keeps(j, k), Fits(j)
  PROVE  Fits(k)
<1>1. CASE k = Idle
  BY <1>1 DEF Fits
<1>2. CASE k # Idle
  <2>1. j # Idle /\ j \in Job /\ k \in Job
    BY <1>2, Kept DEF Keeps
  <2>2. /\ k.pc = j.pc /\ k.id = j.id /\ k.wrote = j.wrote /\ k.seen = j.seen
        /\ k.add = j.add /\ k.remove = j.remove /\ k.held \subseteq j.held
        /\ k.lone => j.lone
    BY <1>2, Kept
  <2>3. QED  BY <2>1, <2>2 DEF Fits
<1>3. QED  BY <1>1, <1>2

LEMMA KeptBehind ==
  ASSUME NEW j, NEW k, Keeps(j, k), Behind(j)
  PROVE  Behind(k)
<1>1. k.pc = j.pc
  BY Kept
<1>2. CASE k = Idle
  <2>1. j = Idle
    BY <1>2, Kept
  <2>2. QED  BY <1>2, <2>1
<1>3. CASE k # Idle
  <2>1. /\ k.id = j.id /\ k.cids = j.cids /\ k.seen = j.seen /\ k.add = j.add
        /\ k.remove = j.remove
    BY <1>3, Kept
  <2>2. QED  BY <1>1, <2>1 DEF Behind, ToGo
<1>4. QED  BY <1>2, <1>3

\* Some releases may be written, but none is made or taken for another's.
SameReleases ==
  /\ Existing' = Existing
  /\ \A id \in Existing : /\ store'[id].creator = store[id].creator
                          /\ store'[id].tag = store[id].tag

\* A command moves on to a new state: what the invariant asks of that step.
\* Nothing is asked about the others.
LEMMA Moved ==
  ASSUME IInv, NEW p \in Running, NEW new, proc'[p] = new,
         proc' \in [Proc -> Job \cup {Idle}],
         \A q \in Proc \ {p} : Keeps(proc[q], proc'[q]),
         Stored', Existing \subseteq Existing', seeded' \subseteq Id \X Cid,
         Fits(new)',
         new # Idle /\ new.lone =>
           /\ proc[p].lone
           /\ new.pc = "rows" =>
                \A id \in Existing' : \A at \in store'[id].urls :
                  at[2] # "current" => <<id, at[1], at[2]>> \in new.remove,
         ~doubled' => Apart',
         ~loose' => \/ Even'
                    \/ ~loose /\ Stale' = {} /\ Behind(new)'
  PROVE  IInv'
<1>1. /\ Sound /\ \A q \in Proc : Undisturbed(q)
      /\ proc[p] # Idle /\ p \in Proc
  BY DEF IInv, Running
<1>2. \A q \in Proc \ {p} : /\ proc'[q] = Idle <=> proc[q] = Idle
                            /\ proc'[q] # Idle => /\ proc'[q].wrote = proc[q].wrote
                                                  /\ proc'[q].lone => proc[q].lone
  BY Kept
<1>3. /\ Running' \subseteq Running
      /\ Running \ {p} \subseteq Running'
      /\ p \in Running' <=> new # Idle
  BY <1>1, <1>2 DEF Running
<1>4. Sound'
  <2>1. ASSUME NEW q \in Proc  PROVE Fits(proc[q])'
    <3>1. CASE q = p
      BY <3>1
    <3>2. CASE q # p
      <4>1. PICK k : k = proc'[q]
        OBVIOUS
      <4>2. Keeps(proc[q], k) /\ Fits(proc[q])
        BY <1>1, <3>2, <4>1 DEF Sound
      <4>3. Fits(k)
        BY <4>2, KeptFits
      <4>4. Fits(k)'
        BY <4>3, FitsStays
      <4>5. QED  BY <4>1, <4>4 DEF Fits
    <3>3. QED  BY <3>1, <3>2
  <2>2. QED  BY <2>1 DEF Sound
<1>5. ASSUME NEW q \in Proc  PROVE Undisturbed(q)'
  <2>1. CASE q = p
    <3>1. new # Idle /\ new.lone => Running = {p}
      BY <1>1 DEF Undisturbed
    <3>2. QED  BY <1>3, <2>1, <3>1 DEF Undisturbed, At
  <2>2. CASE q # p
    <3>1. proc'[q] # Idle /\ proc'[q].lone => Running = {q}
      BY <1>1, <1>2, <2>2 DEF Undisturbed
    <3>2. ~ (proc'[q] # Idle /\ proc'[q].lone)
      BY <2>2, <3>1
    <3>3. QED  BY <3>2 DEF Undisturbed
  <2>3. QED  BY <2>1, <2>2
<1>6. ~loose' => Even'
  <2>1. SUFFICES ASSUME ~loose, Stale' = {}, Behind(new)'  PROVE Even'
    OBVIOUS
  <2>2. \A q \in Running : q = p
    BY <2>1 DEF IInv, Even
  <2>3. \A q \in Running' : q = p
    BY <1>3, <2>2
  <2>4. ASSUME NEW q \in Running'  PROVE Behind(proc[q])'
    BY <2>1, <2>3, <2>4 DEF Behind
  <2>5. ASSUME Running' = {}  PROVE (seeded = Rows)'
    <3>1. new = Idle
      BY <1>3, <2>5
    <3>2. QED  BY <2>1, <3>1 DEF Behind, Idle
  <2>6. QED  BY <2>1, <2>3, <2>4, <2>5 DEF Even
<1>7. QED  BY <1>4, <1>5, <1>6 DEF IInv

\* The releases stay what they are and no command is to make another.
LEMMA ApartStays ==
  ASSUME Apart, SameReleases, Running' \subseteq Running,
         \A p \in Running' : At(p, "mint")' => At(p, "mint") /\ proc'[p].tag = proc[p].tag
  PROVE  Apart'
<1>1. \A a, b \in Existing' :
        store'[a].creator = Local /\ store'[b].creator = Local /\ store'[a].tag = store'[b].tag
          => a = b
  BY DEF Apart, SameReleases
<1>2. \A p, q \in Running' : p = q
  BY DEF Apart
<1>3. ASSUME NEW p \in Running', At(p, "mint")', NEW id \in Existing',
             store'[id].creator = Local
      PROVE  store'[id].tag # proc'[p].tag
  <2>1. p \in Running /\ At(p, "mint") /\ proc'[p].tag = proc[p].tag
    BY <1>3
  <2>2. id \in Existing /\ store[id].creator = Local /\ store'[id].tag = store[id].tag
    BY <1>3 DEF SameReleases
  <2>3. QED  BY <2>1, <2>2 DEF Apart
<1>4. QED  BY <1>1, <1>2, <1>3 DEF Apart

\* A release that is written again is still the same.
LEMMA Rewritten ==
  ASSUME Stored, NEW id \in Existing, NEW release \in Release, Sign(id, release),
         \A at \in release.urls : at[1] \in release.carries,
         release.creator = store[id].creator, release.tag = store[id].tag
  PROVE  /\ Stored' /\ SameReleases /\ unannounced' /\ store'[id] = release
         /\ \A other \in Id : other # id => store'[other] = store[other]
<1>1. id \in Id
  BY DEF Existing
<1>2. /\ Stored' /\ Existing' = Existing \cup {id} /\ store'[id] = release
      /\ \A other \in Id : other # id => store'[other] = store[other]
      /\ unannounced'
  BY <1>1, Written
<1>3. SameReleases
  BY <1>2 DEF SameReleases, Existing
<1>4. QED  BY <1>2, <1>3

\* Nothing but the state of a command changes.
LEMMA Unwritten ==
  ASSUME Stored, UNCHANGED store
  PROVE  Stored' /\ SameReleases /\ Existing' = Existing /\ Rows' = Rows /\ Stale' = Stale
BY DEF Stored, SameReleases, Existing, Rows, Stale

-----------------------------------------------------------------------------
\* Whoever is disturbed goes on with all that was known of it but that it is alone.
LEMMA DisturbedIs ==
  ASSUME proc \in [Proc -> Job \cup {Idle}]
  PROVE  /\ Disturbed \in [Proc -> Job \cup {Idle}]
         /\ \A q \in Proc : Keeps(proc[q], Disturbed[q])
         /\ \A q \in Running : ~Disturbed[q].lone
<1>1. ASSUME NEW q \in Running
      PROVE  /\ [proc[q] EXCEPT !.lone = FALSE] \in Job
             /\ Keeps(proc[q], [proc[q] EXCEPT !.lone = FALSE])
             /\ ~[proc[q] EXCEPT !.lone = FALSE].lone
  <2>1. PICK j \in Job : j = proc[q]
    BY <1>1 DEF Running
  <2>2. PICK k : k = [j EXCEPT !.lone = FALSE]
    OBVIOUS
  <2>3. k \in Job /\ k = [j EXCEPT !.held = k.held, !.lone = k.lone]
    BY <2>2 DEF Job
  <2>4. k.held = j.held /\ ~k.lone
    BY <2>2 DEF Job
  <2>5. QED  BY <2>1, <2>2, <2>3, <2>4 DEF Keeps
<1>2. Keeps(Idle, Idle)
  BY DEF Keeps
<1>3. QED  BY <1>1, <1>2 DEF Disturbed, Running

\* A command begins.
LEMMA Started ==
  ASSUME IInv, NEW p \in Proc, NEW job \in Job, Start(p, job),
         job.pc \in {"mint", "register", "seed", "unseed", "list", "edit", "end"},
         job.pc \in {"register", "seed", "edit"} => job.id \in Existing,
         job.pc = "unseed" => job.id \in Existing \cup {0} /\ job.remove = {},
         job.cmd = "reconcile" => job.pc = "list",
         job.pc = "mint" /\ ~job.asked =>
           \A id \in Existing : store[id].creator = Local => store[id].tag # job.tag
  PROVE  IInv'
<1>1. /\ Sound /\ \A q \in Proc : Undisturbed(q)
  BY DEF IInv
<1>2. PICK new \in Job :
        /\ new = [job EXCEPT !.lone = (Running = {} /\ job.cmd = "reconcile")]
        /\ new.pc = job.pc /\ new.id = job.id /\ new.tag = job.tag
        /\ new.remove = job.remove /\ (new.lone => Running = {} /\ job.cmd = "reconcile")
  <2>1. PICK alone \in BOOLEAN : alone = (Running = {} /\ job.cmd = "reconcile")
    OBVIOUS
  <2> DEFINE new == [job EXCEPT !.lone = alone]
  <2>2. /\ new \in Job /\ new.pc = job.pc /\ new.id = job.id /\ new.tag = job.tag
        /\ new.remove = job.remove /\ new.lone = alone
    BY DEF Job
  <2>3. new = [job EXCEPT !.lone = (Running = {} /\ job.cmd = "reconcile")]
    BY <2>1
  <2> HIDE DEF new
  <2>4. QED  BY <2>1, <2>2, <2>3
<1>3. new # Idle
  BY <1>2 DEF Job, Idle
<1>4. /\ p \notin Running /\ proc' = [Disturbed EXCEPT ![p] = new]
      /\ loose' = (loose \/ Running # {})
      /\ doubled' = (doubled \/ Running # {} \/ (job.asked /\ job.pc = "mint"))
      /\ UNCHANGED <<store, seeded, unannounced>>
  BY <1>2 DEF Start
<1>5. /\ Stored' /\ Existing' = Existing /\ Rows' = Rows /\ Stale' = Stale
  BY <1>1, <1>4, Unwritten DEF Sound
<1>6. /\ proc' \in [Proc -> Job \cup {Idle}] /\ proc'[p] = new
      /\ \A q \in Proc \ {p} : Keeps(proc[q], proc'[q])
  BY <1>1, <1>2, <1>4, DisturbedIs DEF Sound
<1>7. \A q \in Proc \ {p} : /\ proc'[q] = Idle <=> proc[q] = Idle
                            /\ proc'[q] # Idle => proc'[q].wrote = proc[q].wrote
  BY <1>6, Kept
<1>8. Running' = Running \cup {p}
  BY <1>3, <1>6, <1>7 DEF Running
<1>9. Sound'
  <2>1. ASSUME NEW q \in Proc  PROVE Fits(proc[q])'
    <3>1. CASE q = p
      <4>1. Fits(new)
        BY <1>2 DEF Fits
      <4>2. Fits(new)'
        BY <1>5, <4>1, FitsStays
      <4>3. QED  BY <1>6, <3>1, <4>2 DEF Fits
    <3>2. CASE q # p
      <4>1. PICK k : k = proc'[q]
        OBVIOUS
      <4>2. Fits(k)
        BY <1>1, <1>6, <3>2, <4>1, KeptFits DEF Sound
      <4>3. Fits(k)'
        BY <1>5, <4>2, FitsStays
      <4>4. QED  BY <4>1, <4>3 DEF Fits
    <3>3. QED  BY <3>1, <3>2
  <2>2. QED  BY <1>1, <1>4, <1>5, <1>6, <2>1 DEF Sound
<1>10. ASSUME NEW q \in Proc  PROVE Undisturbed(q)'
  <2>1. CASE q = p
    BY <1>2, <1>6, <1>8, <2>1 DEF Undisturbed, At
  <2>2. CASE q # p
    <3>1. Disturbed \in [Proc -> Job \cup {Idle}] /\ (q \in Running => ~Disturbed[q].lone)
      BY <1>1, DisturbedIs DEF Sound
    <3>2. q \in Running => ~proc'[q].lone
      BY <1>4, <2>2, <3>1
    <3>3. proc'[q] # Idle => q \in Running
      BY <1>7, <2>2 DEF Running
    <3>4. QED  BY <3>2, <3>3 DEF Undisturbed
  <2>3. QED  BY <2>1, <2>2
<1>11. ~doubled' => Apart'
  <2>1. SUFFICES ASSUME ~doubled, Running = {}, ~(job.asked /\ job.pc = "mint")
                 PROVE  Apart'
    BY <1>4
  <2>2. Apart /\ Running' = {p}
    BY <1>8, <2>1 DEF IInv
  <2>3. \A a, b \in Existing' :
          store'[a].creator = Local /\ store'[b].creator = Local /\ store'[a].tag = store'[b].tag
            => a = b
    BY <1>4, <1>5, <2>2 DEF Apart
  <2>4. At(p, "mint")' =>
          \A id \in Existing' : store'[id].creator = Local => store'[id].tag # proc'[p].tag
    BY <1>2, <1>4, <1>5, <1>6, <2>1 DEF At
  <2>5. QED  BY <2>2, <2>3, <2>4 DEF Apart
<1>12. ~loose' => Even'
  <2>1. SUFFICES ASSUME ~loose, Running = {}  PROVE Even'
    BY <1>4
  <2>2. Stale = {} /\ seeded = Rows /\ Running' = {p}
    BY <1>8, <2>1 DEF IInv, Even
  <2>3. Behind(proc[p])'
    BY <1>2, <1>4, <1>5, <1>6, <2>2 DEF Behind
  <2>4. QED  BY <1>5, <2>2, <2>3 DEF Even
<1>13. QED  BY <1>9, <1>10, <1>11, <1>12 DEF IInv

LEMMA NewJobIs ==
  ASSUME NEW cmd \in {"create", "register", "edit", "seed", "fetch", "unseed", "reconcile"},
         NEW pc \in {"register", "seed", "unseed", "list", "edit", "end"}
  PROVE  /\ NewJob(cmd, pc) \in Job /\ NewJob(cmd, pc).cmd = cmd /\ NewJob(cmd, pc).pc = pc
         /\ NewJob(cmd, pc).id = 0 /\ ~NewJob(cmd, pc).asked /\ NewJob(cmd, pc).remove = {}
BY DEF NewJob, Job, Ref

\* CreateTarget finds every release that there may be only one of.
LEMMA StartCreateKeeps ==
  ASSUME IInv, NEW p \in Proc, NEW tag \in Ref, StartCreate(p, tag)
  PROVE  IInv'
<1>1. PICK idle \in Job : idle = NewJob("create", "end") /\ idle.cmd = "create" /\ idle.pc = "end"
  BY NewJobIs
<1>2. PICK job \in Job : /\ job = [idle EXCEPT !.tag = tag]
                         /\ job.cmd = "create" /\ job.pc = "end" /\ job.tag = tag
  <2> DEFINE j == [idle EXCEPT !.tag = tag]
  <2>1. j \in Job /\ j.cmd = "create" /\ j.pc = "end" /\ j.tag = tag
    BY <1>1 DEF Job
  <2>2. QED  BY <2>1
<1>3. ASSUME CreateTarget(tag) = {}, Start(p, [job EXCEPT !.pc = "mint"])
      PROVE  IInv'
  <2>1. \A id \in Existing : store[id].creator = Local => store[id].tag # tag
    BY <1>3 DEF CreateTarget
  <2> DEFINE new == [job EXCEPT !.pc = "mint"]
  <2>2. new \in Job /\ new.cmd = "create" /\ new.pc = "mint" /\ new.tag = tag
    BY <1>2 DEF Job
  <2>3. Start(p, new)
    BY <1>3
  <2> HIDE DEF new
  <2>4. QED  BY <2>2, <2>3, <2>1, Started
<1>4. ASSUME NEW id \in Id, Start(p, [job EXCEPT !.id = id])
      PROVE  IInv'
  <2> DEFINE new == [job EXCEPT !.id = id]
  <2>1. new \in Job /\ new.cmd = "create" /\ new.pc = "end"
    BY <1>2 DEF Job
  <2>2. Start(p, new)
    BY <1>4
  <2> HIDE DEF new
  <2>3. QED  BY <2>1, <2>2, Started
<1>5. QED  BY <1>1, <1>2, <1>3, <1>4 DEF StartCreate, CreateTarget, Existing

\* A release is made unasked only when no release of the user is to be seen.
LEMMA StartRegisterKeeps ==
  ASSUME IInv, NEW p \in Proc, NEW tag \in Ref, NEW cids \in Plans,
         StartRegister(p, tag, cids)
  PROVE  IInv'
<1>1. PICK idle \in Job : /\ idle = NewJob("register", "register")
                          /\ idle.cmd = "register" /\ idle.pc = "register"
  BY NewJobIs
<1>2. PICK job \in Job : /\ job = [idle EXCEPT !.tag = tag, !.cids = cids, !.left = cids]
                         /\ job.cmd = "register" /\ job.pc = "register"
  <2> DEFINE j == [idle EXCEPT !.tag = tag, !.cids = cids, !.left = cids]
  <2>1. j \in Job /\ j.cmd = "register" /\ j.pc = "register"
    BY <1>1 DEF Job, Plans
  <2>2. QED  BY <2>1
<1>3. job.cmd = "register" /\ job.pc = "register"
  BY <1>2
<1>4. PICK allAuthors \in BOOLEAN :
        \/ \E id \in Existing : Start(p, [job EXCEPT !.id = id, !.asked = TRUE])
        \/ Visible(allAuthors) = {} /\ Start(p, [job EXCEPT !.pc = "mint"])
        \/ PickReleaseOrCreate(p, Visible(allAuthors), job)
        \/ \E id \in Visible(allAuthors) : Start(p, [job EXCEPT !.id = id])
  BY <1>1, <1>2 DEF StartRegister
<1>5. ASSUME NEW id \in Existing, Start(p, [job EXCEPT !.id = id, !.asked = TRUE])
      PROVE  IInv'
  <2>1. id \in Id
    BY DEF Existing
  <2> DEFINE new == [job EXCEPT !.id = id, !.asked = TRUE]
  <2>2. new \in Job /\ new.cmd = "register" /\ new.pc = "register" /\ new.id = id
    BY <1>3, <2>1 DEF Job
  <2>3. Start(p, new)
    BY <1>5
  <2> HIDE DEF new
  <2>4. QED  BY <2>2, <2>3, Started
<1>6. ASSUME NEW id \in Existing, Start(p, [job EXCEPT !.id = id])
      PROVE  IInv'
  <2>1. id \in Id
    BY DEF Existing
  <2> DEFINE new == [job EXCEPT !.id = id]
  <2>2. new \in Job /\ new.cmd = "register" /\ new.pc = "register" /\ new.id = id
    BY <1>3, <2>1 DEF Job
  <2>3. Start(p, new)
    BY <1>6
  <2> HIDE DEF new
  <2>4. QED  BY <2>2, <2>3, Started
<1>7. ASSUME Visible(allAuthors) = {}, Start(p, [job EXCEPT !.pc = "mint"])
      PROVE  IInv'
  <2>1. \A id \in Existing : store[id].creator # Local
    BY <1>7 DEF Visible
  <2> DEFINE new == [job EXCEPT !.pc = "mint"]
  <2>2. new \in Job /\ new.cmd = "register" /\ new.pc = "mint"
    BY <1>3 DEF Job
  <2>3. Start(p, new)
    BY <1>7
  <2> HIDE DEF new
  <2>4. QED  BY <2>2, <2>3, <2>1, Started
<1>8. ASSUME Start(p, [job EXCEPT !.pc = "mint", !.asked = TRUE])
      PROVE  IInv'
  <2> DEFINE new == [job EXCEPT !.pc = "mint", !.asked = TRUE]
  <2>1. new \in Job /\ new.cmd = "register" /\ new.pc = "mint" /\ new.asked
    BY <1>3 DEF Job
  <2>2. Start(p, new)
    BY <1>8
  <2> HIDE DEF new
  <2>3. QED  BY <2>1, <2>2, Started
<1>9. Visible(allAuthors) \subseteq Existing
  BY DEF Visible
<1>10. PickReleaseOrCreate(p, Visible(allAuthors), job) => IInv'
  BY <1>5, <1>8, <1>9 DEF PickReleaseOrCreate
<1>11. QED  BY <1>4, <1>5, <1>6, <1>7, <1>9, <1>10

LEMMA BeginKeeps ==
  ASSUME IInv, NEW p \in Proc, Begin(p)
  PROVE  IInv'
<1>1. ASSUME NEW cid \in Cid, StartSeed(p, cid) PROVE IInv'
  <2>1. PICK id \in Existing :
          Start(p, [NewJob("seed", "seed") EXCEPT !.id = id, !.cids = {cid}, !.left = {cid}])
    BY <1>1 DEF StartSeed
  <2>2. PICK job \in Job : /\ job = NewJob("seed", "seed") /\ job.cmd = "seed" /\ job.pc = "seed"
                          /\ job.remove = {}
    BY NewJobIs
  <2>3. id \in Id \cup {0} /\ id \in Existing
    BY DEF Existing, Carrying
  <2> DEFINE new == [job EXCEPT !.id = id, !.cids = {cid}, !.left = {cid}]
  <2>4. new \in Job /\ new.cmd = "seed" /\ new.pc = "seed" /\ new.id = id
    BY <2>2, <2>3 DEF Job
  <2>5. Start(p, new)
    BY <2>1, <2>2
  <2> HIDE DEF new
  <2>6. QED  BY <2>4, <2>5, <2>3, Started
<1>2. ASSUME NEW cid \in Cid, StartFetch(p, cid) PROVE IInv'
  <2>1. PICK id \in Carrying(cid) :
          Start(p, [NewJob("fetch", "seed") EXCEPT !.id = id, !.cids = {cid}, !.left = {cid}])
    BY <1>2 DEF StartFetch
  <2>2. PICK job \in Job : /\ job = NewJob("fetch", "seed") /\ job.cmd = "fetch" /\ job.pc = "seed"
                          /\ job.remove = {}
    BY NewJobIs
  <2>3. id \in Id \cup {0} /\ id \in Existing
    BY DEF Existing, Carrying
  <2> DEFINE new == [job EXCEPT !.id = id, !.cids = {cid}, !.left = {cid}]
  <2>4. new \in Job /\ new.cmd = "fetch" /\ new.pc = "seed" /\ new.id = id
    BY <2>2, <2>3 DEF Job
  <2>5. Start(p, new)
    BY <2>1, <2>2
  <2> HIDE DEF new
  <2>6. QED  BY <2>4, <2>5, <2>3, Started
<1>3. ASSUME NEW cid \in Cid, StartUnseed(p, cid) PROVE IInv'
  <2>1. PICK id \in Existing \cup {0} :
          Start(p, [NewJob("unseed", "unseed") EXCEPT !.id = id, !.cids = {cid}])
    BY <1>3 DEF StartUnseed, UnseedScope
  <2>2. PICK job \in Job : /\ job = NewJob("unseed", "unseed") /\ job.cmd = "unseed" /\ job.pc = "unseed"
                          /\ job.remove = {}
    BY NewJobIs
  <2>3. id \in Id \cup {0}
    BY DEF Existing, Carrying
  <2> DEFINE new == [job EXCEPT !.id = id, !.cids = {cid}]
  <2>4. new \in Job /\ new.cmd = "unseed" /\ new.pc = "unseed" /\ new.id = id /\ new.remove = {}
    BY <2>2, <2>3 DEF Job
  <2>5. Start(p, new)
    BY <2>1, <2>2
  <2> HIDE DEF new
  <2>6. QED  BY <2>4, <2>5, <2>3, Started
<1>4. ASSUME StartEdit(p) PROVE IInv'
  <2>1. PICK id \in Existing :
          Start(p, [NewJob("edit", "edit") EXCEPT !.id = id])
    BY <1>4 DEF StartEdit
  <2>2. PICK job \in Job : /\ job = NewJob("edit", "edit") /\ job.cmd = "edit" /\ job.pc = "edit"
                          /\ job.remove = {}
    BY NewJobIs
  <2>3. id \in Id \cup {0} /\ id \in Existing
    BY DEF Existing, Carrying
  <2> DEFINE new == [job EXCEPT !.id = id]
  <2>4. new \in Job /\ new.cmd = "edit" /\ new.pc = "edit" /\ new.id = id
    BY <2>2, <2>3 DEF Job
  <2>5. Start(p, new)
    BY <2>1, <2>2
  <2> HIDE DEF new
  <2>6. QED  BY <2>4, <2>5, <2>3, Started
<1>5. ASSUME StartReconcile(p) PROVE IInv'
  <2>1. PICK job \in Job : /\ job = NewJob("reconcile", "list") /\ job.pc = "list"
    BY NewJobIs
  <2>2. QED  BY <1>5, <2>1, Started DEF StartReconcile
<1>6. QED
  BY <1>1, <1>2, <1>3, <1>4, <1>5, StartCreateKeeps, StartRegisterKeeps DEF Begin
-----------------------------------------------------------------------------
\* What is known of a command that is about to take a step.
LEMMA AtWork ==
  ASSUME IInv, NEW p \in Running
  PROVE  /\ p \in Proc /\ proc[p] \in Job /\ Fits(proc[p]) /\ Stored
         /\ seeded \subseteq Id \X Cid /\ proc \in [Proc -> Job \cup {Idle}]
         /\ ~loose => Stale = {} /\ Behind(proc[p])
         /\ ~doubled => Apart
BY DEF IInv, Sound, Running, Even

\* A command moves on to another state of its own, and makes no release.
LEMMA MovedSame ==
  ASSUME IInv, NEW p \in Running, NEW new \in Job \cup {Idle},
         proc' = [proc EXCEPT ![p] = new],
         Stored', SameReleases, seeded' \subseteq Id \X Cid, Fits(new), new.pc # "mint",
         UNCHANGED doubled,
         new # Idle /\ new.lone =>
           /\ proc[p].lone
           /\ new.pc = "rows" =>
                \A id \in Existing' : \A at \in store'[id].urls :
                  at[2] # "current" => <<id, at[1], at[2]>> \in new.remove,
         ~loose' => \/ seeded' = Rows' /\ Stale' = {} /\ new = Idle
                    \/ ~loose /\ Stale' = {} /\ Behind(new)',
         loose /\ ~loose' => Running = {p}
  PROVE  IInv'
<1>1. /\ p \in Proc /\ proc \in [Proc -> Job \cup {Idle}]
      /\ \A q \in Proc : proc[q] \in Job \cup {Idle}
  BY AtWork
<1>2. proc'[p] = new /\ proc' \in [Proc -> Job \cup {Idle}]
  BY <1>1
<1>3. \A q \in Proc \ {p} : Keeps(proc[q], proc'[q])
  <2>1. ASSUME NEW j \in Job \cup {Idle}  PROVE Keeps(j, j)
    BY DEF Keeps, Job
  <2>2. QED  BY <1>1, <2>1
<1>4. Existing' = Existing
  BY DEF SameReleases
<1>5. Fits(new)'
  BY <1>4, FitsStays
<1>6. /\ Running' \subseteq Running
      /\ new = Idle /\ Running = {p} => Running' = {}
  <2>1. \A q \in Proc \ {p} : proc'[q] = proc[q]
    BY <1>1
  <2>2. QED  BY <1>1, <1>2, <2>1 DEF Running
<1>7. ~doubled' => Apart'
  <2>1. SUFFICES ASSUME ~doubled  PROVE Apart'
    OBVIOUS
  <2>2. Apart
    BY <2>1, AtWork
  <2>3. \A q \in Running' : q = p
    BY <1>6, <2>2 DEF Apart
  <2>4. \A q \in Running' : ~At(q, "mint")'
    BY <1>2, <2>3 DEF At
  <2>5. QED  BY <1>6, <2>2, <2>4, ApartStays
<1>8. ~loose' => \/ Even'
                 \/ ~loose /\ Stale' = {} /\ Behind(new)'
  <2>1. ASSUME ~loose', seeded' = Rows', Stale' = {}, new = Idle  PROVE Even'
    <3>1. Running = {p}
      <4>1. CASE loose
        BY <2>1, <4>1
      <4>2. CASE ~loose
        BY <4>2 DEF IInv, Even
      <4>3. QED  BY <4>1, <4>2
    <3>2. Running' = {}
      BY <1>6, <2>1, <3>1
    <3>3. QED  BY <2>1, <3>2 DEF Even
  <2>2. QED  BY <2>1
<1>9. QED  BY <1>2, <1>3, <1>4, <1>5, <1>7, <1>8, Moved

\* Where no location changes, nor does what is advertised.
LEMMA UrlsStay ==
  ASSUME SameReleases, \A id \in Existing : store'[id].urls = store[id].urls
  PROVE  Rows' = Rows /\ Stale' = Stale
BY DEF SameReleases, Rows, Stale

\* A new release is newer than all there are, and the only one of its tag.
LEMMA MintKeeps == ASSUME IInv, NEW p \in Running, Mint(p) PROVE IInv'
<1>1. PICK job \in Job : job = proc[p]
  BY AtWork
<1>2. PICK max, id : max = Max(Existing \cup {0}) /\ id = 1 + max
  OBVIOUS
<1> DEFINE release == [creator |-> Local, tag |-> job.tag, carries |-> {}, urls |-> {}]
           next == IF job.cmd = "create" THEN "end" ELSE "register"
           new == [job EXCEPT !.id = id, !.wrote = TRUE, !.pc = next]
<1>3. /\ job.pc = "mint" /\ id \in Id /\ Sign(id, release)
      /\ proc' = [proc EXCEPT ![p] = new]
      /\ UNCHANGED <<seeded, loose, doubled>>
  <2>1. proc[p] \in Job /\ proc \in [Proc -> Job \cup {Idle}]
    BY AtWork
  <2>2. proc' = [proc EXCEPT ![p].id = id, ![p].wrote = TRUE, ![p].pc = next]
    BY <1>1, <1>2 DEF Mint
  <2>3. proc' = [proc EXCEPT ![p] = new]
    BY <1>1, <2>1, <2>2
  <2>4. /\ job.pc = "mint" /\ id \in Id /\ Sign(id, release)
        /\ UNCHANGED <<seeded, loose, doubled>>
    BY <1>1, <1>2 DEF Mint, At, history
  <2>5. QED  BY <2>3, <2>4
<1>4. /\ new \in Job /\ new.id = id /\ new.wrote /\ new.pc = next /\ new.lone = job.lone
      /\ new.pc \in {"end", "register"}
  <2>1. PICK to \in {"end", "register"} : to = next
    OBVIOUS
  <2>2. id \in Id
    BY <1>3
  <2> HIDE DEF next
  <2>3. new = [job EXCEPT !.id = id, !.wrote = TRUE, !.pc = to]
    BY <2>1
  <2> HIDE DEF new
  <2>4. QED  BY <2>1, <2>2, <2>3 DEF Job
<1>5. new # Idle
  BY <1>4 DEF Job, Idle
<1>6. ~job.lone /\ (~loose => Stale = {} /\ seeded = Rows) /\ (~doubled => Apart)
  BY <1>1, <1>3, AtWork DEF Fits, Behind, Idle, Job
<1>7. release \in Release /\ release.urls = {} /\ release.creator = Local /\ release.tag = job.tag
  BY CommandsAssumption DEF Release, Job
<1> HIDE DEF new, release
<1>8. id \notin Existing
  <2>1. Existing \cup {0} \in SUBSET Nat
    BY CommandsAssumption DEF Existing
  <2>2. max \in Existing \cup {0} /\ \A m \in Existing \cup {0} : m <= max
    BY <1>2, AtWork, Newest
  <2>3. ASSUME id \in Existing  PROVE FALSE
    <3>1. id \in Nat /\ max \in Nat /\ id <= max
      BY <2>1, <2>2, <2>3
    <3>2. QED  BY <1>2, <3>1
  <2>4. QED  BY <2>3
<1>9. /\ Stored' /\ Existing' = Existing \cup {id} /\ store'[id] = release
      /\ \A other \in Existing : store'[other] = store[other]
      /\ unannounced'
  BY <1>3, <1>7, <1>8, AtWork, Written DEF Existing
<1>10. Rows' = Rows /\ Stale' = Stale
  BY <1>7, <1>8, <1>9 DEF Rows, Stale
<1>11. /\ proc'[p] = new /\ proc' \in [Proc -> Job \cup {Idle}]
       /\ \A q \in Proc \ {p} : Keeps(proc[q], proc'[q])
       /\ \A q \in Proc \ {p} : proc'[q] = proc[q]
  <2>1. /\ p \in Proc /\ proc \in [Proc -> Job \cup {Idle}]
        /\ \A q \in Proc : proc[q] \in Job \cup {Idle}
    BY AtWork
  <2>2. ASSUME NEW j \in Job \cup {Idle}  PROVE Keeps(j, j)
    BY DEF Keeps, Job
  <2>3. QED  BY <1>3, <1>4, <2>1, <2>2
<1>12. Fits(new)'
  BY <1>4, <1>6, <1>9 DEF Fits
<1>13. ~doubled' => Apart'
  <2>1. SUFFICES ASSUME Apart  PROVE Apart'
    BY <1>3, <1>6
  <2>2. \A other \in Existing : store[other].creator = Local => store[other].tag # job.tag
    BY <1>1, <1>3, <2>1 DEF Apart, At
  <2>3. \A a, b \in Existing' :
          store'[a].creator = Local /\ store'[b].creator = Local /\ store'[a].tag = store'[b].tag
            => a = b
    BY <1>7, <1>9, <2>1, <2>2 DEF Apart
  <2>4. Running' \subseteq {p}
    BY <1>11, <2>1 DEF Apart, Running
  <2>5. ~At(p, "mint")'
    BY <1>4, <1>11 DEF At
  <2>6. QED  BY <2>3, <2>4, <2>5 DEF Apart
<1>14. ~loose' => ~loose /\ Stale' = {} /\ Behind(new)'
  BY <1>3, <1>4, <1>6, <1>10 DEF Behind
<1>15. QED
  BY <1>3, <1>4, <1>5, <1>6, <1>9, <1>11, <1>12, <1>13, <1>14, AtWork, Moved

LEMMA RegisterKeeps ==
  ASSUME IInv, NEW p \in Running, NEW cid \in Cid, Register(p, cid)
  PROVE  IInv'
<1>1. PICK job \in Job : job = proc[p]
  BY AtWork
<1>2. /\ job.pc = "register" /\ Sign(job.id, [store[job.id] EXCEPT !.carries = @ \cup {cid}])
      /\ UNCHANGED <<seeded, loose, doubled>>
  BY <1>1 DEF Register, At, history
<1>3. PICK next, left :
        /\ proc' = [proc EXCEPT ![p] = [job EXCEPT !.pc = next, !.left = left, !.wrote = TRUE]]
        /\ next \in {"register", "seed", "end"} /\ left \in SUBSET Cid
  <2>1. proc[p] \in Job /\ proc \in [Proc -> Job \cup {Idle}] /\ p \in Proc
    BY AtWork
  <2>2. CASE job.left # {cid} /\ proc' = [proc EXCEPT ![p].left = @ \ {cid}, ![p].wrote = TRUE]
    <3>1. [job EXCEPT !.left = @ \ {cid}, !.wrote = TRUE] =
            [job EXCEPT !.pc = "register", !.left = job.left \ {cid}, !.wrote = TRUE]
      BY <1>1 DEF Register, At, Job
    <3>2. job.left \ {cid} \in SUBSET Cid
      BY DEF Job
    <3>3. proc' = [proc EXCEPT ![p] = [job EXCEPT !.left = @ \ {cid}, !.wrote = TRUE]]
      BY <1>1, <2>1, <2>2
    <3>4. QED  BY <3>1, <3>2, <3>3
  <2>3. ASSUME NEW seed \in BOOLEAN,
               proc' = [proc EXCEPT ![p].pc = IF seed THEN "seed" ELSE "end",
                          ![p].left = IF seed THEN job.cids ELSE {}, ![p].wrote = TRUE]
        PROVE  \E next, left :
                 /\ proc' = [proc EXCEPT ![p] =
                      [job EXCEPT !.pc = next, !.left = left, !.wrote = TRUE]]
                 /\ next \in {"register", "seed", "end"} /\ left \in SUBSET Cid
    <3>1. (IF seed THEN job.cids ELSE {}) \in SUBSET Cid
      BY DEF Job
    <3>2. PICK next, left : /\ next = (IF seed THEN "seed" ELSE "end")
                            /\ left = (IF seed THEN job.cids ELSE {})
      OBVIOUS
    <3>3. proc' = [proc EXCEPT ![p].pc = next, ![p].left = left, ![p].wrote = TRUE]
      BY <2>3, <3>2
    <3>4. proc' = [proc EXCEPT ![p] = [job EXCEPT !.pc = next, !.left = left, !.wrote = TRUE]]
      BY <1>1, <2>1, <3>3
    <3>5. QED  BY <3>1, <3>2, <3>4
  <2>4. \/ job.left # {cid} /\ proc' = [proc EXCEPT ![p].left = @ \ {cid}, ![p].wrote = TRUE]
        \/ \E seed \in BOOLEAN :
             proc' = [proc EXCEPT ![p].pc = IF seed THEN "seed" ELSE "end",
                        ![p].left = IF seed THEN job.cids ELSE {}, ![p].wrote = TRUE]
    BY <1>1 DEF Register
  <2>5. QED  BY <2>2, <2>3, <2>4
<1> DEFINE new == [job EXCEPT !.pc = next, !.left = left, !.wrote = TRUE]
           release == [store[job.id] EXCEPT !.carries = @ \cup {cid}]
<1>4. new \in Job /\ new.pc = next /\ new.id = job.id /\ new.wrote /\ new.lone = job.lone
  BY <1>3 DEF Job
<1>5. /\ ~job.lone /\ job.id \in Existing /\ job.id \in Id
      /\ ~loose => Stale = {} /\ seeded = Rows
  BY <1>1, <1>2, AtWork DEF Fits, Behind, Idle, Job, Existing
<1>6. /\ release \in Release /\ release.creator = store[job.id].creator
      /\ release.tag = store[job.id].tag /\ release.urls = store[job.id].urls
      /\ \A at \in release.urls : at[1] \in release.carries
  <2>1. store[job.id] \in Release /\ \A at \in store[job.id].urls : at[1] \in store[job.id].carries
    BY <1>5, AtWork DEF Stored, Existing
  <2>2. QED  BY <2>1 DEF Release
<1>7. proc' = [proc EXCEPT ![p] = new] /\ Sign(job.id, release)
  BY <1>2, <1>3
<1> HIDE DEF new, release
<1>8. /\ Stored' /\ SameReleases /\ Rows' = Rows /\ Stale' = Stale
  <2>1. /\ Stored' /\ SameReleases /\ store'[job.id] = release
        /\ \A other \in Id : other # job.id => store'[other] = store[other]
    BY <1>5, <1>6, <1>7, AtWork, Rewritten
  <2>2. QED  BY <1>6, <2>1, UrlsStay DEF Existing
<1>9. Fits(new)
  BY <1>3, <1>4, <1>5 DEF Fits
<1>10. Behind(new)' <=> (seeded = Rows)'
  BY <1>3, <1>4 DEF Behind
<1>11. /\ new \in Job \cup {Idle} /\ new.pc # "mint" /\ new # Idle /\ ~new.lone
       /\ seeded' \subseteq Id \X Cid
  BY <1>2, <1>3, <1>4, <1>5, AtWork DEF Job, Idle
<1>12. ~loose' => ~loose /\ Stale' = {} /\ Behind(new)'
  BY <1>2, <1>5, <1>8, <1>10
<1>13. QED
  BY <1>2, <1>4, <1>7, <1>8, <1>9, <1>11, <1>12, MovedSame

LEMMA EditKeeps == ASSUME IInv, NEW p \in Running, Edit(p) PROVE IInv'
<1>1. PICK job \in Job : job = proc[p]
  BY AtWork
<1>2. /\ job.pc = "edit" /\ UNCHANGED <<seeded, doubled>>
      /\ proc' = [proc EXCEPT ![p] = [job EXCEPT !.pc = "end", !.wrote = TRUE]]
  <2>1. proc[p] \in Job /\ proc \in [Proc -> Job \cup {Idle}] /\ p \in Proc
    BY AtWork
  <2>2. proc' = [proc EXCEPT ![p].pc = "end", ![p].wrote = TRUE]
    BY DEF Edit
  <2>3. QED  BY <1>1, <2>1, <2>2 DEF Edit, At
<1>3. /\ job.id \in Existing /\ job.id \in Id /\ ~job.lone
      /\ ~loose => Stale = {} /\ seeded = Rows
  BY <1>1, <1>2, AtWork DEF Fits, Behind, Idle, Job, Existing
<1>4. PICK release \in Release : release = store[job.id]
  BY <1>3, AtWork DEF Stored, Existing
<1>5. \A at \in release.urls : at[1] \in release.carries
  BY <1>3, <1>4, AtWork DEF Stored
<1>6. PICK after \in {[release EXCEPT !.urls = @ \cup {at}] : at \in release.carries \X ByHand}
               \cup {[release EXCEPT !.urls = @ \ {at}] : at \in release.urls} \cup {release} :
        /\ Sign(job.id, after)
        /\ loose' = (loose \/ after # release)
  BY <1>1, <1>4 DEF Edit
<1>7. /\ after \in Release /\ after.creator = release.creator /\ after.tag = release.tag
      /\ \A at \in after.urls : at[1] \in after.carries
  <2>1. ASSUME NEW at \in release.carries \X ByHand, after = [release EXCEPT !.urls = @ \cup {at}]
        PROVE  /\ after \in Release /\ after.creator = release.creator /\ after.tag = release.tag
               /\ after.carries = release.carries /\ after.urls = release.urls \cup {at}
    <3>1. at \in Cid \X Url
      BY CommandsAssumption DEF Release, Url
    <3>2. release.urls \cup {at} \in SUBSET (Cid \X Url)
      BY <3>1 DEF Release
    <3>3. QED  BY <2>1, <3>2 DEF Release
  <2>2. ASSUME NEW at \in release.urls, after = [release EXCEPT !.urls = @ \ {at}]
        PROVE  /\ after \in Release /\ after.creator = release.creator /\ after.tag = release.tag
               /\ after.carries = release.carries /\ after.urls \subseteq release.urls
    BY <2>2 DEF Release
  <2>3. QED  BY <1>5, <1>6, <2>1, <2>2
<1>8. /\ Stored' /\ SameReleases /\ store'[job.id] = after
      /\ \A other \in Id : other # job.id => store'[other] = store[other]
  BY <1>3, <1>4, <1>6, <1>7, AtWork, Rewritten
<1>9. ~loose' => ~loose /\ Stale' = {} /\ (seeded = Rows)'
  <2>1. SUFFICES ASSUME ~loose, after = release  PROVE Stale' = {} /\ (seeded = Rows)'
    BY <1>6
  <2>2. Rows' = Rows /\ Stale' = Stale
    BY <1>4, <1>8, <2>1, UrlsStay DEF Existing
  <2>3. QED  BY <1>2, <1>3, <2>1, <2>2
<1> DEFINE new == [job EXCEPT !.pc = "end", !.wrote = TRUE]
<1>10. new \in Job /\ new.pc = "end" /\ new.wrote /\ new.lone = job.lone
  BY DEF Job
<1>11. proc' = [proc EXCEPT ![p] = new]
  BY <1>2
<1> HIDE DEF new
<1>12. Fits(new) /\ new # Idle
  BY <1>3, <1>10 DEF Fits, Job, Idle
<1>13. Behind(new)' <=> (seeded = Rows)'
  BY <1>10 DEF Behind
<1>14. seeded' \subseteq Id \X Cid
  BY <1>2, AtWork
<1>15. QED
  BY <1>2, <1>3, <1>8, <1>9, <1>10, <1>11, <1>12, <1>13, <1>14, MovedSame

\* A command that ends writes nothing with its last step.
LEMMA Quits ==
  ASSUME IInv, NEW p \in Running, proc' = [proc EXCEPT ![p] = Idle],
         UNCHANGED <<store, doubled>>, seeded' \subseteq Id \X Cid,
         ~loose' => seeded' = Rows /\ Stale = {} /\ (~loose \/ Running = {p})
  PROVE  IInv'
<1>1. Idle \in Job \cup {Idle} /\ Fits(Idle) /\ Idle.pc # "mint"
  BY DEF Fits, Idle
<1>2. Stored' /\ SameReleases /\ Rows' = Rows /\ Stale' = Stale
  BY AtWork, Unwritten
<1>3. QED  BY <1>1, <1>2, MovedSame

LEMMA EndKeeps == ASSUME IInv, NEW p \in Running, End(p) PROVE IInv'
<1>1. PICK job \in Job : job = proc[p]
  BY AtWork
<1>2. /\ job.pc = "end" /\ proc' = [proc EXCEPT ![p] = Idle]
      /\ UNCHANGED <<store, seeded, loose, doubled>>
  BY <1>1 DEF End, At
<1>3. ~loose => Stale = {} /\ seeded = Rows
  BY <1>1, <1>2, AtWork DEF Behind
<1>4. seeded' \subseteq Id \X Cid
  BY <1>2, AtWork
<1>5. QED  BY <1>1, <1>2, <1>3, <1>4, Quits

LEMMA AbortKeeps == ASSUME IInv, NEW p \in Running, Abort(p) PROVE IInv'
<1>1. PICK job \in Job : job = proc[p]
  BY AtWork
<1>2. /\ proc' = [proc EXCEPT ![p] = Idle]
      /\ loose' = (loose \/ job.pc \in {"locate", "targets", "sweep", "rows"})
      /\ UNCHANGED <<store, seeded, unannounced, doubled>>
  BY <1>1 DEF Abort
<1>3. ~loose' => ~loose /\ Stale = {} /\ seeded = Rows
  BY <1>1, <1>2, AtWork DEF Behind
<1>4. seeded' \subseteq Id \X Cid
  BY <1>2, AtWork
<1>5. QED  BY <1>1, <1>2, <1>3, <1>4, Quits

LEMMA SeedTimesOutKeeps == ASSUME IInv, NEW p \in Running, SeedTimesOut(p) PROVE IInv'
<1>1. PICK job \in Job : job = proc[p]
  BY AtWork
<1>2. PICK cid \in job.left :
        /\ job.pc = "seed" /\ seeded' = seeded \cup {<<job.id, cid>>}
        /\ proc' = [proc EXCEPT ![p] = Idle]
        /\ loose'
        /\ UNCHANGED <<store, unannounced, doubled>>
  BY <1>1 DEF SeedTimesOut, At
<1>3. job.id \in Id /\ cid \in Cid
  BY <1>1, <1>2, AtWork DEF Fits, Job, Idle, Existing
<1>4. seeded' \subseteq Id \X Cid
  BY <1>2, <1>3, AtWork
<1>5. QED  BY <1>1, <1>2, <1>4, Quits

\* A full reconcile that nothing disturbed has removed all it had found, and so
\* nothing is left that does not point to this node.
LEMMA ReconcileDoneKeeps == ASSUME IInv, NEW p \in Running, ReconcileDone(p) PROVE IInv'
<1>1. PICK job \in Job : job = proc[p]
  BY AtWork
<1>2. /\ job.pc = "rows" /\ job.add = {} /\ job.remove = {}
      /\ proc' = [proc EXCEPT ![p] = Idle]
      /\ loose' = IF job.lone THEN ~Matched ELSE loose
      /\ UNCHANGED <<store, seeded, unannounced, doubled>>
  BY <1>1 DEF ReconcileDone, At
<1>3. ~loose => Stale = {} /\ seeded = Rows
  BY <1>1, <1>2, AtWork DEF Behind
<1>4. job.lone => Running = {p} /\ Stale = {}
  <2>1. SUFFICES ASSUME job.lone  PROVE Running = {p} /\ Stale = {}
    OBVIOUS
  <2>2. Undisturbed(p) /\ proc[p] # Idle
    BY AtWork DEF IInv, Running
  <2>3. /\ Running = {p}
        /\ \A id \in Existing : \A at \in store[id].urls : at[2] = "current"
    BY <1>1, <1>2, <2>1, <2>2 DEF Undisturbed, At
  <2>4. QED  BY <2>3 DEF Stale
<1>5. Matched => seeded = Rows
  BY DEF Matched, Rows
<1>6. ~loose' => seeded' = Rows /\ Stale = {} /\ (~loose \/ Running = {p})
  BY <1>2, <1>3, <1>4, <1>5
<1>7. seeded' \subseteq Id \X Cid
  BY <1>2, AtWork
<1>8. QED  BY <1>1, <1>2, <1>6, <1>7, Quits

\* A command goes on and writes nothing.
LEMMA Goes ==
  ASSUME IInv, NEW p \in Running, NEW new \in Job, proc' = [proc EXCEPT ![p] = new],
         UNCHANGED <<store, doubled>>, seeded' \subseteq Id \X Cid,
         Fits(new), new.pc # "mint",
         new.lone =>
           /\ proc[p].lone
           /\ new.pc = "rows" =>
                \A id \in Existing : \A at \in store[id].urls :
                  at[2] # "current" => <<id, at[1], at[2]>> \in new.remove,
         ~loose' => ~loose /\ Behind(new)'
  PROVE  IInv'
<1>1. Stored' /\ SameReleases /\ Existing' = Existing /\ Stale' = Stale
  BY AtWork, Unwritten
<1>2. new # Idle /\ new \in Job \cup {Idle}
  BY DEF Job, Idle
<1>3. ~loose' => ~loose /\ Stale' = {} /\ Behind(new)'
  BY <1>1, AtWork
<1>5. new # Idle /\ new.lone =>
        /\ proc[p].lone
        /\ new.pc = "rows" =>
             \A id \in Existing' : \A at \in store'[id].urls :
               at[2] # "current" => <<id, at[1], at[2]>> \in new.remove
  BY <1>1
<1>6. QED  BY <1>1, <1>2, <1>3, <1>5, MovedSame

LEMMA SeedTagKeeps == ASSUME IInv, NEW p \in Running, SeedTag(p) PROVE IInv'
<1>1. PICK job \in Job : job = proc[p]
  BY AtWork
<1>2. PICK cid \in job.left :
        /\ job.pc = "seed" /\ seeded' = seeded \cup {<<job.id, cid>>}
        /\ proc' = [proc EXCEPT ![p].pc = "locate", ![p].seen = {cid}]
        /\ UNCHANGED <<store, unannounced, loose, doubled>>
  BY <1>1 DEF SeedTag, At, history
<1> DEFINE new == [job EXCEPT !.pc = "locate", !.seen = {cid}]
<1>3. /\ new \in Job /\ new.pc = "locate" /\ new.seen = {cid} /\ new.id = job.id
      /\ new.wrote = job.wrote /\ new.lone = job.lone
  BY <1>2 DEF Job
<1>4. proc' = [proc EXCEPT ![p] = new]
  <2>1. proc[p] \in Job /\ proc \in [Proc -> Job \cup {Idle}] /\ p \in Proc
    BY AtWork
  <2>2. QED  BY <1>1, <1>2, <2>1
<1> HIDE DEF new
<1>5. /\ job.id \in Existing /\ job.id \in Id /\ cid \in Cid /\ ~job.lone
      /\ ~loose => seeded = Rows
  BY <1>1, <1>2, AtWork DEF Fits, Behind, Idle, Job, Existing
<1>6. Fits(new) /\ seeded' \subseteq Id \X Cid
  BY <1>2, <1>3, <1>5, AtWork DEF Fits
<1>7. ~loose => Behind(new)'
  <2>1. Rows' = Rows
    BY <1>2, AtWork, Unwritten
  <2>2. seeded' = seeded \cup ({job.id} \X {cid})
    BY <1>2
  <2>3. QED  BY <1>3, <1>5, <2>1, <2>2 DEF Behind
<1>8. QED  BY <1>1, <1>2, <1>3, <1>4, <1>5, <1>6, <1>7, Goes

LEMMA KeepLocalKeeps == ASSUME IInv, NEW p \in Running, KeepLocal(p) PROVE IInv'
<1>1. PICK job \in Job : job = proc[p]
  BY AtWork
<1>2. PICK cid \in job.seen :
        /\ job.pc = "locate" /\ proc' = NextToSeed(p, cid) /\ loose'
        /\ UNCHANGED <<store, seeded, unannounced, doubled>>
  BY <1>1 DEF KeepLocal, At
<1>3. PICK next, left : /\ next = (IF job.left = {cid} THEN "end" ELSE "seed")
                        /\ left = job.left \ {cid}
                        /\ next \in {"end", "seed"} /\ left \in SUBSET Cid
  <2>1. job.left \ {cid} \in SUBSET Cid
    BY DEF Job
  <2>2. QED  BY <2>1
<1> DEFINE new == [job EXCEPT !.left = left, !.seen = {}, !.pc = next]
<1>4. /\ new \in Job /\ new.pc = next /\ new.id = job.id
      /\ new.wrote = job.wrote /\ new.lone = job.lone
  <2>1. next \in {"end", "seed"} /\ left \in SUBSET Cid
    BY <1>3
  <2>2. QED  BY <2>1 DEF Job
<1>5. proc' = [proc EXCEPT ![p] = new]
  <2>1. proc[p] \in Job /\ proc \in [Proc -> Job \cup {Idle}] /\ p \in Proc
    BY AtWork
  <2>2. QED  BY <1>1, <1>2, <1>3, <2>1 DEF NextToSeed
<1> HIDE DEF new
<1>6. job.id \in Existing /\ ~job.lone /\ next \in {"end", "seed"}
  BY <1>1, <1>2, <1>3, AtWork DEF Fits, Idle, Job
<1>7. Fits(new) /\ seeded' \subseteq Id \X Cid
  BY <1>2, <1>4, <1>6, AtWork DEF Fits
<1>8. QED  BY <1>1, <1>2, <1>4, <1>5, <1>6, <1>7, Goes

LEMMA TargetsKeeps == ASSUME IInv, NEW p \in Running, Targets(p) PROVE IInv'
<1>1. PICK job \in Job : job = proc[p]
  BY AtWork
<1>2. PICK add : add = IF job.id # 0 THEN {job.id} \X job.cids
                       ELSE {row \in Id \X job.cids : row[1] \in Carrying(row[2])}
  OBVIOUS
<1>3. /\ job.pc = "targets" /\ proc' = [proc EXCEPT ![p].pc = "sweep", ![p].add = add]
      /\ UNCHANGED <<store, seeded, unannounced, loose, doubled>>
  BY <1>1, <1>2 DEF Targets, At, history
<1>4. /\ job.id \in Existing \cup {0} /\ job.remove = {} /\ ~job.lone /\ job.cids \subseteq Cid
      /\ ~loose => seeded = {row \in Rows : row[2] \in job.cids => job.id \notin {0, row[1]}}
  BY <1>1, <1>3, AtWork DEF Fits, Behind, Idle, Job
<1>5. add \subseteq Id \X Cid /\ \A row \in add : row[1] \in Existing
  <2>1. \A cid : Carrying(cid) \subseteq Existing
    BY DEF Carrying
  <2>2. Existing \subseteq Id
    BY DEF Existing
  <2>3. QED  BY <1>2, <1>4, <2>1, <2>2
<1> DEFINE new == [job EXCEPT !.pc = "sweep", !.add = add]
<1>6. /\ new \in Job /\ new.pc = "sweep" /\ new.add = add /\ new.remove = job.remove
      /\ new.wrote = job.wrote /\ new.lone = job.lone
  BY <1>5 DEF Job
<1>7. proc' = [proc EXCEPT ![p] = new]
  <2>1. proc[p] \in Job /\ proc \in [Proc -> Job \cup {Idle}] /\ p \in Proc
    BY AtWork
  <2>2. QED  BY <1>1, <1>3, <2>1
<1> HIDE DEF new
<1>8. Fits(new) /\ seeded' \subseteq Id \X Cid
  BY <1>3, <1>4, <1>5, <1>6, AtWork DEF Fits
<1>9. ~loose => seeded = Rows \ add
  <2>1. \A row \in Rows : row[1] \in Id /\ row[2] \in Cid /\ row = <<row[1], row[2]>>
    BY DEF Rows, Existing
  <2>2. \A row \in Rows : row[1] \in Carrying(row[2])
    BY AtWork DEF Rows, Carrying, Stored
  <2>3. \A row \in Rows : row \in add <=> row[2] \in job.cids /\ job.id \in {0, row[1]}
    BY <1>2, <2>1, <2>2
  <2>4. QED  BY <1>4, <2>3
<1>10. ~loose => Behind(new)'
  <2>1. Rows' = Rows
    BY <1>3, AtWork, Unwritten
  <2>2. ToGo(new) = add
    BY <1>4, <1>6 DEF ToGo
  <2>3. QED  BY <1>3, <1>6, <1>9, <2>1, <2>2 DEF Behind
<1>11. QED  BY <1>1, <1>3, <1>4, <1>6, <1>7, <1>8, <1>10, Goes

LEMMA SweptKeeps == ASSUME IInv, NEW p \in Running, Swept(p) PROVE IInv'
<1>1. PICK job \in Job : job = proc[p]
  BY AtWork
<1>2. /\ job.pc = "sweep" /\ job.add = {} /\ job.remove = {} /\ proc' = [proc EXCEPT ![p].pc = "end"]
      /\ UNCHANGED <<store, seeded, unannounced, loose, doubled>>
  BY <1>1 DEF Swept, At, history
<1> DEFINE new == [job EXCEPT !.pc = "end"]
<1>3. new \in Job /\ new.pc = "end" /\ new.wrote = job.wrote /\ new.lone = job.lone
  BY DEF Job
<1>4. proc' = [proc EXCEPT ![p] = new]
  <2>1. proc[p] \in Job /\ proc \in [Proc -> Job \cup {Idle}] /\ p \in Proc
    BY AtWork
  <2>2. QED  BY <1>1, <1>2, <2>1
<1> HIDE DEF new
<1>5. ~job.lone /\ (~loose => seeded = Rows)
  <2>1. ~job.lone
    BY <1>1, <1>2, AtWork DEF Fits, Idle, Job
  <2>2. ~loose => seeded = Rows \ ToGo(job)
    BY <1>1, <1>2, AtWork DEF Behind
  <2>3. ToGo(job) = {}
    BY <1>2 DEF ToGo
  <2>4. QED  BY <2>1, <2>2, <2>3
<1>6. Fits(new) /\ seeded' \subseteq Id \X Cid
  BY <1>2, <1>3, <1>5, AtWork DEF Fits
<1>7. ~loose => Behind(new)'
  <2>1. Rows' = Rows
    BY <1>2, AtWork, Unwritten
  <2>2. QED  BY <1>2, <1>3, <1>5, <2>1 DEF Behind
<1>8. QED  BY <1>1, <1>2, <1>3, <1>4, <1>5, <1>6, <1>7, Goes

LEMMA ListSeededKeeps == ASSUME IInv, NEW p \in Running, ListSeeded(p) PROVE IInv'
<1>1. PICK job \in Job : job = proc[p]
  BY AtWork
<1>2. PICK all : all = Seeded
  OBVIOUS
<1>3. /\ job.pc = "list"
      /\ proc' = [proc EXCEPT ![p].pc = "compare", ![p].seen = all, ![p].held = all]
      /\ UNCHANGED <<store, seeded, unannounced, loose, doubled>>
  BY <1>1, <1>2 DEF ListSeeded, At, history
<1>4. all \subseteq Cid /\ seeded' \subseteq Id \X Cid
  BY <1>2, <1>3, AtWork DEF Seeded
<1> DEFINE new == [job EXCEPT !.pc = "compare", !.seen = all, !.held = all]
<1>5. /\ new \in Job /\ new.pc = "compare" /\ new.seen = all /\ new.held = all
      /\ new.wrote = job.wrote /\ new.lone = job.lone
  BY <1>4 DEF Job
<1>6. proc' = [proc EXCEPT ![p] = new]
  <2>1. proc[p] \in Job /\ proc \in [Proc -> Job \cup {Idle}] /\ p \in Proc
    BY AtWork
  <2>2. QED  BY <1>1, <1>3, <2>1
<1> HIDE DEF new
<1>7. Fits(new)
  BY <1>5 DEF Fits
<1>8. ~loose => Behind(new)'
  <2>1. ~loose => seeded = Rows
    BY <1>1, <1>3, AtWork DEF Behind
  <2>2. Rows' = Rows /\ Seeded' = Seeded
    BY <1>3, AtWork, Unwritten DEF Seeded
  <2>3. QED  BY <1>2, <1>3, <1>5, <2>1, <2>2 DEF Behind
<1>9. QED  BY <1>1, <1>3, <1>4, <1>5, <1>6, <1>7, <1>8, Goes

\* Reconcile retracts no location to this node of what it found seeded.
LEMMA RemovableIs ==
  ASSUME NEW cids, NEW all, NEW listed, NEW row \in Removable(cids, all, listed)
  PROVE  /\ row \in Id \X Cid \X Url /\ row[1] \in Existing
         /\ <<row[2], row[3]>> \in store[row[1]].urls
         /\ row[3] = "current" => row[2] \notin cids
BY DEF Removable

LEMMA CompareKeeps == ASSUME IInv, NEW p \in Running, Compare(p) PROVE IInv'
<1>1. PICK job \in Job : job = proc[p]
  BY AtWork
<1>2. PICK all \in BOOLEAN, listed \in SUBSET Cid :
        /\ job.pc = "compare"
        /\ proc' = [proc EXCEPT ![p].pc = "rows", ![p].seen = {},
             ![p].add = FindMissing(job.seen), ![p].remove = Removable(job.seen, all, listed),
             ![p].lone = @ /\ all,
             ![p].held = @ \cap {row[2] : row \in {r \in Removable(job.seen, all, listed) :
                                                     r[3] = "current"}}]
        /\ UNCHANGED <<store, seeded, unannounced, loose, doubled>>
  BY <1>1 DEF Compare, At, history
<1>3. PICK add, remove, lone, held :
        /\ add = FindMissing(job.seen) /\ remove = Removable(job.seen, all, listed)
        /\ lone = (job.lone /\ all)
        /\ held = job.held \cap {row[2] : row \in {r \in remove : r[3] = "current"}}
  OBVIOUS
<1>4. /\ job.seen \subseteq Cid /\ job.held \subseteq job.seen
      /\ ~loose => Stale = {} /\ seeded = Rows /\ job.seen = Seeded
  <2>1. job.seen \subseteq Cid /\ job # Idle
    BY DEF Job, Idle
  <2>2. job.held \subseteq job.seen
    BY <1>1, <1>2, <2>1, AtWork DEF Fits
  <2>3. ~loose => Stale = {} /\ seeded = Rows /\ job.seen = Seeded
    BY <1>1, <1>2, AtWork DEF Behind
  <2>4. QED  BY <2>1, <2>2, <2>3
<1>5. add \subseteq Id \X Cid /\ \A row \in add : row[1] \in Existing
  <2>1. ASSUME NEW row \in add
        PROVE  row \in Id \X Cid /\ row[1] \in Existing
    <3>1. /\ row \in Id \X Cid /\ Carrying(row[2]) # {} /\ row[1] = Max(Carrying(row[2]))
      BY <1>3, <1>4 DEF FindMissing
    <3>2. Carrying(row[2]) \in SUBSET (Existing \cup {0})
      BY DEF Carrying
    <3>3. row[1] \in Carrying(row[2])
      BY <3>1, <3>2, AtWork, Newest
    <3>4. QED  BY <3>1, <3>3 DEF Carrying
  <2>2. QED  BY <2>1
<1>6. remove \subseteq Id \X Cid \X Url /\ \A row \in remove : row[1] \in Existing
  BY <1>3, RemovableIs
<1>7. held = {}
  <2>1. \A row \in remove : row[3] = "current" => row[2] \notin job.seen
    BY <1>3, RemovableIs
  <2>2. QED  BY <1>3, <1>4, <2>1
<1> DEFINE new == [job EXCEPT !.pc = "rows", !.seen = {}, !.add = add, !.remove = remove,
                              !.lone = lone, !.held = held]
<1>8. /\ new \in Job /\ new.pc = "rows" /\ new.add = add /\ new.remove = remove
      /\ new.held = held /\ new.lone = lone /\ new.wrote = job.wrote
  <2>1. lone \in BOOLEAN
    BY <1>3
  <2>2. QED  BY <1>5, <1>6, <1>7, <2>1 DEF Job
<1>9. proc' = [proc EXCEPT ![p] = new]
  <2>1. proc[p] \in Job /\ proc \in [Proc -> Job \cup {Idle}] /\ p \in Proc
    BY AtWork
  <2>2. proc' = [proc EXCEPT ![p].pc = "rows", ![p].seen = {}, ![p].add = add,
                   ![p].remove = remove, ![p].lone = lone, ![p].held = held]
    BY <1>1, <1>2, <1>3, <2>1
  <2>3. QED  BY <1>1, <2>1, <2>2
<1> HIDE DEF new
<1>10. Fits(new) /\ seeded' \subseteq Id \X Cid
  BY <1>2, <1>5, <1>6, <1>7, <1>8, AtWork DEF Fits
<1>11. new.lone =>
         /\ job.lone
         /\ \A id \in Existing : \A at \in store[id].urls :
              at[2] # "current" => <<id, at[1], at[2]>> \in remove
  <2>1. SUFFICES ASSUME lone = TRUE, NEW id \in Existing, NEW at \in store[id].urls,
                        at[2] # "current"
                 PROVE  <<id, at[1], at[2]>> \in remove
    BY <1>3, <1>8
  <2>2. at \in Cid \X Url /\ id \in Id
    BY AtWork DEF Stored, Existing, Release
  <2>3. PICK row : row = <<id, at[1], at[2]>>
    OBVIOUS
  <2>4. /\ row \in Id \X Cid \X Url /\ row[1] = id /\ row[2] = at[1] /\ row[3] = at[2]
        /\ <<row[2], row[3]>> = at /\ all
    BY <1>3, <2>1, <2>2, <2>3
  <2>5. row \in Removable(job.seen, all, listed)
    BY <2>1, <2>4 DEF Removable
  <2>6. QED  BY <1>3, <2>3, <2>5
<1>12. ~loose => Behind(new)'
  <2>1. SUFFICES ASSUME ~loose  PROVE Behind(new)'
    OBVIOUS
  <2>2. Rows' = Rows
    BY <1>2, AtWork, Unwritten
  <2>3. add = {}
    <3>1. Seeded \subseteq Advertised
      BY <1>4, <2>1 DEF Seeded, Rows, Advertised
    <3>2. QED  BY <1>3, <1>4, <2>1, <3>1 DEF FindMissing
  <2>4. remove = {}
    <3>1. SUFFICES ASSUME NEW row \in remove  PROVE FALSE
      OBVIOUS
    <3>2. /\ row[1] \in Existing /\ row[2] \in Cid /\ row[3] \in Url
          /\ <<row[2], row[3]>> \in store[row[1]].urls
          /\ row[3] = "current" => row[2] \notin Seeded
      BY <1>3, <1>4, <2>1, RemovableIs
    <3>3. CASE row[3] = "current"
      <4>1. <<row[1], row[2]>> \in seeded
        BY <1>4, <2>1, <3>2, <3>3 DEF Rows
      <4>2. QED  BY <3>2, <3>3, <4>1 DEF Seeded
    <3>4. CASE row[3] \in {"foreign", "legacy"}
      <4>1. row[1] \in Stale
        BY <3>2, <3>4 DEF Stale
      <4>2. QED  BY <1>4, <2>1, <4>1
    <3>5. QED  BY <3>2, <3>3, <3>4 DEF Url
  <2>5. QED  BY <1>2, <1>4, <1>8, <2>1, <2>2, <2>3, <2>4 DEF Behind
<1>13. QED  BY <1>1, <1>2, <1>8, <1>9, <1>10, <1>11, <1>12, Goes

\* What one release that is written again changes of what is advertised.
LEMMA OneRewritten ==
  ASSUME Stored, SameReleases, NEW id \in Existing, NEW urls, store'[id].urls = urls,
         \A other \in Id : other # id => store'[other] = store[other]
  PROVE  /\ Rows' \subseteq Existing \X Cid
         /\ \A row \in Existing \X Cid :
              row \in Rows' <=> IF row[1] = id THEN <<row[2], "current">> \in urls ELSE row \in Rows
         /\ (\A at \in urls : at[2] # "current" => at \in store[id].urls) => Stale' \subseteq Stale
<1>1. /\ Existing' = Existing /\ Existing \subseteq Id
      /\ \A other \in Existing : other # id => store'[other] = store[other]
  BY DEF SameReleases, Existing
<1>2. Rows' \subseteq Existing \X Cid
  BY <1>1 DEF Rows
<1>3. ASSUME NEW row \in Existing \X Cid
      PROVE  row \in Rows' <=> IF row[1] = id THEN <<row[2], "current">> \in urls ELSE row \in Rows
  <2>1. row \in Rows' <=> <<row[2], "current">> \in store'[row[1]].urls
    BY <1>1 DEF Rows
  <2>2. row \in Rows <=> <<row[2], "current">> \in store[row[1]].urls
    BY DEF Rows
  <2>3. QED  BY <1>1, <2>1, <2>2
<1>4. ASSUME \A at \in urls : at[2] # "current" => at \in store[id].urls
      PROVE  Stale' \subseteq Stale
  <2>1. SUFFICES ASSUME NEW one \in Existing, NEW cid \in Cid, NEW kind \in {"foreign", "legacy"},
                        <<cid, kind>> \in store'[one].urls
                 PROVE  <<cid, kind>> \in store[one].urls
    BY <1>1 DEF Stale
  <2>2. kind # "current"
    OBVIOUS
  <2>3. CASE one = id
    <3>1. PICK at : at = <<cid, kind>>
      OBVIOUS
    <3>2. at[2] = kind /\ at \in urls
      BY <2>1, <2>3, <3>1
    <3>3. at \in store[id].urls
      BY <1>4, <2>2, <3>2
    <3>4. QED  BY <2>3, <3>1, <3>3
  <2>4. CASE one # id
    BY <1>1, <2>1, <2>4
  <2>5. QED  BY <2>3, <2>4
<1>5. QED  BY <1>2, <1>3, <1>4

LEMMA AddLocationKeeps == ASSUME IInv, NEW p \in Running, AddLocation(p) PROVE IInv'
<1>1. PICK job \in Job : job = proc[p]
  BY AtWork
<1>2. PICK cid \in job.seen :
        /\ job.pc = "locate" /\ Sign(job.id, Located(store[job.id], cid))
        /\ proc' = [NextToSeed(p, cid) EXCEPT ![p].wrote = TRUE]
        /\ loose' = (loose \/ cid \notin store[job.id].carries)
        /\ UNCHANGED <<seeded, doubled>>
  BY <1>1 DEF AddLocation, At
<1>3. PICK next, left : /\ next = (IF job.left = {cid} THEN "end" ELSE "seed")
                        /\ left = job.left \ {cid}
                        /\ next \in {"end", "seed"} /\ left \in SUBSET Cid
  <2>1. job.left \ {cid} \in SUBSET Cid
    BY DEF Job
  <2>2. QED  BY <2>1
<1> DEFINE new == [job EXCEPT !.left = left, !.seen = {}, !.pc = next, !.wrote = TRUE]
<1>4. /\ new \in Job /\ new.pc = next /\ new.id = job.id
      /\ new.wrote /\ new.lone = job.lone
  <2>1. next \in {"end", "seed"} /\ left \in SUBSET Cid
    BY <1>3
  <2>2. QED  BY <2>1 DEF Job
<1>5. proc' = [proc EXCEPT ![p] = new]
  <2>1. proc[p] \in Job /\ proc \in [Proc -> Job \cup {Idle}] /\ p \in Proc
    BY AtWork
  <2>2. QED  BY <1>1, <1>2, <1>3, <2>1 DEF NextToSeed
<1> HIDE DEF new
<1>6. /\ job.id \in Existing /\ job.id \in Id /\ ~job.lone /\ next \in {"end", "seed"}
      /\ cid \in Cid /\ job.seen = {cid}
  <2>1. /\ job.id \in Existing /\ ~job.lone /\ \A a, b \in job.seen : a = b
        /\ job.seen \subseteq Cid
    BY <1>1, <1>2, AtWork DEF Fits, Idle, Job
  <2>2. QED  BY <1>2, <1>3, <2>1 DEF Existing
<1>7. ~loose => Stale = {} /\ seeded = Rows \cup ({job.id} \X {cid})
  BY <1>1, <1>2, <1>6, AtWork DEF Behind
<1>8. PICK release \in Release : release = store[job.id]
  BY <1>6, AtWork DEF Stored, Existing
<1>9. \A at \in release.urls : at[1] \in release.carries
  BY <1>6, <1>8, AtWork DEF Stored
<1>10. PICK after : /\ after = Located(release, cid) /\ after \in Release
                    /\ after.creator = release.creator /\ after.tag = release.tag
                    /\ after.carries = release.carries
                    /\ after.urls = IF cid \in release.carries
                                    THEN release.urls \cup {<<cid, "current">>} ELSE release.urls
  <2>1. CASE cid \in release.carries
    <3> DEFINE more == [release EXCEPT !.urls = @ \cup {<<cid, "current">>}]
    <3>1. release.urls \cup {<<cid, "current">>} \in SUBSET (Cid \X Url)
      BY <1>6 DEF Release, Url
    <3>2. /\ more \in Release /\ more.creator = release.creator /\ more.tag = release.tag
          /\ more.carries = release.carries /\ more.urls = release.urls \cup {<<cid, "current">>}
      BY <3>1 DEF Release
    <3>3. QED  BY <2>1, <3>2 DEF Located
  <2>2. CASE cid \notin release.carries
    BY <2>2 DEF Located
  <2>3. QED  BY <2>1, <2>2
<1>11. \A at \in after.urls : at[1] \in after.carries
  BY <1>9, <1>10
<1>12. /\ Stored' /\ SameReleases /\ store'[job.id] = after
       /\ \A other \in Id : other # job.id => store'[other] = store[other]
  BY <1>2, <1>6, <1>8, <1>10, <1>11, AtWork, Rewritten
<1>13. ~loose' => ~loose /\ Stale' = {} /\ (seeded = Rows)'
  <2>1. SUFFICES ASSUME ~loose, cid \in release.carries  PROVE Stale' = {} /\ (seeded = Rows)'
    BY <1>2, <1>8
  <2>2. after.urls = release.urls \cup {<<cid, "current">>}
    BY <1>10, <2>1
  <2>3. /\ Rows' \subseteq Existing \X Cid
        /\ \A row \in Existing \X Cid :
             row \in Rows' <=> IF row[1] = job.id THEN <<row[2], "current">> \in after.urls
                               ELSE row \in Rows
        /\ Stale' \subseteq Stale
    <3>1. \A at \in after.urls : at[2] # "current" => at \in store[job.id].urls
      BY <1>8, <2>2
    <3>2. store'[job.id].urls = after.urls
      BY <1>12
    <3>3. QED  BY <1>6, <1>12, <3>1, <3>2, AtWork, OneRewritten
  <2>4. \A row \in Existing \X Cid : row \in Rows' <=> row \in Rows \/ row = <<job.id, cid>>
    <3>1. SUFFICES ASSUME NEW one \in Existing, NEW c \in Cid
                   PROVE  <<one, c>> \in Rows' <=> <<one, c>> \in Rows \/ (one = job.id /\ c = cid)
      OBVIOUS
    <3>2. <<one, c>> \in Rows <=> <<c, "current">> \in store[one].urls
      BY DEF Rows
    <3>3. QED  BY <1>8, <2>2, <2>3, <3>2
  <2>5. Rows \subseteq Existing \X Cid /\ <<job.id, cid>> \in Existing \X Cid
    BY <1>6 DEF Rows
  <2>6. Rows' = Rows \cup ({job.id} \X {cid})
    BY <2>3, <2>4, <2>5
  <2>7. QED  BY <1>2, <1>7, <2>1, <2>3, <2>6
<1>14. Fits(new) /\ new # Idle
  BY <1>4, <1>6 DEF Fits, Job, Idle
<1>15. Behind(new)' <=> (seeded = Rows)'
  BY <1>4, <1>6 DEF Behind
<1>16. seeded' \subseteq Id \X Cid /\ new.pc # "mint" /\ ~new.lone
  BY <1>2, <1>4, <1>6, AtWork
<1>17. ~loose' => ~loose /\ Stale' = {} /\ Behind(new)'
  BY <1>13, <1>15
<1>18. QED
  BY <1>2, <1>4, <1>5, <1>12, <1>14, <1>16, <1>17, MovedSame

\* Some of its locations are taken from a release.
LEMMA Reduced ==
  ASSUME Stored, NEW id \in Existing, NEW gone,
         Sign(id, [store[id] EXCEPT !.urls = @ \ gone])
  PROVE  /\ Stored' /\ SameReleases /\ store'[id].urls = store[id].urls \ gone
         /\ \A other \in Id : other # id => store'[other] = store[other]
<1>1. PICK release \in Release : release = store[id]
  BY DEF Stored, Existing
<1>2. \A at \in release.urls : at[1] \in release.carries
  BY <1>1 DEF Stored
<1> DEFINE after == [release EXCEPT !.urls = @ \ gone]
<1>3. /\ after \in Release /\ after.creator = release.creator /\ after.tag = release.tag
      /\ after.carries = release.carries /\ after.urls = release.urls \ gone
  BY DEF Release
<1>4. Sign(id, after)
  BY <1>1
<1> HIDE DEF after
<1>5. \A at \in after.urls : at[1] \in after.carries
  BY <1>2, <1>3
<1>6. /\ Stored' /\ SameReleases /\ store'[id] = after
      /\ \A other \in Id : other # id => store'[other] = store[other]
  BY <1>1, <1>3, <1>4, <1>5, Rewritten
<1>7. QED  BY <1>1, <1>3, <1>6

\* An unseed opens the next release: what it is to retract is now told apart.
LEMMA OpenToSweepKeeps == ASSUME IInv, NEW p \in Running, OpenToSweep(p) PROVE IInv'
<1>1. PICK job \in Job : job = proc[p]
  BY AtWork
<1>2. PICK row \in job.add :
        LET gone == store[row[1]].urls \cap ({row[2]} \X {"current", "foreign"})
            opened == [proc EXCEPT ![p].add = job.add \ {row}]
        IN  /\ job.pc = "sweep" /\ job.remove = {}
            /\ \/ /\ proc' = [opened EXCEPT ![p].remove = {<<row[1], at[1], at[2]>> : at \in gone}]
                  /\ UNCHANGED <<store, loose>>
               \/ /\ proc' = [opened EXCEPT ![p].lone = FALSE]
                  /\ UNCHANGED store /\ loose'
            /\ UNCHANGED <<seeded, doubled>>
  BY <1>1 DEF OpenToSweep, PassOver, At
<1>3. PICK id, cid, rest, gone, remove :
        /\ id = row[1] /\ cid = row[2] /\ rest = job.add \ {row}
        /\ gone = store[row[1]].urls \cap ({row[2]} \X {"current", "foreign"})
        /\ remove = {<<row[1], at[1], at[2]>> : at \in gone}
  OBVIOUS
<1>4. /\ id \in Id /\ id \in Existing /\ cid \in Cid /\ row = <<id, cid>> /\ ~job.lone
      /\ job.add \subseteq Id \X Cid /\ \A other \in job.add : other[1] \in Existing
      /\ ~loose => seeded = Rows \ ToGo(job)
  <2>1. /\ ~job.lone /\ \A other \in job.add : other[1] \in Existing
        /\ ~loose => seeded = Rows \ ToGo(job)
    BY <1>1, <1>2, AtWork DEF Fits, Behind, Idle, Job
  <2>2. job.add \subseteq Id \X Cid
    BY DEF Job
  <2>3. QED  BY <1>2, <1>3, <2>1, <2>2
<1>5. /\ job.pc = "sweep" /\ job.remove = {} /\ UNCHANGED <<store, seeded, doubled>>
      /\ seeded' \subseteq Id \X Cid
      /\ p \in Proc /\ proc \in [Proc -> Job \cup {Idle}]
  BY <1>2, AtWork
<1>6. CASE /\ proc' = [[proc EXCEPT ![p].add = rest] EXCEPT ![p].remove = remove]
           /\ UNCHANGED loose
  <2> DEFINE new == [job EXCEPT !.add = rest, !.remove = remove]
  <2>1. remove \subseteq Id \X Cid \X Url /\ \A other \in remove : other[1] \in Existing
    <3>1. \A at \in gone : at[1] \in Cid /\ at[2] \in Url
      BY <1>3, <1>4 DEF Url
    <3>2. QED  BY <1>3, <1>4, <3>1
  <2>2. /\ new \in Job /\ new.pc = "sweep" /\ new.add = rest /\ new.remove = remove
        /\ new.lone = job.lone
    BY <1>3, <1>4, <1>5, <2>1 DEF Job
  <2>3. proc' = [proc EXCEPT ![p] = new]
    BY <1>1, <1>5, <1>6
  <2> HIDE DEF new
  <2>4. Fits(new)
    BY <1>3, <1>4, <2>1, <2>2 DEF Fits
  <2>5. Rows \ ToGo(job) = Rows \ ToGo(new)
    <3>1. ToGo(job) = job.add
      BY <1>5 DEF ToGo
    <3>2. \A r \in remove : r[3] = "current" => <<r[1], r[2]>> = row
      BY <1>3, <1>4
    <3>3. row \in Rows => row \in ToGo(new)
      <4>1. SUFFICES ASSUME row \in Rows  PROVE row \in ToGo(new)
        OBVIOUS
      <4>2. <<cid, "current">> \in gone
        BY <1>3, <1>4, <4>1 DEF Rows
      <4>3. PICK r : r = <<id, cid, "current">>
        OBVIOUS
      <4>4. r \in remove /\ r[3] = "current" /\ <<r[1], r[2]>> = row
        BY <1>3, <1>4, <4>2, <4>3
      <4>5. QED  BY <2>2, <4>4 DEF ToGo
    <3>4. ToGo(new) \subseteq job.add /\ rest \subseteq ToGo(new)
      BY <1>2, <1>3, <2>2, <3>2 DEF ToGo
    <3>5. QED  BY <1>3, <3>1, <3>3, <3>4
  <2>6. ~loose' => ~loose /\ Behind(new)'
    <3>1. Rows' = Rows
      BY <1>5, AtWork, Unwritten
    <3>2. QED  BY <1>4, <1>5, <1>6, <2>2, <2>5, <3>1 DEF Behind
  <2>7. QED  BY <1>4, <1>5, <2>2, <2>3, <2>4, <2>6, Goes
<1>7. CASE /\ proc' = [[proc EXCEPT ![p].add = rest] EXCEPT ![p].lone = FALSE]
           /\ loose'
  <2> DEFINE new == [job EXCEPT !.add = rest, !.lone = FALSE]
  <2>1. /\ new \in Job /\ new.pc = "sweep" /\ new.add = rest /\ new.remove = {} /\ ~new.lone
    BY <1>3, <1>4, <1>5 DEF Job
  <2>2. proc' = [proc EXCEPT ![p] = new]
    BY <1>1, <1>5, <1>7
  <2> HIDE DEF new
  <2>3. Fits(new)
    BY <1>3, <1>4, <2>1 DEF Fits
  <2>4. QED  BY <1>5, <1>7, <2>1, <2>2, <2>3, Goes
<1>8. QED  BY <1>2, <1>3, <1>6, <1>7

\* One location of an unseed: it is retracted, or left with a warning.
LEMMA SweepKeeps == ASSUME IInv, NEW p \in Running, Sweep(p) PROVE IInv'
<1>1. PICK job \in Job : job = proc[p]
  BY AtWork
<1>2. PICK row \in job.remove :
        /\ job.pc = "sweep"
        /\ \/ /\ Sign(row[1], [store[row[1]] EXCEPT !.urls = @ \ {<<row[2], row[3]>>}])
              /\ proc' = [[proc EXCEPT ![p].remove = @ \ {row}] EXCEPT ![p].wrote = TRUE]
              /\ UNCHANGED loose
           \/ /\ proc' = [[proc EXCEPT ![p].remove = @ \ {row}] EXCEPT ![p].lone = FALSE]
              /\ UNCHANGED store /\ loose'
        /\ UNCHANGED <<seeded, doubled>>
  BY <1>1 DEF Sweep, RemoveLocation, PassOver, At
<1>3. PICK id, cid, kind, rest : /\ id = row[1] /\ cid = row[2] /\ kind = row[3]
                                 /\ rest = job.remove \ {row}
  OBVIOUS
<1>4. /\ id \in Id /\ id \in Existing /\ cid \in Cid /\ row = <<id, cid, kind>> /\ ~job.lone
      /\ \A other \in job.add : other[1] \in Existing
      /\ \A other \in job.remove : other[1] \in Existing
      /\ ~loose => Stale = {} /\ seeded = Rows \ ToGo(job)
  <2>1. /\ ~job.lone
        /\ \A other \in job.add : other[1] \in Existing
        /\ \A other \in job.remove : other[1] \in Existing
        /\ ~loose => Stale = {} /\ seeded = Rows \ ToGo(job)
    BY <1>1, <1>2, AtWork DEF Fits, Behind, Idle, Job
  <2>2. row \in Id \X Cid \X Url
    BY DEF Job
  <2>3. QED  BY <1>2, <1>3, <2>1, <2>2
<1>5. /\ job.pc = "sweep" /\ UNCHANGED <<seeded, doubled>> /\ seeded' \subseteq Id \X Cid
      /\ p \in Proc /\ proc \in [Proc -> Job \cup {Idle}]
  BY <1>2, AtWork
<1>6. CASE /\ Sign(id, [store[id] EXCEPT !.urls = @ \ {<<cid, kind>>}])
           /\ proc' = [[proc EXCEPT ![p].remove = @ \ {row}] EXCEPT ![p].wrote = TRUE]
           /\ UNCHANGED loose
  <2> DEFINE new == [job EXCEPT !.remove = rest, !.wrote = TRUE]
  <2>1. /\ new \in Job /\ new.pc = "sweep" /\ new.add = job.add /\ new.remove = rest
        /\ new.lone = job.lone
    BY <1>3, <1>5 DEF Job
  <2>2. proc' = [proc EXCEPT ![p] = new]
    BY <1>1, <1>3, <1>5, <1>6
  <2> HIDE DEF new
  <2>3. Fits(new) /\ new # Idle /\ new.pc # "mint" /\ ~new.lone
    BY <1>3, <1>4, <2>1 DEF Fits, Job, Idle
  <2>4. /\ Stored' /\ SameReleases /\ store'[id].urls = store[id].urls \ {<<cid, kind>>}
        /\ \A other \in Id : other # id => store'[other] = store[other]
    BY <1>4, <1>6, AtWork, Reduced
  <2>5. /\ Rows' \subseteq Existing \X Cid
        /\ \A other \in Existing \X Cid :
             other \in Rows' <=> IF other[1] = id
                                 THEN <<other[2], "current">> \in store[id].urls \ {<<cid, kind>>}
                                 ELSE other \in Rows
        /\ Stale' \subseteq Stale
    <3>1. PICK urls : urls = store[id].urls \ {<<cid, kind>>}
      OBVIOUS
    <3>2. /\ store'[id].urls = urls
          /\ \A at \in urls : at[2] # "current" => at \in store[id].urls
      BY <2>4, <3>1
    <3>3. QED  BY <1>4, <2>4, <3>1, <3>2, AtWork, OneRewritten
  <2>6. Rows' = IF kind = "current" THEN Rows \ {<<id, cid>>} ELSE Rows
    <3>1. Rows \subseteq Existing \X Cid
      BY DEF Rows
    <3>2. ASSUME NEW one \in Existing, NEW c \in Cid
          PROVE  <<one, c>> \in Rows' <=>
                   <<one, c>> \in Rows /\ (kind = "current" => <<one, c>> # <<id, cid>>)
      <4>1. <<one, c>> \in Rows <=> <<c, "current">> \in store[one].urls
        BY DEF Rows
      <4>2. <<c, "current">> = <<cid, kind>> <=> c = cid /\ kind = "current"
        OBVIOUS
      <4>3. QED  BY <1>4, <2>5, <4>1, <4>2
    <3>3. QED  BY <2>5, <3>1, <3>2
  <2>7. Rows' \ ToGo(new) = Rows \ ToGo(job)
    <3>1. CASE kind # "current"
      <4>1. {r \in rest : r[3] = "current"} = {r \in job.remove : r[3] = "current"}
        BY <1>3, <3>1
      <4>2. ToGo(new) = ToGo(job)
        BY <2>1, <4>1 DEF ToGo
      <4>3. QED  BY <2>6, <3>1, <4>2
    <3>2. CASE kind = "current"
      <4>1. ToGo(job) = ToGo(new) \cup {<<id, cid>>}
        BY <1>2, <1>3, <2>1, <3>2 DEF ToGo
      <4>2. QED  BY <2>6, <3>2, <4>1
    <3>3. QED  BY <3>1, <3>2
  <2>8. ~loose' => ~loose /\ Stale' = {} /\ Behind(new)'
    <3>1. ToGo(new)' = ToGo(new)
      BY DEF ToGo
    <3>2. QED  BY <1>4, <1>5, <1>6, <2>1, <2>5, <2>7, <3>1 DEF Behind
  <2>9. new \in Job \cup {Idle} /\ (loose /\ ~loose' => Running = {p})
    BY <1>6, <2>1
  <2>10. QED  BY <1>5, <2>2, <2>3, <2>4, <2>8, <2>9, MovedSame
<1>7. CASE /\ proc' = [[proc EXCEPT ![p].remove = @ \ {row}] EXCEPT ![p].lone = FALSE]
           /\ UNCHANGED store /\ loose'
  <2> DEFINE new == [job EXCEPT !.remove = rest, !.lone = FALSE]
  <2>1. /\ new \in Job /\ new.pc = "sweep" /\ new.add = job.add /\ new.remove = rest /\ ~new.lone
    BY <1>3, <1>5 DEF Job
  <2>2. proc' = [proc EXCEPT ![p] = new]
    BY <1>1, <1>3, <1>5, <1>7
  <2> HIDE DEF new
  <2>3. Fits(new)
    BY <1>3, <1>4, <2>1 DEF Fits
  <2>4. QED  BY <1>5, <1>7, <2>1, <2>2, <2>3, Goes
<1>8. QED  BY <1>2, <1>3, <1>6, <1>7

-----------------------------------------------------------------------------
\* A row of a reconcile is signed into its release: one that nothing disturbs
\* still has the rest of its work on its list.
LEMMA RowSigned ==
  ASSUME IInv, NEW p \in Running, NEW job \in Job, job = proc[p], job.pc = "rows",
         NEW add, NEW remove, add \subseteq job.add, remove \subseteq job.remove,
         add # job.add \/ remove # job.remove,
         proc' = [proc EXCEPT ![p] = [job EXCEPT !.add = add, !.remove = remove, !.wrote = TRUE]],
         UNCHANGED <<seeded, loose, doubled>>,
         Stored', SameReleases,
         \A id \in Existing : \A at \in store'[id].urls : at[2] # "current" =>
           at \in store[id].urls /\ <<id, at[1], at[2]>> \notin job.remove \ remove
  PROVE  IInv'
<1> DEFINE new == [job EXCEPT !.add = add, !.remove = remove, !.wrote = TRUE]
<1>1. /\ new \in Job /\ new.pc = "rows" /\ new.add = add /\ new.remove = remove
      /\ new.wrote /\ new.lone = job.lone /\ new.held = job.held
  BY DEF Job
<1>2. proc' = [proc EXCEPT ![p] = new]
  OBVIOUS
<1> HIDE DEF new
<1>3. /\ \A row \in job.add : row[1] \in Existing
      /\ \A row \in job.remove : row[1] \in Existing
      /\ job.held = {}
  BY AtWork DEF Fits, Idle, Job
<1>4. loose'
  <2>1. ~loose => job.add = {} /\ job.remove = {}
    BY AtWork DEF Behind
  <2>2. QED  BY <2>1
<1>5. job.lone => \A id \in Existing : \A at \in store[id].urls :
                    at[2] # "current" => <<id, at[1], at[2]>> \in job.remove
  <2>1. Undisturbed(p) /\ proc[p] # Idle
    BY AtWork DEF IInv, Running
  <2>2. QED  BY <2>1 DEF Undisturbed, At
<1>6. job.lone => \A id \in Existing' : \A at \in store'[id].urls :
                    at[2] # "current" => <<id, at[1], at[2]>> \in remove
  BY <1>5 DEF SameReleases
<1>7. Fits(new) /\ new # Idle
  BY <1>1, <1>3 DEF Fits, Job, Idle
<1>8. seeded' \subseteq Id \X Cid
  BY AtWork
<1>9. QED  BY <1>1, <1>2, <1>4, <1>6, <1>7, <1>8, MovedSame

\* ... or it is passed over.
LEMMA RowPassed ==
  ASSUME IInv, NEW p \in Running, NEW job \in Job, job = proc[p], job.pc = "rows",
         NEW add, NEW remove, add \subseteq job.add, remove \subseteq job.remove,
         add # job.add \/ remove # job.remove,
         proc' = [proc EXCEPT ![p] = [job EXCEPT !.add = add, !.remove = remove, !.lone = FALSE]],
         UNCHANGED <<store, unannounced, seeded, loose, doubled>>
  PROVE  IInv'
<1> DEFINE new == [job EXCEPT !.add = add, !.remove = remove, !.lone = FALSE]
<1>1. /\ new \in Job /\ new.pc = "rows" /\ new.add = add /\ new.remove = remove
      /\ new.wrote = job.wrote /\ ~new.lone /\ new.held = job.held
  BY DEF Job
<1>2. proc' = [proc EXCEPT ![p] = new]
  OBVIOUS
<1> HIDE DEF new
<1>3. /\ \A row \in job.add : row[1] \in Existing
      /\ \A row \in job.remove : row[1] \in Existing
      /\ job.held = {}
  BY AtWork DEF Fits, Idle, Job
<1>4. loose'
  <2>1. ~loose => job.add = {} /\ job.remove = {}
    BY AtWork DEF Behind
  <2>2. QED  BY <2>1
<1>5. Fits(new)
  BY <1>1, <1>3 DEF Fits
<1>6. seeded' \subseteq Id \X Cid
  BY AtWork
<1>7. QED  BY <1>1, <1>2, <1>4, <1>5, <1>6, Goes

\* What signing a seeded artifact's location makes of a release.
LEMMA LocatedIs ==
  ASSUME NEW release \in Release, NEW cid \in Cid,
         \A at \in release.urls : at[1] \in release.carries
  PROVE  LET after == Located(release, cid)
         IN  /\ after \in Release /\ after.creator = release.creator /\ after.tag = release.tag
             /\ \A at \in after.urls : at[1] \in after.carries
             /\ \A at \in after.urls : at[2] # "current" => at \in release.urls
<1>1. CASE cid \in release.carries
  <2> DEFINE more == [release EXCEPT !.urls = @ \cup {<<cid, "current">>}]
  <2>1. release.urls \cup {<<cid, "current">>} \in SUBSET (Cid \X Url)
    BY DEF Release, Url
  <2>2. /\ more \in Release /\ more.creator = release.creator /\ more.tag = release.tag
        /\ more.carries = release.carries /\ more.urls = release.urls \cup {<<cid, "current">>}
    BY <2>1 DEF Release
  <2>3. Located(release, cid) = more
    BY <1>1 DEF Located
  <2> HIDE DEF more
  <2>4. QED  BY <1>1, <2>2, <2>3
<1>2. CASE cid \notin release.carries
  BY <1>2 DEF Located
<1>3. QED  BY <1>1, <1>2

LEMMA AddRowKeeps == ASSUME IInv, NEW p \in Running, AddRow(p) PROVE IInv'
<1>1. PICK job \in Job : job = proc[p]
  BY AtWork
<1>2. PICK row \in job.add :
        /\ job.pc = "rows"
        /\ \/ /\ Sign(row[1], Located(store[row[1]], row[2]))
              /\ proc' = [[proc EXCEPT ![p].add = @ \ {row}] EXCEPT ![p].wrote = TRUE]
           \/ /\ proc' = [[proc EXCEPT ![p].add = @ \ {row}] EXCEPT ![p].lone = FALSE]
              /\ UNCHANGED <<store, unannounced>>
        /\ UNCHANGED <<seeded, loose, doubled>>
  BY <1>1 DEF AddRow, PassOver, At, history
<1>3. PICK add : add = job.add \ {row}
  OBVIOUS
<1>4. proc[p] \in Job /\ proc \in [Proc -> Job \cup {Idle}] /\ p \in Proc
  BY AtWork
<1>5. CASE /\ Sign(row[1], Located(store[row[1]], row[2]))
           /\ proc' = [[proc EXCEPT ![p].add = @ \ {row}] EXCEPT ![p].wrote = TRUE]
  <2>1. [job EXCEPT !.add = add, !.wrote = TRUE] =
          [job EXCEPT !.add = add, !.remove = job.remove, !.wrote = TRUE]
    BY DEF Job
  <2>2. proc' = [proc EXCEPT ![p] = [job EXCEPT !.add = add, !.wrote = TRUE]]
    BY <1>1, <1>3, <1>4, <1>5
  <2>3. proc' = [proc EXCEPT ![p] =
                   [job EXCEPT !.add = add, !.remove = job.remove, !.wrote = TRUE]]
    BY <2>1, <2>2
  <2>4. PICK id, cid : id = row[1] /\ cid = row[2]
    OBVIOUS
  <2>5. id \in Existing /\ cid \in Cid
    BY <1>1, <1>2, <2>4, AtWork DEF Fits, Idle, Job
  <2>6. PICK release \in Release : release = store[id]
    BY <2>5, AtWork DEF Stored, Existing
  <2>7. PICK after : after = Located(release, cid)
    OBVIOUS
  <2>8. /\ after \in Release /\ after.creator = release.creator /\ after.tag = release.tag
        /\ \A at \in after.urls : at[1] \in after.carries
        /\ \A at \in after.urls : at[2] # "current" => at \in release.urls
    <3>1. \A at \in release.urls : at[1] \in release.carries
      BY <2>5, <2>6, AtWork DEF Stored
    <3>2. QED  BY <2>5, <2>7, <3>1, LocatedIs
  <2>9. Sign(id, after)
    BY <1>5, <2>4, <2>6, <2>7
  <2>10. /\ Stored' /\ SameReleases /\ store'[id] = after
         /\ \A other \in Id : other # id => store'[other] = store[other]
    BY <2>5, <2>6, <2>8, <2>9, AtWork, Rewritten
  <2>11. \A one \in Existing : \A at \in store'[one].urls :
           at[2] # "current" => at \in store[one].urls
    BY <2>6, <2>8, <2>10 DEF Existing
  <2>12. add \subseteq job.add /\ add # job.add /\ job.remove \ job.remove = {}
    BY <1>2, <1>3
  <2>13. QED  BY <1>1, <1>2, <2>3, <2>10, <2>11, <2>12, RowSigned
<1>6. CASE /\ proc' = [[proc EXCEPT ![p].add = @ \ {row}] EXCEPT ![p].lone = FALSE]
           /\ UNCHANGED <<store, unannounced>>
  <2>1. [job EXCEPT !.add = add, !.lone = FALSE] =
          [job EXCEPT !.add = add, !.remove = job.remove, !.lone = FALSE]
    BY DEF Job
  <2>2. proc' = [proc EXCEPT ![p] = [job EXCEPT !.add = add, !.lone = FALSE]]
    BY <1>1, <1>3, <1>4, <1>6
  <2>3. proc' = [proc EXCEPT ![p] =
                   [job EXCEPT !.add = add, !.remove = job.remove, !.lone = FALSE]]
    BY <2>1, <2>2
  <2>4. add \subseteq job.add /\ add # job.add
    BY <1>2, <1>3
  <2>5. QED  BY <1>1, <1>2, <1>6, <2>3, <2>4, RowPassed
<1>7. QED  BY <1>2, <1>5, <1>6

LEMMA RemoveRowKeeps == ASSUME IInv, NEW p \in Running, RemoveRow(p) PROVE IInv'
<1>1. PICK job \in Job : job = proc[p]
  BY AtWork
<1>2. PICK row \in job.remove :
        /\ job.pc = "rows"
        /\ \/ /\ Sign(row[1], [store[row[1]] EXCEPT !.urls = @ \ {<<row[2], row[3]>>}])
              /\ proc' = [[proc EXCEPT ![p].remove = @ \ {row}] EXCEPT ![p].wrote = TRUE]
           \/ /\ proc' = [[proc EXCEPT ![p].remove = @ \ {row}] EXCEPT ![p].lone = FALSE]
              /\ UNCHANGED <<store, unannounced>>
        /\ UNCHANGED <<seeded, loose, doubled>>
  BY <1>1 DEF RemoveRow, RemoveLocation, PassOver, At, history
<1>3. PICK remove : remove = job.remove \ {row}
  OBVIOUS
<1>4. proc[p] \in Job /\ proc \in [Proc -> Job \cup {Idle}] /\ p \in Proc
  BY AtWork
<1>5. CASE /\ Sign(row[1], [store[row[1]] EXCEPT !.urls = @ \ {<<row[2], row[3]>>}])
           /\ proc' = [[proc EXCEPT ![p].remove = @ \ {row}] EXCEPT ![p].wrote = TRUE]
  <2>1. [job EXCEPT !.remove = remove, !.wrote = TRUE] =
          [job EXCEPT !.add = job.add, !.remove = remove, !.wrote = TRUE]
    BY DEF Job
  <2>2. proc' = [proc EXCEPT ![p] = [job EXCEPT !.remove = remove, !.wrote = TRUE]]
    BY <1>1, <1>3, <1>4, <1>5
  <2>3. proc' = [proc EXCEPT ![p] =
                   [job EXCEPT !.add = job.add, !.remove = remove, !.wrote = TRUE]]
    BY <2>1, <2>2
  <2>4. PICK id, cid, kind : id = row[1] /\ cid = row[2] /\ kind = row[3]
    OBVIOUS
  <2>5. id \in Existing /\ row = <<id, cid, kind>>
    <3>1. id \in Existing
      BY <1>1, <1>2, <2>4, AtWork DEF Fits, Idle, Job
    <3>2. row \in Id \X Cid \X Url
      BY DEF Job
    <3>3. QED  BY <2>4, <3>1, <3>2
  <2>6. Sign(id, [store[id] EXCEPT !.urls = @ \ {<<cid, kind>>}])
    BY <1>5, <2>4
  <2>7. /\ Stored' /\ SameReleases /\ store'[id].urls = store[id].urls \ {<<cid, kind>>}
        /\ \A other \in Id : other # id => store'[other] = store[other]
    BY <2>5, <2>6, AtWork, Reduced
  <2>8. ASSUME NEW one \in Existing, NEW at \in store'[one].urls
        PROVE  at \in store[one].urls /\ <<one, at[1], at[2]>> \notin job.remove \ remove
    <3>1. at \in store[one].urls
      BY <2>7, <2>8 DEF Existing
    <3>2. at = <<at[1], at[2]>>
      BY <3>1, AtWork DEF Stored, Existing, Release
    <3>3. one = id => at # <<cid, kind>>
      BY <2>7, <2>8
    <3>4. <<one, at[1], at[2]>> # row
      BY <2>5, <3>2, <3>3
    <3>5. QED  BY <1>3, <3>1, <3>4
  <2>9. remove \subseteq job.remove /\ remove # job.remove
    BY <1>2, <1>3
  <2>10. QED  BY <1>1, <1>2, <2>3, <2>7, <2>8, <2>9, RowSigned
<1>6. CASE /\ proc' = [[proc EXCEPT ![p].remove = @ \ {row}] EXCEPT ![p].lone = FALSE]
           /\ UNCHANGED <<store, unannounced>>
  <2>1. [job EXCEPT !.remove = remove, !.lone = FALSE] =
          [job EXCEPT !.add = job.add, !.remove = remove, !.lone = FALSE]
    BY DEF Job
  <2>2. proc' = [proc EXCEPT ![p] = [job EXCEPT !.remove = remove, !.lone = FALSE]]
    BY <1>1, <1>3, <1>4, <1>6
  <2>3. proc' = [proc EXCEPT ![p] =
                   [job EXCEPT !.add = job.add, !.remove = remove, !.lone = FALSE]]
    BY <2>1, <2>2
  <2>4. remove \subseteq job.remove /\ remove # job.remove
    BY <1>2, <1>3
  <2>5. QED  BY <1>1, <1>2, <1>6, <2>3, <2>4, RowPassed
<1>7. QED  BY <1>2, <1>5, <1>6

\* An unseed under way forgets what others hold for seeded, no more.
LEMMA Forgotten ==
  ASSUME NEW jobs \in [Proc -> Job \cup {Idle}], proc' = Forget(jobs)
  PROVE  /\ proc' \in [Proc -> Job \cup {Idle}]
         /\ \A q \in Proc : Keeps(jobs[q], proc'[q])
<1>1. PICK tags : tags = {tag[2] : tag \in seeded'}
  OBVIOUS
<1>2. ASSUME NEW job \in Job
      PROVE  /\ [job EXCEPT !.held = @ \cap tags] \in Job
             /\ Keeps(job, [job EXCEPT !.held = @ \cap tags])
  <2>1. PICK k : k = [job EXCEPT !.held = @ \cap tags]
    OBVIOUS
  <2>2. k \in Job /\ k.held = job.held \cap tags /\ k.lone = job.lone
    BY <2>1 DEF Job
  <2>3. k = [job EXCEPT !.held = k.held, !.lone = k.lone]
    BY <2>1, <2>2 DEF Job
  <2>4. QED  BY <2>1, <2>2, <2>3 DEF Keeps
<1>3. proc' = [q \in Proc |-> IF jobs[q] = Idle THEN Idle
                              ELSE [jobs[q] EXCEPT !.held = @ \cap tags]]
  BY <1>1 DEF Forget
<1>4. ASSUME NEW q \in Proc
      PROVE  proc'[q] \in Job \cup {Idle} /\ Keeps(jobs[q], proc'[q])
  <2>1. CASE jobs[q] = Idle
    BY <1>3, <2>1 DEF Keeps
  <2>2. CASE jobs[q] # Idle
    <3>1. PICK job \in Job : job = jobs[q]
      BY <2>2
    <3>2. proc'[q] = [job EXCEPT !.held = @ \cap tags]
      BY <1>3, <2>2, <3>1
    <3>3. QED  BY <1>2, <3>1, <3>2
  <2>3. QED  BY <2>1, <2>2
<1>5. QED  BY <1>3, <1>4

LEMMA UnseedKeeps == ASSUME IInv, NEW p \in Running, Unseed(p) PROVE IInv'
<1>1. PICK job \in Job : job = proc[p]
  BY AtWork
<1>2. /\ job.pc = "unseed"
      /\ seeded' = {tag \in seeded : tag[2] \in job.cids => job.id \notin {0, tag[1]}}
      /\ \/ proc' = Forget([proc EXCEPT ![p].pc = "targets"]) /\ UNCHANGED loose
         \/ proc' = Forget([proc EXCEPT ![p] = Idle]) /\ loose'
      /\ UNCHANGED <<store, unannounced, doubled>>
  BY <1>1 DEF Unseed, At
<1>3. /\ p \in Proc /\ proc \in [Proc -> Job \cup {Idle}]
      /\ \A q \in Proc : proc[q] \in Job \cup {Idle}
  BY AtWork
<1>4. /\ ~job.lone /\ job.remove = {} /\ job.id \in Existing \cup {0}
      /\ ~loose => Stale = {} /\ seeded = Rows
  BY <1>1, <1>2, AtWork DEF Fits, Behind, Idle, Job
<1> DEFINE next == [job EXCEPT !.pc = "targets"]
<1>5. /\ next \in Job /\ next.pc = "targets" /\ next.id = job.id /\ next.cids = job.cids
      /\ next.remove = job.remove /\ next.lone = job.lone
  BY DEF Job
<1>6. [proc EXCEPT ![p].pc = "targets"] = [proc EXCEPT ![p] = next]
  BY <1>1, <1>3
<1> HIDE DEF next
<1>7. PICK after \in {next, Idle} :
        /\ proc' = Forget([proc EXCEPT ![p] = after])
        /\ after = next => UNCHANGED loose
        /\ after = Idle => loose'
  <2>1. next # Idle
    BY <1>5 DEF Job, Idle
  <2>2. QED  BY <1>2, <1>6, <2>1
<1>8. PICK new : new = proc'[p]
  OBVIOUS
<1>9. /\ proc' \in [Proc -> Job \cup {Idle}] /\ Keeps(after, new)
      /\ \A q \in Proc \ {p} : Keeps(proc[q], proc'[q])
  <2>1. PICK jobs : jobs = [proc EXCEPT ![p] = after]
    OBVIOUS
  <2>2. jobs \in [Proc -> Job \cup {Idle}]
    BY <1>3, <1>5, <1>7, <2>1
  <2>3. /\ proc' \in [Proc -> Job \cup {Idle}]
        /\ \A q \in Proc : Keeps(jobs[q], proc'[q])
    BY <1>7, <2>1, <2>2, Forgotten
  <2>4. jobs[p] = after /\ \A q \in Proc \ {p} : jobs[q] = proc[q]
    BY <1>3, <2>1
  <2>5. QED  BY <1>3, <1>8, <2>3, <2>4
<1>10. /\ new = Idle <=> after = Idle
       /\ new # Idle => /\ after = next /\ new.pc = "targets" /\ new.id = job.id
                        /\ new.cids = job.cids /\ ~new.lone
  BY <1>4, <1>5, <1>7, <1>9, Kept
<1>11. /\ Stored' /\ SameReleases /\ Existing' = Existing /\ Rows' = Rows /\ Stale' = Stale
  BY <1>2, AtWork, Unwritten
<1>12. Fits(new)'
  <2>1. Fits(after)
    BY <1>4, <1>5, <1>7 DEF Fits
  <2>2. Fits(new)
    BY <1>9, <2>1, KeptFits
  <2>3. QED  BY <1>11, <2>2, FitsStays
<1>13. ~doubled' => Apart'
  <2>1. SUFFICES ASSUME ~doubled  PROVE Apart'
    BY <1>2
  <2>2. Apart
    BY <2>1, AtWork
  <2>3. \A q \in Proc \ {p} : proc'[q] = Idle
    <3>1. \A q \in Proc \ {p} : proc[q] = Idle
      BY <2>2 DEF Apart, Running
    <3>2. QED  BY <1>9, <3>1, Kept
  <2>4. Running' \subseteq {p}
    BY <2>3 DEF Running
  <2>5. \A q \in Running' : ~At(q, "mint")'
    BY <1>8, <1>10, <2>4 DEF At, Running
  <2>6. QED  BY <1>11, <2>2, <2>4, <2>5, ApartStays
<1>14. ~loose' => ~loose /\ Stale' = {} /\ Behind(new)'
  <2>1. SUFFICES ASSUME ~loose'  PROVE ~loose /\ Stale' = {} /\ Behind(new)'
    OBVIOUS
  <2>2. new # Idle /\ ~loose
    BY <1>7, <1>10, <2>1
  <2>3. seeded' = {row \in Rows' : row[2] \in new.cids => new.id \notin {0, row[1]}}
    BY <1>2, <1>4, <1>10, <1>11, <2>2
  <2>4. QED  BY <1>4, <1>10, <1>11, <2>2, <2>3 DEF Behind
<1>16. seeded' \subseteq Id \X Cid
  BY <1>2, AtWork
<1>17. QED
  BY <1>8, <1>9, <1>10, <1>11, <1>12, <1>13, <1>14, <1>16, Moved

\* A release of somebody else arrives, with no locations of this user: what is
\* advertised and tagged stays as it was.
LEMMA SyncKeeps == ASSUME IInv, NEW id \in Id, Sync(id) PROVE IInv'
<1>1. PICK release \in Theirs : store' = [store EXCEPT ![id] = release]
  BY DEF Sync
<1>2. /\ release \in Release /\ release.creator # Local /\ release.urls = {}
      /\ store[id] = Absent /\ id \notin Existing /\ proc' = Disturbed
      /\ UNCHANGED <<seeded, unannounced, loose, doubled>>
  BY CommandsAssumption DEF Sync, Existing, history
<1>3. Sound /\ Stored /\ proc \in [Proc -> Job \cup {Idle}]
  BY DEF IInv, Sound
<1>4. /\ Stored' /\ Existing' = Existing \cup {id} /\ store'[id] = release
      /\ \A other \in Existing : store'[other] = store[other]
  BY <1>1, <1>2, <1>3, Put DEF Existing
<1>5. Rows' = Rows /\ Stale' = Stale
  BY <1>2, <1>4 DEF Rows, Stale
<1>6. /\ proc' \in [Proc -> Job \cup {Idle}]
      /\ \A q \in Proc : Keeps(proc[q], proc'[q])
      /\ \A q \in Running : ~proc'[q].lone
  BY <1>2, <1>3, DisturbedIs
<1>7. /\ \A q \in Proc : /\ proc'[q] = Idle <=> proc[q] = Idle
                         /\ proc'[q].pc = proc[q].pc
                         /\ proc'[q] # Idle => /\ proc'[q].wrote = proc[q].wrote
                                               /\ proc'[q].tag = proc[q].tag
      /\ Running' = Running
  <2>1. \A q \in Proc : /\ proc'[q] = Idle <=> proc[q] = Idle
                        /\ proc'[q].pc = proc[q].pc
                        /\ proc'[q] # Idle => /\ proc'[q].wrote = proc[q].wrote
                                              /\ proc'[q].tag = proc[q].tag
    BY <1>6, Kept
  <2>2. QED  BY <2>1 DEF Running
<1>8. Sound'
  <2>1. ASSUME NEW q \in Proc  PROVE Fits(proc[q])'
    <3>1. PICK k : k = proc'[q]
      OBVIOUS
    <3>2. Fits(k)
      BY <1>3, <1>6, <3>1, KeptFits DEF Sound
    <3>3. Fits(k)'
      BY <1>4, <3>2, FitsStays
    <3>4. QED  BY <3>1, <3>3 DEF Fits
  <2>2. seeded' \subseteq Id \X Cid
    BY <1>2, <1>3 DEF Sound
  <2>3. QED  BY <1>4, <1>6, <2>1, <2>2 DEF Sound
<1>9. ASSUME NEW q \in Proc  PROVE Undisturbed(q)'
  BY <1>6, <1>7 DEF Undisturbed, Running
<1>10. ~doubled' => Apart'
  <2>1. SUFFICES ASSUME Apart  PROVE Apart'
    BY <1>2 DEF IInv
  <2>2. \A a, b \in Existing' :
          store'[a].creator = Local /\ store'[b].creator = Local /\ store'[a].tag = store'[b].tag
            => a = b
    BY <1>2, <1>4, <2>1 DEF Apart
  <2>3. \A q \in Running' : At(q, "mint")' =>
          \A other \in Existing' :
            store'[other].creator = Local => store'[other].tag # proc'[q].tag
    BY <1>2, <1>4, <1>7, <2>1 DEF Apart, At, Running
  <2>4. QED  BY <1>7, <2>1, <2>2, <2>3 DEF Apart
<1>11. ~loose' => Even'
  <2>1. SUFFICES ASSUME Even  PROVE Even'
    BY <1>2 DEF IInv
  <2>2. Seeded' = Seeded
    BY <1>2 DEF Seeded
  <2>3. ASSUME NEW q \in Running'  PROVE Behind(proc[q])'
    <3>1. PICK k : k = proc'[q]
      OBVIOUS
    <3>2. Behind(k)
      BY <1>6, <1>7, <2>1, <3>1, KeptBehind DEF Even, Running
    <3>3. Behind(k)'
      BY <1>2, <1>5, <2>2, <3>2 DEF Behind
    <3>4. QED  BY <3>1, <3>3 DEF Behind
  <2>4. Stale' = {} /\ (\A q, r \in Running' : q = r) /\ (Running' = {} => (seeded = Rows)')
    BY <1>2, <1>5, <1>7, <2>1 DEF Even
  <2>5. QED  BY <2>3, <2>4 DEF Even
<1>12. QED  BY <1>8, <1>9, <1>10, <1>11 DEF IInv

-----------------------------------------------------------------------------
LEMMA InitHolds == Init => IInv
<1>1. SUFFICES ASSUME Init  PROVE IInv
  OBVIOUS
<1>2. PICK first \in {Absent} \cup [creator : {Local}, tag : {NoTag}, carries : {Cid},
                                    urls : {Cid \X kinds : kinds \in {{}, {"foreign"}, {"legacy"}}}] :
        store = [id \in Id |-> IF id = 1 THEN first ELSE Absent]
  BY <1>1 DEF Init
<1>3. /\ seeded = {} /\ proc = [p \in Proc |-> Idle] /\ ~unannounced /\ ~doubled
      /\ loose = \E id \in Existing : store[id].urls # {}
  BY <1>1 DEF Init
<1>4. Running = {}
  BY <1>3 DEF Running
<1>5. ASSUME first # Absent
      PROVE  first \in Release /\ first.carries = Cid /\ first.urls \subseteq Cid \X Url
  <2>1. PICK kinds \in {{}, {"foreign"}, {"legacy"}} : first.urls = Cid \X kinds
    BY <1>5
  <2>2. first.urls \subseteq Cid \X Url
    BY <2>1 DEF Url
  <2>3. QED  BY <1>5, <2>2, CommandsAssumption DEF Release, Ref
<1>6. Existing \subseteq {1} /\ \A id \in Existing : store[id] = first /\ first # Absent
  BY <1>2 DEF Existing
<1>7. Stored
  <2>1. store \in [Id -> Release \cup {Absent}]
    BY <1>2, <1>5
  <2>2. \E last \in Nat : \A id \in Existing : id <= last
    BY <1>6
  <2>3. \A id \in Existing : \A at \in store[id].urls : at[1] \in store[id].carries
    BY <1>5, <1>6
  <2>4. QED  BY <2>1, <2>2, <2>3 DEF Stored
<1>8. Sound
  BY <1>3, <1>7 DEF Sound, Fits
<1>9. \A p \in Proc : Undisturbed(p)
  BY <1>3 DEF Undisturbed
<1>10. Apart
  BY <1>4, <1>6 DEF Apart
<1>11. ~loose => Even
  BY <1>3, <1>4 DEF Even, Stale, Rows
<1>12. QED  BY <1>3, <1>8, <1>9, <1>10, <1>11 DEF IInv

\* What happened before plays no part but in the bookkeeping of the invariant.
LEMMA StutterKeeps == ASSUME IInv, UNCHANGED vars PROVE IInv'
<1>1. UNCHANGED <<store, seeded, proc, unannounced, loose, doubled>>
  BY DEF vars
<1>2. /\ Existing' = Existing /\ Running' = Running /\ Rows' = Rows /\ Stale' = Stale
      /\ Seeded' = Seeded
  BY <1>1 DEF Existing, Running, Rows, Stale, Seeded
<1>3. Sound'
  BY <1>1, <1>2 DEF IInv, Sound, Stored, Fits
<1>4. \A p \in Proc : Undisturbed(p)'
  BY <1>1, <1>2 DEF IInv, Undisturbed, At
<1>5. ~doubled' => Apart'
  BY <1>1, <1>2 DEF IInv, Apart, At
<1>6. ~loose' => Even'
  BY <1>1, <1>2 DEF IInv, Even, Behind, ToGo
<1>7. QED  BY <1>3, <1>4, <1>5, <1>6 DEF IInv

LEMMA NextKeeps == ASSUME IInv, [Next]_vars PROVE IInv'
<1>1. ASSUME NEW p \in Running, Step(p)  PROVE IInv'
  <2>1. CASE Mint(p) \/ SeedTag(p) \/ AddLocation(p) \/ KeepLocal(p) \/ SeedTimesOut(p)
    BY <2>1, MintKeeps, SeedTagKeeps, AddLocationKeeps, KeepLocalKeeps, SeedTimesOutKeeps
  <2>2. CASE Unseed(p) \/ Targets(p) \/ OpenToSweep(p) \/ Sweep(p) \/ Swept(p)
    BY <2>2, UnseedKeeps, TargetsKeeps, OpenToSweepKeeps, SweepKeeps, SweptKeeps
  <2>3. CASE ListSeeded(p) \/ Compare(p) \/ AddRow(p) \/ RemoveRow(p) \/ ReconcileDone(p)
    BY <2>3, ListSeededKeeps, CompareKeeps, AddRowKeeps, RemoveRowKeeps, ReconcileDoneKeeps
  <2>4. CASE Edit(p) \/ End(p) \/ \E cid \in Cid : Register(p, cid)
    BY <2>4, EditKeeps, EndKeeps, RegisterKeeps
  <2>5. QED  BY <1>1, <2>1, <2>2, <2>3, <2>4 DEF Step
<1>2. QED  BY <1>1, BeginKeeps, AbortKeeps, SyncKeeps, StutterKeeps DEF Next

-----------------------------------------------------------------------------
\* The invariant above holds for any number of terminals, releases and artifacts.
THEOREM CommandsInvariant == Spec => []IInv
<1>1. IInv /\ [Next]_vars => IInv'
  BY NextKeeps
<1>2. QED  BY InitHolds, <1>1, PTL DEF Spec

\* Every variable keeps its type, and a release has locations only of the
\* artifacts it carries.
THEOREM CommandsTypeCorrect == Spec => []TypeOK
<1>1. IInv => TypeOK
  BY DEF IInv, Sound, Stored, TypeOK
<1>2. QED  BY CommandsInvariant, <1>1, PTL

\* Create and register make no second release of one tag, or of the bare commit,
\* as long as commands run one at a time and nobody asks for a new one.
THEOREM ReleasesStayOne == Spec => []OneReleasePerTag
<1>1. IInv => OneReleasePerTag
  BY DEF IInv, Apart, OneReleasePerTag
<1>2. QED  BY CommandsInvariant, <1>1, PTL

\* Seed, fetch, unseed and reconcile leave what is advertised from this node what
\* the node has tagged, unless one of them failed, warned of a location it had to
\* leave, or was told to.
THEOREM NodeAndReleasesInStep == Spec => []InStep
<1>1. IInv => InStep
  <2>1. SUFFICES ASSUME IInv, ~loose, Running = {}
                 PROVE  Advertised = {cid \in Seeded : Carrying(cid) # {}} /\ Stale = {}
    BY DEF InStep
  <2>2. Stale = {} /\ seeded = Rows /\ Stored
    BY <2>1 DEF IInv, Even, Sound
  <2>3. ASSUME NEW row \in Rows
        PROVE  /\ row[2] \in Cid /\ row[1] \in Existing
               /\ <<row[2], "current">> \in store[row[1]].urls
               /\ row[1] \in Carrying(row[2])
    <3>1. /\ row[2] \in Cid /\ row[1] \in Existing
          /\ <<row[2], "current">> \in store[row[1]].urls
      BY DEF Rows
    <3>2. PICK at : at = <<row[2], "current">>
      OBVIOUS
    <3>3. at \in store[row[1]].urls /\ at[1] = row[2]
      BY <3>1, <3>2
    <3>4. row[2] \in store[row[1]].carries
      BY <2>2, <3>1, <3>3 DEF Stored
    <3>5. QED  BY <3>1, <3>4 DEF Carrying
  <2>4. ASSUME NEW cid \in Advertised  PROVE \E row \in Rows : row[2] = cid
    <3>1. PICK id \in Existing : cid \in Cid /\ <<cid, "current">> \in store[id].urls
      BY DEF Advertised
    <3>2. PICK row : row = <<id, cid>>
      OBVIOUS
    <3>3. row[1] = id /\ row[2] = cid /\ row \in Existing \X Cid
      BY <3>1, <3>2
    <3>4. QED  BY <3>1, <3>3 DEF Rows
  <2>5. \A row \in Rows : row[2] \in Advertised
    BY <2>3 DEF Advertised
  <2>6. QED  BY <2>2, <2>3, <2>4, <2>5 DEF Seeded
<1>2. QED  BY CommandsInvariant, <1>1, PTL

\* Reconcile retracts no location to this node of an artifact that has been seeded
\* ever since it asked, whatever is seeded and unseeded meanwhile: what it found
\* seeded is not on its list.
THEOREM SeededIsNotRetracted == Spec => RetractsNothingSeeded
<1>1. IInv => \A p \in Proc : proc[p] # Idle /\ proc[p].pc = "rows" => proc[p].held = {}
  BY DEF IInv, Sound, Fits
<1>2. IInv /\ [Next]_vars =>
        [\A p \in Proc, id \in Id, cid \in Cid :
           /\ proc[p] # Idle /\ proc[p].pc = "rows" /\ proc'[p] # proc[p]
           /\ id \in Existing /\ <<cid, "current">> \in store[id].urls
           /\ <<cid, "current">> \notin store'[id].urls
           => cid \notin proc[p].held]_vars
  BY <1>1
<1>3. QED  BY CommandsInvariant, <1>2, PTL DEF Spec, RetractsNothingSeeded

================================================================================
