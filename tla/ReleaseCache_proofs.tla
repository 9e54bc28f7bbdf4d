------------------------- MODULE ReleaseCache_proofs -------------------------
(***************************************************************************)
(* Theorems about reads through the cache, for any number of readers,      *)
(* objects and versions, while git moves at every step.  They need that    *)
(* the tips of an object do not recur.                                     *)
(***************************************************************************)
EXTENDS ReleaseCache, TLAPS

Active(r) == reader[r] # Idle

\* The reader has walked the refs.
Past(r) == Active(r) /\ ~At(r, "tips")

\* Git has nothing but the newest version of an object, or none.
GitOK == \A id \in Id : git[id] \in {0, newest[id]}

RowsOK ==
  \A id \in Id : rows[id] # NoRow =>
    /\ rows[id].token <= rows[id].release
    /\ ~rows[id].old => rows[id].release <= newest[id]

\* A version newer than the tips the reader found came while it read.
Since(r, id, version) ==
  reader[r].current[id] # 0 /\ reader[r].current[id] < version => version \in reader[r].seen[id]

\* What is in the cache, or about to be written there.
Tracks(r) ==
  /\ Active(r) => \A id \in Id : git[id] \in reader[r].seen[id]
  /\ Past(r) => \A id \in Id :
       /\ reader[r].current[id] \in reader[r].seen[id]
       /\ reader[r].current[id] <= newest[id]
       /\ rows[id] # NoRow /\ ~rows[id].old => Since(r, id, rows[id].release)

Loads(r) ==
  At(r, "write") =>
    LET id == reader[r].id
        loaded == reader[r].loaded
    IN  /\ reader[r].current[id] # 0 /\ loaded \in reader[r].seen[id] /\ loaded <= newest[id]
        /\ loaded = 0 \/ reader[r].current[id] <= loaded
        /\ \A o \in Reader : Past(o) => Since(o, id, loaded)

\* Which operations come by which steps, and with what.
Shape(r) ==
  /\ At(r, "row") => reader[r].op = "get" /\ reader[r].current[reader[r].id] # 0
  /\ At(r, "gone") => reader[r].op = "get" /\ reader[r].current[reader[r].id] = 0
  /\ reader[r].pc \in {"heads", "refresh"} => reader[r].op # "get"
  /\ At(r, "pick") => reader[r].op = "find"
  /\ reader[r].pc \in {"tips", "heads", "refresh", "write", "row", "gone"} =>
       \A id \in Id : reader[r].answer[id] = 0
  /\ reader[r].pc \in {"refresh", "write"} /\ reader[r].op # "get" =>
       /\ \A id \in reader[r].todo : reader[r].current[id] # 0
       /\ \A id \in reader[r].prune : reader[r].current[id] = 0

\* A row, or an answer, that is right for a state the object had during the read.
RowRight(r, id) ==
  \/ Released(rows, id) \in reader[r].seen[id] /\ id \notin Unparsed
  \/ reader[r].seen[id] \cap Unreadable # {}

AnswerRight(r, id) ==
  \/ \E version \in reader[r].seen[id] :
       reader[r].answer[id] = Reported(reader[r].op, version)
  \/ reader[r].seen[id] \cap Unreadable # {}

\* What a refresh has handled is right, if nobody else writes.
Pending(r) ==
  reader[r].todo \cup reader[r].prune \cup (IF At(r, "write") THEN {reader[r].id} ELSE {})

Refreshed(r) ==
  /\ reader[r].pc \in {"refresh", "write"} /\ reader[r].op # "get" =>
       \A id \in Id \ Pending(r) : RowRight(r, id)
  /\ At(r, "pick") =>
       /\ \A id \in Id : RowRight(r, id)
       /\ \A id \in Id \ reader[r].todo : AnswerRight(r, id)

Lone(r) ==
  Active(r) /\ reader[r].alone => (\A o \in Reader \ {r} : ~Active(o)) /\ Refreshed(r)

Answers(r) ==
  At(r, "done") /\ reader[r].status # "error" /\ (reader[r].op = "get" \/ reader[r].alone)
    => \A id \in Asked(r) : AnswerRight(r, id)

\* An error tells of an object that could not be read.
Errors(r) ==
  Active(r) /\ reader[r].status = "error" =>
    At(r, "done") /\ \E id \in Asked(r) : reader[r].seen[id] \cap Unreadable # {}

\* What holds of each reader.
Good(r) == Tracks(r) /\ Loads(r) /\ Shape(r) /\ Lone(r) /\ Answers(r) /\ Errors(r)

\* The inductive invariant.  That `get` is current needs to know of every row, and
\* of every row about to be written, that it is no older than the tips a reader has
\* found, or came while it read.
IInv == TypeOK /\ GitOK /\ RowsOK /\ \A r \in Reader : Good(r)

LEMMA Typed ==
  ASSUME TypeOK, NEW r \in Reader
  PROVE  /\ Active(r) <=> reader[r] \in Reading
         /\ At(r, "idle") <=> ~Active(r)
BY DEF TypeOK, Active, At, Reading, Idle

LEMMA InitIInv == Init => IInv
<1> SUFFICES ASSUME Init PROVE IInv
  OBVIOUS
<1> USE CacheAssumption
<1>1. /\ git \in [Id -> {0, 1}] /\ newest = git
      /\ rows \in [Id -> {NoRow} \cup [token : {1}, release : {1} \ Unreadable, old : {TRUE}]]
      /\ good = [id \in Id |-> {v \in {1} \ Unreadable : git[id] = 1 \/ rows[id] # NoRow}]
      /\ reader = [r \in Reader |-> Idle]
  BY DEF Init
<1>2. 1 \in Version /\ 0 \in 0..MaxVersion /\ 1 \in 0..MaxVersion
  BY DEF Version
<1>3. TypeOK
  <2>1. \A row \in [token : {1}, release : {1} \ Unreadable, old : {TRUE}] : row \in Row
    BY <1>2 DEF Row
  <2>2. rows \in [Id -> Row \cup {NoRow}]
    BY <1>1, <2>1
  <2>3. git \in [Id -> 0..MaxVersion] /\ newest \in [Id -> 0..MaxVersion]
    BY <1>1, <1>2
  <2>4. reader \in [Reader -> Reading \cup {Idle}]
    BY <1>1
  <2>5. good \in [Id -> SUBSET Version]
    BY <1>1, <1>2
  <2>6. QED  BY <2>2, <2>3, <2>4, <2>5 DEF TypeOK
<1>4. GitOK /\ RowsOK
  <2>1. \A id \in Id : rows[id] # NoRow =>
          rows[id].token = 1 /\ rows[id].release = 1 /\ rows[id].old = TRUE
    BY <1>1
  <2>2. QED  BY <1>1, <2>1 DEF GitOK, RowsOK
<1>5. ASSUME NEW r \in Reader PROVE Good(r)
  BY <1>1 DEF Good, Tracks, Loads, Shape, Lone, Answers, Errors, Active, Past, At, Idle
<1>6. QED  BY <1>3, <1>4, <1>5 DEF IInv

-----------------------------------------------------------------------------
\* A reader moves on, and at most writes rows that are right for everybody: the
\* invariant is kept if the reader's own part of it is.
LEMMA ReaderMoves ==
  ASSUME IInv, NEW r \in Reader, NEW new \in Reading, Past(r),
         reader' = [reader EXCEPT ![r] = new],
         new.seen = reader[r].seen, new.alone = reader[r].alone,
         new.current = reader[r].current, new.pc # "tips",
         UNCHANGED <<git, newest, good>>,
         rows' \in [Id -> Row \cup {NoRow}],
         \A id \in Id :
           \/ rows'[id] \in {rows[id], NoRow}
           \/ /\ rows'[id].token <= rows'[id].release /\ rows'[id].release <= newest[id]
              /\ \A o \in Reader : Past(o) => Since(o, id, rows'[id].release),
         Loads(r)', Shape(r)', reader[r].alone => Refreshed(r)', Answers(r)', Errors(r)'
  PROVE  IInv'
<1>1. TypeOK'
  BY DEF IInv, TypeOK
<1>2. GitOK'
  BY DEF IInv, GitOK
<1>3. RowsOK'
  BY DEF IInv, RowsOK
<1>4. /\ reader'[r] = new /\ \A o \in Reader \ {r} : reader'[o] = reader[o]
      /\ Active(r) /\ Past(r)' /\ Active(r)'
  BY Typed DEF IInv, TypeOK, Past, Active, At, Reading, Idle
<1>5. \A o \in Reader : (Active(o)' <=> Active(o)) /\ (Past(o)' <=> Past(o))
  BY <1>4 DEF Past, Active, At
<1>6. \A o \in Reader :
        Active(o) => reader'[o].current = reader[o].current /\ reader'[o].seen = reader[o].seen
  BY <1>4
<1>7. ASSUME NEW o \in Reader PROVE Tracks(o)'
  <2>1. Tracks(o)
    BY DEF IInv, Good
  <2>2. ASSUME Active(o), NEW id \in Id PROVE git'[id] \in reader'[o].seen[id]
    BY <1>6, <2>1, <2>2 DEF Tracks
  <2>3. ASSUME Past(o), NEW id \in Id
        PROVE  /\ reader'[o].current[id] \in reader'[o].seen[id]
               /\ reader'[o].current[id] <= newest'[id]
    BY <1>6, <2>1, <2>3 DEF Tracks, Past
  <2>4. ASSUME Past(o), NEW id \in Id, rows'[id] # NoRow, ~rows'[id].old
        PROVE  Since(o, id, rows[id].release)'
    <3>1. Since(o, id, rows'[id].release)
      <4>1. CASE rows'[id] = rows[id]
        BY <2>1, <2>4, <4>1 DEF Tracks
      <4>2. CASE rows'[id] # rows[id]
        BY <2>4, <4>2
      <4>3. QED  BY <4>1, <4>2
    <3>2. QED  BY <1>4, <2>4, <3>1 DEF Since, Past
  <2>5. QED  BY <1>5, <2>2, <2>3, <2>4 DEF Tracks
<1>8. ASSUME NEW o \in Reader \ {r} PROVE Loads(o)'
  <2>1. CASE At(o, "write")
    <3>1. Loads(o)
      BY DEF IInv, Good
    <3>2. reader'[o] = reader[o]
      BY <1>4
    <3>3. \A p \in Reader : Past(p) => Since(p, reader[o].id, reader[o].loaded)
      BY <2>1, <3>1 DEF Loads
    <3>4. ASSUME NEW p \in Reader, Past(p)'
          PROVE  Since(p, reader[o].id, reader[o].loaded)'
      BY <1>4, <1>5, <3>2, <3>3, <3>4 DEF Since
    <3>5. QED  BY <2>1, <3>1, <3>2, <3>4 DEF Loads, At
  <2>2. CASE ~At(o, "write")
    BY <1>4, <2>2 DEF Loads, At
  <2>3. QED  BY <2>1, <2>2
<1>9. ASSUME NEW o \in Reader \ {r} PROVE Shape(o)' /\ Answers(o)' /\ Errors(o)'
  BY <1>4, <1>5 DEF IInv, Good, Shape, Answers, Errors, At, Asked, AnswerRight, Reported
<1>10. ASSUME NEW o \in Reader PROVE Lone(o)'
  BY <1>4, <1>5 DEF IInv, Good, Lone
<1>11. QED  BY <1>1, <1>2, <1>3, <1>7, <1>8, <1>9, <1>10 DEF IInv, Good

\* Git moves: whoever reads has the new version among those it may answer.
LEMMA GitChangesKeeps ==
  ASSUME IInv, ~Recurs, NEW id \in Id, GitChanges(id) PROVE IInv'
<1>1. PICK version \in 0..MaxVersion :
        /\ version = 0 \/ version > newest[id]
        /\ git' = [git EXCEPT ![id] = version]
        /\ newest' = [newest EXCEPT ![id] = IF version > newest[id] THEN version ELSE newest[id]]
        /\ reader' = [r \in Reader |->
             IF At(r, "idle") THEN Idle
             ELSE [reader[r] EXCEPT !.seen[id] = reader[r].seen[id] \cup {version}]]
        /\ good' = [good EXCEPT ![id] = good[id] \cup (({version} \ {0}) \ Unreadable)]
        /\ UNCHANGED rows
  BY DEF GitChanges
<1> USE DEF IInv
<1>2. /\ git \in [Id -> 0..MaxVersion] /\ newest \in [Id -> 0..MaxVersion]
      /\ rows \in [Id -> Row \cup {NoRow}] /\ MaxVersion \in Nat
  BY CacheAssumption DEF TypeOK
<1>3. /\ git' \in [Id -> 0..MaxVersion] /\ newest' \in [Id -> 0..MaxVersion]
      /\ \A i \in Id : newest[i] <= newest'[i]
      /\ GitOK'
  BY <1>1, <1>2 DEF GitOK
<1>4. RowsOK'
  <2>1. \A i \in Id : rows[i] # NoRow => rows[i].release \in Nat
    BY <1>2 DEF Row, Version
  <2>2. QED  BY <1>1, <1>2, <1>3, <2>1 DEF RowsOK
<1>5. ASSUME NEW r \in Reader, Active(r)
      PROVE  /\ reader[r] \in Reading /\ reader'[r] \in Reading
             /\ reader'[r] = [reader[r] EXCEPT
                  !.seen = [reader[r].seen EXCEPT ![id] = reader[r].seen[id] \cup {version}]]
  <2>1. reader[r] \in Reading /\ ~At(r, "idle")
    BY <1>5, Typed
  <2>2. reader'[r] = [reader[r] EXCEPT !.seen[id] = reader[r].seen[id] \cup {version}]
    BY <1>1, <2>1
  <2>3. reader[r].seen \in [Id -> SUBSET (0..MaxVersion)]
    BY <2>1 DEF Reading
  <2>4. reader'[r] = [reader[r] EXCEPT
          !.seen = [reader[r].seen EXCEPT ![id] = reader[r].seen[id] \cup {version}]]
    BY <2>1, <2>2, <2>3 DEF Reading
  <2>5. [reader[r].seen EXCEPT ![id] = reader[r].seen[id] \cup {version}]
          \in [Id -> SUBSET (0..MaxVersion)]
    BY <2>3
  <2>6. reader'[r] \in Reading
    BY <2>1, <2>4, <2>5 DEF Reading
  <2>7. QED  BY <2>1, <2>4, <2>6
<1>6. ASSUME NEW r \in Reader, Active(r)
      PROVE  LET new == reader'[r] IN
             /\ new.pc = reader[r].pc /\ new.op = reader[r].op /\ new.id = reader[r].id
             /\ new.current = reader[r].current /\ new.todo = reader[r].todo
             /\ new.prune = reader[r].prune /\ new.loaded = reader[r].loaded
             /\ new.answer = reader[r].answer /\ new.status = reader[r].status
             /\ new.alone = reader[r].alone /\ new # Idle
             /\ \A i \in Id : reader[r].seen[i] \subseteq new.seen[i]
             /\ version \in new.seen[id]
  <2>1. /\ reader[r] \in Reading
        /\ reader'[r] = [reader[r] EXCEPT
             !.seen = [reader[r].seen EXCEPT ![id] = reader[r].seen[id] \cup {version}]]
    BY <1>5, <1>6
  <2>2. reader'[r].seen = [reader[r].seen EXCEPT ![id] = reader[r].seen[id] \cup {version}]
    BY <2>1 DEF Reading
  <2>3. reader[r].seen \in [Id -> SUBSET (0..MaxVersion)]
    BY <2>1 DEF Reading
  <2>4. QED  BY <2>1, <2>2, <2>3 DEF Reading, Idle
<1>7. ASSUME NEW r \in Reader, ~Active(r) PROVE reader'[r] = Idle
  BY <1>1, <1>7, Typed
<1>8. TypeOK'
  <2>1. \A r \in Reader : reader'[r] \in Reading \cup {Idle}
    BY <1>5, <1>7
  <2>2. reader' \in [Reader -> Reading \cup {Idle}]
    BY <1>1, <2>1
  <2>3. good' \in [Id -> SUBSET Version]
    BY <1>1, <1>2 DEF TypeOK, Version
  <2>4. QED  BY <1>1, <1>2, <1>3, <2>2, <2>3 DEF TypeOK
<1>9. \A r \in Reader : (Active(r)' <=> Active(r)) /\ (Past(r)' <=> Past(r))
  BY <1>6, <1>7 DEF Active, Past, At, Idle
<1>10. ASSUME NEW r \in Reader, Active(r) PROVE Good(r)'
  <2> DEFINE new == reader'[r]
  <2>1. /\ new.pc = reader[r].pc /\ new.op = reader[r].op /\ new.id = reader[r].id
        /\ new.current = reader[r].current /\ new.todo = reader[r].todo
        /\ new.prune = reader[r].prune /\ new.loaded = reader[r].loaded
        /\ new.answer = reader[r].answer /\ new.status = reader[r].status
        /\ new.alone = reader[r].alone
        /\ reader[r] \in Reading
        /\ \A i \in Id : reader[r].seen[i] \subseteq new.seen[i]
        /\ version \in new.seen[id]
    BY <1>5, <1>6, <1>10
  <2>2. Good(r)
    OBVIOUS
  <2>3. \A i \in Id : AnswerRight(r, i) => AnswerRight(r, i)'
    BY <2>1 DEF AnswerRight, Reported
  <2>4. \A i \in Id : RowRight(r, i) => RowRight(r, i)'
    BY <1>1, <2>1 DEF RowRight, Unparsed, Released
  <2>5. Tracks(r)'
    <3>1. Tracks(r)
      BY <2>2 DEF Good
    <3>2. \A i \in Id : git'[i] \in new.seen[i]
      BY <1>1, <1>2, <1>10, <2>1, <3>1 DEF Tracks
    <3>3. ASSUME Past(r), NEW i \in Id
          PROVE  /\ new.current[i] \in new.seen[i] /\ new.current[i] <= newest'[i]
                 /\ rows'[i] # NoRow /\ ~rows'[i].old => Since(r, i, rows[i].release)'
      <4>1. /\ reader[r].current[i] \in reader[r].seen[i]
            /\ reader[r].current[i] <= newest[i]
            /\ rows[i] # NoRow /\ ~rows[i].old => Since(r, i, rows[i].release)
        BY <3>1, <3>3 DEF Tracks
      <4>2. reader[r].current[i] \in 0..MaxVersion /\ newest[i] \in 0..MaxVersion
            /\ newest'[i] \in 0..MaxVersion
        BY <1>2, <1>3, <2>1 DEF Reading
      <4>3. new.current[i] <= newest'[i]
        BY <1>2, <1>3, <2>1, <4>1, <4>2
      <4>4. rows[i] # NoRow /\ ~rows[i].old => Since(r, i, rows[i].release)'
        BY <1>1, <2>1, <4>1 DEF Since
      <4>5. QED  BY <1>1, <2>1, <4>1, <4>3, <4>4
    <3>4. QED  BY <1>9, <3>2, <3>3 DEF Tracks
  <2>6. Loads(r)'
    <3>1. SUFFICES ASSUME At(r, "write") PROVE Loads(r)'
      BY <2>1 DEF Loads, At
    <3> DEFINE i == reader[r].id
               v == reader[r].loaded
    <3>2. /\ reader[r].current[i] # 0 /\ v \in reader[r].seen[i] /\ v <= newest[i]
          /\ v = 0 \/ reader[r].current[i] <= v
          /\ \A o \in Reader : Past(o) => Since(o, i, v)
      BY <2>2, <3>1 DEF Good, Loads
    <3>3. i \in Id /\ v \in 0..MaxVersion
      BY <2>1 DEF Reading
    <3>4. v <= newest'[i]
      BY <1>2, <1>3, <3>2, <3>3
    <3>5. ASSUME NEW o \in Reader, Past(o)'
          PROVE  Since(o, reader[r].id, reader[r].loaded)'
      <4>1. Past(o) /\ Active(o) /\ Since(o, i, v)
        BY <1>9, <3>2, <3>5 DEF Past
      <4>2. reader'[o].current = reader[o].current
            /\ \A j \in Id : reader[o].seen[j] \subseteq reader'[o].seen[j]
        BY <1>6, <4>1
      <4>3. QED  BY <2>1, <3>3, <4>1, <4>2 DEF Since
    <3>6. QED  BY <2>1, <3>2, <3>3, <3>4, <3>5 DEF Loads
  <2>7. Shape(r)'
    BY <2>1, <2>2 DEF Good, Shape, At
  <2>8. Lone(r)'
    BY <1>9, <1>10, <2>1, <2>2, <2>3, <2>4 DEF Good, Lone, Refreshed, Pending, At
  <2>9. Answers(r)' /\ Errors(r)'
    BY <1>9, <1>10, <2>1, <2>2, <2>3 DEF Good, Answers, Errors, Asked, At, Reading
  <2>10. QED  BY <2>5, <2>6, <2>7, <2>8, <2>9 DEF Good
<1>11. ASSUME NEW r \in Reader, ~Active(r) PROVE Good(r)'
  BY <1>7, <1>11 DEF Good, Tracks, Loads, Shape, Lone, Answers, Errors, Active, Past, At, Idle
<1>12. QED  BY <1>3, <1>4, <1>8, <1>10, <1>11

\* A read begins, and from then on nobody else is alone.
LEMMA BeginKeeps ==
  ASSUME IInv, NEW r \in Reader, Begin(r) PROVE IInv'
<1> DEFINE others == {other \in Reader \ {r} : ~ At(other, "idle")}
           read(op, id) ==
             [pc |-> "tips", op |-> op, id |-> id,
              current |-> [i \in Id |-> 0], todo |-> {}, prune |-> {},
              loaded |-> 0, answer |-> [i \in Id |-> 0], status |-> "cache",
              seen |-> [i \in Id |-> {git[i]}], alone |-> others = {}]
<1>1. PICK op \in {"all", "list", "get", "find", "locate"}, id \in Id :
        /\ At(r, "idle")
        /\ reader' = [o \in Reader |->
                        IF o = r THEN read(op, id)
                        ELSE IF o \in others THEN [reader[o] EXCEPT !.alone = FALSE]
                        ELSE Idle]
        /\ UNCHANGED <<git, newest, good, rows>>
  BY DEF Begin
<1> USE DEF IInv
<1>2. MaxVersion \in Nat /\ git \in [Id -> 0..MaxVersion] /\ ~Active(r)
  BY <1>1, CacheAssumption, Typed DEF TypeOK
<1>3. reader'[r] = read(op, id)
  BY <1>1
<1>4. read(op, id) \in Reading
  <2>1. /\ [i \in Id |-> 0] \in [Id -> 0..MaxVersion]
        /\ [i \in Id |-> {git[i]}] \in [Id -> SUBSET (0..MaxVersion)]
        /\ 0 \in 0..MaxVersion
    BY <1>2
  <2>2. (others = {}) \in BOOLEAN
    OBVIOUS
  <2> HIDE DEF others
  <2>3. QED  BY <2>1, <2>2 DEF Reading
<1>4a. /\ reader'[r].pc = "tips" /\ reader'[r].alone = (others = {})
       /\ \A i \in Id : reader'[r].seen[i] = {git[i]} /\ reader'[r].answer[i] = 0
       /\ reader'[r] # Idle /\ reader'[r].status = "cache"
  BY <1>3 DEF Idle
<1>4b. reader'[r] \in Reading
  BY <1>3, <1>4
<1>5. ASSUME NEW o \in Reader \ {r}, Active(o)
      PROVE  LET new == reader'[o] IN
             /\ reader[o] \in Reading /\ new \in Reading
             /\ new.pc = reader[o].pc /\ new.op = reader[o].op /\ new.id = reader[o].id
             /\ new.current = reader[o].current /\ new.todo = reader[o].todo
             /\ new.prune = reader[o].prune /\ new.loaded = reader[o].loaded
             /\ new.answer = reader[o].answer /\ new.status = reader[o].status
             /\ new.seen = reader[o].seen /\ new.alone = FALSE /\ new # Idle
  <2>1. reader[o] \in Reading /\ reader'[o] = [reader[o] EXCEPT !.alone = FALSE]
    BY <1>1, <1>5, Typed
  <2>2. QED  BY <2>1 DEF Reading, Idle
<1>6. ASSUME NEW o \in Reader \ {r}, ~Active(o) PROVE reader'[o] = Idle
  BY <1>1, <1>6, Typed
<1> HIDE DEF read
<1>7. TypeOK'
  <2>1. \A o \in Reader : reader'[o] \in Reading \cup {Idle}
    BY <1>4b, <1>5, <1>6
  <2>2. reader' \in [Reader -> Reading \cup {Idle}]
    BY <1>1, <2>1
  <2>3. QED  BY <1>1, <2>2 DEF TypeOK
<1>8. GitOK' /\ RowsOK'
  BY <1>1 DEF GitOK, RowsOK
<1>9. /\ \A o \in Reader \ {r} : (Active(o)' <=> Active(o)) /\ (Past(o)' <=> Past(o))
      /\ Active(r)' /\ ~Past(r)'
  BY <1>4a, <1>5, <1>6 DEF Active, Past, At
<1>10. Good(r)'
  <2>2. Tracks(r)' /\ Loads(r)' /\ Shape(r)' /\ Answers(r)' /\ Errors(r)'
    BY <1>1, <1>4a, <1>9 DEF Tracks, Loads, Shape, Answers, Errors, At
  <2>3. reader'[r].alone => \A o \in Reader \ {r} : ~Active(o)'
    BY <1>4a, <1>9, Typed
  <2>4. Lone(r)'
    BY <1>4a, <2>3 DEF Lone, Refreshed, At
  <2>5. QED  BY <2>2, <2>4 DEF Good
<1>11. ASSUME NEW o \in Reader \ {r}, Active(o) PROVE Good(o)'
  <2> DEFINE new == reader'[o]
  <2>1. Good(o)
    OBVIOUS
  <2>2. /\ new.pc = reader[o].pc /\ new.op = reader[o].op /\ new.id = reader[o].id
        /\ new.current = reader[o].current /\ new.todo = reader[o].todo
        /\ new.prune = reader[o].prune /\ new.loaded = reader[o].loaded
        /\ new.answer = reader[o].answer /\ new.status = reader[o].status
        /\ new.seen = reader[o].seen /\ new.alone = FALSE
    BY <1>5, <1>11
  <2>3. Tracks(o)' /\ Lone(o)'
    BY <1>1, <1>9, <1>11, <2>1, <2>2 DEF Good, Tracks, Since, Lone
  <2>4. Shape(o)'
    BY <2>1, <2>2 DEF Good, Shape, At
  <2>5. Answers(o)' /\ Errors(o)'
    BY <1>9, <1>11, <2>1, <2>2 DEF Good, Answers, AnswerRight, Reported, Errors, Asked, At
  <2>6. Loads(o)'
    <3>1. SUFFICES ASSUME At(o, "write") PROVE Loads(o)'
      BY <2>2 DEF Loads, At
    <3>2. \A p \in Reader : Past(p) => Since(p, reader[o].id, reader[o].loaded)
      BY <2>1, <3>1 DEF Good, Loads
    <3>3. ASSUME NEW p \in Reader, Past(p)'
          PROVE  Since(p, reader[o].id, reader[o].loaded)'
      <4>1. p \in Reader \ {r} /\ Past(p) /\ Active(p)
        BY <1>9, <3>3 DEF Past
      <4>2. reader'[p].current = reader[p].current /\ reader'[p].seen = reader[p].seen
        BY <1>5, <4>1
      <4>3. QED  BY <2>2, <3>2, <4>1, <4>2 DEF Since
    <3>4. QED  BY <1>1, <2>1, <2>2, <3>1, <3>3 DEF Good, Loads
  <2>7. QED  BY <2>1, <2>3, <2>4, <2>5, <2>6 DEF Good
<1>12. ASSUME NEW o \in Reader \ {r}, ~Active(o) PROVE Good(o)'
  BY <1>6, <1>12 DEF Good, Tracks, Loads, Shape, Lone, Answers, Errors, Active, Past, At, Idle
<1>13. QED  BY <1>7, <1>8, <1>10, <1>11, <1>12

\* The caller has its answer.
LEMMA ReturnKeeps ==
  ASSUME IInv, NEW r \in Reader, Return(r) PROVE IInv'
<1> USE DEF IInv
<1>1. /\ reader' = [reader EXCEPT ![r] = Idle]
      /\ UNCHANGED <<git, newest, good, rows>>
  BY DEF Return
<1>2. reader'[r] = Idle /\ \A o \in Reader \ {r} : reader'[o] = reader[o]
  BY <1>1 DEF TypeOK
<1>3. TypeOK' /\ GitOK' /\ RowsOK'
  BY <1>1 DEF TypeOK, GitOK, RowsOK
<1>4. /\ ~Active(r)' /\ ~Past(r)'
      /\ \A o \in Reader \ {r} : (Active(o)' <=> Active(o)) /\ (Past(o)' <=> Past(o))
  BY <1>2 DEF Active, Past, At
<1>5. Good(r)'
  BY <1>2 DEF Good, Tracks, Loads, Shape, Lone, Answers, Errors, Active, Past, At, Idle
<1>6. ASSUME NEW o \in Reader \ {r} PROVE Good(o)'
  <2>1. Good(o)
    OBVIOUS
  <2>2. Tracks(o)' /\ Shape(o)' /\ Answers(o)' /\ Errors(o)'
    BY <1>1, <1>2, <1>4, <2>1
    DEF Good, Tracks, Since, Shape, Answers, AnswerRight, Reported, Errors, Asked, At
  <2>3. Lone(o)'
    BY <1>1, <1>2, <1>4, <2>1
    DEF Good, Lone, Refreshed, Pending, RowRight, Unparsed, Released, AnswerRight, Reported, At
  <2>4. Loads(o)'
    <3>1. \A p \in Reader : Past(p)' => p # r /\ Past(p)
      BY <1>4
    <3>2. QED  BY <1>1, <1>2, <2>1, <3>1 DEF Good, Loads, Since, At
  <2>5. QED  BY <2>2, <2>3, <2>4 DEF Good
<1>7. QED  BY <1>3, <1>5, <1>6

\* The reader walks the refs: from here on it measures rows by the tips it found.
LEMMA ReadTipsKeeps ==
  ASSUME IInv, NEW r \in Reader, ReadTips(r) PROVE IInv'
<1> USE DEF IInv
<1> DEFINE new == [reader[r] EXCEPT
             !.current = git,
             !.pc = IF reader[r].op # "get" THEN "heads"
                    ELSE IF git[reader[r].id] = 0 THEN "gone" ELSE "row"]
<1>1. /\ At(r, "tips") /\ reader' = [reader EXCEPT ![r] = new]
      /\ UNCHANGED <<git, newest, good, rows>>
  BY DEF ReadTips
<1>2. /\ git \in [Id -> 0..MaxVersion] /\ newest \in [Id -> 0..MaxVersion]
      /\ rows \in [Id -> Row \cup {NoRow}] /\ MaxVersion \in Nat
      /\ reader[r] \in Reading /\ Active(r) /\ ~Past(r)
  BY <1>1, CacheAssumption, Typed DEF TypeOK, At, Idle, Active, Past
<1>3. new \in Reading
  BY <1>2 DEF Reading
<1>4. /\ new.current = git /\ new.pc \in {"heads", "gone", "row"}
      /\ new.op # "get" => new.pc = "heads"
      /\ new.op = "get" => new.pc = IF git[new.id] = 0 THEN "gone" ELSE "row"
      /\ new.op = reader[r].op /\ new.id = reader[r].id /\ new.seen = reader[r].seen
      /\ new.alone = reader[r].alone /\ new.answer = reader[r].answer
      /\ new.status = reader[r].status /\ new # Idle
  BY <1>2 DEF Reading, Idle
<1>5. reader'[r] = new /\ \A o \in Reader \ {r} : reader'[o] = reader[o]
  BY <1>1 DEF TypeOK
<1> HIDE DEF new
<1>6. TypeOK' /\ GitOK' /\ RowsOK'
  BY <1>1, <1>3 DEF TypeOK, GitOK, RowsOK
<1>7. /\ \A o \in Reader : (Active(o)' <=> Active(o))
      /\ \A o \in Reader \ {r} : (Past(o)' <=> Past(o))
      /\ Past(r)'
  BY <1>2, <1>4, <1>5 DEF Active, Past, At
<1>8. ASSUME NEW id \in Id, NEW v \in 0..MaxVersion, v <= newest[id]
      PROVE  Since(r, id, v)'
  BY <1>2, <1>4, <1>5, <1>8 DEF Since, GitOK
<1>9. Good(r)'
  <2>1. Good(r)
    OBVIOUS
  <2>2. \A id \in Id : git[id] \in reader[r].seen[id] /\ git[id] <= newest[id]
    BY <1>2, <2>1 DEF Good, Tracks, GitOK
  <2>3. Tracks(r)'
    <3>1. ASSUME NEW id \in Id, rows[id] # NoRow, ~rows[id].old
          PROVE  Since(r, id, rows[id].release)'
      <4>1. rows[id].release \in 0..MaxVersion /\ rows[id].release <= newest[id]
        BY <1>2, <3>1 DEF RowsOK, Row, Version
      <4>2. QED  BY <1>1, <1>2, <1>4, <1>5, <4>1 DEF Since, GitOK
    <3>2. QED  BY <1>1, <1>4, <1>5, <2>2, <3>1 DEF Tracks
  <2>4. Loads(r)' /\ Answers(r)'
    BY <1>4, <1>5 DEF Loads, Answers, At
  <2>5. Shape(r)'
    BY <1>1, <1>4, <1>5, <2>1 DEF Good, Shape, At
  <2>6. Errors(r)'
    BY <1>1, <1>2, <1>4, <1>5, <2>1 DEF Good, Errors, At
  <2>7. Lone(r)'
    BY <1>2, <1>4, <1>5, <1>7, <2>1 DEF Good, Lone, Refreshed, At
  <2>8. QED  BY <2>3, <2>4, <2>5, <2>6, <2>7 DEF Good
<1>10. ASSUME NEW o \in Reader \ {r} PROVE Good(o)'
  <2>1. Good(o)
    OBVIOUS
  <2>2. Tracks(o)' /\ Shape(o)' /\ Answers(o)' /\ Errors(o)'
    BY <1>1, <1>5, <1>7, <2>1
    DEF Good, Tracks, Since, Shape, Answers, AnswerRight, Reported, Errors, Asked, At
  <2>3. Lone(o)'
    BY <1>2, <1>5, <1>7, <2>1 DEF Good, Lone
  <2>4. Loads(o)'
    <3>1. SUFFICES ASSUME At(o, "write") PROVE Loads(o)'
      BY <1>5 DEF Loads, At
    <3>2. /\ reader[o].loaded <= newest[reader[o].id]
          /\ \A p \in Reader : Past(p) => Since(p, reader[o].id, reader[o].loaded)
      BY <2>1, <3>1 DEF Good, Loads
    <3>3. reader[o].id \in Id /\ reader[o].loaded \in 0..MaxVersion
      BY <3>1, Typed DEF Reading, Active, At, Idle
    <3>4. ASSUME NEW p \in Reader, Past(p)'
          PROVE  Since(p, reader[o].id, reader[o].loaded)'
      <4>1. CASE p = r
        BY <1>2, <1>4, <1>5, <3>2, <3>3, <4>1 DEF Since, GitOK
      <4>2. CASE p # r
        BY <1>5, <1>7, <3>2, <3>4, <4>2 DEF Since
      <4>3. QED  BY <4>1, <4>2
    <3>5. QED  BY <1>1, <1>5, <2>1, <3>1, <3>4 DEF Good, Loads
  <2>5. QED  BY <2>2, <2>3, <2>4 DEF Good
<1>11. QED  BY <1>6, <1>9, <1>10

-----------------------------------------------------------------------------
\* What the steps of a reader who has walked the refs start from.
LEMMA Walked ==
  ASSUME IInv, NEW r \in Reader, Past(r)
  PROVE  /\ reader[r] \in Reading /\ Active(r) /\ reader[r].pc # "tips" /\ Good(r)
         /\ MaxVersion \in Nat
         /\ \A id \in Id :
              /\ git[id] \in 0..MaxVersion /\ newest[id] \in 0..MaxVersion
              /\ reader[r].current[id] \in 0..MaxVersion
              /\ git[id] \in reader[r].seen[id] /\ git[id] <= newest[id]
              /\ reader[r].current[id] \in reader[r].seen[id]
              /\ rows[id] # NoRow => rows[id] \in Row
<1>1. reader[r] \in Reading /\ Active(r) /\ reader[r].pc # "tips" /\ Good(r)
  BY Typed DEF IInv, Past, At
<1>2. /\ MaxVersion \in Nat /\ rows \in [Id -> Row \cup {NoRow}]
      /\ git \in [Id -> 0..MaxVersion] /\ newest \in [Id -> 0..MaxVersion]
  BY CacheAssumption DEF IInv, TypeOK
<1>3. \A id \in Id : git[id] <= newest[id]
  BY <1>2 DEF IInv, GitOK
<1>4. reader[r].current \in [Id -> 0..MaxVersion]
  BY <1>1 DEF Reading
<1>5. QED  BY <1>1, <1>2, <1>3, <1>4 DEF Good, Tracks

\* A fresh row is right: it is the release of the tips found, or of later ones that
\* came during the read.
LEMMA FreshIsRight ==
  ASSUME IInv, NEW r \in Reader, Past(r), NEW id \in Id,
         reader[r].current[id] # 0, Fresh(rows[id], reader[r].current[id])
  PROVE  rows[id].release \in reader[r].seen[id]
<1>1. rows[id] \in Row /\ ~rows[id].old /\ rows[id].token = reader[r].current[id]
  BY Walked DEF Fresh
<1>2. rows[id].release \in Nat /\ reader[r].current[id] \in Nat
  BY <1>1, Walked DEF Row, Version
<1>3. rows[id].token <= rows[id].release
  BY <1>1 DEF IInv, RowsOK, Fresh
<1>4. Since(r, id, rows[id].release)
  BY <1>1 DEF IInv, Good, Tracks, Fresh
<1>5. QED  BY <1>1, <1>2, <1>3, <1>4, Walked DEF Since

\* What is loaded now may be written under the tips found before.
LEMMA LoadIsRight ==
  ASSUME IInv, NEW r \in Reader, Past(r), NEW id \in Id
  PROVE  /\ git[id] = 0 \/ reader[r].current[id] <= git[id]
         /\ \A o \in Reader : Past(o) => Since(o, id, git[id])
<1>1. reader[r].current[id] <= newest[id] /\ git[id] \in {0, newest[id]}
  BY DEF IInv, Good, Tracks, GitOK
<1>2. \A o \in Reader : Past(o) => git[id] \in reader[o].seen[id]
  BY Walked
<1>3. QED  BY <1>1, <1>2 DEF Since

\* A refresh notes what is stale; what it does not note is fresh.
LEMMA ReadHeadsKeeps ==
  ASSUME IInv, NEW r \in Reader, ReadHeads(r) PROVE IInv'
<1> DEFINE current == reader[r].current
           todo == {id \in Id : current[id] # 0 /\ ~ Fresh(rows[id], current[id])}
           prune == {id \in Id : current[id] = 0 /\ rows[id] # NoRow}
           new == [reader[r] EXCEPT !.pc = "refresh", !.todo = todo, !.prune = prune]
<1>1. /\ At(r, "heads") /\ reader' = [reader EXCEPT ![r] = new]
      /\ UNCHANGED <<git, newest, good, rows>>
  BY DEF ReadHeads
<1>2. Past(r)
  BY <1>1 DEF Past, Active, At, Idle
<1>3. reader[r] \in Reading /\ Good(r)
  BY <1>2, Walked
<1>4. todo \in SUBSET Id /\ prune \in SUBSET Id
  OBVIOUS
<1>5. ASSUME NEW id \in Id \ (todo \cup prune) PROVE RowRight(r, id)
  <2>1. CASE current[id] # 0
    <3>1. Fresh(rows[id], current[id])
      BY <1>5, <2>1
    <3>2. QED  BY <1>2, <2>1, <3>1, FreshIsRight DEF RowRight, Unparsed, Released, Fresh
  <2>2. CASE current[id] = 0
    <3>1. rows[id] = NoRow /\ 0 \in reader[r].seen[id]
      BY <1>2, <1>5, <2>2, Walked
    <3>2. QED  BY <3>1 DEF RowRight, Unparsed, Released
  <2>3. QED  BY <2>1, <2>2
<1>6. /\ \A id \in todo : current[id] # 0
      /\ \A id \in prune : current[id] = 0
  OBVIOUS
<1> HIDE DEF todo, prune
<1>7. /\ new \in Reading /\ new.pc = "refresh" /\ new.todo = todo /\ new.prune = prune
      /\ new.op = reader[r].op /\ new.id = reader[r].id /\ new.seen = reader[r].seen
      /\ new.alone = reader[r].alone /\ new.answer = reader[r].answer
      /\ new.status = reader[r].status /\ new.current = reader[r].current
  BY <1>3, <1>4 DEF Reading
<1>8. reader'[r] = new
  BY <1>1 DEF IInv, TypeOK
<1> HIDE DEF new
<1>9. Loads(r)' /\ Answers(r)'
  BY <1>7, <1>8 DEF Loads, Answers, At
<1>10. Shape(r)'
  BY <1>1, <1>3, <1>6, <1>7, <1>8 DEF Good, Shape, At
<1>11. Refreshed(r)'
  BY <1>1, <1>5, <1>7, <1>8 DEF Refreshed, RowRight, Unparsed, Released, Pending, At
<1>12. Errors(r)'
  BY <1>1, <1>2, <1>3, <1>7, <1>8 DEF Good, Errors, At, Past
<1>13. rows' \in [Id -> Row \cup {NoRow}]
  BY <1>1 DEF IInv, TypeOK
<1>14. QED  BY <1>1, <1>2, <1>7, <1>9, <1>10, <1>11, <1>12, <1>13, ReaderMoves

\* A stale object is materialised, or skipped when it cannot be read.
LEMMA MaterialiseStaleKeeps ==
  ASSUME IInv, NEW r \in Reader, NEW id \in Id, MaterialiseStale(r, id) PROVE IInv'
<1> DEFINE new == [reader[r] EXCEPT
             !.todo = reader[r].todo \ {id}, !.id = id, !.loaded = git[id],
             !.pc = IF git[id] \in Unreadable THEN "refresh" ELSE "write"]
<1>1. /\ At(r, "refresh") /\ id \in reader[r].todo
      /\ reader' = [reader EXCEPT ![r] = new]
      /\ UNCHANGED <<git, newest, good, rows>>
  BY DEF MaterialiseStale
<1>2. Past(r)
  BY <1>1 DEF Past, Active, At, Idle
<1>3. reader[r] \in Reading /\ Good(r) /\ git[id] \in 0..MaxVersion
  BY <1>2, Walked
<1>4. /\ new \in Reading /\ new.todo = reader[r].todo \ {id} /\ new.prune = reader[r].prune
      /\ new.pc = IF git[id] \in Unreadable THEN "refresh" ELSE "write"
      /\ new.op = reader[r].op /\ new.id = id /\ new.seen = reader[r].seen
      /\ new.alone = reader[r].alone /\ new.answer = reader[r].answer
      /\ new.loaded = git[id]
      /\ new.status = reader[r].status /\ new.current = reader[r].current
  BY <1>3 DEF Reading
<1>5. reader'[r] = new
  BY <1>1 DEF IInv, TypeOK
<1> HIDE DEF new
<1>6. /\ git[id] \in reader[r].seen[id] /\ git[id] <= newest[id]
      /\ git[id] = 0 \/ reader[r].current[id] <= git[id]
      /\ \A o \in Reader : Past(o) => Since(o, id, git[id])
      /\ reader[r].current[id] # 0
  BY <1>1, <1>2, <1>3, Walked, LoadIsRight DEF Good, Shape, At
<1>7. \A o \in Reader : reader'[o].current = reader[o].current
                         /\ reader'[o].seen = reader[o].seen
                         /\ (Past(o)' => Past(o))
  BY <1>1, <1>2, <1>4, <1>5 DEF IInv, TypeOK, Past, Active, At
<1>8. Loads(r)'
  BY <1>1, <1>4, <1>5, <1>6, <1>7 DEF Loads, Since, At
<1>9. Shape(r)'
  BY <1>1, <1>3, <1>4, <1>5 DEF Good, Shape, At
<1>10. reader[r].alone => Refreshed(r)'
  BY <1>1, <1>2, <1>3, <1>4, <1>5, <1>6
  DEF Good, Lone, Refreshed, RowRight, Unparsed, Released, Pending, At, Past
<1>11. Answers(r)' /\ Errors(r)'
  BY <1>1, <1>2, <1>3, <1>4, <1>5 DEF Good, Answers, Errors, At, Past
<1>12. rows' \in [Id -> Row \cup {NoRow}]
  BY <1>1 DEF IInv, TypeOK
<1>13. QED  BY <1>1, <1>2, <1>4, <1>8, <1>9, <1>10, <1>11, <1>12, ReaderMoves

\* What a reader writes is right for whoever finds it.
LEMMA NewRowIsRight ==
  ASSUME IInv, NEW r \in Reader, At(r, "write")
  PROVE  /\ Past(r) /\ reader[r].id \in Id
         /\ NewRow(r) \in Row \cup {NoRow}
         /\ \/ NewRow(r) = NoRow /\ reader[r].loaded = 0
            \/ /\ NewRow(r) # NoRow /\ NewRow(r).release = reader[r].loaded
               /\ NewRow(r).token <= NewRow(r).release
               /\ NewRow(r).release <= newest[reader[r].id]
               /\ \A o \in Reader : Past(o) => Since(o, reader[r].id, NewRow(r).release)
         /\ reader[r].loaded \in reader[r].seen[reader[r].id]
<1> DEFINE id == reader[r].id
           loaded == reader[r].loaded
<1>1. Past(r)
  BY DEF Past, Active, At, Idle
<1>2. /\ reader[r] \in Reading /\ Good(r) /\ id \in Id
      /\ reader[r].current[id] \in 0..MaxVersion /\ loaded \in 0..MaxVersion
      /\ MaxVersion \in Nat
  BY <1>1, Walked DEF Reading
<1>3. /\ reader[r].current[id] # 0 /\ loaded \in reader[r].seen[id] /\ loaded <= newest[id]
      /\ loaded = 0 \/ reader[r].current[id] <= loaded
      /\ \A o \in Reader : Past(o) => Since(o, id, loaded)
  BY <1>2 DEF Good, Loads
<1>4. CASE loaded = 0
  BY <1>1, <1>2, <1>3, <1>4 DEF NewRow
<1>5. CASE loaded # 0
  <2>1. NewRow(r) = [token |-> reader[r].current[id], release |-> loaded, old |-> FALSE]
    BY <1>5 DEF NewRow
  <2>2. reader[r].current[id] \in Version /\ loaded \in Version
    BY <1>2, <1>3, <1>5 DEF Version
  <2>3. NewRow(r) \in Row
    BY <2>1, <2>2 DEF Row
  <2>4. NewRow(r) # NoRow
    BY <2>3, CacheAssumption DEF Row
  <2>5. QED  BY <1>1, <1>2, <1>3, <1>5, <2>1, <2>3, <2>4
<1>6. QED  BY <1>4, <1>5

\* The refresh writes one object's row.
LEMMA WriteStaleKeeps ==
  ASSUME IInv, NEW r \in Reader, WriteStale(r) PROVE IInv'
<1> DEFINE id == reader[r].id
           new == [reader[r] EXCEPT !.pc = "refresh"]
<1>1. /\ At(r, "write") /\ reader[r].op # "get"
      /\ rows' = [rows EXCEPT ![id] = NewRow(r)]
      /\ reader' = [reader EXCEPT ![r] = new]
      /\ UNCHANGED <<git, newest, good>>
  BY DEF WriteStale
<1>2. /\ Past(r) /\ id \in Id /\ NewRow(r) \in Row \cup {NoRow}
      /\ \/ NewRow(r) = NoRow /\ reader[r].loaded = 0
         \/ /\ NewRow(r) # NoRow /\ NewRow(r).release = reader[r].loaded
            /\ NewRow(r).token <= NewRow(r).release
            /\ NewRow(r).release <= newest[id]
            /\ \A o \in Reader : Past(o) => Since(o, id, NewRow(r).release)
      /\ reader[r].loaded \in reader[r].seen[id]
  BY <1>1, NewRowIsRight
<1>3. reader[r] \in Reading /\ Good(r) /\ rows \in [Id -> Row \cup {NoRow}]
  BY <1>2, Walked DEF IInv, TypeOK
<1>4. /\ new \in Reading /\ new.todo = reader[r].todo /\ new.prune = reader[r].prune
      /\ new.pc = "refresh" /\ new.op = reader[r].op /\ new.id = id
      /\ new.seen = reader[r].seen /\ new.alone = reader[r].alone
      /\ new.answer = reader[r].answer /\ new.status = reader[r].status
      /\ new.current = reader[r].current
  BY <1>3 DEF Reading
<1>5. reader'[r] = new
  BY <1>1 DEF IInv, TypeOK
<1> HIDE DEF new
<1>6. /\ rows' \in [Id -> Row \cup {NoRow}] /\ rows'[id] = NewRow(r)
      /\ \A i \in Id \ {id} : rows'[i] = rows[i]
  BY <1>1, <1>2, <1>3
<1>7. Loads(r)' /\ Answers(r)' /\ Errors(r)'
  BY <1>1, <1>2, <1>3, <1>4, <1>5 DEF Good, Loads, Answers, Errors, At, Past
<1>8. Shape(r)'
  BY <1>1, <1>3, <1>4, <1>5 DEF Good, Shape, At
<1>9. reader[r].alone => Refreshed(r)'
  <2>1. RowRight(r, id)'
    BY <1>2, <1>4, <1>5, <1>6 DEF RowRight, Unparsed, Released, NewRow
  <2>2. ASSUME reader[r].alone, NEW i \in Id \ {id}, i \notin reader[r].todo \cup reader[r].prune
        PROVE  RowRight(r, i)'
    <3>1. RowRight(r, i)
      BY <1>1, <1>2, <1>3, <2>2 DEF Good, Lone, Refreshed, Pending, At, Past
    <3>2. QED  BY <1>4, <1>5, <1>6, <3>1 DEF RowRight, Unparsed, Released
  <2>3. QED  BY <1>4, <1>5, <2>1, <2>2 DEF Refreshed, Pending, At
<1>10. \A i \in Id :
        \/ rows'[i] \in {rows[i], NoRow}
        \/ /\ rows'[i].token <= rows'[i].release /\ rows'[i].release <= newest[i]
           /\ \A o \in Reader : Past(o) => Since(o, i, rows'[i].release)
  BY <1>2, <1>6
<1>11. QED  BY <1>1, <1>2, <1>4, <1>6, <1>7, <1>8, <1>9, <1>10, ReaderMoves

\* The refresh drops the row of an object that has no refs.
LEMMA PruneKeeps ==
  ASSUME IInv, NEW r \in Reader, NEW id \in Id, Prune(r, id) PROVE IInv'
<1> DEFINE new == [reader[r] EXCEPT !.prune = reader[r].prune \ {id}]
<1>1. /\ At(r, "refresh") /\ id \in reader[r].prune
      /\ rows' = [rows EXCEPT ![id] = NoRow]
      /\ reader' = [reader EXCEPT ![r] = new]
      /\ UNCHANGED <<git, newest, good>>
  BY DEF Prune
<1>2. Past(r)
  BY <1>1 DEF Past, Active, At, Idle
<1>3. /\ reader[r] \in Reading /\ Good(r) /\ rows \in [Id -> Row \cup {NoRow}]
      /\ \A i \in Id : reader[r].current[i] \in reader[r].seen[i]
  BY <1>2, Walked DEF IInv, TypeOK
<1>4. /\ new \in Reading /\ new.todo = reader[r].todo /\ new.prune = reader[r].prune \ {id}
      /\ new.pc = "refresh" /\ new.op = reader[r].op /\ new.id = reader[r].id
      /\ new.seen = reader[r].seen /\ new.alone = reader[r].alone
      /\ new.answer = reader[r].answer /\ new.status = reader[r].status
      /\ new.current = reader[r].current
  BY <1>1, <1>3 DEF Reading, At
<1>5. reader'[r] = new
  BY <1>1 DEF IInv, TypeOK
<1> HIDE DEF new
<1>6. /\ rows' \in [Id -> Row \cup {NoRow}] /\ rows'[id] = NoRow
      /\ \A i \in Id \ {id} : rows'[i] = rows[i]
  BY <1>1, <1>3
<1>7. Loads(r)' /\ Answers(r)' /\ Errors(r)'
  BY <1>1, <1>2, <1>3, <1>4, <1>5 DEF Good, Loads, Answers, Errors, At, Past
<1>8. Shape(r)'
  BY <1>1, <1>3, <1>4, <1>5 DEF Good, Shape, At
<1>9. reader[r].alone => Refreshed(r)'
  <2>1. reader[r].current[id] = 0
    BY <1>1, <1>3 DEF Good, Shape, At
  <2>2. RowRight(r, id)'
    BY <1>3, <1>4, <1>5, <1>6, <2>1 DEF RowRight, Unparsed, Released
  <2>3. ASSUME reader[r].alone, NEW i \in Id \ {id}, i \notin reader[r].todo \cup reader[r].prune
        PROVE  RowRight(r, i)'
    <3>1. Refreshed(r) /\ reader[r].op # "get"
      BY <1>1, <1>2, <1>3, <2>3 DEF Good, Lone, Shape, At, Past
    <3>2. RowRight(r, i)
      BY <1>1, <2>3, <3>1 DEF Refreshed, Pending, At
    <3>3. QED  BY <1>4, <1>5, <1>6, <3>2 DEF RowRight, Unparsed, Released
  <2>4. QED  BY <1>4, <1>5, <2>2, <2>3 DEF Refreshed, Pending, At
<1>10. QED  BY <1>1, <1>2, <1>4, <1>6, <1>7, <1>8, <1>9, ReaderMoves

\* A reader gives up on the cache, and asks git.
LEMMA ToGit ==
  ASSUME IInv, NEW r \in Reader, Past(r), ~At(r, "done"),
         AskGit(r),
         UNCHANGED <<git, newest, good, rows>>
  PROVE  IInv'
<1> DEFINE new == [reader[r] EXCEPT !.pc = "git", !.todo = {}, !.prune = {}, !.loaded = 0]
<1>1. reader[r] \in Reading /\ Good(r) /\ 0 \in 0..MaxVersion
  BY Walked, CacheAssumption
<1>2. /\ new \in Reading /\ new.pc = "git"
      /\ new.seen = reader[r].seen /\ new.alone = reader[r].alone
      /\ new.status = reader[r].status /\ new.current = reader[r].current
  BY <1>1 DEF Reading
<1>3. reader'[r] = new /\ reader' = [reader EXCEPT ![r] = new]
  BY DEF IInv, TypeOK, AskGit
<1> HIDE DEF new
<1>4. Loads(r)' /\ Shape(r)' /\ Refreshed(r)' /\ Answers(r)'
  BY <1>2, <1>3 DEF Loads, Shape, Refreshed, Answers, At
<1>5. Errors(r)'
  BY <1>1, <1>2, <1>3 DEF Good, Errors, At, Past
<1>6. rows' \in [Id -> Row \cup {NoRow}]
  BY DEF IInv, TypeOK
<1>7. QED  BY <1>2, <1>3, <1>4, <1>5, <1>6, ReaderMoves

\* A reader has its answer, which the caller shows to be right.
LEMMA AnswerKeeps ==
  ASSUME IInv, NEW r \in Reader, Past(r), ~At(r, "done"),
         NEW answer \in [Id -> 0..MaxVersion], Answered(r, answer),
         UNCHANGED <<git, newest, good>>,
         rows' \in [Id -> Row \cup {NoRow}],
         \A id \in Id :
           \/ rows'[id] \in {rows[id], NoRow}
           \/ /\ rows'[id].token <= rows'[id].release /\ rows'[id].release <= newest[id]
              /\ \A o \in Reader : Past(o) => Since(o, id, rows'[id].release),
         reader[r].op = "get" \/ reader[r].alone =>
           \A id \in Asked(r) :
             \/ \E version \in reader[r].seen[id] : answer[id] = Reported(reader[r].op, version)
             \/ reader[r].seen[id] \cap Unreadable # {}
  PROVE  IInv'
<1> DEFINE new == [reader[r] EXCEPT !.pc = "done", !.answer = answer]
<1>1. reader[r] \in Reading /\ Good(r)
  BY Walked
<1>2. /\ new \in Reading /\ new.pc = "done" /\ new.answer = answer
      /\ new.seen = reader[r].seen /\ new.alone = reader[r].alone
      /\ new.op = reader[r].op /\ new.id = reader[r].id
      /\ new.status = reader[r].status /\ new.current = reader[r].current
  BY <1>1 DEF Reading
<1>3. reader'[r] = new /\ reader' = [reader EXCEPT ![r] = new]
  BY DEF IInv, TypeOK, Answered
<1> HIDE DEF new
<1>4. Loads(r)' /\ Shape(r)' /\ Refreshed(r)'
  BY <1>2, <1>3 DEF Loads, Shape, Refreshed, At
<1>5. Errors(r)'
  BY <1>1, <1>2, <1>3 DEF Good, Errors, At, Past
<1>6. Answers(r)'
  BY <1>2, <1>3 DEF Answers, AnswerRight, Reported, Asked, At
<1>7. QED  BY <1>2, <1>3, <1>4, <1>5, <1>6, ReaderMoves

\* The refresh is over: the cache answers, or says which rows to read, or has a row
\* that does not parse.
LEMMA ReadCacheKeeps ==
  ASSUME IInv, NEW r \in Reader, ReadCache(r) PROVE IInv'
<1>1. /\ At(r, "refresh") /\ reader[r].todo = {} /\ reader[r].prune = {}
      /\ UNCHANGED <<git, newest, good, rows>> /\ Past(r) /\ ~At(r, "done")
  BY DEF ReadCache, Past, Active, At, Idle
<1>2. /\ reader[r] \in Reading /\ Good(r) /\ rows \in [Id -> Row \cup {NoRow}]
      /\ MaxVersion \in Nat
  BY <1>1, Walked DEF IInv, TypeOK
<1>3. reader[r].op # "get" /\ \A id \in Id : reader[r].answer[id] = 0
  BY <1>1, <1>2 DEF Good, Shape, At
<1>4. ASSUME reader[r].alone, NEW id \in Id PROVE RowRight(r, id)
  <2>1. Refreshed(r) /\ Pending(r) = {}
    BY <1>1, <1>2, <1>4 DEF Good, Lone, Past, Pending, At
  <2>2. QED  BY <1>1, <1>3, <2>1 DEF Refreshed, At
<1>5. \A id \in Id : Released(rows, id) \in 0..MaxVersion
  BY <1>2 DEF Released, Row, Version
<1>6. CASE reader[r].op = "all" /\ Unparsed # {}
  <2>1. AskGit(r)
    BY <1>6 DEF ReadCache
  <2>2. QED  BY <1>1, <2>1, ToGit
<1>7. CASE reader[r].op = "all" /\ Unparsed = {}
  <2> DEFINE answer == [id \in Id |-> Released(rows, id)]
  <2>1. Answered(r, answer)
    BY <1>7 DEF ReadCache
  <2>2. answer \in [Id -> 0..MaxVersion]
    BY <1>5
  <2>3. ASSUME reader[r].alone, NEW id \in Id
        PROVE  \/ \E version \in reader[r].seen[id] : answer[id] = Reported(reader[r].op, version)
               \/ reader[r].seen[id] \cap Unreadable # {}
    BY <1>4, <1>7, <2>3 DEF RowRight, Unparsed, Reported
  <2>4. QED
    <3> HIDE DEF answer
    <3>1. QED  BY <1>1, <1>2, <1>3, <2>1, <2>2, <2>3, AnswerKeeps DEF Asked
<1>8. CASE reader[r].op = "locate"
  <2> DEFINE answer == [id \in Id |-> IF id \in Carrying(rows) THEN Released(rows, id) ELSE 0]
  <2>1. Answered(r, answer)
    BY <1>8 DEF ReadCache
  <2>2. answer \in [Id -> 0..MaxVersion]
    BY <1>2, <1>5
  <2>3. ASSUME reader[r].alone, NEW id \in Id
        PROVE  \/ \E version \in reader[r].seen[id] : answer[id] = Reported(reader[r].op, version)
               \/ reader[r].seen[id] \cap Unreadable # {}
    BY <1>4, <1>8, <2>3 DEF RowRight, Unparsed, Reported, Carrying
  <2>4. QED
    <3> HIDE DEF answer
    <3>1. QED  BY <1>1, <1>2, <1>3, <2>1, <2>2, <2>3, AnswerKeeps DEF Asked
<1>9. CASE reader[r].op = "find"
  <2> DEFINE new == [reader[r] EXCEPT !.pc = "pick", !.todo = Carrying(rows)]
  <2>1. reader' = [reader EXCEPT ![r] = new]
    BY <1>9 DEF ReadCache
  <2>2. Carrying(rows) \subseteq Id
    BY DEF Carrying
  <2>3. /\ new \in Reading /\ new.pc = "pick" /\ new.todo = Carrying(rows)
        /\ new.op = reader[r].op /\ new.seen = reader[r].seen
        /\ new.alone = reader[r].alone /\ new.answer = reader[r].answer
        /\ new.status = reader[r].status /\ new.current = reader[r].current
    BY <1>2, <2>2 DEF Reading
  <2>4. reader'[r] = new
    BY <2>1 DEF IInv, TypeOK
  <2> HIDE DEF new
  <2>5. Loads(r)' /\ Answers(r)'
    BY <2>3, <2>4 DEF Loads, Answers, At
  <2>6. Shape(r)'
    BY <1>9, <2>3, <2>4 DEF Shape, At
  <2>7. Errors(r)'
    BY <1>1, <1>2, <2>3, <2>4 DEF Good, Errors, At, Past
  <2>8. ASSUME reader[r].alone PROVE Refreshed(r)'
    <3>1. ASSUME NEW id \in Id PROVE RowRight(r, id)'
      BY <1>1, <1>4, <2>3, <2>4, <2>8 DEF RowRight, Unparsed, Released
    <3>2. ASSUME NEW id \in Id \ Carrying(rows) PROVE AnswerRight(r, id)'
      <4>1. RowRight(r, id) /\ Released(rows, id) \notin Holding
        BY <1>4, <2>8, <3>2 DEF Carrying
      <4>2. QED  BY <1>3, <1>9, <2>3, <2>4, <4>1 DEF AnswerRight, RowRight, Unparsed, Reported
    <3>3. QED  BY <2>3, <2>4, <3>1, <3>2 DEF Refreshed, At
  <2>9. QED  BY <1>1, <1>2, <2>1, <2>3, <2>5, <2>6, <2>7, <2>8, ReaderMoves
<1>10. CASE reader[r].op = "list"
  <2> DEFINE answer == [id \in Id |-> IF id \in Unparsed THEN 0 ELSE Released(rows, id)]
  <2>1. Answered(r, answer)
    BY <1>10 DEF ReadCache
  <2>2. answer \in [Id -> 0..MaxVersion]
    BY <1>2, <1>5
  <2>3. ASSUME reader[r].alone, NEW id \in Id
        PROVE  \/ \E version \in reader[r].seen[id] : answer[id] = Reported(reader[r].op, version)
               \/ reader[r].seen[id] \cap Unreadable # {}
    BY <1>4, <1>10, <2>3 DEF RowRight, Reported
  <2>4. QED
    <3> HIDE DEF answer
    <3>1. QED  BY <1>1, <1>2, <1>3, <2>1, <2>2, <2>3, AnswerKeeps DEF Asked
<1>11. QED  BY <1>2, <1>3, <1>6, <1>7, <1>8, <1>9, <1>10 DEF Reading

\* find_by_cid reads one of the rows the index named.
LEMMA PickRowKeeps ==
  ASSUME IInv, NEW r \in Reader, NEW id \in Id, PickRow(r, id) PROVE IInv'
<1>1. /\ At(r, "pick") /\ id \in reader[r].todo
      /\ UNCHANGED <<git, newest, good, rows>> /\ Past(r) /\ ~At(r, "done")
  BY DEF PickRow, Past, Active, At, Idle
<1>2. /\ reader[r] \in Reading /\ Good(r) /\ rows \in [Id -> Row \cup {NoRow}]
      /\ MaxVersion \in Nat /\ reader[r].op = "find"
  BY <1>1, Walked DEF IInv, TypeOK, Good, Shape
<1>3. CASE id \in Unparsed
  <2>1. AskGit(r)
    BY <1>3 DEF PickRow
  <2>2. QED  BY <1>1, <2>1, ToGit
<1>4. CASE id \notin Unparsed
  <2> DEFINE found == IF id \in Carrying(rows) THEN Released(rows, id) ELSE 0
             answer == [reader[r].answer EXCEPT ![id] = found]
             new == [reader[r] EXCEPT !.todo = reader[r].todo \ {id}, !.answer = answer]
  <2>1. reader[r].answer \in [Id -> 0..MaxVersion] /\ found \in 0..MaxVersion
    BY <1>2 DEF Reading, Released, Row, Version
  <2>2. reader' = [reader EXCEPT ![r] = [reader[r] EXCEPT
          !.todo = reader[r].todo \ {id}, !.answer[id] = found]]
    BY <1>4 DEF PickRow
  <2>3. [reader[r] EXCEPT !.todo = reader[r].todo \ {id}, !.answer[id] = found] = new
    BY <1>2, <2>1 DEF Reading
  <2>4. reader' = [reader EXCEPT ![r] = new] /\ reader'[r] = new
    BY <2>2, <2>3 DEF IInv, TypeOK
  <2>5. answer \in [Id -> 0..MaxVersion] /\ answer[id] = found
        /\ \A i \in Id \ {id} : answer[i] = reader[r].answer[i]
    BY <2>1
  <2> HIDE DEF answer
  <2>6. /\ new \in Reading /\ new.pc = "pick" /\ new.todo = reader[r].todo \ {id}
        /\ new.op = reader[r].op /\ new.seen = reader[r].seen
        /\ new.alone = reader[r].alone /\ new.answer = answer
        /\ new.status = reader[r].status /\ new.current = reader[r].current
    BY <1>1, <1>2, <2>5 DEF Reading, At
  <2> HIDE DEF new, found
  <2>7. Loads(r)' /\ Answers(r)' /\ Shape(r)'
    BY <1>2, <2>4, <2>6 DEF Loads, Answers, Shape, At
  <2>8. Errors(r)'
    BY <1>1, <1>2, <2>4, <2>6 DEF Good, Errors, At, Past
  <2>9. ASSUME reader[r].alone PROVE Refreshed(r)'
    <3>1. Refreshed(r)
      BY <1>1, <1>2, <2>9 DEF Good, Lone, Past
    <3>2. /\ \A i \in Id : RowRight(r, i)
          /\ \A i \in Id \ reader[r].todo : AnswerRight(r, i)
      BY <1>1, <3>1 DEF Refreshed, At
    <3>3. ASSUME NEW i \in Id PROVE RowRight(r, i)'
      BY <1>1, <2>4, <2>6, <3>2 DEF RowRight, Unparsed, Released
    <3>4. ASSUME NEW i \in Id \ (reader[r].todo \ {id}) PROVE AnswerRight(r, i)'
      <4>1. CASE i = id
        BY <1>2, <2>4, <2>5, <2>6, <3>2, <4>1
        DEF AnswerRight, RowRight, Unparsed, Reported, Carrying, found
      <4>2. CASE i # id
        BY <2>4, <2>5, <2>6, <3>2, <4>2 DEF AnswerRight, Reported
      <4>3. QED  BY <4>1, <4>2
    <3>5. QED  BY <2>4, <2>6, <3>3, <3>4 DEF Refreshed, At
  <2>10. QED  BY <1>1, <1>2, <2>4, <2>6, <2>7, <2>8, <2>9, ReaderMoves
<1>5. QED  BY <1>3, <1>4

\* It has read them all.
LEMMA FindDoneKeeps ==
  ASSUME IInv, NEW r \in Reader, FindDone(r) PROVE IInv'
<1>1. /\ At(r, "pick") /\ reader[r].todo = {} /\ reader' = [reader EXCEPT ![r].pc = "done"]
      /\ UNCHANGED <<git, newest, good, rows>> /\ Past(r) /\ ~At(r, "done")
  BY DEF FindDone, Past, Active, At, Idle
<1>2. reader[r] \in Reading /\ Good(r) /\ reader[r].op = "find"
      /\ rows \in [Id -> Row \cup {NoRow}]
  BY <1>1, Walked DEF IInv, TypeOK, Good, Shape
<1> DEFINE answer == reader[r].answer
<1>3. answer \in [Id -> 0..MaxVersion]
  BY <1>2 DEF Reading
<1>4. [reader[r] EXCEPT !.pc = "done", !.answer = answer] = [reader[r] EXCEPT !.pc = "done"]
  BY <1>2 DEF Reading
<1>5. Answered(r, answer)
  BY <1>1, <1>4 DEF Answered
<1>6. ASSUME reader[r].alone, NEW id \in Id PROVE AnswerRight(r, id)
  <2>1. Refreshed(r)
    BY <1>1, <1>2, <1>6 DEF Good, Lone, Past
  <2>2. QED  BY <1>1, <2>1 DEF Refreshed, At
<1>7. QED  BY <1>1, <1>2, <1>3, <1>5, <1>6, AnswerKeeps DEF AnswerRight, Asked

-----------------------------------------------------------------------------
\* `get` of an object that has no refs.
LEMMA RemoveGoneKeeps ==
  ASSUME IInv, NEW r \in Reader, RemoveGone(r) PROVE IInv'
<1> DEFINE id == reader[r].id
           answer == reader[r].answer
<1>1. /\ At(r, "gone") /\ rows' = [rows EXCEPT ![id] = NoRow] /\ Answered(r, answer)
      /\ UNCHANGED <<git, newest, good>> /\ Past(r) /\ ~At(r, "done")
  BY DEF RemoveGone, Past, Active, At, Idle
<1>2. /\ reader[r] \in Reading /\ Good(r) /\ rows \in [Id -> Row \cup {NoRow}]
      /\ answer \in [Id -> 0..MaxVersion] /\ id \in Id
      /\ reader[r].current[id] \in reader[r].seen[id]
  BY <1>1, Walked DEF IInv, TypeOK, Reading
<1>3. reader[r].op = "get" /\ reader[r].current[id] = 0 /\ answer[id] = 0
  BY <1>1, <1>2 DEF Good, Shape, At
<1>4. /\ rows' \in [Id -> Row \cup {NoRow}]
      /\ \A i \in Id : rows'[i] \in {rows[i], NoRow}
  BY <1>1, <1>2
<1>5. \E version \in reader[r].seen[id] : answer[id] = Reported("get", version)
  BY <1>2, <1>3 DEF Reported
<1>6. QED  BY <1>1, <1>2, <1>3, <1>4, <1>5, AnswerKeeps DEF Asked

\* A fresh row is served.
LEMMA ServeRowKeeps ==
  ASSUME IInv, NEW r \in Reader, ServeRow(r) PROVE IInv'
<1> DEFINE id == reader[r].id
           answer == [reader[r].answer EXCEPT ![id] = rows[id].release]
<1>1. /\ At(r, "row") /\ Fresh(rows[id], reader[r].current[id]) /\ Answered(r, answer)
      /\ UNCHANGED <<git, newest, good, rows>> /\ Past(r) /\ ~At(r, "done")
  BY DEF ServeRow, Past, Active, At, Idle
<1>2. /\ reader[r] \in Reading /\ Good(r) /\ rows \in [Id -> Row \cup {NoRow}]
      /\ reader[r].answer \in [Id -> 0..MaxVersion] /\ id \in Id /\ MaxVersion \in Nat
  BY <1>1, Walked DEF IInv, TypeOK, Reading
<1>3. reader[r].op = "get" /\ reader[r].current[id] # 0
  BY <1>1, <1>2 DEF Good, Shape, At
<1>4. rows[id].release \in reader[r].seen[id] /\ rows[id].release \in 0..MaxVersion
  BY <1>1, <1>2, <1>3, FreshIsRight DEF Fresh, Row, Version
<1>5. answer \in [Id -> 0..MaxVersion] /\ answer[id] = rows[id].release
  BY <1>2, <1>4
<1> HIDE DEF answer
<1>6. \E version \in reader[r].seen[id] : answer[id] = Reported("get", version)
  BY <1>4, <1>5 DEF Reported
<1>7. QED  BY <1>1, <1>2, <1>3, <1>5, <1>6, AnswerKeeps DEF Asked

\* A row that is not fresh: the object is read from git, or cannot be.
LEMMA MaterialiseKeeps ==
  ASSUME IInv, NEW r \in Reader, Materialise(r) PROVE IInv'
<1> DEFINE id == reader[r].id
           new == [reader[r] EXCEPT
             !.loaded = git[id],
             !.pc = IF git[id] \in Unreadable THEN "done" ELSE "write",
             !.status = IF git[id] \in Unreadable THEN "error" ELSE reader[r].status]
<1>1. /\ At(r, "row") /\ reader' = [reader EXCEPT ![r] = new]
      /\ UNCHANGED <<git, newest, good, rows>> /\ Past(r) /\ ~At(r, "done")
  BY DEF Materialise, Past, Active, At, Idle
<1>2. /\ reader[r] \in Reading /\ Good(r) /\ rows \in [Id -> Row \cup {NoRow}]
      /\ id \in Id /\ git[id] \in 0..MaxVersion
      /\ git[id] \in reader[r].seen[id] /\ git[id] <= newest[id]
  BY <1>1, Walked DEF IInv, TypeOK, Reading
<1>3. reader[r].op = "get" /\ reader[r].current[id] # 0 /\ \A i \in Id : reader[r].answer[i] = 0
  BY <1>1, <1>2 DEF Good, Shape, At
<1>4. /\ git[id] = 0 \/ reader[r].current[id] <= git[id]
      /\ \A o \in Reader : Past(o) => Since(o, id, git[id])
  BY <1>1, <1>2, LoadIsRight
<1>5. /\ new \in Reading
      /\ new.pc = IF git[id] \in Unreadable THEN "done" ELSE "write"
      /\ new.status = IF git[id] \in Unreadable THEN "error" ELSE reader[r].status
      /\ new.loaded = git[id] /\ new.op = "get" /\ new.id = id
      /\ new.seen = reader[r].seen /\ new.alone = reader[r].alone
      /\ new.answer = reader[r].answer /\ new.current = reader[r].current
  BY <1>2, <1>3 DEF Reading
<1>6. reader'[r] = new
  BY <1>1 DEF IInv, TypeOK
<1> HIDE DEF new
<1>7. \A o \in Reader : reader'[o].current = reader[o].current
                         /\ reader'[o].seen = reader[o].seen
                         /\ (Past(o)' => Past(o))
  BY <1>1, <1>5, <1>6 DEF IInv, TypeOK, Past, Active, At
<1>8. Loads(r)'
  BY <1>1, <1>2, <1>3, <1>4, <1>5, <1>6, <1>7 DEF Loads, Since, At
<1>9. Shape(r)' /\ Refreshed(r)'
  BY <1>3, <1>5, <1>6 DEF Shape, Refreshed, At
<1>10. Answers(r)' /\ Errors(r)'
  BY <1>1, <1>2, <1>5, <1>6 DEF Good, Answers, Errors, Asked, At, Past
<1>11. QED  BY <1>1, <1>2, <1>5, <1>8, <1>9, <1>10, ReaderMoves

\* What was read is written, and served.
LEMMA WriteAndServeKeeps ==
  ASSUME IInv, NEW r \in Reader, WriteAndServe(r) PROVE IInv'
<1> DEFINE id == reader[r].id
           loaded == reader[r].loaded
           answer == [reader[r].answer EXCEPT ![id] = loaded]
<1>1. /\ At(r, "write") /\ reader[r].op = "get"
      /\ rows' = [rows EXCEPT ![id] = NewRow(r)] /\ Answered(r, answer)
      /\ UNCHANGED <<git, newest, good>> /\ ~At(r, "done")
  BY DEF WriteAndServe, At
<1>2. /\ Past(r) /\ id \in Id /\ NewRow(r) \in Row \cup {NoRow}
      /\ \/ NewRow(r) = NoRow
         \/ /\ NewRow(r).token <= NewRow(r).release
            /\ NewRow(r).release <= newest[id]
            /\ \A o \in Reader : Past(o) => Since(o, id, NewRow(r).release)
      /\ loaded \in reader[r].seen[id]
  BY <1>1, NewRowIsRight
<1>3. /\ reader[r] \in Reading /\ rows \in [Id -> Row \cup {NoRow}]
      /\ reader[r].answer \in [Id -> 0..MaxVersion] /\ loaded \in 0..MaxVersion
  BY <1>2, Walked DEF IInv, TypeOK, Reading
<1>4. /\ rows' \in [Id -> Row \cup {NoRow}] /\ rows'[id] = NewRow(r)
      /\ \A i \in Id \ {id} : rows'[i] = rows[i]
  BY <1>1, <1>2, <1>3
<1>5. answer \in [Id -> 0..MaxVersion] /\ answer[id] = loaded
  BY <1>2, <1>3
<1> HIDE DEF answer
<1>6. \A i \in Id :
        \/ rows'[i] \in {rows[i], NoRow}
        \/ /\ rows'[i].token <= rows'[i].release /\ rows'[i].release <= newest[i]
           /\ \A o \in Reader : Past(o) => Since(o, i, rows'[i].release)
  BY <1>2, <1>4
<1>7. \E version \in reader[r].seen[id] : answer[id] = Reported("get", version)
  BY <1>2, <1>5 DEF Reported
<1>8. QED  BY <1>1, <1>2, <1>4, <1>5, <1>6, <1>7, AnswerKeeps DEF Asked

-----------------------------------------------------------------------------
\* A reader turned away by the database.
LEMMA CacheFailsKeeps ==
  ASSUME IInv, NEW r \in Reader, CacheFails(r) PROVE IInv'
<1>1. /\ Past(r) /\ ~At(r, "done") /\ AskGit(r)
      /\ UNCHANGED <<git, newest, good, rows>>
  BY DEF CacheFails, Past, Active, At, Idle
<1>2. QED  BY <1>1, ToGit

\* The answer comes from git itself, or an error because of an object there.
LEMMA ReadGitKeeps ==
  ASSUME IInv, NEW r \in Reader, ReadGit(r) PROVE IInv'
<1> DEFINE op == reader[r].op
           asked == IF op = "get" THEN {reader[r].id} ELSE Id
           found == {id \in asked : /\ git[id] \notin Unreadable
                                    /\ op \in {"find", "locate"} => git[id] \in Holding}
           fails == op \notin {"all", "list"} /\ \E id \in asked : git[id] \in Unreadable
           answer == [id \in Id |-> IF id \in found /\ ~ fails THEN git[id] ELSE 0]
           new == [reader[r] EXCEPT
             !.pc = "done", !.status = IF fails THEN "error" ELSE "git", !.answer = answer]
<1>1. /\ At(r, "git") /\ reader' = [reader EXCEPT ![r] = new]
      /\ UNCHANGED <<git, newest, good, rows>> /\ Past(r)
  BY DEF ReadGit, Past, Active, At, Idle
<1>2. /\ reader[r] \in Reading /\ rows \in [Id -> Row \cup {NoRow}]
      /\ MaxVersion \in Nat
      /\ \A id \in Id : git[id] \in reader[r].seen[id] /\ git[id] \in 0..MaxVersion
  BY <1>1, Walked DEF IInv, TypeOK
<1>3. answer \in [Id -> 0..MaxVersion] /\ fails \in BOOLEAN /\ asked \subseteq Id
  BY <1>2 DEF Reading
<1>4. ASSUME ~fails, NEW id \in asked
      PROVE  \/ answer[id] = Reported(op, git[id]) \/ git[id] \in Unreadable
  BY <1>3, <1>4 DEF Reported
<1> HIDE DEF answer, fails
<1>5. /\ new \in Reading /\ new.pc = "done" /\ new.op = op /\ new.id = reader[r].id
      /\ new.status = (IF fails THEN "error" ELSE "git") /\ new.answer = answer
      /\ new.seen = reader[r].seen /\ new.alone = reader[r].alone
      /\ new.current = reader[r].current
  BY <1>2, <1>3 DEF Reading
<1>6. reader'[r] = new
  BY <1>1 DEF IInv, TypeOK
<1> HIDE DEF new
<1>7. Loads(r)' /\ Shape(r)' /\ Refreshed(r)'
  BY <1>5, <1>6 DEF Loads, Shape, Refreshed, At
<1>8. Asked(r)' = asked
  BY <1>5, <1>6 DEF Asked
<1>9. Answers(r)'
  <2>1. CASE fails
    BY <1>5, <1>6, <2>1 DEF Answers
  <2>2. CASE ~fails
    <3>1. ASSUME NEW id \in asked PROVE AnswerRight(r, id)'
      BY <1>2, <1>3, <1>4, <1>5, <1>6, <2>2 DEF AnswerRight
    <3>2. QED  BY <1>8, <3>1 DEF Answers
  <2>3. QED  BY <2>1, <2>2
<1>10. Errors(r)'
  <2>1. CASE fails
    <3>1. PICK id \in asked : git[id] \in Unreadable
      BY <2>1 DEF fails
    <3>2. id \in Id /\ reader'[r].seen[id] \cap Unreadable # {}
      BY <1>2, <1>3, <1>5, <1>6, <3>1
    <3>3. QED  BY <1>5, <1>6, <1>8, <3>1, <3>2 DEF Errors, At
  <2>2. CASE ~fails
    BY <1>5, <1>6, <2>2 DEF Errors
  <2>3. QED  BY <2>1, <2>2
<1>11. rows' \in [Id -> Row \cup {NoRow}]
  BY <1>1, <1>2
<1>12. QED  BY <1>1, <1>5, <1>7, <1>9, <1>10, <1>11, ReaderMoves

-----------------------------------------------------------------------------
\* Every step keeps the invariant.
LEMMA StepKeeps ==
  ASSUME IInv, ~Recurs, [Next]_vars PROVE IInv'
<1>1. ASSUME NEW id \in Id, GitChanges(id) PROVE IInv'
  BY <1>1, GitChangesKeeps
<1>2. ASSUME NEW r \in Reader, Begin(r) PROVE IInv'
  BY <1>2, BeginKeeps
<1>3. ASSUME NEW r \in Reader, CacheFails(r) PROVE IInv'
  BY <1>3, CacheFailsKeeps
<1>4. ASSUME NEW r \in Reader, Step(r) PROVE IInv'
  <2>1. CASE \/ ReadTips(r) \/ ReadHeads(r) \/ WriteStale(r) \/ ReadCache(r)
             \/ FindDone(r) \/ RemoveGone(r) \/ ServeRow(r) \/ Materialise(r)
             \/ WriteAndServe(r) \/ ReadGit(r) \/ Return(r)
    BY <2>1, ReadTipsKeeps, ReadHeadsKeeps, WriteStaleKeeps, ReadCacheKeeps, FindDoneKeeps,
       RemoveGoneKeeps, ServeRowKeeps, MaterialiseKeeps, WriteAndServeKeeps, ReadGitKeeps,
       ReturnKeeps
  <2>2. CASE \E id \in Id : MaterialiseStale(r, id) \/ Prune(r, id) \/ PickRow(r, id)
    BY <2>2, MaterialiseStaleKeeps, PruneKeeps, PickRowKeeps
  <2>3. QED  BY <1>4, <2>1, <2>2 DEF Step
<1>5. CASE UNCHANGED vars
  BY <1>5 DEF vars, IInv, TypeOK, GitOK, RowsOK, Good, Tracks, Since, Loads, Shape, Lone,
     Refreshed, Pending, RowRight, Unparsed, Released, Answers, AnswerRight, Reported, Errors, Asked,
     Active, Past, At
<1>6. QED  BY <1>1, <1>2, <1>3, <1>4, <1>5 DEF Next

\* Whatever the readers do and however git moves, as long as no tips recur.
THEOREM CacheInvariant ==
  ASSUME ~Recurs PROVE Spec => []IInv
<1>1. Init => IInv
  BY InitIInv
<1>2. IInv /\ [Next]_vars => IInv'
  BY StepKeeps
<1>3. QED  BY <1>1, <1>2, PTL DEF Spec

\* The state of the readers and of the cache is always well formed.
THEOREM CacheTypeCorrect ==
  ASSUME ~Recurs PROVE Spec => []TypeOK
<1>1. IInv => TypeOK
  BY DEF IInv
<1>2. QED  BY <1>1, CacheInvariant, PTL

\* The cache never holds a release older than its token: a token that still matches
\* cannot vouch for a past that the tips have left behind.
THEOREM RowsKeepUpWithTokens ==
  ASSUME ~Recurs PROVE Spec => []RowsAreNotOlderThanTheirToken
<1>1. IInv => RowsAreNotOlderThanTheirToken
  BY DEF IInv, RowsOK, RowsAreNotOlderThanTheirToken
<1>2. QED  BY <1>1, CacheInvariant, PTL

\* `get` through the cache answers what git had at some moment of the call, however
\* many processes read, write and prune the same rows meanwhile.
THEOREM GetThroughCacheIsCurrent ==
  ASSUME ~Recurs PROVE Spec => []GetIsCurrent
<1>1. IInv => GetIsCurrent
  BY DEF IInv, Good, Answers, AnswerRight, GetIsCurrent, Current
<1>2. QED  BY <1>1, CacheInvariant, PTL

\* list, find_by_cid and locations_for do too when no other reader works beside them.
THEOREM LoneReadsThroughCacheAreCurrent ==
  ASSUME ~Recurs PROVE Spec => []LoneReadsAreCurrent
<1>1. IInv => LoneReadsAreCurrent
  BY DEF IInv, Good, Answers, AnswerRight, LoneReadsAreCurrent, Current
<1>2. QED  BY <1>1, CacheInvariant, PTL

-----------------------------------------------------------------------------
\* For the refinement: no read ever runs beside another.
Single == \A r \in Reader : Active(r) => reader[r].alone

\* What the steps of a read, up to its return, leave alone.
LEMMA StepFrame ==
  ASSUME IInv, NEW r \in Reader, ~At(r, "done"), Step(r) \/ CacheFails(r)
  PROVE  /\ Active(r) /\ git' = git
         /\ reader'[r].op = reader[r].op /\ reader'[r].seen = reader[r].seen
         /\ reader'[r].alone = reader[r].alone
         /\ reader[r].op = "get" => reader'[r].id = reader[r].id
         /\ reader'[r].pc # "idle"
<1> DEFINE Kept ==
             /\ git' = git
             /\ reader'[r].op = reader[r].op /\ reader'[r].seen = reader[r].seen
             /\ reader'[r].alone = reader[r].alone
             /\ reader[r].op = "get" => reader'[r].id = reader[r].id
             /\ reader'[r].pc # "idle"
<1>1. Active(r)
  <2> SUFFICES ASSUME reader[r].pc = "idle" PROVE FALSE
    BY DEF Active, Idle
  <2>1. ~CacheFails(r) /\ ~ReadTips(r) /\ ~ReadHeads(r) /\ ~WriteStale(r) /\ ~ReadCache(r)
    BY DEF CacheFails, ReadTips, ReadHeads, WriteStale, ReadCache, At
  <2>2. ~FindDone(r) /\ ~RemoveGone(r) /\ ~ServeRow(r) /\ ~Materialise(r) /\ ~WriteAndServe(r)
    BY DEF FindDone, RemoveGone, ServeRow, Materialise, WriteAndServe, At
  <2>3. ~ReadGit(r) /\ ~Return(r)
    BY DEF ReadGit, Return, At
  <2>4. \A id \in Id : ~MaterialiseStale(r, id) /\ ~Prune(r, id) /\ ~PickRow(r, id)
    BY DEF MaterialiseStale, Prune, PickRow, At
  <2>5. QED  BY <2>1, <2>2, <2>3, <2>4 DEF Step
<1>2. reader[r] \in Reading /\ reader \in [Reader -> Reading \cup {Idle}] /\ Good(r)
  BY <1>1, Typed DEF IInv, TypeOK
<1> SUFFICES Kept
  BY <1>1
<1>3. ASSUME NEW pc, pc # "idle", reader' = [reader EXCEPT ![r].pc = pc], git' = git
      PROVE  Kept
  BY <1>2, <1>3 DEF Reading
<1>4. ASSUME NEW answer, Answered(r, answer), git' = git PROVE Kept
  BY <1>2, <1>4 DEF Answered, Reading
<1>3a. ASSUME AskGit(r), git' = git PROVE Kept
  BY <1>2, <1>3a DEF AskGit, Reading
<1>5. CASE CacheFails(r) \/ WriteStale(r) \/ FindDone(r)
  BY <1>3, <1>3a, <1>5 DEF CacheFails, WriteStale, FindDone
<1>6. CASE RemoveGone(r) \/ ServeRow(r) \/ WriteAndServe(r)
  BY <1>4, <1>6 DEF RemoveGone, ServeRow, WriteAndServe
<1>7. CASE ReadTips(r)
  BY <1>2, <1>7 DEF ReadTips, Reading
<1>8. CASE ReadHeads(r)
  BY <1>2, <1>8 DEF ReadHeads, Reading
<1>9. CASE ReadCache(r)
  <2>1. git' = git /\ reader[r].op \in {"all", "list", "get", "find", "locate"}
    BY <1>2, <1>9 DEF ReadCache, Reading
  <2>2. CASE reader[r].op = "all" /\ Unparsed # {}
    <3>1. AskGit(r)
      BY <1>9, <2>2 DEF ReadCache
    <3>2. QED  BY <1>3a, <2>1, <3>1
  <2>3. CASE reader[r].op = "all" /\ Unparsed = {}
    BY <1>4, <1>9, <2>1, <2>3 DEF ReadCache
  <2>4. CASE reader[r].op \in {"list", "locate"}
    BY <1>4, <1>9, <2>1, <2>4 DEF ReadCache
  <2>5. CASE reader[r].op \in {"find", "get"}
    <3>1. reader' = [reader EXCEPT ![r] =
            [reader[r] EXCEPT !.pc = "pick", !.todo = Carrying(rows)]]
      BY <1>9, <2>5 DEF ReadCache
    <3>2. QED  BY <1>2, <2>1, <3>1 DEF Reading
  <2>6. QED  BY <2>1, <2>2, <2>3, <2>4, <2>5
<1>10. CASE Materialise(r)
  <2> DEFINE pc == IF git[reader[r].id] \in Unreadable THEN "done" ELSE "write"
             status == IF git[reader[r].id] \in Unreadable THEN "error" ELSE reader[r].status
             new == [reader[r] EXCEPT
               !.loaded = git[reader[r].id], !.pc = pc, !.status = status]
  <2>1. reader' = [reader EXCEPT ![r] = new] /\ git' = git
    BY <1>10 DEF Materialise
  <2>2. pc # "idle"
    OBVIOUS
  <2> HIDE DEF pc, status
  <2>3. QED  BY <1>2, <2>1, <2>2 DEF Reading
<1>11. CASE ReadGit(r)
  <2>1. PICK status, answer : reader' = [reader EXCEPT ![r] =
          [reader[r] EXCEPT !.pc = "done", !.status = status, !.answer = answer]]
    BY <1>11 DEF ReadGit
  <2>2. git' = git
    BY <1>11 DEF ReadGit
  <2>3. QED  BY <1>2, <2>1, <2>2 DEF Reading
<1>12. ASSUME NEW id \in Id, MaterialiseStale(r, id) PROVE Kept
  <2>1. reader[r].op # "get"
    BY <1>2, <1>12 DEF MaterialiseStale, Good, Shape, At
  <2>2. QED  BY <1>2, <1>12, <2>1 DEF MaterialiseStale, Reading
<1>13. ASSUME NEW id \in Id, Prune(r, id) PROVE Kept
  BY <1>2, <1>13 DEF Prune, Reading, At
<1>14. ASSUME NEW id \in Id, PickRow(r, id) PROVE Kept
  <2>1. git' = git /\ reader[r].pc = "pick"
    BY <1>14 DEF PickRow, At
  <2>2. CASE id \in Unparsed
    <3>1. AskGit(r)
      BY <1>14, <2>2 DEF PickRow
    <3>2. QED  BY <1>3a, <2>1, <3>1
  <2>3. CASE id \notin Unparsed
    <3>1. PICK todo, found : reader' = [reader EXCEPT ![r] =
            [reader[r] EXCEPT !.todo = todo, !.answer[id] = found]]
      BY <1>14, <2>3 DEF PickRow
    <3>2. QED  BY <1>2, <2>1, <3>1 DEF Reading
  <2>4. QED  BY <2>2, <2>3
<1>15. ~Return(r)
  BY DEF Return
<1>16. QED
  BY <1>1, <1>5, <1>6, <1>7, <1>8, <1>9, <1>10, <1>11, <1>12, <1>13, <1>14, <1>15 DEF Step

-----------------------------------------------------------------------------
\* What a reader has loaded or answers was once in git, and materialised; what find
\* and locate answer carries the CID.
Honest(r) ==
  Active(r) =>
    /\ At(r, "write") => reader[r].loaded \in good[reader[r].id] \cup {0}
    /\ \A id \in Id :
         /\ reader[r].answer[id] \in good[id] \cup {0}
         /\ reader[r].op \in {"find", "locate"} => reader[r].answer[id] \in Holding \cup {0}

\* The second invariant, kept whether or not anybody reads alone: neither the rows
\* nor the answers hold a release that git never had.
OnceGood ==
  /\ \A id \in Id : git[id] \in good[id] \cup {0} \cup Unreadable
  /\ \A id \in Id : Released(rows, id) \in good[id] \cup {0}
  /\ \A r \in Reader : Honest(r)

LEMMA InitOnceGood == Init => OnceGood
<1> SUFFICES ASSUME Init PROVE OnceGood
  OBVIOUS
<1>1. /\ git \in [Id -> {0, 1}] /\ \A r \in Reader : ~Active(r)
      /\ rows \in [Id -> {NoRow} \cup [token : {1}, release : {1} \ Unreadable, old : {TRUE}]]
      /\ good = [id \in Id |-> {v \in {1} \ Unreadable : git[id] = 1 \/ rows[id] # NoRow}]
  BY DEF Init, Active
<1>2. \A id \in Id : rows[id] = NoRow \/ rows[id].release \in {1} \ Unreadable
  BY <1>1
<1>3. QED  BY <1>1, <1>2 DEF OnceGood, Honest, Released

\* One reader moves on, and writes at most rows of releases that git had.
LEMMA HonestMove ==
  ASSUME OnceGood, NEW r \in Reader, UNCHANGED <<git, good>>,
         \A o \in Reader \ {r} : reader'[o] = reader[o],
         \A id \in Id : rows'[id] \in {rows[id], NoRow} \/ Released(rows', id) \in good[id] \cup {0},
         Honest(r)'
  PROVE  OnceGood'
<1>1. \A id \in Id : Released(rows', id) \in good'[id] \cup {0}
  BY DEF OnceGood, Released
<1>2. ASSUME NEW o \in Reader \ {r} PROVE Honest(o)'
  <2>1. Honest(o) /\ reader'[o] = reader[o] /\ good' = good
    BY DEF OnceGood
  <2>2. QED  BY <2>1 DEF Honest, Active, At
<1>3. QED  BY <1>1, <1>2 DEF OnceGood

\* A reader that has read nothing new, and does not write, stays honest.
LEMMA HonestStays ==
  ASSUME OnceGood, NEW r \in Reader, Active(r), good' = good,
         reader'[r].answer = reader[r].answer, reader'[r].op = reader[r].op,
         ~At(r, "write")'
  PROVE  Honest(r)'
BY DEF OnceGood, Honest, At

\* A reader that answers with what git had is honest.
LEMMA HonestAnswer ==
  ASSUME IInv, NEW r \in Reader, Active(r), NEW answer, Answered(r, answer), good' = good,
         \A id \in Id :
           /\ answer[id] \in good[id] \cup {0}
           /\ reader[r].op \in {"find", "locate"} => answer[id] \in Holding \cup {0}
  PROVE  Honest(r)'
<1>1. reader[r] \in Reading
  BY Typed DEF IInv
<1>2. reader'[r].pc = "done" /\ reader'[r].answer = answer /\ reader'[r].op = reader[r].op
  BY <1>1 DEF IInv, TypeOK, Answered, Reading
<1>3. QED  BY <1>2 DEF Honest, At

\* What a reader does is no news to git.
LEMMA StepKeepsGood ==
  ASSUME NEW r \in Reader, Step(r) \/ CacheFails(r) PROVE good' = good
BY DEF Step, ReadTips, ReadHeads, WriteStale, ReadCache, MaterialiseStale, Prune, PickRow,
   FindDone, RemoveGone, ServeRow, Materialise, WriteAndServe, ReadGit, Return, CacheFails

\* How the read of the rows ends.
LEMMA ReadCacheMoves ==
  ASSUME NEW r \in Reader, ReadCache(r)
  PROVE  \/ AskGit(r) \/ \E answer : Answered(r, answer)
         \/ reader' = [reader EXCEPT ![r] =
              [reader[r] EXCEPT !.pc = "pick", !.todo = Carrying(rows)]]
<1>1. CASE reader[r].op = "all"
  <2>1. AskGit(r) \/ Answered(r, [id \in Id |-> Released(rows, id)])
    BY <1>1 DEF ReadCache
  <2>2. QED  BY <2>1
<1>2. CASE reader[r].op = "list"
  <2>1. Answered(r, [id \in Id |-> IF id \in Unparsed THEN 0 ELSE Released(rows, id)])
    BY <1>2 DEF ReadCache
  <2>2. QED  BY <2>1
<1>3. CASE reader[r].op = "locate"
  <2>1. Answered(r, [id \in Id |-> IF id \in Carrying(rows) THEN Released(rows, id) ELSE 0])
    BY <1>3 DEF ReadCache
  <2>2. QED  BY <2>1
<1>4. CASE reader[r].op \notin {"all", "list", "locate"}
  BY <1>4 DEF ReadCache
<1>5. QED  BY <1>1, <1>2, <1>3, <1>4

\* What git hands to one reader is what it has, or had.
LEMMA StepOnceGood ==
  ASSUME IInv, OnceGood, NEW r \in Reader, ~At(r, "done"), Step(r) \/ CacheFails(r)
  PROVE  OnceGood'
<1>1. /\ Active(r) /\ git' = git /\ reader'[r].op = reader[r].op
      /\ reader[r] \in Reading /\ reader \in [Reader -> Reading \cup {Idle}] /\ Good(r)
      /\ \A id \in Id : git[id] \in good[id] \cup {0} \cup Unreadable
      /\ rows \in [Id -> Row \cup {NoRow}] /\ Honest(r)
  BY StepFrame, Typed DEF IInv, TypeOK, OnceGood
<1>2. good' = good /\ \A o \in Reader \ {r} : reader'[o] = reader[o]
  <2>1. good' = good
    BY StepKeepsGood
  <2>2. ASSUME NEW new, reader' = [reader EXCEPT ![r] = new]
        PROVE  \A o \in Reader \ {r} : reader'[o] = reader[o]
    BY <1>1, <2>2
  <2>3. ASSUME NEW answer, Answered(r, answer)
        PROVE  \A o \in Reader \ {r} : reader'[o] = reader[o]
    BY <2>2, <2>3 DEF Answered
  <2>4. ASSUME AskGit(r) PROVE \A o \in Reader \ {r} : reader'[o] = reader[o]
    BY <2>2, <2>4 DEF AskGit
  <2>5. CASE WriteStale(r) \/ FindDone(r) \/ Return(r)
    BY <1>1, <2>5 DEF WriteStale, FindDone, Return
  <2>6. CASE ReadTips(r) \/ ReadHeads(r) \/ Materialise(r) \/ ReadGit(r)
    BY <1>1, <2>6 DEF ReadTips, ReadHeads, Materialise, ReadGit
  <2>7. CASE RemoveGone(r) \/ ServeRow(r) \/ WriteAndServe(r) \/ CacheFails(r)
    BY <2>3, <2>4, <2>7 DEF RemoveGone, ServeRow, WriteAndServe, CacheFails
  <2>8. CASE ReadCache(r)
    <3>1. \/ AskGit(r) \/ \E answer : Answered(r, answer)
          \/ reader' = [reader EXCEPT ![r] =
               [reader[r] EXCEPT !.pc = "pick", !.todo = Carrying(rows)]]
      BY <2>8, ReadCacheMoves
    <3>2. \A o \in Reader \ {r} : reader'[o] = reader[o]
      BY <2>2, <2>3, <2>4, <3>1
    <3>3. QED  BY <2>1, <3>2
  <2>9. ASSUME NEW id \in Id, MaterialiseStale(r, id) \/ Prune(r, id)
        PROVE  \A o \in Reader \ {r} : reader'[o] = reader[o]
    BY <1>1, <2>9 DEF MaterialiseStale, Prune
  <2>10. ASSUME NEW id \in Id, PickRow(r, id)
         PROVE  \A o \in Reader \ {r} : reader'[o] = reader[o]
    BY <1>1, <2>4, <2>10 DEF PickRow
  <2>11. QED  BY <2>1, <2>5, <2>6, <2>7, <2>8, <2>9, <2>10 DEF Step
<1>3. ASSUME reader'[r].answer = reader[r].answer, ~At(r, "write")',
             \A id \in Id : rows'[id] \in {rows[id], NoRow} \/ Released(rows', id) \in good[id] \cup {0}
      PROVE  OnceGood'
  BY <1>1, <1>2, <1>3, HonestStays, HonestMove
<1>4. ASSUME NEW answer, Answered(r, answer),
             \A id \in Id : rows'[id] \in {rows[id], NoRow} \/ Released(rows', id) \in good[id] \cup {0},
             \A id \in Id :
               /\ answer[id] \in good[id] \cup {0}
               /\ reader[r].op \in {"find", "locate"} => answer[id] \in Holding \cup {0}
      PROVE  OnceGood'
  BY <1>1, <1>2, <1>4, HonestAnswer, HonestMove
<1>5. ASSUME AskGit(r), rows' = rows PROVE OnceGood'
  <2>1. reader'[r].answer = reader[r].answer /\ ~At(r, "write")'
    BY <1>1, <1>5 DEF AskGit, Reading, At
  <2>2. QED  BY <1>3, <1>5, <2>1
<1>6. At(r, "write") =>
        \A id \in Id : (rows' = [rows EXCEPT ![reader[r].id] = NewRow(r)]) =>
          rows'[id] \in {rows[id], NoRow} \/ Released(rows', id) \in good[id] \cup {0}
  BY <1>1 DEF Honest, NewRow, Released
<1>7. CASE CacheFails(r)
  BY <1>5, <1>7 DEF CacheFails
<1>8. CASE ReadTips(r) \/ ReadHeads(r) \/ FindDone(r)
  <2>1. CASE ReadTips(r)
    <3>1. reader'[r].answer = reader[r].answer /\ ~At(r, "write")' /\ rows' = rows
      BY <1>1, <2>1 DEF ReadTips, Reading, At
    <3>2. QED  BY <1>3, <3>1
  <2>2. CASE ReadHeads(r)
    <3>1. reader'[r].answer = reader[r].answer /\ ~At(r, "write")' /\ rows' = rows
      BY <1>1, <2>2 DEF ReadHeads, Reading, At
    <3>2. QED  BY <1>3, <3>1
  <2>3. CASE FindDone(r)
    <3>1. reader'[r].answer = reader[r].answer /\ ~At(r, "write")' /\ rows' = rows
      BY <1>1, <2>3 DEF FindDone, Reading, At
    <3>2. QED  BY <1>3, <3>1
  <2>4. QED  BY <1>8, <2>1, <2>2, <2>3
<1>9. CASE WriteStale(r)
  <2>1. /\ reader'[r].answer = reader[r].answer /\ ~At(r, "write")' /\ At(r, "write")
        /\ rows' = [rows EXCEPT ![reader[r].id] = NewRow(r)]
    BY <1>1, <1>9 DEF WriteStale, Reading, At
  <2>2. QED  BY <1>3, <1>6, <2>1
<1>10. CASE RemoveGone(r)
  <2>1. Answered(r, reader[r].answer) /\ rows' = [rows EXCEPT ![reader[r].id] = NoRow]
    BY <1>10 DEF RemoveGone
  <2>2. \A id \in Id : rows'[id] \in {rows[id], NoRow}
    BY <1>1, <2>1
  <2>3. QED  BY <1>1, <1>4, <2>1, <2>2 DEF Honest
<1>11. CASE ServeRow(r)
  <2> DEFINE id == reader[r].id
             answer == [reader[r].answer EXCEPT ![id] = rows[id].release]
  <2>1. Answered(r, answer) /\ rows' = rows /\ At(r, "row") /\ rows[id] # NoRow
    BY <1>11 DEF ServeRow, Fresh
  <2>2. reader[r].op = "get" /\ Released(rows, id) = rows[id].release /\ id \in Id
        /\ Released(rows, id) \in good[id] \cup {0}
    BY <1>1, <2>1 DEF Good, Shape, Released, Reading, OnceGood
  <2>3. \A i \in Id : answer[i] = IF i = id THEN rows[id].release ELSE reader[r].answer[i]
    BY <1>1 DEF Reading
  <2>4. \A i \in Id : answer[i] \in good[i] \cup {0}
    BY <1>1, <2>2, <2>3 DEF Honest
  <2>5. /\ \A i \in Id : rows'[i] \in {rows[i], NoRow}
        /\ reader[r].op \notin {"find", "locate"}
    BY <2>1, <2>2
  <2> HIDE DEF answer, id
  <2>6. QED  BY <1>4, <2>1, <2>4, <2>5
<1>12. CASE WriteAndServe(r)
  <2> DEFINE id == reader[r].id
             answer == [reader[r].answer EXCEPT ![id] = reader[r].loaded]
  <2>1. /\ Answered(r, answer) /\ At(r, "write") /\ reader[r].op = "get" /\ id \in Id
        /\ rows' = [rows EXCEPT ![id] = NewRow(r)]
    BY <1>1, <1>12 DEF WriteAndServe, Reading
  <2>2. \A i \in Id : answer[i] = IF i = id THEN reader[r].loaded ELSE reader[r].answer[i]
    BY <1>1 DEF Reading
  <2>3. reader[r].loaded \in good[id] \cup {0} /\ \A i \in Id : reader[r].answer[i] \in good[i] \cup {0}
    BY <1>1, <2>1 DEF Honest
  <2>4. \A i \in Id : answer[i] \in good[i] \cup {0}
    BY <2>2, <2>3
  <2>5. /\ \A i \in Id : rows'[i] \in {rows[i], NoRow} \/ Released(rows', i) \in good[i] \cup {0}
        /\ reader[r].op \notin {"find", "locate"}
    BY <1>6, <2>1
  <2> HIDE DEF answer, id
  <2>6. QED  BY <1>4, <2>1, <2>4, <2>5
<1>13. CASE Materialise(r)
  <2> DEFINE id == reader[r].id
             pc == IF git[id] \in Unreadable THEN "done" ELSE "write"
             status == IF git[id] \in Unreadable THEN "error" ELSE reader[r].status
  <2>1. reader' = [reader EXCEPT ![r] =
          [reader[r] EXCEPT !.loaded = git[id], !.pc = pc, !.status = status]] /\ rows' = rows
    BY <1>13 DEF Materialise
  <2> HIDE DEF status
  <2>2. /\ reader'[r].answer = reader[r].answer /\ reader'[r].pc = pc /\ id \in Id
        /\ reader'[r].loaded = git[id] /\ reader'[r].id = id
    BY <1>1, <2>1 DEF Reading
  <2>3. pc = "write" => git[id] \in good[id] \cup {0}
    BY <1>1, <2>2
  <2> HIDE DEF pc, id
  <2>4. Honest(r)'
    BY <1>1, <1>2, <2>2, <2>3 DEF Honest, At
  <2>5. QED  BY <1>1, <1>2, <2>1, <2>4, HonestMove
<1>14. CASE ReadGit(r)
  <2> DEFINE op == reader[r].op
             asked == IF op = "get" THEN {reader[r].id} ELSE Id
             found == {id \in asked : /\ git[id] \notin Unreadable
                                      /\ op \in {"find", "locate"} => git[id] \in Holding}
             fails == op \notin {"all", "list"} /\ \E id \in asked : git[id] \in Unreadable
             answer == [id \in Id |-> IF id \in found /\ ~ fails THEN git[id] ELSE 0]
             status == IF fails THEN "error" ELSE "git"
  <2>1. rows' = rows /\ reader' = [reader EXCEPT ![r] =
          [reader[r] EXCEPT !.pc = "done", !.status = status, !.answer = answer]]
    BY <1>14 DEF ReadGit
  <2>2. \A id \in Id : /\ answer[id] \in good[id] \cup {0}
                       /\ op \in {"find", "locate"} => answer[id] \in Holding \cup {0}
    BY <1>1
  <2> HIDE DEF answer, status
  <2>3. reader'[r].answer = answer /\ reader'[r].pc = "done"
    BY <1>1, <2>1 DEF Reading
  <2>4. Honest(r)'
    BY <1>1, <1>2, <2>2, <2>3 DEF Honest, At
  <2>5. QED  BY <1>1, <1>2, <2>1, <2>4, HonestMove
<1>15. CASE ReadCache(r)
  <2>1. rows' = rows /\ \A id \in Id : Released(rows, id) \in good[id] \cup {0}
    BY <1>15 DEF ReadCache, OnceGood
  <2>2. CASE reader[r].op = "all"
    <3>1. AskGit(r) \/ Answered(r, [id \in Id |-> Released(rows, id)])
      BY <1>15, <2>2 DEF ReadCache
    <3>2. QED  BY <1>4, <1>5, <2>1, <2>2, <3>1
  <2>3. CASE reader[r].op = "list"
    <3>1. Answered(r, [id \in Id |-> IF id \in Unparsed THEN 0 ELSE Released(rows, id)])
      BY <1>15, <2>3 DEF ReadCache
    <3>2. QED  BY <1>4, <2>1, <2>3, <3>1
  <2>4. CASE reader[r].op = "locate"
    <3> DEFINE answer == [id \in Id |-> IF id \in Carrying(rows) THEN Released(rows, id) ELSE 0]
    <3>1. Answered(r, answer)
      BY <1>15, <2>4 DEF ReadCache
    <3>2. \A id \in Id : answer[id] \in good[id] \cup {0} /\ answer[id] \in Holding \cup {0}
      BY <2>1 DEF Carrying
    <3> HIDE DEF answer
    <3>3. QED  BY <1>4, <2>1, <3>1, <3>2
  <2>5. CASE reader[r].op \in {"find", "get"}
    <3>1. reader' = [reader EXCEPT ![r] =
            [reader[r] EXCEPT !.pc = "pick", !.todo = Carrying(rows)]]
      BY <1>15, <2>5 DEF ReadCache
    <3>2. reader'[r].answer = reader[r].answer /\ ~At(r, "write")'
      BY <1>1, <3>1 DEF Reading, At
    <3>3. QED  BY <1>3, <2>1, <3>2
  <2>6. QED  BY <1>1, <2>2, <2>3, <2>4, <2>5 DEF Reading
<1>16. ASSUME NEW id \in Id, MaterialiseStale(r, id) PROVE OnceGood'
  <2> DEFINE pc == IF git[id] \in Unreadable THEN "refresh" ELSE "write"
  <2>1. rows' = rows /\ reader' = [reader EXCEPT ![r] = [reader[r] EXCEPT
          !.todo = reader[r].todo \ {id}, !.id = id, !.loaded = git[id], !.pc = pc]]
    BY <1>16 DEF MaterialiseStale
  <2>2. /\ reader'[r].answer = reader[r].answer /\ reader'[r].pc = pc
        /\ reader'[r].loaded = git[id] /\ reader'[r].id = id
    BY <1>1, <2>1 DEF Reading
  <2>3. pc = "write" => git[id] \in good[id] \cup {0}
    BY <1>1
  <2> HIDE DEF pc
  <2>4. Honest(r)'
    BY <1>1, <1>2, <2>2, <2>3 DEF Honest, At
  <2>5. QED  BY <1>1, <1>2, <2>1, <2>4, HonestMove
<1>17. ASSUME NEW id \in Id, Prune(r, id) PROVE OnceGood'
  <2>1. /\ reader'[r].answer = reader[r].answer /\ ~At(r, "write")'
        /\ rows' = [rows EXCEPT ![id] = NoRow]
    BY <1>1, <1>17 DEF Prune, Reading, At
  <2>2. \A i \in Id : rows'[i] \in {rows[i], NoRow}
    BY <1>1, <2>1
  <2>3. QED  BY <1>3, <2>1, <2>2
<1>18. ASSUME NEW id \in Id, PickRow(r, id) PROVE OnceGood'
  <2>1. rows' = rows /\ At(r, "pick") /\ reader[r].op = "find"
    BY <1>1, <1>18 DEF PickRow, Good, Shape
  <2>2. CASE id \in Unparsed
    BY <1>5, <1>18, <2>1, <2>2 DEF PickRow
  <2>3. CASE id \notin Unparsed
    <3> DEFINE found == IF id \in Carrying(rows) THEN Released(rows, id) ELSE 0
    <3>1. reader' = [reader EXCEPT ![r] = [reader[r] EXCEPT
            !.todo = reader[r].todo \ {id}, !.answer[id] = found]]
      BY <1>18, <2>3 DEF PickRow
    <3>2. found \in good[id] \cup {0} /\ found \in Holding \cup {0}
      BY DEF OnceGood, Carrying
    <3> HIDE DEF found
    <3>3. /\ reader'[r].answer = [reader[r].answer EXCEPT ![id] = found]
          /\ reader'[r].pc = "pick" /\ reader'[r].op = "find"
      BY <1>1, <2>1, <3>1 DEF Reading, At
    <3>4. \A i \in Id : reader'[r].answer[i] = IF i = id THEN found ELSE reader[r].answer[i]
      BY <1>1, <3>3 DEF Reading
    <3>5. Honest(r)'
      BY <1>1, <1>2, <2>1, <3>2, <3>3, <3>4 DEF Honest, At
    <3>6. QED  BY <1>1, <1>2, <2>1, <3>5, HonestMove
  <2>4. QED  BY <2>2, <2>3
<1>19. ~Return(r)
  BY DEF Return
<1>20. QED
  BY <1>7, <1>8, <1>9, <1>10, <1>11, <1>12, <1>13, <1>14, <1>15, <1>16, <1>17, <1>18, <1>19
  DEF Step

LEMMA OnceGoodKept ==
  ASSUME IInv, OnceGood, [Next]_vars PROVE OnceGood'
<1>1. ASSUME NEW id \in Id, GitChanges(id) PROVE OnceGood'
  <2>1. PICK version \in 0..MaxVersion :
          /\ git' = [git EXCEPT ![id] = version]
          /\ good' = [good EXCEPT ![id] = good[id] \cup (({version} \ {0}) \ Unreadable)]
          /\ reader' = [r \in Reader |->
               IF At(r, "idle") THEN Idle
               ELSE [reader[r] EXCEPT !.seen[id] = reader[r].seen[id] \cup {version}]]
          /\ rows' = rows
    BY <1>1 DEF GitChanges
  <2>2. git \in [Id -> 0..MaxVersion] /\ good \in [Id -> SUBSET Version]
    BY DEF IInv, TypeOK
  <2>3. /\ \A i \in Id : good[i] \subseteq good'[i]
        /\ \A i \in Id : git'[i] \in good'[i] \cup {0} \cup Unreadable
    BY <2>1, <2>2 DEF OnceGood
  <2>4. \A i \in Id : Released(rows', i) \in good'[i] \cup {0}
    BY <2>1, <2>3 DEF OnceGood
  <2>5. ASSUME NEW r \in Reader PROVE Honest(r)'
    <3>1. CASE ~Active(r)
      BY <2>1, <3>1, Typed DEF IInv, Honest, Active
    <3>2. CASE Active(r)
      <4>1. reader[r] \in Reading /\ ~At(r, "idle") /\ Honest(r)
        BY <3>2, Typed DEF IInv, OnceGood
      <4>2. reader'[r] = [reader[r] EXCEPT !.seen[id] = reader[r].seen[id] \cup {version}]
        BY <2>1, <4>1
      <4>3. /\ reader'[r].pc = reader[r].pc /\ reader'[r].op = reader[r].op
            /\ reader'[r].loaded = reader[r].loaded /\ reader'[r].id = reader[r].id
            /\ reader'[r].answer = reader[r].answer /\ reader[r].id \in Id
        BY <4>1, <4>2 DEF Reading
      <4>4. QED  BY <2>3, <3>2, <4>1, <4>3 DEF Honest, At
    <3>3. QED  BY <3>1, <3>2
  <2>6. QED  BY <2>3, <2>4, <2>5 DEF OnceGood
<1>2. ASSUME NEW r \in Reader, Begin(r) PROVE OnceGood'
  <2> DEFINE others == {other \in Reader \ {r} : ~ At(other, "idle")}
             read(op, id) ==
               [pc |-> "tips", op |-> op, id |-> id,
                current |-> [i \in Id |-> 0], todo |-> {}, prune |-> {},
                loaded |-> 0, answer |-> [i \in Id |-> 0], status |-> "cache",
                seen |-> [i \in Id |-> {git[i]}], alone |-> others = {}]
  <2>1. PICK op \in {"all", "list", "get", "find", "locate"}, id \in Id :
          /\ reader' = [o \in Reader |->
                          IF o = r THEN read(op, id)
                          ELSE IF o \in others THEN [reader[o] EXCEPT !.alone = FALSE]
                          ELSE Idle]
          /\ UNCHANGED <<git, newest, good, rows>>
    BY <1>2 DEF Begin
  <2>2. reader'[r].pc = "tips" /\ \A i \in Id : reader'[r].answer[i] = 0
    BY <2>1
  <2>3. Honest(r)'
    BY <2>2 DEF Honest, At
  <2>4. ASSUME NEW o \in Reader \ {r} PROVE Honest(o)'
    <3>1. CASE ~Active(o)
      BY <2>1, <3>1, Typed DEF IInv, Honest, Active
    <3>2. CASE Active(o)
      <4>1. reader[o] \in Reading /\ Honest(o)
            /\ reader'[o] = [reader[o] EXCEPT !.alone = FALSE]
        BY <2>1, <3>2, Typed DEF IInv, OnceGood
      <4>2. /\ reader'[o].pc = reader[o].pc /\ reader'[o].op = reader[o].op
            /\ reader'[o].loaded = reader[o].loaded /\ reader'[o].id = reader[o].id
            /\ reader'[o].answer = reader[o].answer
        BY <4>1 DEF Reading
      <4>3. QED  BY <2>1, <3>2, <4>1, <4>2 DEF Honest, At
    <3>3. QED  BY <3>1, <3>2
  <2>5. QED  BY <2>1, <2>3, <2>4 DEF OnceGood, Released
<1>3. ASSUME NEW r \in Reader, Return(r) PROVE OnceGood'
  <2>1. /\ reader'[r] = Idle /\ UNCHANGED <<git, newest, good, rows>>
        /\ \A o \in Reader \ {r} : reader'[o] = reader[o]
    BY <1>3 DEF Return, IInv, TypeOK
  <2>2. Honest(r)'
    BY <2>1 DEF Honest, Active
  <2>3. QED  BY <2>1, <2>2, HonestMove
<1>4. ASSUME NEW r \in Reader, Step(r) \/ CacheFails(r), ~Return(r) PROVE OnceGood'
  <2>1. ~At(r, "done")
    BY <1>4 DEF Step, CacheFails, ReadTips, ReadHeads, MaterialiseStale, WriteStale, Prune,
       ReadCache, PickRow, FindDone, RemoveGone, ServeRow, Materialise, WriteAndServe, ReadGit, At
  <2>2. QED  BY <1>4, <2>1, StepOnceGood
<1>5. CASE UNCHANGED vars
  BY <1>5 DEF vars, OnceGood, Honest, Active, At, Released
<1>6. QED  BY <1>1, <1>2, <1>3, <1>4, <1>5 DEF Next

\* A step within a read is none of the caller's, until it answers.
LEMMA StepRefines ==
  ASSUME IInv, IInv', OnceGood', Single, NEW r \in Reader, Reader = {r},
         ~At(r, "done"), Step(r) \/ CacheFails(r)
  PROVE  Single' /\ [Promised!Next]_(Promised!vars)
<1> DEFINE op == reader[r].op
           seen == reader[r].seen
           counts == IF op \in {"find", "locate"} THEN Holding ELSE Version
           new == reader'[r]
           read == [o \in Reader |-> Read(o)]
<1>1. /\ Active(r) /\ git' = git /\ new.op = op /\ new.seen = seen
      /\ new.alone = reader[r].alone /\ new.pc # "idle"
      /\ op = "get" => new.id = reader[r].id
  BY StepFrame
<1>2. Single' /\ reader[r].alone
  BY <1>1 DEF Single
<1>3. /\ reader[r] \in Reading /\ ~At(r, "idle")
      /\ Asked(r)' = Asked(r) /\ Asked(r) \subseteq Id
  <2>1. reader[r] \in Reading /\ ~At(r, "idle")
    BY <1>1, Typed DEF IInv
  <2>2. Asked(r)' = Asked(r)
    BY <1>1 DEF Asked
  <2>3. Asked(r) \subseteq Id
    BY <2>1 DEF Asked, Reading
  <2>4. QED  BY <2>1, <2>2, <2>3
<1>4. read[r] = [pc |-> "reading", ids |-> Asked(r), seen |-> seen, counts |-> counts]
  BY <1>3 DEF Read
<1>5. new \in Reading /\ Good(r)'
  BY <1>1 DEF IInv, TypeOK, Idle
<1>8a. good' = good
  BY StepKeepsGood
<1>6. CASE new.pc # "done"
  <2>1. Read(r)' = Read(r)
    BY <1>1, <1>3, <1>4, <1>6 DEF Read, At
  <2>2. read' = read
    BY <2>1
  <2>3. QED  BY <1>1, <1>2, <1>8a, <2>2 DEF Promised!vars
<1>7. CASE new.pc = "done" /\ new.status # "error"
  <2>1. Read(r)' = [pc |-> "answered", answer |-> new.answer]
    BY <1>7 DEF Read, At
  <2>2. new.answer \in [Id -> 0..MaxVersion]
    BY <1>5 DEF Reading
  <2>3. ASSUME NEW id \in Asked(r), seen[id] \cap Unreadable = {}
        PROVE  \E version \in seen[id] :
                 new.answer[id] = IF version \in counts THEN version ELSE 0
    <3>1. PICK version \in seen[id] : new.answer[id] = Reported(op, version)
      BY <1>1, <1>2, <1>3, <1>5, <1>7, <2>3 DEF Good, Answers, AnswerRight, Reported, At
    <3>2. version \in 0..MaxVersion /\ MaxVersion \in Nat
      BY <1>3, CacheAssumption DEF Reading
    <3>3. QED  BY <3>1, <3>2 DEF Reported, Version
  <2>4. read' = [read EXCEPT ![r] = [pc |-> "answered", answer |-> new.answer]]
    BY <2>1
  <2>5. Promised!Answer(r)
    <3>1. read[r].pc = "reading" /\ read[r].ids = Asked(r) /\ read[r].seen = seen
          /\ read[r].counts = counts
      BY <1>4
    <3>2. ASSUME NEW id \in Asked(r)
          PROVE  new.answer[id] \in Promised!Current(r, id)
                   \cup (IF id \in Promised!Broken(r) THEN Promised!LastGood(r, id) ELSE {})
      <4>0. /\ id \in Promised!Broken(r) <=> seen[id] \cap Unreadable # {}
            /\ Promised!LastGood(r, id) = {0} \cup (good[id] \cap counts)
        BY <3>1 DEF Promised!Broken, Promised!LastGood
      <4>1. CASE id \in Promised!Broken(r)
        <5>1. /\ id \in Id /\ new.answer[id] \in good[id] \cup {0}
              /\ op \in {"find", "locate"} => new.answer[id] \in Holding \cup {0}
          BY <1>1, <1>3, <1>8a DEF OnceGood, Honest, Active, Idle
        <5>2. good[id] \subseteq Version
          BY <5>1 DEF IInv, TypeOK
        <5>3. new.answer[id] \in Promised!LastGood(r, id)
          BY <4>0, <5>1, <5>2
        <5>4. QED  BY <4>1, <5>3
      <4>2. CASE id \notin Promised!Broken(r)
        <5>1. PICK version \in seen[id] :
                new.answer[id] = IF version \in counts THEN version ELSE 0
          BY <2>3, <4>0, <4>2
        <5>2. version \in seen[id] \ Unreadable
          BY <4>0, <4>2, <5>1
        <5>3. new.answer[id] \in Promised!Current(r, id)
          BY <3>1, <5>1, <5>2 DEF Promised!Current
        <5>4. QED  BY <5>3
      <4>3. QED  BY <4>1, <4>2
    <3> HIDE DEF read, counts, new, seen
    <3>3. QED  BY <1>1, <1>8a, <2>2, <2>4, <3>1, <3>2
              DEF Promised!Answer, read
  <2>6. QED  BY <1>2, <2>5 DEF Promised!Next
<1>8. CASE new.pc = "done" /\ new.status = "error"
  <2>1. Read(r)' = [pc |-> "failed"]
    BY <1>8 DEF Read, At
  <2>2. \E id \in Asked(r) : seen[id] \cap Unreadable # {}
    BY <1>1, <1>3, <1>5, <1>8 DEF Good, Errors, Active, Idle
  <2>3. read' = [read EXCEPT ![r] = [pc |-> "failed"]]
    BY <2>1
  <2>4. Promised!Fail(r)
    <3>1. read[r].pc = "reading" /\ read[r].ids = Asked(r) /\ read[r].seen = seen
      BY <1>4
    <3> HIDE DEF read, seen
    <3>2. QED  BY <1>1, <1>8a, <2>2, <2>3, <3>1 DEF Promised!Fail, Promised!Broken, Promised!Failed, read
  <2>5. QED  BY <1>2, <2>4 DEF Promised!Next
<1>9. QED  BY <1>6, <1>7, <1>8

\* Every step of a system with one reader is one of a system without a cache.
LEMMA SingleRefines ==
  ASSUME IInv, IInv', OnceGood', Single, NEW r \in Reader, Reader = {r}, [Next]_vars
  PROVE  Single' /\ [Promised!Next]_(Promised!vars)
<1> DEFINE read == [o \in Reader |-> Read(o)]
<1>1. ASSUME NEW id \in Id, GitChanges(id) PROVE Single' /\ Promised!Next
  <2>1. PICK version \in 0..MaxVersion \ {git[id]} :
          /\ git' = [git EXCEPT ![id] = version]
          /\ good' = [good EXCEPT ![id] = good[id] \cup (({version} \ {0}) \ Unreadable)]
          /\ reader' = [o \in Reader |->
               IF At(o, "idle") THEN Idle
               ELSE [reader[o] EXCEPT !.seen[id] = reader[o].seen[id] \cup {version}]]
    BY <1>1 DEF GitChanges
  <2>2. CASE At(r, "idle")
    <3>1. reader'[r] = Idle /\ Read(r) = [pc |-> "none"] /\ ~Active(r)'
      BY <2>1, <2>2 DEF Read, Active, At
    <3>2. Read(r)' = [pc |-> "none"]
      BY <3>1 DEF Read, At, Idle
    <3>3. read' = [o \in Reader |-> IF read[o].pc # "reading" THEN read[o]
                    ELSE [read[o] EXCEPT !.seen[id] = read[o].seen[id] \cup {version}]]
      BY <3>1, <3>2
    <3>4. Promised!Change(id)
      BY <2>1, <3>3 DEF Promised!Change
    <3>5. QED  BY <3>1, <3>4 DEF Promised!Next, Single
  <2>3. CASE ~At(r, "idle")
    <3> DEFINE seen == [reader[r].seen EXCEPT ![id] = reader[r].seen[id] \cup {version}]
               new == [reader[r] EXCEPT !.seen = seen]
    <3>1. reader[r] \in Reading /\ Active(r)
      BY <2>3, Typed DEF IInv
    <3>2. reader'[r] = [reader[r] EXCEPT !.seen[id] = reader[r].seen[id] \cup {version}]
      BY <2>1, <2>3
    <3>3. reader'[r] = new
      BY <3>1, <3>2 DEF Reading
    <3> HIDE DEF seen
    <3>4. /\ new.pc = reader[r].pc /\ new.op = reader[r].op /\ new.id = reader[r].id
          /\ new.answer = reader[r].answer /\ new.status = reader[r].status
          /\ new.alone = reader[r].alone /\ new.seen = seen
      BY <3>1 DEF Reading
    <3> HIDE DEF new
    <3>5. Single'
      BY <3>1, <3>3, <3>4 DEF Single
    <3>6. CASE At(r, "done")
      <4>1. Read(r)' = Read(r) /\ Read(r).pc # "reading"
        BY <3>3, <3>4, <3>6 DEF Read, At
      <4>2. read' = [o \in Reader |-> IF read[o].pc # "reading" THEN read[o]
                      ELSE [read[o] EXCEPT !.seen[id] = read[o].seen[id] \cup {version}]]
        BY <4>1
      <4>3. Promised!Change(id)
        BY <2>1, <4>2 DEF Promised!Change
      <4>4. QED  BY <3>5, <4>3 DEF Promised!Next
    <3>7. CASE ~At(r, "done")
      <4> DEFINE counts == IF reader[r].op \in {"find", "locate"} THEN Holding ELSE Version
      <4>1. /\ Read(r) = [pc |-> "reading", ids |-> Asked(r), seen |-> reader[r].seen,
                          counts |-> counts]
            /\ Read(r)' = [pc |-> "reading", ids |-> Asked(r), seen |-> seen,
                           counts |-> counts]
        BY <2>3, <3>3, <3>4, <3>7 DEF Read, Asked, At
      <4> HIDE DEF counts
      <4>2. Read(r)' = [Read(r) EXCEPT !.seen[id] = Read(r).seen[id] \cup {version}]
        BY <4>1 DEF seen
      <4>3. read' = [o \in Reader |-> IF read[o].pc # "reading" THEN read[o]
                      ELSE [read[o] EXCEPT !.seen[id] = read[o].seen[id] \cup {version}]]
        BY <4>1, <4>2
      <4>4. Promised!Change(id)
        BY <2>1, <4>3 DEF Promised!Change
      <4>5. QED  BY <3>5, <4>4 DEF Promised!Next
    <3>8. QED  BY <3>6, <3>7
  <2>4. QED  BY <2>2, <2>3
<1>2. CASE Begin(r)
  <2> DEFINE others == {other \in Reader \ {r} : ~ At(other, "idle")}
             begun(op, id) ==
               [pc |-> "tips", op |-> op, id |-> id,
                current |-> [i \in Id |-> 0], todo |-> {}, prune |-> {},
                loaded |-> 0, answer |-> [i \in Id |-> 0], status |-> "cache",
                seen |-> [i \in Id |-> {git[i]}], alone |-> others = {}]
  <2>0. PICK op \in {"all", "list", "get", "find", "locate"}, id \in Id :
          /\ At(r, "idle") /\ git' = git /\ good' = good
          /\ reader' = [o \in Reader |->
                          IF o = r THEN begun(op, id)
                          ELSE IF o \in others THEN [reader[o] EXCEPT !.alone = FALSE]
                          ELSE Idle]
    BY <1>2 DEF Begin
  <2>1. /\ At(r, "idle") /\ git' = git /\ good' = good
        /\ reader'[r].pc = "tips" /\ reader'[r].op = op /\ reader'[r].id = id
        /\ reader'[r].seen = [i \in Id |-> {git[i]}]
        /\ reader'[r].alone = (others = {})
    BY <2>0
  <2> DEFINE ids == IF op = "get" THEN {id} ELSE Id
             counts == IF op \in {"find", "locate"} THEN Holding ELSE Version
  <2>2. Single'
    BY <2>1 DEF Single
  <2>3. Read(r) = [pc |-> "none"]
    BY <2>1 DEF Read, At
  <2>4. Read(r)' = [pc |-> "reading", ids |-> ids, seen |-> [i \in Id |-> {git[i]}],
                    counts |-> counts]
    BY <2>1 DEF Read, Asked, At
  <2>5. ids \in SUBSET Id /\ counts \in SUBSET (1..MaxVersion)
    BY CacheAssumption DEF Version
  <2> HIDE DEF ids, counts
  <2>6. /\ read[r] = [pc |-> "none"]
        /\ read' = [read EXCEPT ![r] =
             [pc |-> "reading", ids |-> ids, counts |-> counts,
              seen |-> [i \in Id |-> {git[i]}]]]
    BY <2>3, <2>4
  <2>7. Promised!Invoke(r)
    BY <2>1, <2>5, <2>6 DEF Promised!Invoke, Promised!NoRead
  <2>8. QED  BY <2>2, <2>7 DEF Promised!Next
<1>3. CASE Return(r)
  <2>1. At(r, "done") /\ git' = git /\ good' = good /\ reader'[r] = Idle
    BY <1>3 DEF Return, IInv, TypeOK
  <2>2. Read(r).pc \in {"answered", "failed"} /\ Read(r)' = [pc |-> "none"]
    BY <2>1 DEF Read, At, Idle
  <2>3. read[r].pc \in {"answered", "failed"} /\ read' = [read EXCEPT ![r] = [pc |-> "none"]]
    BY <2>2
  <2>4. Promised!Return(r)
    BY <2>1, <2>3 DEF Promised!Return, Promised!NoRead
  <2>5. QED  BY <2>1, <2>4 DEF Promised!Next, Single, Active
<1>4. CASE (Step(r) \/ CacheFails(r)) /\ ~Return(r)
  <2>1. ~At(r, "done")
    BY <1>4 DEF Step, CacheFails, ReadTips, ReadHeads, MaterialiseStale, WriteStale, Prune,
       ReadCache, PickRow, FindDone, RemoveGone, ServeRow, Materialise, WriteAndServe, ReadGit, At
  <2>2. QED  BY <1>4, <2>1, StepRefines
<1>5. CASE UNCHANGED vars
  <2>1. Single'
    BY <1>5 DEF vars, Single, Active
  <2>2. read' = read
    BY <1>5 DEF vars, Read, Asked, At
  <2>3. QED  BY <1>5, <2>1, <2>2 DEF vars, Promised!vars
<1>6. QED  BY <1>1, <1>2, <1>3, <1>4, <1>5 DEF Next

\* What a process that reads alone is served, for any objects, any versions, and
\* rows, failures and changes at any step: what git had during the call, and of an
\* object that does not materialise at most a version that git had and that did.
THEOREM LoneReaderReadsLikeGitOrLastGood ==
  ASSUME ~Recurs, NEW r, Reader = {r} PROVE Spec => ReadsLikeGitOrLastGood
<1>1. Init => Single /\ OnceGood /\ Promised!Init
  <2> SUFFICES ASSUME Init PROVE Single /\ OnceGood /\ Promised!Init
    OBVIOUS
  <2>1. /\ git \in [Id -> {0, 1}] /\ reader = [o \in Reader |-> Idle]
        /\ good = [id \in Id |-> {v \in {1} \ Unreadable : git[id] = 1 \/ rows[id] # NoRow}]
    BY DEF Init
  <2>2. \A o \in Reader : ~Active(o) /\ Read(o) = [pc |-> "none"]
    BY <2>1 DEF Active, Read, At, Idle
  <2>3. [o \in Reader |-> Read(o)] = [o \in Reader |-> [pc |-> "none"]]
    BY <2>2
  <2>4. /\ good \in [Id -> SUBSET ({1} \ Unreadable)]
        /\ \A id \in Id : git[id] \in good[id] \cup {0} \cup Unreadable
    BY <2>1
  <2>5. QED  BY <2>1, <2>2, <2>3, <2>4, InitOnceGood DEF Single, Promised!Init, Promised!NoRead
<1>2. IInv /\ IInv' /\ OnceGood /\ Single /\ [Next]_vars
        => OnceGood' /\ Single' /\ [Promised!Next]_(Promised!vars)
  <2> SUFFICES ASSUME IInv, IInv', OnceGood, Single, [Next]_vars
               PROVE  OnceGood' /\ Single' /\ [Promised!Next]_(Promised!vars)
    OBVIOUS
  <2>1. OnceGood'
    BY OnceGoodKept
  <2>2. QED  BY <2>1, SingleRefines
<1>3. Spec => []IInv
  BY CacheInvariant
<1>4. QED  BY <1>1, <1>2, <1>3, PTL DEF Spec, ReadsLikeGitOrLastGood, Promised!Spec

===============================================================================
