----------------------------- MODULE ReleaseCache -----------------------------
(***************************************************************************)
(* The SQLite cache of materialised releases, as several processes (the    *)
(* command line, the watch loop) read a repository through it while git    *)
(* changes under them: Releases::cached_* of radicle-artifact/src/lib.rs   *)
(* over the transactions of cache.rs.                                      *)
(*                                                                         *)
(* The state of one object in git, its set of tips, is a number; 0 is an   *)
(* object without refs.  Materialising it yields the release of that       *)
(* number.  The freshness token is the number together with the row format.*)
(* Only FORMAT of that is kept: a row of an older format neither matches a *)
(* token nor parses.                                                       *)
(***************************************************************************)
EXTENDS Integers

CONSTANTS
  Reader,      \* concurrent reads, each of its own process or connection
  Id,          \* releases of the repository
  MaxVersion,  \* bound: states an object goes through
  Unreadable,  \* the versions that do not materialise
  Holding,     \* the versions that carry the CID being looked for
  Recurs,      \* may a ref be deleted or fetched back, so that tips recur?
  NoRow

Version == 1..MaxVersion

ASSUME CacheAssumption ==
  /\ MaxVersion \in Nat \ {0}
  /\ Unreadable \subseteq Version /\ Holding \subseteq Version
  /\ Recurs \in BOOLEAN
  /\ NoRow \notin [token : Version, release : Version, old : BOOLEAN]

VARIABLES
  git,     \* the version of each object, 0 when it has no refs
  newest,  \* the newest version each object ever had
  good,    \* those it had that materialise (history)
  rows,    \* the cache: `releases`, with the index that follows each row
  reader   \* what each reader is doing

vars == <<git, newest, good, rows, reader>>

Row == [token : Version, release : Version, old : BOOLEAN]

Idle == [pc |-> "idle"]

\* seen and alone are history: the versions of each object, and whether any
\* other reader was at work, since the read began.
Reading ==
  [pc : {"tips", "heads", "row", "gone", "refresh", "write", "pick", "git", "done"},
   op : {"all", "list", "get", "find", "locate"}, id : Id,
   current : [Id -> 0..MaxVersion], todo : SUBSET Id, prune : SUBSET Id,
   loaded : 0..MaxVersion, answer : [Id -> 0..MaxVersion],
   status : {"cache", "git", "error"},
   seen : [Id -> SUBSET (0..MaxVersion)], alone : BOOLEAN]

\* Rows may be left from the release before this format.
Init ==
  /\ git \in [Id -> {0, 1}] /\ newest = git
  /\ rows \in [Id -> {NoRow} \cup [token : {1}, release : {1} \ Unreadable, old : {TRUE}]]
  /\ good = [id \in Id |-> {v \in {1} \ Unreadable : git[id] = 1 \/ rows[id] # NoRow}]
  /\ reader = [r \in Reader |-> Idle]

At(r, pc) == reader[r].pc = pc

Answered(r, answer) ==
  reader' = [reader EXCEPT ![r] = [@ EXCEPT !.pc = "done", !.answer = answer]]

\* "using git": the read starts over there, without what it had begun.
AskGit(r) ==
  reader' = [reader EXCEPT ![r] = [@ EXCEPT
    !.pc = "git", !.todo = {}, !.prune = {}, !.loaded = 0]]

-----------------------------------------------------------------------------
\* Somebody signs an operation, fetches or deletes refs.
GitChanges(id) ==
  \E version \in 0..MaxVersion \ {git[id]} :
    /\ Recurs \/ version = 0 \/ version > newest[id]
    /\ git' = [git EXCEPT ![id] = version]
    /\ newest' = [newest EXCEPT ![id] = IF version > @ THEN version ELSE @]
    /\ good' = [good EXCEPT ![id] = @ \cup (({version} \ {0}) \ Unreadable)]
    /\ reader' = [r \in Reader |->
                    IF At(r, "idle") THEN Idle
                    ELSE [reader[r] EXCEPT !.seen[id] = @ \cup {version}]]
    /\ UNCHANGED rows

\* all and counts; list; get; find_by_cid; locations_for.
Begin(r) ==
  \E op \in {"all", "list", "get", "find", "locate"}, id \in Id :
    /\ At(r, "idle")
    /\ LET others == {other \in Reader \ {r} : ~ At(other, "idle")}
           read   == [pc |-> "tips", op |-> op, id |-> id,
                      current |-> [i \in Id |-> 0], todo |-> {}, prune |-> {},
                      loaded |-> 0, answer |-> [i \in Id |-> 0], status |-> "cache",
                      seen |-> [i \in Id |-> {git[i]}], alone |-> others = {}]
       IN  reader' = [o \in Reader |->
                        IF o = r THEN read
                        ELSE IF o \in others THEN [reader[o] EXCEPT !.alone = FALSE]
                        ELSE Idle]
    /\ UNCHANGED <<git, newest, good, rows>>

\* The ref walk: `types` for a refresh, `objects` for one release.
ReadTips(r) ==
  /\ At(r, "tips")
  /\ reader' = [reader EXCEPT ![r] = [@ EXCEPT
       !.current = git,
       !.pc = IF reader[r].op # "get" THEN "heads"
              ELSE IF git[reader[r].id] = 0 THEN "gone" ELSE "row"]]
  /\ UNCHANGED <<git, newest, good, rows>>

\* Mutant: a row counts as fresh without its token being compared.
FreshUnchecked(row, version) == row # NoRow /\ ~ row.old

Fresh(row, version) == row # NoRow /\ ~ row.old /\ row.token = version

\* Mutant: nothing is pruned.
ReadHeadsOnly(r) ==
  /\ At(r, "heads")
  /\ LET current == reader[r].current
     IN  reader' = [reader EXCEPT ![r] = [@ EXCEPT
           !.pc = "refresh",
           !.todo = {id \in Id : current[id] # 0 /\ ~ Fresh(rows[id], current[id])}]]
  /\ UNCHANGED <<git, newest, good, rows>>

\* refresh_repo, up to its loops: what to materialise, what to prune.
ReadHeads(r) ==
  /\ At(r, "heads")
  /\ LET current == reader[r].current
     IN  reader' = [reader EXCEPT ![r] = [@ EXCEPT
           !.pc = "refresh",
           !.todo = {id \in Id : current[id] # 0 /\ ~ Fresh(rows[id], current[id])},
           !.prune = {id \in Id : current[id] = 0 /\ rows[id] # NoRow}]]
  /\ UNCHANGED <<git, newest, good, rows>>

\* store.get on one stale object.  An unreadable one is skipped.
MaterialiseStale(r, id) ==
  /\ At(r, "refresh") /\ id \in reader[r].todo
  /\ reader' = [reader EXCEPT ![r] = [@ EXCEPT
       !.todo = reader[r].todo \ {id}, !.id = id, !.loaded = git[id],
       !.pc = IF git[id] \in Unreadable THEN "refresh" ELSE "write"]]
  /\ UNCHANGED <<git, newest, good, rows>>

\* Mutant: the token is taken when the row is written.
NewRowLateToken(r) ==
  IF reader[r].loaded = 0 THEN NoRow
  ELSE [token |-> git[reader[r].id], release |-> reader[r].loaded, old |-> FALSE]

\* The row under the token of the ref walk, not of the materialisation.
NewRow(r) ==
  IF reader[r].loaded = 0 THEN NoRow
  ELSE [token |-> reader[r].current[reader[r].id], release |-> reader[r].loaded,
        old |-> FALSE]

WriteStale(r) ==
  /\ At(r, "write") /\ reader[r].op # "get"
  /\ rows' = [rows EXCEPT ![reader[r].id] = NewRow(r)]
  /\ reader' = [reader EXCEPT ![r].pc = "refresh"]
  /\ UNCHANGED <<git, newest, good>>

Prune(r, id) ==
  /\ At(r, "refresh") /\ reader[r].todo = {} /\ id \in reader[r].prune
  /\ rows' = [rows EXCEPT ![id] = NoRow]
  /\ reader' = [reader EXCEPT ![r].prune = @ \ {id}]
  /\ UNCHANGED <<git, newest, good>>

Released(rs, id) == IF rs[id] = NoRow THEN 0 ELSE rs[id].release

Carrying(rs) == {id \in Id : Released(rs, id) \in Holding}

Unparsed == {id \in Id : rows[id] # NoRow /\ rows[id].old}

\* After the refresh.  all falls back to git when a row does not parse; list skips
\* the row, for it pulls them from one SELECT when git is out of reach;
\* locations_for and find_by_cid read the index.
ReadCache(r) ==
  /\ At(r, "refresh") /\ reader[r].todo = {} /\ reader[r].prune = {}
  /\ CASE reader[r].op = "all" ->
            IF Unparsed # {}
            THEN AskGit(r)
            ELSE Answered(r, [id \in Id |-> Released(rows, id)])
       [] reader[r].op = "list" ->
            Answered(r, [id \in Id |-> IF id \in Unparsed THEN 0 ELSE Released(rows, id)])
       [] reader[r].op = "locate" ->
            Answered(r, [id \in Id |->
                           IF id \in Carrying(rows) THEN Released(rows, id) ELSE 0])
       [] OTHER ->
            reader' = [reader EXCEPT ![r] = [@ EXCEPT !.pc = "pick", !.todo = Carrying(rows)]]
  /\ UNCHANGED <<git, newest, good, rows>>

\* find_by_cid reads the rows the index named one by one, and looks again
\* whether each carries the CID.
PickRow(r, id) ==
  /\ At(r, "pick") /\ id \in reader[r].todo
  /\ IF id \in Unparsed
     THEN AskGit(r)
     ELSE reader' = [reader EXCEPT ![r] = [@ EXCEPT
            !.todo = reader[r].todo \ {id},
            !.answer[id] = IF id \in Carrying(rows) THEN Released(rows, id) ELSE 0]]
  /\ UNCHANGED <<git, newest, good, rows>>

FindDone(r) ==
  /\ At(r, "pick") /\ reader[r].todo = {}
  /\ reader' = [reader EXCEPT ![r].pc = "done"]
  /\ UNCHANGED <<git, newest, good, rows>>

-----------------------------------------------------------------------------
\* cached_get of an object without refs.
RemoveGone(r) ==
  /\ At(r, "gone")
  /\ rows' = [rows EXCEPT ![reader[r].id] = NoRow]
  /\ Answered(r, reader[r].answer)
  /\ UNCHANGED <<git, newest, good>>

ServeRow(r) ==
  LET id == reader[r].id
  IN  /\ At(r, "row")
      /\ Fresh(rows[id], reader[r].current[id])
      /\ Answered(r, [reader[r].answer EXCEPT ![id] = rows[id].release])
      /\ UNCHANGED <<git, newest, good, rows>>

\* A stale, missing or old row: materialise, and report what cannot be.
Materialise(r) ==
  LET id == reader[r].id
  IN  /\ At(r, "row")
      /\ ~ Fresh(rows[id], reader[r].current[id])
      /\ reader' = [reader EXCEPT ![r] = [@ EXCEPT
           !.loaded = git[id],
           !.pc = IF git[id] \in Unreadable THEN "done" ELSE "write",
           !.status = IF git[id] \in Unreadable THEN "error" ELSE reader[r].status]]
      /\ UNCHANGED <<git, newest, good, rows>>

WriteAndServe(r) ==
  /\ At(r, "write") /\ reader[r].op = "get"
  /\ rows' = [rows EXCEPT ![reader[r].id] = NewRow(r)]
  /\ Answered(r, [reader[r].answer EXCEPT ![reader[r].id] = reader[r].loaded])
  /\ UNCHANGED <<git, newest, good>>

-----------------------------------------------------------------------------
\* The cache is best effort: a busy or broken database sends the read to git.
CacheFails(r) ==
  /\ reader[r].pc \in {"heads", "row", "gone", "refresh", "write", "pick"}
  /\ AskGit(r)
  /\ UNCHANGED <<git, newest, good, rows>>

\* The git path: get and find_by_cid fail on an unreadable object, find on any
\* of them, and all and list pass the error on beside what they could read.
ReadGit(r) ==
  LET op    == reader[r].op
      asked == IF op = "get" THEN {reader[r].id} ELSE Id
      found == {id \in asked : /\ git[id] \notin Unreadable
                               /\ op \in {"find", "locate"} => git[id] \in Holding}
      fails == op \notin {"all", "list"} /\ \E id \in asked : git[id] \in Unreadable
  IN  /\ At(r, "git")
      /\ reader' = [reader EXCEPT ![r] = [@ EXCEPT
           !.pc = "done", !.status = IF fails THEN "error" ELSE "git",
           !.answer = [id \in Id |-> IF id \in found /\ ~ fails THEN git[id] ELSE 0]]]
      /\ UNCHANGED <<git, newest, good, rows>>

Return(r) ==
  /\ At(r, "done")
  /\ reader' = [reader EXCEPT ![r] = Idle]
  /\ UNCHANGED <<git, newest, good, rows>>

Step(r) ==
  \/ ReadTips(r) \/ ReadHeads(r) \/ WriteStale(r) \/ ReadCache(r)
  \/ \E id \in Id : MaterialiseStale(r, id) \/ Prune(r, id) \/ PickRow(r, id)
  \/ FindDone(r) \/ RemoveGone(r) \/ ServeRow(r) \/ Materialise(r)
  \/ WriteAndServe(r) \/ ReadGit(r) \/ Return(r)

Next ==
  \/ \E id \in Id : GitChanges(id)
  \/ \E r \in Reader : Begin(r) \/ Step(r) \/ CacheFails(r)

Spec == Init /\ [][Next]_vars

\* A read that was begun goes on; nothing makes anybody read, or git change.
FairSpec == Spec /\ \A r \in Reader : WF_vars(Step(r))
-----------------------------------------------------------------------------
\* Whatever a process reads, it keeps a call it can go on with, and no row is of
\* an object that was gone when it was read.
TypeOK ==
  /\ git \in [Id -> 0..MaxVersion] /\ newest \in [Id -> 0..MaxVersion]
  /\ good \in [Id -> SUBSET Version]
  /\ rows \in [Id -> Row \cup {NoRow}]
  /\ reader \in [Reader -> Reading \cup {Idle}]

\* A row never holds a release older than its token says, so that a reader who
\* finds its token unchanged cannot be served a past the token has superseded.
RowsAreNotOlderThanTheirToken ==
  \A id \in Id : rows[id] # NoRow => rows[id].token <= rows[id].release

Asked(r) == IF reader[r].op = "get" THEN {reader[r].id} ELSE Id

\* The version the operation should report for an object in a given state.
Reported(op, version) ==
  IF op \in {"find", "locate"} /\ version \notin Holding THEN 0 ELSE version

\* What the read answered for an object is right for a state the object had
\* while the read ran; an object that could not be read then is exempt.
Current(r) ==
  \A id \in Asked(r) :
    \/ \E version \in reader[r].seen[id] :
         reader[r].answer[id] = Reported(reader[r].op, version)
    \/ reader[r].seen[id] \cap Unreadable # {}

\* `get` is linearizable whatever the other readers do: its answer was true at
\* some moment of the call.
GetIsCurrent ==
  \A r \in Reader :
    At(r, "done") /\ reader[r].op = "get" /\ reader[r].status # "error" => Current(r)

\* So is every other read during which no other reader was at work, however git
\* moved: the refresh it starts with leaves nothing stale behind.
LoneReadsAreCurrent ==
  \A r \in Reader :
    At(r, "done") /\ reader[r].alone /\ reader[r].status # "error" => Current(r)

\* The same of reads that other readers overlap: "a write advances the COB's
\* git tips, so the next read sees the freshness token change and
\* re-materializes".
ReadsAreCurrent ==
  \A r \in Reader : At(r, "done") /\ reader[r].status # "error" => Current(r)

\* Whatever overlapping readers left in the cache, if refreshes keep completing
\* after git's last change every row ends up as git has it, for good.
CacheConverges ==
  []<>(\E r \in Reader : At(r, "done") /\ reader[r].op # "get" /\ reader[r].status = "cache")
    => <>[](\A id \in Id : git[id] \in Unreadable \/ Released(rows, id) = git[id])

\* What a read is to its caller.
Read(r) ==
  CASE At(r, "idle") -> [pc |-> "none"]
    [] At(r, "done") ->
         IF reader[r].status = "error" THEN [pc |-> "failed"]
         ELSE [pc |-> "answered", answer |-> reader[r].answer]
    [] OTHER ->
         [pc |-> "reading", ids |-> Asked(r), seen |-> reader[r].seen,
          counts |-> IF reader[r].op \in {"find", "locate"} THEN Holding ELSE Version]

Promised == INSTANCE CurrentReads WITH read <- [r \in Reader |-> Read(r)]

\* What a process that reads alone gets through the cache, with rows of older
\* formats, versions that do not materialise and a database that fails at any step:
\* of every object that can be read, what git had during the call ("a write advances
\* the COB's git tips, so the next read sees the freshness token change"), and of
\* one that cannot, nothing, an error or a "last good copy": a version git once had,
\* never one that did not materialise.  It does not say that the cache reads like
\* git, for it does not: of an object that stopped materialising "the cache keeps
\* serving the last good copy, while the git path drops it".
ReadsLikeGitOrLastGood == Promised!Spec
=============================================================================
