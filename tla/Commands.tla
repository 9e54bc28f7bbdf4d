-------------------------------- MODULE Commands --------------------------------
(***************************************************************************)
(* The commands of rad-artifact that write releases and talk to the node   *)
(* (main.rs, node.rs and reconcile.rs of the binary), run by one user in   *)
(* several terminals on one repository, while releases of others arrive.   *)
(*                                                                         *)
(* Three things are kept apart and can drift apart: what the node has      *)
(* tagged, which locations of the user the releases carry, and what of the *)
(* latter has been announced.  A call to the node and a signed write are   *)
(* one step each.  All releases are of one commit.                         *)
(*                                                                         *)
(* An option of a command is chosen where the command looks at it.  What a *)
(* release id stands for grows with its timestamp.  Of a location only     *)
(* counts to whom it points: to this node (its own endpoint id, or none),  *)
(* to another endpoint, or to the scheme of old.                           *)
(***************************************************************************)
EXTENDS Integers, FiniteSets, FiniteSetsExt

CONSTANTS
  Proc,       \* terminals
  Id,         \* releases, numbered by timestamp
  Cid,        \* artifacts
  Tag,        \* annotated tags of the commit
  NoTag,      \* the bare commit
  Did,        \* users
  Local,      \* this user
  Delegates,  \* of the repository
  Absent,     \* no such release yet
  Theirs,     \* releases of others that may arrive
  ByHand,     \* locations a user adds by hand
  Overlaps    \* commands that may run at one time, pair by pair

\* A revision the user names or picks is a commit, or an annotated tag of it.
Ref == Tag \cup {NoTag}

Url == {"current", "foreign", "legacy"}

Release ==
  [creator : Did, tag : Ref, carries : SUBSET Cid, urls : SUBSET (Cid \X Url)]

ASSUME CommandsAssumption ==
  /\ Id \subseteq Nat /\ Local \in Did /\ Delegates \subseteq Did
  /\ NoTag \notin Tag /\ Absent \notin Release
  \* A release that is new here has no locations of this user.
  /\ Theirs \subseteq {release \in Release : release.creator # Local /\ release.urls = {}}
  /\ ByHand \subseteq {"current", "foreign"}
  /\ \A pair \in Overlaps : <<pair[2], pair[1]>> \in Overlaps

VARIABLES
  store,        \* store[id]: a release, with the locations of this user
  seeded,       \* the tags of the node: release and artifact
  proc,         \* what each terminal is running
  unannounced,  \* something was written since the last announcement
  loose,        \* history: why node and releases may have drifted apart
  doubled       \* history: why there may be two releases where one would do

vars == <<store, seeded, proc, unannounced, loose, doubled>>

Idle == [pc |-> "idle"]

\* id: the release a command works on, 0 for all of them.  cids: the artifacts it
\* was given, left: those still to be handled.  seen: what the node answered.  add
\* and remove: the rows still to be written.  History: held are the artifacts
\* seeded ever since reconcile asked, as far as it is to retract some of them;
\* lone is a reconcile that removes all it finds, and that nothing disturbed.
Job ==
  [pc : {"mint", "register", "seed", "locate", "unseed", "targets", "sweep", "list",
         "compare", "rows", "edit", "end"},
   cmd : {"create", "register", "edit", "seed", "fetch", "unseed", "reconcile"},
   id : Id \cup {0}, tag : Ref, cids : SUBSET Cid, left : SUBSET Cid,
   asked : BOOLEAN, wrote : BOOLEAN, lone : BOOLEAN, seen : SUBSET Cid, held : SUBSET Cid,
   add : SUBSET (Id \X Cid), remove : SUBSET (Id \X Cid \X Url)]

NewJob(cmd, pc) ==
  [pc |-> pc, cmd |-> cmd, id |-> 0, tag |-> NoTag, cids |-> {}, left |-> {},
   asked |-> FALSE, wrote |-> FALSE, lone |-> TRUE, seen |-> {}, held |-> {},
   add |-> {}, remove |-> {}]

Existing == {id \in Id : store[id] # Absent}

\* find_by_cid, here and in the node's answers over all releases.
Carrying(cid) == {id \in Existing : cid \in store[id].carries}

\* What one register makes of a path: an artifact of a file or a whole tree, or
\* one of each file of a directory.
Plans == (SUBSET Cid) \ {{}}

\* release_visible.
Visible(allAuthors) ==
  {id \in Existing : allAuthors \/ store[id].creator \in Delegates \cup {Local}}

Seeded == {tag[2] : tag \in seeded}

Advertised ==
  {cid \in Cid : \E id \in Existing : <<cid, "current">> \in store[id].urls}

Stale == {id \in Existing : \E cid \in Cid : <<cid, "foreign">> \in store[id].urls
                                          \/ <<cid, "legacy">> \in store[id].urls}

\* Release by release, what is tagged is what is advertised.
Matched ==
  seeded = {row \in Existing \X Cid : <<row[2], "current">> \in store[row[1]].urls}

Init ==
  /\ store \in {[id \in Id |-> IF id = 1 THEN first ELSE Absent] :
                  first \in {Absent} \cup [creator : {Local}, tag : {NoTag}, carries : {Cid},
                                           urls : {Cid \X kinds : kinds \in {{}, {"foreign"}, {"legacy"}}}]}
  /\ seeded = {}
  /\ proc = [p \in Proc |-> Idle]
  /\ unannounced = FALSE /\ doubled = FALSE
  /\ loose = \E id \in Existing : store[id].urls # {}

At(p, pc) == proc[p].pc = pc

Running == {p \in Proc : proc[p] # Idle}

\* Something else happens while these run.
Disturbed ==
  [q \in Proc |-> IF q \in Running THEN [proc[q] EXCEPT !.lone = FALSE] ELSE Idle]

Start(p, job) ==
  /\ p \notin Running
  /\ \A q \in Running : <<job.cmd, proc[q].cmd>> \in Overlaps
  /\ proc' = [Disturbed EXCEPT ![p] =
       [job EXCEPT !.lone = (Running = {} /\ job.cmd = "reconcile")]]
  /\ loose' = (loose \/ Running # {})
  /\ doubled' = (doubled \/ Running # {} \/ (job.asked /\ job.pc = "mint"))
  /\ UNCHANGED <<store, seeded, unannounced>>

history == <<loose, doubled>>

\* One signed transaction.
Sign(id, release) == store' = [store EXCEPT ![id] = release] /\ unannounced' = TRUE

-----------------------------------------------------------------------------
\* Mutant: a release with a tag is never reused.
CreateTargetUntagged(tag) ==
  {id \in Existing : store[id].creator = Local /\ tag = NoTag /\ store[id].tag = NoTag}

CreateTarget(tag) ==
  {id \in Existing : store[id].creator = Local /\ tag \in {NoTag, store[id].tag}}

\* create_release: a tag decides; a bare commit is content with any release of
\* the user (with several of them the user picks one, or it is an error).
StartCreate(p, tag) ==
  LET reuse == CreateTarget(tag)
      job == [NewJob("create", "end") EXCEPT !.tag = tag]
  IN  IF reuse = {} THEN Start(p, [job EXCEPT !.pc = "mint"])
      ELSE \E id \in reuse : Start(p, [job EXCEPT !.id = id])

\* A lone release suits a bare commit and its own tag.
NeedsDisambiguation(candidates, tag) ==
  \A id \in candidates : candidates = {id} => tag \notin {NoTag, store[id].tag}

\* pick_release_or_create: one of them, or a new one.
PickReleaseOrCreate(p, candidates, job) ==
  \/ \E id \in candidates : Start(p, [job EXCEPT !.id = id, !.asked = TRUE])
  \/ Start(p, [job EXCEPT !.pc = "mint", !.asked = TRUE])

\* resolve_register_target: the release is named, or there is none to choose from,
\* or one that suits; else the user is asked.
StartRegister(p, tag, cids) ==
  \E allAuthors \in BOOLEAN :
    LET candidates == Visible(allAuthors)
        job == [NewJob("register", "register") EXCEPT !.tag = tag, !.cids = cids, !.left = cids]
    IN  \/ \E id \in Existing : Start(p, [job EXCEPT !.id = id, !.asked = TRUE])
        \/ candidates = {} /\ Start(p, [job EXCEPT !.pc = "mint"])
        \/ /\ candidates # {}
           /\ IF NeedsDisambiguation(candidates, tag)
              THEN PickReleaseOrCreate(p, candidates, job)
              ELSE \E id \in candidates : Start(p, [job EXCEPT !.id = id])

\* Releases::create.
Mint(p) ==
  LET job == proc[p]
      id == 1 + Max(Existing \cup {0})
  IN  /\ At(p, "mint") /\ id \in Id
      /\ Sign(id, [creator |-> Local, tag |-> job.tag, carries |-> {}, urls |-> {}])
      /\ proc' = [proc EXCEPT ![p].id = id, ![p].wrote = TRUE,
                    ![p].pc = IF job.cmd = "create" THEN "end" ELSE "register"]
      /\ UNCHANGED <<seeded, history>>

\* One artifact, one transaction; with --seed they are seeded once all are in.
Register(p, cid) ==
  LET job == proc[p]
  IN  /\ At(p, "register") /\ cid \in job.left
      /\ Sign(job.id, [store[job.id] EXCEPT !.carries = @ \cup {cid}])
      /\ \/ /\ job.left # {cid}
            /\ proc' = [proc EXCEPT ![p].left = @ \ {cid}, ![p].wrote = TRUE]
         \/ /\ job.left = {cid}
            /\ \E seed \in BOOLEAN :
                 proc' = [proc EXCEPT ![p].pc = IF seed THEN "seed" ELSE "end",
                            ![p].left = IF seed THEN job.cids ELSE {}, ![p].wrote = TRUE]
      /\ UNCHANGED <<seeded, history>>

\* resolve_target_release: --release names any release; of a revision the user
\* gets the visible one, or picks among them.
StartEdit(p) ==
  \E id \in Existing : Start(p, [NewJob("edit", "edit") EXCEPT !.id = id])

\* location add and remove; attest, redact and the metadata commands, whose checks
\* ReleaseReplicas has, write what does not count here.  A location of the scheme
\* of old is refused.
Edit(p) ==
  LET job == proc[p]
      release == store[job.id]
      edited ==
        {[release EXCEPT !.urls = @ \cup {at}] : at \in release.carries \X ByHand}
        \cup {[release EXCEPT !.urls = @ \ {at}] : at \in release.urls}
  IN  /\ At(p, "edit")
      /\ \E after \in edited \cup {release} :
           /\ Sign(job.id, after)
           /\ loose' = (loose \/ after # release)
      /\ proc' = [proc EXCEPT ![p].pc = "end", ![p].wrote = TRUE]
      /\ UNCHANGED <<seeded, doubled>>

-----------------------------------------------------------------------------
\* seed_artifact: --release names any release, or it is the newest with the CID.
StartSeed(p, cid) ==
  \E id \in Existing :
    \E named \in BOOLEAN :
      /\ ~named => Carrying(cid) # {} /\ id = Max(Carrying(cid))
      /\ Start(p, [NewJob("seed", "seed") EXCEPT !.id = id, !.cids = {cid}, !.left = {cid}])

\* run_fetch and run_download with --seed: the primary release is the newest with
\* the CID, or one of the commit that was asked for.
StartFetch(p, cid) ==
  \E id \in Carrying(cid) :
    Start(p, [NewJob("fetch", "seed") EXCEPT !.id = id, !.cids = {cid}, !.left = {cid}])

\* The node has the bytes and sets the tag.
SeedTag(p) ==
  \E cid \in proc[p].left :
    /\ At(p, "seed")
    /\ seeded' = seeded \cup {<<proc[p].id, cid>>}
    /\ proc' = [proc EXCEPT ![p].pc = "locate", ![p].seen = {cid}]
    /\ UNCHANGED <<store, unannounced, history>>

\* Mutant: the replay keeps locations of artifacts nobody registered.
LocatedAnyway(release, cid) == [release EXCEPT !.urls = @ \cup {<<cid, "current">>}]

\* The release it is signed into may not carry the CID: the replay ignores it.
Located(release, cid) ==
  IF cid \in release.carries
  THEN [release EXCEPT !.urls = @ \cup {<<cid, "current">>}] ELSE release

NextToSeed(p, cid) ==
  [proc EXCEPT ![p].left = @ \ {cid}, ![p].seen = {},
               ![p].pc = IF proc[p].left = {cid} THEN "end" ELSE "seed"]

\* add_location, add_seed_location.
AddLocation(p) ==
  LET job == proc[p]
  IN  \E cid \in job.seen :
        /\ At(p, "locate")
        /\ Sign(job.id, Located(store[job.id], cid))
        /\ proc' = [NextToSeed(p, cid) EXCEPT ![p].wrote = TRUE]
        /\ loose' = (loose \/ cid \notin store[job.id].carries)
        /\ UNCHANGED <<seeded, doubled>>

\* --no-location.
KeepLocal(p) ==
  \E cid \in proc[p].seen :
    /\ At(p, "locate") /\ proc[p].cmd = "seed"
    /\ proc' = NextToSeed(p, cid)
    /\ loose' = TRUE
    /\ UNCHANGED <<store, seeded, unannounced, doubled>>

\* The client gives up after 300 s, the handler of the node does not.
SeedTimesOut(p) ==
  \E cid \in proc[p].left :
    /\ At(p, "seed")
    /\ seeded' = seeded \cup {<<proc[p].id, cid>>}
    /\ proc' = [proc EXCEPT ![p] = Idle]
    /\ loose' = TRUE
    /\ UNCHANGED <<store, unannounced, doubled>>

-----------------------------------------------------------------------------
\* What --release names, or the user picks of the releases that carry the CID; or
\* all of them.
UnseedScope == Existing \cup {0}

\* unseed_artifact.
StartUnseed(p, cid) ==
  \E id \in UnseedScope :
    Start(p, [NewJob("unseed", "unseed") EXCEPT !.id = id, !.cids = {cid}])

\* What a reconcile under way still may take for seeded all the time.
Forget(jobs) ==
  [q \in Proc |-> IF jobs[q] = Idle THEN Idle
                  ELSE [jobs[q] EXCEPT !.held = @ \cap {tag[2] : tag \in seeded'}]]

Unseed(p) ==
  LET job == proc[p]
  IN  /\ At(p, "unseed")
      /\ seeded' = {tag \in seeded : tag[2] \in job.cids => job.id \notin {0, tag[1]}}
      /\ \/ /\ proc' = Forget([proc EXCEPT ![p].pc = "targets"])
            /\ UNCHANGED loose
         \* No answer within 30 s.
         \/ /\ proc' = Forget([proc EXCEPT ![p] = Idle])
            /\ loose' = TRUE
      /\ UNCHANGED <<store, unannounced, doubled>>

\* Mutant: the newest release stands for all of them.
TargetsNewest(p) ==
  LET job == proc[p]
  IN  /\ At(p, "targets")
      /\ proc' = [proc EXCEPT ![p].pc = "sweep",
           ![p].add = IF job.id # 0 THEN {job.id} \X job.cids
                      ELSE {row \in Id \X job.cids :
                              Carrying(row[2]) # {} /\ row[1] = Max(Carrying(row[2]))}]
      /\ UNCHANGED <<store, seeded, unannounced, history>>

\* The releases to sweep are looked up only now.
Targets(p) ==
  LET job == proc[p]
  IN  /\ At(p, "targets")
      /\ proc' = [proc EXCEPT ![p].pc = "sweep",
           ![p].add = IF job.id # 0 THEN {job.id} \X job.cids
                      ELSE {row \in Id \X job.cids : row[1] \in Carrying(row[2])}]
      /\ UNCHANGED <<store, seeded, unannounced, history>>

\* What cannot be done is passed over with a warning, and the command goes on.
PassOver(p, jobs) ==
  /\ proc' = [jobs EXCEPT ![p].lone = FALSE]
  /\ UNCHANGED <<store, unannounced>>

\* One location less, in a transaction of its own.
RemoveLocation(p, row, jobs) ==
  /\ Sign(row[1], [store[row[1]] EXCEPT !.urls = @ \ {<<row[2], row[3]>>}])
  /\ proc' = [jobs EXCEPT ![p].wrote = TRUE]

\* The next release, and what of it is to go: all locations of the user but those
\* of the old scheme.
OpenToSweep(p) ==
  \E row \in proc[p].add :
    LET gone == store[row[1]].urls \cap ({row[2]} \X {"current", "foreign"})
        opened == [proc EXCEPT ![p].add = @ \ {row}]
    IN  /\ At(p, "sweep") /\ proc[p].remove = {}
        /\ \/ /\ proc' = [opened EXCEPT ![p].remove = {<<row[1], at[1], at[2]>> : at \in gone}]
              /\ UNCHANGED <<store, unannounced, loose>>
           \/ PassOver(p, opened) /\ loose' = TRUE
        /\ UNCHANGED <<seeded, doubled>>

Sweep(p) ==
  \E row \in proc[p].remove :
    LET done == [proc EXCEPT ![p].remove = @ \ {row}]
    IN  /\ At(p, "sweep")
        /\ \/ RemoveLocation(p, row, done) /\ UNCHANGED loose
           \/ PassOver(p, done) /\ loose' = TRUE
        /\ UNCHANGED <<seeded, doubled>>

Swept(p) ==
  /\ At(p, "sweep") /\ proc[p].add = {} /\ proc[p].remove = {}
  /\ proc' = [proc EXCEPT ![p].pc = "end"]
  /\ UNCHANGED <<store, seeded, unannounced, history>>

-----------------------------------------------------------------------------
StartReconcile(p) == Start(p, NewJob("reconcile", "list"))

\* Mutant: a node that does not answer has nothing seeded.
ListSeededOrNothing(p) ==
  /\ At(p, "list")
  /\ \E seen \in {Seeded, {}} :
       proc' = [proc EXCEPT ![p].pc = "compare", ![p].seen = seen, ![p].held = Seeded]
  /\ UNCHANGED <<store, seeded, unannounced, history>>

ListSeeded(p) ==
  /\ At(p, "list")
  /\ proc' = [proc EXCEPT ![p].pc = "compare", ![p].seen = Seeded, ![p].held = Seeded]
  /\ UNCHANGED <<store, seeded, unannounced, history>>

\* find_missing: what is seeded and not advertised, in the newest release with it;
\* what no release carries is only reported.
FindMissing(cids) ==
  {row \in Id \X (cids \ Advertised) :
     Carrying(row[2]) # {} /\ row[1] = Max(Carrying(row[2]))}

\* classify_locations: of those to this node the orphaned, if it was asked for
\* their artifacts or all of them; of the others, if it was asked for all.
Removable(cids, all, listed) ==
  {row \in Id \X Cid \X Url :
     /\ row[1] \in Existing /\ <<row[2], row[3]>> \in store[row[1]].urls
     /\ IF row[3] = "current" THEN row[2] \notin cids /\ (all \/ row[2] \in listed) ELSE all}

\* reconcile_one: both by one snapshot of the releases.
Compare(p) ==
  \E all \in BOOLEAN, listed \in SUBSET Cid :
    LET remove == Removable(proc[p].seen, all, listed)
    IN  /\ At(p, "compare")
        /\ proc' = [proc EXCEPT ![p].pc = "rows", ![p].seen = {},
             ![p].add = FindMissing(proc[p].seen), ![p].remove = remove,
             ![p].lone = @ /\ all,
             ![p].held = @ \cap {row[2] : row \in {r \in remove : r[3] = "current"}}]
        /\ UNCHANGED <<store, seeded, unannounced, history>>

AddRow(p) ==
  \E row \in proc[p].add :
    LET done == [proc EXCEPT ![p].add = @ \ {row}]
    IN  /\ At(p, "rows")
        /\ \/ /\ Sign(row[1], Located(store[row[1]], row[2]))
              /\ proc' = [done EXCEPT ![p].wrote = TRUE]
           \/ PassOver(p, done)
        /\ UNCHANGED <<seeded, history>>

\* After all additions, and the orphans before the stale ones.
RemoveRow(p) ==
  \E row \in proc[p].remove :
    LET done == [proc EXCEPT ![p].remove = @ \ {row}]
    IN  /\ At(p, "rows") /\ proc[p].add = {}
        /\ row[3] # "current" => \A other \in proc[p].remove : other[3] # "current"
        /\ RemoveLocation(p, row, done) \/ PassOver(p, done)
        /\ UNCHANGED <<seeded, history>>

\* It announces nothing.  A full one that nothing disturbed has mended the drift,
\* but where it advertises an artifact in another release than it is tagged for.
ReconcileDone(p) ==
  LET job == proc[p]
  IN  /\ At(p, "rows") /\ job.add = {} /\ job.remove = {}
      /\ proc' = [proc EXCEPT ![p] = Idle]
      /\ loose' = IF job.lone THEN ~Matched ELSE loose
      /\ UNCHANGED <<store, seeded, unannounced, doubled>>

-----------------------------------------------------------------------------
\* fetch and download announce nothing, though CONTEXT.md has every write of an
\* object announced; a create that reused a release and an unseed that removed
\* nothing have nothing to announce.
Announces(job) == job.wrote /\ job.cmd # "fetch"

End(p) ==
  /\ At(p, "end")
  /\ proc' = [proc EXCEPT ![p] = Idle]
  /\ \/ /\ Announces(proc[p])
        /\ unannounced' = FALSE
     \/ ~Announces(proc[p]) /\ UNCHANGED unannounced
  /\ UNCHANGED <<store, seeded, loose, doubled>>

\* --no-announce; also a step that fails, or the user interrupts the command.
Abort(p) ==
  /\ p \in Running
  /\ proc' = [proc EXCEPT ![p] = Idle]
  /\ loose' = (loose \/ proc[p].pc \in {"locate", "targets", "sweep", "rows"})
  /\ UNCHANGED <<store, seeded, unannounced, doubled>>

\* A release of somebody else arrives.
Sync(id) ==
  /\ store[id] = Absent
  /\ \E release \in Theirs : store' = [store EXCEPT ![id] = release]
  /\ proc' = Disturbed
  /\ UNCHANGED <<seeded, unannounced, history>>

Step(p) ==
  \/ Mint(p) \/ SeedTag(p) \/ AddLocation(p) \/ KeepLocal(p) \/ SeedTimesOut(p)
  \/ Unseed(p) \/ Targets(p) \/ OpenToSweep(p) \/ Sweep(p) \/ Swept(p)
  \/ ListSeeded(p) \/ Compare(p) \/ AddRow(p) \/ RemoveRow(p) \/ ReconcileDone(p)
  \/ Edit(p) \/ End(p) \/ \E cid \in Cid : Register(p, cid)

Begin(p) ==
  \/ \E tag \in Ref :
       \/ StartCreate(p, tag)
       \/ \E cids \in Plans : StartRegister(p, tag, cids)
  \/ \E cid \in Cid : StartSeed(p, cid) \/ StartFetch(p, cid) \/ StartUnseed(p, cid)
  \/ StartReconcile(p) \/ StartEdit(p)

Next ==
  \/ \E p \in Proc : Begin(p) \/ (p \in Running /\ (Step(p) \/ Abort(p)))
  \/ \E id \in Id : Sync(id)

Spec == Init /\ [][Next]_vars
-----------------------------------------------------------------------------
\* Types, and locations only of artifacts the release carries.
TypeOK ==
  /\ store \in [Id -> Release \cup {Absent}]
  /\ \A id \in Existing : \A at \in store[id].urls : at[1] \in store[id].carries
  /\ seeded \subseteq Id \X Cid
  /\ proc \in [Proc -> Job \cup {Idle}]

\* Create is idempotent and register places an artifact in the release that is
\* there: the user gets two releases of one tag, or of the bare commit, only by
\* running two commands at a time or by asking for a new release.
OneReleasePerTag ==
  ~doubled =>
    \A a, b \in Existing :
      store[a].creator = Local /\ store[b].creator = Local /\ store[a].tag = store[b].tag => a = b

\* Commands that run one at a time and succeed, without a warning of a location
\* they had to leave, keep node and releases in step; whatever else took them
\* apart, a full reconcile brings them back: the artifacts advertised from this
\* node are those it has tagged and a release carries.
InStep ==
  ~loose /\ Running = {} => Advertised = {cid \in Seeded : Carrying(cid) # {}} /\ Stale = {}

\* A reconcile works on snapshots while others seed and unseed, and still takes
\* away no location to this node of an artifact that was seeded ever since it asked.
RetractsNothingSeeded ==
  [][\A p \in Proc, id \in Id, cid \in Cid :
       /\ proc[p] # Idle /\ proc[p].pc = "rows" /\ proc'[p] # proc[p]
       /\ id \in Existing /\ <<cid, "current">> \in store[id].urls
       /\ <<cid, "current">> \notin store'[id].urls
       => cid \notin proc[p].held]_vars
================================================================================
