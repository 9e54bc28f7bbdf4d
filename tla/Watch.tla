-------------------------------- MODULE Watch --------------------------------
(***************************************************************************)
(* rad-artifact watch: one thread that keeps a node's seeded set in step   *)
(* with what trusted peers register in one repository (watch.rs of the     *)
(* library decides, watch.rs of the command acts).  Around it, peers write *)
(* releases, the user seeds and unseeds, and the watcher may be killed.    *)
(*                                                                         *)
(* A release is its timestamp.  A standing is what Trust::check says of an *)
(* artifact in a release, with the reason of a refusal kept apart.  The    *)
(* user's own seed and unseed commands take one step each.                 *)
(***************************************************************************)
EXTENDS Integers, FiniteSetsExt

CONSTANTS
  Release,     \* releases, by timestamp
  Cid,         \* artifacts
  Size,        \* Size[cid]: the bytes of an artifact
  Hint,        \* Hint[cid]: its sizeBytes metadata, or NoHint
  NoHint,
  Budget,      \* --budget, or NoBudget
  NoBudget,
  MaxCrashes   \* how often the watcher is killed

ASSUME WatchAssumption ==
  /\ Release \subseteq Nat
  /\ Size \in [Cid -> Nat] /\ Hint \in [Cid -> Nat \cup {NoHint}]
  /\ Budget \in Nat \cup {NoBudget}
  /\ MaxCrashes \in Nat

VARIABLES
  standing,     \* standing[release][cid], in our copy of the repository: "absent",
                \* "trusted", "stranger" or "withdrawn"
  provided,     \* artifacts with a location that is not ours
  tags,         \* the node's seeded tags
  located,      \* where our own location is in the COB
  pending,      \* a location the watcher wrote is not announced
  watcher,      \* the thread
  unannounced,  \* its Ctx::unannounced
  watched,      \* history: what it fetched and still seeds
  crashes       \* how often it was killed

watchVars == <<standing, provided, tags, located, pending, watcher, unannounced,
          watched, crashes>>

world == <<standing, provided>>

Want == [release : Release, cid : Cid]

Idle == [pc |-> "idle", sweep |-> FALSE]
Down == [pc |-> "down", sweep |-> FALSE]

Seeded == {tag.cid : tag \in tags}

SizeOf(cids) == MapThenSumSet(LAMBDA cid : Size[cid], cids)

\* store_size: a CID under several releases counts once.
Bytes == SizeOf(Seeded)

Carrying(view, cid) == {release \in Release : view[release][cid] # "absent"}

\* wanted: the newest release that carries a CID decides, trusted or not.
Wanted(view, held) ==
  {want \in Want :
     /\ Carrying(view, want.cid) # {}
     /\ want.release = Max(Carrying(view, want.cid))
     /\ view[want.release][want.cid] = "trusted"
     /\ want.cid \notin held}

Fits(hint) ==
  \/ Budget = NoBudget
  \/ Budget # NoBudget /\ (IF hint = NoHint THEN Bytes < Budget ELSE Bytes + hint <= Budget)

WatchInit ==
  /\ standing = [release \in Release |-> [cid \in Cid |-> "absent"]]
  /\ provided = {} /\ tags = {} /\ located = {} /\ watched = {}
  /\ pending = FALSE /\ unannounced = FALSE /\ crashes = 0
  /\ watcher = Idle

WatcherAt(pc) == watcher.pc = pc

-----------------------------------------------------------------------------
\* Peers: registrations, withdrawals and locations arrive.
Publish(release, cid, as) ==
  /\ standing[release][cid] = "absent"
  /\ standing' = [standing EXCEPT ![release][cid] = as]
  /\ UNCHANGED <<provided, tags, located, pending, watcher, unannounced, watched, crashes>>

Withdraw(release, cid) ==
  /\ standing[release][cid] = "trusted"
  /\ standing' = [standing EXCEPT ![release][cid] = "withdrawn"]
  /\ UNCHANGED <<provided, tags, located, pending, watcher, unannounced, watched, crashes>>

\* One that goes away again is a fetch that fails.
Provide(cid) ==
  /\ provided' = provided \cup {cid}
  /\ UNCHANGED <<standing, tags, located, pending, watcher, unannounced, watched, crashes>>

\* rad-artifact seed: the user's own choice, trusted or not.
Seed(want) ==
  /\ standing[want.release][want.cid] # "absent"
  /\ tags' = tags \cup {want} /\ located' = located \cup {want}
  /\ UNCHANGED <<world, pending, watcher, unannounced, watched, crashes>>

\* rad-artifact unseed --cid: tags, locations, and an announcement, which
\* carries every write not announced so far and may fail.
Unseed(cid) ==
  /\ cid \in Seeded
  /\ tags' = {tag \in tags : tag.cid # cid}
  /\ located' = {want \in located : want.cid # cid}
  /\ watched' = watched \ {cid}
  /\ pending' \in {pending, FALSE}
  /\ UNCHANGED <<world, watcher, unannounced, crashes>>

-----------------------------------------------------------------------------
\* process_repo takes a snapshot of the releases: for a sweep that is due, or
\* for an event that says a release moved.
StartPass(sweep) ==
  /\ WatcherAt("idle")
  /\ watcher' = [pc |-> "list", sweep |-> sweep, standing |-> standing, provided |-> provided]
  /\ UNCHANGED <<world, tags, located, pending, unannounced, watched, crashes>>

Pass(queue, wrote) ==
  [pc |-> "pass", sweep |-> watcher.sweep, provided |-> watcher.provided,
   queue |-> queue, wrote |-> wrote]

\* A pass that found nothing to do, and one that could not be done.
Nothing == Pass({}, FALSE)

\* list_seeded, then one look at the store: a full one ends the pass.
ListSeeded ==
  /\ WatcherAt("list")
  /\ watcher' = IF Budget # NoBudget /\ Bytes >= Budget THEN Nothing
                ELSE Pass(Wanted(watcher.standing, Seeded), FALSE)
  /\ UNCHANGED <<world, tags, located, pending, unannounced, watched, crashes>>

\* The node does not answer.
ListFails ==
  /\ WatcherAt("list")
  /\ watcher' = Nothing
  /\ UNCHANGED <<world, tags, located, pending, unannounced, watched, crashes>>

\* The next of the queue: newest release first, a release's artifacts in the
\* order of their registration, which may be any.
Foremost(want) ==
  /\ WatcherAt("pass") /\ want \in watcher.queue
  /\ \A other \in watcher.queue : other.release <= want.release

Fetching(want) ==
  [pc |-> "fetch", sweep |-> watcher.sweep, provided |-> watcher.provided,
   queue |-> watcher.queue \ {want}, wrote |-> watcher.wrote, want |-> want]

\* Mutant: the store's size is read once a pass.
BeginUnchecked(want) ==
  /\ Foremost(want) /\ want.cid \in watcher.provided
  /\ watcher' = Fetching(want)
  /\ UNCHANGED <<world, tags, located, pending, unannounced, watched, crashes>>

\* seed: the size is read again for each artifact, the locations come from the
\* snapshot.
Begin(want) ==
  /\ Foremost(want) /\ want.cid \in watcher.provided /\ Fits(Hint[want.cid])
  /\ watcher' = Fetching(want)
  /\ UNCHANGED <<world, tags, located, pending, unannounced, watched, crashes>>

\* Mutant: an artifact that cannot be fetched ends the pass.
SkipAbandons(want) ==
  /\ Foremost(want)
  /\ want.cid \notin watcher.provided \/ ~Fits(Hint[want.cid])
  /\ watcher' = [watcher EXCEPT !.queue = {}]
  /\ UNCHANGED <<world, tags, located, pending, unannounced, watched, crashes>>

\* No room for it, or nowhere to fetch it from.
Skip(want) ==
  /\ Foremost(want)
  /\ want.cid \notin watcher.provided \/ ~Fits(Hint[want.cid])
  /\ watcher' = [watcher EXCEPT !.queue = @ \ {want}]
  /\ UNCHANGED <<world, tags, located, pending, unannounced, watched, crashes>>

\* The node fetched and tagged it; heard is whether its answer came in time.
Fetched(want, heard) ==
  /\ WatcherAt("fetch") /\ want = watcher.want
  /\ tags' = tags \cup {want} /\ watched' = watched \cup {want.cid}
  /\ watcher' = [watcher EXCEPT !.pc = IF heard THEN "locate" ELSE "pass"]
  /\ UNCHANGED <<world, located, pending, unannounced, crashes>>

\* A warning; the pass goes on.
FetchFails ==
  /\ WatcherAt("fetch")
  /\ watcher' = [watcher EXCEPT !.pc = "pass"]
  /\ UNCHANGED <<world, tags, located, pending, unannounced, watched, crashes>>

\* add_seed_location: one signed write.
AddSeedLocation ==
  /\ WatcherAt("locate")
  /\ located' = located \cup {watcher.want} /\ pending' = TRUE
  /\ watcher' = [watcher EXCEPT !.pc = "pass", !.wrote = TRUE]
  /\ UNCHANGED <<world, tags, unannounced, watched, crashes>>

LocationFails ==
  /\ WatcherAt("locate")
  /\ watcher' = [watcher EXCEPT !.pc = "pass"]
  /\ UNCHANGED <<world, tags, located, pending, unannounced, watched, crashes>>

Flushing(sweep, rounds) == [pc |-> "flush", sweep |-> sweep, rounds |-> rounds]

\* Mutant: only a pass that wrote announces.
EndPassQuiet ==
  /\ WatcherAt("pass") /\ watcher.queue = {}
  /\ unannounced' = (unannounced \/ watcher.wrote)
  /\ watcher' = IF watcher.wrote THEN Flushing(watcher.sweep, 1) ELSE Idle
  /\ UNCHANGED <<world, tags, located, pending, watched, crashes>>

\* A pass that wrote announces, and so does every sweep when it is over.
EndPass ==
  LET rounds == (IF watcher.wrote THEN 1 ELSE 0) + (IF watcher.sweep THEN 1 ELSE 0)
  IN  /\ WatcherAt("pass") /\ watcher.queue = {}
      /\ unannounced' = (unannounced \/ watcher.wrote)
      /\ watcher' = IF rounds > 0 THEN Flushing(watcher.sweep, rounds) ELSE Idle
      /\ UNCHANGED <<world, tags, located, pending, watched, crashes>>

AfterFlush == IF watcher.rounds > 1 THEN Flushing(watcher.sweep, 1) ELSE Idle

\* flush_announcements.
Announce ==
  /\ WatcherAt("flush")
  /\ unannounced' = FALSE
  /\ pending' = (pending /\ ~unannounced)
  /\ watcher' = AfterFlush
  /\ UNCHANGED <<world, tags, located, watched, crashes>>

AnnounceFails ==
  /\ WatcherAt("flush") /\ unannounced
  /\ watcher' = AfterFlush
  /\ UNCHANGED <<world, tags, located, pending, unannounced, watched, crashes>>

\* The supervisor starts it again, with nothing of what it remembered.
Crash ==
  /\ ~WatcherAt("down") /\ crashes < MaxCrashes
  /\ watcher' = Down /\ unannounced' = FALSE /\ crashes' = crashes + 1
  /\ UNCHANGED <<world, tags, located, pending, watched>>

Restart ==
  /\ WatcherAt("down")
  /\ watcher' = Idle
  /\ UNCHANGED <<world, tags, located, pending, unannounced, watched, crashes>>

-----------------------------------------------------------------------------
Work ==
  \/ ListSeeded \/ ListFails
  \/ \E want \in Want : Begin(want) \/ Skip(want)
  \/ \E want \in Want, heard \in BOOLEAN : Fetched(want, heard)
  \/ FetchFails \/ AddSeedLocation \/ LocationFails
  \/ EndPass \/ Announce \/ AnnounceFails \/ Restart

WatchNext ==
  \/ \E release \in Release, cid \in Cid :
       \/ \E as \in {"trusted", "stranger"} : Publish(release, cid, as)
       \/ Withdraw(release, cid)
       \/ Seed([release |-> release, cid |-> cid])
  \/ \E cid \in Cid : Provide(cid) \/ Unseed(cid)
  \/ \E sweep \in BOOLEAN : StartPass(sweep)
  \/ Work
  \/ Crash

WatchSpec == WatchInit /\ [][WatchNext]_watchVars

\* The thread keeps moving.  A sweep that is due wins over events (drain), so
\* no stream of them keeps it away.  What is tried again and again, a question
\* to the node, a fetch from a location that is listed, an announcement,
\* works in the end.
FairWatchSpec ==
  /\ WatchSpec
  /\ WF_watchVars(Work)
  /\ SF_watchVars(StartPass(TRUE))
  /\ SF_watchVars(ListSeeded)
  /\ \A want \in Want : SF_watchVars(Fetched(want, TRUE))
  /\ SF_watchVars(Announce /\ unannounced)

-----------------------------------------------------------------------------
\* There was room for an artifact beside others, as far as its hint said.
RoomBeside(cids, cid) ==
  IF Hint[cid] = NoHint THEN SizeOf(cids) < Budget ELSE SizeOf(cids) + Hint[cid] <= Budget

\* The budget (watch.rs, fits): what the watcher put into the store and nobody
\* took out again stays within it, but for one artifact, begun while there was
\* room, that has no size hint or one that understates its size.  The user may
\* seed beside it, and the thread may be killed at any time.
BudgetHolds ==
  Budget # NoBudget =>
    \/ SizeOf(watched) <= Budget
    \/ \E cid \in watched :
         /\ Hint[cid] # NoHint => Hint[cid] < Size[cid]
         /\ RoomBeside(watched \ {cid}, cid)

\* Newest is trusted, has a location and fits: there is no reason not to.
Deserves(cid) ==
  /\ Carrying(standing, cid) # {}
  /\ standing[Max(Carrying(standing, cid))][cid] = "trusted"
  /\ cid \in provided /\ Fits(Hint[cid])

\* A full sweep "covers anything that landed while either process was down"
\* (README): whatever fails on the way, no trusted artifact that can be
\* fetched and fits stays unseeded for ever.
TrustedGetsSeeded ==
  \A cid \in Cid : ~ <>[](Deserves(cid) /\ cid \notin Seeded)

\* "a lost announcement never comes back on its own: hold the repository here
\* until one succeeds" (Ctx::unannounced).  A killed watcher forgets it.
LocationsGetAnnounced == pending ~> (~pending \/ crashes > 0)

\* "a release or artifact from a stranger is skipped" (wanted): what strangers
\* registered does not change what is wanted.
WithoutStrangers ==
  [release \in Release |-> [cid \in Cid |->
     IF standing[release][cid] = "stranger" THEN "absent" ELSE standing[release][cid]]]

StrangersAreSkipped == Wanted(standing, Seeded) = Wanted(WithoutStrangers, Seeded)
=============================================================================
