# A verification of radicle-artifact

radicle-artifact publishes build artifacts on Radicle: a *release* is a
collaborative object (COB) in a repository, replicated through git; it lists
artifacts by content identifier (CID), who vouches for them, and where their
bytes can be fetched. A daemon holds the bytes in an iroh-blobs store and serves
them. This directory specifies that system in TLA+: models that TLC checks on
small instances, and proofs that TLAPS checks for every instance.

Paths below are relative to `src/crates/` unless they start with `tla/`.

## The system

| Part | State | Operations | Where it is hard |
|---|---|---|---|
| Release object, `radicle-artifact/src/lib.rs` 180-654 | creator, artifacts with locations, attestations, redactions, metadata writes | `Release::action`, one per `Action`; replay by `from_root` and `op` | anybody may sign anything; concurrent operations are replayed in an order the signers did not choose |
| Trust and filters, `trust.rs`, `filters.rs` | none | `Trust::check`, `withdrawals`, `metadata`, `Filters` | four readers (list, show, verify, watch) must draw one line |
| Signing API, `lib.rs` 1182-1613 and `bin/rad-artifact/main.rs` | the signer's replica and refs | create, register, locations, attest, redact, metadata, remove | checks hold on the signer's replica only |
| SQLite cache, `lib.rs` 1017-1175, `cache.rs` | rows with freshness tokens, a CID index | refresh, list, get, find, locations, fallback to git | several processes; git moves between the ref walk and the materialisation |
| Node, `radicle-artifact-node/src/` `node.rs`, `seeder.rs`, `fetch.rs` | blobs, seeded tags, temp tags, handlers | seed, unseed, fetch, download, export, has, status | handlers side by side, a garbage collector, clients that hang up, a daemon that is killed |
| Export staging, `fetch.rs` 195-371, `node.rs` 440-560 | the destination, its staging sibling, frames on the wire | export and download of blobs and collections | several exports to one path, a kill between two file operations, a client that leaves |
| Node lifecycle, `node.rs` 113-216, `lifecycle.rs`, `bin/rad-artifact/node.rs` | socket file, store lock, connections, child process | start, probe, stop, drain | stale sockets, two starts, start-up timeouts |
| Watch, `watch.rs`, `bin/rad-artifact/watch.rs` | the pass, the unannounced repositories | sweep, event, seed, announce | failing steps, snapshots, a budget, crashes |
| Commands, `bin/rad-artifact/` `main.rs`, `node.rs` | none of their own: releases, the node's tags, what was announced | create, register, location, seed, fetch, download, unseed | several terminals, a command that stops half way |
| Reconcile, `bin/rad-artifact/reconcile.rs` | none | compare tags and locations, repair | snapshots that go stale |
| Client and protocol, `radicle-artifact-client`, `radicle-artifact-core` | a connection | one command each, streamed progress | idle timeouts |
| Discovery index, identifiers, display, prompts | none or derived | pure functions | |

How they interact: the commands and the watcher sign operations into the
release object and send commands to the node over its socket; the node never
writes to the object. All readers of releases may go through the cache, which
only reads fill. The watcher reads releases, asks the node what it seeds, has
it fetch, and writes locations back. Reconcile compares the node's tags with
those locations. Nothing ties the three together but the order in which a
command does its steps.

`PROJECT.json` lists the components with what is modelled of each, and the
hazards at the lines where they bite.

## The modules

**Artifacts** holds the data of a release and the effect of each action as pure
operators (`Act`, `Edit`, `Register`, `Attest`, `Redact`, `WriteMetadata`, ...).
The maps the code keys by DID are functions or relations; a CID the release does
not carry maps to `Absent`. **Trust** adds the delegates and the local user and
the rules of `trust.rs` and `filters.rs`, and is used by every module that asks
who is believed.

**Release** is one replay: `creator` and `artifacts`, one action of the
specification for each action of the object (`CreateAgain`, `RegisterArtifact`,
`RegisterArtifactWithSize`, which is two actions in one operation,
`AddOrRemoveLocation`, `AttestArtifact`, `RedactArtifact`, `SetMetadata`,
`RemoveMetadata`). Any user may do any of them on any CID at any time, since the
replay checks nothing about the signer. So its behaviours are all replays of all
histories, and an invariant of Release holds whatever order the object store
picks.

**ReleaseReplicas** puts that under several peers. `ops` are the operations
signed so far with their causal past, `refs` the refs each peer has in each
namespace. A command loads a release, checks on it, perhaps asks its user, and
signs onto the tips there are by then; `loads` keeps what each user's commands
may still hold, which is everything the user has known at some time. So the
`Sign...` actions make the checks of the API and of the commands on any of that,
record it in the operation (`seen`), and commit onto what the user knows now,
where a fetch, a deletion or another terminal came in between. `Fetch` mirrors a
namespace; `RemoveRef` is `Releases::remove`, after which a user who comes back
signs concurrently to their own earlier operations. The properties quantify over
every order in which a peer may replay what it has.

**CurrentReads** is what a reader of releases is promised, without a cache: a
call is answered with what git had, object by object, at some moment between the
call and its return. An object that did not materialise meanwhile is where the
code is documented to differ from git (`lib.rs:816-819`: the cache "keeps
serving the last good copy", the git path drops it). There the promise is: it is
skipped, it is an error, or the answer is a former version that did materialise
(`good`, a history variable) and that the call asks for. Nothing else is exempt.
**ReleaseCache** is how it is done. It has the rows of the cache and readers
that are each a process or connection: the ref walk, the reading of the heads,
one materialisation and one write per stale object, the pruning, and the reading
of the rows are steps of their own, and git and other readers move in between;
the database may fail at any of them. A row of an older format does not parse:
`list` skips it, the reads of all releases fall back to git (`AskGit`). The tips
of an object are a number; materialising it yields the release of that number.
`Read(r)` maps a reader to its call in CurrentReads.

**SeedNode** has the blobs that are complete, the seeded tags, the temp tags of
each handler and what each handler does. Each call into the store is one step;
the collector, hang-ups and restarts may come between any two. A collection is a
root hash that lists members; a blob can be a member of a collection. What a URL
serves in place of a blob is imported before it is compared (`FetchUrl`).

**Exports** is what SeedNode leaves out of an export: the destination path, the
sibling that all exports to it are staged in, the guard that removes the sibling
(`ScopedPath`), and the stream on which `run_stream` reports progress and the
result to the client. Each file operation is one step, and each may fail. The old
directory at the destination is removed file by file (`RemovePart`, `Swap`), and
only then the new one renamed there; a kill or an error half way leaves what is
left of it (`torn`). A kill runs no guard.

**NodeLifecycle** has the daemons (`pc` follows `run` from the probe to the
exit), whose socket `control.sock` is, who has the store open, the connections
and the counter of handlers, and the users at `node start` with their child.
The probe of a daemon and those of a start are connections like any other.

**Commands** runs the commands of `rad-artifact` in several terminals. It keeps
apart what the node has tagged (`seeded`), which locations of the user the
releases carry (`store`) and whether something signed is not yet announced. A
command is a `Job` with a `pc`; every call to the node and every signed write is
one step; it may be interrupted, or fail, before each. After an unseed the
locations go release by release (`OpenToSweep`) and URL by URL (`Sweep`), each in
a transaction of its own; what cannot be opened or removed is passed over with a
warning, and the command still succeeds. `Compare`, `AddRow` and `RemoveRow` are
the body of reconcile.

**Watch** has one repository as the watcher sees it, the node's tags, the
locations, and the thread: the snapshot of a pass, its queue, the fetch, the
location write, the announcements. Peers publish and withdraw, the user seeds
and unseeds, every call may fail, an answer of the node may be lost, and the
watcher may be killed.

**Artifacts_proofs**, **Release_proofs**, **ReleaseReplicas_proofs**,
**ReleaseCache_proofs**, **SeedNode_proofs**, **Exports_proofs**,
**Processes_proofs** and **Commands_proofs** hold the proofs, Processes_proofs
those of the two processes that stay up, NodeLifecycle and Watch. The **MC...**
modules define the instances of the TLC runs. Operators with a comment that
starts with "Mutant" are faulty variants of the definition below them; no
specification uses them. Each shows that some property would notice the fault.

Which module composes which: Release and ReleaseReplicas extend Trust, which
extends Artifacts; ReleaseCache instantiates CurrentReads. The others meet at
their interfaces: what SeedNode takes for one step of an export is Exports, what
Exports and SeedNode take for "the daemon is killed" is an `Exit` of
NodeLifecycle, and what Watch and Commands take for one call to the node (it
tags, or it fails, or its answer is lost) is a handler of SeedNode.

Correspondence of names: actions and operators keep the names of the functions
they stand for where a function exists; `map` in `PROJECT.json` gives the lines of
each definition.

## What the runs show

| Run | Instance | Result |
|---|---|---|
| `release` | a delegate, the local user, a stranger; two bare artifacts, or one with every field | attestations are independent, redactions are permanent, one write per party, each step speaks for its signer only, no stranger changes a verdict, what passes `check` is what is listed |
| `replicas` | two peers, four operations of every kind | every replay order computes the declarative meaning of the history (`Meaning`), a redaction takes effect in all of them if its signer had lost nothing of what it was checked on, orders agree on settled operations, a write comes last on what its signer has at the commit |
| `cache_readers` | two readers, one object with two versions and absence | rows are never older than their token; `get` and every lone read are linearizable; the cache converges |
| `cache_objects` | one reader, two objects, three versions, one of them unreadable, rows of an older format, a database that fails | a lone reader implements CurrentReads: what can be read is read as git has it, what cannot is skipped, an error, or a former version that could |
| `cache_race` | two readers | violation: a read that another overlaps can be older than its call |
| `seed_node` | two handlers, two releases, a collection and a blob that shares its bytes | an acknowledged seed is whole, unseeding takes nothing from what is still seeded and misses no tag, what nobody seeds is collected, unless a fetch of it stalls for ever with its client |
| `seed_fast_path` | one handler | violation: a fetch tags an incomplete collection |
| `exports` | two connections, a blob of one chunk and a collection of two members, one destination | the destination is whole, or what the removal of an old directory has left; it is touched only with a whole replacement at hand; a receipt means that the artifact is there, nothing is left beside it, a client that leaves stops its export |
| `node_lifecycle` | two daemons, one user at `node start`, one client | one daemon serves, it can be reached while it does, it answers what it accepted, a shutdown ends |
| `commands` | two terminals, two releases, one artifact, one tag; releases of a delegate and a stranger arrive | commands that succeed without a warning keep node and releases in step, a full reconcile brings them back in step and retracts nothing that is seeded, create and register do not multiply releases |
| `watch` | one release, an artifact that does not tell its size and one that tells less than it, a budget that either of them fills, one crash | the budget holds, locations are announced, trusted artifacts are seeded |
| `watch_strangers` | two releases, one artifact | violation: a stranger's newer release hides a trusted artifact |

### Where the code and its documentation part

- *A slow reader wins* (`cache_race`). Reader A walks the refs at version 1 and
  materialises it; git moves to 2; reader B refreshes to 2; A writes its row of
  version 1; B reads the rows and answers 1, which git did not have at any time
  during B's call. The doc of `Releases` (`lib.rs:715-717`) promises that the
  next read re-materialises. The next read does, so the cache converges
  (`CacheConverges`); `get` is not affected, since it answers with what it
  materialised itself or with a row whose token matches (`GetIsCurrent`).
- *The fast path of a fetch* (`seed_fast_path`). It asks for the root hash of an
  artifact only. For a collection of which only the hash sequence is in the
  store, as a cancelled download leaves it, the fetch reports complete bytes and
  sets the tag.
- *Strangers and the watcher* (`watch_strangers`). `wanted` takes the newest
  release that carries a CID and then asks for trust. If the newest is a
  stranger's, the older trusted one is not considered.

Further observations, made while modelling, are exempted by name in the
properties or lie beside them; they have no run of their own.

- *Tips that recur.* The token of a row comes from the ref walk, the release
  from a later read. If the refs change and change back between the two and
  afterwards, the row carries the release of the moment in between under the
  token of now, and stays. This needs a ref that is deleted and fetched again,
  or deleted and restored. `Recurs = TRUE` in ReleaseCache allows it, and
  `GetIsCurrent` then fails; with tips that never recur the row is newer than its
  token, which is harmless (`RowsAreNotOlderThanTheirToken`).
- `was_new` of a seed receipt is computed from a read before the import, so two
  seeds of one pair can both report it.
- An unseed of all releases deletes its listing by tag name, so a seed of a
  listed release that lands in between is swept with it (`since` in SeedNode).
- Two exports to one destination clear, write and rename one staging path.
  A directory with part of its members can be renamed to the destination and
  still be answered with a receipt (`clashed` in Exports).
- A daemon that probes decides by the answer and removes the path afterwards. If
  the owner was slow, or bound in between, its socket is taken (`robbed` in
  NodeLifecycle; the doc of `AlreadyRunning`, `node.rs:63`, says "bail out
  instead of stealing it"). The store's lock still keeps the second one from
  serving.
- A daemon without a relay binds its socket after the 10 s of `ONLINE_TIMEOUT`;
  `node start` gives up, and kills it, after 6 s. Started that way an offline
  node never comes up; started with `--foreground` it does.
- If opening a locked store waits, a daemon that was started while another one
  ran takes over when that one is stopped: `node stop` then leaves a node running.
- `seed --release X` for an X that does not carry the CID tags it and signs a
  location that every replay ignores (`Located`).
- reconcile advertises a missing artifact in the newest release with its CID,
  which need not be the one it is tagged for; a later `unseed --release` of the
  tagged one leaves it advertised. `ReconcileDone` says when.
- fetch and download with `--seed` (`main.rs:2105-2107`, `2188-2190`) and
  reconcile (`reconcile.rs:381-452`) sign locations and announce nothing, where
  `CONTEXT.md:31` has announcing apply to every COB write, triggered
  automatically. That every write is announced is therefore no property here;
  `Announces` in Commands says which commands do.
- An export of a collection removes the old directory in place before it renames
  the new one there (`fetch.rs:332-335`). If it is killed, or the removal or the
  rename fails, part of the old directory is left, or nothing, though the doc
  (`fetch.rs:299-300`) says that such an export "never leaves a
  partially-populated destination" (`torn` in Exports). What holds is that the
  new one was complete beside it by then (`OldStaysUntilNew`).
- A redaction is checked on a release loaded before. If the refs that carry the
  registration are deleted before it is signed, it is signed and has no effect,
  and nothing tells its signer (`RedactionTakesEffect` asks for
  `ops[n].seen \subseteq ops[n].past`).
- An unseed that cannot open a release or remove a location warns and succeeds:
  the location stays, advertised but not seeded, until reconcile takes it out
  (`loose` in Commands).
- What an HTTP server sends is waited for as long as the client stays
  (`fetch.rs:19-20`, `404-406`, on purpose). A stalled fetch keeps its bytes from
  the collector meanwhile (`UnseededIsReclaimed`).
- The watcher signs its location after the node's answer. If the user unseeds the
  artifact in between, the location stays behind, advertised but not seeded,
  until reconcile takes it out (`AddSeedLocation` in Watch asks nothing about
  `tags`).

### Bounds

- Users: the code distinguishes an artifact's author, the release's creator,
  delegates, the local user and everybody else, and these roles may coincide. A
  delegate, a local user who is no delegate, and a stranger, with every
  assignment of author and creator, cover the combinations for one artifact.
  Interaction of artifacts happens only in `is_fully_redacted`, for which there
  are two. The constraint `TwoBareOrOneFull` of `release` keeps the product
  small: locations and metadata are local to an artifact, so they are combined
  with everything else on one artifact, and attestations and redactions on two.
  The theorems lift these bounds.
- `MaxOps` = 4 in `replicas`: the root, a registration and two operations that
  conflict is the shortest history in which order matters. Names are
  interchangeable, hence its symmetry; so are the two objects of
  `cache_objects`. Both runs check safety only.
- `MaxVersion` = 2 or 3: a reader holds at most two versions of an object (the
  walk's and the materialised one), a third makes room for a change after both.
  The theorems lift this bound too.
- Two readers, two handlers, two exports, two terminals: every race here is
  between a step of one and a later step of another. A collection of one member
  and a blob made of the same bytes are the least in which members are shared;
  in `exports` a collection has two members, so that there is a state in between.
  The theorems lift these bounds, but for the liveness properties.
- Two daemons and one start: a daemon that leaves, and one that comes by hand or
  as a child. The theorems lift the bound.
- `Id = {1, 2}` in `commands`: one release to reuse and one to mint or to arrive.
  `Overlaps` says which commands run side by side: those that make releases
  (create, register), and those that touch the node's tags (seed, fetch, unseed,
  reconcile). The two groups meet in the releases only, and within one release a
  signed write is atomic. `Theirs` are the releases of others that may arrive, one
  of a delegate and one of a stranger; `ByHand` the locations a user adds by hand.
- `Budget` = 2 in `watch`, with an artifact of size 2 without a hint and one of
  size 3 whose hint says 1: each fills the store, the second overshoots, and the
  other is then refused in the same pass or at the look at the store that
  precedes it. `WatchKeepsBudget` lifts all of these numbers.
- `MaxCrashes` = 1 in `watch`; kills in `seed_node`, `exports` and
  `node_lifecycle` are not bounded.

`Spec` of the replicas run may stop: when every peer deleted its ref nobody has
the release and nothing can happen. Hence `CHECK_DEADLOCK FALSE` there, and
only there.

### Fairness

- ReleaseCache: a read that was begun goes on (weak fairness of each reader's
  steps). Nothing makes anybody begin one; `CacheConverges` assumes that
  refreshes keep completing.
- SeedNode: seeds and unseeds are tasks of a tokio executor that work on local
  files and tags, so their steps are weakly fair, and so is the collector, which
  runs every `GC_INTERVAL`. Nothing makes a fetch, download or export go on: an
  HTTP body that stops half way is waited for as long as the client stays, and
  so is a client that stays and does not read. Clients and crashes are not fair
  either. `UnseededIsReclaimed` therefore says: a hash that from some time on no
  tag reaches and no new command is about is gone again and again (a URL may
  bring it in once more in place of something else), or else some fetch,
  download or export of it is under way for ever.
- Exports: the task that streams is polled when there is a frame to write or an
  end of stream to see, and code between two awaits comes to its end. The file
  operations in which an export waits for the disk or the store are not fair, so
  `VanishedClientStopsExport` holds although a disk may stall for ever.
- NodeLifecycle: the steps of `run` follow each other, since what waits there has
  a timeout (the probe, the relay, the drain). Handlers, clients and starts are
  not fair: `ShutdownEnds` holds with a handler that is stuck.
- Watch: the thread keeps moving (weak fairness). A sweep is strongly fair
  because `drain` returns at the deadline even on a busy event stream, so that
  events cannot keep it away. The calls that the loop repeats, listing, the
  fetch of an artifact from a listed location and an announcement, are strongly
  fair: assumptions on the environment (if tried for ever they work once), not
  on the code; the properties say that the code does try for ever.

### Abstractions

- The ref walk of `types` is one step: a walk that sees one object before and
  another after a change is covered, as objects are independent, but not one that
  sees half the tips of one object.
- iroh's collector marks and sweeps in one step, and store writes survive a
  crash. Files referenced in place and changed by the user are not modelled.
- Length limits of names, reasons and metadata, and the format of keys, are left
  out: they reject a command before it changes anything.
- In Exports a path is followed by its name. Where two exports overlap, an open
  file that was renamed under the writer is not followed; the properties that
  speak of overlaps only ask what is left at the staging path. The removal by the
  guard itself, whose errors the code ignores, is taken to succeed.
- In ReleaseCache the rows are read in one step: `cached_list` reads them by one
  SELECT, a snapshot, which is taken not to fail half way.
- NodeLifecycle has no clock: every timeout may fire at any moment, which covers
  all values of the constants in the code. What a second opener of a locked
  store gets, an error or a wait, is left open.
- In Commands all releases are of one commit, a timeout of a seed is "the tag is
  set and the answer lost", and of a location only counts whether it names this
  node, another endpoint, or uses the scheme of old. Size metadata, attestations
  and redactions do not matter there.
- In Watch the user's own seed and unseed are one step each, and other
  repositories do not share the store. Size hints are whatever their signers
  wrote.

## What is proved

### Release

`Release_proofs` proves for every set of users, artifacts, names, keys and
values, every delegate set and every local user:

- `ReleaseTypeCorrect`: `Spec => []TypeOK`
- `AttestationsStayIndependent`: `Spec => []AttestationsAreIndependent`
- `WritesStayOnePerParty`: `Spec => []OneWritePerParty`
- `RedactionsStay`: `Spec => RedactionIsPermanent`
- `ListingFollowsCheck`: `Spec => []ListingAgreesWithCheck`
- `SignersSpeakForThemselves`: `Spec => OnlyTheSignerSpeaks`
- `NoStrangerHasASay`: `Spec => StrangersHaveNoSay`

The argument: the three invariants together, `IInv`, are inductive
(`ReleaseInvariant`). None is on its own: that a redaction leaves no attestation
behind needs the types, and that removing the first write of a party removes the
only one needs that there is at most one. Every step of the specification is one
or two applications of `Act` by one user (`StepIsActs`), so it suffices that
`Act` keeps each artifact sound (`ActSound`), which `Artifacts_proofs` shows
operator by operator; `WriteMetadataProperties` carries the weight, over the
definition of `RemoveFirstMatch`. `ListingFollowsCheck` needs no invariant: it
is a fact about the operators of Trust in every typed state.

The two action properties ask what one `Act` leaves alone. An edit of an
artifact touches one party's part of it (`EditFields`); a write to the metadata
leaves the writes of every other party where they were, in their order
(`WriteFollows`), hence the trusted write, which is the last of the author or a
delegate, unless the writer is one of them (`WriteTrusted`). A stranger's
registration of a new CID leaves the verdict on the CIDs that are there, and its
attestation or redaction is not counted. An operation of two actions is followed
through the state in between.

Assumed are the named assumptions of the modules: a tombstone is no value, "no
reason" is no reason, `Absent` is no artifact (`ArtifactsAssumption`), and
delegates and the local user are users (`TrustAssumption`).

### ReleaseReplicas

`ReleaseReplicas_proofs` proves for every set of users and artifacts and every
bound on the number of operations, hence for histories of any length:

- `ReplaysMeanTheirHistory`: `Spec => []ReplayMeansHistory`
- `RedactionsTakeEffect`: `Spec => []RedactionTakesEffect`
- `SettledPeersAgree`: `Spec => []PeersAgree`
- `WritesAreLast`: `Spec => WritesComeLast`

`Replay` is a fold over a history, `History` flattens an order of operations,
`Orders` is a recursive function, and none of them can be expanded for an
unknown length. Each is first unrolled, once: were there a length at which the
fold does not go through the states it should, there would be a least one
(`LeastNumber`, from the well-foundedness of `<`), and there is none. After
that a replay is a sequence of states (`ReplayUnrolls`), a history has a place
for every action of every operation (`FlattenProperties`, `HistoryPlaces`), and
an order lists its operations once, later ones after those they build on
(`OrdersList`).

`ReplaysMeanTheirHistory` then follows the states of one replay. Before the
first registration the artifact is not there, whatever is said
(`NotBeforeRegistered`). At every place from there on the artifact tells, part
by part, what was said up to that place (`ReplayTold`): the name in the last
registration of the author, each user's locations by their last word on each,
attestations of those who attested and never redacted, the reason in the last
redaction of a user, a trusted metadata value in the last write of the author or
a delegate. Each kind of action has its lemma on how one more utterance changes
what was said (`ToldBy...`). At the end of the history that is `Meaning`, whose
`Min` and `Max` choose the first registration and the last of each kind
(`FirstIs`, `LastIs`).

`RedactionsTakeEffect` is where a history matters that the replay does not
check. A redaction that precedes every registration in some order would be lost
in that order. That there is none is not visible in the operations as they are
listed: it is because the release the redaction was checked on carried the
artifact, so that one of the operations in it registers it
(`ShownAreRegistered`), and because the redaction was signed on all of these.
The inductive invariant (`ReplicasInvariant`) is `Grounded`, which records the
first of the two, besides that operations build on earlier ones and on all that
those build on (`BuiltOn`), and `Loaded`, that what commands hold is made of
operations. What a peer holds is closed under the causal past (`KnownIsClosed`),
and every order has the registration first. Without the premise that nothing
was lost since the check the statement is false: see above.

`SettledPeersAgree` compares two orders of the same operations. If they are
settled, the utterances about the artifact in the one history are those in the
other, at other places, but those of one user in the same order and the one
registration before all (`SettledShuffles`); so the last word of each kind is
the same (`SameLast`), and with it all the artifact tells but the order of
concurrent metadata writes (`SameTelling`).

`WritesAreLast` compares the orders before a write with those after it. Whatever
the check was made on, the new operation builds on all its signer knows when it
is committed, so it comes last in every order of theirs, and what precedes it
there is an order of before (`SignedLast`); the recursion of `Orders` is
determined by its unrolling (`OrdersDetermined`), so the orders of old operations
are the same in both states. The history then ends in what the new operation
says (`FlattenAppends`), and the fold goes through it last (`ActedInTurn`).

Assumed is `ReplicasAssumption` (at least the root may be signed) besides the
assumptions of Artifacts and Trust.

### ReleaseCache

`ReleaseCache_proofs` proves for every set of readers and objects, every number
of versions and every choice of the unreadable ones, under the assumption that
tips do not recur (`~Recurs`; with it the theorems are false, see above):

- `CacheTypeCorrect`: `Spec => []TypeOK` (here the theorem alone; no run repeats
  the types)
- `RowsKeepUpWithTokens`: `Spec => []RowsAreNotOlderThanTheirToken`
- `GetThroughCacheIsCurrent`: `Spec => []GetIsCurrent`
- `LoneReadsThroughCacheAreCurrent`: `Spec => []LoneReadsAreCurrent`
- `LoneReaderReadsLikeGitOrLastGood`: with one reader,
  `Spec => ReadsLikeGitOrLastGood`, that is, ReleaseCache implements
  CurrentReads.

That a `get` is current is not a property of the row it reads alone: the row may
have been written by any other reader, at any time. The inductive invariant
(`CacheInvariant`) therefore says of every row, and of every release that some
reader is about to write, that for each reader past its ref walk it is no older
than the tips that reader found, or arrived while that reader read (`Since`). A
row whose token equals the tips a reader found is then right for that reader.
To this come, for each reader, what its history variables mean (`Tracks`), what
it holds (`Loads`, `Shape`), that a refresh nobody disturbed has left the
handled rows right (`Lone`, `Refreshed`), that finished calls answered right
(`Answers`), and that an error tells of an object that could not be read
(`Errors`). Each action has its lemma (`...Keeps`).

The refinement maps a reader to its call. Every step of a reader leaves the call
as it is, begins it, ends it, or answers it (`StepFrame`); the answering steps
are allowed by CurrentReads because of the invariant (`StepRefines`); steps of
git are the same in both (`SingleRefines`). That what stands in for a broken
object is no invention takes a second invariant, `OnceGood`: every row, and
every release a reader has materialised or answered with, is of a version that
git had and that materialised (`StepOnceGood`, `OnceGoodKept`).

### SeedNode

`SeedNode_proofs` proves for every set of handlers and artifacts, whatever
members collections have and share, and with the fast path that asks for the
root only:

- `SeedNodeTypeCorrect`: `Spec => []TypeOK`
- `AcknowledgedStaysComplete`: `Spec => []AcknowledgedIsComplete`
- `UnseedLeavesNone`: `Spec => []UnseedMissesNone`
- `SeededIsKept`: `Spec => KeptWhileSeeded`

That an acknowledged artifact is whole is about the end of a handler's way; the
bytes can be lost at every step of it. The inductive invariant
(`SeedNodeInvariant`) says for every `pc` of a handler what is protected from
the collector there (`Protected`): the files of an import by temp tags of their
own, the artifact by its temp tag from the look at the store until the answer,
and, once a download has begun to export, the parts it has read. What the
collector leaves alone is one lemma (`CollectSpares`); every other step only
adds to the store (`OnlyTheCollectorTakes`). For `UnseedLeavesNone` it says of
an unseed under way that every tag it is to delete is still on its list, or was
set after it took the list (`Listed`). Whether the bytes of a handler that took
the fast path are whole is left open, as it is in the code: `fromCache` exempts
it here as in the property, and `seed_fast_path` shows why.

Assumed is `SeedNodeAssumption`: different CIDs have different roots, and no
collection is a member of itself.

### NodeLifecycle

`Processes_proofs` proves for every finite set of daemons, starts and
clients:

- `LifecycleTypeCorrect`: `Spec => []TypeOK`, which includes that the counter of
  handlers is their number
- `OneDaemonServes`: `Spec => []OneServes`
- `ServingStaysReachable`: `Spec => []ServingIsReachable`
- `DrainAnswersAll`: `Spec => []AcceptedIsAnswered`

The inductive invariant (`LifecycleInvariant`) is the types, `Counted` (the
counter is the number of running handlers), `Connected` (who has not bound has
no connections, and no daemon calls itself), `HoldsLock` (from opening the store
to the exit a daemon holds its lock) and the two properties that are not
consequences. `OneServes` follows from `HoldsLock`, and so does the step that is
easy to get wrong: when a shutdown unlinks the socket, no other daemon can have
bound, because the one that shuts down still holds the lock. `Counted` needs
`Connected`, for a process that ends closes connections of its own.

### Watch

`Processes_proofs` proves for every set of releases and artifacts, finite or
not, all sizes, hints and budgets, and any number of crashes:

- `WatchKeepsBudget`: `WatchSpec => []BudgetHolds`

`BudgetHolds` is not inductive. The watcher looks at the store, then waits for the
node, and the user may seed and unseed meanwhile; what it fetched counts when it
arrives. The inductive invariant (`WatchInv`) adds that what the watcher fetched
is seeded (unseeding takes both away), that there are finitely many tags, and
that while a fetch is under way there was room for it beside what the watcher
has fetched so far (`FetchHasRoom`). That stays so because the store held all
of it and more when the size was read (`BeginKeeps`), and nothing but the fetch
itself adds to what the watcher fetched (`RoomStays`). When the fetch arrives the
sum is within the budget, or the artifact had no hint or too small a one
(`OneMoreWithin`); it is the only one, because nothing is begun in a store that
is over the budget. A set within the budget, or all but one of it, stays so when
something is taken out (`FewerWithin`).

The sum of sizes is `MapThenSumSet`, a fold over a set in an order of its own
choice. `SumUnrolls` unrolls it: a set is summed by taking out a chosen element
and summing the rest, which determines the sum (`SumsAgree`). That any other
element may be taken out first (`SumExchanges`) follows because there is no
smallest set for which it may not (`SmallestSet`), and `SizeOfProperties` is
what the rest of the proof uses: the sum of a set with one more element, and
that a part sums up to no more than the whole.

### Exports

`Exports_proofs` proves for any number of connections, and artifacts of any
finite number of parts:

- `ExportsTypeCorrect`: `Spec => []TypeOK`, which includes that nothing follows
  the terminal frame of a stream
- `DestStaysWhole`: `Spec => []DestIsWhole`
- `ReceiptsAreTrue`: `Spec => []OkayMeansExported`
- `OldIsKept`: `Spec => OldStaysUntilNew`
- `NothingStays`: `Spec => []NothingIsLeftBehind`

What is at the destination does not show whether the next step keeps it whole:
that is decided by what is staged, and that by who else stages there. The
inductive invariant (`ExportsInvariant`) has the types, `Streamed` (who is under
way has sent no terminal frame), `DestIsWhole`, `NothingIsLeftBehind`, and
`Undisturbed`: until two exports overlap, the one under way is alone and the
newest (`Alone`, `Newest`), the staging path holds exactly the parts it has
written, and before the rename all of them (`Staged`), and every receipt that
was read or is on the wire names what is at the destination (`Vouched`).
`OldIsKept` follows from it: the steps that change the destination are those
between the last part and the rename, and there `Staged` has the whole artifact.
What the removal of an old directory leaves half way is `torn`, which stays
until the directory is gone or replaced. `Moved`, `ClientMoves` and `Closed`
show it for the three ways an export changes: it moves on, its client reads or
leaves, or it ends. Assumed is `ExportsAssumption`: parts are finite, "nothing"
is no path, an artifact's name is no other frame of the stream.

### Commands

`Commands_proofs` proves for any number of terminals, releases and artifacts,
and for every choice of the commands that may run side by side:

- `CommandsTypeCorrect`: `Spec => []TypeOK`, which includes that a release has
  locations only of artifacts it carries
- `ReleasesStayOne`: `Spec => []OneReleasePerTag`
- `NodeAndReleasesInStep`: `Spec => []InStep`
- `SeededIsNotRetracted`: `Spec => RetractsNothingSeeded`

`InStep` speaks of the moments at which nothing runs; in between the tags of the
node and the locations in the releases do differ. The inductive invariant
(`CommandsInvariant`) says by how much, `pc` by `pc` (`Behind`): by the one tag
a seed has set and not yet written a location for, by what an unseed has taken
out of the node, by the locations an unseed has still to remove, in the release
it has open and in those it has still to open (`ToGo`); a command that passed one
over has warned, and the property says nothing until a reconcile has mended it.
It needs that what a
command has in hand is there (`Fits`), which other terminals do not take away
(`FitsStays`). For the way back, from any drift, it says of a reconcile that
nothing has disturbed that it runs alone and has on its list every location
that does not point to this node (`Undisturbed`); where it also leaves tags and
locations matched, they are in step when it is done. `ReleasesStayOne` adds that
a command about to create a release of a tag has seen that there is none, and
still is alone (`Apart`). `SeededIsNotRetracted` is about two snapshots: the
tags as reconcile asked for them, and the releases it then compared. The
invariant says that what it holds to be seeded all the while never gets on the
list of what it retracts, and an unseed beside it only lessens what is held
(`Keeps`).

Every step is one command that moves on while the others keep what they had
(`Moved`), one that begins (`Started`), or a release that arrives
(`SyncKeeps`). The lemma of each action (`...Keeps`) says what it writes and
where it leaves its command. That the newest release is well defined, and that a
minted one is newer, rests on there being finitely many so far (`Stored`,
`Newest`): nothing is assumed about the set of all identifiers.

Assumed is `CommandsAssumption`. Of the releases of others that may arrive it
says that they have no locations of this user: those are written by this user's
own commands, into releases that are here already. With a second machine that
signs with the same key this would not hold, and `InStep` would not either.

### Not proved

Every invariant and every action property of the passing runs is stated by a
theorem. Out of the prover's reach and left to TLC: the liveness properties
(`CacheConverges`, `UnseededIsReclaimed`, `LocationsGetAnnounced`,
`TrustedGetsSeeded`, `VanishedClientStopsExport`, `ShutdownEnds`), and what the
three runs that find a violation show, which are counterexamples.

## Not modelled

- *Identifiers* (CIDs, endpoint URLs, seeded tag names) are conversions without
  state; a CID is a model value everywhere, and SeedNode assumes that different
  CIDs have different roots.
- *The discovery index* is a pure index of locations, rebuilt for each reader
  from what ReleaseCache returns.
- *iroh set-up*, download scheduling and the wire protocol between nodes are
  outside the repository; SeedNode has what they leave in the store.
- *Display, prompts, error texts* and `--json` keep no state.
- Of the commands: `--dry-run`, the report of reconcile, and the walk over
  several repositories. Of the watcher: `--dry-run`, `--no-announce`, the event
  filter and several repositories at a time. Of the node: `status` and the lists,
  which only read.

## Plan

Done, in this order: Artifacts, Trust and Release with their proofs;
ReleaseReplicas; ReleaseCache with CurrentReads and their proofs; SeedNode;
Watch; NodeLifecycle and Exports with their proofs; Commands, which has
reconcile; the proofs of SeedNode, ReleaseReplicas, Commands and Watch.

Not begun: several repositories that share one store in Watch, where the budget
is over all of them.

## Running it

tlc -workers 2 -config MCReplicas.cfg MCReleaseReplicas   # and the other "runs"
of PROJECT.json tlapm Artifacts_proofs.tla tlapm Release_proofs.tla tlapm
ReleaseReplicas_proofs.tla tlapm ReleaseCache_proofs.tla tlapm
SeedNode_proofs.tla tlapm Exports_proofs.tla tlapm Processes_proofs.tla tlapm
Commands_proofs.tla
