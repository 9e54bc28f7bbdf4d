------------------------------- MODULE SeedNode -------------------------------
(***************************************************************************)
(* The artifact node: connection handlers that run side by side over one   *)
(* blob store (radicle-artifact-node: node.rs, seeder.rs, fetch.rs), its   *)
(* garbage collector, clients that hang up and a daemon that is killed.    *)
(*                                                                         *)
(* The store holds hashes.  A blob is its root hash; a collection is a     *)
(* root, the hash sequence, and the members it lists.  Seeded tags are     *)
(* persistent roots of the collector, temp tags live as long as the        *)
(* handler that took them.  A tag on a collection whose root is not there  *)
(* protects nothing but the root: the members are unknown.                 *)
(*                                                                         *)
(* The collector is iroh's.  Here it marks and sweeps in one step; each    *)
(* call into the store is one step, and what it wrote survives a crash.    *)
(***************************************************************************)
EXTENDS FiniteSets

CONSTANTS
  Handler,    \* connections served at the same time
  Repo,       \* repositories
  Release,    \* release ids
  NoRelease,  \* `seed: None`, and `release: None` of an unseed
  Cid,        \* artifacts
  Hash,       \* blobs
  Root,       \* Root[cid]: the hash a CID is made of
  Members     \* Members[cid]: what the collection lists, {} for a blob

ASSUME SeedNodeAssumption ==
  /\ NoRelease \notin Release
  /\ Root \in [Cid -> Hash] /\ Members \in [Cid -> SUBSET Hash]
  /\ \A c, d \in Cid : Root[c] = Root[d] => c = d
  /\ \A c \in Cid : Root[c] \notin Members[c]

VARIABLES
  present,  \* the hashes complete in the store
  tags,     \* the seeded tags
  temps,    \* temps[h]: the temp tags of a handler, on artifacts and on files
  handler   \* what each handler is doing

vars == <<present, tags, temps, handler>>

Tag == [repo : Repo, release : Release, cid : Cid]

Parts(cid) == {Root[cid]} \cup Members[cid]

Complete(cid) == Parts(cid) \subseteq present

\* Mutant: collections are tagged as raw blobs.
ReachRaw(cid, held) == {Root[cid]}

\* What a tag on an artifact protects: the mark phase expands a hash sequence
\* it can read.
Reach(cid, held) == IF Root[cid] \in held THEN Parts(cid) ELSE {Root[cid]}

NoTemps == [artifacts |-> {}, files |-> {}]

Idle == [pc |-> "idle"]

\* A command and its progress.  since is history: the tags set since an unseed
\* took its list.  The flags of the receipts (was_already, was_removed, seeded)
\* are left out, but for the from_cache of a fetch.
Working ==
  [pc : {"start", "import", "check", "download", "export", "tag",
         "tagged", "unseed"},
   cmd : {"seed", "fetch", "download", "export", "unseed"},
   repo : Repo, release : Release \cup {NoRelease}, cid : Cid, path : Cid,
   fromCache : BOOLEAN, left : (SUBSET Tag) \cup (SUBSET Hash), since : SUBSET Tag]

Init ==
  /\ present = {} /\ tags = {}
  /\ temps = [h \in Handler |-> NoTemps]
  /\ handler = [h \in Handler |-> Idle]

At(h, pc) == handler[h].pc = pc

TagOf(h) ==
  [repo |-> handler[h].repo, release |-> handler[h].release, cid |-> handler[h].cid]

Goto(h, pc) == handler' = [handler EXCEPT ![h].pc = pc]

\* The reply, a receipt or an error, is written; whatever temp tags the values of
\* the handler held are dropped.
End(h) ==
  /\ handler' = [handler EXCEPT ![h] = Idle]
  /\ temps' = [temps EXCEPT ![h] = NoTemps]

-----------------------------------------------------------------------------
\* handle_connection: one command a connection.  path is what the file or
\* directory to seed really holds.
Receive(h) ==
  \E cmd \in {"seed", "fetch", "download", "export", "unseed"}, repo \in Repo,
     release \in Release \cup {NoRelease}, cid \in Cid, path \in Cid :
    /\ At(h, "idle")
    /\ cmd = "seed" => release # NoRelease
    /\ cmd = "export" => release = NoRelease
    /\ cmd # "seed" => path = cid
    /\ handler' = [handler EXCEPT ![h] =
         [pc |-> IF cmd = "seed" THEN "import" ELSE "start", cmd |-> cmd,
          repo |-> repo, release |-> release, cid |-> cid, path |-> path,
          fromCache |-> FALSE, left |-> {}, since |-> {}]]
    /\ UNCHANGED <<present, tags, temps>>

\* seed_response.  import_collection: the members one by one, each under a temp tag ...
ImportFile(h, hash) ==
  /\ At(h, "import")
  /\ hash \in Members[handler[h].path] \ temps[h].files
  /\ present' = present \cup {hash}
  /\ temps' = [temps EXCEPT ![h].files = @ \cup {hash}]
  /\ UNCHANGED <<tags, handler>>

\* Mutant: the temp tag goes with the import.
ImportRootUntagged(h) ==
  LET path == handler[h].path
  IN  /\ At(h, "import") /\ temps[h].files = Members[path]
      /\ present' = present \cup {Root[path]}
      /\ IF path = handler[h].cid
         THEN temps' = [temps EXCEPT ![h] = NoTemps] /\ Goto(h, "tag")
         ELSE End(h)
      /\ UNCHANGED tags

\* ... and the root, whose temp tag takes over from theirs; then the check
\* against the CID asked for.  import_blob is the case without members.
ImportRoot(h) ==
  LET path == handler[h].path
  IN  /\ At(h, "import") /\ temps[h].files = Members[path]
      /\ present' = present \cup {Root[path]}
      /\ IF path = handler[h].cid
         THEN /\ temps' = [temps EXCEPT ![h] = [artifacts |-> {path}, files |-> {}]]
              /\ Goto(h, "tag")
         ELSE End(h)
      /\ UNCHANGED tags

\* A file cannot be read, or the store fails.
ImportFails(h) ==
  /\ At(h, "import")
  /\ End(h)
  /\ UNCHANGED <<present, tags>>

\* fetch_into_store takes the temp tag before it looks.
TakeTemp(h) ==
  /\ At(h, "start") /\ handler[h].cmd \in {"fetch", "download"}
  /\ temps' = [temps EXCEPT ![h].artifacts = {handler[h].cid}]
  /\ Goto(h, "check")
  /\ UNCHANGED <<present, tags>>

ExportFrom(h) ==
  [handler EXCEPT ![h].pc = "export", ![h].left = Parts(handler[h].cid)]

AfterFetch(h, fromCache) ==
  handler' = IF handler[h].cmd = "download"
             THEN ExportFrom(h)
             ELSE [handler EXCEPT ![h].pc = "tag", ![h].fromCache = fromCache]

\* The fast path: `blobs().has(hash)` of the root.
FastPath(h) ==
  /\ At(h, "check") /\ Root[handler[h].cid] \in present
  /\ AfterFetch(h, TRUE)
  /\ UNCHANGED <<present, tags, temps>>

SlowPath(h) ==
  /\ At(h, "check") /\ Root[handler[h].cid] \notin present
  /\ Goto(h, "download")
  /\ UNCHANGED <<present, tags, temps>>

\* An iroh provider delivers a part that is missing, the root first.
DownloadPart(h, hash) ==
  LET cid == handler[h].cid
  IN  /\ At(h, "download")
      /\ hash \in Reach(cid, present) \ present
      /\ present' = present \cup {hash}
      /\ UNCHANGED <<tags, temps, handler>>

\* http_to_store, for a blob: whatever the URL serves is imported, and only then
\* compared with what was asked for.  The import's temp tag goes at once.
FetchUrl(h, hash) ==
  /\ At(h, "download") /\ Members[handler[h].cid] = {}
  /\ present' = present \cup {hash}
  /\ UNCHANGED <<tags, temps, handler>>

\* Providers and URLs are used up, successfully or not: the completeness check
\* of the whole artifact decides.
DownloadEnds(h) ==
  /\ At(h, "download")
  /\ IF Complete(handler[h].cid)
     THEN AfterFetch(h, FALSE) /\ UNCHANGED temps
     ELSE End(h)
  /\ UNCHANGED <<present, tags>>

\* stream_export looks at the root and takes no temp tag.
StartExport(h) ==
  /\ At(h, "start") /\ handler[h].cmd = "export"
  /\ IF Root[handler[h].cid] \in present
     THEN handler' = ExportFrom(h) /\ UNCHANGED temps
     ELSE End(h)
  /\ UNCHANGED <<present, tags>>

\* Members are read one by one and must be there when their turn comes.
ExportPart(h, hash) ==
  /\ At(h, "export") /\ hash \in handler[h].left
  /\ hash # Root[handler[h].cid] => Root[handler[h].cid] \notin handler[h].left
  /\ IF hash \in present
     THEN /\ handler' = [handler EXCEPT ![h].left = @ \ {hash}]
          /\ UNCHANGED temps
     ELSE End(h)
  /\ UNCHANGED <<present, tags>>

ExportDone(h) ==
  /\ At(h, "export") /\ handler[h].left = {}
  /\ IF handler[h].cmd = "download"
     THEN Goto(h, "tag") /\ UNCHANGED temps
     ELSE End(h)
  /\ UNCHANGED <<present, tags>>

\* Mutant: a fetch that asked for no seeding is tagged all the same.
SetTagAlways(h) ==
  /\ At(h, "tag")
  /\ tags' = tags \cup {TagOf(h)}
  /\ Goto(h, "tagged")
  /\ UNCHANGED <<present, temps>>

\* tag_seeded, or tag_if_seeding without a release.
SetTag(h) ==
  /\ At(h, "tag")
  /\ IF handler[h].release = NoRelease
     THEN UNCHANGED tags /\ Goto(h, "tagged")
     ELSE /\ tags' = tags \cup {TagOf(h)}
          /\ handler' = [o \in Handler |->
               IF o = h THEN [handler[h] EXCEPT !.pc = "tagged"]
               ELSE IF At(o, "unseed") THEN [handler[o] EXCEPT !.since = @ \cup {TagOf(h)}]
               ELSE handler[o]]
  /\ UNCHANGED <<present, temps>>

\* Only now does the temp tag go.
Acknowledge(h) ==
  /\ At(h, "tagged")
  /\ End(h)
  /\ UNCHANGED <<present, tags>>

\* Mutant: the listing stops at the first match.
ListFirstTag(h) ==
  LET unseed == handler[h]
  IN  /\ At(h, "start") /\ unseed.cmd = "unseed"
      /\ \E release \in Release :
           /\ unseed.release \in {NoRelease, release}
           /\ handler' = [handler EXCEPT ![h].pc = "unseed",
                ![h].left = {[TagOf(h) EXCEPT !.release = release]}]
      /\ UNCHANGED <<present, tags, temps>>

\* unseed_response: the tag of one release, or those of a listing.
ListTags(h) ==
  LET unseed == handler[h]
  IN  /\ At(h, "start") /\ unseed.cmd = "unseed"
      /\ handler' = [handler EXCEPT
           ![h].pc = "unseed",
           ![h].left = IF unseed.release # NoRelease THEN {TagOf(h)}
                       ELSE {t \in tags : t.repo = unseed.repo /\ t.cid = unseed.cid}]
      /\ UNCHANGED <<present, tags, temps>>

\* Delete by name.
DeleteTag(h, tag) ==
  /\ At(h, "unseed") /\ tag \in handler[h].left
  /\ tags' = tags \ {tag}
  /\ handler' = [handler EXCEPT ![h].left = @ \ {tag}]
  /\ UNCHANGED <<present, temps>>

UnseedDone(h) ==
  /\ At(h, "unseed") /\ handler[h].left = {}
  /\ End(h)
  /\ UNCHANGED <<present, tags>>

\* Mutant: the temp tag outlives the operation.
HangUpLeaking(h) ==
  /\ handler[h].pc \in {"start", "check", "download", "export", "tag", "tagged"}
  /\ handler[h].cmd \in {"fetch", "download", "export"}
  /\ handler' = [handler EXCEPT ![h] = Idle]
  /\ UNCHANGED <<present, tags, temps>>

\* run_stream: the client of a streaming command is gone, the operation is
\* dropped where it stands, and with it its temp tags.
HangUp(h) ==
  /\ handler[h].pc \in {"start", "check", "download", "export", "tag", "tagged"}
  /\ handler[h].cmd \in {"fetch", "download", "export"}
  /\ handler' = [handler EXCEPT ![h] = Idle]
  /\ temps' = [temps EXCEPT ![h] = NoTemps]
  /\ UNCHANGED <<present, tags>>

\* The daemon is killed, or stops with handlers still at work, and starts again.
Restart ==
  /\ handler' = [h \in Handler |-> Idle]
  /\ temps' = [h \in Handler |-> NoTemps]
  /\ UNCHANGED <<present, tags>>

Roots == {tag.cid : tag \in tags} \cup (UNION {temps[h].artifacts : h \in Handler})

Live ==
  (UNION {Reach(cid, present) : cid \in Roots}) \cup (UNION {temps[h].files : h \in Handler})

Collect ==
  /\ present' = present \cap Live
  /\ UNCHANGED <<tags, temps, handler>>

Step(h) ==
  \/ ImportRoot(h) \/ TakeTemp(h) \/ FastPath(h) \/ SlowPath(h)
  \/ DownloadEnds(h) \/ StartExport(h) \/ ExportDone(h) \/ SetTag(h)
  \/ Acknowledge(h) \/ ListTags(h) \/ UnseedDone(h)
  \/ \E hash \in Hash :
       ImportFile(h, hash) \/ DownloadPart(h, hash) \/ FetchUrl(h, hash) \/ ExportPart(h, hash)
  \/ \E tag \in Tag : DeleteTag(h, tag)

Next ==
  \/ \E h \in Handler : Receive(h) \/ Step(h) \/ ImportFails(h) \/ HangUp(h)
  \/ Restart
  \/ Collect

Spec == Init /\ [][Next]_vars

\* A command whose client is sent progress, and may hang up on it.
Streaming(h) == ~ At(h, "idle") /\ handler[h].cmd \in {"fetch", "download", "export"}

\* Seeds and unseeds are tasks of a running executor that work on local files;
\* the collector runs every GC_INTERVAL.  Nothing makes a streaming command go on:
\* a body that an HTTP server stops sending is waited for as long as the client
\* stays, and so is a client that stays and does not read.
FairSpec ==
  /\ Spec
  /\ \A h \in Handler : WF_vars(~ Streaming(h) /\ Step(h))
  /\ WF_vars(Collect)
-----------------------------------------------------------------------------
TypeOK ==
  /\ present \subseteq Hash /\ tags \subseteq Tag
  /\ temps \in [Handler -> [artifacts : SUBSET Cid, files : SUBSET Hash]]
  /\ \A h \in Handler : handler[h] = Idle \/ handler[h] \in Working

\* "The freshly imported bytes are never momentarily unprotected": when a
\* handler has set its tag, and is about to acknowledge it, every byte of the
\* artifact is in the store, whatever the collector, an unseed or another
\* handler did since the import.  (What the fast path took for complete is the
\* subject of SeededIsComplete.)
AcknowledgedIsComplete ==
  \A h \in Handler :
    At(h, "tagged") /\ ~ handler[h].fromCache
      => Complete(handler[h].cid)

\* What is complete and seeded stays complete as long as some release seeds it:
\* neither the unseeding of another release, nor of an artifact that shares
\* members with it, nor the collector takes a byte away.
KeptWhileSeeded ==
  [][\A cid \in Cid :
       /\ Complete(cid)
       /\ \E tag \in tags : tag.cid = cid
       /\ \E tag \in tags' : tag.cid = cid
       => Complete(cid)']_vars

\* An unseed of all releases misses none: the tags of the artifact it leaves
\* behind were all set after it took its list.
UnseedMissesNone ==
  \A h \in Handler :
    At(h, "unseed") /\ handler[h].left = {} =>
      \A tag \in tags :
        /\ tag.repo = handler[h].repo /\ tag.cid = handler[h].cid
        /\ handler[h].release \in {NoRelease, tag.release}
        => tag \in handler[h].since

WorksOn(h, hash) ==
  ~ At(h, "idle") /\ hash \in Parts(handler[h].cid) \cup Parts(handler[h].path)

\* Bytes nobody seeds go: a hash that from some time on no tag reaches, and no new
\* command is about, is collected, the leftovers of cancelled downloads, failed
\* imports and killed daemons included, and again whenever a URL serves it in place
\* of something else; unless a fetch or download of it stays for ever, stalled,
\* with a client that does not leave it.
UnseededIsReclaimed ==
  \A hash \in Hash :
    /\ <>[](\A tag \in tags : hash \notin Parts(tag.cid))
    /\ <>[][\A h \in Handler : At(h, "idle") => ~ WorksOn(h, hash)']_vars
    => \/ []<>(hash \notin present)
       \/ \E h \in Handler : <>[](Streaming(h) /\ WorksOn(h, hash))

\* An artifact that a fetch finds or brings in is complete, so that every seeded
\* artifact can be served.
SeededIsComplete == \A tag \in tags : Complete(tag.cid)
===============================================================================
