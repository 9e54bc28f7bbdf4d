---------------------------- MODULE SeedNode_proofs ----------------------------
(***************************************************************************)
(* Theorems about the artifact node, for any number of connections and     *)
(* artifacts, of any number of members, however they share them.           *)
(***************************************************************************)
EXTENDS SeedNode, TLAPS

Types ==
  /\ present \subseteq Hash /\ tags \subseteq Tag
  /\ temps \in [Handler -> [artifacts : SUBSET Cid, files : SUBSET Hash]]
  /\ handler \in [Handler -> Working \cup {Idle}]

\* From the look at the store to the answer the artifact has a temp tag.
Holds(h) ==
  \/ handler[h].pc \in {"check", "download", "tag", "tagged"}
  \/ At(h, "export") /\ handler[h].cmd = "download"

\* What a handler relies on, between any two of its steps.
Protected(h) ==
  LET cid == handler[h].cid
  IN  /\ temps[h].files \subseteq present
      /\ At(h, "idle") => temps[h] = NoTemps
      /\ At(h, "import") => temps[h].files \subseteq Members[handler[h].path]
      /\ Holds(h) => cid \in temps[h].artifacts
      /\ At(h, "export") /\ handler[h].cmd = "download" =>
           Root[cid] \in present /\ Parts(cid) \ handler[h].left \subseteq present
      /\ handler[h].pc \in {"tag", "tagged"} /\ ~handler[h].fromCache => Complete(cid)

\* The tags an unseed is to delete are on its list, or were set after it took it.
Listed(h) ==
  At(h, "unseed") =>
    \A tag \in tags :
      /\ tag.repo = handler[h].repo /\ tag.cid = handler[h].cid
      /\ handler[h].release \in {NoRelease, tag.release}
      => tag \in handler[h].left \cup handler[h].since

\* The inductive invariant.
IInv == Types /\ \A h \in Handler : Protected(h) /\ Listed(h)

-----------------------------------------------------------------------------
LEMMA InitIInv == Init => IInv
BY DEF Init, IInv, Types, Protected, Listed, Holds, At, Idle, NoTemps

\* One handler moves on and nothing is lost: the others need not care.
LEMMA Moved ==
  ASSUME IInv, NEW h \in Handler,
         present \subseteq present', present' \subseteq Hash, UNCHANGED tags,
         NEW new \in Working \cup {Idle}, handler' = [handler EXCEPT ![h] = new],
         NEW held \in [artifacts : SUBSET Cid, files : SUBSET Hash],
         temps' = [temps EXCEPT ![h] = held],
         Protected(h)', Listed(h)'
  PROVE  IInv'
<1>1. Types'
  BY DEF IInv, Types
<1>2. ASSUME NEW o \in Handler, o # h PROVE Protected(o)' /\ Listed(o)'
  <2>1. handler'[o] = handler[o] /\ temps'[o] = temps[o]
    BY <1>2 DEF IInv, Types
  <2>2. Protected(o) /\ Listed(o)
    BY DEF IInv
  <2>3. Protected(o)'
    BY <2>1, <2>2 DEF Protected, Holds, At, Complete
  <2>4. Listed(o)'
    BY <2>1, <2>2 DEF Listed, At
  <2>5. QED  BY <2>3, <2>4
<1>3. QED  BY <1>1, <1>2 DEF IInv

\* A handler that is idle, or has ended, relies on nothing.
LEMMA Ended ==
  ASSUME IInv, NEW h \in Handler, present \subseteq present', present' \subseteq Hash,
         UNCHANGED tags, End(h)
  PROVE  IInv'
<1>1. NoTemps \in [artifacts : SUBSET Cid, files : SUBSET Hash]
  BY DEF NoTemps
<1>2. handler' = [handler EXCEPT ![h] = Idle] /\ temps' = [temps EXCEPT ![h] = NoTemps]
  BY DEF End
<1>3. handler'[h] = Idle /\ temps'[h] = NoTemps
  BY <1>2 DEF IInv, Types
<1>4. Protected(h)' /\ Listed(h)'
  BY <1>3 DEF Protected, Listed, Holds, At, Idle, NoTemps
<1>5. QED  BY <1>1, <1>2, <1>4, Moved

\* A handler goes on to its next record; its temp tags stay.
LEMMA Advanced ==
  ASSUME IInv, NEW h \in Handler, NEW new \in Working \cup {Idle},
         handler' = [handler EXCEPT ![h] = new], UNCHANGED <<present, tags, temps>>,
         Protected(h)', Listed(h)'
  PROVE  IInv'
<1>1. temps[h] \in [artifacts : SUBSET Cid, files : SUBSET Hash]
      /\ temps' = [temps EXCEPT ![h] = temps[h]]
  BY DEF IInv, Types
<1>2. QED  BY <1>1, Moved DEF IInv, Types

-----------------------------------------------------------------------------
LEMMA ReceiveKeeps == ASSUME IInv, NEW h \in Handler, Receive(h) PROVE IInv'
<1>1. PICK cmd \in {"seed", "fetch", "download", "export", "unseed"}, repo \in Repo,
           release \in Release \cup {NoRelease}, cid \in Cid, path \in Cid :
        /\ At(h, "idle")
        /\ cmd = "seed" => release # NoRelease
        /\ cmd = "export" => release = NoRelease
        /\ cmd # "seed" => path = cid
        /\ handler' = [handler EXCEPT ![h] =
             [pc |-> IF cmd = "seed" THEN "import" ELSE "start", cmd |-> cmd,
              repo |-> repo, release |-> release, cid |-> cid, path |-> path,
              fromCache |-> FALSE, left |-> {}, since |-> {}]]
        /\ UNCHANGED <<present, tags, temps>>
  BY DEF Receive
<1> DEFINE new == [pc |-> IF cmd = "seed" THEN "import" ELSE "start", cmd |-> cmd,
                   repo |-> repo, release |-> release, cid |-> cid, path |-> path,
                   fromCache |-> FALSE, left |-> {}, since |-> {}]
<1>2. new \in Working
  BY DEF Working
<1>3. new.pc \in {"import", "start"}
  OBVIOUS
<1> HIDE DEF new
<1>4. handler' = [handler EXCEPT ![h] = new]
  BY <1>1 DEF new
<1>5. handler'[h] = new
  BY <1>4 DEF IInv, Types
<1>6. temps'[h] = NoTemps
  BY <1>1 DEF IInv, Protected
<1>7. Protected(h)'
  BY <1>3, <1>5, <1>6 DEF Protected, Holds, At, NoTemps
<1>8. Listed(h)'
  BY <1>3, <1>5 DEF Listed, At
<1>9. QED  BY <1>1, <1>2, <1>4, <1>7, <1>8, Advanced

LEMMA ImportFileKeeps ==
  ASSUME IInv, NEW h \in Handler, NEW hash \in Hash, ImportFile(h, hash) PROVE IInv'
<1> DEFINE held == [temps[h] EXCEPT !.files = @ \cup {hash}]
<1>1. /\ At(h, "import") /\ hash \in Members[handler[h].path]
      /\ present' = present \cup {hash} /\ UNCHANGED <<tags, handler>>
  BY DEF ImportFile
<1>2. temps' = [temps EXCEPT ![h] = held]
  BY DEF ImportFile
<1>3. held \in [artifacts : SUBSET Cid, files : SUBSET Hash]
      /\ held.files = temps[h].files \cup {hash}
  BY DEF IInv, Types
<1>4. temps'[h] = held /\ handler'[h] = handler[h]
  BY <1>1, <1>2 DEF IInv, Types
<1> HIDE DEF held
<1>5. handler[h] \in Working \cup {Idle} /\ handler' = [handler EXCEPT ![h] = handler[h]]
  BY <1>1 DEF IInv, Types
<1>6. present \subseteq present' /\ present' \subseteq Hash
  BY <1>1 DEF IInv, Types
<1>7. Protected(h)'
  BY <1>1, <1>3, <1>4 DEF IInv, Protected, Holds, At
<1>8. Listed(h)'
  BY <1>1 DEF IInv, Listed, At
<1>9. QED  BY <1>1, <1>2, <1>3, <1>5, <1>6, <1>7, <1>8, Moved

\* Who works has a command's record.
LEMMA Works == ASSUME Types, NEW h \in Handler, ~At(h, "idle") PROVE handler[h] \in Working
BY DEF Types, At, Idle

\* What EXCEPT makes of such a record.
LEMMA GotoSets ==
  ASSUME Types, NEW h \in Handler, handler[h] \in Working,
         NEW pc \in {"check", "download", "tag", "tagged"}, Goto(h, pc)
  PROVE  \E new \in Working :
           /\ handler' = [handler EXCEPT ![h] = new] /\ handler'[h] = new
           /\ new.pc = pc /\ new.cmd = handler[h].cmd /\ new.cid = handler[h].cid
           /\ new.fromCache = handler[h].fromCache
<1> DEFINE new == [handler[h] EXCEPT !.pc = pc]
<1>1. /\ new \in Working
      /\ new.pc = pc /\ new.cmd = handler[h].cmd /\ new.cid = handler[h].cid
      /\ new.fromCache = handler[h].fromCache
  BY DEF Working
<1>2. handler' = [handler EXCEPT ![h] = new]
  BY DEF Goto
<1> HIDE DEF new
<1>3. handler'[h] = new
  BY <1>2 DEF Types
<1>4. QED  BY <1>1, <1>2, <1>3

LEMMA ImportRootKeeps == ASSUME IInv, NEW h \in Handler, ImportRoot(h) PROVE IInv'
<1> PICK path : path = handler[h].path
  OBVIOUS
<1>1. /\ At(h, "import") /\ temps[h].files = Members[path]
      /\ present' = present \cup {Root[path]} /\ UNCHANGED tags
      /\ path = handler[h].cid \/ End(h)
      /\ path = handler[h].cid =>
           /\ temps' = [temps EXCEPT ![h] = [artifacts |-> {path}, files |-> {}]]
           /\ Goto(h, "tag")
  BY DEF ImportRoot
<1>2. handler[h] \in Working /\ path \in Cid
  BY <1>1, Works DEF IInv, At, Working
<1>3. present \subseteq present' /\ present' \subseteq Hash
  BY <1>1, <1>2, SeedNodeAssumption DEF IInv, Types
<1>4. CASE End(h)
  BY <1>1, <1>3, <1>4, Ended
<1>5. CASE path = handler[h].cid
  <2> DEFINE held == [artifacts |-> {path}, files |-> {}]
  <2>1. PICK new \in Working :
          /\ handler' = [handler EXCEPT ![h] = new] /\ handler'[h] = new
          /\ new.pc = "tag" /\ new.cid = path
    BY <1>1, <1>2, <1>5, GotoSets DEF IInv
  <2>2. held \in [artifacts : SUBSET Cid, files : SUBSET Hash]
    BY <1>2
  <2>3. temps' = [temps EXCEPT ![h] = held] /\ temps'[h] = held
    BY <1>1, <1>5 DEF IInv, Types
  <2>4. Parts(path) \subseteq present'
    BY <1>1 DEF IInv, Protected, Parts
  <2>5. Protected(h)'
    BY <2>1, <2>3, <2>4 DEF Protected, Holds, At, Complete
  <2>6. Listed(h)'
    BY <2>1 DEF Listed, At
  <2>7. QED  BY <1>1, <1>3, <2>1, <2>2, <2>3, <2>5, <2>6, Moved
<1>6. QED  BY <1>1, <1>4, <1>5

LEMMA ImportFailsKeeps == ASSUME IInv, NEW h \in Handler, ImportFails(h) PROVE IInv'
BY Ended DEF ImportFails, IInv, Types

LEMMA TakeTempKeeps == ASSUME IInv, NEW h \in Handler, TakeTemp(h) PROVE IInv'
<1> DEFINE held == [temps[h] EXCEPT !.artifacts = {handler[h].cid}]
<1>1. /\ At(h, "start") /\ Goto(h, "check") /\ UNCHANGED <<present, tags>>
      /\ temps' = [temps EXCEPT ![h] = held]
  BY DEF TakeTemp
<1>2. handler[h] \in Working /\ handler[h].cid \in Cid
  BY <1>1, Works DEF IInv, At, Working
<1>3. held \in [artifacts : SUBSET Cid, files : SUBSET Hash]
      /\ held.artifacts = {handler[h].cid} /\ held.files = temps[h].files
  BY <1>2 DEF IInv, Types
<1> HIDE DEF held
<1>4. temps'[h] = held
  BY <1>1 DEF IInv, Types
<1>5. PICK new \in Working :
        /\ handler' = [handler EXCEPT ![h] = new] /\ handler'[h] = new
        /\ new.pc = "check" /\ new.cid = handler[h].cid
  BY <1>1, <1>2, GotoSets DEF IInv
<1>6. Protected(h)'
  BY <1>1, <1>3, <1>4, <1>5 DEF IInv, Protected, Holds, At
<1>7. Listed(h)'
  BY <1>5 DEF Listed, At
<1>8. present \subseteq present' /\ present' \subseteq Hash
  BY <1>1 DEF IInv, Types
<1>9. QED  BY <1>1, <1>3, <1>5, <1>6, <1>7, <1>8, Moved

\* A handler that goes on to export an artifact of which it has the root.
LEMMA ExportFromKeeps ==
  ASSUME IInv, NEW h \in Handler, handler[h] \in Working, Root[handler[h].cid] \in present,
         handler[h].cmd = "download" => handler[h].cid \in temps[h].artifacts,
         handler' = ExportFrom(h), UNCHANGED <<present, tags, temps>>
  PROVE  IInv'
<1> DEFINE new == [handler[h] EXCEPT !.pc = "export", !.left = Parts(handler[h].cid)]
<1>1. handler[h].cid \in Cid /\ Parts(handler[h].cid) \subseteq Hash
  BY SeedNodeAssumption DEF Working, Parts
<1>2. new \in Working /\ new.pc = "export" /\ new.cmd = handler[h].cmd
      /\ new.cid = handler[h].cid /\ new.left = Parts(handler[h].cid)
  BY <1>1 DEF Working
<1>3. handler' = [handler EXCEPT ![h] = new]
  BY DEF ExportFrom
<1> HIDE DEF new
<1>4. handler'[h] = new
  BY <1>3 DEF IInv, Types
<1>5. Protected(h)'
  BY <1>2, <1>4 DEF IInv, Protected, Holds, At
<1>6. Listed(h)'
  BY <1>2, <1>4 DEF Listed, At
<1>7. QED  BY <1>2, <1>3, <1>5, <1>6, Advanced

\* What it looked for is in the store, or the root of it.
LEMMA AfterFetchKeeps ==
  ASSUME IInv, NEW h \in Handler, handler[h].pc \in {"check", "download"},
         NEW fromCache \in BOOLEAN, AfterFetch(h, fromCache),
         Root[handler[h].cid] \in present, ~fromCache => Complete(handler[h].cid),
         UNCHANGED <<present, tags, temps>>
  PROVE  IInv'
<1>1. handler[h] \in Working
  BY Works DEF IInv, At
<1>2. handler[h].cid \in temps[h].artifacts
  BY DEF IInv, Protected, Holds
<1>3. CASE handler[h].cmd = "download"
  BY <1>1, <1>2, <1>3, ExportFromKeeps DEF AfterFetch
<1>4. CASE handler[h].cmd # "download"
  <2> DEFINE new == [handler[h] EXCEPT !.pc = "tag", !.fromCache = fromCache]
  <2>1. new \in Working /\ new.pc = "tag" /\ new.cid = handler[h].cid
        /\ new.fromCache = fromCache
    BY <1>1 DEF Working
  <2>2. handler' = [handler EXCEPT ![h] = new]
    BY <1>4 DEF AfterFetch
  <2> HIDE DEF new
  <2>3. handler'[h] = new
    BY <2>2 DEF IInv, Types
  <2>4. Protected(h)'
    BY <1>2, <2>1, <2>3 DEF IInv, Protected, Holds, At, Complete
  <2>5. Listed(h)'
    BY <2>1, <2>3 DEF Listed, At
  <2>6. QED  BY <2>1, <2>2, <2>4, <2>5, Advanced
<1>5. QED  BY <1>3, <1>4

LEMMA FastPathKeeps == ASSUME IInv, NEW h \in Handler, FastPath(h) PROVE IInv'
BY AfterFetchKeeps DEF FastPath, At

LEMMA SlowPathKeeps == ASSUME IInv, NEW h \in Handler, SlowPath(h) PROVE IInv'
<1>1. At(h, "check") /\ Goto(h, "download") /\ UNCHANGED <<present, tags, temps>>
  BY DEF SlowPath
<1>2. handler[h] \in Working
  BY <1>1, Works DEF IInv, At
<1>3. PICK new \in Working :
        /\ handler' = [handler EXCEPT ![h] = new] /\ handler'[h] = new
        /\ new.pc = "download" /\ new.cid = handler[h].cid
  BY <1>1, <1>2, GotoSets DEF IInv
<1>4. Protected(h)'
  BY <1>1, <1>3 DEF IInv, Protected, Holds, At
<1>5. Listed(h)'
  BY <1>3 DEF Listed, At
<1>6. QED  BY <1>1, <1>3, <1>4, <1>5, Advanced

LEMMA DownloadPartKeeps ==
  ASSUME IInv, NEW h \in Handler, NEW hash \in Hash, DownloadPart(h, hash) PROVE IInv'
<1>1. At(h, "download") /\ present' = present \cup {hash} /\ UNCHANGED <<tags, temps, handler>>
  BY DEF DownloadPart
<1>2. present \subseteq present' /\ present' \subseteq Hash
  BY <1>1 DEF IInv, Types
<1>3. handler[h] \in Working \cup {Idle} /\ handler' = [handler EXCEPT ![h] = handler[h]]
      /\ temps[h] \in [artifacts : SUBSET Cid, files : SUBSET Hash]
      /\ temps' = [temps EXCEPT ![h] = temps[h]]
  BY <1>1 DEF IInv, Types
<1>4. Protected(h)' /\ Listed(h)'
  BY <1>1, <1>2 DEF IInv, Protected, Listed, Holds, At
<1>5. QED  BY <1>1, <1>2, <1>3, <1>4, Moved

LEMMA FetchUrlKeeps ==
  ASSUME IInv, NEW h \in Handler, NEW hash \in Hash, FetchUrl(h, hash) PROVE IInv'
<1>1. At(h, "download") /\ present' = present \cup {hash} /\ UNCHANGED <<tags, temps, handler>>
  BY DEF FetchUrl
<1>2. present \subseteq present' /\ present' \subseteq Hash
  BY <1>1 DEF IInv, Types
<1>3. handler[h] \in Working \cup {Idle} /\ handler' = [handler EXCEPT ![h] = handler[h]]
      /\ temps[h] \in [artifacts : SUBSET Cid, files : SUBSET Hash]
      /\ temps' = [temps EXCEPT ![h] = temps[h]]
  BY <1>1 DEF IInv, Types
<1>4. Protected(h)' /\ Listed(h)'
  BY <1>1, <1>2 DEF IInv, Protected, Listed, Holds, At
<1>5. QED  BY <1>1, <1>2, <1>3, <1>4, Moved

LEMMA DownloadEndsKeeps == ASSUME IInv, NEW h \in Handler, DownloadEnds(h) PROVE IInv'
<1>1. At(h, "download") /\ UNCHANGED <<present, tags>>
  BY DEF DownloadEnds
<1>2. CASE Complete(handler[h].cid)
  <2>1. Root[handler[h].cid] \in present
    BY <1>2 DEF Complete, Parts
  <2>2. AfterFetch(h, FALSE) /\ UNCHANGED temps
    BY <1>2 DEF DownloadEnds
  <2>3. QED  BY <1>1, <1>2, <2>1, <2>2, AfterFetchKeeps DEF At
<1>3. CASE ~Complete(handler[h].cid)
  BY <1>1, <1>3, Ended DEF DownloadEnds, IInv, Types
<1>4. QED  BY <1>2, <1>3

LEMMA StartExportKeeps == ASSUME IInv, NEW h \in Handler, StartExport(h) PROVE IInv'
<1>1. At(h, "start") /\ handler[h].cmd = "export" /\ UNCHANGED <<present, tags>>
  BY DEF StartExport
<1>2. handler[h] \in Working
  BY <1>1, Works DEF IInv, At
<1>3. CASE Root[handler[h].cid] \in present
  BY <1>1, <1>2, <1>3, ExportFromKeeps DEF StartExport
<1>4. CASE Root[handler[h].cid] \notin present
  BY <1>1, <1>4, Ended DEF StartExport, IInv, Types
<1>5. QED  BY <1>3, <1>4

LEMMA ExportPartKeeps ==
  ASSUME IInv, NEW h \in Handler, NEW hash \in Hash, ExportPart(h, hash) PROVE IInv'
<1>1. At(h, "export") /\ hash \in handler[h].left /\ UNCHANGED <<present, tags>>
  BY DEF ExportPart
<1>2. CASE hash \in present
  <2> DEFINE new == [handler[h] EXCEPT !.left = handler[h].left \ {hash}]
  <2>1. handler[h] \in Working
    BY <1>1, Works DEF IInv, At
  <2>2. handler[h].left \ {hash} \in (SUBSET Tag) \cup (SUBSET Hash)
    BY <2>1 DEF Working
  <2>3. new \in Working /\ new.pc = "export" /\ new.cmd = handler[h].cmd
        /\ new.cid = handler[h].cid /\ new.left = handler[h].left \ {hash}
    BY <1>1, <2>1, <2>2 DEF Working, At
  <2>4. handler' = [handler EXCEPT ![h] = new] /\ UNCHANGED temps
    BY <1>2 DEF ExportPart
  <2> HIDE DEF new
  <2>5. handler'[h] = new
    BY <2>4 DEF IInv, Types
  <2>6. Protected(h)'
    BY <1>1, <1>2, <2>3, <2>4, <2>5 DEF IInv, Protected, Holds, At
  <2>7. Listed(h)'
    BY <2>3, <2>5 DEF Listed, At
  <2>8. QED  BY <1>1, <2>3, <2>4, <2>6, <2>7, Advanced
<1>3. CASE hash \notin present
  BY <1>1, <1>3, Ended DEF ExportPart, IInv, Types
<1>4. QED  BY <1>2, <1>3

\* A download has exported every part, each of them from the store, which has
\* kept them since.
LEMMA ExportDoneKeeps == ASSUME IInv, NEW h \in Handler, ExportDone(h) PROVE IInv'
<1>1. At(h, "export") /\ handler[h].left = {} /\ UNCHANGED <<present, tags>>
  BY DEF ExportDone
<1>2. CASE handler[h].cmd = "download"
  <2>1. Goto(h, "tag") /\ UNCHANGED temps
    BY <1>2 DEF ExportDone
  <2>2. handler[h] \in Working
    BY <1>1, Works DEF IInv, At
  <2>3. PICK new \in Working :
          /\ handler' = [handler EXCEPT ![h] = new] /\ handler'[h] = new
          /\ new.pc = "tag" /\ new.cid = handler[h].cid
    BY <2>1, <2>2, GotoSets DEF IInv
  <2>4. Parts(handler[h].cid) \subseteq present
    BY <1>1, <1>2 DEF IInv, Protected
  <2>5. Protected(h)'
    BY <1>1, <1>2, <2>1, <2>3, <2>4 DEF IInv, Protected, Holds, At, Complete
  <2>6. Listed(h)'
    BY <2>3 DEF Listed, At
  <2>7. QED  BY <1>1, <2>1, <2>3, <2>5, <2>6, Advanced
<1>3. CASE handler[h].cmd # "download"
  BY <1>1, <1>3, Ended DEF ExportDone, IInv, Types
<1>4. QED  BY <1>2, <1>3

\* A tag that is set while an unseed works is one of those set since.
LEMMA SetTagKeeps == ASSUME IInv, NEW h \in Handler, SetTag(h) PROVE IInv'
<1>1. At(h, "tag") /\ UNCHANGED <<present, temps>> /\ handler[h] \in Working
  BY Works DEF SetTag, IInv, At
<1>2. CASE handler[h].release = NoRelease
  <2>1. Goto(h, "tagged") /\ UNCHANGED tags
    BY <1>2 DEF SetTag
  <2>2. PICK new \in Working :
          /\ handler' = [handler EXCEPT ![h] = new] /\ handler'[h] = new
          /\ new.pc = "tagged" /\ new.cid = handler[h].cid
          /\ new.fromCache = handler[h].fromCache
    BY <1>1, <2>1, GotoSets DEF IInv
  <2>3. Protected(h)'
    BY <1>1, <2>2 DEF IInv, Protected, Holds, At, Complete
  <2>4. Listed(h)'
    BY <2>2 DEF Listed, At
  <2>5. QED  BY <1>1, <2>1, <2>2, <2>3, <2>4, Advanced
<1>3. CASE handler[h].release # NoRelease
  <2> DEFINE next(o) ==
               IF o = h THEN [handler[h] EXCEPT !.pc = "tagged"]
               ELSE IF At(o, "unseed")
               THEN [handler[o] EXCEPT !.since = handler[o].since \cup {TagOf(h)}]
               ELSE handler[o]
  <2>1. tags' = tags \cup {TagOf(h)} /\ handler' = [o \in Handler |-> next(o)]
    BY <1>3 DEF SetTag
  <2>2. TagOf(h) \in Tag
    BY <1>1, <1>3 DEF TagOf, Tag, Working
  <2>3. \A o \in Handler : next(o) \in Working \cup {Idle}
    <3> TAKE o \in Handler
    <3>1. CASE o = h
      BY <1>1, <3>1 DEF Working
    <3>2. CASE o # h /\ At(o, "unseed")
      <4>1. handler[o] \in Working
        BY <3>2, Works DEF IInv, At
      <4>2. QED  BY <2>2, <3>2, <4>1 DEF Working
    <3>3. CASE o # h /\ ~At(o, "unseed")
      BY <3>3 DEF IInv, Types
    <3>4. QED  BY <3>1, <3>2, <3>3
  <2>4. Types'
    BY <1>1, <2>1, <2>2, <2>3 DEF IInv, Types
  <2>5. ASSUME NEW o \in Handler PROVE Protected(o)' /\ Listed(o)'
    <3>1. Protected(o) /\ Listed(o) /\ handler'[o] = next(o)
      BY <2>1 DEF IInv
    <3>2. CASE o = h
      <4>1. /\ handler'[h].pc = "tagged" /\ handler'[h].cid = handler[h].cid
            /\ handler'[h].fromCache = handler[h].fromCache
        BY <1>1, <3>1, <3>2 DEF Working
      <4>2. Protected(h)'
        BY <1>1, <3>1, <3>2, <4>1 DEF Protected, Holds, At, Complete
      <4>3. QED  BY <3>2, <4>1, <4>2 DEF Listed, At
    <3>3. CASE o # h /\ At(o, "unseed")
      <4>1. handler[o] \in Working
        BY <3>3, Works DEF IInv, At
      <4>2. /\ handler'[o].pc = "unseed" /\ handler'[o].repo = handler[o].repo
            /\ handler'[o].cid = handler[o].cid /\ handler'[o].release = handler[o].release
            /\ handler'[o].left = handler[o].left
            /\ handler'[o].since = handler[o].since \cup {TagOf(h)}
        BY <3>1, <3>3, <4>1 DEF Working, At
      <4>3. Protected(o)'
        BY <1>1, <3>1, <4>2 DEF Protected, Holds, At
      <4>4. Listed(o)'
        BY <2>1, <3>1, <3>3, <4>2 DEF Listed
      <4>5. QED  BY <4>3, <4>4
    <3>4. CASE o # h /\ ~At(o, "unseed")
      <4>1. handler'[o] = handler[o]
        BY <3>1, <3>4
      <4>2. Protected(o)'
        BY <1>1, <3>1, <4>1 DEF Protected, Holds, At, Complete
      <4>3. QED  BY <3>4, <4>1, <4>2 DEF Listed, At
    <3>5. QED  BY <3>2, <3>3, <3>4
  <2>6. QED  BY <2>4, <2>5 DEF IInv
<1>4. QED  BY <1>2, <1>3

LEMMA AcknowledgeKeeps == ASSUME IInv, NEW h \in Handler, Acknowledge(h) PROVE IInv'
BY Ended DEF Acknowledge, IInv, Types

LEMMA ListTagsKeeps == ASSUME IInv, NEW h \in Handler, ListTags(h) PROVE IInv'
<1> DEFINE unseed == handler[h]
           left == IF unseed.release # NoRelease THEN {TagOf(h)}
                   ELSE {t \in tags : t.repo = unseed.repo /\ t.cid = unseed.cid}
           new == [handler[h] EXCEPT !.pc = "unseed", !.left = left]
<1>1. At(h, "start") /\ UNCHANGED <<present, tags, temps>>
      /\ handler' = [handler EXCEPT ![h] = new]
  BY DEF ListTags
<1>2. unseed \in Working
  BY <1>1, Works DEF IInv, At
<1>3. left \in SUBSET Tag
  BY <1>2 DEF TagOf, Tag, Working, IInv, Types
<1>4. \A tag \in tags :
        /\ tag.repo = unseed.repo /\ tag.cid = unseed.cid
        /\ unseed.release \in {NoRelease, tag.release}
        => tag \in left
  <2> SUFFICES ASSUME NEW tag \in tags, tag.repo = unseed.repo, tag.cid = unseed.cid,
                      unseed.release \in {NoRelease, tag.release}
               PROVE  tag \in left
    OBVIOUS
  <2>1. CASE unseed.release = NoRelease
    BY <2>1
  <2>2. CASE unseed.release # NoRelease
    <3>1. tag = TagOf(h)
      BY <2>2 DEF IInv, Types, Tag, TagOf
    <3>2. QED  BY <2>2, <3>1
  <2>3. QED  BY <2>1, <2>2
<1>5. /\ new \in Working /\ new.pc = "unseed" /\ new.left = left
      /\ new.repo = unseed.repo /\ new.cid = unseed.cid /\ new.release = unseed.release
  <2> HIDE DEF left
  <2>1. QED  BY <1>2, <1>3 DEF Working
<1> HIDE DEF left, new
<1>6. handler'[h] = new
  BY <1>1 DEF IInv, Types
<1>7. Protected(h)'
  BY <1>1, <1>5, <1>6 DEF IInv, Protected, Holds, At
<1>8. Listed(h)'
  BY <1>1, <1>4, <1>5, <1>6 DEF Listed
<1>9. QED  BY <1>1, <1>5, <1>7, <1>8, Advanced

LEMMA DeleteTagKeeps ==
  ASSUME IInv, NEW h \in Handler, NEW tag \in Tag, DeleteTag(h, tag) PROVE IInv'
<1> DEFINE new == [handler[h] EXCEPT !.left = handler[h].left \ {tag}]
<1>1. /\ At(h, "unseed") /\ tag \in handler[h].left /\ tags' = tags \ {tag}
      /\ UNCHANGED <<present, temps>> /\ handler' = [handler EXCEPT ![h] = new]
  BY DEF DeleteTag
<1>2. handler[h] \in Working
  BY <1>1, Works DEF IInv, At
<1>3. handler[h].left \ {tag} \in (SUBSET Tag) \cup (SUBSET Hash)
  BY <1>2 DEF Working
<1>4. /\ new \in Working /\ new.pc = "unseed" /\ new.left = handler[h].left \ {tag}
      /\ new.repo = handler[h].repo /\ new.cid = handler[h].cid
      /\ new.release = handler[h].release /\ new.since = handler[h].since
  BY <1>1, <1>2, <1>3 DEF Working, At
<1> HIDE DEF new
<1>5. handler'[h] = new /\ \A o \in Handler \ {h} : handler'[o] = handler[o]
  BY <1>1 DEF IInv, Types
<1>6. Types'
  BY <1>1, <1>4 DEF IInv, Types
<1>7. ASSUME NEW o \in Handler PROVE Protected(o)' /\ Listed(o)'
  <2>1. Protected(o) /\ Listed(o)
    BY DEF IInv
  <2>2. CASE o = h
    <3>1. Protected(o)'
      BY <1>1, <1>4, <1>5, <2>1, <2>2 DEF Protected, Holds, At
    <3>2. Listed(o)'
      BY <1>1, <1>4, <1>5, <2>1, <2>2 DEF Listed, At
    <3>3. QED  BY <3>1, <3>2
  <2>3. CASE o # h
    <3>1. Protected(o)'
      BY <1>1, <1>5, <2>1, <2>3 DEF Protected, Holds, At, Complete
    <3>2. Listed(o)'
      BY <1>1, <1>5, <2>1, <2>3 DEF Listed, At
    <3>3. QED  BY <3>1, <3>2
  <2>4. QED  BY <2>2, <2>3
<1>8. QED  BY <1>6, <1>7 DEF IInv

LEMMA UnseedDoneKeeps == ASSUME IInv, NEW h \in Handler, UnseedDone(h) PROVE IInv'
BY Ended DEF UnseedDone, IInv, Types

LEMMA HangUpKeeps == ASSUME IInv, NEW h \in Handler, HangUp(h) PROVE IInv'
BY Ended DEF HangUp, End, IInv, Types

-----------------------------------------------------------------------------
LEMMA RestartKeeps == ASSUME IInv, Restart PROVE IInv'
<1>1. Types'
  BY DEF Restart, IInv, Types, NoTemps
<1>2. \A h \in Handler : handler'[h] = Idle /\ temps'[h] = NoTemps
  BY DEF Restart
<1>3. \A h \in Handler : Protected(h)' /\ Listed(h)'
  BY <1>2 DEF Protected, Listed, Holds, At, Idle, NoTemps
<1>4. QED  BY <1>1, <1>3 DEF IInv

\* What the collector leaves of an artifact that has a root of its own.
LEMMA CollectSpares ==
  ASSUME NEW cid \in Roots, Root[cid] \in present, Collect
  PROVE  \A hash \in Parts(cid) : hash \in present => hash \in present'
<1>1. Parts(cid) \subseteq Live
  BY DEF Live, Reach
<1>2. QED  BY <1>1 DEF Collect

LEMMA OnlyTheCollectorTakes ==
  ASSUME [Next]_vars, ~Collect PROVE present \subseteq present'
<1>1. CASE UNCHANGED vars
  BY <1>1 DEF vars
<1>2. CASE Restart
  BY <1>2 DEF Restart
<1>3. ASSUME NEW h \in Handler, Receive(h) \/ ImportFails(h) \/ HangUp(h)
      PROVE  present \subseteq present'
  BY <1>3 DEF Receive, ImportFails, HangUp
<1>4. ASSUME NEW h \in Handler, Step(h) PROVE present \subseteq present'
  <2>1. CASE \E hash \in Hash :
               ImportFile(h, hash) \/ DownloadPart(h, hash) \/ FetchUrl(h, hash) \/ ExportPart(h, hash)
    BY <2>1 DEF ImportFile, DownloadPart, FetchUrl, ExportPart
  <2>2. CASE ImportRoot(h) \/ TakeTemp(h) \/ FastPath(h) \/ SlowPath(h) \/ DownloadEnds(h)
    BY <2>2 DEF ImportRoot, TakeTemp, FastPath, SlowPath, DownloadEnds
  <2>3. CASE StartExport(h) \/ ExportDone(h) \/ SetTag(h) \/ Acknowledge(h)
    BY <2>3 DEF StartExport, ExportDone, SetTag, Acknowledge
  <2>4. CASE ListTags(h) \/ UnseedDone(h) \/ \E tag \in Tag : DeleteTag(h, tag)
    BY <2>4 DEF ListTags, UnseedDone, DeleteTag
  <2>5. QED  BY <1>4, <2>1, <2>2, <2>3, <2>4 DEF Step
<1>5. QED  BY <1>1, <1>2, <1>3, <1>4 DEF Next

LEMMA CollectKeeps == ASSUME IInv, Collect PROVE IInv'
<1>1. present' = present \cap Live /\ UNCHANGED <<tags, temps, handler>>
  BY DEF Collect
<1>2. Types'
  BY <1>1 DEF IInv, Types
<1>3. ASSUME NEW h \in Handler PROVE Protected(h)'
  <2> DEFINE cid == handler[h].cid
  <2>1. Protected(h)
    BY DEF IInv
  <2>2. temps[h].files \subseteq present'
    BY <1>1, <2>1 DEF Protected, Live
  <2>3. ASSUME Holds(h), Root[cid] \in present
        PROVE  \A hash \in Parts(cid) : hash \in present => hash \in present'
    <3>1. cid \in Roots
      BY <2>1, <2>3 DEF Protected, Roots
    <3>2. QED  BY <2>3, <3>1, CollectSpares
  <2>4. At(h, "export") /\ handler[h].cmd = "download" =>
          Root[cid] \in present' /\ Parts(cid) \ handler[h].left \subseteq present'
    BY <2>1, <2>3 DEF Protected, Holds, Parts
  <2>5. handler[h].pc \in {"tag", "tagged"} /\ ~handler[h].fromCache =>
          Parts(cid) \subseteq present'
    <3> SUFFICES ASSUME handler[h].pc \in {"tag", "tagged"}, ~handler[h].fromCache
                 PROVE  Parts(cid) \subseteq present'
      OBVIOUS
    <3>1. Holds(h) /\ Parts(cid) \subseteq present
      BY <2>1 DEF Protected, Holds, Complete
    <3>2. QED  BY <2>3, <3>1 DEF Parts
  <2>6. QED  BY <1>1, <2>1, <2>2, <2>4, <2>5 DEF Protected, Holds, At, Complete
<1>4. \A h \in Handler : Listed(h)'
  BY <1>1 DEF IInv, Listed, At
<1>5. QED  BY <1>2, <1>3, <1>4 DEF IInv

LEMMA StepKeeps == ASSUME IInv, [Next]_vars PROVE IInv'
<1>1. CASE UNCHANGED vars
  BY <1>1 DEF vars, IInv, Types, Protected, Listed, Holds, At, Complete
<1>2. CASE Restart
  BY <1>2, RestartKeeps
<1>3. CASE Collect
  BY <1>3, CollectKeeps
<1>4. ASSUME NEW h \in Handler, Receive(h) \/ ImportFails(h) \/ HangUp(h) PROVE IInv'
  BY <1>4, ReceiveKeeps, ImportFailsKeeps, HangUpKeeps
<1>5. ASSUME NEW h \in Handler, Step(h) PROVE IInv'
  BY <1>5, ImportRootKeeps, TakeTempKeeps, FastPathKeeps, SlowPathKeeps, DownloadEndsKeeps,
     StartExportKeeps, ExportDoneKeeps, SetTagKeeps, AcknowledgeKeeps, ListTagsKeeps,
     UnseedDoneKeeps, ImportFileKeeps, DownloadPartKeeps, FetchUrlKeeps, ExportPartKeeps, DeleteTagKeeps
     DEF Step
<1>6. QED  BY <1>1, <1>2, <1>3, <1>4, <1>5 DEF Next

-----------------------------------------------------------------------------
\* What every handler relies on holds between any two steps of any of them, of
\* the collector and of the unseeds (node.rs, seeder.rs, fetch.rs).
THEOREM SeedNodeInvariant == Spec => []IInv
<1>1. IInv /\ [Next]_vars => IInv'
  BY StepKeeps
<1>2. QED  BY InitIInv, <1>1, PTL DEF Spec

\* Handlers, tags and the store stay well formed.
THEOREM SeedNodeTypeCorrect == Spec => []TypeOK
<1>1. IInv => TypeOK
  BY DEF IInv, Types, TypeOK
<1>2. QED  BY <1>1, SeedNodeInvariant, PTL

\* "The freshly imported bytes are never momentarily unprotected": of what a
\* handler acknowledges every byte is in the store, for collections of any size
\* and however they share members (seed_response, fetch_into_store).
THEOREM AcknowledgedStaysComplete == Spec => []AcknowledgedIsComplete
<1>1. IInv => AcknowledgedIsComplete
  BY DEF IInv, Protected, AcknowledgedIsComplete, At
<1>2. QED  BY <1>1, SeedNodeInvariant, PTL

\* An unseed of all releases leaves none behind (unseed_response).
THEOREM UnseedLeavesNone == Spec => []UnseedMissesNone
<1>1. IInv => UnseedMissesNone
  BY DEF IInv, Listed, UnseedMissesNone
<1>2. QED  BY <1>1, SeedNodeInvariant, PTL

\* As long as some release seeds a complete artifact the collector takes none of
\* its bytes away; nobody else takes any.
THEOREM SeededIsKept == Spec => KeptWhileSeeded
<1>1. ASSUME [Next]_vars, NEW cid \in Cid, Complete(cid), NEW tag \in tags, tag.cid = cid
      PROVE  Complete(cid)'
  <2>1. CASE Collect
    <3>1. cid \in Roots /\ Root[cid] \in present /\ Parts(cid) \subseteq present
      BY <1>1 DEF Roots, Complete, Parts
    <3>2. QED  BY <2>1, <3>1, CollectSpares DEF Complete
  <2>2. CASE ~Collect
    <3>1. present \subseteq present'
      BY <1>1, <2>2, OnlyTheCollectorTakes
    <3>2. QED  BY <1>1, <3>1 DEF Complete
  <2>3. QED  BY <2>1, <2>2
<1>2. ASSUME [Next]_vars
      PROVE  [\A cid \in Cid :
                /\ Complete(cid)
                /\ \E tag \in tags : tag.cid = cid
                /\ \E tag \in tags' : tag.cid = cid
                => Complete(cid)']_vars
  BY <1>1, <1>2
<1>3. QED  BY <1>2, PTL DEF Spec, KeptWhileSeeded
================================================================================
