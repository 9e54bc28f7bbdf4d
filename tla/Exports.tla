-------------------------------- MODULE Exports --------------------------------
(***************************************************************************)
(* Exports of artifacts from the store to one destination path (fetch.rs), *)
(* each streamed to the client that asked for it (node.rs run_stream, the  *)
(* client's call_streaming).  All exports to one destination share the     *)
(* hidden sibling they are staged in.                                      *)
(*                                                                         *)
(* A path holds a file or a directory; its parts are the chunks of a blob  *)
(* or the members of a collection.  Paths are followed by name: where two  *)
(* exports overlap, an open file that was renamed meanwhile is not.        *)
(* Between two awaits the operation cannot be dropped, but other           *)
(* operations run on other threads, and the daemon can be killed.          *)
(***************************************************************************)
EXTENDS FiniteSets, Sequences, SequencesExt

CONSTANTS
  Export,       \* connections that export to this destination
  Cid,          \* artifacts
  Part,         \* chunks and members
  Parts,        \* Parts[cid]
  Collections,  \* the artifacts that are collections
  Missing       \* nothing at a path

ASSUME ExportsAssumption ==
  /\ Parts \in [Cid -> SUBSET Part] /\ Collections \subseteq Cid
  /\ \A cid \in Cid : IsFiniteSet(Parts[cid])
  /\ Missing \notin [kind : {"file", "directory"}, parts : SUBSET Part]
  /\ Cid \cap {"idle", "reading", "error", "eof", "gone", "progress"} = {}

VARIABLES
  dest,     \* what is at the destination
  staging,  \* what is at its sibling, .<name>.rad-partial
  op,       \* op[e]: the operation of a connection
  buffer,   \* buffer[e]: progress the operation reported, not yet written
  wire,     \* wire[e]: frames written, not yet read
  client,   \* client[e]: what the client knows
  debris,   \* history: a killed daemon left the staging path
  clashed,  \* history: two exports were under way at one time
  torn,     \* history: the destination is what the removal of a directory left
  newer     \* history: exports after which another one began

vars == <<dest, staging, op, buffer, wire, client, debris, clashed, torn, newer>>

Kind(cid) == IF cid \in Collections THEN "directory" ELSE "file"

\* What kind of thing is at a path.
Of(path) == IF path = Missing THEN "nothing" ELSE path.kind

Path(kind, parts) == [kind |-> kind, parts |-> parts]

Whole(cid) == Path(Kind(cid), Parts[cid])

NoOp == [pc |-> "closed"]

Ops ==
  [pc : {"load", "stage", "write", "swap", "rename", "drop", "finish"}, cid : Cid,
   left : SUBSET Part, outcome : {"okay", "error"}]

Init ==
  /\ dest \in {Missing} \cup {Whole(cid) : cid \in Cid}
  /\ staging = Missing
  /\ op = [e \in Export |-> NoOp]
  /\ buffer = [e \in Export |-> 0]
  /\ wire = [e \in Export |-> <<>>]
  /\ client = [e \in Export |-> "idle"]
  /\ debris = FALSE /\ clashed = FALSE /\ torn = FALSE /\ newer = {}

Active(e) == op[e] # NoOp

At(e, pc) == op[e].pc = pc

Goto(e, pc) == op' = [op EXCEPT ![e].pc = pc]

\* export_streamed: a frame for the client each time a part is written.
Report(e) == buffer' = [buffer EXCEPT ![e] = @ + 1]

stream == <<buffer, wire, client>>
history == <<clashed, torn, newer>>

-----------------------------------------------------------------------------
\* stream_export, and stream_download once the bytes are in the store.
Begin(e, cid) ==
  /\ ~Active(e) /\ client[e] # "reading"
  /\ op' = [op EXCEPT ![e] =
       [pc |-> IF cid \in Collections THEN "load" ELSE "stage", cid |-> cid,
        left |-> Parts[cid], outcome |-> "okay"]]
  /\ wire' = [wire EXCEPT ![e] = <<>>]
  /\ client' = [client EXCEPT ![e] = "reading"]
  /\ clashed' = (clashed \/ \E f \in Export : Active(f))
  /\ newer' = (Export \ {e}) \cap (newer \cup {f \in Export : client[f] # "idle"})
  /\ UNCHANGED <<dest, staging, buffer, debris, torn>>

\* An error after the guard (ScopedPath) was made: it removes the staging path,
\* whosever it is.
Fail(e) ==
  /\ op' = [op EXCEPT ![e].pc = "finish", ![e].outcome = "error"]
  /\ staging' = Missing /\ debris' = FALSE

\* Collection::load; without the root or its names nothing was staged yet.
Load(e) ==
  /\ At(e, "load")
  /\ \/ Goto(e, "stage")
     \/ op' = [op EXCEPT ![e].pc = "finish", ![e].outcome = "error"]
  /\ UNCHANGED <<dest, staging, stream, debris, history>>

\* Mutant: the old destination makes room as soon as the export begins.
StageInPlace(e) ==
  LET kind == Kind(op[e].cid)
  IN  /\ At(e, "stage")
      /\ IF Of(staging) \notin {kind, "nothing"}
         THEN Fail(e) /\ UNCHANGED dest
         ELSE /\ staging' = Path(kind, {}) /\ dest' = Missing
              /\ Goto(e, "write") /\ UNCHANGED debris
      /\ UNCHANGED <<stream, history>>

\* What is left there of a killed export is cleared, if it is of the same kind;
\* if not it costs this export, whose guard takes it away.
Stage(e) ==
  LET kind == Kind(op[e].cid)
  IN  /\ At(e, "stage")
      /\ IF Of(staging) \notin {kind, "nothing"}
         THEN Fail(e)
         ELSE staging' = Path(kind, {}) /\ Goto(e, "write") /\ UNCHANGED debris
      /\ UNCHANGED <<dest, stream, history>>

\* export_members makes the directory again for each member; a file that was
\* unlinked does not come back.
WritePart(e, part) ==
  LET kind == Kind(op[e].cid)
  IN  /\ At(e, "write") /\ part \in op[e].left
      /\ Of(staging) \in {kind, "nothing"}
      /\ staging' = IF Of(staging) = kind THEN Path(kind, staging.parts \cup {part})
                    ELSE IF kind = "directory" THEN Path(kind, {part}) ELSE Missing
      /\ op' = [op EXCEPT ![e].left = @ \ {part}]
      /\ Report(e)
      /\ UNCHANGED <<dest, wire, client, debris, history>>

\* Mutant: what failed stays where it was staged.
WriteFailsUnguarded(e) ==
  /\ At(e, "write") /\ op[e].left # {}
  /\ op' = [op EXCEPT ![e].pc = "finish", ![e].outcome = "error"]
  /\ UNCHANGED <<dest, staging, debris, stream, history>>

\* A member is not in the store, has an unsafe name, or the disk is full.
WriteFails(e) ==
  /\ At(e, "write") /\ op[e].left # {}
  /\ Fail(e)
  /\ UNCHANGED <<dest, stream, history>>

\* Mutant: the exports of the members are started and not awaited.
WrittenEarly(e) ==
  /\ At(e, "write")
  /\ Goto(e, IF op[e].cid \in Collections THEN "swap" ELSE "rename")
  /\ UNCHANGED <<dest, staging, stream, debris, history>>

Written(e) ==
  /\ At(e, "write") /\ op[e].left = {}
  /\ Goto(e, IF op[e].cid \in Collections THEN "swap" ELSE "rename")
  /\ UNCHANGED <<dest, staging, stream, debris, history>>

\* remove_dir_all: the old directory goes file by file.
RemovePart(e, part) ==
  /\ At(e, "swap") /\ Of(dest) = "directory" /\ part \in dest.parts
  /\ dest' = Path("directory", dest.parts \ {part}) /\ torn' = TRUE
  /\ UNCHANGED <<staging, op, stream, debris, clashed, newer>>

\* An empty directory goes at once, and where there is none nothing is to do.  A
\* file does not give way, and the removal may fail wherever it has come to.
Swap(e) ==
  /\ At(e, "swap")
  /\ \/ /\ dest \in {Missing, Path("directory", {})}
        /\ dest' = Missing /\ torn' = FALSE
        /\ Goto(e, "rename") /\ UNCHANGED <<staging, debris>>
     \/ Fail(e) /\ UNCHANGED <<dest, torn>>
  /\ UNCHANGED <<stream, clashed, newer>>

\* A file is renamed over a file, a directory over nothing.
Renamable ==
  \/ Of(dest) = "nothing" /\ Of(staging) # "nothing"
  \/ Of(dest) = "file" /\ Of(staging) = "file"

\* Mutant: whether the rename succeeds is not looked at.
RenameUnchecked(e) ==
  /\ At(e, "rename")
  /\ \/ Renamable /\ dest' = staging /\ staging' = Missing /\ torn' = FALSE
     \/ UNCHANGED <<dest, staging, torn>>
  /\ Goto(e, "drop")
  /\ UNCHANGED <<debris, stream, clashed, newer>>

\* The rename may fail where it could succeed; the guard then removes the new
\* one, and the old directory is gone already.
Rename(e) ==
  /\ At(e, "rename")
  /\ \/ /\ Renamable
        /\ dest' = staging /\ staging' = Missing /\ torn' = FALSE
        /\ Goto(e, "drop") /\ UNCHANGED debris
     \/ Fail(e) /\ UNCHANGED <<dest, torn>>
  /\ UNCHANGED <<stream, clashed, newer>>

\* The guard goes out of scope.
DropGuard(e) ==
  /\ At(e, "drop")
  /\ staging' = Missing /\ debris' = FALSE
  /\ Goto(e, "finish")
  /\ UNCHANGED <<dest, stream, history>>

-----------------------------------------------------------------------------
Progress(n) == [i \in 1..n |-> "progress"]

Close(e) == op' = [op EXCEPT ![e] = NoOp] /\ buffer' = [buffer EXCEPT ![e] = 0]

\* run_stream: progress goes out while the operation runs ...
Forward(e) ==
  /\ Active(e) /\ buffer[e] > 0 /\ client[e] = "reading"
  /\ wire' = [wire EXCEPT ![e] = Append(@, "progress")]
  /\ buffer' = [buffer EXCEPT ![e] = @ - 1]
  /\ UNCHANGED <<dest, staging, op, client, debris, history>>

\* The terminal frame; that of a success is the receipt, which names the artifact.
Terminal(e) == IF op[e].outcome = "okay" THEN op[e].cid ELSE "error"

\* Mutant: the result is written first.
FinishFirst(e) ==
  /\ At(e, "finish")
  /\ Close(e)
  /\ wire' = [wire EXCEPT ![e] = @ \o <<Terminal(e)>> \o Progress(buffer[e])]
  /\ UNCHANGED <<dest, staging, client, debris, history>>

\* ... and what is buffered before the result.
Finish(e) ==
  /\ At(e, "finish")
  /\ Close(e)
  /\ wire' = [wire EXCEPT ![e] = @ \o Progress(buffer[e]) \o <<Terminal(e)>>]
  /\ UNCHANGED <<dest, staging, client, debris, history>>

\* Mutant: only a frame that cannot be written tells that the client is gone.
HangUpOnWrite(e) ==
  /\ client[e] = "gone" /\ Active(e) /\ op[e].pc \in {"load", "write"} /\ buffer[e] > 0
  /\ Close(e)
  /\ IF At(e, "write") THEN staging' = Missing /\ debris' = FALSE
     ELSE UNCHANGED <<staging, debris>>
  /\ UNCHANGED <<dest, wire, client, history>>

\* The read side is polled for the end of the stream: the operation is dropped
\* where it awaits, and with it its guard.
HangUp(e) ==
  /\ client[e] = "gone" /\ Active(e) /\ op[e].pc \in {"load", "write"}
  /\ Close(e)
  /\ IF At(e, "write") THEN staging' = Missing /\ debris' = FALSE
     ELSE UNCHANGED <<staging, debris>>
  /\ UNCHANGED <<dest, wire, client, history>>

\* call_streaming: one frame at a time until the terminal one.
Read(e) ==
  /\ client[e] = "reading" /\ wire[e] # <<>>
  /\ wire' = [wire EXCEPT ![e] = Tail(@)]
  /\ client' = [client EXCEPT ![e] = IF Head(wire[e]) = "progress" THEN @ ELSE Head(wire[e])]
  /\ UNCHANGED <<dest, staging, op, buffer, debris, history>>

\* The connection ends before the result.
Eof(e) ==
  /\ client[e] = "reading" /\ wire[e] = <<>> /\ ~Active(e)
  /\ client' = [client EXCEPT ![e] = "eof"]
  /\ UNCHANGED <<dest, staging, op, buffer, wire, debris, history>>

\* No frame within `idle`, or the user interrupts it.
Leave(e) ==
  /\ client[e] = "reading"
  /\ client' = [client EXCEPT ![e] = "gone"]
  /\ wire' = [wire EXCEPT ![e] = <<>>]
  /\ UNCHANGED <<dest, staging, op, buffer, debris, history>>

\* The daemon is killed: no guard runs.
Kill ==
  /\ \E e \in Export : Active(e)
  /\ op' = [e \in Export |-> NoOp] /\ buffer' = [e \in Export |-> 0]
  /\ debris' = (debris \/ staging # Missing)
  /\ UNCHANGED <<dest, staging, wire, client, history>>

-----------------------------------------------------------------------------
Work(e) ==
  \/ Load(e) \/ Stage(e) \/ WriteFails(e) \/ Written(e) \/ Swap(e) \/ Rename(e)
  \/ DropGuard(e) \/ \E part \in Part : WritePart(e, part) \/ RemovePart(e, part)

Deliver(e) == Forward(e) \/ Finish(e) \/ HangUp(e)

Next ==
  \/ \E e \in Export :
       \/ \E cid \in Cid : Begin(e, cid)
       \/ Active(e) /\ (Work(e) \/ Deliver(e))
       \/ Read(e) \/ Eof(e) \/ Leave(e)
  \/ Kill

Spec == Init /\ [][Next]_vars

\* The task is polled when there is something to deliver, and what it computes
\* without awaiting comes to an end, the removal of a directory included, well or
\* not; the disk may stall for ever where it is awaited.
FairSpec ==
  Spec /\ \A e \in Export :
    WF_vars(Active(e) /\ \/ Deliver(e) \/ Written(e) \/ Swap(e)
                         \/ op[e].pc \notin {"load", "write", "swap"} /\ Work(e))

-----------------------------------------------------------------------------
\* Types, and that nothing follows the terminal frame.
TypeOK ==
  /\ {dest, staging} \subseteq {Missing} \cup [kind : {"file", "directory"}, parts : SUBSET Part]
  /\ op \in [Export -> Ops \cup {NoOp}]
  /\ \A e \in Export :
       /\ client[e] \in {"idle", "reading", "error", "eof", "gone"} \cup Cid
       /\ \A i \in DOMAIN wire[e] : i < Len(wire[e]) => wire[e][i] = "progress"
  /\ clashed \in BOOLEAN /\ debris \in BOOLEAN /\ torn \in BOOLEAN /\ newer \subseteq Export

\* "A kill or cancellation mid-export never leaves a truncated file at dest"
\* (fetch.rs): as long as exports to it do not overlap, nothing is ever there in
\* part but what the removal of an old directory has left of it (`torn`, which
\* the doc of export_collection_to overlooks).
DestIsWhole == ~clashed /\ ~torn => dest \in {Missing} \cup {Whole(cid) : cid \in Cid}

\* The client that reads a receipt has the artifact it asked for at the
\* destination, all of it, unless another export was begun there.
OkayMeansExported ==
  \A e \in Export :
    client[e] \in Cid /\ e \notin newer /\ ~clashed => dest = Whole(client[e])

\* What is at the destination is touched only by an export that has the whole of
\* its replacement beside it: one that fails or is cancelled before costs nothing.
OldStaysUntilNew ==
  [][~clashed /\ dest' # dest =>
       \E e \in Export : Active(e) /\ staging = Whole(op[e].cid)]_vars

\* "An aborted export/download leaves no stray temp file or staging directory"
\* (ScopedPath): even if exports overlap, the last one takes it away; only a
\* kill leaves something, until the next export.
NothingIsLeftBehind ==
  staging # Missing =>
    debris \/ \E e \in Export : Active(e) /\ op[e].pc \in {"write", "swap", "rename", "drop"}

\* "A vanished client never leaves `op` running" (run_stream), not even in a
\* phase that has nothing to report.
VanishedClientStopsExport == \A e \in Export : client[e] = "gone" ~> ~Active(e)
================================================================================
