----------------------------- MODULE Exports_proofs -----------------------------
(***************************************************************************)
(* Theorems about exports to one destination, for any number of them, of   *)
(* artifacts of any number of parts, with failures, hang-ups and kills at  *)
(* every step.                                                             *)
(***************************************************************************)
EXTENDS Exports, Integers, SequenceTheorems, TLAPS

Paths == {Missing} \cup [kind : {"file", "directory"}, parts : SUBSET Part]

Frame == {"progress", "error"} \cup Cid

Types ==
  /\ dest \in Paths /\ staging \in Paths
  /\ op \in [Export -> Ops \cup {NoOp}]
  /\ buffer \in [Export -> Nat] /\ wire \in [Export -> Seq(Frame)]
  /\ client \in [Export -> {"idle", "reading", "error", "eof", "gone"} \cup Cid]
  /\ clashed \in BOOLEAN /\ debris \in BOOLEAN /\ torn \in BOOLEAN /\ newer \subseteq Export

\* An operation that is under way has not answered, and nobody has read an answer.
Streamed ==
  \A e \in Export :
    /\ Active(e) => client[e] \in {"reading", "gone"}
    /\ client[e] = "idle" => wire[e] = <<>>
    /\ \A i \in 1..Len(wire[e]) :
         wire[e][i] # "progress" => i = Len(wire[e]) /\ ~Active(e)

\* Without a clash one operation is under way, and it is the newest.
Alone == \A e, f \in Export : Active(e) /\ Active(f) => e = f

Newest ==
  \A e, f \in Export : client[e] # "idle" /\ e \notin newer /\ Active(f) => e = f

\* What is at the two paths when an operation that nobody disturbs has come this far.
Staged(e) ==
  LET cid == op[e].cid
      left == op[e].left
  IN  /\ op[e].pc # "finish" => op[e].outcome = "okay"
      /\ op[e].pc \in {"load", "stage"} => left = Parts[cid]
      /\ op[e].pc = "write" =>
           left \subseteq Parts[cid] /\ staging = Path(Kind(cid), Parts[cid] \ left)
      /\ op[e].pc = "swap" => cid \in Collections /\ staging = Whole(cid)
      /\ op[e].pc = "rename" => staging = Whole(cid) /\ (cid \in Collections => dest = Missing)
      /\ op[e].pc \in {"drop", "finish"} /\ op[e].outcome = "okay" => dest = Whole(cid)

\* A receipt, read or on its way, tells what is there.
Vouched(e) ==
  /\ client[e] \in Cid => dest = Whole(client[e])
  /\ \A i \in 1..Len(wire[e]) : wire[e][i] \in Cid => dest = Whole(wire[e][i])

Undisturbed ==
  ~clashed =>
    /\ Alone /\ Newest
    /\ \A e \in Export : Active(e) => Staged(e)
    /\ \A e \in Export \ newer : Vouched(e)

\* The inductive invariant.
IInv ==
  /\ Types /\ Streamed /\ Undisturbed
  /\ DestIsWhole /\ NothingIsLeftBehind

-----------------------------------------------------------------------------
LEMMA WholeIsPath == ASSUME NEW cid \in Cid PROVE Whole(cid) \in Paths \ {Missing}
BY ExportsAssumption DEF Whole, Path, Kind, Paths

LEMMA InitIInv == Init => IInv
<1> SUFFICES ASSUME Init PROVE IInv
  OBVIOUS
<1>1. dest \in {Missing} \cup {Whole(cid) : cid \in Cid} /\ staging = Missing
      /\ torn = FALSE
  BY DEF Init
<1>2. dest \in Paths
  BY <1>1, WholeIsPath DEF Paths
<1>3. \A e \in Export : op[e] = NoOp /\ wire[e] = <<>> /\ client[e] = "idle" /\ buffer[e] = 0
  BY DEF Init
<1>4. Types
  <2>1. <<>> \in Seq(Frame)
    OBVIOUS
  <2>2. QED  BY <1>1, <1>2, <1>3, <2>1 DEF Init, Types, Paths
<1>5. Streamed
  BY <1>3 DEF Streamed, Active
<1>6. Undisturbed
  <2>1. \A e \in Export : Vouched(e)
    BY <1>3, ExportsAssumption DEF Vouched
  <2>2. QED  BY <1>3, <2>1 DEF Undisturbed, Alone, Newest, Active
<1>7. DestIsWhole /\ NothingIsLeftBehind
  BY <1>1 DEF DestIsWhole, NothingIsLeftBehind
<1>8. QED  BY <1>4, <1>5, <1>6, <1>7 DEF IInv

-----------------------------------------------------------------------------
\* An operation that is under way moves, and tells its client nothing.
LEMMA Moved ==
  ASSUME IInv, NEW e \in Export, Active(e),
         NEW new \in Ops, new.cid = op[e].cid, op' = [op EXCEPT ![e] = new],
         UNCHANGED <<wire, client, clashed, newer>>, buffer' \in [Export -> Nat],
         dest' \in Paths, staging' \in Paths, debris' \in BOOLEAN, torn' \in BOOLEAN,
         ~clashed => Staged(e)'
  PROVE  Types' /\ Streamed' /\ Undisturbed'
<1> USE DEF IInv
<1>1. /\ op' \in [Export -> Ops \cup {NoOp}] /\ op'[e] = new
      /\ \A f \in Export \ {e} : op'[f] = op[f]
  BY DEF Types
<1>2. Active(e)' /\ \A f \in Export : Active(f)' <=> Active(f)
  BY <1>1 DEF Active, Ops, NoOp
<1>3. Types'
  BY <1>1 DEF Types
<1>4. Streamed'
  BY <1>2 DEF Streamed, Active
<1>5. ASSUME ~clashed PROVE Alone' /\ Newest' /\ \A f \in Export : Active(f)' => Staged(f)'
  <2>1. Alone /\ Newest
    BY <1>5 DEF Undisturbed
  <2>2. QED  BY <1>2, <1>5, <2>1 DEF Alone, Newest, Active
<1>6. ASSUME ~clashed, NEW f \in Export \ newer PROVE Vouched(f)'
  <2>1. CASE client[f] = "idle"
    BY <2>1, ExportsAssumption DEF Streamed, Vouched
  <2>2. CASE client[f] # "idle"
    <3>1. f = e
      BY <1>6, <2>2 DEF Undisturbed, Newest
    <3>2. client[e] \in {"reading", "gone"} /\ \A i \in 1..Len(wire[e]) : wire[e][i] = "progress"
      BY DEF Streamed
    <3>3. QED  BY <3>1, <3>2, ExportsAssumption DEF Vouched
  <2>3. QED  BY <2>1, <2>2
<1>7. Undisturbed'
  BY <1>5, <1>6 DEF Undisturbed
<1>8. QED  BY <1>3, <1>4, <1>7

\* The next record of an operation.
LEMMA GotoSets ==
  ASSUME Types, NEW e \in Export, Active(e),
         NEW to \in {"stage", "swap", "rename", "drop", "finish", "write"}, Goto(e, to)
  PROVE  \E new \in Ops :
           /\ op' = [op EXCEPT ![e] = new]
           /\ new.pc = to /\ new.cid = op[e].cid /\ new.left = op[e].left
           /\ new.outcome = op[e].outcome
<1> DEFINE new == [op[e] EXCEPT !.pc = to]
<1>1. op[e] \in Ops
  BY DEF Types, Active
<1>2. new \in Ops /\ new.pc = to /\ new.cid = op[e].cid /\ new.left = op[e].left
      /\ new.outcome = op[e].outcome
  BY <1>1 DEF Ops
<1>3. op' = [op EXCEPT ![e] = new]
  BY DEF Goto
<1> HIDE DEF new
<1>4. QED  BY <1>2, <1>3

LEMMA FailSets ==
  ASSUME Types, NEW e \in Export, Active(e),
         op' = [op EXCEPT ![e].pc = "finish", ![e].outcome = "error"]
  PROVE  \E new \in Ops :
           /\ op' = [op EXCEPT ![e] = new]
           /\ new.pc = "finish" /\ new.cid = op[e].cid /\ new.outcome = "error"
<1> DEFINE new == [[op[e] EXCEPT !.pc = "finish"] EXCEPT !.outcome = "error"]
<1>1. op[e] \in Ops
  BY DEF Types, Active
<1>2. new \in Ops /\ new.pc = "finish" /\ new.cid = op[e].cid /\ new.outcome = "error"
  BY <1>1 DEF Ops
<1>3. op' = [op EXCEPT ![e] = new]
  BY <1>1 DEF Types
<1> HIDE DEF new
<1>4. QED  BY <1>2, <1>3

\* An export that fails leaves the destination as it found it, or made it.
LEMMA FailKeeps ==
  ASSUME IInv, NEW e \in Export, Active(e),
         op' = [op EXCEPT ![e].pc = "finish", ![e].outcome = "error"],
         UNCHANGED <<dest, buffer, wire, client, clashed, torn, newer>>,
         \/ staging' = Missing /\ debris' = FALSE
         \/ op[e].pc = "load" /\ UNCHANGED <<staging, debris>>
  PROVE  IInv'
<1>1. PICK new \in Ops :
        /\ op' = [op EXCEPT ![e] = new]
        /\ new.pc = "finish" /\ new.cid = op[e].cid /\ new.outcome = "error"
  BY FailSets DEF IInv
<1>2. op'[e] = new /\ \A f \in Export \ {e} : op'[f] = op[f]
  BY <1>1 DEF IInv, Types
<1>3. Staged(e)'
  BY <1>1, <1>2 DEF Staged
<1>4. Types' /\ Streamed' /\ Undisturbed'
  <2>1. Types /\ (~clashed => Staged(e)')
    BY <1>3 DEF IInv
  <2>2. buffer' \in [Export -> Nat] /\ dest' \in Paths /\ staging' \in Paths
        /\ debris' \in BOOLEAN /\ torn' \in BOOLEAN
    BY <2>1 DEF Types, Paths
  <2>3. new.cid = op[e].cid
    BY <1>1
  <2>4. QED  BY <1>1, <2>1, <2>2, <2>3, Moved
<1>5. DestIsWhole'
  BY DEF IInv, DestIsWhole
<1>6. NothingIsLeftBehind'
  BY <1>1, <1>2 DEF IInv, NothingIsLeftBehind, Active
<1>7. QED  BY <1>4, <1>5, <1>6 DEF IInv

LEMMA LoadKeeps == ASSUME IInv, NEW e \in Export, Active(e), Load(e) PROVE IInv'
<1>1. op[e].pc = "load" /\ UNCHANGED <<dest, staging, buffer, wire, client, debris,
                                       clashed, torn, newer>>
  BY DEF Load, At, stream, history
<1>2. CASE Goto(e, "stage")
  <2>1. PICK new \in Ops :
          /\ op' = [op EXCEPT ![e] = new]
          /\ new.pc = "stage" /\ new.cid = op[e].cid /\ new.left = op[e].left
          /\ new.outcome = op[e].outcome
    BY <1>2, GotoSets DEF IInv
  <2>2. op'[e] = new /\ \A f \in Export \ {e} : op'[f] = op[f]
    BY <2>1 DEF IInv, Types
  <2>3. ~clashed => Staged(e)'
    BY <1>1, <2>1, <2>2 DEF IInv, Undisturbed, Staged
  <2>4. Types' /\ Streamed' /\ Undisturbed'
    BY <1>1, <2>1, <2>3, Moved DEF IInv, Types
  <2>5. DestIsWhole' /\ NothingIsLeftBehind'
    BY <1>1, <2>1, <2>2
       DEF IInv, DestIsWhole, NothingIsLeftBehind, Active, At
  <2>6. QED  BY <2>4, <2>5 DEF IInv
<1>3. CASE op' = [op EXCEPT ![e].pc = "finish", ![e].outcome = "error"]
  BY <1>1, <1>3, FailKeeps
<1>4. QED  BY <1>2, <1>3 DEF Load

LEMMA StageKeeps == ASSUME IInv, NEW e \in Export, Active(e), Stage(e) PROVE IInv'
<1>1. op[e].pc = "stage" /\ UNCHANGED <<dest, buffer, wire, client, clashed, torn, newer>>
  BY DEF Stage, At, stream, history
<1>2. op[e] \in Ops /\ op[e].cid \in Cid
  BY DEF IInv, Types, Active, Ops
<1>4. CASE Fail(e)
  BY <1>1, <1>4, FailKeeps DEF Fail
<1>5. CASE staging' = Path(Kind(op[e].cid), {}) /\ Goto(e, "write") /\ UNCHANGED debris
  <2>1. PICK new \in Ops :
          /\ op' = [op EXCEPT ![e] = new]
          /\ new.pc = "write" /\ new.cid = op[e].cid /\ new.left = op[e].left
          /\ new.outcome = op[e].outcome
    BY <1>5, GotoSets DEF IInv
  <2>2. op'[e] = new /\ \A f \in Export \ {e} : op'[f] = op[f]
    BY <2>1 DEF IInv, Types
  <2>3. ~clashed => Staged(e)'
    <3>1. ASSUME ~clashed
          PROVE  /\ new.left = Parts[new.cid] /\ new.outcome = "okay"
                 /\ staging' = Path(Kind(new.cid), Parts[new.cid] \ new.left)
      <4>1. op[e].left = Parts[op[e].cid] /\ op[e].outcome = "okay"
        BY <1>1, <3>1 DEF IInv, Undisturbed, Staged
      <4>2. Parts[new.cid] \ new.left = {}
        BY <2>1, <4>1
      <4>3. QED  BY <1>5, <2>1, <4>1, <4>2
    <3>2. QED  BY <2>1, <2>2, <3>1 DEF Staged
  <2>4. staging' \in Paths
    BY <1>5 DEF Path, Kind, Paths
  <2>5. Types' /\ Streamed' /\ Undisturbed'
    BY <1>1, <1>5, <2>1, <2>3, <2>4, Moved DEF IInv, Types
  <2>6. DestIsWhole'
    BY <1>1 DEF IInv, DestIsWhole
  <2>7. NothingIsLeftBehind'
    BY <2>1, <2>2 DEF NothingIsLeftBehind, Active, Ops, NoOp
  <2>8. QED  BY <2>5, <2>6, <2>7 DEF IInv
<1>6. QED  BY <1>4, <1>5 DEF Stage

LEMMA WritePartKeeps ==
  ASSUME IInv, NEW e \in Export, Active(e), NEW part \in Part, WritePart(e, part) PROVE IInv'
<1> DEFINE kind == Kind(op[e].cid)
           new == [op[e] EXCEPT !.left = op[e].left \ {part}]
<1>1. /\ op[e].pc = "write" /\ part \in op[e].left /\ Of(staging) \in {kind, "nothing"}
      /\ staging' = IF Of(staging) = kind THEN Path(kind, staging.parts \cup {part})
                    ELSE IF kind = "directory" THEN Path(kind, {part}) ELSE Missing
      /\ op' = [op EXCEPT ![e] = new]
      /\ UNCHANGED <<dest, wire, client, debris, clashed, torn, newer>>
  BY DEF WritePart, At, history
<1>2. buffer' \in [Export -> Nat]
  BY DEF IInv, Types, WritePart, Report
<1>3. op[e] \in Ops
  BY DEF IInv, Types, Active
<1>4. /\ new \in Ops /\ new.pc = "write" /\ new.cid = op[e].cid
      /\ new.left = op[e].left \ {part} /\ new.outcome = op[e].outcome
  BY <1>1, <1>3 DEF Ops
<1>5. kind \in {"file", "directory"}
  BY DEF Kind
<1> HIDE DEF new
<1>6. op'[e] = new /\ \A f \in Export \ {e} : op'[f] = op[f]
  BY <1>1 DEF IInv, Types
<1>7. staging' \in Paths
  <2>1. CASE Of(staging) = kind
    <3>1. staging \in [kind : {"file", "directory"}, parts : SUBSET Part]
      BY <1>5, <2>1 DEF IInv, Types, Paths, Of
    <3>2. QED  BY <1>1, <1>5, <2>1, <3>1 DEF Path, Paths
  <2>2. CASE Of(staging) # kind
    BY <1>1, <1>5, <2>2 DEF Path, Paths
  <2>3. QED  BY <2>1, <2>2
<1>8. ASSUME ~clashed PROVE Staged(e)'
  <2>1. /\ op[e].left \subseteq Parts[op[e].cid] /\ op[e].outcome = "okay"
        /\ staging = Path(kind, Parts[op[e].cid] \ op[e].left)
    BY <1>1, <1>8 DEF IInv, Undisturbed, Staged
  <2>2. staging # Missing
    <3>1. Parts[op[e].cid] \ op[e].left \subseteq Part
      BY <1>3, ExportsAssumption DEF Ops
    <3>2. QED  BY <1>5, <2>1, <3>1, ExportsAssumption DEF Path
  <2>3. Of(staging) = kind /\ staging.parts = Parts[op[e].cid] \ op[e].left
    BY <2>1, <2>2 DEF Of, Path
  <2>4. Parts[op[e].cid] \ new.left = staging.parts \cup {part}
    BY <1>1, <1>4, <2>1, <2>3
  <2>5. staging' = Path(kind, Parts[new.cid] \ new.left)
    BY <1>1, <1>4, <2>3, <2>4
  <2>6. QED  BY <1>4, <1>6, <2>1, <2>5 DEF Staged
<1>9. Types' /\ Streamed' /\ Undisturbed'
  BY <1>1, <1>2, <1>4, <1>7, <1>8, Moved DEF IInv, Types
<1>10. DestIsWhole'
  BY <1>1, <1>4, <1>6 DEF IInv, DestIsWhole, Undisturbed, Alone, Active, At
<1>11. NothingIsLeftBehind'
  BY <1>4, <1>6 DEF NothingIsLeftBehind, Active, Ops, NoOp
<1>12. QED  BY <1>9, <1>10, <1>11 DEF IInv

LEMMA WriteFailsKeeps == ASSUME IInv, NEW e \in Export, Active(e), WriteFails(e) PROVE IInv'
<1>1. op[e].pc = "write" /\ UNCHANGED <<dest, buffer, wire, client, clashed, torn, newer>>
  BY DEF WriteFails, At, stream, history
<1>2. QED  BY <1>1, FailKeeps DEF WriteFails, Fail

LEMMA WrittenKeeps == ASSUME IInv, NEW e \in Export, Active(e), Written(e) PROVE IInv'
<1>1. /\ op[e].pc = "write" /\ op[e].left = {}
      /\ UNCHANGED <<dest, staging, buffer, wire, client, debris, clashed, torn, newer>>
  BY DEF Written, At, stream, history
<1> DEFINE to == IF op[e].cid \in Collections THEN "swap" ELSE "rename"
<1>2. PICK new \in Ops :
        /\ op' = [op EXCEPT ![e] = new]
        /\ new.pc = to /\ new.cid = op[e].cid /\ new.left = op[e].left
        /\ new.outcome = op[e].outcome
  <2>1. Goto(e, to) /\ to \in {"stage", "swap", "rename", "drop", "finish", "write"}
    BY DEF Written
  <2> HIDE DEF to
  <2>2. QED  BY <2>1, GotoSets DEF IInv
<1>3. op'[e] = new /\ \A f \in Export \ {e} : op'[f] = op[f]
  BY <1>2 DEF IInv, Types
<1>4. ASSUME ~clashed PROVE Staged(e)'
  <2>1. op[e].outcome = "okay" /\ staging = Path(Kind(op[e].cid), Parts[op[e].cid] \ {})
    BY <1>1, <1>4 DEF IInv, Undisturbed, Staged
  <2>2. staging = Whole(op[e].cid)
    BY <2>1 DEF Whole
  <2>3. QED  BY <1>1, <1>2, <1>3, <2>1, <2>2 DEF Staged, Whole
<1>5. Types' /\ Streamed' /\ Undisturbed'
  BY <1>1, <1>2, <1>4, Moved DEF IInv, Types
<1>6. DestIsWhole' /\ NothingIsLeftBehind'
  BY <1>1, <1>2, <1>3
     DEF IInv, DestIsWhole, NothingIsLeftBehind, Undisturbed, Alone,
         Active, At, Ops, NoOp
<1>7. QED  BY <1>5, <1>6 DEF IInv

LEMMA RemovePartKeeps ==
  ASSUME IInv, NEW e \in Export, Active(e), NEW part \in Part, RemovePart(e, part) PROVE IInv'
<1>1. /\ op[e].pc = "swap" /\ dest' = Path("directory", dest.parts \ {part}) /\ torn' = TRUE
      /\ Of(dest) = "directory"
      /\ UNCHANGED <<staging, op, buffer, wire, client, debris, clashed, newer>>
  BY DEF RemovePart, At, stream
<1>2. op[e] \in Ops /\ op' = [op EXCEPT ![e] = op[e]]
  BY <1>1 DEF IInv, Types, Active
<1>3. dest' \in Paths
  <2>1. dest \in [kind : {"file", "directory"}, parts : SUBSET Part]
    BY <1>1 DEF IInv, Types, Paths, Of
  <2>2. QED  BY <1>1, <2>1 DEF Paths, Path
<1>4. ~clashed => Staged(e)'
  BY <1>1 DEF IInv, Undisturbed, Staged, Whole
<1>5. Types' /\ Streamed' /\ Undisturbed'
  <2>1. /\ op[e].cid = op[e].cid /\ buffer' \in [Export -> Nat] /\ staging' \in Paths
        /\ debris' \in BOOLEAN /\ torn' \in BOOLEAN
    BY <1>1 DEF IInv, Types
  <2>2. QED  BY <1>1, <1>2, <1>3, <1>4, <2>1, Moved
<1>6. DestIsWhole' /\ NothingIsLeftBehind'
  BY <1>1 DEF IInv, DestIsWhole, NothingIsLeftBehind, Active
<1>7. QED  BY <1>5, <1>6 DEF IInv

LEMMA SwapKeeps == ASSUME IInv, NEW e \in Export, Active(e), Swap(e) PROVE IInv'
<1>1. op[e].pc = "swap" /\ UNCHANGED <<buffer, wire, client, clashed, newer>>
  BY DEF Swap, At, stream
<1>2. CASE Fail(e) /\ UNCHANGED <<dest, torn>>
  BY <1>1, <1>2, FailKeeps DEF Fail
<1>3. CASE dest' = Missing /\ torn' = FALSE /\ Goto(e, "rename") /\ UNCHANGED <<staging, debris>>
  <2>1. PICK new \in Ops :
          /\ op' = [op EXCEPT ![e] = new]
          /\ new.pc = "rename" /\ new.cid = op[e].cid /\ new.left = op[e].left
          /\ new.outcome = op[e].outcome
    BY <1>3, GotoSets DEF IInv
  <2>2. op'[e] = new /\ \A f \in Export \ {e} : op'[f] = op[f]
    BY <2>1 DEF IInv, Types
  <2>3. ~clashed => Staged(e)'
    BY <1>1, <1>3, <2>1, <2>2 DEF IInv, Undisturbed, Staged, Whole
  <2>4. Types' /\ Streamed' /\ Undisturbed'
    BY <1>1, <1>3, <2>1, <2>3, Moved DEF IInv, Types, Paths
  <2>5. Active(e)' /\ At(e, "rename")'
    BY <2>1, <2>2 DEF Active, At, Ops, NoOp
  <2>6. DestIsWhole' /\ NothingIsLeftBehind'
    BY <1>3, <2>5 DEF DestIsWhole, NothingIsLeftBehind, At
  <2>7. QED  BY <2>4, <2>6 DEF IInv
<1>4. QED  BY <1>2, <1>3 DEF Swap

LEMMA RenameKeeps == ASSUME IInv, NEW e \in Export, Active(e), Rename(e) PROVE IInv'
<1>1. op[e].pc = "rename" /\ UNCHANGED <<buffer, wire, client, clashed, newer>>
      /\ op[e] \in Ops
  BY DEF Rename, At, stream, IInv, Types, Active
<1>2. CASE /\ dest' = staging /\ staging' = Missing /\ torn' = FALSE
           /\ Goto(e, "drop") /\ UNCHANGED debris
  <2>1. PICK new \in Ops :
          /\ op' = [op EXCEPT ![e] = new]
          /\ new.pc = "drop" /\ new.cid = op[e].cid /\ new.left = op[e].left
          /\ new.outcome = op[e].outcome
    BY <1>2, GotoSets DEF IInv
  <2>2. op'[e] = new /\ \A f \in Export \ {e} : op'[f] = op[f]
    BY <2>1 DEF IInv, Types
  <2>3. ~clashed => staging = Whole(op[e].cid) /\ op[e].outcome = "okay"
    BY <1>1 DEF IInv, Undisturbed, Staged
  <2>4. ~clashed => Staged(e)'
    BY <1>2, <2>1, <2>2, <2>3 DEF Staged, Whole
  <2>5. Types' /\ Streamed' /\ Undisturbed'
    BY <1>1, <1>2, <2>1, <2>4, Moved DEF IInv, Types, Paths
  <2>6. ~clashed => staging \in {Whole(cid) : cid \in Cid}
    BY <1>1, <2>3 DEF Ops
  <2>7. DestIsWhole' /\ NothingIsLeftBehind'
    BY <1>1, <1>2, <2>6 DEF DestIsWhole, NothingIsLeftBehind, Whole
  <2>8. QED  BY <2>5, <2>7 DEF IInv
<1>3. CASE Fail(e) /\ UNCHANGED <<dest, torn>>
  BY <1>1, <1>3, FailKeeps DEF Fail
<1>4. QED  BY <1>2, <1>3 DEF Rename

LEMMA DropGuardKeeps == ASSUME IInv, NEW e \in Export, Active(e), DropGuard(e) PROVE IInv'
<1>1. /\ op[e].pc = "drop" /\ staging' = Missing /\ debris' = FALSE
      /\ UNCHANGED <<dest, buffer, wire, client, clashed, torn, newer>>
  BY DEF DropGuard, At, stream, history
<1>2. PICK new \in Ops :
        /\ op' = [op EXCEPT ![e] = new]
        /\ new.pc = "finish" /\ new.cid = op[e].cid /\ new.left = op[e].left
        /\ new.outcome = op[e].outcome
  BY GotoSets DEF DropGuard, IInv
<1>3. op'[e] = new /\ \A f \in Export \ {e} : op'[f] = op[f]
  BY <1>2 DEF IInv, Types
<1>4. ~clashed => Staged(e)'
  BY <1>1, <1>2, <1>3 DEF IInv, Undisturbed, Staged, Whole
<1>5. Types' /\ Streamed' /\ Undisturbed'
  BY <1>1, <1>2, <1>4, Moved DEF IInv, Types, Paths
<1>6. DestIsWhole' /\ NothingIsLeftBehind'
  BY <1>1, <1>2, <1>3
     DEF IInv, DestIsWhole, NothingIsLeftBehind, Undisturbed, Alone, Active, At
<1>7. QED  BY <1>5, <1>6 DEF IInv

LEMMA WorkKeeps == ASSUME IInv, NEW e \in Export, Active(e), Work(e) PROVE IInv'
BY LoadKeeps, StageKeeps, WritePartKeeps, WriteFailsKeeps, WrittenKeeps, RemovePartKeeps, SwapKeeps,
   RenameKeeps, DropGuardKeeps DEF Work

-----------------------------------------------------------------------------
\* Steps that leave both paths and every operation alone.
LEMMA ClientMoves ==
  ASSUME IInv, NEW e \in Export, UNCHANGED <<dest, staging, op, debris, clashed, torn, newer>>,
         buffer' \in [Export -> Nat],
         wire' \in [Export -> Seq(Frame)],
         client' \in [Export -> {"idle", "reading", "error", "eof", "gone"} \cup Cid],
         \A f \in Export \ {e} : wire'[f] = wire[f] /\ client'[f] = client[f],
         client[e] # "idle", client'[e] # "idle", Active(e) => client'[e] \in {"reading", "gone"},
         \A i \in 1..Len(wire'[e]) :
           wire'[e][i] # "progress" => i = Len(wire'[e]) /\ ~Active(e),
         ~clashed /\ e \notin newer => Vouched(e)'
  PROVE  IInv'
<1>1. Types'
  BY DEF IInv, Types
<1>2. Streamed'
  <2>1. \A f \in Export : Active(f)' <=> Active(f)
    BY DEF Active
  <2>2. ASSUME NEW f \in Export
        PROVE  /\ Active(f) => client'[f] \in {"reading", "gone"}
               /\ client'[f] = "idle" => wire'[f] = <<>>
               /\ \A i \in 1..Len(wire'[f]) :
                    wire'[f][i] # "progress" => i = Len(wire'[f]) /\ ~Active(f)
    <3>1. CASE f = e
      BY <3>1
    <3>2. CASE f # e
      <4>1. wire'[f] = wire[f] /\ client'[f] = client[f]
        BY <3>2
      <4>2. QED  BY <4>1 DEF IInv, Streamed
    <3>3. QED  BY <3>1, <3>2
  <2>3. QED  BY <2>1, <2>2 DEF Streamed
<1>3. ASSUME ~clashed PROVE Alone' /\ Newest' /\ \A f \in Export : Active(f)' => Staged(f)'
  BY <1>3 DEF IInv, Undisturbed, Alone, Newest, Active, Staged
<1>4. ASSUME ~clashed, NEW f \in Export \ newer PROVE Vouched(f)'
  <2>1. CASE f = e
    BY <1>4, <2>1
  <2>2. CASE f # e
    BY <1>4, <2>2 DEF IInv, Undisturbed, Vouched
  <2>3. QED  BY <2>1, <2>2
<1>5. Undisturbed'
  BY <1>3, <1>4 DEF Undisturbed
<1>6. DestIsWhole' /\ NothingIsLeftBehind'
  BY DEF IInv, DestIsWhole, NothingIsLeftBehind, Active, At
<1>7. QED  BY <1>1, <1>2, <1>5, <1>6 DEF IInv

LEMMA ForwardKeeps == ASSUME IInv, NEW e \in Export, Forward(e) PROVE IInv'
<1>1. /\ Active(e) /\ client[e] = "reading" /\ buffer[e] > 0
      /\ wire' = [wire EXCEPT ![e] = Append(wire[e], "progress")]
      /\ buffer' = [buffer EXCEPT ![e] = buffer[e] - 1]
      /\ UNCHANGED <<dest, staging, op, client, debris, clashed, torn, newer>>
  BY DEF Forward, history
<1>2. /\ wire[e] \in Seq(Frame) /\ buffer' \in [Export -> Nat]
      /\ \A i \in 1..Len(wire[e]) : wire[e][i] = "progress"
  BY <1>1 DEF IInv, Types, Streamed
<1>3. /\ Append(wire[e], "progress") \in Seq(Frame)
      /\ \A i \in 1..Len(Append(wire[e], "progress")) : Append(wire[e], "progress")[i] = "progress"
  BY <1>2 DEF Frame
<1>4. wire' \in [Export -> Seq(Frame)] /\ wire'[e] = Append(wire[e], "progress")
      /\ \A f \in Export \ {e} : wire'[f] = wire[f]
  BY <1>1, <1>3 DEF IInv, Types
<1>5. Vouched(e)'
  BY <1>1, <1>3, <1>4, ExportsAssumption DEF Vouched
<1>6. QED
  BY <1>1, <1>2, <1>3, <1>4, <1>5, ClientMoves DEF IInv, Types

LEMMA ReadKeeps == ASSUME IInv, NEW e \in Export, Read(e) PROVE IInv'
<1> DEFINE heard == IF Head(wire[e]) = "progress" THEN client[e] ELSE Head(wire[e])
<1>1. /\ client[e] = "reading" /\ wire[e] # <<>>
      /\ wire' = [wire EXCEPT ![e] = Tail(wire[e])]
      /\ client' = [client EXCEPT ![e] = heard]
      /\ UNCHANGED <<dest, staging, op, buffer, debris, clashed, torn, newer>>
  BY DEF Read, history
<1>2. wire[e] \in Seq(Frame)
  BY DEF IInv, Types
<1>3. /\ Len(wire[e]) \in Nat \ {0} /\ Head(wire[e]) = wire[e][1] /\ wire[e][1] \in Frame
      /\ Tail(wire[e]) \in Seq(Frame) /\ Len(Tail(wire[e])) = Len(wire[e]) - 1
      /\ \A i \in 1..Len(Tail(wire[e])) : Tail(wire[e])[i] = wire[e][i + 1]
  BY <1>1, <1>2
<1>4. heard \in {"reading", "error"} \cup Cid
  BY <1>1, <1>3 DEF Frame
<1>5. Active(e) => heard = "reading"
  BY <1>1, <1>3 DEF IInv, Streamed
<1>6. ~clashed /\ e \notin newer /\ heard \in Cid => dest = Whole(heard)
  BY <1>1, <1>3, ExportsAssumption DEF IInv, Undisturbed, Vouched
<1> HIDE DEF heard
<1>7. /\ wire' \in [Export -> Seq(Frame)] /\ wire'[e] = Tail(wire[e]) /\ client'[e] = heard
      /\ client' \in [Export -> {"idle", "reading", "error", "eof", "gone"} \cup Cid]
      /\ \A f \in Export \ {e} : wire'[f] = wire[f] /\ client'[f] = client[f]
  BY <1>1, <1>3, <1>4 DEF IInv, Types
<1>8. ~clashed /\ e \notin newer => Vouched(e)'
  <2>1. ASSUME ~clashed, e \notin newer, NEW i \in 1..Len(wire'[e]), wire'[e][i] \in Cid
        PROVE  dest = Whole(wire'[e][i])
    <3>1. i + 1 \in 1..Len(wire[e]) /\ wire'[e][i] = wire[e][i + 1]
      BY <1>3, <1>7
    <3>2. Vouched(e)
      BY <2>1 DEF IInv, Undisturbed
    <3>3. QED  BY <2>1, <3>1, <3>2 DEF Vouched
  <2>2. QED  BY <1>1, <1>6, <1>7, <2>1 DEF Vouched, Whole
<1>9. \A i \in 1..Len(wire'[e]) : wire'[e][i] # "progress" => i = Len(wire'[e]) /\ ~Active(e)
  BY <1>3, <1>7 DEF IInv, Streamed
<1>10. client'[e] # "idle"
  BY <1>4, <1>7, ExportsAssumption
<1>11. QED
  BY <1>1, <1>5, <1>7, <1>8, <1>9, <1>10, ClientMoves DEF IInv, Types

LEMMA EofKeeps == ASSUME IInv, NEW e \in Export, Eof(e) PROVE IInv'
<1>1. /\ client[e] = "reading" /\ wire[e] = <<>> /\ ~Active(e)
      /\ client' = [client EXCEPT ![e] = "eof"]
      /\ UNCHANGED <<dest, staging, op, buffer, wire, debris, clashed, torn, newer>>
  BY DEF Eof, history
<1>2. client'[e] = "eof" /\ \A f \in Export \ {e} : client'[f] = client[f]
  BY <1>1 DEF IInv, Types
<1>3. Vouched(e)'
  BY <1>1, <1>2, ExportsAssumption DEF Vouched
<1>4. \A i \in 1..Len(wire'[e]) : FALSE
  BY <1>1
<1>5. client' \in [Export -> {"idle", "reading", "error", "eof", "gone"} \cup Cid]
  BY <1>1 DEF IInv, Types
<1>6. wire' \in [Export -> Seq(Frame)] /\ buffer' \in [Export -> Nat]
  BY <1>1 DEF IInv, Types
<1>7. QED  BY <1>1, <1>2, <1>3, <1>4, <1>5, <1>6, ClientMoves

LEMMA LeaveKeeps == ASSUME IInv, NEW e \in Export, Leave(e) PROVE IInv'
<1>1. /\ client[e] = "reading" /\ client' = [client EXCEPT ![e] = "gone"]
      /\ wire' = [wire EXCEPT ![e] = <<>>]
      /\ UNCHANGED <<dest, staging, op, buffer, debris, clashed, torn, newer>>
  BY DEF Leave, history
<1>2. <<>> \in Seq(Frame)
  OBVIOUS
<1>3. /\ client'[e] = "gone" /\ wire'[e] = <<>> /\ wire' \in [Export -> Seq(Frame)]
      /\ \A f \in Export \ {e} : client'[f] = client[f] /\ wire'[f] = wire[f]
  BY <1>1, <1>2 DEF IInv, Types
<1>4. Vouched(e)'
  BY <1>3, ExportsAssumption DEF Vouched
<1>5. \A i \in 1..Len(wire'[e]) : FALSE
  BY <1>3
<1>6. client' \in [Export -> {"idle", "reading", "error", "eof", "gone"} \cup Cid]
      /\ buffer' \in [Export -> Nat]
  BY <1>1 DEF IInv, Types
<1>7. QED  BY <1>1, <1>3, <1>4, <1>5, <1>6, ClientMoves

-----------------------------------------------------------------------------
LEMMA BeginKeeps ==
  ASSUME IInv, NEW e \in Export, NEW cid \in Cid, Begin(e, cid) PROVE IInv'
<1> DEFINE new == [pc |-> IF cid \in Collections THEN "load" ELSE "stage", cid |-> cid,
                   left |-> Parts[cid], outcome |-> "okay"]
<1>1. /\ ~Active(e) /\ op' = [op EXCEPT ![e] = new] /\ wire' = [wire EXCEPT ![e] = <<>>]
      /\ client' = [client EXCEPT ![e] = "reading"]
      /\ clashed' = (clashed \/ \E f \in Export : Active(f))
      /\ newer' = (Export \ {e}) \cap (newer \cup {f \in Export : client[f] # "idle"})
      /\ UNCHANGED <<dest, staging, buffer, debris, torn>>
  BY DEF Begin
<1>2. new \in Ops /\ new.pc \in {"load", "stage"} /\ new.left = Parts[new.cid] /\ new.outcome = "okay"
  BY ExportsAssumption DEF Ops
<1> HIDE DEF new
<1>3. /\ op'[e] = new /\ wire'[e] = <<>> /\ client'[e] = "reading"
      /\ \A f \in Export \ {e} : op'[f] = op[f] /\ wire'[f] = wire[f] /\ client'[f] = client[f]
  BY <1>1 DEF IInv, Types
<1>4. Types'
  <2>1. <<>> \in Seq(Frame)
    OBVIOUS
  <2>2. wire' \in [Export -> Seq(Frame)] /\ op' \in [Export -> Ops \cup {NoOp}]
    BY <1>1, <1>2, <2>1 DEF IInv, Types
  <2>3. client' \in [Export -> {"idle", "reading", "error", "eof", "gone"} \cup Cid]
    BY <1>1 DEF IInv, Types
  <2>4. clashed' \in BOOLEAN /\ newer' \subseteq Export
    BY <1>1 DEF IInv, Types
  <2>5. QED  BY <1>1, <2>2, <2>3, <2>4 DEF IInv, Types
<1>5. Active(e)' /\ \A f \in Export \ {e} : Active(f)' <=> Active(f)
  BY <1>2, <1>3 DEF Active, Ops, NoOp
<1>6. Streamed'
  BY <1>3, <1>5 DEF IInv, Streamed
<1>7. ASSUME ~clashed' PROVE \A f \in Export : ~Active(f)
  BY <1>1, <1>7
<1>8. ASSUME ~clashed' PROVE Alone' /\ Newest' /\ Staged(e)'
  <2>1. \A f \in Export : Active(f)' => f = e
    BY <1>5, <1>7, <1>8
  <2>2. Alone'
    BY <2>1 DEF Alone
  <2>3. \A f \in Export \ {e} : client[f] # "idle" => f \in newer'
    BY <1>1
  <2>4. Newest'
    BY <1>3, <2>1, <2>3 DEF Newest
  <2>5. Staged(e)'
    BY <1>2, <1>3 DEF Staged
  <2>6. QED  BY <2>2, <2>4, <2>5
<1>9. ASSUME ~clashed', NEW f \in Export, f \notin newer' PROVE Vouched(f)'
  <2>1. CASE f = e
    BY <1>3, <2>1, ExportsAssumption DEF Vouched
  <2>2. CASE f # e
    <3>1. client'[f] = "idle" /\ wire'[f] = <<>>
      BY <1>1, <1>3, <1>9, <2>2 DEF IInv, Streamed
    <3>2. QED  BY <3>1, ExportsAssumption DEF Vouched
  <2>3. QED  BY <2>1, <2>2
<1>10. Undisturbed'
  <2>1. ASSUME ~clashed', NEW f \in Export, Active(f)' PROVE Staged(f)'
    <3>1. f = e
      BY <1>5, <1>7, <2>1
    <3>2. QED  BY <1>8, <2>1, <3>1
  <2>2. QED  BY <1>8, <1>9, <2>1 DEF Undisturbed
<1>11. DestIsWhole'
  BY <1>1 DEF IInv, DestIsWhole
<1>13. NothingIsLeftBehind'
  <2>1. \A f \in Export : Active(f) => f # e /\ Active(f)' /\ op'[f] = op[f]
    BY <1>1, <1>3, <1>5
  <2>2. QED  BY <1>1, <2>1 DEF IInv, NothingIsLeftBehind
<1>14. QED  BY <1>4, <1>6, <1>10, <1>11, <1>13 DEF IInv

\* An operation is over, with its answer or without.
LEMMA Closed ==
  ASSUME IInv, NEW e \in Export, Active(e), op' = [op EXCEPT ![e] = NoOp],
         buffer' = [buffer EXCEPT ![e] = 0],
         UNCHANGED <<dest, client, clashed, torn, newer>>,
         wire' \in [Export -> Seq(Frame)],
         \A f \in Export \ {e} : wire'[f] = wire[f],
         \A i \in 1..Len(wire'[e]) : wire'[e][i] # "progress" => i = Len(wire'[e]),
         \/ staging' = Missing /\ debris' = FALSE
         \/ UNCHANGED <<staging, debris>> /\ op[e].pc \in {"load", "finish"},
         op[e].pc \in {"load", "write", "finish"},
         ~clashed /\ e \notin newer => Vouched(e)'
  PROVE  IInv'
<1>1. op'[e] = NoOp /\ \A f \in Export \ {e} : op'[f] = op[f]
  BY DEF IInv, Types
<1>2. ~Active(e)' /\ \A f \in Export \ {e} : Active(f)' <=> Active(f)
  BY <1>1 DEF Active
<1>3. Types'
  BY DEF IInv, Types, Paths
<1>4. Streamed'
  <2>1. client[e] # "idle"
    BY DEF IInv, Streamed
  <2>2. ASSUME NEW f \in Export
        PROVE  /\ Active(f)' => client[f] \in {"reading", "gone"}
               /\ client[f] = "idle" => wire'[f] = <<>>
               /\ \A i \in 1..Len(wire'[f]) :
                    wire'[f][i] # "progress" => i = Len(wire'[f]) /\ ~Active(f)'
    <3>1. CASE f = e
      BY <1>2, <2>1, <3>1
    <3>2. CASE f # e
      <4>1. wire'[f] = wire[f] /\ (Active(f)' <=> Active(f))
        BY <1>2, <3>2
      <4>2. QED  BY <4>1 DEF IInv, Streamed
    <3>3. QED  BY <3>1, <3>2
  <2>3. QED  BY <2>2 DEF Streamed
<1>5. ASSUME ~clashed PROVE Alone' /\ Newest' /\ \A f \in Export : ~Active(f)'
  BY <1>2, <1>5 DEF IInv, Undisturbed, Alone, Newest
<1>6. ASSUME ~clashed, NEW f \in Export \ newer PROVE Vouched(f)'
  <2>1. CASE f = e
    BY <1>6, <2>1
  <2>2. CASE f # e
    BY <1>6, <2>2 DEF IInv, Undisturbed, Vouched
  <2>3. QED  BY <2>1, <2>2
<1>7. Undisturbed'
  BY <1>5, <1>6 DEF Undisturbed
<1>8. DestIsWhole'
  BY DEF IInv, DestIsWhole
<1>10. NothingIsLeftBehind'
  BY <1>1, <1>2 DEF IInv, NothingIsLeftBehind
<1>11. QED  BY <1>3, <1>4, <1>7, <1>8, <1>10 DEF IInv

LEMMA HangUpKeeps == ASSUME IInv, NEW e \in Export, HangUp(e) PROVE IInv'
<1>1. /\ Active(e) /\ client[e] = "gone" /\ op[e].pc \in {"load", "write"}
      /\ op' = [op EXCEPT ![e] = NoOp] /\ buffer' = [buffer EXCEPT ![e] = 0]
      /\ IF op[e].pc = "write" THEN staging' = Missing /\ debris' = FALSE
         ELSE UNCHANGED <<staging, debris>>
      /\ UNCHANGED <<dest, wire, client, clashed, torn, newer>>
  BY DEF HangUp, Close, At, history
<1>2. /\ wire' \in [Export -> Seq(Frame)]
      /\ \A i \in 1..Len(wire[e]) : wire[e][i] = "progress"
  BY <1>1 DEF IInv, Types, Streamed
<1>3. Vouched(e)'
  BY <1>1, <1>2, ExportsAssumption DEF Vouched
<1>4. QED
  BY <1>1, <1>2, <1>3, Closed

\* What goes out when an operation ends: its progress, then its result.
LEMMA LastFrames ==
  ASSUME NEW w \in Seq(Frame), NEW p \in Seq(Frame), NEW last \in Frame,
         \A i \in 1..Len(w) : w[i] = "progress", \A i \in 1..Len(p) : p[i] = "progress"
  PROVE  /\ w \o p \o <<last>> \in Seq(Frame)
         /\ (w \o p \o <<last>>)[Len(w \o p \o <<last>>)] = last
         /\ \A i \in 1..Len(w \o p \o <<last>>) :
              i # Len(w \o p \o <<last>>) => (w \o p \o <<last>>)[i] = "progress"
<1> DEFINE first == w \o p
           end == <<last>>
           sent == first \o end
<1>1. /\ first \in Seq(Frame) /\ Len(first) = Len(w) + Len(p)
      /\ \A i \in 1..Len(w) + Len(p) :
           first[i] = IF i <= Len(w) THEN w[i] ELSE p[i - Len(w)]
  BY ConcatProperties
<1> HIDE DEF first
<1>2. \A i \in 1..Len(first) : first[i] = "progress"
  <2>1. TAKE i \in 1..Len(first)
  <2>2. CASE i <= Len(w)
    BY <1>1, <2>2
  <2>3. CASE i > Len(w)
    <3>1. i - Len(w) \in 1..Len(p) /\ first[i] = p[i - Len(w)]
      BY <1>1, <2>3
    <3>2. QED  BY <3>1
  <2>4. QED  BY <1>1, <2>2, <2>3
<1>3. end \in Seq(Frame) /\ Len(end) = 1 /\ end[1] = last
  OBVIOUS
<1> HIDE DEF end
<1>4. /\ sent \in Seq(Frame) /\ Len(sent) = Len(first) + 1
      /\ \A i \in 1..Len(first) + 1 :
           sent[i] = IF i <= Len(first) THEN first[i] ELSE end[i - Len(first)]
  <2>1. first \in Seq(Frame) /\ end \in Seq(Frame)
    BY <1>1, <1>3
  <2>2. /\ first \o end \in Seq(Frame) /\ Len(first \o end) = Len(first) + Len(end)
        /\ \A i \in 1..Len(first) + Len(end) :
             (first \o end)[i] = IF i <= Len(first) THEN first[i] ELSE end[i - Len(first)]
    BY <2>1, ConcatProperties
  <2>3. QED  BY <1>3, <2>2
<1> HIDE DEF sent
<1>5. Len(first) \in Nat
  BY <1>1
<1>6. sent[Len(sent)] = last
  BY <1>3, <1>4, <1>5
<1>7. \A i \in 1..Len(sent) : i # Len(sent) => sent[i] = "progress"
  BY <1>2, <1>4, <1>5
<1>8. QED  BY <1>4, <1>6, <1>7 DEF first, end, sent

LEMMA FinishKeeps == ASSUME IInv, NEW e \in Export, Finish(e) PROVE IInv'
<1> DEFINE last == Terminal(e)
           sent == wire[e] \o Progress(buffer[e]) \o <<last>>
<1>1. /\ op[e].pc = "finish" /\ op' = [op EXCEPT ![e] = NoOp]
      /\ buffer' = [buffer EXCEPT ![e] = 0] /\ wire' = [wire EXCEPT ![e] = sent]
      /\ UNCHANGED <<dest, staging, client, debris, clashed, torn, newer>>
  BY DEF Finish, Close, At, history
<1>2. Active(e) /\ op[e] \in Ops
  BY <1>1 DEF IInv, Types, Active, NoOp
<1>3. last \in Frame /\ last \in {"error", op[e].cid}
      /\ (last # "error" => last = op[e].cid /\ op[e].outcome = "okay")
  BY <1>2 DEF Terminal, Frame, Ops
<1>4. wire[e] \in Seq(Frame) /\ buffer[e] \in Nat
      /\ (\A i \in 1..Len(wire[e]) : wire[e][i] = "progress")
      /\ client[e] \in {"reading", "gone"}
  BY <1>2 DEF IInv, Types, Streamed
<1>5. /\ sent \in Seq(Frame) /\ sent[Len(sent)] = last
      /\ \A i \in 1..Len(sent) : i # Len(sent) => sent[i] = "progress"
  <2> DEFINE w == wire[e]
             p == Progress(buffer[e])
  <2>1. w \in Seq(Frame) /\ \A i \in 1..Len(w) : w[i] = "progress"
    BY <1>4
  <2>2. p \in Seq(Frame) /\ \A i \in 1..Len(p) : p[i] = "progress"
    BY <1>4 DEF Progress, Frame
  <2>3. last \in Frame
    BY <1>3
  <2>4. sent = w \o p \o <<last>>
    OBVIOUS
  <2> HIDE DEF w, p, last, sent
  <2>5. /\ w \o p \o <<last>> \in Seq(Frame)
        /\ (w \o p \o <<last>>)[Len(w \o p \o <<last>>)] = last
        /\ \A i \in 1..Len(w \o p \o <<last>>) :
             i # Len(w \o p \o <<last>>) => (w \o p \o <<last>>)[i] = "progress"
    BY <2>1, <2>2, <2>3, LastFrames
  <2>6. QED  BY <2>4, <2>5
<1> HIDE DEF sent
<1>6. /\ wire' \in [Export -> Seq(Frame)] /\ wire'[e] = sent
      /\ \A f \in Export \ {e} : wire'[f] = wire[f]
  BY <1>1, <1>5 DEF IInv, Types
<1>7. ~clashed => (last \in Cid => dest = Whole(last))
  <2>1. ASSUME ~clashed, last \in Cid PROVE dest = Whole(last)
    <3>1. last # "error"
      BY <2>1, ExportsAssumption
    <3>2. last = op[e].cid /\ op[e].outcome = "okay"
      BY <1>3, <3>1
    <3>3. dest = Whole(op[e].cid)
      BY <1>1, <1>2, <2>1, <3>2 DEF IInv, Undisturbed, Staged
    <3>4. QED  BY <3>2, <3>3
  <2>2. QED  BY <2>1
<1> HIDE DEF last
<1>8. ~clashed => Vouched(e)'
  <2>1. ASSUME ~clashed, NEW i \in 1..Len(sent), sent[i] \in Cid PROVE dest = Whole(sent[i])
    BY <1>5, <1>7, <2>1, ExportsAssumption
  <2>2. QED  BY <1>1, <1>4, <1>6, <2>1, ExportsAssumption DEF Vouched, Whole
<1>9. QED
  BY <1>1, <1>2, <1>5, <1>6, <1>8, Closed

LEMMA KillKeeps == ASSUME IInv, Kill PROVE IInv'
<1>1. /\ op' = [e \in Export |-> NoOp] /\ buffer' = [e \in Export |-> 0]
      /\ debris' = (debris \/ staging # Missing)
      /\ UNCHANGED <<dest, staging, wire, client, clashed, torn, newer>>
  BY DEF Kill, history
<1>2. \A e \in Export : ~Active(e)'
  BY <1>1 DEF Active
<1>3. Types'
  BY <1>1 DEF IInv, Types
<1>4. Streamed'
  BY <1>1, <1>2 DEF IInv, Streamed
<1>5. Undisturbed'
  BY <1>1, <1>2 DEF IInv, Undisturbed, Alone, Newest, Vouched
<1>6. DestIsWhole' /\ NothingIsLeftBehind'
  BY <1>1 DEF IInv, DestIsWhole, NothingIsLeftBehind
<1>7. QED  BY <1>3, <1>4, <1>5, <1>6 DEF IInv

LEMMA StepKeeps == ASSUME IInv, [Next]_vars PROVE IInv'
<1>1. CASE UNCHANGED vars
  <2> USE <1>1 DEF vars
  <2>1. Types' /\ Streamed'
    BY DEF IInv, Types, Streamed, Active
  <2>2. Undisturbed'
    BY DEF IInv, Undisturbed, Alone, Newest, Staged, Vouched, Active
  <2>3. DestIsWhole' /\ NothingIsLeftBehind'
    BY DEF IInv, DestIsWhole, NothingIsLeftBehind, Active, At
  <2>4. QED  BY <2>1, <2>2, <2>3 DEF IInv
<1>2. CASE Next
  BY <1>2, BeginKeeps, WorkKeeps, ForwardKeeps, FinishKeeps, HangUpKeeps, ReadKeeps,
     EofKeeps, LeaveKeeps, KillKeeps
     DEF Next, Deliver
<1>3. QED  BY <1>1, <1>2

-----------------------------------------------------------------------------
\* Where every operation stands, and what is on the wire, agree with what is at
\* the two paths (export_blob, export_members, run_stream).
THEOREM ExportsInvariant == Spec => []IInv
<1>1. Init => IInv
  BY InitIInv
<1>2. IInv /\ [Next]_vars => IInv'
  BY StepKeeps
<1>3. QED  BY <1>1, <1>2, PTL DEF Spec

\* The types, and that nothing follows the terminal frame of a stream.
THEOREM ExportsTypeCorrect == Spec => []TypeOK
<1>1. IInv => TypeOK
  <2> SUFFICES ASSUME IInv PROVE TypeOK
    OBVIOUS
  <2>1. \A e \in Export : \A i \in DOMAIN wire[e] : i < Len(wire[e]) => wire[e][i] = "progress"
    <3> TAKE e \in Export
    <3>1. wire[e] \in Seq(Frame)
      BY DEF IInv, Types
    <3>2. QED  BY <3>1 DEF IInv, Streamed
  <2>2. QED  BY <2>1 DEF IInv, Types, TypeOK, Paths
<1>2. QED  BY <1>1, ExportsInvariant, PTL

\* As long as exports to it do not overlap, the destination is whole whenever it
\* is there, but for what the removal of an old directory has left, for artifacts
\* of any number of parts (fetch.rs).
THEOREM DestStaysWhole == Spec => []DestIsWhole
<1>1. IInv => DestIsWhole
  BY DEF IInv
<1>2. QED  BY <1>1, ExportsInvariant, PTL

\* Who reads a receipt has the artifact (run_stream, call_streaming).
THEOREM ReceiptsAreTrue == Spec => []OkayMeansExported
<1>1. IInv => OkayMeansExported
  BY DEF IInv, Undisturbed, Vouched, OkayMeansExported
<1>2. QED  BY <1>1, ExportsInvariant, PTL

\* Whoever touches the destination has the whole of its replacement beside it
\* (the staging of export_blob_to and export_collection_to).
THEOREM OldIsKept == Spec => OldStaysUntilNew
<1>1. IInv /\ [Next]_vars =>
        [~clashed /\ dest' # dest =>
           \E e \in Export : Active(e) /\ staging = Whole(op[e].cid)]_vars
  <2> SUFFICES ASSUME IInv, Next, ~clashed, dest' # dest
               PROVE  \E e \in Export : Active(e) /\ staging = Whole(op[e].cid)
    BY DEF vars
  <2>1. PICK e \in Export : Active(e) /\ op[e].pc \in {"swap", "rename"}
    BY DEF Next, Work, Deliver, Begin, Load, Stage, Fail, WritePart, WriteFails, Written,
           RemovePart, Swap, Rename, DropGuard, Forward, Finish, HangUp, Read, Eof, Leave,
           Kill, At
  <2>2. staging = Whole(op[e].cid)
    BY <2>1 DEF IInv, Undisturbed, Staged
  <2>3. QED  BY <2>1, <2>2
<1>2. QED  BY <1>1, ExportsInvariant, PTL DEF Spec, OldStaysUntilNew

\* The staging path is taken away by the last export that uses it (ScopedPath).
THEOREM NothingStays == Spec => []NothingIsLeftBehind
<1>1. IInv => NothingIsLeftBehind
  BY DEF IInv
<1>2. QED  BY <1>1, ExportsInvariant, PTL
=================================================================================
