---------------------------- MODULE NezVMProofs ----------------------------
(***************************************************************************)
(* Proofs about the parsing machine.  Its variables keep their types, for  *)
(* every program whose operands the loader can have written, every input   *)
(* and every size of stack and memo; and it keeps its stack discipline,    *)
(* for every such program that has a shape.                                *)
(*                                                                         *)
(* The machine does not know what it has on its stack: a slot is a number. *)
(* The invariant says that it could: there is a list of items, each on top *)
(* of the one before, that accounts for every slot below the stack top,    *)
(* for every failure frame and for every node begun in the log.            *)
(***************************************************************************)
EXTENDS NezVMProps, NezVMShape, TreeHeapProofs

-----------------------------------------------------------------------------
(* The log and the stack.                                                  *)

\* Rolling the log back leaves a log and a heap.
LEMMA BackLogOK ==
  ASSUME TypeOK, NEW h, HeapOK(h, newcount), NEW n \in Int
  PROVE  /\ BackLog(h, n).log \in Seq(LogType(newcount))
         /\ HeapOK(BackLog(h, n).heap, newcount)
<1> DEFINE keep == IF n < Len(log) THEN n ELSE Len(log)
<1>1. log \in Seq(LogType(newcount)) /\ newcount \in Nat
  BY DEF TypeOK
<1>2. keep \in Int /\ keep <= Len(log)
  BY <1>1
<1>3. SubSeq(log, 1, keep) \in Seq(LogType(newcount))
  <2>1. \A i \in 1..keep : log[i] \in LogType(newcount)
    BY <1>1, <1>2, ElementOfSeq
  <2> QED
    BY <1>2, <2>1, SubSeqProperties
<1>4. BackLog(h, n).log = SubSeq(log, 1, keep)
  BY DEF BackLog
<1>5. HeapOK(BackLog(h, n).heap, newcount)
  BY <1>1, DecOK DEF BackLog
<1> QED
  BY <1>3, <1>4, <1>5

\* Appending an entry.
LEMMA AppendOK ==
  ASSUME TypeOK, NEW e \in LogType(newcount), NEW s \in Seq(LogType(newcount))
  PROVE  Append(s, e) \in Seq(LogType(newcount))
BY AppendProperties

\* The entries the handlers log.
LEMMA EntriesOK ==
  ASSUME TypeOK
  PROVE  /\ \A p \in Int : NewEntry(p) \in LogType(newcount)
         /\ \A label \in Symbols, t \in 0..newcount :
              LinkEntry(label, t) \in LogType(newcount)
         /\ \A tag \in Symbols : TagEntry(tag) \in LogType(newcount)
         /\ \A text \in Replacements : ReplaceEntry(text) \in LogType(newcount)
BY DEF LogType, NewEntry, LinkEntry, TagEntry, ReplaceEntry, NewOp, LinkOp,
       TagOp, ReplaceOp

\* The slots the handlers read and write.
LEMMA SlotOK ==
  ASSUME TypeOK, NEW s \in 0..StackSize-1
  PROVE  /\ stacks[s] \in SlotType(newcount)
         /\ \A v \in Int, n \in Int, t \in 0..newcount :
              [value |-> v, num |-> n, tree |-> t] \in SlotType(newcount)
         /\ \A v \in Int, t \in 0..newcount :
              [stacks[s] EXCEPT !.value = v, !.tree = t] \in SlotType(newcount)
         /\ \A v \in Int, n \in Int :
              [stacks[s] EXCEPT !.value = v, !.num = n] \in SlotType(newcount)
         /\ \A v \in Int : [stacks[s] EXCEPT !.value = v] \in SlotType(newcount)
         /\ \A t \in 0..newcount : [stacks[s] EXCEPT !.tree = t] \in SlotType(newcount)
<1>1. stacks[s] \in SlotType(newcount)
  BY DEF TypeOK
<1>2. stacks[s] \in [value : Int, num : Int, tree : 0..newcount]
  BY <1>1 DEF SlotType
<1> QED
  BY <1>2 DEF SlotType

\* A slot pushed by push or pushW.
LEMMA PushSlotOK ==
  ASSUME TypeOK, NEW v \in Int, NEW t \in 0..newcount,
         unused_stack + 1 < StackSize, PushSlot(v, t)
  PROVE  /\ unused_stack' \in -1..StackSize-1
         /\ stacks' \in [0..StackSize-1 -> SlotType(newcount)]
         /\ HeapOK(heap', newcount)
<1> DEFINE s == unused_stack + 1
<1>1. s \in 0..StackSize-1 /\ newcount \in Nat
  BY StackAssumption DEF TypeOK
<1>2. stacks[s] \in SlotType(newcount)
  BY <1>1 DEF TypeOK
<1>3. [stacks[s] EXCEPT !.value = v, !.tree = t] \in SlotType(newcount)
  BY <1>2 DEF SlotType
<1>4. stacks' = [stacks EXCEPT ![s] = [stacks[s] EXCEPT !.value = v, !.tree = t]]
  BY DEF PushSlot, TypeOK
<1>5. HeapOK(heap', newcount)
  BY <1>1, SetOK DEF PushSlot, TypeOK
<1> QED
  BY <1>1, <1>3, <1>4, <1>5 DEF PushSlot, TypeOK

\* The return to the innermost alternative.
LEMMA PopFailOK ==
  ASSUME TypeOK, fail_stack \in 0..StackSize-3,
         NEW h, HeapOK(h, newcount), PopFail(h)
  PROVE  /\ pc' \in Int /\ pos' \in Int /\ fail_stack' \in Int
         /\ left' \in 0..newcount
         /\ unused_stack' \in -1..StackSize-1
         /\ stacks' = stacks /\ newcount' = newcount
         /\ log' \in Seq(LogType(newcount))
         /\ HeapOK(heap', newcount)
<1>1. /\ stacks[fail_stack] \in SlotType(newcount)
      /\ stacks[fail_stack + 1] \in SlotType(newcount)
      /\ stacks[fail_stack + 2] \in SlotType(newcount)
  BY StackAssumption DEF TypeOK
<1>2. stacks[fail_stack + 2].value \in Int
  BY <1>1 DEF SlotType
<1>3. /\ log' \in Seq(LogType(newcount))
      /\ HeapOK(heap', newcount)
  BY <1>2, BackLogOK DEF PopFail
<1>4. /\ pc' = stacks[fail_stack + 1].num /\ pos' = stacks[fail_stack + 1].value
      /\ fail_stack' = stacks[fail_stack].value
      /\ left' = stacks[fail_stack].tree
      /\ unused_stack' = fail_stack - 1
      /\ stacks' = stacks /\ newcount' = newcount
  BY DEF PopFail
<1>5. pc' \in Int /\ pos' \in Int /\ fail_stack' \in Int /\ left' \in 0..newcount
  BY <1>1, <1>4 DEF SlotType
<1>6. unused_stack' \in -1..StackSize-1
  BY <1>4, StackAssumption
<1> QED
  BY <1>3, <1>4, <1>5, <1>6
-----------------------------------------------------------------------------
(* Type correctness, handler by handler.                                   *)

\* What ParserContext_new and mininez_init_vm leave.
LEMMA InitOK == Init => TypeOK
<1> SUFFICES ASSUME Init PROVE TypeOK
  OBVIOUS
<1>1. newcount = 0 /\ newcount \in Nat
  BY DEF Init
<1>2. stacks \in [0..StackSize-1 -> SlotType(newcount)]
  <2>1. InputBase \in Int
    BY InputAssumption
  <2>2. EmptySlot \in SlotType(0)
    BY DEF EmptySlot, SlotType, NULL
  <2>3. [EmptySlot EXCEPT !.value = InputBase] \in SlotType(0)
    BY <2>1, <2>2 DEF SlotType
  <2>4. [EmptySlot EXCEPT !.value = 2] \in SlotType(0)
    BY <2>2 DEF SlotType
  <2>5. InitStacks \in [0..StackSize-1 -> SlotType(0)]
    BY <2>2, <2>3, <2>4 DEF InitStacks
  <2> QED
    BY <1>1, <2>5 DEF Init
<1>3. memo \in [0..MemoSize-1 -> EntryType(newcount)]
  <2>1. EmptyEntry \in EntryType(0)
    BY DEF EmptyEntry, EntryType, NULL, NotFound
  <2> QED
    BY <1>1, <2>1 DEF Init
<1>4. log \in Seq(LogType(newcount))
  BY EmptySeq DEF Init
<1>5. HeapOK(heap, newcount)
  <2>1. heap = [nodes |-> <<>>, refc |-> <<>>, freed |-> {}, uaf |-> FALSE]
    BY DEF Init, EmptyHeap
  <2>2. heap.nodes = <<>> /\ heap.refc = <<>> /\ heap.freed = {} /\ heap.uaf = FALSE
    BY <2>1
  <2>3. /\ heap.nodes \in Seq(Range(heap.nodes)) /\ Len(heap.nodes) = 0
        /\ heap.refc \in Seq(Range(heap.refc)) /\ Len(heap.refc) = 0
    BY <2>2, EmptySeq
  <2>4. 1..newcount = {}
    BY <1>1
  <2> QED
    BY <1>1, <2>2, <2>3, <2>4 DEF HeapOK
<1>6. StartPoint \in Int /\ InputBase \in Int
  BY CodeAssumption, InputAssumption
<1>7. 4 \in -1..StackSize-1
  BY StackAssumption
<1> QED
  BY <1>1, <1>2, <1>3, <1>4, <1>5, <1>6, <1>7 DEF Init, TypeOK, NULL

\* What a handler may use of the instruction it runs.
LEMMA InstTyped ==
  ASSUME Defined
  PROVE  InstOK(Inst) /\ Inst.next \in Int
BY CodeAssumption DEF Defined, Inst, InstOK

\* A step of the program counter and the position alone.
LEMMA MoveOK ==
  ASSUME TypeOK, pc' \in Int, pos' \in Int,
         UNCHANGED <<input, frames, tree, memo, status, result>>
  PROVE  TypeOK'
BY DEF TypeOK, frames, tree

\* A failure.
LEMMA FailOK ==
  ASSUME TypeOK, Defined, NEW h, HeapOK(h, newcount), PopFail(h),
         UNCHANGED <<input, memo, status, result>>
  PROVE  TypeOK'
<1>1. fail_stack \in 0..StackSize-3
  BY DEF Defined
<1>2. /\ pc' \in Int /\ pos' \in Int /\ fail_stack' \in Int
      /\ left' \in 0..newcount
      /\ unused_stack' \in -1..StackSize-1
      /\ stacks' = stacks /\ newcount' = newcount
      /\ log' \in Seq(LogType(newcount))
      /\ HeapOK(heap', newcount)
  BY <1>1, PopFailOK
<1> QED
  BY <1>2 DEF TypeOK

\* Control instructions.
LEMMA ControlOK ==
  ASSUME TypeOK, Control
  PROVE  TypeOK'
<1> USE DEF At, Advance
<1>1. CASE Nop
  BY <1>1, InstTyped, MoveOK DEF Nop, TypeOK
<1>2. CASE Exit
  <2>1. Inst.code \in Nat
    BY <1>2, InstTyped DEF Exit, InstOK
  <2> QED
    BY <1>2, <2>1 DEF Exit, TypeOK, frames, tree
<1>3. CASE Unimplemented
  BY <1>3 DEF Unimplemented, TypeOK, frames, tree
<1>4. CASE Pos
  <2>1. unused_stack + 1 < StackSize
    BY <1>4 DEF Pos, Defined, Pushed
  <2>2. pos \in Int /\ NULL \in 0..newcount
    BY DEF TypeOK, NULL
  <2>3. /\ unused_stack' \in -1..StackSize-1
        /\ stacks' \in [0..StackSize-1 -> SlotType(newcount)]
        /\ HeapOK(heap', newcount)
    BY <1>4, <2>1, <2>2, PushSlotOK DEF Pos
  <2> QED
    BY <1>4, <2>3, InstTyped DEF Pos, TypeOK
<1>5. CASE Back
  <2>1. unused_stack \in 0..StackSize-1
    BY <1>5 DEF Back, Defined, PopOps, TypeOK
  <2>2. stacks[unused_stack].value \in Int
    BY <2>1 DEF TypeOK, SlotType
  <2> QED
    BY <1>5, <2>1, <2>2, InstTyped, StackAssumption DEF Back, TypeOK, tree
<1>6. CASE Jump
  <2>1. pc' = Inst.next + Inst.jump /\ UNCHANGED <<pos, frames, tree, memo>>
    BY <1>6 DEF Jump
  <2>2. UNCHANGED <<input, status, result>>
    BY <1>6 DEF Jump
  <2>3. Inst.next \in Int /\ Inst.jump \in Int
    BY <1>6, InstTyped DEF Jump, InstOK
  <2>4. pc' \in Int /\ pos' \in Int
    BY <2>1, <2>3 DEF TypeOK
  <2> QED
    BY <2>1, <2>2, <2>4, MoveOK
<1>7. CASE Call
  <2>1. unused_stack + 1 < StackSize
    BY <1>7 DEF Call, Defined, Pushed
  <2>2. Inst.ret \in Int /\ Inst.next + Inst.jump \in Int /\ NULL \in 0..newcount
    BY <1>7, InstTyped DEF Call, InstOK, TypeOK, NULL
  <2>3. /\ unused_stack' \in -1..StackSize-1
        /\ stacks' \in [0..StackSize-1 -> SlotType(newcount)]
        /\ HeapOK(heap', newcount)
    BY <1>7, <2>1, <2>2, PushSlotOK DEF Call
  <2> QED
    BY <1>7, <2>2, <2>3 DEF Call, TypeOK
<1>8. CASE Ret
  <2>1. unused_stack \in 0..StackSize-1
    BY <1>8 DEF Ret, Defined, PopOps, TypeOK
  <2>2. stacks[unused_stack].value \in Int
    BY <2>1 DEF TypeOK, SlotType
  <2> QED
    BY <1>8, <2>1, <2>2, StackAssumption DEF Ret, TypeOK, tree
<1>9. CASE Alt
  <2> DEFINE s == unused_stack + 1
             T == SlotType(newcount)
  <2>1. unused_stack + 3 < StackSize
    BY <1>9 DEF Alt, Defined, Pushed
  <2>2. s \in 0..StackSize-3 /\ newcount \in Nat /\ Len(log) \in Int
    BY <2>1, StackAssumption DEF TypeOK
  <2>3. Inst.alt \in Int
    BY <1>9, InstTyped DEF Alt, InstOK
  <2>4. /\ [stacks[s] EXCEPT !.value = fail_stack, !.tree = left] \in T
        /\ [value |-> pos, num |-> Inst.alt, tree |-> NULL] \in T
        /\ [value |-> Len(log), num |-> 0, tree |-> NULL] \in T
    <3>1. /\ s \in 0..StackSize-1 /\ fail_stack \in Int /\ pos \in Int
          /\ left \in 0..newcount /\ NULL \in 0..newcount /\ 0 \in Int
      BY <2>2, StackAssumption DEF TypeOK, NULL
    <3> QED
      BY <2>2, <2>3, <3>1, SlotOK
  <2>5. stacks' = [stacks EXCEPT
                     ![s]   = [stacks[s] EXCEPT !.value = fail_stack, !.tree = left],
                     ![s+1] = [value |-> pos, num |-> Inst.alt, tree |-> NULL],
                     ![s+2] = [value |-> Len(log), num |-> 0, tree |-> NULL]]
    BY <1>9 DEF Alt, PushFail, TypeOK
  <2>6. stacks' \in [0..StackSize-1 -> T]
    BY <2>2, <2>4, <2>5 DEF TypeOK
  <2>7. HeapOK(heap', newcount)
    BY <1>9, <2>2, SetOK, DecOK DEF Alt, PushFail, TypeOK
  <2>8. unused_stack' \in -1..StackSize-1 /\ fail_stack' \in Int
    BY <1>9, <2>2, StackAssumption DEF Alt, PushFail
  <2> QED
    BY <1>9, <2>6, <2>7, <2>8, InstTyped DEF Alt, TypeOK
<1>10. CASE Succ
  <2>1. fail_stack \in 0..StackSize-3
    BY <1>10 DEF Succ, Defined
  <2>2. stacks[fail_stack].value \in Int
    BY <2>1, StackAssumption DEF TypeOK, SlotType
  <2> QED
    BY <1>10, <2>1, <2>2, InstTyped, StackAssumption DEF Succ, PopSucc, TypeOK, tree
<1>11. CASE Fail
  BY <1>11, FailOK DEF Fail, TypeOK
<1>12. CASE Step
  <2>1. CASE PopFail(heap)
    BY <1>12, <2>1, FailOK DEF Step, TypeOK
  <2>2. CASE ~ PopFail(heap)
    <3> DEFINE T == SlotType(newcount)
    <3>1. /\ fail_stack \in 0..StackSize-3 /\ Len(log) \in Int
          /\ pos \in Int /\ left \in 0..newcount /\ 0 \in Int
      BY <1>12 DEF Step, Defined, TypeOK
    <3>2. /\ fail_stack \in 0..StackSize-1 /\ fail_stack + 1 \in 0..StackSize-1
          /\ fail_stack + 2 \in 0..StackSize-1
      BY <3>1, StackAssumption
    <3>3. /\ [stacks[fail_stack] EXCEPT !.tree = left] \in T
          /\ [stacks[fail_stack + 1] EXCEPT !.value = pos] \in T
          /\ [stacks[fail_stack + 2] EXCEPT !.value = Len(log), !.num = 0] \in T
      BY <3>1, <3>2, SlotOK
    <3>4. stacks' = [stacks EXCEPT
             ![fail_stack] = [stacks[fail_stack] EXCEPT !.tree = left],
             ![fail_stack + 1] = [stacks[fail_stack + 1] EXCEPT !.value = pos],
             ![fail_stack + 2] = [stacks[fail_stack + 2] EXCEPT !.value = Len(log),
                                                                !.num = 0]]
      BY <1>12, <2>2, <3>1, StackAssumption DEF Step, TypeOK
    <3>5. stacks' \in [0..StackSize-1 -> T]
      BY <3>1, <3>3, <3>4, StackAssumption DEF TypeOK
    <3> QED
      BY <1>12, <2>2, <3>5, InstTyped DEF Step, TypeOK, tree
  <2> QED
    BY <2>1, <2>2
<1> QED
  BY <1>1, <1>2, <1>3, <1>4, <1>5, <1>6, <1>7, <1>8, <1>9, <1>10, <1>11, <1>12
     DEF Control

\* A match fails, or moves the position.
LEMMA ScanOK ==
  ASSUME TypeOK, Scan
  PROVE  TypeOK'
<1>0. HeapOK(heap, newcount) /\ pos \in Int /\ input \in Inputs
  BY DEF TypeOK
<1>1. CASE PopFail(heap) /\ Defined /\ UNCHANGED <<input, memo, status, result>>
  BY <1>0, <1>1, FailOK
<1>2. CASE /\ pos' \in Int /\ pc' \in Int
           /\ UNCHANGED <<input, frames, tree, memo, status, result>>
  BY <1>2, MoveOK
<1>3. \A i : i.op \in StrOps /\ InstOK(i) => Width(i) \in Int
  BY DEF Width, InstOK
<1>4. \A i : i.op \notin StrOps => Width(i) \in Int
  BY DEF Width
<1>5. Defined => Width(Inst) \in Int /\ Inst.next \in Int
  BY <1>3, <1>4, InstTyped
<1>6. CASE Consume
  BY <1>0, <1>1, <1>2, <1>5, <1>6 DEF Consume, At, Advance
<1>7. CASE AnyByte
  BY <1>0, <1>1, <1>2, <1>5, <1>7 DEF AnyByte, At, Advance
<1>8. CASE NotMatch
  BY <1>0, <1>1, <1>2, <1>5, <1>8 DEF NotMatch, At, Advance
<1>9. CASE NAny
  BY <1>0, <1>1, <1>2, <1>5, <1>9 DEF NAny, At, Advance
<1>10. CASE Optional
  BY <1>0, <1>2, <1>5, <1>10 DEF Optional, At, Advance
<1>11. CASE Repeat
  <2>1. PICK k \in 0..Len(input) : pos' = pos + k * Width(Inst)
    BY <1>11 DEF Repeat
  <2>2. Len(input) \in Nat
    BY <1>0, InputAssumption
  <2>3. Width(Inst) \in Int
    BY <1>5, <1>11 DEF Repeat, At
  <2>4. pos' \in Int
    BY <1>0, <2>1, <2>2, <2>3
  <2> QED
    BY <1>2, <1>5, <1>11, <2>4 DEF Repeat, At, Advance
<1>12. CASE Dispatch
  <2>1. InText(pos) /\ Inst.op \in {"Dispatch", "DDispatch"} /\ InstOK(Inst)
    BY <1>12, InstTyped DEF Dispatch, At, Defined, TextOps
  <2>2. ByteAt(pos) \in Bytes
    <3>1. input \in Seq(Bytes) /\ InputBase \in Int
      BY <1>0, InputAssumption
    <3>2. CASE pos = tail
      BY <3>2 DEF ByteAt, Bytes
    <3>3. CASE pos # tail
      <4>1. pos - InputBase + 1 \in 1..Len(input)
        BY <1>0, <2>1, <3>1, <3>3 DEF InText, tail
      <4> QED
        BY <3>1, <3>3, <4>1, ElementOfSeq DEF ByteAt
    <3> QED
      BY <3>2, <3>3
  <2>3. Inst.table[ByteAt(pos)] \in Nat
    BY <2>1, <2>2 DEF InstOK
  <2>4. pc' \in Int /\ pos' \in Int
    BY <1>0, <1>5, <1>12, <2>3 DEF Dispatch, At
  <2> QED
    BY <1>2, <1>12, <2>4 DEF Dispatch, At
<1> QED
  BY <1>6, <1>7, <1>8, <1>9, <1>10, <1>11, <1>12 DEF Scan

\* The tags and labels of an instruction.
LEMMA SymbolOK ==
  ASSUME NEW id \in 0..Len(Tags)-1
  PROVE  SymbolAt(id) \in Symbols /\ SymbolAt(id % 256) \in Symbols
<1>1. Tags \in Seq(Symbols) /\ Len(Tags) \in Nat
  BY CodeAssumption
<1>2. id + 1 \in 1..Len(Tags) /\ (id % 256) + 1 \in 1..Len(Tags)
  BY <1>1
<1> QED
  BY <1>1, <1>2, ElementOfSeq DEF SymbolAt

\* Types of k nodes are types of k + 1.
LEMMA GrowOK ==
  ASSUME NEW k \in Nat
  PROVE  /\ SlotType(k) \subseteq SlotType(k + 1)
         /\ EntryType(k) \subseteq EntryType(k + 1)
         /\ LogType(k) \subseteq LogType(k + 1)
<1>1. 0..k \subseteq 0..k+1
  OBVIOUS
<1> QED
  BY <1>1 DEF SlotType, EntryType, LogType

\* A handler that appends to the log and touches neither tree nor stack.
LEMMA LogOK ==
  ASSUME TypeOK, Defined, log' \in Seq(LogType(newcount)), pc' = Inst.next,
         HeapOK(heap', newcount),
         UNCHANGED <<input, pos, frames, left, newcount, memo, status, result>>
  PROVE  TypeOK'
BY InstTyped DEF TypeOK, frames

\* TEnd: the children are among the trees the log links.
LEMMA EndOK ==
  ASSUME TypeOK, TEnd
  PROVE  TypeOK'
<1>1. /\ Defined /\ Inst.op = "TEnd" /\ pc' = Inst.next
      /\ UNCHANGED <<input, pos, frames, memo, status, result>>
  BY DEF TEnd, At, Advance
<1> DEFINE k == newcount
           links(start) == {i \in start+1..Len(log) : log[i].op = LinkOp}
           labels(start) == [i \in DOMAIN LinkAt(start) |-> log[LinkAt(start)[i]].label]
           childs(start) == [i \in DOMAIN LinkAt(start) |-> log[LinkAt(start)[i]].tree]
           made(start) == New(heap, EndTag(start), EndText(start), labels(start),
                              childs(start))
           kept(start) == GcIncAll(GcSet(made(start), left, k + 1), childs(start))
<1>2. PICK start \in DOMAIN log :
        /\ left' = k + 1 /\ newcount' = k + 1
        /\ log' = BackLog(kept(start), start - 1).log
        /\ heap' = BackLog(kept(start), start - 1).heap
  BY DEF TEnd, Made
<1>3. k \in Nat /\ log \in Seq(LogType(k)) /\ HeapOK(heap, k) /\ start \in 1..Len(log)
  BY DEF TypeOK
<1>4. Range(childs(start)) \subseteq 0..k
  <2> SUFFICES ASSUME NEW i \in DOMAIN LinkAt(start)
               PROVE  log[LinkAt(start)[i]].tree \in 0..k
    BY DEF Range
  <2>1. LinkAt(start)[i] \in links(start)
    <3> DEFINE Rank(j) == Cardinality({m \in links(start) : m <= j})
    <3>1. i \in {Rank(j) : j \in links(start)}
      BY DEF LinkAt
    <3>2. PICK j \in links(start) : Rank(j) = i
      BY <3>1
    <3>3. LinkAt(start)[i] = CHOOSE m \in links(start) : Rank(m) = i
      BY <3>1 DEF LinkAt
    <3> HIDE DEF links, Rank
    <3> QED
      BY <3>2, <3>3
  <2> DEFINE e == log[LinkAt(start)[i]]
  <2>2. e \in LogType(k) /\ e.op = LinkOp
    BY <1>3, <2>1, ElementOfSeq
  <2> QED
    BY <2>2 DEF LogType, NewOp, LinkOp, TagOp, ReplaceOp
<1> HIDE DEF childs, labels
<1>5. HeapOK(made(start), k + 1)
  BY <1>3, <1>4, NewOK
<1>6. HeapOK(kept(start), k + 1)
  BY <1>3, <1>5, IncOK, SetOK
<1>7. HeapOK(heap', k + 1)
  BY <1>2, <1>3, <1>6, DecOK DEF BackLog
<1>8. log' \in Seq(LogType(k))
  <2>1. \A i \in 1..start-1 : log[i] \in LogType(k)
    BY <1>3, ElementOfSeq
  <2>2. log' = SubSeq(log, 1, start - 1)
    BY <1>2, <1>3 DEF BackLog
  <2> QED
    BY <1>3, <2>1, <2>2, SubSeqProperties
<1>9. log' \in Seq(LogType(k + 1))
  BY <1>3, <1>8, GrowOK, SeqMonotonic
<1>10. /\ stacks' \in [0..StackSize-1 -> SlotType(k + 1)]
       /\ memo' \in [0..MemoSize-1 -> EntryType(k + 1)]
  BY <1>1, <1>3, GrowOK DEF TypeOK, frames
<1>11. left' \in 0..newcount' /\ newcount' \in Nat
  BY <1>2, <1>3
<1> QED
  BY <1>1, <1>2, <1>7, <1>9, <1>10, <1>11, InstTyped DEF TypeOK, frames

\* Tree instructions.
LEMMA BuildOK ==
  ASSUME TypeOK, Build
  PROVE  TypeOK'
<1>0. /\ HeapOK(heap, newcount) /\ log \in Seq(LogType(newcount))
      /\ newcount \in Nat /\ pos \in Int /\ left \in 0..newcount
      /\ Len(log) \in Int
  BY DEF TypeOK
<1>1. CASE TPush
  <2>1. unused_stack + 1 < StackSize
    BY <1>1 DEF TPush, At, Defined, Pushed
  <2>2. /\ unused_stack' \in -1..StackSize-1
        /\ stacks' \in [0..StackSize-1 -> SlotType(newcount)]
        /\ HeapOK(heap', newcount)
    BY <1>0, <1>1, <2>1, PushSlotOK DEF TPush
  <2> QED
    BY <1>1, <2>2, InstTyped DEF TPush, At, Advance, TypeOK
<1>2. CASE TPop
  <2>1. unused_stack \in 0..StackSize-1
    BY <1>2 DEF TPop, At, Defined, PopOps, TypeOK
  <2>2. /\ stacks[unused_stack].value \in Int
        /\ stacks[unused_stack].tree \in 0..newcount
    BY <2>1, SlotOK DEF SlotType
  <2>3. log' \in Seq(LogType(newcount)) /\ HeapOK(heap', newcount)
    BY <1>0, <1>2, <2>2, BackLogOK DEF TPop
  <2> QED
    BY <1>2, <2>1, <2>2, <2>3, InstTyped, StackAssumption
       DEF TPop, At, Advance, TypeOK
<1>3. CASE TBegin
  <2>1. Inst.shift \in Int
    BY <1>3, InstTyped DEF TBegin, At, InstOK
  <2>2. NewEntry(pos + Inst.shift) \in LogType(newcount)
    BY <1>0, <2>1, EntriesOK
  <2>3. log' \in Seq(LogType(newcount))
    BY <1>0, <1>3, <2>2, AppendOK DEF TBegin
  <2> QED
    BY <1>0, <1>3, <2>3, LogOK DEF TBegin, At, Advance
<1>4. CASE TEnd
  BY <1>4, EndOK
<1>5. CASE TTag
  <2>1. Inst.id \in 0..Len(Tags)-1
    BY <1>5, InstTyped DEF TTag, At, InstOK
  <2>2. TagEntry(SymbolAt(Inst.id)) \in LogType(newcount)
    BY <2>1, SymbolOK, EntriesOK
  <2>3. log' \in Seq(LogType(newcount))
    BY <1>0, <1>5, <2>2, AppendOK DEF TTag
  <2> QED
    BY <1>0, <1>5, <2>3, LogOK DEF TTag, At, Advance
<1>6. CASE TReplace
  <2>1. Inst.value \in Replacements
    BY <1>6 DEF TReplace, At, Defined, Inst, Replacements
  <2>2. ReplaceEntry(Inst.value) \in LogType(newcount)
    BY <2>1, EntriesOK
  <2>3. log' \in Seq(LogType(newcount))
    BY <1>0, <1>6, <2>2, AppendOK DEF TReplace
  <2> QED
    BY <1>0, <1>6, <2>3, LogOK DEF TReplace, At, Advance
<1>7. CASE TLink
  <2>1. unused_stack \in 0..StackSize-1
    BY <1>7 DEF TLink, At, Defined, PopOps, TypeOK
  <2>2. /\ stacks[unused_stack].value \in Int
        /\ stacks[unused_stack].tree \in 0..newcount
    BY <2>1, SlotOK DEF SlotType
  <2>3. Inst.id \in 0..Len(Tags)-1
    BY <1>7, InstTyped DEF TLink, At, InstOK
  <2>4. LinkEntry(SymbolAt(Inst.id), left) \in LogType(newcount)
    BY <1>0, <2>3, SymbolOK, EntriesOK
  <2> DEFINE back == BackLog(heap, stacks[unused_stack].value)
  <2>5. back.log \in Seq(LogType(newcount)) /\ HeapOK(back.heap, newcount)
    BY <1>0, <2>2, BackLogOK
  <2>6. /\ log' = Append(back.log, LinkEntry(SymbolAt(Inst.id), left))
        /\ heap' = GcIncAll(back.heap, <<left>>)
    BY <1>7 DEF TLink
  <2> HIDE DEF back
  <2>7. log' \in Seq(LogType(newcount)) /\ HeapOK(heap', newcount)
    BY <1>0, <2>4, <2>5, <2>6, AppendOK, IncOK
  <2> QED
    BY <1>7, <2>1, <2>2, <2>7, InstTyped, StackAssumption
       DEF TLink, At, Advance, TypeOK
<1>8. CASE TFold
  <2>1. Inst.shift \in Int /\ Inst.id \in 0..Len(Tags)-1
    BY <1>8, InstTyped DEF TFold, At, InstOK
  <2> DEFINE new  == NewEntry(pos + Inst.shift)
             link == LinkEntry(SymbolAt(Inst.id % 256), left)
  <2>2. new \in LogType(newcount) /\ link \in LogType(newcount)
    <3>1. new \in LogType(newcount)
      BY <1>0, <2>1, EntriesOK
    <3>2. SymbolAt(Inst.id % 256) \in Symbols
      BY <1>0, <2>1, SymbolOK
    <3>3. link \in LogType(newcount)
      BY <1>0, <3>2, EntriesOK
    <3> QED
      BY <3>1, <3>3
  <2>3. log' = log \o <<new, link>> /\ heap' = GcIncAll(heap, <<left>>)
    BY <1>8 DEF TFold
  <2> HIDE DEF new, link
  <2>4. <<new, link>> \in Seq(LogType(newcount))
    BY <2>2
  <2>5. log' \in Seq(LogType(newcount)) /\ HeapOK(heap', newcount)
    BY <1>0, <2>3, <2>4, ConcatProperties, IncOK
  <2> QED
    BY <1>8, <2>5, LogOK DEF TFold, At, Advance
<1> QED
  BY <1>1, <1>2, <1>3, <1>4, <1>5, <1>6, <1>7, <1>8 DEF Build

\* Two memo points never share a key, at one position or at two: an entry whose
\* key a lookup finds was stored for that memo point at that position, whatever
\* was evicted from the slot before (cnez-runtime.h longkey, for memo points
\* below 4096).
THEOREM KeysDistinct ==
  ASSUME NEW p \in Int, NEW q \in Int, NEW m \in Nat, NEW n \in Nat,
         m < 4096, n < 4096, LongKey(p, m) = LongKey(q, n)
  PROVE  p = q /\ m = n
<1>1. /\ p - InputBase \in Int /\ q - InputBase \in Int
      /\ (p - InputBase) * 4096 + m = (q - InputBase) * 4096 + n
  BY InputAssumption DEF LongKey
<1> QED
  BY <1>1, InputAssumption

\* A key has its slot in the table, and what a store puts there has its type.
LEMMA MemoSlotOK ==
  ASSUME TypeOK, NEW p \in Int, NEW uid \in Nat
  PROVE  /\ LongKey(p, uid) \in Int
         /\ Hash(LongKey(p, uid)) \in 0..MemoSize-1
         /\ memo[Hash(LongKey(p, uid))] \in EntryType(newcount)
         /\ \A res \in {NotFound, SuccFound, FailFound} :
              Store(uid, p, res)
                => memo' \in [0..MemoSize-1 -> EntryType(newcount)]
         /\ HeapOK(Stored(uid, p), newcount)
<1> DEFINE key == LongKey(p, uid)
<1>1. key \in Int
  BY InputAssumption DEF LongKey
<1>2. MemoSize \in Nat \ {0}
  BY MemoAssumption DEF MemoSize
<1> HIDE DEF key
<1>3. key % MemoSize \in 0..MemoSize-1
  BY <1>1, <1>2
<1>4. memo[Hash(key)] \in EntryType(newcount)
  BY <1>3 DEF TypeOK, Hash
<1>5. ASSUME NEW res \in {NotFound, SuccFound, FailFound}, Store(uid, p, res)
      PROVE  memo' \in [0..MemoSize-1 -> EntryType(newcount)]
  <2> DEFINE e == [key |-> key, consumed |-> pos - p, tree |-> left, result |-> res]
  <2>1. e \in EntryType(newcount)
    BY <1>1 DEF EntryType, TypeOK
  <2>2. memo' = [memo EXCEPT ![Hash(key)] = e]
    BY <1>5 DEF Store, key
  <2> QED
    BY <2>1, <2>2 DEF TypeOK
<1>6. HeapOK(Stored(uid, p), newcount)
  BY SetOK DEF Stored, TypeOK
<1> QED
  BY <1>1, <1>3, <1>4, <1>5, <1>6 DEF key, Hash

\* Memo instructions.
LEMMA MemoizeOK ==
  ASSUME TypeOK, Memoize
  PROVE  TypeOK'
<1>0. /\ HeapOK(heap, newcount) /\ newcount \in Nat /\ pos \in Int
      /\ left \in 0..newcount
  BY DEF TypeOK
<1>1. /\ Defined /\ Inst.uid \in Nat /\ Inst.next \in Int
      /\ Inst.op \in {"Lookup", "TLookup"} => Inst.jump \in Int
      /\ fail_stack \in 0..StackSize-3
      /\ UNCHANGED <<input, status, result>>
  BY InstTyped DEF Memoize, Lookup, TLookup, Memo, MemoFail, At, InstOK, Defined
<1> DEFINE entry == Entry(Inst.uid)
<1>2. entry \in EntryType(newcount)
  BY <1>0, <1>1, MemoSlotOK DEF Entry
<1>3. /\ entry.consumed \in Int /\ entry.tree \in 0..newcount
  BY <1>2 DEF EntryType
<1> HIDE DEF entry
<1>4. CASE Lookup
  <2>1. CASE PopFail(heap) /\ UNCHANGED memo
    BY <1>0, <1>1, <2>1, FailOK
  <2>2. CASE /\ pc' \in {Inst.next, Inst.next + Inst.jump}
             /\ pos' \in {pos, pos + entry.consumed}
             /\ UNCHANGED <<frames, tree, memo>>
    <3>1. pc' \in Int /\ pos' \in Int
      BY <1>0, <1>1, <1>3, <1>4, <2>2 DEF Lookup, At
    <3> QED
      BY <1>1, <2>2, <3>1, MoveOK
  <2> QED
    BY <1>4, <2>1, <2>2 DEF Lookup, Advance, entry
<1>5. CASE TLookup
  <2>1. HeapOK(GcSet(heap, left, entry.tree), newcount)
    BY <1>0, SetOK
  <2>2. CASE PopFail(GcSet(heap, left, entry.tree)) /\ UNCHANGED memo
    BY <1>1, <2>1, <2>2, FailOK
  <2>3. CASE Advance /\ UNCHANGED <<pos, frames, tree, memo>>
    BY <1>0, <1>1, <2>3, MoveOK DEF Advance
  <2>4. CASE /\ pos' = pos + entry.consumed /\ left' = entry.tree
             /\ heap' = GcSet(heap, left, entry.tree)
             /\ pc' = Inst.next + Inst.jump
             /\ UNCHANGED <<frames, log, newcount, memo>>
    <3>1. pc' \in Int /\ pos' \in Int
      BY <1>0, <1>1, <1>3, <1>5, <2>4 DEF TLookup, At
    <3> QED
      BY <1>1, <1>3, <2>1, <2>4, <3>1 DEF TypeOK, frames
  <2> QED
    BY <1>5, <2>2, <2>3, <2>4 DEF TLookup, entry
<1>6. CASE Memo
  <2> DEFINE ppos == stacks[fail_stack + 1].value
  <2>1. /\ fail_stack \in 0..StackSize-1 /\ fail_stack + 1 \in 0..StackSize-1
    BY <1>1, StackAssumption
  <2>2. ppos \in Int /\ stacks[fail_stack].value \in Int
    BY <2>1, SlotOK DEF SlotType
  <2>3. Store(Inst.uid, ppos, SuccFound) /\ heap' = Stored(Inst.uid, ppos)
    BY <1>6 DEF Memo
  <2> HIDE DEF ppos
  <2>4. /\ memo' \in [0..MemoSize-1 -> EntryType(newcount)]
        /\ HeapOK(heap', newcount)
    BY <1>1, <2>2, <2>3, MemoSlotOK
  <2>5. /\ unused_stack' = fail_stack - 1
        /\ fail_stack' = stacks[fail_stack].value
        /\ pc' = Inst.next
        /\ UNCHANGED <<pos, left, log, newcount, stacks>>
    BY <1>6 DEF Memo, PopSucc, Advance
  <2>6. unused_stack' \in -1..StackSize-1 /\ fail_stack' \in Int /\ pc' \in Int
    BY <1>1, <2>1, <2>2, <2>5, StackAssumption
  <2> QED
    BY <1>1, <2>4, <2>5, <2>6 DEF TypeOK
<1>7. CASE MemoFail
  <2>1. /\ Store(Inst.uid, pos, FailFound)
        /\ PopFail(Stored(Inst.uid, pos))
    BY <1>7 DEF MemoFail
  <2>2. /\ memo' \in [0..MemoSize-1 -> EntryType(newcount)]
        /\ HeapOK(Stored(Inst.uid, pos), newcount)
    BY <1>0, <1>1, <2>1, MemoSlotOK
  <2>3. /\ pc' \in Int /\ pos' \in Int /\ fail_stack' \in Int
        /\ left' \in 0..newcount
        /\ unused_stack' \in -1..StackSize-1
        /\ stacks' = stacks /\ newcount' = newcount
        /\ log' \in Seq(LogType(newcount))
        /\ HeapOK(heap', newcount)
    BY <1>1, <2>1, <2>2, PopFailOK
  <2> QED
    BY <1>1, <2>2, <2>3 DEF TypeOK
<1> QED
  BY <1>4, <1>5, <1>6, <1>7 DEF Memoize

\* The release of the context.
LEMMA DisposeOK ==
  ASSUME TypeOK, Dispose
  PROVE  TypeOK'
<1> DEFINE h0 == GcDecAll(heap, [h \in 1..MemoSize |-> memo[h-1].tree])
           back == BackLog(h0, 0)
<1>1. /\ status' = "disposed"
      /\ memo' = [h \in DOMAIN memo |-> EmptyEntry]
      /\ log' = back.log
      /\ heap' = GcDecAll(back.heap, [s \in 1..StackSize |-> stacks[s-1].tree])
      /\ stacks' = [s \in DOMAIN stacks |-> [stacks[s] EXCEPT !.tree = NULL]]
      /\ UNCHANGED <<input, pc, pos, left, unused_stack, fail_stack, newcount,
                     result>>
  BY DEF Dispose
<1>2. newcount \in Nat /\ HeapOK(heap, newcount) /\ NULL \in 0..newcount
  BY DEF TypeOK, NULL
<1>3. HeapOK(h0, newcount)
  BY <1>2, DecOK
<1> HIDE DEF h0
<1>4. back.log \in Seq(LogType(newcount)) /\ HeapOK(back.heap, newcount)
  BY <1>3, BackLogOK
<1> HIDE DEF back
<1>5. HeapOK(heap', newcount)
  BY <1>1, <1>2, <1>4, DecOK
<1>6. EmptyEntry \in EntryType(newcount)
  BY <1>2 DEF EmptyEntry, EntryType, NotFound
<1>7. memo' \in [0..MemoSize-1 -> EntryType(newcount)]
  BY <1>1, <1>6 DEF TypeOK
<1>8. stacks' \in [0..StackSize-1 -> SlotType(newcount)]
  <2>1. \A s \in 0..StackSize-1 :
          [stacks[s] EXCEPT !.tree = NULL] \in SlotType(newcount)
    BY <1>2, SlotOK
  <2> QED
    BY <1>1, <2>1 DEF TypeOK
<1> QED
  BY <1>1, <1>4, <1>5, <1>7, <1>8 DEF TypeOK

\* A step of the machine, whatever it is, keeps every variable in its type.
LEMMA NextOK == TypeOK /\ [Next]_vars => TypeOK'
<1> SUFFICES ASSUME TypeOK, [Next]_vars PROVE TypeOK'
  OBVIOUS
<1>1. CASE Undefined
  BY <1>1 DEF Undefined, TypeOK, frames, tree
<1>2. CASE Done \/ UNCHANGED vars
  BY <1>2 DEF Done, TypeOK, vars
<1> QED
  BY <1>1, <1>2, ControlOK, ScanOK, BuildOK, MemoizeOK, DisposeOK DEF Next

\* In every reachable state of the interpreter each variable has its type:
\* the tree pointers in left, in the stack slots (in use or stale), in the log
\* and in the memo table are NULL or nodes that were made, a node's children
\* are older than the node, and the memo table has its size (nezvm.c
\* mininez_parse, whatever bytecode of typed operands it runs).
THEOREM TypeCorrect == Spec => []TypeOK
<1>1. Init => TypeOK
  BY InitOK
<1>2. TypeOK /\ [Next]_vars => TypeOK'
  BY NextOK
<1> QED
  BY <1>1, <1>2, PTL DEF Spec
-----------------------------------------------------------------------------
(* The items on the stack.                                                 *)

\* An item opened in a procedure, a call, or the bottom.
Kinds == Opened \cup {"call", Leaving}

\* What is open in the procedure with the item on top, the top slot, the
\* innermost frame; the position and the log can not go back below pos and size
\* while the item is there.
Item == [kind : Kinds, local : Seq(Letters), top : Nat, frame : Nat,
         pos : Int, size : Nat]

\* What init pushes: the failure frame of the whole run and its return address.
Bottom == [kind |-> Leaving, local |-> <<Leaving>>, top |-> 3, frame |-> 0,
           pos |-> InputBase, size |-> 0]

\* On a stack stk with a log lg, item q is right above item p.
Over(S, stk, lg, p, q) ==
  /\ p.pos <= q.pos /\ p.size <= q.size
  /\ \/ /\ q.kind = "pos" /\ q.local = Append(p.local, "pos")
        /\ q.top = p.top + 1 /\ q.frame = p.frame
        /\ stk[q.top].value = q.pos
     \/ /\ q.kind = "tree" /\ q.local = Append(p.local, "tree")
        /\ q.top = p.top + 1 /\ q.frame = p.frame
        /\ stk[q.top].value = q.size
     \/ /\ q.kind = "call" /\ q.local \in Entries
        /\ q.local = <<Inside>> => NodeOpen(p.local)
        /\ q.top = p.top + 1 /\ q.frame = p.frame
        /\ stk[q.top].value \in DOMAIN S /\ S[stk[q.top].value] = p.local
        /\ stk[q.top].value \in Returns(S)
     \/ /\ q.kind = "alt" /\ q.local = Append(p.local, "alt")
        /\ q.top = p.top + 3 /\ q.frame = p.top + 1
        /\ stk[q.frame].value = p.frame
        /\ stk[q.frame + 1].value = q.pos
        /\ stk[q.frame + 1].num \in DOMAIN S /\ S[stk[q.frame + 1].num] = p.local
        /\ stk[q.frame + 2].value = q.size
     \/ /\ q.kind = "node" /\ q.local = Append(p.local, "node")
        /\ q.top = p.top /\ q.frame = p.frame
        /\ p.size < q.size /\ lg[q.size].op = NewOp

\* The items grow upwards.
Sorted(L) ==
  \A i, j \in 1..Len(L) : i < j =>
    /\ L[i].top <= L[j].top /\ L[i].pos <= L[j].pos /\ L[i].size <= L[j].size
    /\ L[j].kind = "node" => L[i].size < L[j].size

\* Every frame in force is an alternative's.
FramesHeld(L) ==
  \A i \in 1..Len(L) :
    L[i].frame = 0 \/ \E k \in 2..i : L[k].kind = "alt" /\ L[k].frame = L[i].frame

\* A procedure called inside a node is.
NodesHeld(L) ==
  \A i \in 1..Len(L) : NodeOpen(L[i].local) => \E k \in 2..i : L[k].kind = "node"

\* Every node begun in the log is an item's, and the log begins with one.
LogHeld(L, lg) ==
  /\ \A i \in 1..Len(L) : L[i].size <= Len(lg)
  /\ \A n \in 1..Len(lg) :
       lg[n].op = NewOp => \E k \in 2..Len(L) : L[k].kind = "node" /\ L[k].size = n
  /\ lg # <<>> => lg[1].op = NewOp

\* L is what the stack and the log hold.
Stacked(S, L, stk, lg) ==
  /\ L \in Seq(Item) /\ L # <<>> /\ L[1] = Bottom
  /\ \A i \in 2..Len(L) : Over(S, stk, lg, L[i-1], L[i])
  /\ stk[0].value = 0 /\ stk[1].num = 0 /\ stk[2].value = InputBase
  /\ Sorted(L) /\ FramesHeld(L) /\ NodesHeld(L) /\ LogHeld(L, lg)

\* The registers are those of the top item.
AtTop(S, q) ==
  /\ unused_stack = q.top /\ fail_stack = q.frame
  /\ pc \in DOMAIN S /\ S[pc] = q.local
  /\ q.pos <= pos

\* The list lies on the stack, and the machine is where its top item says.
Held(S, L) == Stacked(S, L, stacks, log) /\ AtTop(S, L[Len(L)])

\* A failure without an alternative: the next instruction is Exit 0.
Failed == unused_stack = -1 /\ fail_stack = 0 /\ pc = 0

\* No memo entry takes the position back.
MemoForward == \A h \in 0..MemoSize-1 : memo[h].consumed >= 0

\* The inductive invariant: a running machine that has not failed holds a list of items.
Disciplined(S) ==
  /\ status = "run" => Failed \/ \E L : Held(S, L)
  /\ BalancedExit
  /\ MemoForward
-----------------------------------------------------------------------------
(* Lists of items.                                                         *)

\* A procedure that opens something that is no node is in a node when it was.
LEMMA NodeOpenAppend ==
  ASSUME NEW s \in Seq(Letters), NEW letter \in Opened \ {"node"},
         NodeOpen(Append(s, letter))
  PROVE  NodeOpen(s)
<1>1. /\ Len(s) \in Nat /\ DOMAIN s = 1..Len(s)
      /\ DOMAIN Append(s, letter) = 1..Len(s)+1
      /\ \A i \in 1..Len(s) : Append(s, letter)[i] = s[i]
      /\ Append(s, letter)[Len(s) + 1] = letter
  BY LenProperties, AppendProperties DEF Letters
<1> QED
  BY <1>1 DEF NodeOpen, Opened, Inside

\* The elements of a list of items.
LEMMA ItemsIs ==
  ASSUME NEW S, NEW L, NEW stk, NEW lg, Stacked(S, L, stk, lg)
  PROVE  /\ Len(L) \in Nat \ {0} /\ \A i \in 1..Len(L) : L[i] \in Item
         /\ \A i \in 1..Len(L) : L[i].top \in Nat /\ L[i].frame \in Nat
              /\ L[i].pos \in Int /\ L[i].size \in Nat
              /\ L[i].local \in Seq(Letters) /\ L[i].kind \in Kinds
         /\ \A i \in 1..Len(L) : 3 <= L[i].top /\ InputBase <= L[i].pos
<1>1. L \in Seq(Item) /\ L # <<>> /\ L[1] = Bottom /\ Sorted(L)
  BY DEF Stacked
<1>2. Len(L) \in Nat \ {0} /\ \A i \in 1..Len(L) : L[i] \in Item
  BY <1>1, EmptySeq, ElementOfSeq
<1>3. \A i \in 1..Len(L) : L[i].top \in Nat /\ L[i].frame \in Nat
        /\ L[i].pos \in Int /\ L[i].size \in Nat
        /\ L[i].local \in Seq(Letters) /\ L[i].kind \in Kinds
  BY <1>2 DEF Item
<1>4. Bottom.top = 3 /\ Bottom.pos = InputBase
  BY DEF Bottom
<1>5. \A i \in 1..Len(L) : 3 <= L[i].top /\ InputBase <= L[i].pos
  <2> SUFFICES ASSUME NEW i \in 1..Len(L) PROVE 3 <= L[i].top /\ InputBase <= L[i].pos
    OBVIOUS
  <2>1. CASE i = 1
    BY <1>1, <1>4, <2>1, InputAssumption
  <2>2. CASE i > 1
    BY <1>1, <1>2, <1>4, <2>2 DEF Sorted
  <2> QED
    BY <1>2, <2>1, <2>2
<1> QED
  BY <1>2, <1>3, <1>5

\* A fact about all items, for one pair of them.
LEMMA SortedAt ==
  ASSUME NEW L, Sorted(L), NEW i \in 1..Len(L), NEW j \in 1..Len(L), i < j
  PROVE  /\ L[i].top <= L[j].top /\ L[i].pos <= L[j].pos /\ L[i].size <= L[j].size
         /\ L[j].kind = "node" => L[i].size < L[j].size
BY DEF Sorted

\* Slots up to top are what they were, as far as items are concerned.
SlotsKept(stk, stk2, top) ==
  \A s \in 0..top : stk2[s].value = stk[s].value /\ stk2[s].num = stk[s].num

\* lg2 has the first n entries of lg, and no node begins above them.
LogCut(lg, lg2, n) ==
  /\ Len(lg) \in Nat /\ lg2 \in Seq(Range(lg2))
  /\ n \in 0..Len(lg) /\ n <= Len(lg2)
  /\ \A i \in 1..n : lg2[i] = lg[i]
  /\ \A i \in n+1..Len(lg2) : lg2[i].op # NewOp

\* A log of n entries has no room for the nodes above item k.
NodesCut(L, k, n) == \A j \in k+1..Len(L) : L[j].kind = "node" => n < L[j].size

\* An item stands when its slots and the log's entries below its size are kept.
LEMMA OverKept ==
  ASSUME NEW S, NEW stk, NEW stk2, NEW lg, NEW lg2, NEW p \in Item, NEW q \in Item,
         Over(S, stk, lg, p, q), SlotsKept(stk, stk2, q.top), 3 <= p.top,
         \A i \in 1..q.size : lg2[i] = lg[i]
  PROVE  Over(S, stk2, lg2, p, q)
<1>1. p.top \in Nat /\ q.top \in Nat /\ q.size \in Nat /\ p.size \in Nat /\ q.frame \in Nat
  BY DEF Item
<1>2. stk2[q.top].value = stk[q.top].value
  BY <1>1 DEF SlotsKept
<1>3. CASE q.kind = "node"
  <2>1. p.size < q.size /\ lg[q.size].op = NewOp
    BY <1>3 DEF Over
  <2>2. lg2[q.size] = lg[q.size]
    BY <1>1, <2>1
  <2> QED
    BY <1>3, <2>1, <2>2 DEF Over
<1>4. CASE q.kind = "alt"
  <2>1. q.top = p.top + 3 /\ q.frame = p.top + 1
    BY <1>4 DEF Over
  <2>2. {q.frame, q.frame + 1, q.frame + 2} \subseteq 0..q.top
    BY <1>1, <2>1
  <2>3. \A x \in {q.frame, q.frame + 1, q.frame + 2} :
          stk2[x].value = stk[x].value /\ stk2[x].num = stk[x].num
    BY <2>2 DEF SlotsKept
  <2> QED
    BY <1>4, <2>3 DEF Over
<1>5. CASE q.kind \notin {"node", "alt"}
  BY <1>2, <1>5 DEF Over
<1> QED
  BY <1>3, <1>4, <1>5

\* The items up to k still stand when nothing below them changed and the log
\* was cut to n entries, or grew by entries that begin no node.
LEMMA CutOK ==
  ASSUME NEW S, NEW L, NEW stk, NEW lg, Stacked(S, L, stk, lg),
         NEW k \in 1..Len(L), NEW n, L[k].size <= n, NodesCut(L, k, n),
         NEW stk2, SlotsKept(stk, stk2, L[k].top),
         NEW lg2, LogCut(lg, lg2, n), n < Len(lg2) => NodeOpen(L[k].local)
  PROVE  /\ Stacked(S, SubSeq(L, 1, k), stk2, lg2)
         /\ Len(SubSeq(L, 1, k)) = k
         /\ SubSeq(L, 1, k)[k] = L[k]
<1> DEFINE M == SubSeq(L, 1, k)
<1>1. /\ L \in Seq(Item) /\ L # <<>> /\ L[1] = Bottom
      /\ stk[0].value = 0 /\ stk[1].num = 0 /\ stk[2].value = InputBase
      /\ \A i \in 2..Len(L) : Over(S, stk, lg, L[i-1], L[i])
      /\ Sorted(L) /\ FramesHeld(L) /\ NodesHeld(L) /\ LogHeld(L, lg)
  BY DEF Stacked
<1>2. Len(L) \in Nat \ {0} /\ k \in Nat /\ \A i \in 1..Len(L) : L[i] \in Item
  BY ItemsIs
<1>3. M \in Seq(Item) /\ Len(M) = k /\ \A i \in 1..k : M[i] = L[i]
  BY <1>2, SubSeqProperties
<1> HIDE DEF M
<1>4. M # <<>> /\ M[1] = Bottom
  BY <1>1, <1>2, <1>3
<1>0. n \in Nat /\ Len(lg2) \in Nat /\ Len(lg) \in Nat /\ n <= Len(lg) /\ n <= Len(lg2)
  BY LenProperties DEF LogCut
<1>5. ASSUME NEW i \in 1..k
      PROVE  /\ L[i].top <= L[k].top /\ L[i].size <= L[k].size
             /\ 3 <= L[i].top
             /\ L[i].top \in Nat /\ L[i].size \in 0..n /\ L[k].top \in Nat
  <2>1. /\ L[i].top \in Nat /\ L[i].size \in Nat /\ L[k].size \in Nat /\ L[k].top \in Nat
        /\ i \in 1..Len(L) /\ 3 <= L[i].top
    <3>1. i \in 1..Len(L)
      BY <1>2
    <3> QED
      BY <3>1, ItemsIs
  <2>2. CASE i = k
    BY <1>0, <2>1, <2>2
  <2>3. CASE i < k
    <3>1. L[i].top <= L[k].top /\ L[i].size <= L[k].size
      BY <1>1, <2>1, <2>3, SortedAt
    <3>2. L[k].size <= n /\ n \in Nat
      BY <1>0
    <3> QED
      BY <2>1, <3>1, <3>2
  <2> QED
    BY <1>2, <2>2, <2>3
<1>6. ASSUME NEW i \in 2..k
      PROVE  Over(S, stk2, lg2, M[i-1], M[i])
  <2>1. i - 1 \in 1..k /\ i \in 1..k /\ i \in 2..Len(L)
    BY <1>2
  <2>2. Over(S, stk, lg, L[i-1], L[i]) /\ L[i-1] \in Item /\ L[i] \in Item
    BY <1>1, <1>2, <2>1
  <2>3. SlotsKept(stk, stk2, L[i].top)
    BY <1>5, <2>1 DEF SlotsKept
  <2>4. \A m \in 1..L[i].size : lg2[m] = lg[m]
    BY <1>0, <1>5, <2>1 DEF LogCut
  <2>5. Over(S, stk2, lg2, L[i-1], L[i])
    BY <1>5, <2>1, <2>2, <2>3, <2>4, OverKept
  <2> QED
    BY <1>3, <2>1, <2>5
<1>7. Sorted(M)
  <2> SUFFICES ASSUME NEW i \in 1..k, NEW j \in 1..k, i < j
               PROVE  /\ L[i].top <= L[j].top /\ L[i].pos <= L[j].pos
                      /\ L[i].size <= L[j].size
                      /\ L[j].kind = "node" => L[i].size < L[j].size
    BY <1>3 DEF Sorted
  <2>1. Sorted(L) /\ i \in 1..Len(L) /\ j \in 1..Len(L)
    BY <1>1, <1>2
  <2> QED
    BY <2>1, SortedAt
<1>8. FramesHeld(M)
  <2> SUFFICES ASSUME NEW i \in 1..k, L[i].frame # 0
               PROVE  \E m \in 2..i : M[m].kind = "alt" /\ M[m].frame = L[i].frame
    BY <1>3 DEF FramesHeld
  <2>0. FramesHeld(L) /\ i \in 1..Len(L)
    BY <1>1, <1>2
  <2>1. PICK m \in 2..i : L[m].kind = "alt" /\ L[m].frame = L[i].frame
    BY <2>0 DEF FramesHeld
  <2>2. m \in 1..k
    BY <1>2, <2>1
  <2> QED
    BY <1>3, <2>1, <2>2
<1>9. NodesHeld(M)
  <2> SUFFICES ASSUME NEW i \in 1..k, NodeOpen(L[i].local)
               PROVE  \E m \in 2..i : M[m].kind = "node"
    BY <1>3 DEF NodesHeld
  <2>0. NodesHeld(L) /\ i \in 1..Len(L)
    BY <1>1, <1>2
  <2>1. PICK m \in 2..i : L[m].kind = "node"
    BY <2>0 DEF NodesHeld
  <2>2. m \in 1..k
    BY <1>2, <2>1
  <2> QED
    BY <1>3, <2>1, <2>2
<1>10. LogHeld(M, lg2)
  <2>1. \A i \in 1..k : M[i].size <= Len(lg2)
    BY <1>0, <1>3, <1>5
  <2>2. ASSUME NEW i \in 1..Len(lg2), lg2[i].op = NewOp
        PROVE  \E j \in 2..k : M[j].kind = "node" /\ M[j].size = i
    <3>1. i \in 1..n /\ lg[i].op = NewOp /\ i \in 1..Len(lg)
      BY <1>0, <2>2 DEF LogCut
    <3>2. PICK j \in 2..Len(L) : L[j].kind = "node" /\ L[j].size = i
      BY <1>1, <3>1 DEF LogHeld
    <3>3. j \in 2..k
      BY <1>0, <1>2, <3>1, <3>2 DEF NodesCut
    <3> QED
      BY <1>2, <1>3, <3>2, <3>3
  <2>3. lg2 # <<>> => lg2[1].op = NewOp
    <3>1. CASE n > 0
      <4>1. Len(lg) > 0 /\ lg2[1] = lg[1]
        BY <1>0, <3>1 DEF LogCut
      <4>2. lg # <<>>
        BY <4>1, EmptySeq
      <4> QED
        BY <1>1, <4>1, <4>2 DEF LogHeld
    <3>2. CASE n = 0 /\ Len(lg2) = 0
      BY <3>2, EmptySeq DEF LogCut
    <3>3. CASE n = 0 /\ n < Len(lg2)
      <4>1. PICK j \in 2..k : L[j].kind = "node"
        BY <1>1, <3>3 DEF NodesHeld
      <4>2. 1 \in 1..k /\ j \in 1..k /\ 1 < j /\ 1 \in 1..Len(L) /\ j \in 1..Len(L)
        BY <1>2, <4>1
      <4>3. L[1].size < L[j].size
        BY <1>1, <4>1, <4>2, SortedAt
      <4> QED
        BY <1>5, <3>3, <4>2, <4>3
    <3> QED
      BY <1>0, <3>1, <3>2, <3>3
  <2> QED
    BY <1>3, <2>1, <2>2, <2>3 DEF LogHeld
<1>11. stk2[0].value = 0 /\ stk2[1].num = 0 /\ stk2[2].value = InputBase
  <2>1. 0 \in 0..L[k].top /\ 1 \in 0..L[k].top /\ 2 \in 0..L[k].top
    BY <1>2, <1>5
  <2> QED
    BY <1>1, <2>1 DEF SlotsKept
<1>12. Stacked(S, M, stk2, lg2)
  BY <1>3, <1>4, <1>6, <1>7, <1>8, <1>9, <1>10, <1>11 DEF Stacked
<1> QED
  BY <1>2, <1>3, <1>12 DEF M

\* An item put on top of the items of M, as the log grows from lg to lg2.
LEMMA PushOK ==
  ASSUME NEW S, NEW M, NEW stk, NEW lg, Stacked(S, M, stk, lg), Len(lg) \in Nat,
         NEW q \in Item, NEW lg2, Over(S, stk, lg2, M[Len(M)], q),
         lg2 \in Seq(Range(lg2)), Len(lg) <= Len(lg2), q.size <= Len(lg2),
         \A i \in 1..Len(lg) : lg2[i] = lg[i],
         \A i \in Len(lg)+1..Len(lg2) : lg2[i].op = NewOp => q.kind = "node" /\ q.size = i,
         Len(lg) = 0 /\ Len(lg2) > 0 => lg2[1].op = NewOp
  PROVE  /\ Stacked(S, Append(M, q), stk, lg2)
         /\ Append(M, q)[Len(Append(M, q))] = q
<1> DEFINE L == Append(M, q)
           m == Len(M)
           p == M[m]
<1>1. /\ M \in Seq(Item) /\ M # <<>> /\ M[1] = Bottom
      /\ stk[0].value = 0 /\ stk[1].num = 0 /\ stk[2].value = InputBase
      /\ \A i \in 2..m : Over(S, stk, lg, M[i-1], M[i])
      /\ Sorted(M) /\ FramesHeld(M) /\ NodesHeld(M) /\ LogHeld(M, lg)
  BY DEF Stacked
<1>2. m \in Nat \ {0} /\ \A i \in 1..m : M[i] \in Item
  BY ItemsIs
<1>3. L \in Seq(Item) /\ Len(L) = m + 1 /\ L[m+1] = q /\ \A i \in 1..m : L[i] = M[i]
  BY <1>1, AppendProperties
<1> HIDE DEF L, m
<1>4. L # <<>> /\ L[1] = Bottom
  BY <1>1, <1>2, <1>3
<1>5. /\ p.top \in Nat /\ p.size \in Nat /\ p.pos \in Int /\ p.frame \in Nat
      /\ p.local \in Seq(Letters) /\ p \in Item
      /\ q.top \in Nat /\ q.size \in Nat /\ q.pos \in Int /\ q.frame \in Nat
      /\ q.kind \in Kinds
  BY <1>2 DEF Item
<1>6. /\ p.pos <= q.pos /\ p.size <= q.size /\ p.top <= q.top
      /\ q.kind = "node" => p.size < q.size
  <2>1. Over(S, stk, lg2, p, q)
    BY DEF m
  <2> HIDE DEF p
  <2> QED
    BY <1>5, <2>1 DEF Over
<1>7. ASSUME NEW i \in 1..m
      PROVE  /\ M[i].top \in Nat /\ M[i].pos \in Int /\ M[i].size \in Nat
             /\ M[i].top <= p.top /\ M[i].pos <= p.pos /\ M[i].size <= p.size
             /\ M[i].size <= Len(lg) /\ 3 <= M[i].top /\ M[i].frame \in Nat
  <2>1. /\ M[i].top \in Nat /\ M[i].pos \in Int /\ M[i].size \in Nat /\ 3 <= M[i].top
        /\ M[i].frame \in Nat
    BY ItemsIs DEF m
  <2>2. CASE i = m
    BY <1>1, <1>5, <2>1, <2>2 DEF LogHeld, m
  <2>3. CASE i < m
    BY <1>1, <1>2, <2>1, <2>3, SortedAt DEF LogHeld, m
  <2> QED
    BY <1>2, <2>2, <2>3
<1>8. ASSUME NEW i \in 2..m+1
      PROVE  Over(S, stk, lg2, L[i-1], L[i])
  <2>1. CASE i = m + 1
    BY <1>2, <1>3, <2>1 DEF m
  <2>2. CASE i \in 2..m
    <3>1. i - 1 \in 1..m /\ i \in 1..m
      BY <1>2, <2>2
    <3>2. Over(S, stk, lg, M[i-1], M[i]) /\ M[i-1] \in Item /\ M[i] \in Item
      BY <1>1, <1>2, <2>2, <3>1
    <3>3. SlotsKept(stk, stk, M[i].top)
      BY DEF SlotsKept
    <3>4. \A j \in 1..M[i].size : lg2[j] = lg[j]
      <4>1. M[i].size \in Nat /\ M[i].size <= Len(lg)
        BY <1>7, <3>1
      <4>2. \A j \in 1..M[i].size : j \in 1..Len(lg)
        BY <4>1
      <4> QED
        BY <4>2
    <3>5. Over(S, stk, lg2, M[i-1], M[i])
      BY <1>7, <3>1, <3>2, <3>3, <3>4, OverKept
    <3> QED
      BY <1>3, <3>1, <3>5
  <2> QED
    BY <1>2, <2>1, <2>2
<1>9. Sorted(L)
  <2> SUFFICES ASSUME NEW i \in 1..m+1, NEW j \in 1..m+1, i < j
               PROVE  /\ L[i].top <= L[j].top /\ L[i].pos <= L[j].pos
                      /\ L[i].size <= L[j].size
                      /\ L[j].kind = "node" => L[i].size < L[j].size
    BY <1>3 DEF Sorted
  <2>1. CASE j = m + 1
    <3>1. i \in 1..m
      BY <1>2, <2>1
    <3>2. L[i] = M[i] /\ L[j] = q
      BY <1>3, <2>1, <3>1
    <3>3. /\ M[i].top <= p.top /\ M[i].pos <= p.pos /\ M[i].size <= p.size
          /\ M[i].top \in Nat /\ M[i].pos \in Int /\ M[i].size \in Nat
      BY <1>7, <3>1
    <3>4. M[i].top <= q.top
      <4>1. /\ M[i].top \in Nat /\ p.top \in Nat /\ q.top \in Nat
            /\ M[i].top <= p.top /\ p.top <= q.top
        BY <1>5, <1>6, <3>3
      <4> HIDE DEF p
      <4> QED
        BY <4>1
    <3>5. M[i].pos <= q.pos
      <4>1. /\ M[i].pos \in Int /\ p.pos \in Int /\ q.pos \in Int
            /\ M[i].pos <= p.pos /\ p.pos <= q.pos
        BY <1>5, <1>6, <3>3
      <4> HIDE DEF p
      <4> QED
        BY <4>1
    <3>6. M[i].size <= q.size /\ (q.kind = "node" => M[i].size < q.size)
      <4>1. /\ M[i].size \in Nat /\ p.size \in Nat /\ q.size \in Nat
            /\ M[i].size <= p.size /\ p.size <= q.size
            /\ q.kind = "node" => p.size < q.size
        BY <1>5, <1>6, <3>3
      <4> HIDE DEF p
      <4> QED
        BY <4>1
    <3> QED
      BY <3>2, <3>4, <3>5, <3>6
  <2>2. CASE j \in 1..m
    <3>1. i \in 1..m
      BY <1>2, <2>2
    <3>2. /\ M[i].top <= M[j].top /\ M[i].pos <= M[j].pos /\ M[i].size <= M[j].size
          /\ M[j].kind = "node" => M[i].size < M[j].size
      <4>1. i \in 1..Len(M) /\ j \in 1..Len(M) /\ Sorted(M)
        BY <1>1, <2>2, <3>1 DEF m
      <4> QED
        BY <4>1, SortedAt
    <3>3. L[i] = M[i] /\ L[j] = M[j]
      BY <1>3, <2>2, <3>1
    <3> QED
      BY <3>2, <3>3
  <2> QED
    BY <1>2, <2>1, <2>2
<1>10. FramesHeld(L)
  <2> SUFFICES ASSUME NEW i \in 1..m+1, L[i].frame # 0
               PROVE  \E k \in 2..i : L[k].kind = "alt" /\ L[k].frame = L[i].frame
    BY <1>3 DEF FramesHeld
  <2>1. CASE i \in 1..m
    <3>1. PICK k \in 2..i : M[k].kind = "alt" /\ M[k].frame = M[i].frame
      BY <1>1, <1>3, <2>1 DEF FramesHeld, m
    <3>2. k \in 1..m
      BY <1>2, <2>1, <3>1
    <3> QED
      BY <1>3, <2>1, <3>1, <3>2
  <2>2. CASE i = m + 1 /\ q.kind = "alt"
    BY <1>2, <1>3, <2>2
  <2>3. CASE i = m + 1 /\ q.kind # "alt"
    <3>1. q.frame = p.frame
      BY <2>3 DEF Over, m
    <3>2. m \in 1..Len(M) /\ M[m].frame # 0
      BY <1>2, <1>3, <2>3, <3>1 DEF m
    <3>3. PICK k \in 2..m : M[k].kind = "alt" /\ M[k].frame = M[m].frame
      BY <1>1, <3>2 DEF FramesHeld
    <3>4. k \in 1..m /\ k \in 2..i
      BY <1>2, <2>3, <3>3
    <3> QED
      BY <1>3, <2>3, <3>1, <3>3, <3>4
  <2> QED
    BY <1>2, <2>1, <2>2, <2>3
<1>11. NodesHeld(L)
  <2> SUFFICES ASSUME NEW i \in 1..m+1, NodeOpen(L[i].local)
               PROVE  \E k \in 2..i : L[k].kind = "node"
    BY <1>3 DEF NodesHeld
  <2>0. ASSUME NEW j \in 1..m, j <= i, NodeOpen(M[j].local)
        PROVE  \E k \in 2..i : L[k].kind = "node"
    <3>1. PICK k \in 2..j : M[k].kind = "node"
      BY <1>1, <2>0 DEF NodesHeld, m
    <3>2. k \in 1..m /\ k \in 2..i
      BY <1>2, <2>0, <3>1
    <3> QED
      BY <1>3, <3>1, <3>2
  <2>1. CASE i \in 1..m
    BY <1>3, <2>0, <2>1
  <2>2. CASE i = m + 1 /\ q.kind = "node"
    BY <1>2, <1>3, <2>2
  <2>3. CASE i = m + 1 /\ q.kind # "node"
    <3>1. NodeOpen(q.local)
      BY <1>3, <2>3
    <3>2. NodeOpen(p.local)
      <4>1. CASE q.kind = "call"
        <5>1. q.local \in Entries /\ (q.local = <<Inside>> => NodeOpen(p.local))
          BY <4>1 DEF Over, m
        <5>2. ~NodeOpen(<<>>)
          BY DEF NodeOpen
        <5> QED
          BY <3>1, <5>1, <5>2 DEF Entries
      <4>2. CASE q.kind # "call"
        <5>1. PICK letter \in {"pos", "tree", "alt"} : q.local = Append(p.local, letter)
          BY <2>3, <4>2 DEF Over, m
        <5>2. letter \in Opened \ {"node"}
          BY DEF Opened
        <5> QED
          BY <1>5, <3>1, <5>1, <5>2, NodeOpenAppend
      <4> QED
        BY <4>1, <4>2
    <3>3. m \in 1..m /\ m <= i
      BY <1>2, <2>3
    <3> QED
      BY <2>0, <3>2, <3>3
  <2> QED
    BY <1>2, <2>1, <2>2, <2>3
<1>12. LogHeld(L, lg2)
  <2>0. Len(lg2) \in Nat /\ Len(lg) \in Nat
    BY LenProperties
  <2>1. \A i \in 1..m+1 : L[i].size <= Len(lg2)
    <3> SUFFICES ASSUME NEW i \in 1..m+1 PROVE L[i].size <= Len(lg2)
      OBVIOUS
    <3>1. CASE i = m + 1
      BY <1>3, <3>1
    <3>2. CASE i \in 1..m
      <4>1. L[i] = M[i] /\ M[i].size \in Nat /\ M[i].size <= Len(lg)
        BY <1>3, <1>7, <3>2
      <4> QED
        BY <2>0, <4>1
    <3> QED
      BY <1>2, <3>1, <3>2
  <2>2. ASSUME NEW i \in 1..Len(lg2), lg2[i].op = NewOp
        PROVE  \E k \in 2..m+1 : L[k].kind = "node" /\ L[k].size = i
    <3>1. CASE i \in 1..Len(lg)
      <4>1. PICK k \in 2..m : M[k].kind = "node" /\ M[k].size = i
        BY <1>1, <2>2, <3>1 DEF LogHeld, m
      <4>2. k \in 1..m /\ k \in 2..m+1
        BY <1>2, <4>1
      <4> QED
        BY <1>3, <4>1, <4>2
    <3>2. CASE i \in Len(lg)+1..Len(lg2)
      <4>1. m + 1 \in 2..m+1
        BY <1>2
      <4> QED
        BY <1>3, <2>2, <3>2, <4>1
    <3> QED
      BY <2>0, <3>1, <3>2
  <2>3. lg2 # <<>> => lg2[1].op = NewOp
    <3>1. CASE Len(lg) = 0
      BY <2>0, <3>1, EmptySeq
    <3>2. CASE Len(lg) > 0
      <4>1. lg2[1] = lg[1] /\ lg # <<>>
        BY <2>0, <3>2, EmptySeq
      <4> QED
        BY <1>1, <4>1 DEF LogHeld
    <3> QED
      BY <2>0, <3>1, <3>2
  <2> QED
    BY <1>3, <2>1, <2>2, <2>3 DEF LogHeld
<1>13. Stacked(S, L, stk, lg2)
  BY <1>1, <1>3, <1>4, <1>8, <1>9, <1>10, <1>11, <1>12 DEF Stacked
<1> QED
  BY <1>3, <1>13 DEF L
-----------------------------------------------------------------------------
(* Steps of the machine that change one item at most.                      *)

\* The registers and the log have the values the items ask for.
LEMMA HeldIs ==
  ASSUME NEW S, WellShaped(S), TypeOK, NEW L, Held(S, L)
  PROVE  LET m == Len(L)
             q == L[m]
         IN  /\ Stacked(S, L, stacks, log) /\ m \in Nat \ {0} /\ q \in Item
             /\ q.top \in Nat /\ q.frame \in Nat /\ q.pos \in Int /\ q.size \in Nat
             /\ 3 <= q.top /\ unused_stack = q.top /\ fail_stack = q.frame
             /\ q.local \in Seq(Letters)
             /\ pc \in DOMAIN S /\ S[pc] = q.local /\ PairsAt(S, pc)
             /\ q.pos <= pos /\ InputBase <= q.pos /\ q.size <= Len(log)
             /\ pos \in Int /\ Len(log) \in Nat /\ log \in Seq(Range(log))
<1>1. Stacked(S, L, stacks, log) /\ AtTop(S, L[Len(L)])
  BY DEF Held
<1>2. Len(L) \in Nat \ {0} /\ \A i \in 1..Len(L) : L[i] \in Item
  BY <1>1, ItemsIs
<1>3. Len(L) \in 1..Len(L)
  BY <1>2
<1>4. /\ L[Len(L)].top \in Nat /\ L[Len(L)].frame \in Nat /\ L[Len(L)].pos \in Int
      /\ L[Len(L)].size \in Nat /\ L[Len(L)].local \in Seq(Letters)
      /\ 3 <= L[Len(L)].top /\ InputBase <= L[Len(L)].pos
  BY <1>1, <1>3, ItemsIs
<1>5. L[Len(L)].size <= Len(log)
  BY <1>1, <1>3 DEF Stacked, LogHeld
<1>6. log \in Seq(LogType(newcount)) /\ pos \in Int
  BY DEF TypeOK
<1>7. log \in Seq(Range(log)) /\ Len(log) \in Nat
  BY <1>6, SeqOfRange, LenProperties
<1>8. /\ unused_stack = L[Len(L)].top /\ fail_stack = L[Len(L)].frame
      /\ pc \in DOMAIN S /\ S[pc] = L[Len(L)].local /\ L[Len(L)].pos <= pos
  BY <1>1 DEF AtTop
<1>9. PairsAt(S, pc)
  BY <1>8 DEF WellShaped
<1> QED
  BY <1>1, <1>2, <1>3, <1>4, <1>5, <1>6, <1>7, <1>8, <1>9

\* Rolling the log back to n entries cuts it there.
LEMMA CutLog ==
  ASSUME TypeOK, NEW h, NEW n \in 0..Len(log)
  PROVE  /\ BackLog(h, n).log = SubSeq(log, 1, n)
         /\ Len(SubSeq(log, 1, n)) = n
         /\ SubSeq(log, 1, n) \in Seq(LogType(newcount))
         /\ \A i \in 1..n : SubSeq(log, 1, n)[i] = log[i]
         /\ LogCut(log, SubSeq(log, 1, n), n)
<1>1. log \in Seq(LogType(newcount)) /\ Len(log) \in Nat
  BY LenProperties DEF TypeOK
<1>2. BackLog(h, n).log = SubSeq(log, 1, IF n < Len(log) THEN n ELSE Len(log))
  BY DEF BackLog
<1>3. (IF n < Len(log) THEN n ELSE Len(log)) = n
  BY <1>1
<1>4. \A i \in 1..n : log[i] \in LogType(newcount)
  BY <1>1, ElementOfSeq
<1>5. /\ SubSeq(log, 1, n) \in Seq(LogType(newcount)) /\ Len(SubSeq(log, 1, n)) = n
      /\ \A i \in 1..n : SubSeq(log, 1, n)[i] = log[i]
  BY <1>1, <1>4, SubSeqProperties
<1>6. SubSeq(log, 1, n) \in Seq(Range(SubSeq(log, 1, n)))
  BY <1>5, SeqOfRange
<1> HIDE DEF LogType
<1>7. LogCut(log, SubSeq(log, 1, n), n)
  BY <1>1, <1>5, <1>6 DEF LogCut
<1> QED
  BY <1>2, <1>3, <1>5, <1>7

\* A step that rolls the log back.
LEMMA CutStep ==
  ASSUME TypeOK, NEW h, NEW n \in 0..Len(log), log' = BackLog(h, n).log
  PROVE  LogCut(log, log', n) /\ Len(log') = n /\ ~(n < Len(log')) /\ n \in Nat
<1> DEFINE kept == SubSeq(log, 1, n)
<1>1. BackLog(h, n).log = kept /\ Len(kept) = n /\ LogCut(log, kept, n)
  BY CutLog
<1> HIDE DEF kept
<1>2. log' = kept /\ n \in Nat
  BY <1>1
<1> QED
  BY <1>1, <1>2

\* The log as it is, cut nowhere.
LEMMA WholeLog ==
  ASSUME TypeOK
  PROVE  LogCut(log, log, Len(log))
<1>1. log \in Seq(Range(log)) /\ Len(log) \in Nat
  BY SeqOfRange, LenProperties DEF TypeOK
<1> QED
  BY <1>1 DEF LogCut

\* A step back to item k, or one that changes no item.
LEMMA CutHeld ==
  ASSUME NEW S, NEW L, Held(S, L),
         NEW k \in 1..Len(L), NEW n, L[k].size <= n, NodesCut(L, k, n),
         SlotsKept(stacks, stacks', L[k].top),
         LogCut(log, log', n), n < Len(log') => NodeOpen(L[k].local),
         unused_stack' = L[k].top, fail_stack' = L[k].frame,
         pc' \in DOMAIN S, S[pc'] = L[k].local, L[k].pos <= pos'
  PROVE  \E M : Held(S, M)'
<1>1. Stacked(S, L, stacks, log)
  BY DEF Held
<1> DEFINE M == SubSeq(L, 1, k)
<1>2. Stacked(S, M, stacks', log') /\ Len(M) = k /\ M[k] = L[k]
  BY <1>1, CutOK
<1>3. AtTop(S, M[Len(M)])'
  BY <1>2 DEF AtTop
<1> HIDE DEF M
<1>4. Held(S, M)'
  BY <1>2, <1>3 DEF Held
<1> QED
  BY <1>4

\* A step that puts item q on top.
LEMMA PushHeld ==
  ASSUME NEW S, WellShaped(S), TypeOK, NEW L, Held(S, L), NEW q \in Item,
         SlotsKept(stacks, stacks', unused_stack),
         Over(S, stacks', log', L[Len(L)], q),
         log' \in Seq(Range(log')), Len(log) <= Len(log'), q.size <= Len(log'),
         \A i \in 1..Len(log) : log'[i] = log[i],
         \A i \in Len(log)+1..Len(log') :
            log'[i].op = NewOp => q.kind = "node" /\ q.size = i,
         Len(log) = 0 /\ Len(log') > 0 => log'[1].op = NewOp,
         unused_stack' = q.top, fail_stack' = q.frame,
         pc' \in DOMAIN S, S[pc'] = q.local, q.pos <= pos'
  PROVE  \E M : Held(S, M)'
<1> DEFINE m == Len(L)
<1>1. /\ Stacked(S, L, stacks, log) /\ m \in Nat \ {0} /\ unused_stack = L[m].top
      /\ L[m].size <= Len(log) /\ Len(log) \in Nat
  BY HeldIs
<1>2. NodesCut(L, m, Len(log)) /\ m \in 1..Len(L)
  BY <1>1 DEF NodesCut
<1>3. LogCut(log, log, Len(log))
  BY WholeLog
<1>4. ~ (Len(log) < Len(log))
  BY <1>1
<1> DEFINE K == SubSeq(L, 1, m)
<1>5. Stacked(S, K, stacks', log) /\ Len(K) = m /\ K[m] = L[m]
  BY <1>1, <1>2, <1>3, <1>4, CutOK
<1> HIDE DEF K
<1>6. Over(S, stacks', log', K[Len(K)], q)
  BY <1>5
<1> DEFINE M == Append(K, q)
<1>7. Stacked(S, M, stacks', log') /\ M[Len(M)] = q
  BY <1>1, <1>5, <1>6, PushOK
<1> HIDE DEF M
<1>8. AtTop(S, M[Len(M)])'
  BY <1>7 DEF AtTop
<1>9. Held(S, M)'
  BY <1>7, <1>8 DEF Held
<1> QED
  BY <1>9
-----------------------------------------------------------------------------
(* What the shape says of the top item.                                    *)

\* The item below the top one, and what the top one adds to it.
LEMMA BelowTop ==
  ASSUME NEW S, WellShaped(S), TypeOK, NEW L, Held(S, L), Len(L) # 1
  PROVE  LET m == Len(L)
             p == L[m - 1]
             q == L[m]
         IN  /\ m - 1 \in 1..m /\ p \in Item /\ p.local \in Seq(Letters)
             /\ p.top \in Nat /\ p.frame \in Nat /\ p.pos \in Int /\ p.size \in Nat
             /\ 3 <= p.top /\ Over(S, stacks, log, p, q)
             /\ \/ q.kind \in Opened /\ q.local = Append(p.local, q.kind)
                \/ q.kind = "call" /\ q.local \in Entries
<1>1. Stacked(S, L, stacks, log) /\ Len(L) \in Nat \ {0}
  BY HeldIs
<1>2. Len(L) \in 2..Len(L) /\ Len(L) - 1 \in 1..Len(L)
  <2> DEFINE m == Len(L)
  <2>1. m \in Nat \ {0} /\ m # 1
    BY <1>1
  <2> HIDE DEF m
  <2>2. m \in 2..m /\ m - 1 \in 1..m
    BY <2>1
  <2> QED
    BY <2>2 DEF m
<1>3. Over(S, stacks, log, L[Len(L) - 1], L[Len(L)])
  BY <1>1, <1>2 DEF Stacked
<1>4. /\ L[Len(L) - 1] \in Item /\ L[Len(L) - 1].local \in Seq(Letters)
      /\ L[Len(L) - 1].top \in Nat /\ L[Len(L) - 1].frame \in Nat
      /\ L[Len(L) - 1].pos \in Int /\ L[Len(L) - 1].size \in Nat
      /\ 3 <= L[Len(L) - 1].top
  BY <1>1, <1>2, ItemsIs
<1>5. \/ /\ L[Len(L)].kind \in Opened
         /\ L[Len(L)].local = Append(L[Len(L) - 1].local, L[Len(L)].kind)
      \/ L[Len(L)].kind = "call" /\ L[Len(L)].local \in Entries
  BY <1>3 DEF Over, Opened
<1> QED
  BY <1>2, <1>3, <1>4, <1>5

\* The last letter of a shape and what is before it are its own.
LEMMA LastLetter ==
  ASSUME NEW s \in Seq(Letters), NEW t \in Seq(Letters), NEW a \in Letters, NEW b \in Letters,
         Append(s, a) = Append(t, b)
  PROVE  s = t /\ a = b
BY AppendInjective

\* Nothing opened in a procedure is its entry or the leaving of the first one.
LEMMA EntriesAre ==
  /\ Opened \subseteq Letters
  /\ \A t \in Seq(Letters), letter \in Opened :
       Append(t, letter) \notin Entries /\ Append(t, letter) # <<Leaving>>
  /\ <<Leaving>> \notin Entries
<1>1. /\ Inside \in Letters /\ Leaving \in Letters /\ Inside # Leaving
      /\ Inside \notin Opened /\ Leaving \notin Opened /\ Opened \subseteq Letters
  BY DEF Letters, Opened, Inside, Leaving
<1>2. ASSUME NEW t \in Seq(Letters), NEW letter \in Opened, NEW x, Append(t, letter) = <<x>>
      PROVE  letter = x
  <2>1. letter \in Letters /\ Len(t) \in Nat
    BY <1>1, LenProperties
  <2>2. /\ Len(Append(t, letter)) = Len(t) + 1
        /\ Append(t, letter)[Len(t) + 1] = letter
    BY <2>1, AppendProperties
  <2>3. Len(<<x>>) = 1 /\ <<x>>[1] = x
    OBVIOUS
  <2>4. Len(t) = 0
    BY <1>2, <2>1, <2>2, <2>3
  <2> QED
    BY <1>2, <2>2, <2>3, <2>4
<1>3. ASSUME NEW t \in Seq(Letters), NEW letter \in Opened
      PROVE  Append(t, letter) \notin Entries /\ Append(t, letter) # <<Leaving>>
  <2>1. Append(t, letter) # <<>>
    BY <1>1, AppendProperties
  <2>2. Append(t, letter) # <<Inside>> /\ Append(t, letter) # <<Leaving>>
    BY <1>1, <1>2
  <2> QED
    BY <2>1, <2>2 DEF Entries
<1>4. <<Leaving>> # <<Inside>>
  <2>1. <<Leaving>>[1] = Leaving /\ <<Inside>>[1] = Inside
    OBVIOUS
  <2> QED
    BY <1>1, <2>1
<1>5. <<Leaving>> # <<>>
  OBVIOUS
<1> QED
  BY <1>1, <1>3, <1>4, <1>5 DEF Entries

\* Something opened in the procedure is the top item.
LEMMA TopOpened ==
  ASSUME NEW S, WellShaped(S), TypeOK, NEW L, Held(S, L),
         NEW t \in Seq(Letters), NEW letter \in Opened, S[pc] = Append(t, letter)
  PROVE  Len(L) # 1 /\ L[Len(L)].kind = letter /\ L[Len(L) - 1].local = t
<1>1. S[pc] = L[Len(L)].local /\ Stacked(S, L, stacks, log)
  BY HeldIs
<1>2. Len(L) # 1
  <2> SUFFICES ASSUME Len(L) = 1 PROVE FALSE
    OBVIOUS
  <2>1. L[1].local = <<Leaving>>
    BY <1>1 DEF Stacked, Bottom
  <2> QED
    BY <1>1, <2>1, EntriesAre
<1> DEFINE p == L[Len(L) - 1]
           q == L[Len(L)]
<1>3. /\ p.local \in Seq(Letters)
      /\ \/ q.kind \in Opened /\ q.local = Append(p.local, q.kind)
         \/ q.kind = "call" /\ q.local \in Entries
  BY <1>2, BelowTop
<1> HIDE DEF p
<1>4. CASE q.kind \in Opened /\ q.local = Append(p.local, q.kind)
  <2>1. Append(t, letter) = Append(p.local, q.kind) /\ q.kind \in Letters
    BY <1>1, <1>4, EntriesAre
  <2>2. letter \in Letters /\ p.local \in Seq(Letters)
    BY <1>3, EntriesAre
  <2>3. t = p.local /\ letter = q.kind
    <3> HIDE DEF q
    <3> QED
      BY <2>1, <2>2, AppendInjective
  <2> QED
    BY <1>2, <2>3 DEF p
<1>5. CASE q.kind = "call" /\ q.local \in Entries
  BY <1>1, <1>5, EntriesAre
<1> QED
  BY <1>3, <1>4, <1>5

\* With nothing opened in the procedure, its call is the top item.
LEMMA TopCall ==
  ASSUME NEW S, WellShaped(S), TypeOK, NEW L, Held(S, L), S[pc] \in Entries
  PROVE  Len(L) # 1 /\ L[Len(L)].kind = "call"
<1>1. S[pc] = L[Len(L)].local /\ Stacked(S, L, stacks, log)
  BY HeldIs
<1>2. Len(L) # 1
  <2> SUFFICES ASSUME Len(L) = 1 PROVE FALSE
    OBVIOUS
  <2>1. L[1].local = <<Leaving>>
    BY <1>1 DEF Stacked, Bottom
  <2> QED
    BY <1>1, <2>1, EntriesAre
<1>3. SUFFICES ASSUME L[Len(L)].kind # "call" PROVE FALSE
  BY <1>2
<1>4. PICK t \in Seq(Letters), letter \in Opened : S[pc] = Append(t, letter)
  BY <1>1, <1>2, <1>3, BelowTop
<1> QED
  BY <1>4, EntriesAre

\* On leaving the first procedure, only the bottom is left.
LEMMA TopBottom ==
  ASSUME NEW S, WellShaped(S), TypeOK, NEW L, Held(S, L), S[pc] = <<Leaving>>
  PROVE  unused_stack = 3 /\ fail_stack = 0 /\ log = <<>>
<1>1. /\ S[pc] = L[Len(L)].local /\ Stacked(S, L, stacks, log)
      /\ unused_stack = L[Len(L)].top /\ fail_stack = L[Len(L)].frame
      /\ log \in Seq(Range(log)) /\ Len(log) \in Nat
  BY HeldIs
<1>2. Len(L) = 1
  <2> SUFFICES ASSUME Len(L) # 1 PROVE FALSE
    OBVIOUS
  <2>1. \/ \E t \in Seq(Letters), letter \in Opened : S[pc] = Append(t, letter)
        \/ S[pc] \in Entries
    BY <1>1, BelowTop
  <2> QED
    BY <2>1, EntriesAre
<1>3. L[1] = Bottom /\ LogHeld(L, log)
  BY <1>1 DEF Stacked
<1>4. log = <<>>
  <2> SUFFICES ASSUME log # <<>> PROVE FALSE
    OBVIOUS
  <2>1. log[1].op = NewOp /\ 1 \in 1..Len(log)
    BY <1>1, <1>3, EmptySeq DEF LogHeld
  <2>2. \E k \in 2..Len(L) : L[k].kind = "node" /\ L[k].size = 1
    BY <1>3, <2>1 DEF LogHeld
  <2> QED
    BY <1>2, <2>2
<1> QED
  BY <1>1, <1>2, <1>3, <1>4 DEF Bottom
-----------------------------------------------------------------------------
(* Steps by what they do to the items.                                     *)

\* A failure goes back to the item below the innermost alternative.
LEMMA FailHeld ==
  ASSUME NEW S, WellShaped(S), TypeOK, NEW L, Held(S, L), NEW h, PopFail(h)
  PROVE  Failed' \/ \E M : Held(S, M)'
<1>1. /\ Stacked(S, L, stacks, log) /\ Len(L) \in Nat \ {0}
      /\ fail_stack = L[Len(L)].frame /\ Len(log) \in Nat
  BY HeldIs
<1>2. /\ unused_stack' = fail_stack - 1
      /\ fail_stack' = stacks[fail_stack].value
      /\ pos' = stacks[fail_stack + 1].value
      /\ pc' = stacks[fail_stack + 1].num
      /\ log' = BackLog(h, stacks[fail_stack + 2].value).log
      /\ stacks' = stacks
  BY DEF PopFail
<1>3. CASE fail_stack = 0
  <2>1. /\ stacks[0].value = 0 /\ stacks[1].num = 0
        /\ fail_stack + 1 = 1 /\ fail_stack - 1 = -1
    BY <1>1, <1>3 DEF Stacked
  <2> QED
    BY <1>2, <2>1 DEF Failed
<1>4. CASE fail_stack # 0
  <2>1. Len(L) \in 1..Len(L) /\ FramesHeld(L) /\ Sorted(L) /\ LogHeld(L, log)
    BY <1>1 DEF Stacked
  <2>2. PICK k \in 2..Len(L) : L[k].kind = "alt" /\ L[k].frame = fail_stack
    BY <1>1, <1>4, <2>1 DEF FramesHeld
  <2> DEFINE p == L[k - 1]
             q == L[k]
             n == q.size
  <2>3. k - 1 \in 1..Len(L) /\ k \in 1..Len(L) /\ k - 1 < k /\ (k - 1) + 1 = k
    BY <1>1, <2>2
  <2>4. Over(S, stacks, log, p, q)
    BY <1>1 DEF Stacked
  <2>5. /\ p.top \in Nat /\ p.size \in Nat /\ n \in Nat /\ p.frame \in Nat
        /\ q.pos \in Int /\ p.pos \in Int
    BY <1>1, <2>3, ItemsIs
  <2>6. /\ p.size <= n /\ p.pos <= q.pos /\ fail_stack = p.top + 1
        /\ stacks[fail_stack].value = p.frame
        /\ stacks[fail_stack + 1].value = q.pos
        /\ stacks[fail_stack + 1].num \in DOMAIN S
        /\ S[stacks[fail_stack + 1].num] = p.local
        /\ stacks[fail_stack + 2].value = n
    BY <2>2, <2>4 DEF Over
  <2>7. n \in 0..Len(log)
    BY <1>1, <2>1, <2>3, <2>5 DEF LogHeld
  <2>8. NodesCut(L, k - 1, n)
    <3> SUFFICES ASSUME NEW j \in k..Len(L), L[j].kind = "node" PROVE n < L[j].size
      BY <2>3 DEF NodesCut
    <3>1. k < j /\ j \in 1..Len(L)
      BY <1>1, <2>2, <2>3
    <3> QED
      BY <2>1, <2>3, <3>1, SortedAt
  <2>9. LogCut(log, log', n) /\ ~(n < Len(log'))
    <3>1. log' = BackLog(h, n).log
      BY <1>2, <2>6
    <3> HIDE DEF n
    <3> QED
      BY <2>7, <3>1, CutStep
  <2>10. SlotsKept(stacks, stacks', p.top)
    BY <1>2 DEF SlotsKept
  <2>11. /\ unused_stack' = p.top /\ fail_stack' = p.frame /\ pos' = q.pos
         /\ pc' \in DOMAIN S /\ S[pc'] = p.local /\ p.pos <= pos'
    BY <1>2, <2>5, <2>6
  <2> HIDE DEF n
  <2>12. \E M : Held(S, M)'
    BY <2>3, <2>6, <2>8, <2>9, <2>10, <2>11, CutHeld
  <2> QED
    BY <2>12
<1> QED
  BY <1>3, <1>4

\* A step that leaves stack and log alone.
LEMMA MoveHeld ==
  ASSUME NEW S, WellShaped(S), TypeOK, NEW L, Held(S, L),
         UNCHANGED <<stacks, unused_stack, fail_stack, log>>,
         pc' \in DOMAIN S, S[pc'] = S[pc], pos' \in Int, pos <= pos'
  PROVE  \E M : Held(S, M)'
<1>1. Stacked(S, L, stacks, log) /\ AtTop(S, L[Len(L)])
  BY DEF Held
<1>2. L[Len(L)].pos \in Int /\ L[Len(L)].pos <= pos /\ pos \in Int
  BY HeldIs
<1>3. Stacked(S, L, stacks', log')
  BY <1>1
<1>4. AtTop(S, L[Len(L)])'
  BY <1>1, <1>2 DEF AtTop
<1>5. Held(S, L)'
  BY <1>3, <1>4 DEF Held
<1> QED
  BY <1>5

\* A step that logs an entry in an open node.
LEMMA LogHeldOn ==
  ASSUME NEW S, WellShaped(S), TypeOK, NEW L, Held(S, L),
         NEW e \in LogType(newcount), e.op # NewOp, log' = Append(log, e),
         NodeOpen(S[pc]), UNCHANGED <<stacks, unused_stack, fail_stack, pos>>,
         pc' \in DOMAIN S, S[pc'] = S[pc]
  PROVE  \E M : Held(S, M)'
<1> DEFINE m == Len(L)
           n == Len(log)
<1>1. /\ Stacked(S, L, stacks, log) /\ m \in Nat \ {0} /\ n \in Nat
      /\ unused_stack = L[m].top /\ fail_stack = L[m].frame
      /\ L[m].size <= n /\ L[m].pos <= pos /\ L[m].top \in Nat /\ S[pc] = L[m].local
  BY HeldIs
<1>2. log \in Seq(LogType(newcount))
  BY DEF TypeOK
<1> HIDE DEF LogType
<1>3. /\ log' \in Seq(LogType(newcount)) /\ Len(log') = n + 1
      /\ \A i \in 1..n : log'[i] = log[i]
      /\ log'[n + 1] = e
  BY <1>2, AppendProperties
<1>4. log' \in Seq(Range(log'))
  BY <1>3, SeqOfRange
<1>5. LogCut(log, log', n)
  BY <1>1, <1>3, <1>4 DEF LogCut
<1>6. m \in 1..Len(L) /\ NodesCut(L, m, n) /\ SlotsKept(stacks, stacks', L[m].top)
  BY <1>1 DEF NodesCut, SlotsKept
<1> HIDE DEF n
<1> QED
  BY <1>1, <1>5, <1>6, CutHeld

\* A step that takes the top item off and cuts the log to n entries, to which
\* it may add in an open node.
LEMMA DropHeld ==
  ASSUME NEW S, WellShaped(S), TypeOK, NEW L, Held(S, L), Len(L) # 1,
         NEW n \in Nat, L[Len(L) - 1].size <= n, L[Len(L)].kind = "node" => n < L[Len(L)].size,
         LogCut(log, log', n), n < Len(log') => NodeOpen(L[Len(L) - 1].local),
         stacks' = stacks,
         unused_stack' = L[Len(L) - 1].top, fail_stack' = L[Len(L) - 1].frame,
         pc' \in DOMAIN S, S[pc'] = L[Len(L) - 1].local, L[Len(L) - 1].pos <= pos'
  PROVE  \E M : Held(S, M)'
<1>1. Len(L) - 1 \in 1..Len(L) /\ Len(L) \in Nat \ {0}
  BY BelowTop, HeldIs
<1>2. NodesCut(L, Len(L) - 1, n)
  <2> DEFINE m == Len(L)
  <2>1. m \in Nat /\ \A j \in (m-1)+1..m : j = m
    BY <1>1
  <2> QED
    BY <2>1 DEF NodesCut
<1>3. SlotsKept(stacks, stacks', L[Len(L) - 1].top)
  BY DEF SlotsKept
<1> QED
  BY <1>1, <1>2, <1>3, CutHeld

\* What push and pushW change.
LEMMA PushSlotIs ==
  ASSUME TypeOK, NEW v, NEW t, unused_stack + 1 < StackSize, PushSlot(v, t)
  PROVE  /\ unused_stack' = unused_stack + 1
         /\ SlotsKept(stacks, stacks', unused_stack)
         /\ stacks'[unused_stack + 1].value = v
<1> DEFINE s == unused_stack + 1
<1>1. /\ unused_stack \in Int /\ s \in 0..StackSize-1 /\ DOMAIN stacks = 0..StackSize-1
      /\ StackSize \in Nat /\ stacks[s] \in SlotType(newcount)
  BY StackAssumption DEF TypeOK
<1>2. [stacks[s] EXCEPT !.value = v, !.tree = t].value = v
  BY <1>1 DEF SlotType
<1>3. /\ unused_stack' = s
      /\ stacks' = [stacks EXCEPT ![s] = [stacks[s] EXCEPT !.value = v, !.tree = t]]
  BY <1>1 DEF PushSlot
<1>4. \A x \in 0..unused_stack : stacks'[x] = stacks[x]
  BY <1>1, <1>3
<1>5. stacks'[s].value = v
  BY <1>1, <1>2, <1>3
<1> QED
  BY <1>3, <1>4, <1>5 DEF SlotsKept

\* What PUSH_FAIL changes.
LEMMA PushFailIs ==
  ASSUME TypeOK, NEW alt, unused_stack + 3 < StackSize, PushFail(alt)
  PROVE  /\ unused_stack' = unused_stack + 3
         /\ fail_stack' = unused_stack + 1
         /\ SlotsKept(stacks, stacks', unused_stack)
         /\ stacks'[unused_stack + 1].value = fail_stack
         /\ stacks'[unused_stack + 2].value = pos
         /\ stacks'[unused_stack + 2].num = alt
         /\ stacks'[unused_stack + 3].value = Len(log)
<1> DEFINE s == unused_stack + 1
<1>1. /\ unused_stack \in -1..StackSize-1 /\ DOMAIN stacks = 0..StackSize-1
      /\ StackSize \in Nat /\ s \in Nat /\ {s, s + 1, s + 2} \subseteq 0..StackSize-1
      /\ stacks[s] \in SlotType(newcount)
  BY StackAssumption DEF TypeOK
<1>2. [stacks[s] EXCEPT !.value = fail_stack, !.tree = left].value = fail_stack
  BY <1>1 DEF SlotType
<1>3. /\ unused_stack' = s + 2 /\ fail_stack' = s
      /\ stacks' = [stacks EXCEPT
                      ![s]   = [stacks[s] EXCEPT !.value = fail_stack, !.tree = left],
                      ![s+1] = [value |-> pos, num |-> alt, tree |-> NULL],
                      ![s+2] = [value |-> Len(log), num |-> 0, tree |-> NULL]]
  BY <1>1 DEF PushFail
<1>4. \A x \in 0..unused_stack : stacks'[x] = stacks[x]
  BY <1>1, <1>3
<1>5. /\ stacks'[s] = [stacks[s] EXCEPT !.value = fail_stack, !.tree = left]
      /\ stacks'[s + 1] = [value |-> pos, num |-> alt, tree |-> NULL]
      /\ stacks'[s + 2] = [value |-> Len(log), num |-> 0, tree |-> NULL]
  BY <1>1, <1>3
<1>6. s + 1 = unused_stack + 2 /\ s + 2 = unused_stack + 3
  BY <1>1
<1>7. /\ stacks'[s].value = fail_stack
      /\ stacks'[s + 1].value = pos /\ stacks'[s + 1].num = alt
      /\ stacks'[s + 2].value = Len(log)
  BY <1>2, <1>5
<1>8. SlotsKept(stacks, stacks', unused_stack)
  BY <1>4 DEF SlotsKept
<1>9. unused_stack' = unused_stack + 3 /\ fail_stack' = unused_stack + 1
  BY <1>3, <1>6
<1> QED
  BY <1>6, <1>7, <1>8, <1>9

\* The item of the given kind that a handler opens now.
Opening(kind, local, top, frame, size) ==
  [kind |-> kind, local |-> local, top |-> top, frame |-> frame, pos |-> pos, size |-> size]

\* A record of what is on top is an item.
LEMMA OpeningIs ==
  ASSUME TypeOK, NEW kind \in Kinds, NEW local \in Seq(Letters), NEW top \in Nat,
         NEW frame \in Nat, NEW size \in Nat
  PROVE  Opening(kind, local, top, frame, size) \in Item
<1>1. pos \in Int
  BY DEF TypeOK
<1> QED
  BY <1>1 DEF Opening, Item

\* A step that puts an item on top and leaves the log alone.
LEMMA PutHeld ==
  ASSUME NEW S, WellShaped(S), TypeOK, NEW L, Held(S, L),
         NEW kind \in Kinds \ {"node"}, NEW local \in Seq(Letters),
         NEW top \in Nat, NEW frame \in Nat,
         Over(S, stacks', log, L[Len(L)], Opening(kind, local, top, frame, Len(log))),
         SlotsKept(stacks, stacks', unused_stack), log' = log, pos' = pos,
         unused_stack' = top, fail_stack' = frame, pc' \in DOMAIN S, S[pc'] = local
  PROVE  \E M : Held(S, M)'
<1> DEFINE q == Opening(kind, local, top, frame, Len(log))
<1>1. pos \in Int /\ Len(log) \in Nat /\ log \in Seq(Range(log))
  BY HeldIs
<1>2. /\ q \in Item /\ q.size = Len(log) /\ q.pos = pos /\ q.top = top /\ q.frame = frame
      /\ q.local = local
  BY <1>1 DEF Opening, Item
<1> HIDE DEF q
<1>3. Over(S, stacks', log', L[Len(L)], q)
  BY DEF q
<1>4. \A i \in Len(log)+1..Len(log') :
         log'[i].op = NewOp => q.kind = "node" /\ q.size = i
  BY <1>1
<1>5. /\ log' \in Seq(Range(log')) /\ Len(log) <= Len(log') /\ q.size <= Len(log')
      /\ \A i \in 1..Len(log) : log'[i] = log[i]
      /\ (Len(log) = 0 /\ Len(log') > 0 => log'[1].op = NewOp)
  BY <1>1, <1>2
<1>6. q.pos <= pos'
  BY <1>1, <1>2
<1> QED
  BY <1>2, <1>3, <1>4, <1>5, <1>6, PushHeld

\* A step that begins a node: the new log entries are an OpNew and a rest that
\* begins no other.
LEMMA BeginHeld ==
  ASSUME NEW S, WellShaped(S), TypeOK, NEW L, Held(S, L),
         log' \in Seq(Range(log')), Len(log) + 1 <= Len(log'),
         \A i \in 1..Len(log) : log'[i] = log[i],
         log'[Len(log) + 1].op = NewOp,
         \A i \in Len(log)+2..Len(log') : log'[i].op # NewOp,
         UNCHANGED <<stacks, unused_stack, fail_stack, pos>>,
         pc' \in DOMAIN S, S[pc'] = Append(S[pc], "node")
  PROVE  \E M : Held(S, M)'
<1> DEFINE p == L[Len(L)]
           n == Len(log)
           q == Opening("node", Append(p.local, "node"), p.top, p.frame, n + 1)
<1>1. /\ p.top \in Nat /\ p.frame \in Nat /\ p.pos \in Int /\ p.size \in Nat
      /\ unused_stack = p.top /\ fail_stack = p.frame
      /\ p.local \in Seq(Letters) /\ S[pc] = p.local
      /\ p.pos <= pos /\ p.size <= n /\ pos \in Int /\ n \in Nat
  BY HeldIs
<1> HIDE DEF p
<1>2. "node" \in Letters /\ "node" \in Kinds
  BY DEF Letters, Opened, Kinds
<1>3. Append(p.local, "node") \in Seq(Letters)
  BY <1>1, <1>2, AppendProperties
<1>4. /\ q \in Item /\ q.size = n + 1 /\ q.pos = pos /\ q.top = p.top /\ q.frame = p.frame
      /\ q.local = Append(p.local, "node") /\ q.kind = "node"
  BY <1>1, <1>2, <1>3 DEF Opening, Item
<1> HIDE DEF q
<1>5. Len(log') \in Nat
  BY LenProperties
<1> HIDE DEF n
<1>6. Over(S, stacks', log', p, q)
  BY <1>1, <1>4 DEF Over, n
<1>7. ASSUME NEW i \in n+1..Len(log'), log'[i].op = NewOp
      PROVE  q.kind = "node" /\ q.size = i
  BY <1>1, <1>4, <1>5, <1>7 DEF n
<1>8. SlotsKept(stacks, stacks', unused_stack)
  BY DEF SlotsKept
<1>9. /\ n <= Len(log') /\ q.size <= Len(log') /\ q.pos <= pos'
      /\ (n = 0 /\ Len(log') > 0 => log'[1].op = NewOp)
  BY <1>1, <1>4, <1>5 DEF n
<1>10. unused_stack' = q.top /\ fail_stack' = q.frame /\ S[pc'] = q.local
  BY <1>1, <1>4
<1> QED
  BY <1>4, <1>6, <1>7, <1>8, <1>9, <1>10, PushHeld DEF p, n
-----------------------------------------------------------------------------
(* The handlers.                                                           *)

\* What the shape says of the instruction the machine is at.
LEMMA AtShape ==
  ASSUME NEW S, WellShaped(S), TypeOK, NEW L, Held(S, L)
  PROVE  PairsAt(S, pc) /\ Inst = Code[pc] /\ pc \in DOMAIN S /\ S[pc] \in Seq(Letters)
         /\ \A o \in DOMAIN S : S[o] \in Seq(Letters)
<1>1. S \in [DOMAIN S -> Seq(Letters)]
  BY DEF WellShaped
<1> QED
  BY <1>1, HeldIs DEF Inst

\* Pos, Call and TPush put one slot on the stack.
LEMMA PosHeld ==
  ASSUME NEW S, WellShaped(S), TypeOK, NEW L, Held(S, L), Pos
  PROVE  \E M : Held(S, M)'
<1> DEFINE p == L[Len(L)]
<1>1. /\ Defined /\ Inst.op = "Pos" /\ PushSlot(pos, NULL) /\ pc' = Inst.next
      /\ pos' = pos /\ fail_stack' = fail_stack /\ log' = log
  BY DEF Pos, At, Advance
<1>2. unused_stack + 1 < StackSize
  BY <1>1 DEF Defined, Pushed
<1>3. /\ unused_stack' = unused_stack + 1 /\ SlotsKept(stacks, stacks', unused_stack)
      /\ stacks'[unused_stack + 1].value = pos
  BY <1>1, <1>2, PushSlotIs
<1>4. pc' \in DOMAIN S /\ S[pc'] = Append(S[pc], "pos")
  BY <1>1, AtShape DEF PairsAt
<1>5. /\ p.top \in Nat /\ p.frame \in Nat /\ unused_stack = p.top /\ fail_stack = p.frame
      /\ S[pc] = p.local /\ p.local \in Seq(Letters) /\ p.pos <= pos
      /\ p.size <= Len(log)
  BY HeldIs
<1> HIDE DEF p
<1>6. "pos" \in Letters /\ "pos" \in Kinds \ {"node"}
  BY DEF Letters, Opened, Kinds
<1> DEFINE local == Append(p.local, "pos")
<1>7. local \in Seq(Letters) /\ p.top + 1 \in Nat /\ S[pc'] = local
  BY <1>4, <1>5, <1>6, AppendProperties
<1>8. Over(S, stacks', log, p, Opening("pos", local, p.top + 1, p.frame, Len(log)))
  BY <1>3, <1>5 DEF Over, Opening
<1> HIDE DEF local
<1> QED
  BY <1>1, <1>3, <1>4, <1>5, <1>6, <1>7, <1>8, PutHeld DEF p

\* Call adds a return address.
LEMMA CallHeld ==
  ASSUME NEW S, WellShaped(S), TypeOK, NEW L, Held(S, L), Call
  PROVE  \E M : Held(S, M)'
<1> DEFINE p == L[Len(L)]
           entry == S[pc']
<1>1. /\ Defined /\ Inst.op = "Call" /\ PushSlot(Inst.ret, NULL)
      /\ pc' = Inst.next + Inst.jump
      /\ pos' = pos /\ fail_stack' = fail_stack /\ log' = log
  BY DEF Call, At
<1>2. unused_stack + 1 < StackSize
  BY <1>1 DEF Defined, Pushed
<1>3. /\ unused_stack' = unused_stack + 1 /\ SlotsKept(stacks, stacks', unused_stack)
      /\ stacks'[unused_stack + 1].value = Inst.ret
  BY <1>1, <1>2, PushSlotIs
<1>4. /\ pc' \in DOMAIN S /\ entry \in Entries
      /\ entry = <<Inside>> => NodeOpen(S[pc])
      /\ Inst.ret \in DOMAIN S /\ S[Inst.ret] = S[pc]
  BY <1>1, AtShape DEF PairsAt
<1>5. Inst.ret \in Returns(S)
  <2>1. pc \in DOMAIN S
    BY HeldIs
  <2> QED
    BY <1>1, <2>1 DEF Returns, Inst
<1>6. /\ p.top \in Nat /\ p.frame \in Nat /\ unused_stack = p.top /\ fail_stack = p.frame
      /\ S[pc] = p.local /\ p.pos <= pos /\ p.size <= Len(log)
  BY HeldIs
<1> HIDE DEF p
<1>7. "call" \in Kinds \ {"node"} /\ entry \in Seq(Letters)
  BY <1>4, AtShape DEF Kinds
<1> HIDE DEF entry
<1>8. Over(S, stacks', log, p, Opening("call", entry, p.top + 1, p.frame, Len(log)))
  BY <1>3, <1>4, <1>5, <1>6 DEF Over, Opening
<1> QED
  BY <1>1, <1>3, <1>4, <1>6, <1>7, <1>8, PutHeld DEF p, entry

\* TPush adds a saved tree.
LEMMA TPushHeld ==
  ASSUME NEW S, WellShaped(S), TypeOK, NEW L, Held(S, L), TPush
  PROVE  \E M : Held(S, M)'
<1> DEFINE p == L[Len(L)]
<1>1. /\ Defined /\ Inst.op = "TPush" /\ PushSlot(Len(log), left) /\ pc' = Inst.next
      /\ pos' = pos /\ fail_stack' = fail_stack /\ log' = log
  BY DEF TPush, At, Advance
<1>2. unused_stack + 1 < StackSize
  BY <1>1 DEF Defined, Pushed
<1>3. /\ unused_stack' = unused_stack + 1 /\ SlotsKept(stacks, stacks', unused_stack)
      /\ stacks'[unused_stack + 1].value = Len(log)
  BY <1>1, <1>2, PushSlotIs
<1>4. pc' \in DOMAIN S /\ S[pc'] = Append(S[pc], "tree")
  BY <1>1, AtShape DEF PairsAt
<1>5. /\ p.top \in Nat /\ p.frame \in Nat /\ unused_stack = p.top /\ fail_stack = p.frame
      /\ S[pc] = p.local /\ p.local \in Seq(Letters) /\ p.pos <= pos
      /\ p.size <= Len(log)
  BY HeldIs
<1> HIDE DEF p
<1>6. "tree" \in Letters /\ "tree" \in Kinds \ {"node"}
  BY DEF Letters, Opened, Kinds
<1> DEFINE local == Append(p.local, "tree")
<1>7. local \in Seq(Letters) /\ p.top + 1 \in Nat /\ S[pc'] = local
  BY <1>4, <1>5, <1>6, AppendProperties
<1>8. Over(S, stacks', log, p, Opening("tree", local, p.top + 1, p.frame, Len(log)))
  BY <1>3, <1>5 DEF Over, Opening
<1> HIDE DEF local
<1> QED
  BY <1>1, <1>3, <1>4, <1>5, <1>6, <1>7, <1>8, PutHeld DEF p

\* Alt puts a frame on the stack.
LEMMA AltHeld ==
  ASSUME NEW S, WellShaped(S), TypeOK, NEW L, Held(S, L), Alt
  PROVE  \E M : Held(S, M)'
<1> DEFINE p == L[Len(L)]
<1>1. /\ Defined /\ Inst.op = "Alt" /\ PushFail(Inst.alt) /\ pc' = Inst.next
      /\ pos' = pos /\ log' = log
  BY DEF Alt, At, Advance
<1>2. unused_stack + 3 < StackSize
  BY <1>1 DEF Defined, Pushed
<1>3. /\ unused_stack' = unused_stack + 3 /\ fail_stack' = unused_stack + 1
      /\ SlotsKept(stacks, stacks', unused_stack)
      /\ stacks'[unused_stack + 1].value = fail_stack
      /\ stacks'[unused_stack + 2].value = pos
      /\ stacks'[unused_stack + 2].num = Inst.alt
      /\ stacks'[unused_stack + 3].value = Len(log)
  BY <1>1, <1>2, PushFailIs
<1>4. /\ pc' \in DOMAIN S /\ S[pc'] = Append(S[pc], "alt")
      /\ Inst.alt \in DOMAIN S /\ S[Inst.alt] = S[pc]
  BY <1>1, AtShape DEF PairsAt
<1>5. /\ p.top \in Nat /\ p.frame \in Nat /\ unused_stack = p.top /\ fail_stack = p.frame
      /\ S[pc] = p.local /\ p.local \in Seq(Letters) /\ p.pos <= pos
      /\ p.size <= Len(log)
  BY HeldIs
<1> HIDE DEF p
<1>6. "alt" \in Letters /\ "alt" \in Kinds \ {"node"}
  BY DEF Letters, Opened, Kinds
<1>7. Append(p.local, "alt") \in Seq(Letters) /\ p.top + 3 \in Nat /\ p.top + 1 \in Nat
  BY <1>5, <1>6, AppendProperties
<1> DEFINE q == Opening("alt", Append(p.local, "alt"), p.top + 3, p.top + 1, Len(log))
<1>8. /\ q.kind = "alt" /\ q.local = Append(p.local, "alt") /\ q.top = p.top + 3
      /\ q.frame = p.top + 1 /\ q.pos = pos /\ q.size = Len(log)
  BY DEF Opening
<1>9. q.frame + 1 = p.top + 2 /\ q.frame + 2 = p.top + 3
  BY <1>5, <1>8
<1> HIDE DEF q
<1>10. Over(S, stacks', log, p, q)
  BY <1>3, <1>4, <1>5, <1>8, <1>9 DEF Over
<1> QED
  BY <1>1, <1>3, <1>4, <1>5, <1>6, <1>7, <1>10, PutHeld DEF p, q

\* Back and Ret take one slot off and leave the log alone.
LEMMA BackHeld ==
  ASSUME NEW S, WellShaped(S), TypeOK, NEW L, Held(S, L), Back
  PROVE  \E M : Held(S, M)'
<1> DEFINE p == L[Len(L) - 1]
           q == L[Len(L)]
<1>1. /\ Inst.op = "Back" /\ pos' = stacks[unused_stack].value
      /\ unused_stack' = unused_stack - 1 /\ pc' = Inst.next
      /\ stacks' = stacks /\ fail_stack' = fail_stack /\ log' = log
  BY DEF Back, At, Advance, tree
<1>2. pc' \in DOMAIN S /\ S[pc] = Append(S[pc'], "pos") /\ S[pc'] \in Seq(Letters)
  BY <1>1, AtShape DEF PairsAt
<1>3. Len(L) # 1 /\ q.kind = "pos" /\ p.local = S[pc']
  BY <1>2, TopOpened DEF Opened
<1>4. /\ unused_stack = q.top /\ fail_stack = q.frame /\ q.size <= Len(log)
      /\ Len(log) \in Nat /\ q.pos \in Int /\ q.size \in Nat
  BY HeldIs
<1>5. /\ p.top \in Nat /\ p.frame \in Nat /\ p.pos \in Int /\ p.size \in Nat
      /\ Over(S, stacks, log, p, q)
  BY <1>3, BelowTop
<1> HIDE DEF p, q
<1>6. /\ q.top = p.top + 1 /\ q.frame = p.frame /\ stacks[q.top].value = q.pos
      /\ p.pos <= q.pos /\ p.size <= q.size
  BY <1>3, <1>5 DEF Over
<1>7. LogCut(log, log', Len(log)) /\ ~(Len(log) < Len(log')) /\ p.size <= Len(log)
  BY <1>1, <1>4, <1>5, <1>6, WholeLog
<1>8. unused_stack' = p.top /\ fail_stack' = p.frame /\ p.pos <= pos'
  BY <1>1, <1>4, <1>5, <1>6
<1>9. q.kind # "node"
  BY <1>3
<1> QED
  BY <1>1, <1>2, <1>3, <1>4, <1>7, <1>8, <1>9, DropHeld DEF p, q

\* Ret takes the return address on top off and goes there.
LEMMA RetHeld ==
  ASSUME NEW S, WellShaped(S), TypeOK, NEW L, Held(S, L), Ret
  PROVE  \E M : Held(S, M)'
<1> DEFINE p == L[Len(L) - 1]
           q == L[Len(L)]
<1>1. /\ Inst.op = "Ret" /\ pc' = stacks[unused_stack].value
      /\ unused_stack' = unused_stack - 1 /\ pos' = pos
      /\ stacks' = stacks /\ fail_stack' = fail_stack /\ log' = log
  BY DEF Ret, At, tree
<1>2. S[pc] \in Entries
  BY <1>1, AtShape DEF PairsAt
<1>3. Len(L) # 1 /\ q.kind = "call"
  BY <1>2, TopCall
<1>4. /\ unused_stack = q.top /\ fail_stack = q.frame /\ q.size <= Len(log)
      /\ Len(log) \in Nat /\ q.pos \in Int /\ q.size \in Nat /\ q.pos <= pos
      /\ pos \in Int
  BY HeldIs
<1>5. /\ p.top \in Nat /\ p.frame \in Nat /\ p.pos \in Int /\ p.size \in Nat
      /\ Over(S, stacks, log, p, q)
  BY <1>3, BelowTop
<1> HIDE DEF p, q
<1>6. /\ q.top = p.top + 1 /\ q.frame = p.frame /\ stacks[q.top].value \in DOMAIN S
      /\ S[stacks[q.top].value] = p.local
      /\ p.pos <= q.pos /\ p.size <= q.size
  BY <1>3, <1>5 DEF Over
<1>7. LogCut(log, log', Len(log)) /\ ~(Len(log) < Len(log')) /\ p.size <= Len(log)
  BY <1>1, <1>4, <1>5, <1>6, WholeLog
<1>8. /\ unused_stack' = p.top /\ fail_stack' = p.frame /\ p.pos <= pos'
      /\ pc' \in DOMAIN S /\ S[pc'] = p.local
  BY <1>1, <1>4, <1>5, <1>6
<1>9. q.kind # "node"
  BY <1>3
<1> QED
  BY <1>1, <1>3, <1>4, <1>7, <1>8, <1>9, DropHeld DEF p, q

\* What POP_SUCC finds on top: the frame in force, and the position it kept.
LEMMA TopAlt ==
  ASSUME NEW S, WellShaped(S), TypeOK, NEW L, Held(S, L),
         NEW t \in Seq(Letters), S[pc] = Append(t, "alt")
  PROVE  LET p == L[Len(L) - 1]
             q == L[Len(L)]
         IN  /\ Len(L) # 1 /\ q.kind = "alt" /\ p.local = t
             /\ Over(S, stacks, log, p, q)
             /\ p.top \in Nat /\ p.frame \in Nat /\ p.pos \in Int /\ p.size \in Nat
             /\ q.size \in Nat /\ p.size <= q.size /\ q.size <= Len(log)
             /\ fail_stack = p.top + 1 /\ unused_stack = p.top + 3
             /\ stacks[fail_stack].value = p.frame
             /\ stacks[fail_stack + 1].value = q.pos
             /\ p.pos <= q.pos /\ q.pos <= pos /\ q.pos \in Int
<1> DEFINE p == L[Len(L) - 1]
           q == L[Len(L)]
<1>1. Len(L) # 1 /\ q.kind = "alt" /\ p.local = t
  BY TopOpened DEF Opened
<1>2. /\ unused_stack = q.top /\ fail_stack = q.frame /\ q.size <= Len(log)
      /\ q.pos \in Int /\ q.size \in Nat /\ q.pos <= pos
  BY HeldIs
<1>3. /\ p.top \in Nat /\ p.frame \in Nat /\ p.pos \in Int /\ p.size \in Nat
      /\ Over(S, stacks, log, p, q)
  BY <1>1, BelowTop
<1> HIDE DEF p, q
<1>4. /\ q.top = p.top + 3 /\ q.frame = p.top + 1
      /\ stacks[q.frame].value = p.frame /\ stacks[q.frame + 1].value = q.pos
      /\ p.pos <= q.pos /\ p.size <= q.size
  BY <1>1, <1>3 DEF Over
<1> QED
  BY <1>1, <1>2, <1>3, <1>4 DEF p, q

\* POP_SUCC takes the frame on top off.
LEMMA SuccHeld ==
  ASSUME NEW S, WellShaped(S), TypeOK, NEW L, Held(S, L),
         Inst.op \in {"Succ", "Memo", "TMemo"}, PopSucc, pc' = Inst.next,
         pos' = pos, log' = log
  PROVE  \E M : Held(S, M)'
<1> DEFINE p == L[Len(L) - 1]
           q == L[Len(L)]
<1>1. /\ unused_stack' = fail_stack - 1 /\ fail_stack' = stacks[fail_stack].value
      /\ stacks' = stacks
  BY DEF PopSucc
<1>2. pc' \in DOMAIN S /\ S[pc] = Append(S[pc'], "alt") /\ S[pc'] \in Seq(Letters)
  BY AtShape DEF PairsAt
<1>3. /\ Len(L) # 1 /\ q.kind = "alt" /\ p.local = S[pc']
      /\ p.top \in Nat /\ p.frame \in Nat /\ p.pos \in Int /\ p.size \in Nat
      /\ q.size \in Nat /\ p.size <= q.size /\ q.size <= Len(log)
      /\ fail_stack = p.top + 1 /\ stacks[fail_stack].value = p.frame
      /\ p.pos <= q.pos /\ q.pos <= pos /\ q.pos \in Int
  BY <1>2, TopAlt, SMTT(20)
<1>4. Len(log) \in Nat /\ pos \in Int
  BY HeldIs
<1> HIDE DEF p, q
<1>5. LogCut(log, log', Len(log)) /\ ~(Len(log) < Len(log')) /\ p.size <= Len(log)
  BY <1>3, <1>4, WholeLog
<1>6. unused_stack' = p.top /\ fail_stack' = p.frame /\ p.pos <= pos'
  BY <1>1, <1>3, <1>4
<1>7. q.kind # "node"
  BY <1>3
<1> QED
  BY <1>1, <1>2, <1>3, <1>4, <1>5, <1>6, <1>7, DropHeld DEF p, q

\* What TPop and TLink find on top: the log's size when the tree was pushed.
LEMMA TopTree ==
  ASSUME NEW S, WellShaped(S), TypeOK, NEW L, Held(S, L),
         NEW t \in Seq(Letters), S[pc] = Append(t, "tree")
  PROVE  LET p == L[Len(L) - 1]
             q == L[Len(L)]
         IN  /\ Len(L) # 1 /\ q.kind = "tree" /\ p.local = t
             /\ p.top \in Nat /\ p.frame \in Nat /\ p.pos \in Int /\ p.size \in Nat
             /\ q.size \in 0..Len(log) /\ p.size <= q.size
             /\ fail_stack = p.frame /\ unused_stack = p.top + 1
             /\ stacks[unused_stack].value = q.size /\ p.pos <= pos
<1> DEFINE p == L[Len(L) - 1]
           q == L[Len(L)]
<1>1. Len(L) # 1 /\ q.kind = "tree" /\ p.local = t
  BY TopOpened DEF Opened
<1>2. /\ unused_stack = q.top /\ fail_stack = q.frame /\ q.size <= Len(log)
      /\ q.pos \in Int /\ q.size \in Nat /\ q.pos <= pos /\ pos \in Int
      /\ Len(log) \in Nat
  BY HeldIs
<1>3. /\ p.top \in Nat /\ p.frame \in Nat /\ p.pos \in Int /\ p.size \in Nat
      /\ Over(S, stacks, log, p, q)
  BY <1>1, BelowTop
<1> HIDE DEF p, q
<1>4. /\ q.top = p.top + 1 /\ q.frame = p.frame /\ stacks[q.top].value = q.size
      /\ p.pos <= q.pos /\ p.size <= q.size
  BY <1>1, <1>3 DEF Over
<1>5. p.pos <= pos /\ q.size \in 0..Len(log)
  BY <1>2, <1>3, <1>4
<1> QED
  BY <1>1, <1>2, <1>3, <1>4, <1>5 DEF p, q

\* TPop drops what was logged since the push.
LEMMA TPopHeld ==
  ASSUME NEW S, WellShaped(S), TypeOK, NEW L, Held(S, L), TPop
  PROVE  \E M : Held(S, M)'
<1> DEFINE p == L[Len(L) - 1]
           q == L[Len(L)]
           n == q.size
<1>1. /\ Inst.op = "TPop" /\ unused_stack' = unused_stack - 1 /\ pc' = Inst.next
      /\ log' = BackLog(heap, stacks[unused_stack].value).log
      /\ pos' = pos /\ stacks' = stacks /\ fail_stack' = fail_stack
  BY DEF TPop, At, Advance
<1>2. pc' \in DOMAIN S /\ S[pc] = Append(S[pc'], "tree") /\ S[pc'] \in Seq(Letters)
  BY <1>1, AtShape DEF PairsAt
<1>3. /\ Len(L) # 1 /\ q.kind = "tree" /\ p.local = S[pc']
      /\ p.top \in Nat /\ p.frame \in Nat /\ p.pos \in Int /\ p.size \in Nat
      /\ n \in 0..Len(log) /\ p.size <= n
      /\ fail_stack = p.frame /\ unused_stack = p.top + 1
      /\ stacks[unused_stack].value = n /\ p.pos <= pos
  BY <1>2, TopTree
<1> HIDE DEF p, q, n
<1>4. LogCut(log, log', n) /\ n \in Nat /\ ~(n < Len(log'))
  <2>1. log' = BackLog(heap, n).log
    BY <1>1, <1>3
  <2> QED
    BY <1>3, <2>1, CutStep
<1>5. unused_stack' = p.top /\ q.kind # "node"
  BY <1>1, <1>3
<1> QED
  BY <1>1, <1>2, <1>3, <1>4, <1>5, DropHeld DEF p, q, n

\* TLink does, and then links the tree to the node open below.
LEMMA TLinkHeld ==
  ASSUME NEW S, WellShaped(S), TypeOK, NEW L, Held(S, L), TLink
  PROVE  \E M : Held(S, M)'
<1> DEFINE p == L[Len(L) - 1]
           q == L[Len(L)]
           n == q.size
           e == LinkEntry(SymbolAt(Inst.id), left)
<1>1. /\ Defined /\ Inst.op = "TLink" /\ unused_stack' = unused_stack - 1
      /\ pc' = Inst.next
      /\ log' = Append(BackLog(heap, stacks[unused_stack].value).log, e)
      /\ pos' = pos /\ stacks' = stacks /\ fail_stack' = fail_stack
  BY DEF TLink, At, Advance
<1>2. /\ pc' \in DOMAIN S /\ S[pc] = Append(S[pc'], "tree") /\ S[pc'] \in Seq(Letters)
      /\ NodeOpen(S[pc'])
  BY <1>1, AtShape DEF PairsAt
<1>3. /\ Len(L) # 1 /\ q.kind = "tree" /\ p.local = S[pc']
      /\ p.top \in Nat /\ p.frame \in Nat /\ p.pos \in Int /\ p.size \in Nat
      /\ n \in 0..Len(log) /\ p.size <= n
      /\ fail_stack = p.frame /\ unused_stack = p.top + 1
      /\ stacks[unused_stack].value = n /\ p.pos <= pos
  BY <1>2, TopTree
<1> HIDE DEF p, q, n
<1>4. e \in LogType(newcount) /\ e.op # NewOp
  <2>1. SymbolAt(Inst.id) \in Symbols /\ left \in 0..newcount
    BY <1>1, InstTyped, SymbolOK DEF InstOK, TypeOK
  <2>2. e \in LogType(newcount)
    BY <2>1, EntriesOK
  <2>3. e.op # NewOp
    BY DEF LinkEntry, LinkOp, NewOp
  <2> QED
    BY <2>2, <2>3
<1> HIDE DEF e, LogType
<1> DEFINE kept == SubSeq(log, 1, n)
<1>5. /\ log' = Append(kept, e) /\ kept \in Seq(LogType(newcount)) /\ Len(kept) = n
      /\ \A i \in 1..n : kept[i] = log[i]
  BY <1>1, <1>3, CutLog
<1> HIDE DEF kept
<1>6. /\ log' \in Seq(LogType(newcount)) /\ Len(log') = n + 1
      /\ \A i \in 1..n : log'[i] = log[i]
      /\ log'[n + 1] = e
  BY <1>4, <1>5, AppendProperties
<1>7. log' \in Seq(Range(log')) /\ Len(log) \in Nat
  BY <1>6, SeqOfRange, HeldIs
<1>8. LogCut(log, log', n) /\ n \in Nat
  <2>1. n \in Nat /\ n <= Len(log') /\ \A i \in n+1..Len(log') : i = n + 1
    BY <1>3, <1>6, <1>7
  <2> QED
    BY <1>3, <1>4, <1>6, <1>7, <2>1 DEF LogCut
<1>9. unused_stack' = p.top /\ q.kind # "node"
  BY <1>1, <1>3
<1> QED
  BY <1>1, <1>2, <1>3, <1>8, <1>9, DropHeld DEF p, q, n

\* TEnd finds the node of the top item: the innermost that the log has begun.
LEMMA EndStart ==
  ASSUME NEW S, WellShaped(S), TypeOK, NEW L, Held(S, L),
         Inst.op = "TEnd", NEW start \in DOMAIN log, LastNew(start)
  PROVE  LET p == L[Len(L) - 1]
             q == L[Len(L)]
         IN  /\ Len(L) # 1 /\ Len(L) - 1 \in 1..Len(L)
             /\ Inst.next \in DOMAIN S /\ p.local = S[Inst.next]
             /\ p.size \in Nat /\ p.size < start
             /\ start = q.size /\ start \in 1..Len(log) /\ Len(log) \in Nat
             /\ p.top = unused_stack /\ p.frame = fail_stack /\ p.pos <= pos
<1> DEFINE p == L[Len(L) - 1]
           q == L[Len(L)]
<1>1. /\ Inst.next \in DOMAIN S /\ S[pc] = Append(S[Inst.next], "node")
      /\ S[Inst.next] \in Seq(Letters)
  BY AtShape DEF PairsAt
<1>2. Len(L) # 1 /\ q.kind = "node" /\ p.local = S[Inst.next]
  BY <1>1, TopOpened DEF Opened
<1>3. /\ unused_stack = q.top /\ fail_stack = q.frame /\ q.size <= Len(log)
      /\ q.pos \in Int /\ q.size \in Nat /\ q.pos <= pos /\ pos \in Int
      /\ Len(log) \in Nat /\ log \in Seq(Range(log)) /\ Stacked(S, L, stacks, log)
      /\ Len(L) \in Nat
  BY HeldIs
<1>4. /\ p.top \in Nat /\ p.frame \in Nat /\ p.pos \in Int /\ p.size \in Nat
      /\ Over(S, stacks, log, p, q) /\ Len(L) - 1 \in 1..Len(L)
  BY <1>2, BelowTop
<1>5. start \in 1..Len(log) /\ log[start].op = NewOp
  BY <1>3, LenProperties DEF LastNew
<1>6. start <= q.size
  <2>1. PICK k \in 2..Len(L) : L[k].kind = "node" /\ L[k].size = start
    BY <1>3, <1>5 DEF Stacked, LogHeld
  <2>2. CASE k = Len(L)
    BY <1>3, <2>1, <2>2
  <2>3. CASE k < Len(L)
    <3>1. k \in 1..Len(L) /\ Len(L) \in 1..Len(L) /\ Sorted(L)
      BY <1>3, <2>1 DEF Stacked
    <3> QED
      BY <2>1, <2>3, <3>1, SortedAt
  <2> QED
    BY <1>3, <2>1, <2>2, <2>3
<1> HIDE DEF p, q
<1>7. /\ q.top = p.top /\ q.frame = p.frame /\ p.pos <= q.pos
      /\ p.size < q.size /\ log[q.size].op = NewOp
  BY <1>2, <1>4 DEF Over
<1>8. start = q.size
  <2>1. CASE start < q.size
    <3>1. q.size \in start+1..Len(log)
      BY <1>3, <1>5, <2>1
    <3> QED
      BY <1>7, <3>1 DEF LastNew
  <2> QED
    BY <1>3, <1>5, <1>6, <2>1
<1>9. p.pos <= pos /\ p.size < start
  BY <1>3, <1>4, <1>7, <1>8
<1> QED
  BY <1>1, <1>2, <1>3, <1>4, <1>5, <1>7, <1>8, <1>9 DEF p, q

\* It takes the node off, and what was logged since it began.
LEMMA TEndHeld ==
  ASSUME NEW S, WellShaped(S), TypeOK, NEW L, Held(S, L), TEnd
  PROVE  \E M : Held(S, M)'
<1> DEFINE p == L[Len(L) - 1]
           q == L[Len(L)]
<1>1. PICK start \in DOMAIN log :
        /\ Inst.op = "TEnd" /\ LastNew(start) /\ pc' = Inst.next
        /\ log' = BackLog(Made(start), start - 1).log
        /\ pos' = pos /\ stacks' = stacks /\ unused_stack' = unused_stack
        /\ fail_stack' = fail_stack
  BY DEF TEnd, At, Advance, frames
<1>2. /\ Len(L) # 1 /\ Inst.next \in DOMAIN S /\ p.local = S[Inst.next]
      /\ p.size \in Nat /\ p.size < start /\ start = q.size
      /\ start \in 1..Len(log) /\ Len(log) \in Nat
      /\ p.top = unused_stack /\ p.frame = fail_stack /\ p.pos <= pos
  BY <1>1, EndStart
<1> HIDE DEF p, q
<1> DEFINE n == start - 1
<1>3. n \in 0..Len(log) /\ n \in Nat /\ p.size <= n /\ n < q.size
  BY <1>2
<1>4. log' = BackLog(Made(start), n).log
  BY <1>1
<1> HIDE DEF n
<1>5. LogCut(log, log', n) /\ ~(n < Len(log'))
  BY <1>3, <1>4, CutStep
<1>6. unused_stack' = p.top /\ fail_stack' = p.frame /\ p.pos <= pos'
  BY <1>1, <1>2
<1> QED
  BY <1>1, <1>2, <1>3, <1>5, <1>6, DropHeld DEF p, q

\* TBegin and TFold begin a node, which TFold gives a first child.
LEMMA TBeginHeld ==
  ASSUME NEW S, WellShaped(S), TypeOK, NEW L, Held(S, L), TBegin
  PROVE  \E M : Held(S, M)'
<1> DEFINE e == NewEntry(pos + Inst.shift)
<1>1. /\ Defined /\ Inst.op = "TBegin" /\ log' = Append(log, e) /\ pc' = Inst.next
      /\ UNCHANGED <<stacks, unused_stack, fail_stack, pos>>
  BY DEF TBegin, At, Advance, frames
<1>2. pc' \in DOMAIN S /\ S[pc'] = Append(S[pc], "node")
  BY <1>1, AtShape DEF PairsAt
<1>3. pos + Inst.shift \in Int
  BY <1>1, InstTyped DEF InstOK, TypeOK
<1>4. e \in LogType(newcount) /\ e.op = NewOp
  BY <1>3, EntriesOK DEF NewEntry
<1>5. log \in Seq(LogType(newcount)) /\ Len(log) \in Nat
  BY LenProperties DEF TypeOK
<1> HIDE DEF e, LogType
<1>6. /\ log' \in Seq(LogType(newcount)) /\ Len(log') = Len(log) + 1
      /\ \A i \in 1..Len(log) : log'[i] = log[i]
      /\ log'[Len(log) + 1] = e
  BY <1>1, <1>4, <1>5, AppendProperties
<1>7. log' \in Seq(Range(log'))
  BY <1>6, SeqOfRange
<1>8. Len(log) + 1 <= Len(log') /\ \A i \in Len(log)+2..Len(log') : log'[i].op # NewOp
  BY <1>5, <1>6
<1> QED
  BY <1>1, <1>2, <1>4, <1>6, <1>7, <1>8, BeginHeld

\* TFold opens a node whose first link is the tree at hand.
LEMMA TFoldHeld ==
  ASSUME NEW S, WellShaped(S), TypeOK, NEW L, Held(S, L), TFold
  PROVE  \E M : Held(S, M)'
<1> DEFINE e == NewEntry(pos + Inst.shift)
           link == LinkEntry(SymbolAt(Inst.id % 256), left)
<1>1. /\ Defined /\ Inst.op = "TFold" /\ log' = log \o <<e, link>> /\ pc' = Inst.next
      /\ UNCHANGED <<stacks, unused_stack, fail_stack, pos>>
  BY DEF TFold, At, Advance, frames
<1>2. pc' \in DOMAIN S /\ S[pc'] = Append(S[pc], "node")
  BY <1>1, AtShape DEF PairsAt
<1>3. /\ pos + Inst.shift \in Int /\ SymbolAt(Inst.id % 256) \in Symbols
      /\ left \in 0..newcount
  <2>1. Inst.shift \in Int /\ Inst.id \in 0..Len(Tags)-1
    BY <1>1, InstTyped DEF InstOK
  <2>2. pos \in Int /\ left \in 0..newcount
    BY DEF TypeOK
  <2>3. SymbolAt(Inst.id % 256) \in Symbols
    BY <2>1, SymbolOK
  <2> QED
    BY <2>1, <2>2, <2>3
<1>4. e \in LogType(newcount) /\ link \in LogType(newcount)
  <2>1. e \in LogType(newcount)
    BY <1>3, EntriesOK
  <2>2. link \in LogType(newcount)
    BY <1>3, EntriesOK
  <2> QED
    BY <2>1, <2>2
<1>5. e.op = NewOp /\ link.op # NewOp
  BY DEF NewEntry, LinkEntry, LinkOp, NewOp
<1>6. log \in Seq(LogType(newcount)) /\ Len(log) \in Nat
  BY LenProperties DEF TypeOK
<1> HIDE DEF e, link, LogType
<1>7. /\ <<e, link>> \in Seq(LogType(newcount)) /\ Len(<<e, link>>) = 2
      /\ <<e, link>>[1] = e /\ <<e, link>>[2] = link
  BY <1>4
<1>8. /\ log' \in Seq(LogType(newcount)) /\ Len(log') = Len(log) + 2
      /\ \A i \in 1..Len(log) : log'[i] = log[i]
      /\ \A i \in 1..2 : log'[Len(log) + i] = <<e, link>>[i]
  BY <1>1, <1>6, <1>7, ConcatProperties
<1>9. log' \in Seq(Range(log'))
  BY <1>8, SeqOfRange
<1>10. log'[Len(log) + 1].op = NewOp /\ log'[Len(log) + 2].op # NewOp
  BY <1>5, <1>7, <1>8
<1>11. /\ Len(log) + 1 <= Len(log')
       /\ \A i \in Len(log)+2..Len(log') : log'[i].op # NewOp
  BY <1>6, <1>8, <1>10
<1> QED
  BY <1>1, <1>2, <1>8, <1>9, <1>10, <1>11, BeginHeld

\* TTag and TReplace log an entry in an open node.
LEMMA TTagHeld ==
  ASSUME NEW S, WellShaped(S), TypeOK, NEW L, Held(S, L), TTag \/ TReplace
  PROVE  \E M : Held(S, M)'
<1>1. PICK e : /\ log' = Append(log, e) /\ Defined /\ pc' = Inst.next
               /\ UNCHANGED <<stacks, unused_stack, fail_stack, pos>>
               /\ \/ Inst.op = "TTag" /\ e = TagEntry(SymbolAt(Inst.id))
                  \/ Inst.op = "TReplace" /\ e = ReplaceEntry(Inst.value)
  BY DEF TTag, TReplace, At, Advance, frames
<1>2. pc' \in DOMAIN S /\ S[pc'] = S[pc] /\ NodeOpen(S[pc])
  BY <1>1, AtShape DEF PairsAt
<1>3. e \in LogType(newcount)
  <2>1. CASE Inst.op = "TTag" /\ e = TagEntry(SymbolAt(Inst.id))
    BY <1>1, <2>1, InstTyped, SymbolOK, EntriesOK DEF InstOK
  <2>2. CASE Inst.op = "TReplace" /\ e = ReplaceEntry(Inst.value)
    <3>1. Inst.value \in Replacements
      BY <1>1, <2>2 DEF Replacements, Inst, Defined
    <3> QED
      BY <2>2, <3>1, EntriesOK
  <2> QED
    BY <1>1, <2>1, <2>2
<1>4. e.op # NewOp
  BY <1>1 DEF TagEntry, ReplaceEntry, TagOp, ReplaceOp, NewOp
<1> QED
  BY <1>1, <1>2, <1>3, <1>4, LogHeldOn

\* STEP_FAIL gives the frame on top the state of now.
LEMMA RenewHeld ==
  ASSUME NEW S, WellShaped(S), TypeOK, NEW L, Held(S, L), Defined,
         Inst.op = "Step", pc' = Inst.next,
         stacks' = [stacks EXCEPT
                      ![fail_stack]     = [@ EXCEPT !.tree = left],
                      ![fail_stack + 1] = [@ EXCEPT !.value = pos],
                      ![fail_stack + 2] = [@ EXCEPT !.value = Len(log), !.num = 0]],
         UNCHANGED <<pos, unused_stack, fail_stack, log>>
  PROVE  \E M : Held(S, M)'
<1> DEFINE m == Len(L)
           p == L[m - 1]
           q == L[m]
           t == Front(S[pc])
<1>1. pc' \in DOMAIN S /\ S[pc'] = S[pc] /\ S[pc] = Append(t, "alt") /\ t \in Seq(Letters)
  <2>1. S[pc] \in Seq(Letters) /\ Len(S[pc]) \in Nat
    BY AtShape, LenProperties
  <2>2. \A i \in 1..Len(S[pc])-1 : S[pc][i] \in Letters
    BY <2>1, ElementOfSeq
  <2>3. t \in Seq(Letters)
    BY <2>1, <2>2, SubSeqProperties DEF Front
  <2> QED
    BY <2>3, AtShape DEF PairsAt
<1>2. /\ m # 1 /\ q.kind = "alt" /\ p.local = t
      /\ Over(S, stacks, log, p, q)
      /\ p.top \in Nat /\ p.frame \in Nat /\ p.pos \in Int /\ p.size \in Nat
      /\ q.size \in Nat /\ p.size <= q.size /\ q.size <= Len(log)
      /\ fail_stack = p.top + 1 /\ unused_stack = p.top + 3
      /\ p.pos <= q.pos /\ q.pos <= pos /\ q.pos \in Int
  BY <1>1, TopAlt, SMTT(20)
<1>3. /\ Stacked(S, L, stacks, log) /\ m \in Nat \ {0} /\ pos \in Int
      /\ Len(log) \in Nat /\ log \in Seq(Range(log))
  BY HeldIs
<1>4. m - 1 \in 1..Len(L)
  BY <1>2, BelowTop
<1>5. q.local = Append(t, "alt") /\ q.local = S[pc]
  BY <1>1, HeldIs
<1> HIDE DEF p, q, t, m
<1>6. /\ stacks[fail_stack].value = p.frame
      /\ stacks[fail_stack + 1].num \in DOMAIN S
      /\ S[stacks[fail_stack + 1].num] = p.local
  BY <1>2 DEF Over
<1> DEFINE f == fail_stack
<1>7. /\ f \in Nat /\ {f, f + 1, f + 2} \subseteq 0..StackSize-1
      /\ DOMAIN stacks = 0..StackSize-1 /\ StackSize \in Nat
  <2>1. fail_stack \in 0..StackSize-3 /\ StackSize \in Nat
    BY StackAssumption DEF Defined
  <2>2. DOMAIN stacks = 0..StackSize-1
    BY DEF TypeOK
  <2> QED
    BY <2>1, <2>2
<1>8. \A s \in 0..StackSize-1 : stacks[s] \in SlotType(newcount)
  BY DEF TypeOK
<1>9. /\ stacks'[f] = [stacks[f] EXCEPT !.tree = left]
      /\ stacks'[f + 1] = [stacks[f + 1] EXCEPT !.value = pos]
      /\ stacks'[f + 2] = [stacks[f + 2] EXCEPT !.value = Len(log), !.num = 0]
  BY <1>7
<1>10. \A s \in 0..f-1 : stacks'[s] = stacks[s]
  BY <1>7
<1>11. /\ stacks[f] \in SlotType(newcount) /\ stacks[f + 1] \in SlotType(newcount)
       /\ stacks[f + 2] \in SlotType(newcount)
  BY <1>7, <1>8
<1>12. /\ stacks'[f].value = p.frame /\ stacks'[f + 1].value = pos
       /\ stacks'[f + 1].num = stacks[f + 1].num /\ stacks'[f + 2].value = Len(log)
  <2>1. [stacks[f] EXCEPT !.tree = left].value = stacks[f].value
    BY <1>11 DEF SlotType
  <2>2. /\ [stacks[f + 1] EXCEPT !.value = pos].value = pos
        /\ [stacks[f + 1] EXCEPT !.value = pos].num = stacks[f + 1].num
    BY <1>11 DEF SlotType
  <2>3. [stacks[f + 2] EXCEPT !.value = Len(log), !.num = 0].value = Len(log)
    BY <1>11 DEF SlotType
  <2> QED
    BY <1>6, <1>9, <2>1, <2>2, <2>3
<1>13. SlotsKept(stacks, stacks', p.top)
  <2>1. 0..f-1 = 0..p.top
    BY <1>2
  <2> QED
    BY <1>10, <2>1 DEF SlotsKept
<1> DEFINE M == SubSeq(L, 1, m - 1)
           n == Len(log)
<1>14. NodesCut(L, m - 1, n)
  <2>1. m \in Nat /\ \A j \in (m-1)+1..m : j = m
    BY <1>3
  <2> QED
    BY <1>2, <2>1 DEF NodesCut, m, q
<1>15. LogCut(log, log, n) /\ ~(n < Len(log)) /\ p.size <= n
  BY <1>2, <1>3, WholeLog
<1>16. Stacked(S, M, stacks', log) /\ Len(M) = m - 1 /\ M[m - 1] = p
  BY <1>3, <1>4, <1>13, <1>14, <1>15, CutOK DEF p
<1> HIDE DEF M, n
<1> PICK new : new = Opening("alt", Append(t, "alt"), p.top + 3, p.top + 1, n)
  OBVIOUS
<1>17. /\ new \in Item /\ new.kind = "alt" /\ new.local = Append(p.local, "alt")
       /\ new.local = S[pc'] /\ new.top = p.top + 3 /\ new.frame = p.top + 1
       /\ new.pos = pos /\ new.size = n
  <2>1. "alt" \in Kinds /\ "alt" \in Letters
    BY DEF Kinds, Letters, Opened
  <2>2. Append(t, "alt") \in Seq(Letters)
    BY <1>1, <2>1, AppendProperties
  <2>3. n \in Nat
    BY <1>3 DEF n
  <2>4. p.top + 3 \in Nat /\ p.top + 1 \in Nat
    BY <1>2
  <2>5. new \in Item
    BY <2>1, <2>2, <2>3, <2>4, OpeningIs
  <2> QED
    BY <1>1, <1>2, <2>5 DEF Opening
<1>18. Over(S, stacks', log, p, new)
  <2>1. p.pos <= new.pos /\ p.size <= new.size
    <3>1. p.pos <= pos
      BY <1>2, <1>3
    <3> QED
      BY <1>15, <1>17, <3>1
  <2>2. new.frame = f /\ new.frame + 1 = f + 1 /\ new.frame + 2 = f + 2
    BY <1>2, <1>17
  <2>3. /\ stacks'[new.frame].value = p.frame
        /\ stacks'[new.frame + 1].value = new.pos
        /\ stacks'[new.frame + 1].num \in DOMAIN S
        /\ S[stacks'[new.frame + 1].num] = p.local
        /\ stacks'[new.frame + 2].value = new.size
    BY <1>6, <1>12, <1>17, <2>2 DEF n
  <2> HIDE DEF f
  <2> QED
    BY <1>17, <2>1, <2>3 DEF Over
<1> DEFINE N == Append(M, new)
<1>19. Stacked(S, N, stacks', log) /\ N[Len(N)] = new
  <2>1. /\ \A i \in 1..n : log[i] = log[i]
        /\ \A i \in n+1..n : log[i].op = NewOp => new.kind = "node" /\ new.size = i
        /\ n \in Nat /\ n <= n /\ new.size <= n /\ ~(n = 0 /\ n > 0)
    BY <1>3, <1>17 DEF n
  <2>2. Over(S, stacks', log, M[Len(M)], new)
    BY <1>16, <1>18
  <2> QED
    BY <1>3, <1>16, <1>17, <2>1, <2>2, PushOK DEF n
<1> HIDE DEF N
<1>20. AtTop(S, new)'
  <2>1. unused_stack' = new.top /\ fail_stack' = new.frame /\ new.pos <= pos'
    BY <1>2, <1>3, <1>17
  <2> QED
    BY <1>1, <1>17, <2>1 DEF AtTop
<1>21. Held(S, N)'
  BY <1>19, <1>20 DEF Held
<1> QED
  BY <1>21

\* A handler moves forward by whole instructions and never back.
LEMMA WidthIs ==
  ASSUME Defined
  PROVE  Width(Inst) \in Nat
<1>1. CASE Inst.op \in StrOps
  <2>1. Inst.str \in Seq(Bytes)
    BY <1>1, InstTyped DEF InstOK
  <2> QED
    BY <1>1, <2>1, LenProperties DEF Width
<1>2. CASE Inst.op \notin StrOps
  BY <1>2 DEF Width
<1> QED
  BY <1>1, <1>2

\* The control instructions keep the items.
LEMMA ControlHeld ==
  ASSUME NEW S, WellShaped(S), TypeOK, NEW L, Held(S, L), Control, status' = "run"
  PROVE  Failed' \/ \E M : Held(S, M)'
<1>1. CASE Nop
  <2>1. /\ Inst.op = "Nop" /\ pc' = Inst.next
        /\ UNCHANGED <<stacks, unused_stack, fail_stack, log>> /\ pos' = pos
    BY <1>1 DEF Nop, At, Advance, frames, tree
  <2>2. pc' \in DOMAIN S /\ S[pc'] = S[pc] /\ pos' \in Int /\ pos <= pos'
    BY <2>1, AtShape DEF PairsAt, TypeOK
  <2> QED
    BY <2>1, <2>2, MoveHeld
<1>2. CASE Jump
  <2>1. /\ Inst.op = "Jump" /\ pc' = Inst.next + Inst.jump
        /\ UNCHANGED <<stacks, unused_stack, fail_stack, log>> /\ pos' = pos
    BY <1>2 DEF Jump, At, frames, tree
  <2>2. pc' \in DOMAIN S /\ S[pc'] = S[pc] /\ pos' \in Int /\ pos <= pos'
    BY <2>1, AtShape DEF PairsAt, TypeOK
  <2> QED
    BY <2>1, <2>2, MoveHeld
<1>3. CASE Succ
  <2>1. Inst.op = "Succ" /\ PopSucc /\ pc' = Inst.next /\ pos' = pos /\ log' = log
    BY <1>3 DEF Succ, At, Advance, tree
  <2> QED
    BY <2>1, SuccHeld
<1>4. CASE Fail
  BY <1>4, FailHeld DEF Fail
<1>5. CASE Step
  <2>1. CASE PopFail(heap)
    BY <2>1, FailHeld
  <2>2. CASE /\ stacks' = [stacks EXCEPT
                   ![fail_stack]     = [@ EXCEPT !.tree = left],
                   ![fail_stack + 1] = [@ EXCEPT !.value = pos],
                   ![fail_stack + 2] = [@ EXCEPT !.value = Len(log), !.num = 0]]
             /\ Advance
             /\ UNCHANGED <<pos, unused_stack, fail_stack, tree>>
    <3>1. Defined /\ Inst.op = "Step"
      BY <1>5 DEF Step, At
    <3> QED
      BY <2>2, <3>1, RenewHeld DEF Advance, tree
  <2> QED
    BY <1>5, <2>1, <2>2 DEF Step
<1>6. ~Exit /\ ~Unimplemented
  BY DEF Exit, Unimplemented
<1> QED
  BY <1>1, <1>2, <1>3, <1>4, <1>5, <1>6, PosHeld, BackHeld, CallHeld, RetHeld, AltHeld
  DEF Control

\* So do the instructions on the input, which only move forward or fail.
LEMMA ScanHeld ==
  ASSUME NEW S, WellShaped(S), TypeOK, NEW L, Held(S, L), Scan
  PROVE  Failed' \/ \E M : Held(S, M)'
<1>0. CASE PopFail(heap)
  BY <1>0, FailHeld
<1>1. Defined /\ Width(Inst) \in Nat /\ pos \in Int
  BY WidthIs DEF Scan, Consume, AnyByte, NotMatch, NAny, Optional, Repeat, Dispatch,
                 At, TypeOK
<1>2. \A k \in Nat, w \in Nat : pos + k * w \in Int /\ pos <= pos + k * w
  <2>1. \A k \in Nat, w \in Nat : k * w \in Nat
    OBVIOUS
  <2> QED
    BY <1>1, <2>1
<1>3. CASE /\ Inst.op \in {"Any", "NAny"} \cup (TextOps \ {"Dispatch", "DDispatch"})
           /\ pc' = Inst.next /\ pos' \in Int /\ pos <= pos'
           /\ UNCHANGED <<frames, tree>>
  <2>1. pc' \in DOMAIN S /\ S[pc'] = S[pc]
    BY <1>3, AtShape DEF PairsAt
  <2> QED
    BY <1>3, <2>1, MoveHeld DEF frames, tree
<1>4. CASE Consume
  <2>1. Inst.op \in {"Byte", "Set", "Str"}
    BY <1>4 DEF Consume, At
  <2>2. CASE pos' = pos + Width(Inst) /\ Advance /\ UNCHANGED <<frames, tree>>
    BY <1>1, <1>3, <2>1, <2>2 DEF Advance, TextOps, StrOps, RepeatOps
  <2> QED
    BY <1>0, <1>4, <2>2 DEF Consume
<1>5. CASE AnyByte
  <2>1. CASE pos' = pos + 1 /\ Advance /\ UNCHANGED <<frames, tree>>
    BY <1>1, <1>3, <1>5, <2>1 DEF AnyByte, At, Advance
  <2> QED
    BY <1>0, <1>5, <2>1 DEF AnyByte
<1>6. CASE NotMatch \/ NAny
  <2>1. Inst.op \in {"NByte", "NSet", "NStr", "NAny"}
    BY <1>6 DEF NotMatch, NAny, At
  <2>2. CASE Advance /\ UNCHANGED <<pos, frames, tree>>
    BY <1>1, <1>3, <2>1, <2>2 DEF Advance, TextOps, StrOps, RepeatOps
  <2> QED
    BY <1>0, <1>6, <2>2 DEF NotMatch, NAny
<1>7. CASE Optional
  <2>1. Inst.op \in {"OByte", "OSet", "OStr"} /\ Advance /\ UNCHANGED <<frames, tree>>
    BY <1>7 DEF Optional, At
  <2>2. pos' \in {pos, pos + Width(Inst)}
    BY <1>7 DEF Optional
  <2> QED
    BY <1>1, <1>3, <2>1, <2>2 DEF Advance, TextOps, StrOps, RepeatOps
<1>8. CASE Repeat
  <2>1. Inst.op \in RepeatOps /\ Advance /\ UNCHANGED <<frames, tree>>
    BY <1>8 DEF Repeat, At
  <2>2. PICK k \in 0..Len(input) : pos' = pos + k * Width(Inst)
    BY <1>8 DEF Repeat
  <2>3. pos' \in Int /\ pos <= pos'
    BY <1>1, <1>2, <2>2
  <2> QED
    BY <1>3, <2>1, <2>3 DEF Advance, TextOps, StrOps, RepeatOps
<1>9. CASE Dispatch
  <2>1. /\ Inst.op \in {"Dispatch", "DDispatch"} /\ InText(pos)
        /\ pc' = Inst.next + Inst.table[ByteAt(pos)] /\ pos' \in {pos, pos + 1}
        /\ UNCHANGED <<frames, tree>>
    BY <1>9 DEF Dispatch, At, Defined, TextOps
  <2>2. ByteAt(pos) \in Bytes
    <3>1. input \in Seq(Bytes) /\ input \in Inputs
      BY InputAssumption DEF TypeOK
    <3>2. CASE pos = tail
      BY <3>2 DEF ByteAt, Bytes
    <3>3. CASE pos # tail
      <4>1. pos - InputBase + 1 \in 1..Len(input)
        BY <1>1, <2>1, <3>1, <3>3, InputAssumption, LenProperties DEF InText, tail
      <4> QED
        BY <3>1, <3>3, <4>1, ElementOfSeq DEF ByteAt
    <3> QED
      BY <3>2, <3>3
  <2>3. pc' \in DOMAIN S /\ S[pc'] = S[pc]
    BY <2>1, <2>2, AtShape DEF PairsAt
  <2> QED
    BY <1>1, <2>1, <2>3, MoveHeld DEF frames, tree
<1> QED
  BY <1>4, <1>5, <1>6, <1>7, <1>8, <1>9 DEF Scan

\* So do the instructions on trees.
LEMMA BuildHeld ==
  ASSUME NEW S, WellShaped(S), TypeOK, NEW L, Held(S, L), Build
  PROVE  \E M : Held(S, M)'
BY TPushHeld, TPopHeld, TBeginHeld, TEndHeld, TTagHeld, TLinkHeld, TFoldHeld DEF Build

\* So do the memo instructions: what is remembered is never behind.
LEMMA MemoizeHeld ==
  ASSUME NEW S, WellShaped(S), TypeOK, NEW L, Held(S, L), Memoize, MemoForward
  PROVE  (Failed' \/ \E M : Held(S, M)') /\ MemoForward'
<1>1. /\ Defined /\ Inst.uid \in Nat /\ pos \in Int
      /\ Inst.op \in {"Lookup", "TLookup", "Memo", "TMemo", "MemoFail"}
  BY InstTyped DEF Memoize, Lookup, TLookup, Memo, MemoFail, At, InstOK, TypeOK
<1> DEFINE entry == Entry(Inst.uid)
<1>2. entry.consumed \in Int /\ entry.consumed >= 0
  BY <1>1, MemoSlotOK DEF Entry, EntryType, MemoForward
<1> HIDE DEF entry
<1>3. ASSUME NEW p \in Int, p <= pos, NEW res, Store(Inst.uid, p, res)
      PROVE  MemoForward'
  <2> DEFINE h == Hash(LongKey(p, Inst.uid))
             e == [key |-> LongKey(p, Inst.uid), consumed |-> pos - p, tree |-> left,
                   result |-> res]
  <2>1. memo' = [memo EXCEPT ![h] = e] /\ DOMAIN memo = 0..MemoSize-1
    BY <1>3 DEF Store, TypeOK
  <2>2. e.consumed >= 0
    BY <1>1, <1>3
  <2> HIDE DEF e, h
  <2>3. \A x \in 0..MemoSize-1 : memo'[x] = IF x = h THEN e ELSE memo[x]
    BY <2>1
  <2> QED
    BY <2>2, <2>3 DEF MemoForward
<1>4. CASE Lookup \/ TLookup
  <2>1. Inst.op \in {"Lookup", "TLookup"} /\ MemoForward'
    BY <1>4 DEF Lookup, TLookup, At, MemoForward
  <2>2. CASE \E h : PopFail(h)
    BY <2>1, <2>2, FailHeld
  <2>3. CASE /\ \/ pc' = Inst.next /\ pos' = pos
                \/ pc' = Inst.next + Inst.jump /\ pos' = pos + entry.consumed
             /\ UNCHANGED <<stacks, unused_stack, fail_stack, log>>
    <3>1. pc' \in DOMAIN S /\ S[pc'] = S[pc]
      BY <2>1, <2>3, AtShape DEF PairsAt
    <3>2. pos' \in Int /\ pos <= pos'
      BY <1>1, <1>2, <2>3
    <3> QED
      BY <2>1, <2>3, <3>1, <3>2, MoveHeld
  <2> QED
    BY <1>4, <2>2, <2>3 DEF Lookup, TLookup, Advance, entry, frames, tree
<1>5. CASE Memo
  <2> DEFINE ppos == stacks[fail_stack + 1].value
  <2>1. /\ Inst.op \in {"Memo", "TMemo"} /\ PopSucc /\ pc' = Inst.next
        /\ Store(Inst.uid, ppos, SuccFound) /\ pos' = pos /\ log' = log
    BY <1>5 DEF Memo, At, Advance
  <2>2. Inst.next \in DOMAIN S /\ S[pc] = Append(S[Inst.next], "alt")
    BY <2>1, AtShape DEF PairsAt
  <2>3. ppos \in Int /\ ppos <= pos
    <3>1. S[Inst.next] \in Seq(Letters)
      BY <2>2, AtShape
    <3> QED
      BY <2>2, <3>1, TopAlt
  <2> HIDE DEF ppos
  <2>4. MemoForward'
    BY <1>3, <2>1, <2>3
  <2> QED
    BY <2>1, <2>4, SuccHeld
<1>6. CASE MemoFail
  <2>1. Store(Inst.uid, pos, FailFound) /\ \E h : PopFail(h)
    BY <1>6 DEF MemoFail
  <2> QED
    BY <1>1, <1>3, <2>1, FailHeld
<1> QED
  BY <1>4, <1>5, <1>6 DEF Memoize

\* mininez_init_vm leaves the bottom and the call of the start procedure.
LEMMA InitHeld ==
  ASSUME NEW S, WellShaped(S), Init
  PROVE  \E L : Held(S, L)
<1> DEFINE call == [kind |-> "call", local |-> <<>>, top |-> 4, frame |-> 0,
                    pos |-> InputBase, size |-> 0]
           L == <<Bottom, call>>
<1>1. /\ stacks[0].value = 0 /\ stacks[1].num = 0 /\ stacks[2].value = InputBase
      /\ stacks[4].value = 2
      /\ unused_stack = 4 /\ fail_stack = 0 /\ pos = InputBase /\ log = <<>>
      /\ pc = StartPoint
  <2>1. stacks = InitStacks /\ {0, 1, 2, 4} \subseteq 0..StackSize-1
    BY StackAssumption DEF Init
  <2> QED
    BY <2>1 DEF Init, InitStacks, EmptySlot
<1>2. /\ StartPoint \in DOMAIN S /\ S[StartPoint] = <<>>
      /\ 2 \in DOMAIN S /\ S[2] = <<Leaving>> /\ 2 \in Returns(S)
  BY DEF WellShaped, Returns
<1>3. InputBase \in Int
  BY InputAssumption
<1>4. Bottom \in Item /\ call \in Item
  <2>1. Leaving \in Letters /\ Leaving \in Kinds /\ "call" \in Kinds
    BY DEF Letters, Kinds
  <2> QED
    BY <1>3, <2>1 DEF Bottom, Item
<1>5. L \in Seq(Item) /\ Len(L) = 2 /\ L[1] = Bottom /\ L[2] = call /\ L # <<>>
  BY <1>4
<1>6. /\ Bottom.local = <<Leaving>> /\ Bottom.top = 3 /\ Bottom.frame = 0
      /\ Bottom.pos = InputBase /\ Bottom.size = 0 /\ Bottom.kind = Leaving
      /\ call.local = <<>> /\ call.top = 4 /\ call.frame = 0
      /\ call.pos = InputBase /\ call.size = 0 /\ call.kind = "call"
  BY DEF Bottom
<1> HIDE DEF call, L
<1>7. <<>> # <<Inside>>
  OBVIOUS
<1>8. Over(S, stacks, log, Bottom, call)
  BY <1>1, <1>2, <1>3, <1>6, <1>7 DEF Over, Entries
<1>9. \A i \in 2..Len(L) : Over(S, stacks, log, L[i-1], L[i])
  BY <1>5, <1>8
<1>10. Sorted(L)
  BY <1>3, <1>5, <1>6 DEF Sorted
<1>11. FramesHeld(L)
  BY <1>5, <1>6 DEF FramesHeld
<1>12. NodesHeld(L)
  <2>1. ~NodeOpen(<<>>) /\ ~NodeOpen(<<Leaving>>)
    BY DEF NodeOpen, Leaving, Inside
  <2> QED
    BY <1>5, <1>6, <2>1 DEF NodesHeld
<1>13. LogHeld(L, log)
  BY <1>1, <1>5, <1>6 DEF LogHeld
<1>14. Stacked(S, L, stacks, log)
  BY <1>1, <1>5, <1>9, <1>10, <1>11, <1>12, <1>13 DEF Stacked
<1>15. AtTop(S, L[Len(L)])
  BY <1>1, <1>2, <1>3, <1>5, <1>6 DEF AtTop
<1> QED
  BY <1>14, <1>15 DEF Held
-----------------------------------------------------------------------------
(* The discipline holds in every reachable state.                          *)

\* What init pushes is the item Bottom.
LEMMA DisciplineInit ==
  ASSUME NEW S, WellShaped(S), Init
  PROVE  Disciplined(S)
<1>1. \E L : Held(S, L)
  BY InitHeld
<1>2. BalancedExit
  BY DEF Init, BalancedExit
<1>3. MemoForward
  BY DEF Init, MemoForward, EmptyEntry
<1> QED
  BY <1>1, <1>2, <1>3 DEF Disciplined

\* After a failure without an alternative the machine can only exit with 0.
LEMMA FailedExits ==
  ASSUME NEW S, WellShaped(S), Failed, Defined
  PROVE  Inst.op = "Exit" /\ Inst.code = 0
BY DEF WellShaped, Failed, Inst

\* Every step keeps the discipline.
LEMMA DisciplineNext ==
  ASSUME NEW S, WellShaped(S), TypeOK, Disciplined(S), [Next]_vars
  PROVE  Disciplined(S)'
<1>1. MemoForward
  BY DEF Disciplined
<1>2. CASE UNCHANGED vars \/ Done
  BY <1>2 DEF Done, vars, Disciplined, Failed, Held, AtTop, BalancedExit, MemoForward
<1>3. CASE Dispose
  <2>1. status' = "disposed" /\ memo' = [h \in DOMAIN memo |-> EmptyEntry]
    BY <1>3 DEF Dispose
  <2>2. MemoForward'
    BY <2>1 DEF MemoForward, TypeOK, EmptyEntry
  <2> QED
    BY <2>1, <2>2 DEF Disciplined, BalancedExit
<1>4. CASE Undefined \/ Unimplemented
  <2>1. status' \in {"undefined", "aborted"} /\ memo' = memo
    BY <1>4 DEF Undefined, Unimplemented
  <2> QED
    BY <1>1, <2>1 DEF Disciplined, BalancedExit, MemoForward
<1>5. CASE Exit
  <2>1. /\ status = "run" /\ Defined /\ Inst.op = "Exit" /\ status' = "exit"
        /\ result' = Inst.code
        /\ UNCHANGED <<unused_stack, fail_stack, log, memo>>
    BY <1>5 DEF Exit, frames, tree
  <2>2. MemoForward'
    BY <1>1, <2>1 DEF MemoForward
  <2>3. ASSUME result' = 1
        PROVE  unused_stack' = 3 /\ fail_stack' = 0 /\ log' = <<>>
    <3>1. ~Failed
      BY <2>1, <2>3, FailedExits
    <3>2. PICK L : Held(S, L)
      BY <2>1, <3>1 DEF Disciplined
    <3>3. S[pc] = <<Leaving>>
      BY <2>1, <2>3, <3>2, AtShape DEF PairsAt
    <3> QED
      BY <2>1, <3>2, <3>3, TopBottom
  <2> QED
    BY <2>1, <2>2, <2>3 DEF Disciplined, BalancedExit
<1>6. CASE /\ status = "run" /\ status' = "run" /\ Defined /\ Inst.op # "Exit"
           /\ Control \/ Scan \/ Build \/ Memoize
  <2>1. PICK L : Held(S, L)
    BY <1>6, FailedExits DEF Disciplined
  <2>2. ~Exit
    BY <1>6 DEF Exit
  <2>3. CASE Control \/ Scan \/ Build
    <3>1. Failed' \/ \E M : Held(S, M)'
      BY <1>6, <2>1, <2>3, ControlHeld, ScanHeld, BuildHeld
    <3>2. memo' = memo
      BY <1>6, <2>2, <2>3 DEF Control, Nop, Unimplemented, Pos, Back, Jump, Call, Ret, Alt,
           Succ, Fail, Step, Scan, Consume, AnyByte, NotMatch, NAny, Optional, Repeat,
           Dispatch, Build, TPush, TPop, TBegin, TEnd, TTag, TReplace, TLink, TFold
    <3>3. MemoForward'
      BY <1>1, <3>2 DEF MemoForward
    <3> QED
      BY <1>6, <3>1, <3>3 DEF Disciplined, BalancedExit
  <2>4. CASE Memoize
    BY <1>1, <1>6, <2>1, <2>4, MemoizeHeld DEF Disciplined, BalancedExit
  <2> QED
    BY <1>6, <2>3, <2>4
<1>7. CASE (Control \/ Scan \/ Build \/ Memoize) /\ ~Exit /\ ~Unimplemented
  <2>1. status = "run" /\ status' = status /\ Defined /\ Inst.op # "Exit"
    BY <1>7 DEF Control, Nop, Pos, Back, Jump, Call, Ret, Alt,
         Succ, Fail, Step, Scan, Consume, AnyByte, NotMatch, NAny, Optional, Repeat,
         Dispatch, Build, TPush, TPop, TBegin, TEnd, TTag, TReplace, TLink, TFold,
         Memoize, Lookup, TLookup, Memo, MemoFail, At, RepeatOps
  <2> QED
    BY <1>6, <1>7, <2>1
<1> QED
  BY <1>2, <1>3, <1>4, <1>5, <1>7 DEF Next

\* Every program of paired pushes and pops keeps the machine's stack, frames
\* and log accounted for, item by item, and its memo entries forward.
THEOREM StackDiscipline ==
  ASSUME NEW S, WellShaped(S)
  PROVE  Spec => []Disciplined(S)
<1>1. Init => Disciplined(S)
  BY DisciplineInit
<1>2. TypeOK /\ Disciplined(S) /\ [Next]_vars => Disciplined(S)'
  BY DisciplineNext
<1>3. Spec => []TypeOK
  BY TypeCorrect
<1> QED
  BY <1>1, <1>2, <1>3, PTL DEF Spec

\* A parse that accepts (Exit with 1, nezvm.c mininez_parse) has popped all it
\* pushed and has emptied its log, whatever the input and the sizes.
THEOREM AcceptsBalanced ==
  ASSUME NEW S, WellShaped(S)
  PROVE  Spec => []BalancedExit
<1>1. Disciplined(S) => BalancedExit
  BY DEF Disciplined
<1> QED
  BY <1>1, StackDiscipline, PTL
-----------------------------------------------------------------------------
(* The chain of failure frames.                                            *)

\* The equation that Chain's function solves, on the slots up to n.
Solves(g, n) ==
  \A s \in 0..n :
    g[s] = IF s = 0 THEN {}
           ELSE {s} \cup (IF stacks[s].value \in 0..s-1 THEN g[stacks[s].value] ELSE {})

\* It has a solution: each slot's value refers to lower slots only.
LEMMA ChainExists ==
  \A n \in Nat : \E g : g = [s \in 0..n |-> g[s]] /\ Solves(g, n)
<1> DEFINE T == {n \in Nat : \E g : g = [s \in 0..n |-> g[s]] /\ Solves(g, n)}
<1>1. 0 \in T
  <2> DEFINE g == [s \in 0..0 |-> {}]
  <2>1. g = [s \in 0..0 |-> g[s]] /\ g[0] = {} /\ \A s \in 0..0 : s = 0
    OBVIOUS
  <2> HIDE DEF g
  <2>2. Solves(g, 0)
    BY <2>1 DEF Solves
  <2> QED
    BY <2>1, <2>2
<1>2. ASSUME NEW n \in Nat, n \in T
      PROVE  n + 1 \in T
  <2>1. PICK g : g = [s \in 0..n |-> g[s]] /\ Solves(g, n)
    BY <1>2
  <2> DEFINE top == {n + 1} \cup (IF stacks[n + 1].value \in 0..n
                                  THEN g[stacks[n + 1].value] ELSE {})
             h == [s \in 0..n+1 |-> IF s = n + 1 THEN top ELSE g[s]]
  <2>2. /\ h = [s \in 0..n+1 |-> h[s]] /\ h[n + 1] = top
        /\ \A s \in 0..n : h[s] = g[s]
    OBVIOUS
  <2> HIDE DEF h
  <2>3. ASSUME NEW s \in 0..n
        PROVE  h[s] = IF s = 0 THEN {}
                      ELSE {s} \cup (IF stacks[s].value \in 0..s-1
                                     THEN h[stacks[s].value] ELSE {})
    <3>1. ASSUME stacks[s].value \in 0..s-1
          PROVE  h[stacks[s].value] = g[stacks[s].value]
      <4>1. stacks[s].value \in 0..n
        BY <3>1
      <4> QED
        BY <2>2, <4>1
    <3> QED
      BY <2>1, <2>2, <3>1 DEF Solves
  <2>4. h[n + 1] = {n + 1} \cup (IF stacks[n + 1].value \in 0..(n+1)-1
                                 THEN h[stacks[n + 1].value] ELSE {})
    <3>1. (n + 1) - 1 = n
      OBVIOUS
    <3>2. stacks[n + 1].value \in 0..n
            => h[stacks[n + 1].value] = g[stacks[n + 1].value]
      BY <2>2
    <3> QED
      BY <2>2, <3>1, <3>2
  <2>5. Solves(h, n + 1)
    <3> HIDE DEF top
    <3> SUFFICES ASSUME NEW s \in 0..n+1
                 PROVE  h[s] = IF s = 0 THEN {}
                               ELSE {s} \cup (IF stacks[s].value \in 0..s-1
                                              THEN h[stacks[s].value] ELSE {})
      BY DEF Solves
    <3>1. CASE s = n + 1
      <4>1. s # 0
        BY <3>1
      <4> QED
        BY <2>4, <3>1, <4>1
    <3>2. CASE s \in 0..n
      BY <2>3, <3>2
    <3> QED
      BY <3>1, <3>2
  <2> QED
    BY <2>2, <2>5
<1> HIDE DEF T
<1>3. Nat \subseteq T
  BY <1>1, <1>2, NatSetInduction
<1> QED
  BY <1>3 DEF T

\* So Chain is the function it looks like.
LEMMA ChainIs ==
  \E g : Solves(g, StackSize - 1) /\ \A f : Chain(f) = g[f]
<1> DEFINE D == 0..StackSize-1
           Body(g, s) == IF s = 0 THEN {}
                         ELSE {s} \cup (IF stacks[s].value \in 0..s-1
                                        THEN g[stacks[s].value] ELSE {})
           down == CHOOSE g : g = [s \in D |-> Body(g, s)]
<1>1. StackSize - 1 \in Nat
  BY StackAssumption
<1>2. PICK g : g = [s \in D |-> g[s]] /\ Solves(g, StackSize - 1)
  BY <1>1, ChainExists
<1>3. g = [s \in D |-> Body(g, s)]
  <2>1. \A s \in D : g[s] = Body(g, s)
    BY <1>2 DEF Solves
  <2> HIDE DEF Body
  <2>2. [s \in D |-> g[s]] = [s \in D |-> Body(g, s)]
    BY <2>1
  <2> QED
    BY <1>2, <2>2
<1>4. down = [s \in D |-> Body(down, s)]
  <2> HIDE DEF Body
  <2> QED
    BY <1>3
<1>5. \A f : Chain(f) = down[f]
  BY DEF Chain
<1> HIDE DEF down
<1>6. Solves(down, StackSize - 1)
  BY <1>4 DEF Solves
<1> QED
  BY <1>5, <1>6

\* What the items say of an alternative's frame.
LEMMA FrameIs ==
  ASSUME NEW S, WellShaped(S), TypeOK, NEW L, Held(S, L),
         NEW k \in 2..Len(L), L[k].kind = "alt"
  PROVE  LET p == L[k - 1]
             q == L[k]
         IN  /\ q.frame \in 4..unused_stack-2
             /\ stacks[q.frame].value = p.frame
             /\ p.frame = 0 \/ p.frame \in 1..q.frame-3
             /\ p.frame = 0 \/ \E j \in 2..k-1 : L[j].kind = "alt" /\ L[j].frame = p.frame
             /\ stacks[q.frame + 1].value = q.pos /\ q.pos \in InputBase..pos
             /\ stacks[q.frame + 2].value = q.size /\ q.size \in 0..Len(log)
<1> DEFINE p == L[k - 1]
           q == L[k]
           z == L[Len(L)]
<1>1. /\ Stacked(S, L, stacks, log) /\ Len(L) \in Nat \ {0}
      /\ unused_stack = z.top /\ z.pos <= pos /\ pos \in Int /\ Len(log) \in Nat
      /\ z.top \in Nat /\ z.pos \in Int
  BY HeldIs
<1>2. Sorted(L) /\ FramesHeld(L) /\ LogHeld(L, log) /\ Over(S, stacks, log, p, q)
  BY <1>1 DEF Stacked
<1>3. k - 1 \in 1..Len(L) /\ k \in 1..Len(L) /\ Len(L) \in 1..Len(L)
  BY <1>1
<1>4. /\ p.top \in Nat /\ p.frame \in Nat /\ 3 <= p.top
      /\ q.top \in Nat /\ q.pos \in Int /\ q.size \in Nat /\ InputBase <= q.pos
      /\ q.size <= Len(log)
  BY <1>1, <1>2, <1>3, ItemsIs DEF LogHeld
<1>5. q.top <= z.top /\ q.pos <= z.pos
  <2>1. CASE k = Len(L)
    BY <1>4, <2>1
  <2>2. CASE k < Len(L)
    BY <1>2, <1>3, <2>2, SortedAt
  <2> QED
    BY <1>1, <2>1, <2>2
<1>6. /\ q.top = p.top + 3 /\ q.frame = p.top + 1
      /\ stacks[q.frame].value = p.frame /\ stacks[q.frame + 1].value = q.pos
      /\ stacks[q.frame + 2].value = q.size
  BY <1>2 DEF Over
<1>7. p.frame = 0 \/ \E j \in 2..k-1 : L[j].kind = "alt" /\ L[j].frame = p.frame
  BY <1>2, <1>3 DEF FramesHeld
<1>8. ASSUME p.frame # 0
      PROVE  p.frame \in 1..q.frame-3
  <2>1. PICK j \in 2..k-1 : L[j].kind = "alt" /\ L[j].frame = p.frame
    BY <1>7, <1>8
  <2>2. /\ j - 1 \in 1..Len(L) /\ j \in 1..Len(L) /\ j < k
        /\ Over(S, stacks, log, L[j - 1], L[j])
    BY <1>1, <1>3, <2>1 DEF Stacked
  <2>3. L[j].top = L[j - 1].top + 3 /\ L[j].frame = L[j - 1].top + 1
    BY <2>1, <2>2 DEF Over
  <2>4. L[j].top \in Nat /\ L[j - 1].top \in Nat
    BY <1>1, <2>2, ItemsIs
  <2>5. L[j].top <= p.top
    <3>1. CASE j = k - 1
      BY <2>4, <3>1
    <3>2. CASE j < k - 1
      BY <1>2, <1>3, <2>2, <3>2, SortedAt
    <3> QED
      BY <2>1, <3>1, <3>2
  <2>6. p.frame = L[j - 1].top + 1 /\ L[j - 1].top + 3 <= p.top
    BY <2>1, <2>3, <2>5
  <2> HIDE DEF p, q
  <2>7. p.frame + 3 <= q.frame /\ 1 <= p.frame /\ q.frame \in Nat
    <3> DEFINE a == L[j - 1].top
    <3>1. /\ a \in Nat /\ p.frame = a + 1 /\ a + 3 <= p.top /\ q.frame = p.top + 1
          /\ p.top \in Nat
      BY <1>4, <1>6, <2>4, <2>6
    <3> HIDE DEF a
    <3> QED
      BY <3>1
  <2> QED
    BY <1>4, <2>7
<1> HIDE DEF p, q, z
<1>9. q.frame \in 4..unused_stack-2
  <2>1. q.frame = p.top + 1 /\ p.top + 3 <= unused_stack
    BY <1>1, <1>5, <1>6
  <2>2. p.top \in Nat /\ unused_stack \in Nat /\ 3 <= p.top
    BY <1>1, <1>4
  <2> QED
    BY <2>1, <2>2
<1>10. q.pos \in InputBase..pos /\ q.size \in 0..Len(log)
  BY <1>1, <1>4, <1>5, InputAssumption
<1> QED
  BY <1>6, <1>7, <1>8, <1>9, <1>10 DEF p, q

\* A frame of the chain is an alternative's.
LEMMA ChainHeld ==
  ASSUME NEW S, WellShaped(S), TypeOK, NEW L, Held(S, L)
  PROVE  \A f \in Chain(fail_stack) :
           \E k \in 2..Len(L) : L[k].kind = "alt" /\ L[k].frame = f
<1> DEFINE Frames == {L[k].frame : k \in {j \in 2..Len(L) : L[j].kind = "alt"}}
<1>1. PICK g : Solves(g, StackSize - 1) /\ \A f : Chain(f) = g[f]
  BY ChainIs
<1>2. /\ StackSize \in Nat /\ unused_stack <= StackSize - 1 /\ unused_stack \in Int
      /\ Len(L) \in Nat
  BY StackAssumption, HeldIs DEF TypeOK
<1>3. ASSUME NEW f \in Frames
      PROVE  f \in 4..StackSize-1 /\ stacks[f].value \in {0} \cup Frames
  <2>1. PICK k \in 2..Len(L) : L[k].kind = "alt" /\ L[k].frame = f
    OBVIOUS
  <2>2. /\ f \in 4..unused_stack-2 /\ stacks[f].value = L[k - 1].frame
        /\ \/ L[k - 1].frame = 0
           \/ \E j \in 2..k-1 : L[j].kind = "alt" /\ L[j].frame = L[k - 1].frame
    <3>1. f \in 4..unused_stack-2
      BY <2>1, FrameIs
    <3>2. stacks[f].value = L[k - 1].frame
      BY <2>1, FrameIs
    <3>3. \/ L[k - 1].frame = 0
          \/ \E j \in 2..k-1 : L[j].kind = "alt" /\ L[j].frame = L[k - 1].frame
      BY <2>1, FrameIs
    <3> QED
      BY <3>1, <3>2, <3>3
  <2>3. stacks[f].value \in {0} \cup Frames
    BY <1>2, <2>2
  <2>4. f \in 4..StackSize-1
    BY <1>2, <2>2
  <2> QED
    BY <2>3, <2>4
<1>4. fail_stack \in {0} \cup Frames
  <2>1. /\ fail_stack = L[Len(L)].frame /\ FramesHeld(L) /\ Len(L) \in 1..Len(L)
    <3>1. Stacked(S, L, stacks, log) /\ Len(L) \in Nat \ {0}
      BY HeldIs
    <3> QED
      BY <3>1, HeldIs DEF Stacked
  <2> QED
    BY <2>1 DEF FramesHeld
<1> HIDE DEF Frames
<1> DEFINE T == {n \in Nat : \A f \in {0} \cup Frames : f \in 0..n => g[f] \subseteq Frames}
<1>5. g[0] = {}
  <2>1. 0 \in 0..StackSize-1
    BY StackAssumption
  <2>2. Solves(g, StackSize - 1)
    BY <1>1
  <2> QED
    BY <2>1, <2>2 DEF Solves
<1>6. 0 \in T
  BY <1>5
<1>7. ASSUME NEW n \in Nat, n \in T
      PROVE  n + 1 \in T
  <2> SUFFICES ASSUME NEW f \in Frames, f = n + 1
               PROVE  g[f] \subseteq Frames
    BY <1>5, <1>7
  <2> DEFINE outer == stacks[f].value
  <2>1. f \in 4..StackSize-1 /\ outer \in {0} \cup Frames
    BY <1>3
  <2> HIDE DEF outer
  <2>2. g[f] = {f} \cup (IF outer \in 0..f-1 THEN g[outer] ELSE {})
    <3>1. f \in 0..StackSize-1 /\ f # 0 /\ Solves(g, StackSize - 1)
      BY <1>1, <2>1
    <3> QED
      BY <3>1 DEF Solves, outer
  <2>3. outer \in 0..f-1 => g[outer] \subseteq Frames
    BY <1>7, <2>1
  <2> QED
    BY <2>2, <2>3
<1> HIDE DEF T
<1>8. Nat \subseteq T
  BY <1>6, <1>7, NatSetInduction
<1>9. g[fail_stack] \subseteq Frames
  <2>1. fail_stack \in Nat
    BY <1>3, <1>4
  <2> QED
    BY <1>4, <1>8, <2>1 DEF T
<1> QED
  BY <1>1, <1>9 DEF Frames

\* The frames of the items are the chain that fail_stack starts.
LEMMA ChainOK ==
  ASSUME NEW S, WellShaped(S), TypeOK, Disciplined(S)
  PROVE  FailChain
<1> SUFFICES ASSUME status = "run", unused_stack >= 0 PROVE FailChain
  BY DEF FailChain
<1>1. PICK L : Held(S, L)
  BY DEF Disciplined, Failed
<1>2. unused_stack \in -1..StackSize-1 /\ StackSize \in Nat /\ StackSize > 4
  BY StackAssumption DEF TypeOK
<1>3. fail_stack \in 0..StackSize-3
  <2>1. /\ Stacked(S, L, stacks, log) /\ Len(L) \in Nat \ {0} /\ fail_stack = L[Len(L)].frame
    BY <1>1, HeldIs
  <2>2. FramesHeld(L) /\ Len(L) \in 1..Len(L)
    BY <2>1 DEF Stacked
  <2>3. CASE fail_stack = 0
    BY <1>2, <2>3
  <2>4. CASE fail_stack # 0
    <3>1. PICK k \in 2..Len(L) : L[k].kind = "alt" /\ L[k].frame = fail_stack
      BY <2>1, <2>2, <2>4 DEF FramesHeld
    <3>2. fail_stack \in 4..unused_stack-2
      BY <1>1, <3>1, FrameIs
    <3> QED
      BY <1>2, <3>2
  <2> QED
    BY <2>3, <2>4
<1>4. ASSUME NEW f \in Chain(fail_stack)
      PROVE  LET outer == stacks[f].value IN
             /\ f + 2 <= unused_stack
             /\ outer = 0 \/ outer \in 1..f-3
             /\ stacks[f+1].value \in InputBase..pos
             /\ stacks[f+2].value \in 0..Len(log)
             /\ outer # 0 => /\ stacks[outer+1].value <= stacks[f+1].value
                             /\ stacks[outer+2].value <= stacks[f+2].value
  <2>1. PICK k \in 2..Len(L) : L[k].kind = "alt" /\ L[k].frame = f
    BY <1>1, ChainHeld
  <2> DEFINE outer == stacks[f].value
  <2>2. /\ f \in 4..unused_stack-2 /\ outer = L[k - 1].frame
        /\ outer = 0 \/ outer \in 1..f-3
        /\ outer = 0 \/ \E j \in 2..k-1 : L[j].kind = "alt" /\ L[j].frame = outer
        /\ stacks[f + 1].value = L[k].pos /\ L[k].pos \in InputBase..pos
        /\ stacks[f + 2].value = L[k].size /\ L[k].size \in 0..Len(log)
    <3> DEFINE q == L[k]
               p == L[k - 1]
    <3>1. /\ q.frame \in 4..unused_stack-2
          /\ stacks[q.frame].value = p.frame
          /\ p.frame = 0 \/ p.frame \in 1..q.frame-3
          /\ p.frame = 0 \/ \E j \in 2..k-1 : L[j].kind = "alt" /\ L[j].frame = p.frame
          /\ stacks[q.frame + 1].value = q.pos /\ q.pos \in InputBase..pos
          /\ stacks[q.frame + 2].value = q.size /\ q.size \in 0..Len(log)
      BY <1>1, <2>1, FrameIs
    <3>2. q.frame = f
      BY <2>1
    <3> HIDE DEF p, q
    <3> QED
      BY <3>1, <3>2 DEF p, q
  <2>3. ASSUME outer # 0
        PROVE  stacks[outer+1].value <= stacks[f+1].value
               /\ stacks[outer+2].value <= stacks[f+2].value
    <3>1. PICK j \in 2..k-1 : L[j].kind = "alt" /\ L[j].frame = outer
      BY <2>2, <2>3
    <3>2. Stacked(S, L, stacks, log) /\ Len(L) \in Nat
      BY <1>1, HeldIs
    <3>3. j \in 2..Len(L) /\ j \in 1..Len(L) /\ k \in 1..Len(L) /\ j < k /\ Sorted(L)
      BY <3>1, <3>2 DEF Stacked
    <3>4. stacks[outer + 1].value = L[j].pos /\ stacks[outer + 2].value = L[j].size
      <4>1. stacks[L[j].frame + 1].value = L[j].pos
        BY <1>1, <3>1, <3>3, FrameIs
      <4>2. stacks[L[j].frame + 2].value = L[j].size
        BY <1>1, <3>1, <3>3, FrameIs
      <4> QED
        BY <3>1, <4>1, <4>2
    <3>5. L[j].pos <= L[k].pos /\ L[j].size <= L[k].size
      BY <3>3, SortedAt
    <3> QED
      BY <2>2, <3>4, <3>5
  <2>4. f + 2 <= unused_stack
    BY <1>2, <2>2
  <2> QED
    BY <2>2, <2>3, <2>4
<1> QED
  BY <1>3, <1>4 DEF FailChain

\* The frames PUSH_FAIL .. STEP_FAIL keep (cnez-runtime.h) are always whole,
\* below the stack top and apart, and none restores a later position or a
\* longer log than an inner one: a failure resumes what it should.
THEOREM FramesWhole ==
  ASSUME NEW S, WellShaped(S)
  PROVE  Spec => []FailChain
<1>1. TypeOK /\ Disciplined(S) => FailChain
  BY ChainOK
<1> QED
  BY <1>1, StackDiscipline, TypeCorrect, PTL
=============================================================================
