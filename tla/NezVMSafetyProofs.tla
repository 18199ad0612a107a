------------------------- MODULE NezVMSafetyProofs --------------------------
(***************************************************************************)
(* What two more hypotheses about the program keep from going wrong,       *)
(* whatever the input.                                                     *)
(*                                                                         *)
(* A program whose pushes and pops pair up and that does not take the Nul  *)
(* after the text takes no step that C leaves undefined until its stack is *)
(* full: it reads no byte past the Nul, no slot below the stack and no     *)
(* offset outside the code.                                                *)
(*                                                                         *)
(* A program that saves no tree in a slot frees no node that it can still  *)
(* reach, and none twice, to the end of the disposal.                      *)
(***************************************************************************)
EXTENDS NezVMProofs

\* The machine and every item it has open are in the text; a DDispatch that
\* took the Nul fails before it reads on.
InReach(S, L) ==
  /\ Held(S, L)
  /\ L[Len(L)].pos <= tail
  /\ pos <= tail \/ (pos = tail + 1 /\ Inst.op = "Fail")

\* No memo entry leads out of the text from the position it is kept for.
MemoInText ==
  \A h \in 0..MemoSize-1 : \A p \in Int, uid \in Nat :
    InputBase <= p /\ uid < 4096 /\ memo[h].key = LongKey(p, uid) =>
      p + memo[h].consumed <= tail

\* What is left to go wrong: a stack without room for a frame, and a freed node.
FullOrFreed == unused_stack + 3 >= StackSize \/ heap.uaf

\* The inductive invariant: what a running machine may come back to is in the text.
TextHeld(S) ==
  /\ status = "run" => Failed \/ \E L : InReach(S, L)
  /\ status = "undefined" => FullOrFreed
  /\ MemoInText
-----------------------------------------------------------------------------
(* The text.                                                               *)

\* The end of the text as a number.
LEMMA TailIs ==
  ASSUME TypeOK
  PROVE  /\ tail \in Int /\ Len(input) \in Nat /\ tail = InputBase + Len(input)
         /\ InputBase \in Nat /\ pos \in Int
<1>1. input \in Seq(Bytes)
  BY InputAssumption DEF TypeOK
<1> QED
  BY <1>1, InputAssumption, LenProperties DEF tail, TypeOK

\* What stands at a position in the text.
LEMMA ByteIs ==
  ASSUME TypeOK, InText(pos)
  PROVE  ByteAt(pos) \in Bytes
<1>1. input \in Seq(Bytes)
  BY InputAssumption DEF TypeOK
<1>2. CASE pos = tail
  BY <1>2 DEF ByteAt, Bytes
<1>3. CASE pos # tail
  <2>1. pos - InputBase + 1 \in 1..Len(input)
    BY <1>3, TailIs DEF InText
  <2> QED
    BY <1>1, <1>3, <2>1, ElementOfSeq DEF ByteAt
<1> QED
  BY <1>2, <1>3

\* What a byte, set or string instruction takes is in the text.
LEMMA HitInText ==
  ASSUME NEW S, TextSafe(S), TypeOK, pc \in DOMAIN S,
         Inst.op \in {"Byte", "Set", "OByte", "OSet", "RByte", "RSet"} \cup StrOps,
         NEW p \in Int, Hit(Inst, p)
  PROVE  p + Width(Inst) <= tail
<1>1. CASE Inst.op \in StrOps
  BY <1>1 DEF Hit, StartsWith, Width
<1>2. CASE Inst.op \notin StrOps
  <2>1. Nul \notin Inst.set
    BY <1>2 DEF TextSafe, Inst
  <2>2. InText(p) /\ ByteAt(p) \in Inst.set /\ Width(Inst) = 1
    BY <1>2 DEF Hit, Width
  <2>3. p # tail
    BY <2>1, <2>2 DEF ByteAt
  <2> QED
    BY <2>2, <2>3, TailIs DEF InText
<1> QED
  BY <1>1, <1>2

\* A repeat instruction takes some text each time.
LEMMA RepeatWidth ==
  ASSUME NEW S, TextSafe(S), pc \in DOMAIN S, pc \in DOMAIN Code, Inst.op \in RepeatOps
  PROVE  Width(Inst) \in Nat \ {0}
<1>1. CASE Inst.op = "RStr"
  <2>1. Inst.str \in Seq(Bytes) /\ Inst.str # <<>>
    BY <1>1, CodeAssumption DEF TextSafe, Inst, InstOK, StrOps
  <2> QED
    BY <1>1, <2>1, EmptySeq, LenProperties DEF Width, StrOps
<1>2. CASE Inst.op # "RStr"
  BY <1>2 DEF Width, StrOps, RepeatOps
<1> QED
  BY <1>1, <1>2

\* So its loop stops, and in the text.
LEMMA RepeatStops ==
  ASSUME NEW S, WellShaped(S), TextSafe(S), TypeOK, NEW L, Held(S, L), pos <= tail,
         Inst.op \in RepeatOps
  PROVE  \E k \in 0..Len(input) : Stops(Inst, k) /\ InText(pos + k * Width(Inst))
<1> DEFINE w == Width(Inst)
           At0(k) == pos + k * w
           T == {k \in Nat : ~Hit(Inst, At0(k))}
<1>1. pc \in DOMAIN S /\ pc \in DOMAIN Code /\ InputBase <= pos
  <2>1. pc \in DOMAIN S /\ L[Len(L)].pos <= pos /\ InputBase <= L[Len(L)].pos
    BY HeldIs
  <2>2. L[Len(L)].pos \in Int /\ pos \in Int /\ InputBase \in Int
    BY HeldIs, TailIs
  <2> QED
    BY <2>1, <2>2 DEF WellShaped
<1>2. w \in Nat \ {0}
  BY <1>1, RepeatWidth
<1>3. /\ tail \in Int /\ Len(input) \in Nat /\ tail = InputBase + Len(input)
      /\ InputBase \in Nat /\ pos \in Int
  BY TailIs
<1>4. ASSUME NEW k \in Nat
      PROVE  At0(k) \in Int /\ At0(k + 1) = At0(k) + w /\ pos + k <= At0(k)
  <2> HIDE DEF w
  <2>1. PICK v \in Nat : w = v + 1
    <3>1. w - 1 \in Nat /\ w = (w - 1) + 1
      BY <1>2
    <3> QED
      BY <3>1
  <2>2. k * v \in Nat /\ k * (v + 1) = k * v + k /\ (k + 1) * w = k * w + w
    BY <1>2, <2>1
  <2> QED
    BY <1>3, <2>1, <2>2
<1>5. ASSUME NEW k \in Nat, Hit(Inst, At0(k))
      PROVE  At0(k + 1) <= tail
  <2>1. Inst.op \in {"RByte", "RSet"} \cup StrOps
    BY DEF RepeatOps, StrOps
  <2>2. At0(k) + Width(Inst) <= tail
    BY <1>1, <1>4, <1>5, <2>1, HitInText
  <2> QED
    BY <1>4, <2>2
<1> HIDE DEF At0, w
<1>6. Len(input) \in T
  <2> SUFFICES ASSUME Hit(Inst, At0(Len(input))) PROVE FALSE
    BY <1>3
  <2> DEFINE n == Len(input)
             a == At0(n)
  <2>1. n \in Nat /\ At0(n + 1) <= tail
    BY <1>3, <1>5
  <2>2. a \in Int /\ At0(n + 1) = a + w /\ pos + n <= a
    BY <1>4, <2>1
  <2>3. tail = InputBase + n
    BY <1>3
  <2> HIDE DEF n, a
  <2>4. pos + n + 1 <= InputBase + n
    BY <1>2, <1>3, <2>1, <2>2, <2>3
  <2> QED
    BY <1>1, <1>3, <2>1, <2>4
<1>7. PICK k \in T : \A y \in T : k <= y
  <2>1. T \subseteq Nat /\ T # {}
    BY <1>6
  <2> HIDE DEF T
  <2> QED
    BY <2>1, LeastNat
<1>8. k \in 0..Len(input)
  BY <1>3, <1>6, <1>7
<1>9. \A j \in 0..k-1 : Hit(Inst, At0(j))
  <2> SUFFICES ASSUME NEW j \in 0..k-1, ~Hit(Inst, At0(j)) PROVE FALSE
    OBVIOUS
  <2>1. j \in T /\ ~(k <= j)
    BY <1>8
  <2> QED
    BY <1>7, <2>1
<1>10. InText(At0(k))
  <2>1. At0(k) \in Int /\ pos + k <= At0(k)
    BY <1>4, <1>8
  <2>2. At0(k) <= tail
    <3>1. CASE k = 0
      BY <1>2, <1>3, <3>1 DEF At0
    <3>2. CASE k # 0
      <4>1. k - 1 \in Nat /\ k - 1 \in 0..k-1 /\ (k - 1) + 1 = k
        BY <1>8, <3>2
      <4>2. At0((k - 1) + 1) <= tail
        BY <1>5, <1>9, <4>1
      <4> QED
        BY <4>1, <4>2
    <3> QED
      BY <3>1, <3>2
  <2> QED
    BY <1>1, <1>3, <1>8, <2>1, <2>2 DEF InText
<1>11. Stops(Inst, k)
  BY <1>7, <1>9 DEF Stops, At0, w
<1> QED
  BY <1>8, <1>10, <1>11 DEF At0, w
-----------------------------------------------------------------------------
(* What a step needs is there, or else the stack is full.                   *)

\* An instruction pushes at most three slots.
LEMMA PushedIs ==
  ASSUME NEW op
  PROVE  Pushed(op) \in 0..3
<1>1. CASE op \in {"Pos", "Call", "TPush"}
  BY <1>1 DEF Pushed
<1>2. CASE op = "Alt"
  BY <1>2 DEF Pushed
<1>3. CASE op \notin {"Pos", "Call", "TPush", "Alt"}
  BY <1>3 DEF Pushed
<1> QED
  BY <1>1, <1>2, <1>3

\* The frame in force has its three slots below the top.
LEMMA FrameInRange ==
  ASSUME NEW S, WellShaped(S), TypeOK, NEW L, Held(S, L)
  PROVE  fail_stack \in 0..StackSize-3
<1>1. /\ Stacked(S, L, stacks, log) /\ Len(L) \in Nat \ {0}
      /\ fail_stack = L[Len(L)].frame /\ unused_stack = L[Len(L)].top
      /\ L[Len(L)].frame \in Nat
  BY HeldIs
<1>2. unused_stack \in -1..StackSize-1 /\ StackSize \in Nat /\ StackSize > 4
  BY StackAssumption DEF TypeOK
<1>3. CASE fail_stack = 0
  BY <1>2, <1>3
<1>4. CASE fail_stack # 0
  <2>1. FramesHeld(L) /\ Sorted(L) /\ Len(L) \in 1..Len(L)
    BY <1>1 DEF Stacked
  <2>2. PICK k \in 2..Len(L) : L[k].kind = "alt" /\ L[k].frame = fail_stack
    BY <1>1, <1>4, <2>1 DEF FramesHeld
  <2>3. k - 1 \in 1..Len(L) /\ k \in 1..Len(L)
    BY <1>1, <2>2
  <2>4. Over(S, stacks, log, L[k - 1], L[k])
    BY <1>1 DEF Stacked
  <2>5. L[k - 1].top \in Nat /\ L[k].top \in Nat /\ L[Len(L)].top \in Nat
    BY <1>1, <2>1, <2>3, ItemsIs
  <2>6. L[k].top = L[k - 1].top + 3 /\ L[k].frame = L[k - 1].top + 1
    BY <2>2, <2>4 DEF Over
  <2>7. L[k].top <= L[Len(L)].top
    <3>1. CASE k = Len(L)
      BY <2>5, <3>1
    <3>2. CASE k < Len(L)
      BY <2>1, <2>3, <3>2, SortedAt
    <3> QED
      BY <1>1, <2>2, <3>1, <3>2
  <2>8. L[k].top <= StackSize - 1
    BY <1>1, <1>2, <2>5, <2>7
  <2>9. fail_stack = L[k - 1].top + 1 /\ fail_stack + 2 <= StackSize - 1
    BY <2>2, <2>5, <2>6, <2>8
  <2> QED
    BY <1>2, <2>5, <2>9
<1> QED
  BY <1>3, <1>4

\* A TEnd finds the OpNew of its node.
LEMMA EndFindsNew ==
  ASSUME NEW S, WellShaped(S), TypeOK, NEW L, Held(S, L), Inst.op = "TEnd"
  PROVE  \E n \in DOMAIN log : LastNew(n)
<1> DEFINE p == L[Len(L) - 1]
           q == L[Len(L)]
<1>1. PICK t \in Seq(Letters) : S[pc] = Append(t, "node")
  BY AtShape DEF PairsAt
<1>2. Len(L) # 1 /\ q.kind = "node"
  BY <1>1, TopOpened DEF Opened
<1>3. /\ q.size \in Nat /\ q.size <= Len(log) /\ Stacked(S, L, stacks, log)
      /\ Len(log) \in Nat /\ log \in Seq(Range(log)) /\ Len(L) \in Nat \ {0}
  BY HeldIs
<1>4. p.size \in Nat /\ Over(S, stacks, log, p, q)
  BY <1>2, BelowTop
<1> HIDE DEF p
<1>5. p.size < q.size /\ log[q.size].op = NewOp
  <2> HIDE DEF q
  <2> QED
    BY <1>2, <1>4 DEF Over
<1>6. q.size \in DOMAIN log
  BY <1>3, <1>4, <1>5, LenProperties
<1>7. ASSUME NEW m \in q.size+1..Len(log), log[m].op = NewOp
      PROVE  FALSE
  <2>1. LogHeld(L, log) /\ Sorted(L) /\ m \in 1..Len(log) /\ Len(L) \in 1..Len(L)
    BY <1>3 DEF Stacked
  <2>2. PICK k \in 2..Len(L) : L[k].kind = "node" /\ L[k].size = m
    BY <1>7, <2>1 DEF LogHeld
  <2>3. CASE k = Len(L)
    BY <1>3, <1>7, <2>2, <2>3
  <2>4. CASE k < Len(L)
    <3>1. k \in 1..Len(L)
      BY <2>2
    <3>2. L[k].size <= L[Len(L)].size
      BY <2>1, <2>4, <3>1, SortedAt
    <3> QED
      BY <1>3, <1>7, <2>2, <3>2
  <2> QED
    BY <1>3, <2>2, <2>3, <2>4
<1> QED
  BY <1>5, <1>6, <1>7 DEF LastNew

\* A step that C leaves undefined finds the stack full or a freed node.
LEMMA DefinedWithin ==
  ASSUME NEW S, WellShaped(S), TextSafe(S), TypeOK, NEW L, InReach(S, L), ~Defined
  PROVE  FullOrFreed
<1> SUFFICES ASSUME unused_stack + 3 < StackSize, ~heap.uaf PROVE FALSE
  BY StackAssumption DEF FullOrFreed, TypeOK
<1>1. Held(S, L) /\ InputBase <= pos /\ unused_stack >= 0
  <2>1. /\ Held(S, L) /\ L[Len(L)].pos <= pos /\ InputBase <= L[Len(L)].pos
        /\ unused_stack = L[Len(L)].top /\ L[Len(L)].top \in Nat
        /\ L[Len(L)].pos \in Int
    BY HeldIs DEF InReach
  <2> QED
    BY <2>1, TailIs
<1>2. pc \in DOMAIN Code /\ pc \in DOMAIN S
  BY <1>1, HeldIs DEF WellShaped
<1>3. unused_stack + Pushed(Inst.op) < StackSize
  BY PushedIs, StackAssumption DEF TypeOK
<1>4. Inst.op \in TextOps => pos <= tail
  BY DEF InReach, TextOps, StrOps, RepeatOps
<1>5. Inst.op \in TextOps => InText(pos)
  BY <1>1, <1>4, TailIs DEF InText
<1>6. Inst.op \in RepeatOps =>
        \E k \in 0..Len(input) : Stops(Inst, k) /\ InText(pos + k * Width(Inst))
  BY <1>1, <1>4, RepeatStops DEF TextOps
<1>7. Inst.op = "Nop" => Inst.prod = 0
  BY <1>2 DEF TextSafe, Inst
<1> QED
  BY <1>1, <1>2, <1>3, <1>5, <1>6, <1>7, FrameInRange, EndFindsNew DEF Defined

\* The Exit that ends a parse without an alternative is defined.
LEMMA DefinedFailed ==
  ASSUME NEW S, WellShaped(S), TypeOK, Failed, ~Defined
  PROVE  heap.uaf
<1>1. pc \in DOMAIN Code /\ Inst.op = "Exit"
  BY DEF WellShaped, Failed, Inst
<1>2. Pushed(Inst.op) = 0
  BY <1>1 DEF Pushed
<1>3. unused_stack + Pushed(Inst.op) < StackSize /\ fail_stack \in 0..StackSize-3
  BY <1>2, StackAssumption DEF Failed
<1> QED
  BY <1>1, <1>3 DEF Defined, PopOps, TextOps, StrOps, RepeatOps
-----------------------------------------------------------------------------
(* Where a step leads.                                                      *)

\* The machine's position is an item's or it failed for good.
LEMMA FailPos ==
  ASSUME NEW S, WellShaped(S), TypeOK, NEW L, InReach(S, L), NEW h, PopFail(h)
  PROVE  Failed' \/ pos' <= tail
<1>1. /\ Stacked(S, L, stacks, log) /\ Len(L) \in Nat \ {0}
      /\ fail_stack = L[Len(L)].frame /\ L[Len(L)].pos \in Int /\ L[Len(L)].pos <= tail
  BY HeldIs DEF InReach
<1>2. /\ unused_stack' = fail_stack - 1
      /\ fail_stack' = stacks[fail_stack].value
      /\ pos' = stacks[fail_stack + 1].value
      /\ pc' = stacks[fail_stack + 1].num
  BY DEF PopFail
<1>3. CASE fail_stack = 0
  <2>1. /\ stacks[0].value = 0 /\ stacks[1].num = 0
        /\ fail_stack + 1 = 1 /\ fail_stack - 1 = -1
    BY <1>1, <1>3 DEF Stacked
  <2> QED
    BY <1>2, <1>3, <2>1 DEF Failed
<1>4. CASE fail_stack # 0
  <2>1. Len(L) \in 1..Len(L) /\ FramesHeld(L) /\ Sorted(L)
    BY <1>1 DEF Stacked
  <2>2. PICK k \in 2..Len(L) : L[k].kind = "alt" /\ L[k].frame = fail_stack
    BY <1>1, <1>4, <2>1 DEF FramesHeld
  <2>3. k \in 1..Len(L) /\ Over(S, stacks, log, L[k - 1], L[k])
    BY <1>1, <2>2 DEF Stacked
  <2>4. pos' = L[k].pos /\ L[k].pos \in Int
    BY <1>1, <1>2, <2>2, <2>3, ItemsIs DEF Over
  <2>5. L[k].pos <= L[Len(L)].pos
    <3>1. CASE k = Len(L)
      BY <1>1, <3>1
    <3>2. CASE k < Len(L)
      BY <2>1, <2>3, <3>2, SortedAt
    <3> QED
      BY <1>1, <2>2, <3>1, <3>2
  <2> QED
    BY <1>1, <2>4, <2>5, TailIs
<1> QED
  BY <1>3, <1>4

\* What every instruction but Fail can count on.
LEMMA InTextNow ==
  ASSUME NEW S, WellShaped(S), TypeOK, NEW L, InReach(S, L), Inst.op # "Fail"
  PROVE  /\ pos <= tail /\ InputBase <= pos /\ pc \in DOMAIN S /\ Held(S, L)
         /\ L[Len(L)].pos <= tail /\ pos \in Int /\ tail \in Int
<1>1. /\ Held(S, L) /\ L[Len(L)].pos <= pos /\ InputBase <= L[Len(L)].pos
      /\ L[Len(L)].pos \in Int /\ pc \in DOMAIN S
  BY HeldIs DEF InReach
<1> QED
  BY <1>1, TailIs DEF InReach

\* Control instructions stay in the text, or the run has failed.
LEMMA ControlPos ==
  ASSUME NEW S, WellShaped(S), TypeOK, NEW L, InReach(S, L), Control, status' = "run"
  PROVE  Failed' \/ pos' <= tail
<1>1. CASE \E h : PopFail(h)
  BY <1>1, FailPos
<1>2. CASE pos' = pos /\ Inst.op # "Fail"
  BY <1>2, InTextNow
<1>3. CASE Back
  <2> DEFINE q == L[Len(L)]
  <2>1. Inst.op = "Back" /\ pos' = stacks[unused_stack].value
    BY <1>3 DEF Back, At
  <2>2. Held(S, L) /\ q.pos <= tail
    BY <2>1, InTextNow
  <2>3. PICK t \in Seq(Letters) : S[pc] = Append(t, "pos")
    BY <2>1, <2>2, AtShape DEF PairsAt
  <2>4. Len(L) # 1 /\ q.kind = "pos" /\ unused_stack = q.top
    BY <2>2, <2>3, TopOpened, HeldIs DEF Opened
  <2>5. Over(S, stacks, log, L[Len(L) - 1], q)
    BY <2>2, <2>4, BelowTop
  <2> HIDE DEF q
  <2>6. stacks[q.top].value = q.pos
    BY <2>4, <2>5 DEF Over
  <2> QED
    BY <2>1, <2>2, <2>4, <2>6
<1>4. ~Exit /\ ~Unimplemented
  BY DEF Exit, Unimplemented
<1>5. CASE Fail \/ Step
  BY <1>1, <1>2, <1>5 DEF Fail, Step, At
<1>6. CASE Nop \/ Pos \/ Jump \/ Call \/ Ret \/ Alt \/ Succ
  BY <1>2, <1>6 DEF Nop, Pos, Jump, Call, Ret, Alt, Succ, At
<1> QED
  BY <1>3, <1>4, <1>5, <1>6 DEF Control

\* So do the scanning instructions other than Dispatch.
LEMMA ScanPos ==
  ASSUME NEW S, WellShaped(S), TextSafe(S), TypeOK, NEW L, InReach(S, L), Scan, ~Dispatch
  PROVE  Failed' \/ pos' <= tail
<1>1. CASE \E h : PopFail(h)
  BY <1>1, FailPos
<1>2. Inst.op # "Fail"
  BY DEF Scan, Consume, AnyByte, NotMatch, NAny, Optional, Repeat, Dispatch, At, RepeatOps
<1>3. pos <= tail /\ pos \in Int /\ tail \in Int /\ pc \in DOMAIN S
  BY <1>2, InTextNow
<1>4. CASE pos' = pos
  BY <1>3, <1>4
<1>5. CASE Consume \/ Optional
  <2>1. Inst.op \in {"Byte", "Set", "OByte", "OSet", "RByte", "RSet"} \cup StrOps
    BY <1>5 DEF Consume, Optional, At, StrOps
  <2>2. CASE Hit(Inst, pos) /\ pos' = pos + Width(Inst)
    BY <1>3, <2>1, <2>2, HitInText
  <2> QED
    BY <1>1, <1>4, <1>5, <2>2 DEF Consume, Optional
<1>6. CASE AnyByte
  BY <1>1, <1>3, <1>6 DEF AnyByte
<1>7. CASE NotMatch \/ NAny
  BY <1>1, <1>4, <1>7 DEF NotMatch, NAny
<1>8. CASE Repeat
  <2> DEFINE w == Width(Inst)
  <2>1. Inst.op \in RepeatOps /\ pc \in DOMAIN Code
    BY <1>8 DEF Repeat, At, Defined
  <2>2. PICK k \in 0..Len(input) : Stops(Inst, k) /\ pos' = pos + k * w
    BY <1>8 DEF Repeat
  <2>3. CASE k = 0
    <3>1. pos' = pos + 0 * w /\ 0 * w = 0
      BY <1>3, <2>1, <2>2, <2>3, RepeatWidth
    <3> QED
      BY <1>3, <3>1
  <2>4. CASE k # 0
    <3>1. k - 1 \in 0..k-1 /\ k \in Nat /\ k - 1 \in Nat
      BY <2>2, <2>4, TailIs
    <3>2. Hit(Inst, pos + (k - 1) * w)
      BY <2>2, <3>1 DEF Stops
    <3>3. w \in Nat
      BY <1>3, <2>1, RepeatWidth
    <3>4. pos + (k - 1) * w \in Int /\ (k - 1) * w + w = k * w /\ (k - 1) * w \in Int
      <4> HIDE DEF w
      <4> QED
        BY <1>3, <3>1, <3>3
    <3>5. pos + (k - 1) * w + w <= tail
      BY <1>3, <2>1, <3>2, <3>4, HitInText DEF RepeatOps, StrOps
    <3> HIDE DEF w
    <3> QED
      BY <1>3, <2>2, <3>1, <3>3, <3>4, <3>5
  <2> QED
    BY <2>3, <2>4
<1> QED
  BY <1>5, <1>6, <1>7, <1>8 DEF Scan

\* What is stored leads to the position of now, which is in the text.
LEMMA StoreInText ==
  ASSUME TypeOK, MemoInText, NEW p \in Int, NEW uid \in Nat, uid < 4096, NEW res,
         Store(uid, p, res), pos <= tail, input' = input
  PROVE  MemoInText'
<1> DEFINE h == Hash(LongKey(p, uid))
           e == [key |-> LongKey(p, uid), consumed |-> pos - p, tree |-> left,
                 result |-> res]
<1>1. memo' = [memo EXCEPT ![h] = e] /\ DOMAIN memo = 0..MemoSize-1
  BY DEF Store, TypeOK
<1>2. e.key = LongKey(p, uid) /\ e.consumed = pos - p
  OBVIOUS
<1> HIDE DEF e, h
<1>3. \A x \in 0..MemoSize-1 : memo'[x] = IF x = h THEN e ELSE memo[x]
  BY <1>1
<1>4. ASSUME NEW x \in 0..MemoSize-1, NEW p1 \in Int, NEW u1 \in Nat,
             InputBase <= p1, u1 < 4096, memo'[x].key = LongKey(p1, u1)
      PROVE  p1 + memo'[x].consumed <= tail
  <2>1. CASE x = h
    <3>1. LongKey(p, uid) = LongKey(p1, u1)
      BY <1>2, <1>3, <1>4, <2>1
    <3>2. p = p1
      BY <1>4, <3>1, KeysDistinct
    <3>3. memo'[x].consumed = pos - p
      BY <1>2, <1>3, <2>1
    <3> QED
      BY <3>2, <3>3, TailIs
  <2>2. CASE x # h
    BY <1>3, <1>4, <2>2 DEF MemoInText
  <2> QED
    BY <2>1, <2>2
<1>5. tail' = tail
  BY DEF tail
<1>6. \A x \in 0..MemoSize-1 : \A p1 \in Int, u1 \in Nat :
        InputBase <= p1 /\ u1 < 4096 /\ memo'[x].key = LongKey(p1, u1) =>
          p1 + memo'[x].consumed <= tail'
  BY <1>4, <1>5
<1> QED
  BY <1>6 DEF MemoInText, LongKey

\* And the memo instructions, whose entries stay in the text.
LEMMA MemoizePos ==
  ASSUME NEW S, WellShaped(S), TypeOK, NEW L, InReach(S, L), Memoize, MemoInText
  PROVE  (Failed' \/ pos' <= tail) /\ MemoInText'
<1>1. /\ Defined /\ Inst.uid \in Nat /\ Inst.uid < 4096 /\ input' = input
      /\ Inst.op \in {"Lookup", "TLookup", "Memo", "TMemo", "MemoFail"}
  BY InstTyped DEF Memoize, Lookup, TLookup, Memo, MemoFail, At, InstOK
<1>2. /\ pos <= tail /\ InputBase <= pos /\ pos \in Int /\ tail \in Int
      /\ pc \in DOMAIN S /\ Held(S, L)
  BY <1>1, InTextNow
<1>3. CASE Lookup \/ TLookup
  <2> DEFINE h == Hash(LongKey(pos, Inst.uid))
  <2>1. memo' = memo
    BY <1>3 DEF Lookup, TLookup
  <2>2. MemoInText'
    <3>1. tail' = tail
      BY <1>1 DEF tail
    <3> QED
      BY <2>1, <3>1 DEF MemoInText, LongKey
  <2>3. CASE \E g : PopFail(g)
    BY <2>2, <2>3, FailPos
  <2>4. CASE pos' = pos
    BY <1>2, <2>2, <2>4
  <2>5. CASE Found(Inst.uid) /\ pos' = pos + Entry(Inst.uid).consumed
    <3>0. h \in 0..MemoSize-1
      <4>1. MemoSize \in Nat \ {0} /\ LongKey(pos, Inst.uid) \in Int
        BY <1>1, <1>2, MemoAssumption, InputAssumption DEF MemoSize, LongKey
      <4> QED
        BY <4>1 DEF Hash
    <3>1. h \in 0..MemoSize-1 /\ memo[h].key = LongKey(pos, Inst.uid)
      BY <2>5, <3>0 DEF Found, Entry
    <3> HIDE DEF h
    <3>2. pos + memo[h].consumed <= tail
      BY <1>1, <1>2, <3>1 DEF MemoInText
    <3> QED
      BY <2>2, <2>5, <3>2 DEF Entry, h
  <2> QED
    BY <1>3, <2>3, <2>4, <2>5 DEF Lookup, TLookup
<1>4. CASE Memo
  <2> DEFINE ppos == stacks[fail_stack + 1].value
  <2>1. /\ Inst.op \in {"Memo", "TMemo"} /\ Store(Inst.uid, ppos, SuccFound) /\ pos' = pos
    BY <1>4 DEF Memo, At
  <2>2. Inst.next \in DOMAIN S /\ S[pc] = Append(S[Inst.next], "alt")
    BY <1>2, <2>1, AtShape DEF PairsAt
  <2>3. ppos \in Int
    <3>1. S[Inst.next] \in Seq(Letters)
      BY <1>2, <2>2, AtShape
    <3> QED
      BY <1>2, <2>2, <3>1, TopAlt
  <2> HIDE DEF ppos
  <2> QED
    BY <1>1, <1>2, <2>1, <2>3, StoreInText
<1>5. CASE MemoFail
  <2>1. Store(Inst.uid, pos, FailFound) /\ \E h : PopFail(h)
    BY <1>5 DEF MemoFail
  <2> QED
    BY <1>1, <1>2, <2>1, FailPos, StoreInText
<1> QED
  BY <1>3, <1>4, <1>5 DEF Memoize

\* A step that ends in the text keeps the items there.
LEMMA Landing ==
  ASSUME NEW S, TypeOK, TypeOK', input' = input,
         Failed' \/ \E M : Held(S, M)', Failed' \/ pos' <= tail
  PROVE  Failed' \/ \E M : InReach(S, M)'
<1> SUFFICES ASSUME ~Failed' PROVE \E M : InReach(S, M)'
  OBVIOUS
<1>1. PICK M : Held(S, M)'
  OBVIOUS
<1>2. Stacked(S, M, stacks', log') /\ AtTop(S, M[Len(M)])'
  BY <1>1 DEF Held
<1>3. Len(M) \in Nat \ {0}
  BY <1>2, ItemsIs
<1>4. M[Len(M)].pos \in Int /\ M[Len(M)].pos <= pos'
  BY <1>2, <1>3, ItemsIs DEF AtTop
<1>5. tail' = tail /\ tail \in Int /\ pos' \in Int
  BY TailIs DEF tail, TypeOK
<1> QED
  BY <1>1, <1>4, <1>5 DEF InReach

\* A dispatch on the Nul either stays or goes where it fails.
LEMMA DispatchLands ==
  ASSUME NEW S, WellShaped(S), TextSafe(S), TypeOK, TypeOK', NEW L, InReach(S, L), Dispatch
  PROVE  \E M : InReach(S, M)'
<1>1. /\ Inst.op \in {"Dispatch", "DDispatch"} /\ InText(pos) /\ input' = input
      /\ pc' = Inst.next + Inst.table[ByteAt(pos)]
      /\ pos' = IF Inst.op = "DDispatch" THEN pos + 1 ELSE pos
      /\ UNCHANGED <<stacks, unused_stack, fail_stack, log>>
  BY DEF Dispatch, At, Defined, TextOps, frames, tree
<1>2. /\ pos <= tail /\ pc \in DOMAIN S /\ Held(S, L) /\ L[Len(L)].pos <= tail
      /\ pos \in Int /\ tail \in Int /\ L[Len(L)].pos \in Int /\ L[Len(L)].pos <= pos
  BY <1>1, InTextNow, HeldIs
<1>3. ByteAt(pos) \in Bytes
  BY <1>1, ByteIs
<1>4. pc' \in DOMAIN S /\ S[pc'] = S[pc]
  BY <1>1, <1>2, <1>3, AtShape DEF PairsAt
<1>5. Held(S, L)'
  <2>1. Stacked(S, L, stacks', log') /\ AtTop(S, L[Len(L)])
    BY <1>1, <1>2 DEF Held
  <2>2. L[Len(L)].pos <= pos'
    BY <1>1, <1>2
  <2>3. AtTop(S, L[Len(L)])'
    BY <1>1, <1>2, <1>4, <2>1, <2>2 DEF AtTop
  <2> QED
    BY <2>1, <2>3 DEF Held
<1>6. tail' = tail
  BY <1>1 DEF tail
<1>7. CASE pos' <= tail
  BY <1>2, <1>5, <1>6, <1>7 DEF InReach
<1>8. CASE ~(pos' <= tail)
  <2>1. Inst.op = "DDispatch" /\ pos = tail /\ pos' = tail + 1
    BY <1>1, <1>2, <1>8
  <2>2. ByteAt(pos) = Nul
    BY <2>1 DEF ByteAt
  <2>3. Code[pc'].op = "Fail"
    BY <1>1, <1>2, <2>1, <2>2 DEF TextSafe, Inst
  <2> QED
    BY <1>2, <1>5, <1>6, <2>1, <2>3 DEF InReach, Inst
<1> QED
  BY <1>7, <1>8
-----------------------------------------------------------------------------
(* The machine stays in reach.                                              *)

\* The run starts in the text.
LEMMA TextInit ==
  ASSUME NEW S, WellShaped(S), Init
  PROVE  TextHeld(S)
<1>1. PICK L : Held(S, L)
  BY InitHeld
<1>2. TypeOK /\ pos = InputBase /\ status = "run"
  BY InitOK DEF Init
<1>3. L[Len(L)].pos \in Int /\ L[Len(L)].pos <= pos
  BY <1>1, <1>2, HeldIs
<1>4. pos <= tail
  BY <1>2, TailIs
<1>5. InReach(S, L)
  BY <1>1, <1>2, <1>3, <1>4, TailIs DEF InReach
<1>6. MemoInText
  <2> SUFFICES ASSUME NEW h \in 0..MemoSize-1, NEW p \in Int, NEW uid \in Nat,
                      InputBase <= p, memo[h].key = LongKey(p, uid)
               PROVE  FALSE
    BY DEF MemoInText
  <2>1. memo[h].key = -1
    BY DEF Init, EmptyEntry
  <2>2. p - InputBase \in Nat
    BY InputAssumption
  <2> QED
    BY <2>1, <2>2 DEF LongKey
<1> QED
  BY <1>2, <1>5, <1>6 DEF TextHeld

\* The handlers, one family at a time.
LEMMA StepLands ==
  ASSUME NEW S, WellShaped(S), TextSafe(S), TypeOK, TypeOK', MemoForward, MemoInText,
         NEW L, InReach(S, L), Control \/ Scan \/ Build \/ Memoize,
         status' = "run", input' = input
  PROVE  (Failed' \/ \E M : InReach(S, M)') /\ MemoInText'
<1>0. Held(S, L)
  BY DEF InReach
<1>1. tail' = tail
  BY DEF tail
<1>2. memo' = memo => MemoInText'
  BY <1>1 DEF MemoInText, LongKey
<1>3. CASE Control
  <2>1. memo' = memo
    BY <1>3 DEF Control, Nop, Exit, Unimplemented, Pos, Back, Jump, Call, Ret, Alt,
         Succ, Fail, Step
  <2>2. Failed' \/ pos' <= tail
    BY <1>3, ControlPos
  <2>3. Failed' \/ \E M : Held(S, M)'
    BY <1>0, <1>3, ControlHeld
  <2> QED
    BY <1>2, <2>1, <2>2, <2>3, Landing
<1>4. CASE Scan
  <2>1. memo' = memo
    BY <1>4 DEF Scan, Consume, AnyByte, NotMatch, NAny, Optional, Repeat, Dispatch
  <2>2. CASE ~Dispatch
    <3>1. Failed' \/ pos' <= tail
      BY <1>4, <2>2, ScanPos
    <3>2. Failed' \/ \E M : Held(S, M)'
      BY <1>0, <1>4, ScanHeld
    <3> QED
      BY <1>2, <2>1, <3>1, <3>2, Landing
  <2>3. CASE Dispatch
    BY <1>2, <2>1, <2>3, DispatchLands
  <2> QED
    BY <2>2, <2>3
<1>5. CASE Build
  <2>1. memo' = memo /\ pos' = pos /\ Inst.op # "Fail"
    BY <1>5 DEF Build, TPush, TPop, TBegin, TEnd, TTag, TReplace, TLink, TFold, At
  <2>2. pos' <= tail
    BY <2>1, InTextNow
  <2>3. \E M : Held(S, M)'
    BY <1>0, <1>5, BuildHeld
  <2> QED
    BY <1>2, <2>1, <2>2, <2>3, Landing
<1>6. CASE Memoize
  <2>1. (Failed' \/ pos' <= tail) /\ MemoInText'
    BY <1>6, MemoizePos
  <2>2. Failed' \/ \E M : Held(S, M)'
    BY <1>0, <1>6, MemoizeHeld
  <2> QED
    BY <2>1, <2>2, Landing
<1> QED
  BY <1>3, <1>4, <1>5, <1>6

\* Every step stays in the text.
LEMMA TextNext ==
  ASSUME NEW S, WellShaped(S), TextSafe(S), TypeOK, TypeOK', Disciplined(S), TextHeld(S),
         [Next]_vars
  PROVE  TextHeld(S)'
<1>1. MemoForward /\ MemoInText
  BY DEF Disciplined, TextHeld
<1>2. CASE UNCHANGED vars \/ Done
  BY <1>2 DEF Done, vars, TextHeld, Failed, InReach, Held, AtTop, Inst, tail, FullOrFreed,
              MemoInText, LongKey
<1>3. CASE Dispose
  <2>1. status' = "disposed" /\ memo' = [h \in DOMAIN memo |-> EmptyEntry]
    BY <1>3 DEF Dispose
  <2>2. MemoInText'
    <3> SUFFICES ASSUME NEW h \in 0..MemoSize-1, NEW p \in Int, NEW uid \in Nat,
                        InputBase <= p, memo'[h].key = LongKey(p, uid)
                 PROVE  FALSE
      BY DEF MemoInText, LongKey
    <3>1. memo'[h].key = -1
      BY <2>1 DEF TypeOK, EmptyEntry
    <3>2. p - InputBase \in Nat
      BY InputAssumption
    <3> QED
      BY <3>1, <3>2 DEF LongKey
  <2> QED
    BY <2>1, <2>2 DEF TextHeld
<1>4. CASE Undefined \/ Unimplemented \/ Exit
  <2>1. /\ status = "run" /\ status' \in {"undefined", "aborted", "exit"}
        /\ UNCHANGED <<memo, input, unused_stack, heap>>
    BY <1>4 DEF Undefined, Unimplemented, Exit, frames, tree
  <2>2. MemoInText'
    BY <1>1, <2>1 DEF MemoInText, LongKey, tail
  <2>3. status' = "undefined" => FullOrFreed
    <3>1. status' = "undefined" => ~Defined
      BY <1>4 DEF Undefined, Unimplemented, Exit
    <3>2. Failed \/ \E L : InReach(S, L)
      BY <2>1 DEF TextHeld
    <3> QED
      BY <3>1, <3>2, DefinedWithin, DefinedFailed DEF FullOrFreed
  <2> QED
    BY <2>1, <2>2, <2>3 DEF TextHeld, FullOrFreed
<1>5. CASE /\ status = "run" /\ status' = "run" /\ Defined /\ Inst.op # "Exit"
           /\ input' = input
           /\ Control \/ Scan \/ Build \/ Memoize
  <2>1. PICK L : InReach(S, L)
    BY <1>5, FailedExits DEF TextHeld
  <2>2. (Failed' \/ \E M : InReach(S, M)') /\ MemoInText'
    BY <1>1, <1>5, <2>1, StepLands
  <2> QED
    BY <1>5, <2>2 DEF TextHeld
<1>6. CASE (Control \/ Scan \/ Build \/ Memoize) /\ ~Exit /\ ~Unimplemented
  <2>1. /\ status = "run" /\ status' = status /\ input' = input /\ Defined
        /\ Inst.op # "Exit"
    BY <1>6 DEF Control, Nop, Pos, Back, Jump, Call, Ret, Alt,
         Succ, Fail, Step, Scan, Consume, AnyByte, NotMatch, NAny, Optional, Repeat,
         Dispatch, Build, TPush, TPop, TBegin, TEnd, TTag, TReplace, TLink, TFold,
         Memoize, Lookup, TLookup, Memo, MemoFail, At, RepeatOps
  <2> QED
    BY <1>5, <1>6, <2>1
<1> QED
  BY <1>2, <1>3, <1>4, <1>6 DEF Next

\* The interpreter loop (mininez_parse of nezvm.c) never leaves what C defines
\* on a program of paired pushes and pops that respects the text's Nul: it reads
\* no byte past the Nul, pops no slot that is not there, ends every repetition,
\* finds the OpNew of every TEnd and stays in the code.  Only a stack too full
\* for another frame, or a node freed too early, can still go wrong.
THEOREM DefinedUntilFull ==
  ASSUME NEW S, WellShaped(S), TextSafe(S)
  PROVE  Spec => [](status = "undefined" => FullOrFreed)
<1>1. Init => TextHeld(S)
  BY TextInit
<1>2. /\ TypeOK /\ TypeOK' /\ Disciplined(S) /\ TextHeld(S) /\ [Next]_vars
      => TextHeld(S)'
  BY TextNext
<1>3. TextHeld(S) => (status = "undefined" => FullOrFreed)
  BY DEF TextHeld
<1>4. Spec => []TypeOK
  BY TypeCorrect
<1>5. Spec => []Disciplined(S)
  BY StackDiscipline
<1> QED
  BY <1>1, <1>2, <1>3, <1>4, <1>5, PTL DEF Spec
-----------------------------------------------------------------------------
(* The life of trees.  A machine whose program saves no tree has NULL in   *)
(* every slot, so that the references it holds are left, the log's links   *)
(* and the memo's trees, and each of them is counted.                      *)

LinksOf(lg) == [i \in DOMAIN lg |-> IF lg[i].op = LinkOp THEN lg[i].tree ELSE NULL]
TreesOf(mm) == [x \in DOMAIN mm |-> mm[x].tree]

\* The references that left, a log and a memo hold.
Refs(k, l, lg, mm) ==
  [n \in 1..k |-> One(l, n) + Times(LinksOf(lg), n) + Times(TreesOf(mm), n)]

\* They are counted in a heap of k nodes.
Kept(h, k, l, lg, mm) ==
  /\ k \in Nat /\ lg \in Seq(Range(lg)) /\ IsFiniteSet(DOMAIN mm)
  /\ Covered(h, k, Refs(k, l, lg, mm))

\* The references as numbers.
LEMMA RefsIs ==
  ASSUME NEW k \in Nat, NEW l, NEW lg, lg \in Seq(Range(lg)), NEW mm, IsFiniteSet(DOMAIN mm)
  PROVE  /\ Refs(k, l, lg, mm) \in [1..k -> Nat]
         /\ \A n \in 1..k : Refs(k, l, lg, mm)[n]
              = One(l, n) + Times(LinksOf(lg), n) + Times(TreesOf(mm), n)
         /\ \A n : /\ One(l, n) \in Nat /\ Times(LinksOf(lg), n) \in Nat
                   /\ Times(TreesOf(mm), n) \in Nat
         /\ IsFiniteSet(DOMAIN LinksOf(lg)) /\ IsFiniteSet(DOMAIN TreesOf(mm))
<1>1. Len(lg) \in Nat /\ DOMAIN lg = 1..Len(lg)
  BY LenProperties
<1>2. DOMAIN LinksOf(lg) = 1..Len(lg) /\ DOMAIN TreesOf(mm) = DOMAIN mm
  BY <1>1 DEF LinksOf, TreesOf
<1>3. IsFiniteSet(DOMAIN LinksOf(lg)) /\ IsFiniteSet(DOMAIN TreesOf(mm))
  BY <1>1, <1>2, FS_Interval
<1>4. \A n : /\ One(l, n) \in Nat /\ Times(LinksOf(lg), n) \in Nat
             /\ Times(TreesOf(mm), n) \in Nat
  BY <1>3, TimesIs DEF One
<1>5. \A n : One(l, n) + Times(LinksOf(lg), n) + Times(TreesOf(mm), n) \in Nat
  BY <1>4
<1> QED
  BY <1>3, <1>4, <1>5 DEF Refs

\* The number of references to one node.
LEMMA RefsAt ==
  ASSUME NEW k \in Nat, NEW l, NEW lg, lg \in Seq(Range(lg)), NEW mm, IsFiniteSet(DOMAIN mm),
         NEW P, P = Refs(k, l, lg, mm), NEW n \in 1..k
  PROVE  /\ P[n] = One(l, n) + Times(LinksOf(lg), n) + Times(TreesOf(mm), n)
         /\ One(l, n) \in Nat /\ Times(LinksOf(lg), n) \in Nat /\ Times(TreesOf(mm), n) \in Nat
<1>1. \A i \in 1..k : Refs(k, l, lg, mm)[i]
        = One(l, i) + Times(LinksOf(lg), i) + Times(TreesOf(mm), i)
  BY DEF Refs
<1>2. \A i : One(l, i) \in Nat /\ Times(LinksOf(lg), i) \in Nat /\ Times(TreesOf(mm), i) \in Nat
  BY RefsIs
<1> QED
  BY <1>1, <1>2

\* What left, the log and the memo hold is in use.
LEMMA KeptInUse ==
  ASSUME NEW h, NEW k, NEW l, NEW lg, NEW mm, Kept(h, k, l, lg, mm)
  PROVE  /\ ~h.uaf /\ h.freed \subseteq 1..k
         /\ l \notin h.freed
         /\ \A i \in DOMAIN lg : lg[i].op = LinkOp => lg[i].tree \notin h.freed
         /\ \A x \in DOMAIN mm : mm[x].tree \notin h.freed
<1> DEFINE P == Refs(k, l, lg, mm)
<1>1. Covered(h, k, P) /\ k \in Nat
  BY DEF Kept
<1>2. \A n \in 1..k : P[n] = One(l, n) + Times(LinksOf(lg), n) + Times(TreesOf(mm), n)
  BY RefsIs DEF Kept
<1>3. /\ \A n : /\ One(l, n) \in Nat /\ Times(LinksOf(lg), n) \in Nat
                /\ Times(TreesOf(mm), n) \in Nat
      /\ IsFiniteSet(DOMAIN LinksOf(lg)) /\ IsFiniteSet(DOMAIN TreesOf(mm))
  BY RefsIs DEF Kept
<1> HIDE DEF P
<1>4. /\ ~h.uaf /\ h.freed \subseteq 1..k
      /\ \A n \in 1..k : P[n] > 0 => n \notin h.freed
  BY <1>1, CoveredIs DEF Sound, HeapOK
<1>5. ASSUME NEW n \in h.freed
      PROVE  One(l, n) = 0 /\ Times(LinksOf(lg), n) = 0 /\ Times(TreesOf(mm), n) = 0
  <2>1. n \in 1..k /\ ~(P[n] > 0)
    BY <1>4
  <2>2. /\ One(l, n) \in Nat /\ Times(LinksOf(lg), n) \in Nat
        /\ Times(TreesOf(mm), n) \in Nat
        /\ P[n] = One(l, n) + Times(LinksOf(lg), n) + Times(TreesOf(mm), n)
    BY <1>2, <1>3, <2>1
  <2> QED
    BY <2>1, <2>2
<1>6. l \notin h.freed
  BY <1>5 DEF One
<1>7. ASSUME NEW i \in DOMAIN lg, lg[i].op = LinkOp, lg[i].tree \in h.freed
      PROVE  FALSE
  <2>1. Times(LinksOf(lg), lg[i].tree) = 0
    BY <1>5, <1>7
  <2>2. \A j \in DOMAIN LinksOf(lg) : LinksOf(lg)[j] # lg[i].tree
    BY <1>3, <2>1, TimesIs
  <2>3. i \in DOMAIN LinksOf(lg) /\ LinksOf(lg)[i] = lg[i].tree
    BY <1>7 DEF LinksOf
  <2> QED
    BY <2>2, <2>3
<1>8. ASSUME NEW x \in DOMAIN mm, mm[x].tree \in h.freed
      PROVE  FALSE
  <2>1. Times(TreesOf(mm), mm[x].tree) = 0
    BY <1>5, <1>8
  <2>2. \A j \in DOMAIN TreesOf(mm) : TreesOf(mm)[j] # mm[x].tree
    BY <1>3, <2>1, TimesIs
  <2>3. x \in DOMAIN TreesOf(mm) /\ TreesOf(mm)[x] = mm[x].tree
    BY DEF TreesOf
  <2> QED
    BY <2>2, <2>3
<1> QED
  BY <1>4, <1>6, <1>7, <1>8

\* left overwritten by NULL: the tree it held stays counted.
LEMMA KeptForget ==
  ASSUME NEW h, NEW k, NEW l, NEW lg, NEW mm, Kept(h, k, l, lg, mm)
  PROVE  Kept(h, k, NULL, lg, mm)
<1> DEFINE P == Refs(k, l, lg, mm)
           Q == Refs(k, NULL, lg, mm)
<1>1. k \in Nat /\ lg \in Seq(Range(lg)) /\ IsFiniteSet(DOMAIN mm) /\ Covered(h, k, P)
  BY DEF Kept
<1>2. Q \in [1..k -> Nat]
  BY <1>1, RefsIs
<1>3. ASSUME NEW n \in 1..k
      PROVE  Q[n] <= P[n]
  <2>1. P[n] = One(l, n) + Times(LinksOf(lg), n) + Times(TreesOf(mm), n)
    BY <1>1, RefsAt
  <2>2. Q[n] = One(NULL, n) + Times(LinksOf(lg), n) + Times(TreesOf(mm), n)
    BY <1>1, RefsAt
  <2>3. One(NULL, n) = 0
    BY DEF One, NULL
  <2>4. One(l, n) \in Nat /\ Times(LinksOf(lg), n) \in Nat /\ Times(TreesOf(mm), n) \in Nat
    BY <1>1, RefsIs
  <2> HIDE DEF P, Q
  <2> QED
    BY <2>1, <2>2, <2>3, <2>4
<1> HIDE DEF P, Q
<1>4. Covered(h, k, Q)
  BY <1>1, <1>2, <1>3, CoveredLess
<1> QED
  BY <1>1, <1>4 DEF Kept, Q

\* NULL counted and dropped.
LEMMA KeptSame ==
  ASSUME NEW h, NEW k, NEW l, NEW lg, NEW mm, Kept(h, k, l, lg, mm)
  PROVE  Kept(GcSet(h, NULL, NULL), k, l, lg, mm)
<1> DEFINE P == Refs(k, l, lg, mm)
<1>1. k \in Nat /\ Covered(h, k, P) /\ P \in [1..k -> Nat]
  BY RefsIs DEF Kept
<1>2. NULL \notin h.freed
  <2>1. h.freed \subseteq 1..k
    BY KeptInUse
  <2> QED
    BY <1>1, <2>1 DEF NULL
<1> HIDE DEF P
<1>3. \A n \in 1..k : P[n] + One(NULL, n) <= P[n] + One(NULL, n)
  BY <1>1 DEF One
<1>4. Covered(GcSet(h, NULL, NULL), k, P)
  BY <1>1, <1>2, <1>3, SetCovered
<1> QED
  BY <1>4 DEF Kept, P

\* A new entry of the log.
LEMMA LinksAppend ==
  ASSUME NEW lg, lg \in Seq(Range(lg)), NEW e, NEW v,
         v = IF e.op = LinkOp THEN e.tree ELSE NULL
  PROVE  /\ Append(lg, e) \in Seq(Range(Append(lg, e)))
         /\ \A n : Times(LinksOf(Append(lg, e)), n) = Times(LinksOf(lg), n) + One(v, n)
<1> DEFINE lg2 == Append(lg, e)
           X == Range(lg) \cup {e}
           m == Len(lg)
           f == LinksOf(lg2)
<1>1. lg \in Seq(X) /\ e \in X
  BY SeqMonotonic
<1>2. /\ lg2 \in Seq(X) /\ Len(lg2) = m + 1 /\ m \in Nat /\ DOMAIN lg = 1..m
      /\ \A i \in 1..m : lg2[i] = lg[i]
      /\ lg2[m + 1] = e
  <2> HIDE DEF X
  <2> QED
    BY <1>1, AppendProperties, LenProperties
<1> HIDE DEF X, lg2, m
<1>3. lg2 \in Seq(Range(lg2)) /\ DOMAIN lg2 = 1..m+1
  BY <1>2, SeqOfRange, LenProperties
<1>4. /\ DOMAIN f = 1..m+1 /\ f[m + 1] = v
      /\ \A i \in 1..m : f[i] = LinksOf(lg)[i]
  BY <1>2, <1>3 DEF LinksOf
<1>5. IsFiniteSet(DOMAIN f)
  <2> HIDE DEF f
  <2>1. IsFiniteSet(1..m+1)
    BY <1>2, FS_Interval
  <2> QED
    BY <1>4, <2>1
<1> DEFINE b == [i \in {m + 1} |-> v]
<1>6. DOMAIN LinksOf(lg) = 1..m
  BY <1>2 DEF LinksOf
<1>7. Parts(f, LinksOf(lg), b)
  <2> HIDE DEF f
  <2>1. DOMAIN b = {m + 1} /\ b[m + 1] = v
    OBVIOUS
  <2>2. 1..m+1 = (1..m) \cup {m + 1} /\ (1..m) \cap {m + 1} = {}
    BY <1>2
  <2> HIDE DEF b
  <2> QED
    BY <1>4, <1>6, <2>1, <2>2 DEF Parts
<1>8. ASSUME NEW n
      PROVE  Times(b, n) = One(v, n)
  <2>1. CASE v = n
    <3>1. {i \in DOMAIN b : b[i] = n} = {m + 1}
      BY <2>1
    <3> QED
      BY <2>1, <3>1, FS_Singleton DEF Times, One
  <2>2. CASE v # n
    <3>1. {i \in DOMAIN b : b[i] = n} = {}
      BY <2>2
    <3> QED
      BY <2>2, <3>1, FS_EmptySet DEF Times, One
  <2> QED
    BY <2>1, <2>2
<1> HIDE DEF f, b
<1>9. ASSUME NEW n
      PROVE  Times(f, n) = Times(LinksOf(lg), n) + One(v, n)
  <2>1. Times(f, n) = Times(LinksOf(lg), n) + Times(b, n)
    BY <1>5, <1>7, TimesSplit
  <2> QED
    BY <1>8, <2>1
<1> QED
  BY <1>3, <1>9 DEF f, lg2

\* An entry that links nothing.
LEMMA KeptAppend ==
  ASSUME NEW h, NEW k, NEW l, NEW lg, NEW mm, Kept(h, k, l, lg, mm),
         NEW e, e.op # LinkOp
  PROVE  Kept(h, k, l, Append(lg, e), mm)
<1> DEFINE lg2 == Append(lg, e)
           P == Refs(k, l, lg, mm)
           Q == Refs(k, l, lg2, mm)
<1>1. k \in Nat /\ lg \in Seq(Range(lg)) /\ IsFiniteSet(DOMAIN mm) /\ Covered(h, k, P)
  BY DEF Kept
<1>2. /\ lg2 \in Seq(Range(lg2))
      /\ \A n : Times(LinksOf(lg2), n) = Times(LinksOf(lg), n) + One(NULL, n)
  BY <1>1, LinksAppend
<1> HIDE DEF lg2
<1>3. ASSUME NEW n \in 1..k
      PROVE  Q[n] <= P[n]
  <2>1. P[n] = One(l, n) + Times(LinksOf(lg), n) + Times(TreesOf(mm), n)
    BY <1>1, RefsAt
  <2>2. Q[n] = One(l, n) + Times(LinksOf(lg2), n) + Times(TreesOf(mm), n)
    BY <1>1, <1>2, RefsAt
  <2>3. One(NULL, n) = 0
    BY DEF One, NULL
  <2>4. One(l, n) \in Nat /\ Times(LinksOf(lg), n) \in Nat /\ Times(TreesOf(mm), n) \in Nat
    BY <1>1, RefsIs
  <2>5. Times(LinksOf(lg2), n) = Times(LinksOf(lg), n) + One(NULL, n)
    BY <1>2
  <2> HIDE DEF P, Q
  <2> QED
    BY <2>1, <2>2, <2>3, <2>4, <2>5
<1>4. Q \in [1..k -> Nat]
  BY <1>1, <1>2, RefsIs
<1> HIDE DEF P, Q
<1>5. Covered(h, k, Q)
  BY <1>1, <1>3, <1>4, CoveredLess
<1> QED
  BY <1>1, <1>2, <1>5 DEF Kept, Q, lg2

\* left linked.
LEMMA KeptLink ==
  ASSUME NEW h, NEW k, NEW l, NEW lg, NEW mm, Kept(h, k, l, lg, mm),
         NEW e, e.op = LinkOp, e.tree = l
  PROVE  Kept(GcIncAll(h, <<l>>), k, l, Append(lg, e), mm)
<1> DEFINE lg2 == Append(lg, e)
           P == Refs(k, l, lg, mm)
           Q == Refs(k, l, lg2, mm)
<1>1. k \in Nat /\ lg \in Seq(Range(lg)) /\ IsFiniteSet(DOMAIN mm) /\ Covered(h, k, P)
  BY DEF Kept
<1>2. /\ lg2 \in Seq(Range(lg2))
      /\ \A n : Times(LinksOf(lg2), n) = Times(LinksOf(lg), n) + One(l, n)
  BY <1>1, LinksAppend
<1> HIDE DEF lg2
<1>3. \A n : Times(<<l>>, n) = One(l, n)
  BY TimesOne DEF One
<1>4. ASSUME NEW n \in 1..k
      PROVE  Q[n] <= P[n] + Times(<<l>>, n)
  <2>1. P[n] = One(l, n) + Times(LinksOf(lg), n) + Times(TreesOf(mm), n)
    BY <1>1, RefsAt
  <2>2. Q[n] = One(l, n) + Times(LinksOf(lg2), n) + Times(TreesOf(mm), n)
    BY <1>1, <1>2, RefsAt
  <2>3. One(l, n) \in Nat /\ Times(LinksOf(lg), n) \in Nat /\ Times(TreesOf(mm), n) \in Nat
    BY <1>1, RefsIs
  <2>4. Times(LinksOf(lg2), n) = Times(LinksOf(lg), n) + One(l, n)
    BY <1>2
  <2> HIDE DEF P, Q
  <2> QED
    BY <1>3, <2>1, <2>2, <2>3, <2>4
<1>5. Q \in [1..k -> Nat]
  BY <1>1, <1>2, RefsIs
<1>6. IsFiniteSet(DOMAIN <<l>>)
  <2>1. DOMAIN <<l>> = {1}
    OBVIOUS
  <2> QED
    BY <2>1, FS_Singleton
<1>7. \A n \in 1..k : Times(<<l>>, n) > 0 => n \notin h.freed
  <2>1. l \notin h.freed
    BY KeptInUse
  <2> QED
    BY <1>3, <2>1 DEF One
<1> HIDE DEF P, Q
<1>8. Covered(GcIncAll(h, <<l>>), k, Q)
  BY <1>1, <1>4, <1>5, <1>6, <1>7, IncCovered
<1> QED
  BY <1>1, <1>2, <1>8 DEF Kept, Q, lg2

\* left stored in a memo entry, in the place of the tree that was there.
LEMMA KeptStore ==
  ASSUME NEW h, NEW k, NEW l, NEW lg, NEW mm, Kept(h, k, l, lg, mm),
         NEW x \in DOMAIN mm, NEW e, e.tree = l
  PROVE  Kept(GcSet(h, mm[x].tree, l), k, l, lg, [mm EXCEPT ![x] = e])
<1> DEFINE mm2 == [mm EXCEPT ![x] = e]
           old == mm[x].tree
           P == Refs(k, l, lg, mm)
           Q == Refs(k, l, lg, mm2)
<1>1. k \in Nat /\ lg \in Seq(Range(lg)) /\ IsFiniteSet(DOMAIN mm) /\ Covered(h, k, P)
  BY DEF Kept
<1>2. DOMAIN mm2 = DOMAIN mm /\ mm2[x] = e /\ \A y \in DOMAIN mm \ {x} : mm2[y] = mm[y]
  OBVIOUS
<1> HIDE DEF mm2
<1>3. ButFor(TreesOf(mm2), TreesOf(mm), x, l) /\ TreesOf(mm)[x] = old
  BY <1>2 DEF ButFor, TreesOf
<1>4. ASSUME NEW n
      PROVE  Times(TreesOf(mm2), n) + One(old, n) = Times(TreesOf(mm), n) + One(l, n)
  <2>1. IsFiniteSet(DOMAIN TreesOf(mm))
    BY <1>1, RefsIs
  <2>2. Times(TreesOf(mm2), n) + Times(<<TreesOf(mm)[x]>>, n)
          = Times(TreesOf(mm), n) + Times(<<l>>, n)
    BY <1>3, <2>1, TimesExcept
  <2>3. Times(<<old>>, n) = One(old, n) /\ Times(<<l>>, n) = One(l, n)
    BY TimesOne DEF One
  <2> HIDE DEF old
  <2> QED
    BY <1>3, <2>2, <2>3
<1>5. ASSUME NEW n \in 1..k
      PROVE  Q[n] + One(old, n) <= P[n] + One(l, n)
  <2>1. P[n] = One(l, n) + Times(LinksOf(lg), n) + Times(TreesOf(mm), n)
    BY <1>1, RefsAt
  <2>2. Q[n] = One(l, n) + Times(LinksOf(lg), n) + Times(TreesOf(mm2), n)
    BY <1>1, <1>2, RefsAt
  <2>3. One(l, n) \in Nat /\ Times(LinksOf(lg), n) \in Nat /\ Times(TreesOf(mm), n) \in Nat
    BY <1>1, RefsIs
  <2>4. Times(TreesOf(mm2), n) \in Nat /\ One(old, n) \in Nat
    BY <1>1, <1>2, RefsIs DEF One
  <2> HIDE DEF P, Q, old
  <2> QED
    BY <1>4, <2>1, <2>2, <2>3, <2>4
<1>6. Q \in [1..k -> Nat]
  BY <1>1, <1>2, RefsIs
<1>7. l \notin h.freed
  BY KeptInUse
<1> HIDE DEF P, Q, old
<1>8. Covered(GcSet(h, old, l), k, Q)
  BY <1>1, <1>5, <1>6, <1>7, SetCovered
<1> QED
  BY <1>1, <1>2, <1>8 DEF Kept, Q, mm2, old

\* left taken from a memo entry.
LEMMA KeptTake ==
  ASSUME NEW h, NEW k, NEW l, NEW lg, NEW mm, Kept(h, k, l, lg, mm),
         NEW x \in DOMAIN mm, NEW t, t = mm[x].tree
  PROVE  Kept(GcSet(h, l, t), k, t, lg, mm)
<1> DEFINE P == Refs(k, l, lg, mm)
           Q == Refs(k, t, lg, mm)
<1>1. k \in Nat /\ lg \in Seq(Range(lg)) /\ IsFiniteSet(DOMAIN mm) /\ Covered(h, k, P)
  BY DEF Kept
<1>2. ASSUME NEW n \in 1..k
      PROVE  Q[n] + One(l, n) <= P[n] + One(t, n)
  <2>1. P[n] = One(l, n) + Times(LinksOf(lg), n) + Times(TreesOf(mm), n)
    BY <1>1, RefsAt
  <2>2. Q[n] = One(t, n) + Times(LinksOf(lg), n) + Times(TreesOf(mm), n)
    BY <1>1, RefsAt
  <2>3. /\ One(l, n) \in Nat /\ Times(LinksOf(lg), n) \in Nat /\ Times(TreesOf(mm), n) \in Nat
        /\ One(t, n) \in Nat
    BY <1>1, RefsIs
  <2> HIDE DEF P, Q
  <2> QED
    BY <2>1, <2>2, <2>3
<1>3. Q \in [1..k -> Nat]
  BY <1>1, RefsIs
<1>4. t \notin h.freed
  BY KeptInUse
<1> HIDE DEF P, Q
<1>5. Covered(GcSet(h, l, t), k, Q)
  BY <1>1, <1>2, <1>3, <1>4, SetCovered
<1> QED
  BY <1>1, <1>5 DEF Kept, Q

\* The links of the entries after the first m.
CutLinks(g, lg, m) ==
  DOMAIN g = 1..Len(lg)-m /\ \A i \in DOMAIN g : g[i] = LinksOf(lg)[m + i]

LEMMA LinksCut ==
  ASSUME NEW lg, lg \in Seq(Range(lg)), NEW m \in 0..Len(lg), NEW g, CutLinks(g, lg, m)
  PROVE  /\ SubSeq(lg, 1, m) \in Seq(Range(SubSeq(lg, 1, m))) /\ IsFiniteSet(DOMAIN g)
         /\ \A n : Times(LinksOf(lg), n) = Times(LinksOf(SubSeq(lg, 1, m)), n) + Times(g, n)
<1> DEFINE cut == SubSeq(lg, 1, m)
           f == LinksOf(lg)
           b == [i \in m+1..Len(lg) |-> f[i]]
           at == [i \in 1..Len(lg)-m |-> m + i]
<1>1. Len(lg) \in Nat /\ DOMAIN lg = 1..Len(lg) /\ m \in Nat /\ m <= Len(lg)
  BY LenProperties
<1>2. cut \in Seq(Range(lg)) /\ Len(cut) = m /\ \A i \in 1..m : cut[i] = lg[i]
  <2>1. \A i \in 1..m : lg[i] \in Range(lg)
    BY <1>1 DEF Range
  <2> QED
    BY <1>1, <2>1, SubSeqProperties
<1> HIDE DEF cut
<1>3. cut \in Seq(Range(cut)) /\ DOMAIN cut = 1..m
  BY <1>2, SeqOfRange, LenProperties
<1>4. /\ DOMAIN f = 1..Len(lg) /\ DOMAIN LinksOf(cut) = 1..m
      /\ \A i \in 1..m : LinksOf(cut)[i] = f[i]
  BY <1>1, <1>2, <1>3 DEF LinksOf
<1>5. /\ DOMAIN b = m+1..Len(lg) /\ \A i \in m+1..Len(lg) : b[i] = f[i]
      /\ DOMAIN at = 1..Len(lg)-m /\ \A i \in 1..Len(lg)-m : at[i] = m + i
      /\ DOMAIN g = 1..Len(lg)-m
  BY DEF CutLinks
<1>6. \A i \in 1..Len(lg)-m : g[i] = f[m + i]
  BY DEF CutLinks
<1> HIDE DEF f, b, at
<1>7. Parts(f, LinksOf(cut), b)
  <2>1. 1..Len(lg) = (1..m) \cup (m+1..Len(lg)) /\ (1..m) \cap (m+1..Len(lg)) = {}
    BY <1>1
  <2> QED
    BY <1>4, <1>5, <2>1 DEF Parts
<1>8. Into(at, g, b)
  <2>1. \A i \in 1..Len(lg)-m : m + i \in m+1..Len(lg)
    BY <1>1
  <2>2. \A i, j \in 1..Len(lg)-m : m + i = m + j => i = j
    BY <1>1
  <2>3. \A i \in DOMAIN g : at[i] \in DOMAIN b
    BY <1>5, <2>1
  <2>4. \A i, j \in DOMAIN g : at[i] = at[j] => i = j
    BY <1>5, <2>2
  <2>5. \A i \in DOMAIN g : b[at[i]] = g[i]
    BY <1>5, <1>6, <2>1
  <2> QED
    BY <1>5, <2>3, <2>4, <2>5 DEF Into
<1>9. \A x \in DOMAIN b : \E i \in DOMAIN g : at[i] = x
  <2> SUFFICES ASSUME NEW x \in m+1..Len(lg) PROVE \E i \in 1..Len(lg)-m : at[i] = x
    BY <1>5
  <2>1. x - m \in 1..Len(lg)-m /\ m + (x - m) = x
    BY <1>1
  <2> QED
    BY <1>5, <2>1
<1>10. IsFiniteSet(DOMAIN f) /\ IsFiniteSet(DOMAIN b) /\ IsFiniteSet(DOMAIN g)
  <2>1. IsFiniteSet(1..Len(lg)) /\ IsFiniteSet(m+1..Len(lg)) /\ IsFiniteSet(1..Len(lg)-m)
    BY <1>1, FS_Interval
  <2> QED
    BY <1>4, <1>5, <2>1
<1>11. ASSUME NEW n
       PROVE  Times(f, n) = Times(LinksOf(cut), n) + Times(g, n)
  <2>1. Times(f, n) = Times(LinksOf(cut), n) + Times(b, n)
    BY <1>7, <1>10, TimesSplit
  <2>2. Times(g, n) = Times(b, n)
    BY <1>8, <1>9, <1>10, TimesInto
  <2> QED
    BY <2>1, <2>2
<1> QED
  BY <1>3, <1>10, <1>11 DEF f, cut

\* The log rolled back.
LEMMA KeptBack ==
  ASSUME NEW h, NEW k, NEW l, NEW mm, Kept(h, k, l, log, mm), NEW m \in Nat
  PROVE  Kept(BackLog(h, m).heap, k, l, BackLog(h, m).log, mm)
<1> DEFINE keep == IF m < Len(log) THEN m ELSE Len(log)
           cut == SubSeq(log, 1, keep)
           g == [i \in 1..Len(log)-keep |->
                   IF log[keep + i].op = LinkOp THEN log[keep + i].tree ELSE NULL]
           P == Refs(k, l, log, mm)
           Q == Refs(k, l, cut, mm)
<1>1. k \in Nat /\ log \in Seq(Range(log)) /\ IsFiniteSet(DOMAIN mm) /\ Covered(h, k, P)
  BY DEF Kept
<1>2. keep \in 0..Len(log)
  BY <1>1, LenProperties
<1>3. BackLog(h, m).log = cut /\ BackLog(h, m).heap = GcDecAll(h, g)
  BY DEF BackLog
<1>4. CutLinks(g, log, keep)
  <2>1. \A i \in 1..Len(log)-keep : keep + i \in DOMAIN log
    <3> HIDE DEF keep
    <3> QED
      BY <1>1, <1>2, LenProperties
  <2> HIDE DEF keep
  <2>2. \A i \in 1..Len(log)-keep : LinksOf(log)[keep + i] = g[i]
    BY <2>1 DEF LinksOf
  <2> QED
    BY <2>2 DEF CutLinks
<1> HIDE DEF keep, g
<1>5. /\ cut \in Seq(Range(cut)) /\ IsFiniteSet(DOMAIN g)
      /\ \A n : Times(LinksOf(log), n) = Times(LinksOf(cut), n) + Times(g, n)
  BY <1>1, <1>2, <1>4, LinksCut
<1> HIDE DEF cut
<1>6. ASSUME NEW n \in 1..k
      PROVE  Q[n] + Times(g, n) <= P[n]
  <2>1. P[n] = One(l, n) + Times(LinksOf(log), n) + Times(TreesOf(mm), n)
    BY <1>1, RefsAt
  <2>2. Q[n] = One(l, n) + Times(LinksOf(cut), n) + Times(TreesOf(mm), n)
    BY <1>1, <1>5, RefsAt
  <2>3. One(l, n) \in Nat /\ Times(LinksOf(cut), n) \in Nat /\ Times(TreesOf(mm), n) \in Nat
    BY <1>1, <1>5, RefsIs
  <2>4. Times(g, n) \in Nat /\ Times(LinksOf(log), n) = Times(LinksOf(cut), n) + Times(g, n)
    BY <1>5, TimesIs
  <2> HIDE DEF P, Q
  <2> QED
    BY <2>1, <2>2, <2>3, <2>4
<1>7. Q \in [1..k -> Nat]
  BY <1>1, <1>5, RefsIs
<1> HIDE DEF P, Q
<1>8. Covered(GcDecAll(h, g), k, Q)
  BY <1>1, <1>5, <1>6, <1>7, DecCovered
<1> QED
  BY <1>1, <1>3, <1>5, <1>8 DEF Kept, Q

\* A node made of links of the log takes left's place.
LEMMA KeptMade ==
  ASSUME NEW h, NEW k, NEW l \in 0..k, NEW lg, NEW mm, Kept(h, k, l, lg, mm),
         NEW tag, NEW text, NEW labels,
         NEW childs, IsFiniteSet(DOMAIN childs), Range(childs) \subseteq 0..k,
         NEW at, Into(at, childs, LinksOf(lg)), NEW t, t = k + 1,
         \A i \in DOMAIN LinksOf(lg) : LinksOf(lg)[i] # t,
         \A x \in DOMAIN TreesOf(mm) : TreesOf(mm)[x] # t
  PROVE  Kept(GcIncAll(GcSet(New(h, tag, text, labels, childs), l, t), childs), t, t, lg, mm)
<1> DEFINE P == Refs(k, l, lg, mm)
           Q == Refs(t, t, lg, mm)
<1>1. k \in Nat /\ lg \in Seq(Range(lg)) /\ IsFiniteSet(DOMAIN mm) /\ Covered(h, k, P)
  BY DEF Kept
<1>2. t \in Nat /\ t \in 1..t /\ (\A n \in 1..k : n \in 1..t /\ n # t)
  BY <1>1
<1>3. IsFiniteSet(DOMAIN LinksOf(lg)) /\ IsFiniteSet(DOMAIN TreesOf(mm))
  BY <1>1, RefsIs
<1>4. ASSUME NEW n \in 1..k
      PROVE  One(l, n) + Times(childs, n) <= P[n] /\ Q[n] + One(l, n) <= P[n]
  <2>1. P[n] = One(l, n) + Times(LinksOf(lg), n) + Times(TreesOf(mm), n)
    BY <1>1, RefsAt
  <2>2. Q[n] = One(t, n) + Times(LinksOf(lg), n) + Times(TreesOf(mm), n)
    BY <1>1, <1>2, RefsAt
  <2>3. One(l, n) \in Nat /\ Times(LinksOf(lg), n) \in Nat /\ Times(TreesOf(mm), n) \in Nat
    BY <1>1, RefsIs
  <2>4. Times(childs, n) \in Nat
    BY TimesIs
  <2>5. Times(childs, n) <= Times(LinksOf(lg), n)
    BY <1>3, TimesInto
  <2>6. One(t, n) = 0
    BY <1>2 DEF One
  <2> HIDE DEF P, Q
  <2> QED
    BY <2>1, <2>2, <2>3, <2>4, <2>5, <2>6
<1>5. Q[t] <= 1
  <2>1. Q[t] = One(t, t) + Times(LinksOf(lg), t) + Times(TreesOf(mm), t)
    BY <1>1, <1>2, RefsAt
  <2>2. Times(LinksOf(lg), t) = 0
    BY <1>3, TimesIs
  <2>3. Times(TreesOf(mm), t) = 0
    BY <1>3, TimesIs
  <2>4. One(t, t) = 1
    BY DEF One
  <2> HIDE DEF Q
  <2> QED
    BY <2>1, <2>2, <2>3, <2>4
<1>6. Q \in [1..t -> Nat]
  BY <1>1, <1>2, RefsIs
<1> HIDE DEF P, Q
<1>7. Covered(GcIncAll(GcSet(New(h, tag, text, labels, childs), l, t), childs), t, Q)
  BY <1>1, <1>4, <1>5, <1>6, MakeCovered
<1> QED
  BY <1>1, <1>2, <1>7 DEF Kept, Q
-----------------------------------------------------------------------------
(* The steps of a machine that saves no tree.                              *)

BareSlots == \A s \in 0..StackSize-1 : stacks[s].tree = NULL

\* Running: no slot holds a tree, left does only where H says, all are counted.
Tended(H) ==
  /\ BareSlots
  /\ pc \in H \/ left = NULL
  /\ Kept(heap, newcount, left, log, memo)

\* The log size that the frame in force saved.
LEMMA FrameSize ==
  ASSUME NEW S, WellShaped(S), TypeOK, NEW L, Held(S, L)
  PROVE  stacks[fail_stack + 2].value \in Nat
<1>1. /\ Stacked(S, L, stacks, log) /\ Len(L) \in Nat \ {0}
      /\ fail_stack = L[Len(L)].frame
  BY HeldIs
<1>2. CASE fail_stack = 0
  BY <1>1, <1>2, InputAssumption DEF Stacked
<1>3. CASE fail_stack # 0
  <2>1. Len(L) \in 1..Len(L) /\ FramesHeld(L)
    BY <1>1 DEF Stacked
  <2>2. PICK k \in 2..Len(L) : L[k].kind = "alt" /\ L[k].frame = fail_stack
    BY <1>1, <1>3, <2>1 DEF FramesHeld
  <2>3. k \in 1..Len(L) /\ Over(S, stacks, log, L[k - 1], L[k])
    BY <1>1, <2>2 DEF Stacked
  <2>4. stacks[fail_stack + 2].value = L[k].size
    BY <2>2, <2>3 DEF Over
  <2> QED
    BY <1>1, <2>3, <2>4, ItemsIs
<1> QED
  BY <1>2, <1>3

\* A failure: left is what the frame saved, NULL.
LEMMA FailTended ==
  ASSUME NEW S, WellShaped(S), TypeOK, NEW L, Held(S, L), BareSlots, NEW H,
         NEW h, NEW l, NEW mm, Kept(h, newcount, l, log, mm), PopFail(h), memo' = mm
  PROVE  Tended(H)'
<1> DEFINE n == stacks[fail_stack + 2].value
           h2 == BackLog(h, n).heap
           lg2 == BackLog(h, n).log
<1>1. /\ left' = stacks[fail_stack].tree /\ stacks' = stacks /\ newcount' = newcount
      /\ log' = lg2 /\ heap' = h2
  BY DEF PopFail
<1>2. n \in Nat
  BY FrameSize
<1>3. fail_stack \in 0..StackSize-1
  BY FrameInRange, StackAssumption
<1>4. left' = NULL
  BY <1>1, <1>3 DEF BareSlots
<1> HIDE DEF n
<1>5. Kept(h2, newcount, l, lg2, mm)
  BY <1>2, KeptBack
<1> HIDE DEF h2, lg2
<1>6. Kept(h2, newcount, NULL, lg2, mm)
  BY <1>5, KeptForget
<1> QED
  BY <1>1, <1>4, <1>6 DEF Tended, BareSlots

\* NULL pushed with a number.
LEMMA PushTended ==
  ASSUME TypeOK, BareSlots, Kept(heap, newcount, left, log, memo),
         unused_stack + 1 < StackSize, NEW v, NEW t, t = NULL, PushSlot(v, t)
  PROVE  /\ \A s \in 0..StackSize-1 : stacks'[s].tree = NULL
         /\ Kept(heap', newcount, left, log, memo)
<1> DEFINE s == unused_stack + 1
           h2 == GcSet(heap, NULL, NULL)
<1>1. /\ s \in 0..StackSize-1 /\ DOMAIN stacks = 0..StackSize-1
      /\ \A x \in 0..StackSize-1 : stacks[x] \in SlotType(newcount)
  BY StackAssumption DEF TypeOK
<1>2. [stacks[s] EXCEPT !.value = v, !.tree = t].tree = t
  BY <1>1 DEF SlotType
<1>3. /\ stacks' = [stacks EXCEPT ![s] = [stacks[s] EXCEPT !.value = v, !.tree = t]]
      /\ heap' = GcSet(heap, stacks[s].tree, t)
  BY <1>1 DEF PushSlot
<1>4. \A x \in 0..StackSize-1 : stacks'[x].tree = NULL
  BY <1>1, <1>2, <1>3 DEF BareSlots
<1>5. heap' = h2
  BY <1>1, <1>3 DEF BareSlots
<1>6. Kept(h2, newcount, left, log, memo)
  BY KeptSame
<1> QED
  BY <1>4, <1>5, <1>6

\* A frame pushed while left is NULL.
LEMMA FrameTended ==
  ASSUME TypeOK, BareSlots, Kept(heap, newcount, left, log, memo),
         unused_stack + 3 < StackSize, left = NULL, NEW alt, PushFail(alt)
  PROVE  /\ \A s \in 0..StackSize-1 : stacks'[s].tree = NULL
         /\ Kept(heap', newcount, left, log, memo)
<1> DEFINE s == unused_stack + 1
           h2 == GcSet(heap, NULL, NULL)
<1>1. /\ {s, s + 1, s + 2} \subseteq 0..StackSize-1 /\ DOMAIN stacks = 0..StackSize-1
      /\ \A x \in 0..StackSize-1 : stacks[x] \in SlotType(newcount)
  BY StackAssumption DEF TypeOK
<1>2. [stacks[s] EXCEPT !.value = fail_stack, !.tree = left].tree = NULL
  BY <1>1 DEF SlotType
<1>3. /\ stacks' = [stacks EXCEPT
                      ![s]   = [stacks[s] EXCEPT !.value = fail_stack, !.tree = left],
                      ![s+1] = [value |-> pos, num |-> alt, tree |-> NULL],
                      ![s+2] = [value |-> Len(log), num |-> 0, tree |-> NULL]]
      /\ heap' = GcDecAll(GcSet(heap, stacks[s].tree, left),
                          <<stacks[s+1].tree, stacks[s+2].tree>>)
  BY <1>1 DEF PushFail
<1>4. \A x \in 0..StackSize-1 : stacks'[x].tree = NULL
  <2> DEFINE a == [stacks[s] EXCEPT !.value = fail_stack, !.tree = left]
             b == [value |-> pos, num |-> alt, tree |-> NULL]
             c == [value |-> Len(log), num |-> 0, tree |-> NULL]
  <2>1. a.tree = NULL /\ b.tree = NULL /\ c.tree = NULL
    BY <1>2
  <2> HIDE DEF a, b, c
  <2>2. \A x \in 0..StackSize-1 : stacks'[x] \in {a, b, c} \/ stacks'[x] = stacks[x]
    BY <1>1, <1>3 DEF a, b, c
  <2> QED
    BY <2>1, <2>2 DEF BareSlots
<1>5. heap' = GcDecAll(h2, <<NULL, NULL>>)
  BY <1>1, <1>3 DEF BareSlots
<1>6. heap' = h2
  <2>1. \A i \in DOMAIN <<NULL, NULL>> : <<NULL, NULL>>[i] = NULL
    OBVIOUS
  <2> HIDE DEF h2
  <2> QED
    BY <1>5, <2>1 DEF GcDecAll
<1>7. Kept(h2, newcount, left, log, memo)
  BY KeptSame
<1> QED
  BY <1>4, <1>6, <1>7

\* Where left may hold a tree once the instruction at pc is done.
LEMMA TreesHere ==
  ASSUME NEW S, NEW H, SavesNoTree(S, H), pc \in DOMAIN S, pc \in H \/ left = NULL
  PROVE  /\ Inst.op \in KeepOps => Inst.next \in H \/ left = NULL
         /\ Inst.op \in {"Jump", "Lookup", "Call"} => Inst.next + Inst.jump \in H \/ left = NULL
         /\ Inst.op \in {"TPush", "Alt", "Step"} => left = NULL
         /\ Inst.op = "TEnd" => Inst.next \in H
         /\ Inst.op = "TLookup" => Inst.next + Inst.jump \in H
         /\ Inst.op \in {"Dispatch", "DDispatch"} =>
              \A b \in Bytes : Inst.next + Inst.table[b] \in H \/ left = NULL
<1>1. TreesAt(H, pc)
  BY DEF SavesNoTree
<1> QED
  BY <1>1 DEF TreesAt, Inst

\* A step that leaves the trees alone.
LEMMA StillTended ==
  ASSUME NEW H, Tended(H), pc' \in H \/ left = NULL,
         UNCHANGED <<left, log, heap, newcount, memo>>, BareSlots'
  PROVE  Tended(H)'
BY DEF Tended

\* Control instructions.
LEMMA ControlTended ==
  ASSUME NEW S, WellShaped(S), TypeOK, NEW L, Held(S, L), NEW H, SavesNoTree(S, H),
         Tended(H), Control, status' = "run"
  PROVE  Tended(H)'
<1>1. /\ pc \in DOMAIN S /\ BareSlots /\ (pc \in H \/ left = NULL)
      /\ Kept(heap, newcount, left, log, memo)
  BY HeldIs DEF Tended
<1>2. stacks' = stacks => BareSlots'
  BY <1>1 DEF BareSlots
<1>3. CASE Nop \/ Back \/ Succ
  <2>1. /\ Inst.op \in KeepOps /\ pc' = Inst.next /\ stacks' = stacks
        /\ UNCHANGED <<left, log, heap, newcount, memo>>
    BY <1>3 DEF Nop, Back, Succ, PopSucc, At, Advance, KeepOps, frames, tree
  <2>2. pc' \in H \/ left = NULL
    BY <1>1, <2>1, TreesHere
  <2> QED
    BY <1>1, <2>1, <2>2, <1>2, StillTended
<1>4. CASE Jump
  <2>1. /\ Inst.op = "Jump" /\ pc' = Inst.next + Inst.jump /\ stacks' = stacks
        /\ UNCHANGED <<left, log, heap, newcount, memo>>
    BY <1>4 DEF Jump, At, frames, tree
  <2>2. pc' \in H \/ left = NULL
    BY <1>1, <2>1, TreesHere
  <2> QED
    BY <1>1, <2>1, <2>2, <1>2, StillTended
<1>5. CASE Ret
  <2>1. /\ Inst.op = "Ret" /\ pc' = stacks[unused_stack].value /\ stacks' = stacks
        /\ UNCHANGED <<left, log, heap, newcount, memo>>
    BY <1>5 DEF Ret, At, tree
  <2>2. S[pc] \in Entries
    BY <2>1, AtShape DEF PairsAt
  <2>3. Len(L) # 1 /\ L[Len(L)].kind = "call" /\ unused_stack = L[Len(L)].top
    BY <2>2, TopCall, HeldIs
  <2>4. Over(S, stacks, log, L[Len(L) - 1], L[Len(L)])
    BY <2>3, BelowTop
  <2>5. pc' \in Returns(S)
    BY <2>1, <2>3, <2>4 DEF Over
  <2>6. pc' \in H
    BY <2>5 DEF SavesNoTree
  <2> QED
    BY <1>1, <2>1, <2>6, <1>2, StillTended
<1>6. CASE Pos \/ Call
  <2>1. PICK v : PushSlot(v, NULL)
    BY <1>6 DEF Pos, Call
  <2>2. /\ Defined /\ Inst.op \in {"Pos", "Call"} /\ UNCHANGED <<left, log, newcount, memo>>
        /\ Inst.op = "Pos" => pc' = Inst.next
        /\ Inst.op = "Call" => pc' = Inst.next + Inst.jump
    BY <1>6 DEF Pos, Call, At, Advance
  <2>3. unused_stack + 1 < StackSize
    BY <2>2 DEF Defined, Pushed
  <2>4. pc' \in H \/ left = NULL
    BY <1>1, <2>2, TreesHere DEF KeepOps
  <2>5. BareSlots' /\ Kept(heap', newcount, left, log, memo)
    <3> DEFINE t == NULL
    <3>1. PushSlot(v, t)
      BY <2>1
    <3>2. t = NULL
      OBVIOUS
    <3> HIDE DEF t
    <3>3. \A s \in 0..StackSize-1 : stacks'[s].tree = NULL
      BY <1>1, <2>3, <3>1, <3>2, PushTended
    <3>4. Kept(heap', newcount, left, log, memo)
      BY <1>1, <2>3, <3>1, <3>2, PushTended
    <3> QED
      BY <3>3, <3>4 DEF BareSlots
  <2> QED
    BY <2>2, <2>4, <2>5 DEF Tended
<1>7. CASE Alt
  <2>1. /\ Defined /\ Inst.op = "Alt" /\ PushFail(Inst.alt) /\ pc' = Inst.next
        /\ UNCHANGED <<left, log, newcount, memo>>
    BY <1>7 DEF Alt, At, Advance
  <2>2. unused_stack + 3 < StackSize
    BY <2>1 DEF Defined, Pushed
  <2>3. left = NULL
    BY <1>1, <2>1, TreesHere
  <2>4. BareSlots' /\ Kept(heap', newcount, left, log, memo)
    <3>1. \A s \in 0..StackSize-1 : stacks'[s].tree = NULL
      BY <1>1, <2>1, <2>2, <2>3, FrameTended
    <3>2. Kept(heap', newcount, left, log, memo)
      BY <1>1, <2>1, <2>2, <2>3, FrameTended
    <3> QED
      BY <3>1, <3>2 DEF BareSlots
  <2> QED
    BY <2>1, <2>3, <2>4 DEF Tended
<1>8. CASE memo' = memo /\ PopFail(heap)
  BY <1>1, <1>8, FailTended
<1>9. CASE Fail
  BY <1>8, <1>9 DEF Fail
<1>10. CASE Step /\ ~PopFail(heap)
  <2>1. /\ Defined /\ Inst.op = "Step" /\ pc' = Inst.next
        /\ UNCHANGED <<left, log, heap, newcount, memo>>
        /\ stacks' = [stacks EXCEPT
                        ![fail_stack]     = [@ EXCEPT !.tree = left],
                        ![fail_stack + 1] = [@ EXCEPT !.value = pos],
                        ![fail_stack + 2] = [@ EXCEPT !.value = Len(log), !.num = 0]]
    BY <1>10 DEF Step, At, Advance, tree
  <2>2. left = NULL
    BY <1>1, <2>1, TreesHere
  <2>3. /\ DOMAIN stacks = 0..StackSize-1
        /\ {fail_stack, fail_stack + 1, fail_stack + 2} \subseteq 0..StackSize-1
        /\ \A x \in 0..StackSize-1 : stacks[x] \in SlotType(newcount)
    BY FrameInRange, StackAssumption DEF TypeOK
  <2>4. BareSlots'
    <3> DEFINE a == [stacks[fail_stack] EXCEPT !.tree = left]
               b == [stacks[fail_stack + 1] EXCEPT !.value = pos]
               c == [stacks[fail_stack + 2] EXCEPT !.value = Len(log), !.num = 0]
    <3>1. a.tree = left
      BY <2>3 DEF SlotType
    <3>2. b.tree = stacks[fail_stack + 1].tree
      BY <2>3 DEF SlotType
    <3>3. c.tree = stacks[fail_stack + 2].tree
      BY <2>3 DEF SlotType
    <3>4. stacks' = [stacks EXCEPT ![fail_stack] = a, ![fail_stack + 1] = b,
                                   ![fail_stack + 2] = c]
      BY <2>1, <2>3
    <3> HIDE DEF a, b, c
    <3>5. \A x \in 0..StackSize-1 : stacks'[x] \in {a, b, c} \/ stacks'[x] = stacks[x]
      BY <2>3, <3>4
    <3> QED
      <4>1. a.tree = NULL /\ b.tree = NULL /\ c.tree = NULL
        BY <1>1, <2>2, <2>3, <3>1, <3>2, <3>3 DEF BareSlots
      <4> QED
        BY <1>1, <3>5, <4>1 DEF BareSlots
  <2> QED
    BY <2>1, <2>2, <2>4, StillTended
<1>11. ~Exit /\ ~Unimplemented
  BY DEF Exit, Unimplemented
<1>12. CASE Step
  BY <1>8, <1>10, <1>12 DEF Step
<1> QED
  BY <1>3, <1>4, <1>5, <1>6, <1>7, <1>9, <1>11, <1>12 DEF Control

\* Instructions on the input.
LEMMA ScanTended ==
  ASSUME NEW S, WellShaped(S), TypeOK, NEW L, Held(S, L), NEW H, SavesNoTree(S, H),
         Tended(H), Scan
  PROVE  Tended(H)'
<1>1. /\ pc \in DOMAIN S /\ BareSlots /\ (pc \in H \/ left = NULL)
      /\ Kept(heap, newcount, left, log, memo)
  BY HeldIs DEF Tended
<1>2. stacks' = stacks => BareSlots'
  BY <1>1 DEF BareSlots
<1>3. CASE memo' = memo /\ PopFail(heap)
  BY <1>1, <1>3, FailTended
<1>4. CASE Inst.op \in KeepOps /\ pc' = Inst.next /\ memo' = memo /\ UNCHANGED <<stacks, tree>>
  <2>1. pc' \in H \/ left = NULL
    BY <1>1, <1>4, TreesHere
  <2> QED
    BY <1>1, <1>2, <1>4, <2>1, StillTended DEF tree
<1>5. CASE Dispatch
  <2>1. /\ Inst.op \in {"Dispatch", "DDispatch"} /\ InText(pos)
        /\ pc' = Inst.next + Inst.table[ByteAt(pos)] /\ memo' = memo
        /\ UNCHANGED <<stacks, tree>>
    BY <1>5 DEF Dispatch, At, Defined, TextOps, frames
  <2>2. ByteAt(pos) \in Bytes
    BY <2>1, ByteIs
  <2>3. pc' \in H \/ left = NULL
    BY <1>1, <2>1, <2>2, TreesHere
  <2> QED
    BY <1>1, <1>2, <2>1, <2>3, StillTended DEF tree
<1>6. CASE Consume \/ AnyByte \/ NotMatch \/ NAny
  BY <1>3, <1>4, <1>6 DEF Consume, AnyByte, NotMatch, NAny, At, Advance, frames, KeepOps,
     TextOps, StrOps
<1>7. CASE Optional \/ Repeat
  BY <1>4, <1>7 DEF Optional, Repeat, At, Advance, frames, KeepOps, TextOps, StrOps, RepeatOps
<1> QED
  BY <1>5, <1>6, <1>7 DEF Scan

\* What LinkAt lists are links of the log, each once.
LEMMA LinksAre ==
  ASSUME log \in Seq(Range(log)), NEW start \in DOMAIN log
  PROVE  /\ IsFiniteSet(DOMAIN LinkAt(start))
         /\ \A n \in DOMAIN LinkAt(start) :
              LinkAt(start)[n] \in DOMAIN log /\ log[LinkAt(start)[n]].op = LinkOp
         /\ \A m, n \in DOMAIN LinkAt(start) : LinkAt(start)[m] = LinkAt(start)[n] => m = n
<1> DEFINE links == {i \in start+1..Len(log) : log[i].op = LinkOp}
           Rank(i) == Cardinality({j \in links : j <= i})
           at == LinkAt(start)
<1>1. /\ DOMAIN at = {Rank(i) : i \in links}
      /\ \A n \in DOMAIN at : at[n] = CHOOSE i \in links : Rank(i) = n
  BY DEF LinkAt
<1>2. DOMAIN log = 1..Len(log) /\ Len(log) \in Nat /\ start \in Nat
  BY LenProperties
<1>3. IsFiniteSet(links) /\ \A i \in links : i \in DOMAIN log /\ log[i].op = LinkOp
  <2> DEFINE a == start + 1
             b == Len(log)
  <2>0. a \in Int /\ b \in Int /\ links \subseteq a..b
    BY <1>2
  <2> HIDE DEF a, b, links
  <2>1. IsFiniteSet(a..b)
    BY <2>0, FS_Interval
  <2>2. IsFiniteSet(links)
    BY <2>0, <2>1, FS_Subset
  <2>3. \A i \in links : i \in DOMAIN log /\ log[i].op = LinkOp
    BY <1>2 DEF links
  <2> QED
    BY <2>2, <2>3
<1> HIDE DEF links, Rank, at
<1>4. \A n \in DOMAIN at : at[n] \in links /\ Rank(at[n]) = n
  <2> SUFFICES ASSUME NEW n \in DOMAIN at PROVE at[n] \in links /\ Rank(at[n]) = n
    OBVIOUS
  <2>1. \E i \in links : Rank(i) = n
    BY <1>1
  <2> QED
    BY <1>1, <2>1
<1>5. \A m, n \in DOMAIN at : at[m] = at[n] => m = n
  BY <1>4
<1>6. IsFiniteSet(DOMAIN at)
  <2> DEFINE f == [n \in DOMAIN at |-> at[n]]
  <2>1. f \in [DOMAIN at -> links] /\ \A m, n \in DOMAIN at : f[m] = f[n] => m = n
    BY <1>4, <1>5
  <2> HIDE DEF f
  <2>2. f \in Injection(DOMAIN at, links)
    BY <2>1 DEF Injection, IsInjective
  <2> QED
    BY <1>3, <2>2, FS_Injection
<1> QED
  BY <1>3, <1>4, <1>5, <1>6 DEF at

\* A node made takes left's place, and its links are dropped from the log.
LEMMA EndTended ==
  ASSUME NEW S, WellShaped(S), TypeOK, NEW L, Held(S, L), NEW H, SavesNoTree(S, H),
         Tended(H), TEnd
  PROVE  Tended(H)'
<1> DEFINE t == newcount + 1
<1>1. PICK start \in DOMAIN log :
        /\ left' = t /\ newcount' = t
        /\ log' = BackLog(Made(start), start - 1).log
        /\ heap' = BackLog(Made(start), start - 1).heap
  BY DEF TEnd
<1>2. Inst.op = "TEnd" /\ pc' = Inst.next /\ stacks' = stacks /\ memo' = memo
  BY DEF TEnd, At, Advance, frames
<1>3. /\ pc \in DOMAIN S /\ BareSlots /\ (pc \in H \/ left = NULL)
      /\ Kept(heap, newcount, left, log, memo)
  BY HeldIs DEF Tended
<1>4. pc' \in H
  BY <1>2, <1>3, TreesHere
<1> DEFINE at == LinkAt(start)
           labels == [n \in DOMAIN at |-> log[at[n]].label]
           childs == [n \in DOMAIN at |-> log[at[n]].tree]
           made == Made(start)
<1>5. made = GcIncAll(GcSet(New(heap, EndTag(start), EndText(start), labels, childs),
                            left, t), childs)
  BY DEF Made
<1>6. /\ newcount \in Nat /\ t = newcount + 1 /\ left \in 0..newcount
      /\ log \in Seq(LogType(newcount)) /\ log \in Seq(Range(log))
      /\ start \in 1..Len(log) /\ Len(log) \in Nat
      /\ memo \in [0..MemoSize-1 -> EntryType(newcount)]
  BY HeldIs, LenProperties DEF TypeOK
<1>7. \A i \in DOMAIN log : log[i].op = LinkOp => log[i].tree \in 0..newcount
  <2> SUFFICES ASSUME NEW i \in DOMAIN log, log[i].op = LinkOp PROVE log[i].tree \in 0..newcount
    OBVIOUS
  <2> DEFINE e == log[i]
  <2>1. e \in LogType(newcount)
    BY <1>6, ElementOfSeq, LenProperties
  <2> QED
    BY <2>1 DEF LogType, NewOp, LinkOp, TagOp, ReplaceOp
<1>8. \A i \in DOMAIN LinksOf(log) : LinksOf(log)[i] # t
  BY <1>6, <1>7 DEF LinksOf, NULL
<1>9. \A x \in DOMAIN TreesOf(memo) : TreesOf(memo)[x] # t
  <2>1. \A x \in DOMAIN memo : memo[x].tree \in 0..newcount
    BY <1>6 DEF EntryType
  <2> QED
    BY <1>6, <2>1 DEF TreesOf
<1>10. /\ IsFiniteSet(DOMAIN at)
       /\ \A n \in DOMAIN at : at[n] \in DOMAIN log /\ log[at[n]].op = LinkOp
       /\ \A m, n \in DOMAIN at : at[m] = at[n] => m = n
  BY <1>6, LinksAre
<1> HIDE DEF at
<1>11. DOMAIN childs = DOMAIN at /\ \A n \in DOMAIN at : childs[n] = log[at[n]].tree
  OBVIOUS
<1> HIDE DEF childs, labels, made, t
<1>12. Into(at, childs, LinksOf(log))
  BY <1>10, <1>11 DEF Into, LinksOf
<1>13. Range(childs) \subseteq 0..newcount
  BY <1>7, <1>10, <1>11 DEF Range
<1>14. IsFiniteSet(DOMAIN childs)
  BY <1>10, <1>11
<1> DEFINE tag == EndTag(start)
           text == EndText(start)
<1> HIDE DEF tag, text
<1>15. Kept(GcIncAll(GcSet(New(heap, tag, text, labels, childs), left, t), childs),
            t, t, log, memo)
  BY <1>3, <1>6, <1>8, <1>9, <1>12, <1>13, <1>14, KeptMade
<1>16. Kept(made, t, t, log, memo)
  BY <1>5, <1>15 DEF tag, text
<1> DEFINE m == start - 1
           h2 == BackLog(made, m).heap
           lg2 == BackLog(made, m).log
<1>17. m \in Nat /\ heap' = h2 /\ log' = lg2
  BY <1>1, <1>6 DEF made
<1> HIDE DEF m
<1>18. Kept(h2, t, t, lg2, memo)
  BY <1>16, <1>17, KeptBack
<1> QED
  BY <1>1, <1>2, <1>3, <1>4, <1>17, <1>18 DEF Tended, BareSlots

\* Tree instructions.
LEMMA BuildTended ==
  ASSUME NEW S, WellShaped(S), TypeOK, NEW L, Held(S, L), NEW H, SavesNoTree(S, H),
         Tended(H), Build
  PROVE  Tended(H)'
<1>1. /\ pc \in DOMAIN S /\ BareSlots /\ (pc \in H \/ left = NULL)
      /\ Kept(heap, newcount, left, log, memo)
  BY HeldIs DEF Tended
<1>2. stacks' = stacks => BareSlots'
  BY <1>1 DEF BareSlots
<1>3. CASE TPush
  <2> DEFINE t == left
             v == Len(log)
  <2>1. /\ Defined /\ Inst.op = "TPush" /\ PushSlot(v, t) /\ pc' = Inst.next
        /\ UNCHANGED <<left, log, newcount, memo>>
    BY <1>3 DEF TPush, At, Advance
  <2>2. unused_stack + 1 < StackSize
    BY <2>1 DEF Defined, Pushed
  <2>3. t = NULL
    BY <1>1, <2>1, TreesHere
  <2> HIDE DEF t, v
  <2>4. \A s \in 0..StackSize-1 : stacks'[s].tree = NULL
    BY <1>1, <2>1, <2>2, <2>3, PushTended
  <2>5. Kept(heap', newcount, left, log, memo)
    BY <1>1, <2>1, <2>2, <2>3, PushTended
  <2> QED
    BY <2>1, <2>3, <2>4, <2>5 DEF Tended, BareSlots, t
<1>4. CASE TPop \/ TLink
  <2> DEFINE n == stacks[unused_stack].value
             h2 == BackLog(heap, n).heap
             lg2 == BackLog(heap, n).log
             e == LinkEntry(SymbolAt(Inst.id), left)
  <2>1. /\ Inst.op \in {"TPop", "TLink"} /\ pc' = Inst.next /\ Defined
        /\ UNCHANGED <<stacks, newcount, memo>>
        /\ left' = stacks[unused_stack].tree
    BY <1>4 DEF TPop, TLink, At, Advance
  <2>2. Inst.next \in DOMAIN S /\ S[pc] = Append(S[Inst.next], "tree")
        /\ S[Inst.next] \in Seq(Letters)
    BY <2>1, AtShape DEF PairsAt
  <2>3. n \in Nat
    <3>1. n = L[Len(L)].size
      BY <2>2, TopTree
    <3> QED
      BY <3>1, HeldIs
  <2>4. left' = NULL
    <3>1. unused_stack \in 0..StackSize-1
      BY <2>1 DEF Defined, PopOps, TypeOK
    <3> QED
      BY <1>1, <2>1, <3>1 DEF BareSlots
  <2> HIDE DEF n
  <2>5. Kept(h2, newcount, left, lg2, memo)
    BY <1>1, <2>3, KeptBack
  <2>6. CASE TPop
    <3>1. heap' = h2 /\ log' = lg2
      BY <2>6 DEF TPop, n
    <3> HIDE DEF h2, lg2
    <3>2. Kept(h2, newcount, NULL, lg2, memo)
      BY <2>5, KeptForget
    <3> QED
      BY <1>2, <2>1, <2>4, <3>1, <3>2 DEF Tended
  <2>7. CASE TLink
    <3>1. heap' = GcIncAll(h2, <<left>>) /\ log' = Append(lg2, e)
      BY <2>7 DEF TLink, n
    <3>2. e.op = LinkOp /\ e.tree = left
      BY DEF LinkEntry
    <3> HIDE DEF h2, lg2, e
    <3> DEFINE h3 == GcIncAll(h2, <<left>>)
               lg3 == Append(lg2, e)
    <3>3. Kept(h3, newcount, left, lg3, memo)
      BY <2>5, <3>2, KeptLink
    <3> HIDE DEF h3, lg3
    <3>4. Kept(h3, newcount, NULL, lg3, memo)
      BY <3>3, KeptForget
    <3> QED
      BY <1>2, <2>1, <2>4, <3>1, <3>4 DEF Tended, h3, lg3
  <2> QED
    BY <1>4, <2>6, <2>7
<1>5. CASE TBegin \/ TTag \/ TReplace
  <2>1. /\ Inst.op \in KeepOps /\ pc' = Inst.next
        /\ UNCHANGED <<stacks, left, heap, newcount, memo>>
    BY <1>5 DEF TBegin, TTag, TReplace, At, Advance, frames, KeepOps
  <2>2. PICK e : log' = Append(log, e) /\ e.op # LinkOp
    BY <1>5 DEF TBegin, TTag, TReplace, NewEntry, TagEntry, ReplaceEntry,
                NewOp, LinkOp, TagOp, ReplaceOp
  <2>3. pc' \in H \/ left = NULL
    BY <1>1, <2>1, TreesHere
  <2> DEFINE lg2 == Append(log, e)
  <2>4. Kept(heap, newcount, left, lg2, memo)
    BY <1>1, <2>2, KeptAppend
  <2> QED
    BY <1>2, <2>1, <2>2, <2>3, <2>4 DEF Tended
<1>6. CASE TEnd
  BY <1>6, EndTended
<1>7. CASE TFold
  <2> DEFINE e == NewEntry(pos + Inst.shift)
             link == LinkEntry(SymbolAt(Inst.id % 256), left)
             h2 == GcIncAll(heap, <<left>>)
             lg2 == Append(log, e)
             lg3 == Append(lg2, link)
  <2>1. /\ Inst.op \in KeepOps /\ pc' = Inst.next
        /\ log' = log \o <<e, link>> /\ heap' = h2
        /\ UNCHANGED <<stacks, left, newcount, memo>>
    BY <1>7 DEF TFold, At, Advance, frames, KeepOps
  <2>2. pc' \in H \/ left = NULL
    BY <1>1, <2>1, TreesHere
  <2>3. e.op # LinkOp /\ link.op = LinkOp /\ link.tree = left
    BY DEF NewEntry, LinkEntry, NewOp, LinkOp
  <2> HIDE DEF e, link
  <2>4. log' = lg3
    <3>1. log \in Seq(Range(log))
      BY HeldIs
    <3> QED
      BY <2>1, <3>1
  <2>5. Kept(heap, newcount, left, lg2, memo)
    BY <1>1, <2>3, KeptAppend
  <2> HIDE DEF lg2
  <2>6. Kept(h2, newcount, left, lg3, memo)
    BY <2>3, <2>5, KeptLink
  <2> QED
    BY <1>2, <2>1, <2>2, <2>4, <2>6 DEF Tended
<1> QED
  BY <1>3, <1>4, <1>5, <1>6, <1>7 DEF Build

\* left stored for the memo point uid at p.
LEMMA StoreTended ==
  ASSUME TypeOK, Kept(heap, newcount, left, log, memo), NEW p \in Int, NEW uid \in Nat,
         NEW res, Store(uid, p, res)
  PROVE  Kept(Stored(uid, p), newcount, left, log, memo')
<1> DEFINE x == Hash(LongKey(p, uid))
           e == [key |-> LongKey(p, uid), consumed |-> pos - p, tree |-> left,
                 result |-> res]
           mm2 == [memo EXCEPT ![x] = e]
           h2 == GcSet(heap, memo[x].tree, left)
<1>1. memo' = mm2 /\ Stored(uid, p) = h2
  BY DEF Store, Stored
<1>2. x \in DOMAIN memo
  BY MemoSlotOK DEF TypeOK
<1>3. e.tree = left
  OBVIOUS
<1> HIDE DEF x, e
<1>4. Kept(h2, newcount, left, log, mm2)
  BY <1>2, <1>3, KeptStore
<1> QED
  BY <1>1, <1>4

\* Memo instructions.
LEMMA MemoizeTended ==
  ASSUME NEW S, WellShaped(S), TypeOK, NEW L, Held(S, L), NEW H, SavesNoTree(S, H),
         Tended(H), Memoize
  PROVE  Tended(H)'
<1>1. /\ pc \in DOMAIN S /\ BareSlots /\ (pc \in H \/ left = NULL)
      /\ Kept(heap, newcount, left, log, memo)
  BY HeldIs DEF Tended
<1>2. stacks' = stacks => BareSlots'
  BY <1>1 DEF BareSlots
<1>3. Defined /\ Inst.uid \in Nat /\ pos \in Int
  BY InstTyped DEF Memoize, Lookup, TLookup, Memo, MemoFail, At, InstOK, TypeOK
<1>4. CASE memo' = memo /\ PopFail(heap)
  BY <1>1, <1>4, FailTended
<1>5. CASE Inst.op \in KeepOps /\ pc' = Inst.next /\ memo' = memo /\ UNCHANGED <<stacks, tree>>
  <2>1. pc' \in H \/ left = NULL
    BY <1>1, <1>5, TreesHere
  <2> QED
    BY <1>1, <1>2, <1>5, <2>1, StillTended DEF tree
<1>6. CASE Lookup
  <2>1. CASE /\ Inst.op = "Lookup" /\ pc' = Inst.next + Inst.jump /\ memo' = memo
             /\ UNCHANGED <<stacks, tree>>
    <3>1. pc' \in H \/ left = NULL
      BY <1>1, <2>1, TreesHere
    <3> QED
      BY <1>1, <1>2, <2>1, <3>1, StillTended DEF tree
  <2> QED
    BY <1>4, <1>5, <1>6, <2>1 DEF Lookup, At, Advance, frames, KeepOps
<1>7. CASE TLookup
  <2> DEFINE x == Hash(LongKey(pos, Inst.uid))
             t == Entry(Inst.uid).tree
             h2 == GcSet(heap, left, t)
  <2>1. Inst.op = "TLookup" /\ memo' = memo
    BY <1>7 DEF TLookup, At
  <2>2. x \in DOMAIN memo /\ t = memo[x].tree
    BY <1>3, MemoSlotOK DEF TypeOK, Entry
  <2> HIDE DEF x
  <2>3. Kept(h2, newcount, t, log, memo)
    <3> HIDE DEF t
    <3> QED
      BY <1>1, <2>2, KeptTake
  <2>4. CASE PopFail(h2)
    <3> HIDE DEF t, h2
    <3> QED
      BY <1>1, <2>1, <2>3, <2>4, FailTended
  <2>5. CASE /\ left' = t /\ heap' = h2 /\ pc' = Inst.next + Inst.jump
             /\ UNCHANGED <<stacks, log, newcount>>
    <3>1. pc' \in H
      BY <1>1, <2>1, <2>5, TreesHere
    <3> HIDE DEF t, h2
    <3> QED
      BY <1>2, <2>1, <2>3, <2>5, <3>1 DEF Tended
  <2> QED
    BY <1>5, <1>7, <2>4, <2>5 DEF TLookup, At, Advance, frames, KeepOps
<1>8. CASE Memo
  <2> DEFINE ppos == stacks[fail_stack + 1].value
  <2>1. /\ Inst.op \in KeepOps /\ pc' = Inst.next /\ Store(Inst.uid, ppos, SuccFound)
        /\ heap' = Stored(Inst.uid, ppos) /\ UNCHANGED <<stacks, left, log, newcount>>
    BY <1>8 DEF Memo, At, Advance, PopSucc, KeepOps
  <2>2. ppos \in Int
    <3>1. fail_stack + 1 \in 0..StackSize-1
      BY FrameInRange, StackAssumption
    <3> QED
      BY <3>1 DEF TypeOK, SlotType
  <2> HIDE DEF ppos
  <2>3. Kept(Stored(Inst.uid, ppos), newcount, left, log, memo')
    BY <1>1, <1>3, <2>1, <2>2, StoreTended
  <2>4. pc' \in H \/ left = NULL
    BY <1>1, <2>1, TreesHere
  <2> QED
    BY <1>2, <2>1, <2>3, <2>4 DEF Tended
<1>9. CASE MemoFail
  <2> DEFINE h2 == Stored(Inst.uid, pos)
             mm2 == memo'
  <2>1. Store(Inst.uid, pos, FailFound) /\ PopFail(h2)
    BY <1>9 DEF MemoFail
  <2>2. Kept(h2, newcount, left, log, mm2)
    BY <1>1, <1>3, <2>1, StoreTended
  <2>3. memo' = mm2
    OBVIOUS
  <2> HIDE DEF h2, mm2
  <2> QED
    BY <1>1, <2>1, <2>2, <2>3, FailTended
<1> QED
  BY <1>6, <1>7, <1>8, <1>9 DEF Memoize
-----------------------------------------------------------------------------
(* The trees live as long as the context.                                  *)

\* The inductive invariant of a program that saves no tree.
TreesHeld(H) ==
  /\ BareSlots
  /\ status = "run" => pc \in H \/ left = NULL
  /\ Kept(heap, newcount, left, log, memo)

\* The run starts without trees.
LEMMA TreesInit ==
  ASSUME Init, NEW H
  PROVE  TreesHeld(H)
<1> DEFINE P == Refs(0, NULL, <<>>, memo)
<1>1. /\ stacks = InitStacks /\ left = NULL /\ log = <<>> /\ heap = EmptyHeap
      /\ newcount = 0 /\ memo = [h \in 0..MemoSize-1 |-> EmptyEntry]
  BY DEF Init
<1>2. BareSlots
  BY <1>1 DEF BareSlots, InitStacks, EmptySlot
<1>3. <<>> \in Seq(Range(<<>>))
  OBVIOUS
<1>4. IsFiniteSet(DOMAIN memo)
  <2>1. MemoSize - 1 \in Int
    BY MemoAssumption DEF MemoSize
  <2>2. IsFiniteSet(0..MemoSize-1)
    BY <2>1, FS_Interval
  <2> QED
    BY <1>1, <2>2
<1>5. P \in [1..0 -> Nat]
  BY <1>3, <1>4, RefsIs
<1>6. Counted(EmptyHeap, 0, P)
  <2>1. 1..0 = {}
    OBVIOUS
  <2>2. HeapOK(EmptyHeap, 0)
    BY <2>1 DEF HeapOK, EmptyHeap
  <2>3. Sound(EmptyHeap, 0)
    BY <2>1, <2>2 DEF Sound, EmptyHeap, Bounded
  <2> QED
    BY <1>5, <2>1, <2>3 DEF Counted, EmptyHeap
<1>7. Covered(EmptyHeap, 0, P)
  BY <1>5, <1>6 DEF Covered
<1>8. Kept(EmptyHeap, 0, NULL, <<>>, memo)
  BY <1>3, <1>4, <1>7 DEF Kept
<1> QED
  BY <1>1, <1>2, <1>8 DEF TreesHeld

\* The memo emptied.
LEMMA KeptEmptied ==
  ASSUME TypeOK, NEW h, NEW k, NEW l, Kept(h, k, l, log, memo),
         NEW mm, mm = [x \in DOMAIN memo |-> EmptyEntry]
  PROVE  Kept(GcDecAll(h, [x \in 1..MemoSize |-> memo[x-1].tree]), k, l, log, mm)
<1> DEFINE P == Refs(k, l, log, memo)
           Q == Refs(k, l, log, mm)
           f == TreesOf(memo)
           g == [x \in 1..MemoSize |-> memo[x-1].tree]
           at == [x \in 1..MemoSize |-> x - 1]
<1>1. k \in Nat /\ log \in Seq(Range(log)) /\ IsFiniteSet(DOMAIN memo) /\ Covered(h, k, P)
  BY DEF Kept
<1>2. MemoSize \in Nat /\ DOMAIN memo = 0..MemoSize-1 /\ DOMAIN mm = DOMAIN memo
  BY MemoAssumption DEF MemoSize, TypeOK
<1>3. IsFiniteSet(DOMAIN mm) /\ IsFiniteSet(DOMAIN f)
  BY <1>1, <1>2, RefsIs
<1>4. /\ DOMAIN g = 1..MemoSize /\ \A x \in 1..MemoSize : g[x] = memo[x-1].tree
      /\ \A x \in 1..MemoSize : at[x] = x - 1
  OBVIOUS
<1>5. DOMAIN f = 0..MemoSize-1 /\ \A x \in 0..MemoSize-1 : f[x] = memo[x].tree
  BY <1>2 DEF TreesOf
<1> HIDE DEF f, g, at
<1>6. IsFiniteSet(DOMAIN g)
  <2>1. IsFiniteSet(1..MemoSize)
    BY <1>2, FS_Interval
  <2> QED
    BY <1>4, <2>1
<1>7. Into(at, g, f)
  <2>1. \A x \in 1..MemoSize : x - 1 \in 0..MemoSize-1
    BY <1>2
  <2>2. \A x, y \in 1..MemoSize : x - 1 = y - 1 => x = y
    BY <1>2
  <2>3. \A x \in DOMAIN g : at[x] \in DOMAIN f
    BY <1>4, <1>5, <2>1
  <2>4. \A x, y \in DOMAIN g : at[x] = at[y] => x = y
    BY <1>4, <2>2
  <2>5. \A x \in DOMAIN g : f[at[x]] = g[x]
    BY <1>4, <1>5, <2>1
  <2> QED
    BY <2>3, <2>4, <2>5 DEF Into
<1>8. ASSUME NEW n \in 1..k
      PROVE  Q[n] + Times(g, n) <= P[n]
  <2>1. P[n] = One(l, n) + Times(LinksOf(log), n) + Times(TreesOf(memo), n)
    BY <1>1, RefsAt
  <2>2. Q[n] = One(l, n) + Times(LinksOf(log), n) + Times(TreesOf(mm), n)
    BY <1>1, <1>3, RefsAt
  <2>3. /\ One(l, n) \in Nat /\ Times(LinksOf(log), n) \in Nat
        /\ Times(TreesOf(memo), n) \in Nat
    BY <1>1, RefsIs
  <2>4. Times(TreesOf(mm), n) = 0
    <3>1. IsFiniteSet(DOMAIN TreesOf(mm))
      BY <1>1, <1>3, RefsIs
    <3>2. \A x \in DOMAIN TreesOf(mm) : TreesOf(mm)[x] = NULL
      BY DEF TreesOf, EmptyEntry
    <3>3. NULL # n
      BY <1>1 DEF NULL
    <3> QED
      BY <3>1, <3>2, <3>3, TimesIs
  <2>5. Times(g, n) \in Nat
    BY <1>6, TimesIs
  <2>6. Times(g, n) <= Times(TreesOf(memo), n)
    BY <1>3, <1>7, TimesInto DEF f
  <2> HIDE DEF P, Q
  <2> QED
    BY <2>1, <2>2, <2>3, <2>4, <2>5, <2>6
<1>9. Q \in [1..k -> Nat]
  BY <1>1, <1>3, RefsIs
<1> HIDE DEF P, Q
<1>10. Covered(GcDecAll(h, g), k, Q)
  BY <1>1, <1>6, <1>8, <1>9, DecCovered
<1> QED
  BY <1>1, <1>3, <1>10 DEF Kept, Q, g

\* The context released: the memo's trees and the log's, while no slot has one.
LEMMA DisposeTended ==
  ASSUME TypeOK, BareSlots, Kept(heap, newcount, left, log, memo), Dispose
  PROVE  BareSlots' /\ Kept(heap, newcount, left, log, memo)'
<1> DEFINE h1 == GcDecAll(heap, [h \in 1..MemoSize |-> memo[h-1].tree])
           mm == [h \in DOMAIN memo |-> EmptyEntry]
           h2 == BackLog(h1, 0).heap
           lg2 == BackLog(h1, 0).log
           g == [s \in 1..StackSize |-> stacks[s-1].tree]
<1>1. /\ memo' = mm /\ log' = lg2 /\ heap' = GcDecAll(h2, g)
      /\ stacks' = [s \in DOMAIN stacks |-> [stacks[s] EXCEPT !.tree = NULL]]
      /\ left' = left /\ newcount' = newcount
  BY DEF Dispose
<1>2. Kept(h1, newcount, left, log, mm)
  <2> DEFINE m1 == mm
  <2>1. m1 = mm
    OBVIOUS
  <2> HIDE DEF m1
  <2>2. Kept(GcDecAll(heap, [x \in 1..MemoSize |-> memo[x-1].tree]), newcount, left, log, m1)
    BY <2>1, KeptEmptied
  <2> QED
    BY <2>1, <2>2
<1> HIDE DEF h1, mm
<1>3. 0 \in Nat
  OBVIOUS
<1>4. Kept(h2, newcount, left, lg2, mm)
  BY <1>2, <1>3, KeptBack
<1>5. DOMAIN stacks = 0..StackSize-1 /\ StackSize \in Nat
      /\ \A s \in 0..StackSize-1 : stacks[s] \in SlotType(newcount)
  BY StackAssumption DEF TypeOK
<1>6. \A s \in DOMAIN g : g[s] = NULL
  BY <1>5 DEF BareSlots
<1> HIDE DEF h2, lg2, g
<1>7. heap' = h2
  BY <1>1, <1>6 DEF GcDecAll
<1>8. BareSlots'
  <2> SUFFICES ASSUME NEW s \in 0..StackSize-1 PROVE stacks'[s].tree = NULL
    BY DEF BareSlots
  <2>1. stacks'[s] = [stacks[s] EXCEPT !.tree = NULL]
    BY <1>1, <1>5
  <2>2. [stacks[s] EXCEPT !.tree = NULL].tree = NULL
    BY <1>5 DEF SlotType
  <2> QED
    BY <2>1, <2>2
<1> QED
  BY <1>1, <1>4, <1>7, <1>8

\* Every step keeps the trees.
LEMMA TreesNext ==
  ASSUME NEW S, WellShaped(S), TypeOK, Disciplined(S), NEW H, SavesNoTree(S, H),
         TreesHeld(H), [Next]_vars
  PROVE  TreesHeld(H)'
<1>1. /\ BareSlots /\ (status = "run" => pc \in H \/ left = NULL)
      /\ Kept(heap, newcount, left, log, memo)
  BY DEF TreesHeld
<1>2. CASE UNCHANGED vars \/ Done
  BY <1>2 DEF Done, vars, TreesHeld, BareSlots
<1>3. CASE Dispose
  <2>1. status' # "run"
    BY <1>3 DEF Dispose
  <2> QED
    BY <1>1, <1>3, <2>1, DisposeTended DEF TreesHeld
<1>4. CASE Undefined \/ Unimplemented \/ Exit
  <2>1. status' # "run" /\ UNCHANGED <<stacks, left, log, heap, newcount, memo>>
    BY <1>4 DEF Undefined, Unimplemented, Exit, frames, tree
  <2> QED
    BY <1>1, <2>1 DEF TreesHeld, BareSlots
<1>5. CASE (Control \/ Scan \/ Build \/ Memoize) /\ ~Exit /\ ~Unimplemented
  <2>1. status = "run" /\ status' = status /\ Defined /\ Inst.op # "Exit"
    BY <1>5 DEF Control, Nop, Pos, Back, Jump, Call, Ret, Alt,
         Succ, Fail, Step, Scan, Consume, AnyByte, NotMatch, NAny, Optional, Repeat,
         Dispatch, Build, TPush, TPop, TBegin, TEnd, TTag, TReplace, TLink, TFold,
         Memoize, Lookup, TLookup, Memo, MemoFail, At, RepeatOps
  <2>2. PICK L : Held(S, L)
    BY <2>1, FailedExits DEF Disciplined
  <2>3. Tended(H)
    BY <1>1, <2>1 DEF Tended
  <2>4. Tended(H)'
    BY <1>5, <2>1, <2>2, <2>3, ControlTended, ScanTended, BuildTended, MemoizeTended
  <2> QED
    BY <2>4 DEF Tended, TreesHeld
<1> QED
  BY <1>2, <1>3, <1>4, <1>5 DEF Next
-----------------------------------------------------------------------------
(* What is reached from the roots.                                         *)

\* The step of Reachable's recursion, and its solution from node n on.
Joined(nodes, S, n) ==
  IF n \in nodes \/ \E m \in S : n \in Range(heap.nodes[m].childs) THEN S \cup {n} ELSE S
Gathers(nodes, n, f) ==
  \A i \in n..newcount+1 : f[i] = IF i > newcount THEN {} ELSE Joined(nodes, f[i + 1], i)

\* There is one: each value depends on the next only.
LEMMA GathersExists ==
  ASSUME NEW nodes, newcount \in Nat
  PROVE  \E f : Gathers(nodes, 1, f)
<1> DEFINE k == newcount
           T == {d \in Nat : d <= k => \E f : Gathers(nodes, k + 1 - d, f)}
<1>1. 0 \in T
  <2> DEFINE f == [i \in {k + 1} |-> {}]
  <2>1. \A i \in k+1..k+1 : i = k + 1
    OBVIOUS
  <2>2. Gathers(nodes, k + 1, f)
    BY <2>1 DEF Gathers
  <2>3. k + 1 - 0 = k + 1
    OBVIOUS
  <2> QED
    BY <2>2, <2>3
<1>2. ASSUME NEW d \in Nat, d \in T
      PROVE  d + 1 \in T
  <2> SUFFICES ASSUME d + 1 <= k
               PROVE  \E f : Gathers(nodes, k + 1 - (d + 1), f)
    OBVIOUS
  <2> DEFINE n == k - d
  <2>1. PICK f : Gathers(nodes, k + 1 - d, f)
    BY <1>2
  <2>2. n \in Nat /\ k + 1 - d = n + 1 /\ k + 1 - (d + 1) = n /\ n >= 1 /\ n <= k
    OBVIOUS
  <2> HIDE DEF n
  <2> DEFINE g == [i \in n..k+1 |-> IF i = n THEN Joined(nodes, f[n + 1], n) ELSE f[i]]
  <2>3. ASSUME NEW i \in n..k+1
        PROVE  g[i] = IF i > k THEN {} ELSE Joined(nodes, g[i + 1], i)
    <3>1. CASE i = n
      <4>1. n \in n..k+1 /\ n + 1 \in n..k+1 /\ n + 1 # n /\ ~(i > k)
        BY <2>2, <3>1
      <4>2. g[n + 1] = f[n + 1] /\ g[n] = Joined(nodes, f[n + 1], n)
        BY <4>1
      <4> QED
        BY <3>1, <4>1, <4>2
    <3>2. CASE i # n
      <4>1. i \in n+1..k+1 /\ g[i] = f[i]
        BY <2>2, <3>2
      <4>2. f[i] = IF i > k THEN {} ELSE Joined(nodes, f[i + 1], i)
        BY <2>1, <2>2, <4>1 DEF Gathers
      <4>3. i <= k => g[i + 1] = f[i + 1]
        BY <2>2, <4>1
      <4>4. i \in Int
        BY <2>2
      <4> QED
        BY <4>1, <4>2, <4>3, <4>4
    <3> QED
      BY <3>1, <3>2
  <2>4. Gathers(nodes, n, g)
    BY <2>3 DEF Gathers
  <2> QED
    BY <2>2, <2>4
<1> HIDE DEF T
<1>3. k \in T
  BY <1>1, <1>2, NatSetInduction
<1>4. k + 1 - k = 1
  OBVIOUS
<1> QED
  BY <1>3, <1>4 DEF T

\* So Reachable is what its recursion says.
LEMMA ReachableIs ==
  ASSUME NEW nodes, newcount \in Nat
  PROVE  \E f : Gathers(nodes, 1, f) /\ Reachable(nodes) = f[1]
<1> DEFINE k == newcount
           body(g) == [n \in 1..k+1 |-> IF n > k THEN {} ELSE Joined(nodes, g[n + 1], n)]
           f == CHOOSE g : g = body(g)
<1>1. Reachable(nodes) = f[1]
  BY DEF Reachable, Joined
<1>2. \E g : g = body(g)
  <2>1. PICK g : Gathers(nodes, 1, g)
    BY GathersExists
  <2> DEFINE e == [n \in 1..k+1 |-> g[n]]
  <2>2. ASSUME NEW n \in 1..k+1
        PROVE  e[n] = IF n > k THEN {} ELSE Joined(nodes, e[n + 1], n)
    <3>1. n <= k => n + 1 \in 1..k+1
      OBVIOUS
    <3>2. n \in Int /\ k \in Int
      OBVIOUS
    <3>3. g[n] = IF n > k THEN {} ELSE Joined(nodes, g[n + 1], n)
      BY <2>1 DEF Gathers
    <3>4. e[n] = g[n] /\ (n <= k => e[n + 1] = g[n + 1])
      BY <3>1
    <3> QED
      BY <3>2, <3>3, <3>4
  <2>3. e = body(e)
    <3>1. e = [n \in 1..k+1 |-> e[n]]
      OBVIOUS
    <3> HIDE DEF e
    <3> QED
      BY <2>2, <3>1
  <2> QED
    BY <2>3
<1>3. f = body(f)
  <2> HIDE DEF body
  <2> QED
    BY <1>2
<1> HIDE DEF f
<1>4. Gathers(nodes, 1, f)
  BY <1>3 DEF Gathers
<1> QED
  BY <1>1, <1>4

\* Nodes of A with children in A reach no others.
LEMMA ReachesOnly ==
  ASSUME NEW nodes, newcount \in Nat, NEW A,
         \A n \in 1..newcount : n \in nodes => n \in A,
         \A m \in A : \A n \in 1..newcount : n \in Range(heap.nodes[m].childs) => n \in A
  PROVE  Reachable(nodes) \subseteq A
<1> DEFINE k == newcount
<1>1. PICK f : Gathers(nodes, 1, f) /\ Reachable(nodes) = f[1]
  BY ReachableIs
<1> DEFINE T == {d \in Nat : d <= k => f[k + 1 - d] \subseteq A}
<1>2. 0 \in T
  <2>1. k + 1 - 0 = k + 1 /\ k + 1 \in 1..k+1 /\ k + 1 > k
    OBVIOUS
  <2>2. f[k + 1] = {}
    BY <1>1, <2>1 DEF Gathers
  <2> QED
    BY <2>1, <2>2
<1>3. ASSUME NEW d \in Nat, d \in T
      PROVE  d + 1 \in T
  <2> SUFFICES ASSUME d + 1 <= k PROVE f[k + 1 - (d + 1)] \subseteq A
    OBVIOUS
  <2> DEFINE n == k - d
  <2>1. n \in 1..k /\ k + 1 - d = n + 1 /\ k + 1 - (d + 1) = n /\ n \in 1..k+1 /\ ~(n > k)
    OBVIOUS
  <2>2. f[n + 1] \subseteq A
    BY <1>3, <2>1
  <2> HIDE DEF n
  <2>3. f[n] = Joined(nodes, f[n + 1], n)
    BY <1>1, <2>1 DEF Gathers
  <2>4. f[n] \subseteq A
    BY <2>1, <2>2, <2>3 DEF Joined
  <2> QED
    BY <2>1, <2>4
<1> HIDE DEF T
<1>4. k \in T
  BY <1>2, <1>3, NatSetInduction
<1>5. k + 1 - k = 1 /\ k <= k
  OBVIOUS
<1> QED
  BY <1>1, <1>4, <1>5 DEF T
-----------------------------------------------------------------------------
(* What the counts are worth.                                              *)

\* Nothing the machine reaches is freed.
LEMMA TreesAlive ==
  ASSUME TypeOK, NEW H, TreesHeld(H)
  PROVE  ReachableAlive
<1> DEFINE A == Alive(heap, newcount)
           P == Refs(newcount, left, log, memo)
<1>1. BareSlots /\ Kept(heap, newcount, left, log, memo) /\ newcount \in Nat
  BY DEF TreesHeld, TypeOK
<1>2. /\ left \notin heap.freed
      /\ \A i \in DOMAIN log : log[i].op = LinkOp => log[i].tree \notin heap.freed
      /\ \A x \in DOMAIN memo : memo[x].tree \notin heap.freed
  BY <1>1, KeptInUse
<1>3. \A s \in 0..unused_stack : stacks[s].tree = NULL
  BY <1>1, StackAssumption DEF BareSlots, TypeOK
<1>4. \A n \in Roots : n \notin heap.freed
  BY <1>2, <1>3 DEF Roots
<1>5. \A n \in 1..newcount : n \in Roots => n \in A
  BY <1>4 DEF Alive
<1>6. \A m \in A : \A n \in 1..newcount :
        n \in Range(heap.nodes[m].childs) => n \in A
  <2>1. Covered(heap, newcount, P)
    BY <1>1 DEF Kept
  <2> HIDE DEF P
  <2>2. \A m \in Alive(heap, newcount) : \A n \in 1..newcount :
          n \in Range(heap.nodes[m].childs) => n \notin heap.freed
    BY <1>1, <2>1, CoveredIs
  <2> QED
    BY <2>2 DEF Alive
<1> HIDE DEF A
<1>7. Reachable(Roots) \subseteq A
  BY <1>1, <1>5, <1>6, ReachesOnly
<1> QED
  BY <1>7 DEF ReachableAlive, A, Alive

\* No node is released more often than it was counted.
LEMMA TreesCovered ==
  ASSUME TypeOK, NEW H, TreesHeld(H)
  PROVE  CountsCover
<1> DEFINE A == Alive(heap, newcount)
           P == Refs(newcount, left, log, memo)
<1>1. BareSlots /\ Kept(heap, newcount, left, log, memo) /\ newcount \in Nat
  BY DEF TreesHeld, TypeOK
<1>2. /\ Covered(heap, newcount, P) /\ log \in Seq(Range(log))
      /\ IsFiniteSet(DOMAIN memo)
  BY <1>1 DEF Kept
<1> SUFFICES ASSUME NEW n \in 1..newcount, n \notin heap.freed
             PROVE  Releases(n) <= heap.refc[n]
  BY DEF CountsCover
<1>3. P[n] = One(left, n) + Times(LinksOf(log), n) + Times(TreesOf(memo), n)
  BY <1>1, <1>2, RefsAt
<1>4. One(left, n) \in Nat /\ Times(LinksOf(log), n) \in Nat /\ Times(TreesOf(memo), n) \in Nat
  BY <1>1, <1>2, RefsIs
<1> HIDE DEF P
<1>5. n # NULL
  BY <1>1 DEF NULL
<1>6. Cardinality({h \in DOMAIN memo : memo[h].tree = n}) = Times(TreesOf(memo), n)
  <2>1. {h \in DOMAIN memo : memo[h].tree = n}
          = {h \in DOMAIN TreesOf(memo) : TreesOf(memo)[h] = n}
    BY DEF TreesOf
  <2> QED
    BY <2>1 DEF Times
<1>7. Cardinality({i \in DOMAIN log : log[i].op = LinkOp /\ log[i].tree = n})
        = Times(LinksOf(log), n)
  <2>1. {i \in DOMAIN log : log[i].op = LinkOp /\ log[i].tree = n}
          = {i \in DOMAIN LinksOf(log) : LinksOf(log)[i] = n}
    BY <1>5 DEF LinksOf
  <2> QED
    BY <2>1 DEF Times
<1>8. Cardinality({s \in DOMAIN stacks : stacks[s].tree = n}) = 0
  <2>1. {s \in DOMAIN stacks : stacks[s].tree = n} = {}
    BY <1>1, <1>5 DEF BareSlots, TypeOK
  <2> QED
    BY <2>1, FS_EmptySet
<1>9. Releases(n) = Times(TreesOf(memo), n) + Times(LinksOf(log), n) + 0 + HeldBy(heap, A, n)
  BY <1>6, <1>7, <1>8 DEF Releases, Alive
<1>10. n \in A
  BY DEF Alive
<1>11. P[n] + HeldBy(heap, A, n) <= heap.refc[n] /\ Sound(heap, newcount)
  BY <1>1, <1>2, <1>10, CoveredIs
<1>12. HeldBy(heap, A, n) \in Nat /\ heap.refc[n] \in Nat
  <2>1. A \subseteq 1..newcount
    BY DEF Alive
  <2> HIDE DEF A
  <2>2. IsFiniteSet(A) /\ Bounded(heap, A)
    BY <1>1, <1>11, <2>1, NodesFinite
  <2>3. HeldBy(heap, A, n) \in Nat
    BY <2>2, HeldByIs
  <2> QED
    BY <1>11, <2>3 DEF Sound
<1> DEFINE a == One(left, n)
           b == Times(LinksOf(log), n)
           c == Times(TreesOf(memo), n)
           d == HeldBy(heap, A, n)
           r == heap.refc[n]
           q == P[n]
<1>13. /\ q = a + b + c /\ a \in Nat /\ b \in Nat /\ c \in Nat /\ d \in Nat /\ r \in Nat
       /\ q + d <= r /\ Releases(n) = c + b + 0 + d
  BY <1>3, <1>4, <1>9, <1>11, <1>12
<1> HIDE DEF a, b, c, d, r, q
<1>14. c + b + 0 + d <= r
  BY <1>13
<1> QED
  BY <1>13, <1>14 DEF r
-----------------------------------------------------------------------------
(* The theorems, for a program that pairs its pushes and pops and saves no *)
(* tree.                                                                   *)

\* The invariant of the trees.
LEMMA TreesKept ==
  ASSUME NEW S, WellShaped(S), NEW H, SavesNoTree(S, H)
  PROVE  Spec => [](TypeOK /\ TreesHeld(H))
<1>1. Init => TreesHeld(H)
  BY TreesInit
<1>2. TypeOK /\ Disciplined(S) /\ TreesHeld(H) /\ [Next]_vars => TreesHeld(H)'
  BY TreesNext
<1>3. Spec => []TypeOK
  BY TypeCorrect
<1>4. Spec => []Disciplined(S)
  BY StackDiscipline
<1> QED
  BY <1>1, <1>2, <1>3, <1>4, PTL DEF Spec

\* left, the log, the memo and what they reach are never freed (GC, POP_FAIL,
\* TPop, TLink and ParserContext_memoLookupTree of cnez-runtime.h).
THEOREM TreesStayAlive ==
  ASSUME NEW S, WellShaped(S), NEW H, SavesNoTree(S, H)
  PROVE  Spec => []ReachableAlive
<1>1. TypeOK /\ TreesHeld(H) => ReachableAlive
  BY TreesAlive
<1> QED
  BY <1>1, TreesKept, PTL

\* No node can be released more often than it was counted (GC and GCSET of
\* cnez-runtime.h as the machine, the memo and the log call them).
THEOREM CountsSuffice ==
  ASSUME NEW S, WellShaped(S), NEW H, SavesNoTree(S, H)
  PROVE  Spec => []CountsCover
<1>1. TypeOK /\ TreesHeld(H) => CountsCover
  BY TreesCovered
<1> QED
  BY <1>1, TreesKept, PTL

\* ParserContext_free of cnez-runtime.h frees nothing twice and counts nothing
\* that was freed.
THEOREM DisposesClean ==
  ASSUME NEW S, WellShaped(S), NEW H, SavesNoTree(S, H)
  PROVE  Spec => []CleanDisposal
<1>1. TreesHeld(H) => CleanDisposal
  BY KeptInUse DEF TreesHeld, CleanDisposal
<1> QED
  BY <1>1, TreesKept, PTL

\* The interpreter loop (mininez_parse of nezvm.c) takes no step that C leaves
\* undefined before its stack is full: with a program that also respects the
\* text's Nul, the other reason DefinedUntilFull leaves, a freed node, is none.
THEOREM OnlyFullUndefined ==
  ASSUME NEW S, WellShaped(S), TextSafe(S), NEW H, SavesNoTree(S, H)
  PROVE  Spec => []UndefinedOnlyWhenFull
<1>1. TreesHeld(H) => ~heap.uaf
  BY KeptInUse DEF TreesHeld
<1>2. TypeOK /\ TreesHeld(H) /\ (status = "undefined" => FullOrFreed)
        => UndefinedOnlyWhenFull
  BY <1>1 DEF FullOrFreed, UndefinedOnlyWhenFull
<1> QED
  BY <1>2, TreesKept, DefinedUntilFull, PTL
=============================================================================
