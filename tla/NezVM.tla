------------------------------- MODULE NezVM --------------------------------
(***************************************************************************)
(* The parsing machine: mininez_init_vm and mininez_parse of nezvm.c over  *)
(* the ParserContext of cnez-runtime.h, the exit code's return to main and *)
(* the release of the context.  One action per opcode handler, or per      *)
(* family of handlers that differ only in the test they make on the input. *)
(*                                                                         *)
(* A step that C leaves undefined (a slot past the stack array, a byte     *)
(* past the input's NUL, a pc outside the code, a freed node) takes the    *)
(* machine to status "undefined", after which nothing is claimed.          *)
(***************************************************************************)
EXTENDS TreeHeap

CONSTANTS
  Inputs,      \* the input texts (sequences of bytes) a run may be given
  Code,        \* the loaded program: byte offset -> instruction
  Tags,        \* C->tags
  StartPoint,  \* C->start_point
  StackSize,   \* ParserContext.stack_size, as ParserContext_new sets it
  MemoWindow,  \* w of the bytecode header
  MemoPoints,  \* n of the bytecode header
  InputBase    \* address of inputs[0]; no log is that long

\* The byte load_file appends to the text (other bytes are one-letter strings).
Nul == "NUL"

MemoSize == MemoWindow * MemoPoints + 1

\* Opcodes by operand and by what they do with the input.
StrOps    == {"Str", "NStr", "OStr", "RStr"}
RepeatOps == {"RByte", "RSet", "RStr"}
TextOps   == StrOps \cup RepeatOps \cup
             {"Byte", "Set", "NByte", "NSet", "OByte", "OSet",
              "Dispatch", "DDispatch"}

\* The bytes a text holds, and the one load_file appends.
Bytes == {Nul} \cup UNION {Range(t) : t \in Inputs}

Symbols == {NoSymbol} \cup Range(Tags)

\* The operands the loader writes after the opcode of instruction i: a jump
\* table answers for every byte, a tag id is an index of C->tags, a memo point
\* fits in the 12 bits that longkey leaves it.
InstOK(i) ==
  /\ i.next \in Int
  /\ i.op \in {"Jump", "Call", "Lookup", "TLookup"} => i.jump \in Int
  /\ i.op = "Call" => i.ret \in Int
  /\ i.op = "Alt" => i.alt \in Int
  /\ i.op = "Exit" => i.code \in Nat
  /\ i.op \in StrOps => i.str \in Seq(Bytes)
  /\ i.op \in {"Dispatch", "DDispatch"} => \A b \in Bytes : i.table[b] \in Nat
  /\ i.op \in {"TBegin", "TEnd", "TFold"} => i.shift \in Int
  /\ i.op \in {"TEnd", "TTag", "TLink", "TFold"} => i.id \in 0..Len(Tags)-1
  /\ i.op \in {"Lookup", "TLookup", "Memo", "TMemo", "MemoFail"} =>
       i.uid \in Nat /\ i.uid < 4096

ASSUME MemoAssumption == MemoWindow \in Nat /\ MemoPoints \in Nat
ASSUME StackAssumption == StackSize \in Nat /\ StackSize > 4
ASSUME InputAssumption == InputBase \in Nat \ {0} /\ Inputs \subseteq Seq(Bytes)
ASSUME CodeAssumption ==
  /\ StartPoint \in Nat
  /\ Tags \in Seq(Symbols)
  /\ \A o \in DOMAIN Code : InstOK(Code[o])

VARIABLES
  input,         \* the text under parse
  pc,            \* byte offset of the next instruction
  pos,           \* ParserContext.pos, an address
  left,          \* ParserContext.left
  stacks,        \* ParserContext.stacks
  unused_stack,  \* index of the top slot
  fail_stack,    \* index of the innermost failure frame
  log,           \* the first unused_log entries of ParserContext.logs
  memo,          \* ParserContext.memoArray
  heap,          \* every tree node
  newcount,      \* t_newcount
  status,        \* "run", "exit", "disposed", "aborted" or "undefined"
  result         \* what mininez_parse returned

frames  == <<stacks, unused_stack, fail_stack>>
tree    == <<left, log, heap, newcount>>
vars    == <<input, pc, pos, left, stacks, unused_stack, fail_stack, log,
             memo, heap, newcount, status, result>>

NewOp == "new"
LinkOp == "link"
TagOp == "tag"
ReplaceOp == "replace"

NotFound  == 0
SuccFound == 1
FailFound == 2

EmptySlot  == [value |-> 0, num |-> 0, tree |-> NULL]
EmptyEntry == [key |-> -1, consumed |-> 0, tree |-> NULL, result |-> NotFound]

\* mininez_init_vm after ParserContext_new: the bottom frame and the return
\* to offset 2.  unusedStack increments first, so slot 0 stays zero.
InitStacks ==
  [s \in 0..StackSize-1 |->
     CASE s = 2 -> [EmptySlot EXCEPT !.value = InputBase]
       [] s = 4 -> [EmptySlot EXCEPT !.value = 2]
       [] OTHER -> EmptySlot]

Init ==
  /\ input \in Inputs
  /\ pc = StartPoint
  /\ pos = InputBase
  /\ left = NULL
  /\ stacks = InitStacks
  /\ unused_stack = 4
  /\ fail_stack = 0
  /\ log = <<>>
  /\ memo = [h \in 0..MemoSize-1 |-> EmptyEntry]
  /\ heap = EmptyHeap
  /\ newcount = 0
  /\ status = "run"
  /\ result = 0
-----------------------------------------------------------------------------
(* The input text.                                                         *)

tail == InputBase + Len(input)

\* Address p is inside the buffer load_file allocated.
InText(p) == p \in InputBase..tail

ByteAt(p) == IF p = tail THEN Nul ELSE input[p - InputBase + 1]

\* Seeded fault: a string that ends the input does not match.
StartsWithBeforeEnd(p, str) ==
  /\ p + Len(str) < tail
  /\ SubSeq(input, p - InputBase + 1, p - InputBase + Len(str)) = str

\* pstring_starts_with, strings holding no Nul.
StartsWith(p, str) ==
  /\ p + Len(str) <= tail
  /\ SubSeq(input, p - InputBase + 1, p - InputBase + Len(str)) = str

\* The test of a byte, set or string instruction at address p, and how far a
\* success consumes.
Hit(i, p) == /\ InText(p)
             /\ IF i.op \in StrOps THEN StartsWith(p, i.str)
                                   ELSE ByteAt(p) \in i.set
Width(i)  == IF i.op \in StrOps THEN Len(i.str) ELSE 1

\* The loop of repeat instruction i stops after k matches.
Stops(i, k) == /\ ~Hit(i, pos + k * Width(i))
               /\ \A j \in 0..k-1 : Hit(i, pos + j * Width(i))
-----------------------------------------------------------------------------
(* Dispatch.                                                               *)

Inst == Code[pc]

\* Slots a handler pushes; handlers that pop one slot.
Pushed(op) == CASE op \in {"Pos", "Call", "TPush"} -> 1
                [] op = "Alt" -> 3
                [] OTHER -> 0
PopOps == {"Back", "Ret", "TPop", "TLink"}

\* Log entry n is the innermost OpNew.
LastNew(n) == /\ log[n].op = NewOp
              /\ \A m \in n+1..Len(log) : log[m].op # NewOp

\* What the next step needs for C to define it (that fail_stack is in range is
\* asked of every step, not only of those that follow it).  Nop does not skip
\* its operand: production 0 reads as two more Nops, while the bytes of another
\* id would run as opcodes, where the model does not follow.
Defined ==
  /\ ~heap.uaf
  /\ pc \in DOMAIN Code
  /\ unused_stack + Pushed(Inst.op) < StackSize
  /\ Inst.op \in PopOps => unused_stack >= 0
  /\ fail_stack \in 0..StackSize-3
  /\ Inst.op \in TextOps => InText(pos)
  /\ Inst.op \in RepeatOps =>
       \E k \in 0..Len(input) : Stops(Inst, k) /\ InText(pos + k * Width(Inst))
  /\ Inst.op = "TEnd" => \E n \in DOMAIN log : LastNew(n)
  /\ Inst.op = "Nop" => Inst.prod = 0

\* The dispatcher reaches a handler of ops and the parse goes on after it.
At(ops) ==
  /\ status = "run"
  /\ Defined
  /\ Inst.op \in ops
  /\ UNCHANGED <<input, status, result>>

Advance == pc' = Inst.next

\* A step C does not define: nothing is claimed from here on.
Undefined ==
  /\ status = "run"
  /\ ~Defined
  /\ status' = "undefined"
  /\ UNCHANGED <<input, pc, pos, frames, tree, memo, result>>
-----------------------------------------------------------------------------
(* The stack.                                                              *)

\* push (t = NULL) and pushW: num keeps what the slot held before.
PushSlot(value, t) ==
  LET s == unused_stack + 1
  IN  /\ unused_stack' = s
      /\ stacks' = [stacks EXCEPT ![s].value = value, ![s].tree = t]
      /\ heap' = GcSet(heap, stacks[s].tree, t)

\* Seeded fault: one entry too many is kept.
BackLogKeepsOne(h, n) ==
  LET keep == IF n + 1 < Len(log) THEN n + 1 ELSE Len(log)
      TreeOf(e) == IF e.op = LinkOp THEN e.tree ELSE NULL
  IN  [log  |-> SubSeq(log, 1, keep),
       heap |-> GcDecAll(h, [i \in 1..Len(log)-keep |-> TreeOf(log[keep + i])])]

\* ParserContext_backLog on heap h: drop the log entries from n on.
BackLog(h, n) ==
  LET keep == IF n < Len(log) THEN n ELSE Len(log)
      TreeOf(e) == IF e.op = LinkOp THEN e.tree ELSE NULL
  IN  [log  |-> SubSeq(log, 1, keep),
       heap |-> GcDecAll(h, [i \in 1..Len(log)-keep |-> TreeOf(log[keep + i])])]

\* Seeded fault: the frame is linked by its last slot instead of its first.
PushFailAtTop(alt) ==
  LET s == unused_stack + 1
  IN  /\ unused_stack' = s + 2
      /\ fail_stack' = s + 2
      /\ stacks' = [stacks EXCEPT
                      ![s]   = [@ EXCEPT !.value = fail_stack, !.tree = left],
                      ![s+1] = [value |-> pos, num |-> alt, tree |-> NULL],
                      ![s+2] = [value |-> Len(log), num |-> 0, tree |-> NULL]]
      /\ heap' = heap

\* PUSH_FAIL: the frame's three slots (previous frame and left; position and
\* alternative; log size).
PushFail(alt) ==
  LET s == unused_stack + 1
  IN  /\ unused_stack' = s + 2
      /\ fail_stack' = s
      /\ stacks' = [stacks EXCEPT
                      ![s]   = [@ EXCEPT !.value = fail_stack, !.tree = left],
                      ![s+1] = [value |-> pos, num |-> alt, tree |-> NULL],
                      ![s+2] = [value |-> Len(log), num |-> 0, tree |-> NULL]]
      /\ heap' = GcDecAll(GcSet(heap, stacks[s].tree, left),
                          <<stacks[s+1].tree, stacks[s+2].tree>>)

\* Seeded fault: the slot below the frame is dropped with it.
PopFailTooFar(h) ==
  LET back == BackLog(h, stacks[fail_stack + 2].value)
  IN  /\ unused_stack' = fail_stack - 2
      /\ left' = stacks[fail_stack].tree
      /\ fail_stack' = stacks[fail_stack].value
      /\ pos' = stacks[fail_stack + 1].value
      /\ pc' = stacks[fail_stack + 1].num
      /\ log' = back.log
      /\ heap' = back.heap
      /\ UNCHANGED <<stacks, newcount>>

\* POP_FAIL on heap h: back to the innermost alternative.
PopFail(h) ==
  LET back == BackLog(h, stacks[fail_stack + 2].value)
  IN  /\ unused_stack' = fail_stack - 1
      /\ left' = stacks[fail_stack].tree
      /\ fail_stack' = stacks[fail_stack].value
      /\ pos' = stacks[fail_stack + 1].value
      /\ pc' = stacks[fail_stack + 1].num
      /\ log' = back.log
      /\ heap' = back.heap
      /\ UNCHANGED <<stacks, newcount>>

\* Seeded fault: the frame is popped but stays the innermost one.
PopSuccStillLinked ==
  /\ unused_stack' = fail_stack - 1
  /\ UNCHANGED <<stacks, fail_stack>>

\* POP_SUCC: forget the innermost alternative.
PopSucc ==
  /\ unused_stack' = fail_stack - 1
  /\ fail_stack' = stacks[fail_stack].value
  /\ UNCHANGED stacks
-----------------------------------------------------------------------------
(* Control instructions.                                                   *)

Nop == /\ At({"Nop"})
       /\ Advance
       /\ UNCHANGED <<pos, frames, tree, memo>>

Exit == /\ status = "run"
        /\ Defined
        /\ Inst.op = "Exit"
        /\ status' = "exit"
        /\ result' = Inst.code
        /\ UNCHANGED <<input, pc, pos, frames, tree, memo>>

\* Handlers that only print a message and exit(EXIT_FAILURE).
Unimplemented ==
  /\ status = "run"
  /\ Defined
  /\ Inst.op \in {"Cov", "Trap", "Move", "Guard", "TEmit", "SOpen", "SClose",
                  "SMask", "SDef", "SExists", "SIsDef", "SMatch", "SIs",
                  "SIsa", "NScan", "NDec"}
  /\ status' = "aborted"
  /\ UNCHANGED <<input, pc, pos, frames, tree, memo, result>>

Pos == /\ At({"Pos"})
       /\ PushSlot(pos, NULL)
       /\ Advance
       /\ UNCHANGED <<pos, fail_stack, left, log, newcount, memo>>

Back == /\ At({"Back"})
        /\ pos' = stacks[unused_stack].value
        /\ unused_stack' = unused_stack - 1
        /\ Advance
        /\ UNCHANGED <<stacks, fail_stack, tree, memo>>

Jump == /\ At({"Jump"})
        /\ pc' = Inst.next + Inst.jump
        /\ UNCHANGED <<pos, frames, tree, memo>>

Call == /\ At({"Call"})
        /\ PushSlot(Inst.ret, NULL)
        /\ pc' = Inst.next + Inst.jump
        /\ UNCHANGED <<pos, fail_stack, left, log, newcount, memo>>

Ret == /\ At({"Ret"})
       /\ pc' = stacks[unused_stack].value
       /\ unused_stack' = unused_stack - 1
       /\ UNCHANGED <<pos, stacks, fail_stack, tree, memo>>

Alt == /\ At({"Alt"})
       /\ PushFail(Inst.alt)
       /\ Advance
       /\ UNCHANGED <<pos, left, log, newcount, memo>>

Succ == /\ At({"Succ"})
        /\ PopSucc
        /\ Advance
        /\ UNCHANGED <<pos, tree, memo>>

Fail == /\ At({"Fail"})
        /\ PopFail(heap)
        /\ UNCHANGED memo

\* Seeded fault: an iteration that consumed nothing goes on.
StepAlways ==
  /\ At({"Step"})
  /\ stacks' = [stacks EXCEPT
                  ![fail_stack]     = [@ EXCEPT !.tree = left],
                  ![fail_stack + 1] = [@ EXCEPT !.value = pos],
                  ![fail_stack + 2] = [@ EXCEPT !.value = Len(log), !.num = 0]]
  /\ Advance
  /\ UNCHANGED <<pos, unused_stack, fail_stack, tree, memo>>

\* STEP_FAIL: an iteration that consumed nothing ends the loop; otherwise the
\* loop's frame now restores the state after this iteration.
Step ==
  /\ At({"Step"})
  /\ \/ /\ stacks[fail_stack + 1].value = pos
        /\ PopFail(heap)
     \/ /\ stacks[fail_stack + 1].value # pos
        /\ stacks' = [stacks EXCEPT
                        ![fail_stack]     = [@ EXCEPT !.tree = left],
                        ![fail_stack + 1] = [@ EXCEPT !.value = pos],
                        ![fail_stack + 2] = [@ EXCEPT !.value = Len(log),
                                                      !.num = 0]]
        /\ Advance
        /\ UNCHANGED <<pos, unused_stack, fail_stack, tree>>
  /\ UNCHANGED memo
-----------------------------------------------------------------------------
(* Instructions on the input.                                              *)

\* Byte, Set, Str
Consume ==
  /\ At({"Byte", "Set", "Str"})
  /\ \/ /\ Hit(Inst, pos)
        /\ pos' = pos + Width(Inst)
        /\ Advance
        /\ UNCHANGED <<frames, tree>>
     \/ ~Hit(Inst, pos) /\ PopFail(heap)
  /\ UNCHANGED memo

AnyByte ==
  /\ At({"Any"})
  /\ \/ pos = tail /\ PopFail(heap)
     \/ pos # tail /\ pos' = pos + 1 /\ Advance /\ UNCHANGED <<frames, tree>>
  /\ UNCHANGED memo

\* NByte, NSet, NStr
NotMatch ==
  /\ At({"NByte", "NSet", "NStr"})
  /\ \/ Hit(Inst, pos) /\ PopFail(heap)
     \/ ~Hit(Inst, pos) /\ Advance /\ UNCHANGED <<pos, frames, tree>>
  /\ UNCHANGED memo

NAny ==
  /\ At({"NAny"})
  /\ \/ pos = tail /\ Advance /\ UNCHANGED <<pos, frames, tree>>
     \/ pos # tail /\ PopFail(heap)
  /\ UNCHANGED memo

\* OByte, OSet, OStr
Optional ==
  /\ At({"OByte", "OSet", "OStr"})
  /\ pos' = IF Hit(Inst, pos) THEN pos + Width(Inst) ELSE pos
  /\ Advance
  /\ UNCHANGED <<frames, tree, memo>>

\* Seeded fault: the byte that ended the loop is consumed too.
RepeatOneMore ==
  /\ At(RepeatOps)
  /\ \E k \in 0..Len(input) : /\ Stops(Inst, k)
                              /\ pos' = pos + (k + 1) * Width(Inst)
  /\ Advance
  /\ UNCHANGED <<frames, tree, memo>>

\* RByte, RSet, RStr
Repeat ==
  /\ At(RepeatOps)
  /\ \E k \in 0..Len(input) : Stops(Inst, k) /\ pos' = pos + k * Width(Inst)
  /\ Advance
  /\ UNCHANGED <<frames, tree, memo>>

\* Dispatch, DDispatch: the table entries are unsigned, DDispatch consumes.
Dispatch ==
  /\ At({"Dispatch", "DDispatch"})
  /\ pc' = Inst.next + Inst.table[ByteAt(pos)]
  /\ pos' = IF Inst.op = "DDispatch" THEN pos + 1 ELSE pos
  /\ UNCHANGED <<frames, tree, memo>>
-----------------------------------------------------------------------------
(* Syntax tree instructions.                                               *)

SymbolAt(id) == Tags[id + 1]

NewEntry(p)         == [op |-> NewOp, pos |-> p]
LinkEntry(label, t) == [op |-> LinkOp, label |-> label, tree |-> t]
TagEntry(tag)       == [op |-> TagOp, tag |-> tag]
ReplaceEntry(text)  == [op |-> ReplaceOp, text |-> text]

\* A node's text: a stretch of the input or a constant of the program.
Span(from, len) == [from |-> from, len |-> len]
Literal(str)    == [str |-> str]

TPush == /\ At({"TPush"})
         /\ PushSlot(Len(log), left)
         /\ Advance
         /\ UNCHANGED <<pos, fail_stack, left, log, newcount, memo>>

TPop ==
  LET top  == stacks[unused_stack]
      back == BackLog(heap, top.value)
  IN  /\ At({"TPop"})
      /\ unused_stack' = unused_stack - 1
      /\ log' = back.log
      /\ heap' = back.heap
      /\ left' = top.tree
      /\ Advance
      /\ UNCHANGED <<pos, stacks, fail_stack, newcount, memo>>

TBegin == /\ At({"TBegin"})
          /\ log' = Append(log, NewEntry(pos + Inst.shift))
          /\ Advance
          /\ UNCHANGED <<pos, frames, left, heap, newcount, memo>>

\* The k-th link of the node that log entry start began, as a log position.
LinkAt(start) ==
  LET links == {i \in start+1..Len(log) : log[i].op = LinkOp}
      Rank(i) == Cardinality({j \in links : j <= i})
  IN  [k \in {Rank(i) : i \in links} |-> CHOOSE i \in links : Rank(i) = k]

\* The last entry after start that logs op, if any.
LastLogged(start, op) ==
  {i \in start+1..Len(log) : /\ log[i].op = op
                             /\ \A j \in i+1..Len(log) : log[j].op # op}

\* ParserContext_endTree over the log from the innermost OpNew on.  The tag is
\* the operand, else the last tag logged; the text the operand, else the last
\* replacement logged, else the input since the OpNew; the children the links.
EndTag(start) ==
  IF SymbolAt(Inst.id) # NoSymbol \/ LastLogged(start, TagOp) = {}
  THEN SymbolAt(Inst.id)
  ELSE LET i == CHOOSE i \in LastLogged(start, TagOp) : TRUE IN log[i].tag

\* Seeded fault: the text of a node runs to the position, shift or no shift.
EndTextToPos(start) ==
  IF Inst.value # <<>> THEN Literal(Inst.value)
  ELSE IF LastLogged(start, ReplaceOp) = {}
       THEN Span(log[start].pos, pos - log[start].pos)
       ELSE LET i == CHOOSE i \in LastLogged(start, ReplaceOp) : TRUE
            IN  Literal(log[i].text)

EndText(start) ==
  IF Inst.value # <<>> THEN Literal(Inst.value)
  ELSE IF LastLogged(start, ReplaceOp) = {}
       THEN Span(log[start].pos, pos + Inst.shift - log[start].pos)
       ELSE LET i == CHOOSE i \in LastLogged(start, ReplaceOp) : TRUE
            IN  Literal(log[i].text)

\* Seeded fault: the node's references to its children are not counted.
MadeUncounted(start) ==
  LET at     == LinkAt(start)
      labels == [k \in DOMAIN at |-> log[at[k]].label]
      childs == [k \in DOMAIN at |-> log[at[k]].tree]
  IN  GcSet(New(heap, EndTag(start), EndText(start), labels, childs),
            left, newcount + 1)

\* The heap with the node in it, left set to the node, the children counted.
Made(start) ==
  LET at     == LinkAt(start)
      labels == [k \in DOMAIN at |-> log[at[k]].label]
      childs == [k \in DOMAIN at |-> log[at[k]].tree]
  IN  GcIncAll(GcSet(New(heap, EndTag(start), EndText(start), labels, childs),
                     left, newcount + 1),
               childs)

TEnd ==
  \E start \in DOMAIN log :
    LET back == BackLog(Made(start), start - 1)
    IN  /\ At({"TEnd"})
        /\ LastNew(start)
        /\ left' = newcount + 1
        /\ newcount' = newcount + 1
        /\ log' = back.log
        /\ heap' = back.heap
        /\ Advance
        /\ UNCHANGED <<pos, frames, memo>>

TTag == /\ At({"TTag"})
        /\ log' = Append(log, TagEntry(SymbolAt(Inst.id)))
        /\ Advance
        /\ UNCHANGED <<pos, frames, left, heap, newcount, memo>>

TReplace == /\ At({"TReplace"})
            /\ log' = Append(log, ReplaceEntry(Inst.value))
            /\ Advance
            /\ UNCHANGED <<pos, frames, left, heap, newcount, memo>>

\* The tree built since the matching TPush becomes a child of the open node.
TLink ==
  LET top  == stacks[unused_stack]
      back == BackLog(heap, top.value)
  IN  /\ At({"TLink"})
      /\ unused_stack' = unused_stack - 1
      /\ log' = Append(back.log, LinkEntry(SymbolAt(Inst.id), left))
      /\ heap' = GcIncAll(back.heap, <<left>>)
      /\ left' = top.tree
      /\ Advance
      /\ UNCHANGED <<pos, stacks, fail_stack, newcount, memo>>

\* Seeded faults: the folded tree is logged before the node it belongs to, and
\* the node is not begun at all.
TFoldLinkFirst ==
  /\ At({"TFold"})
  /\ log' = log \o <<LinkEntry(SymbolAt(Inst.id % 256), left),
                     NewEntry(pos + Inst.shift)>>
  /\ heap' = GcIncAll(heap, <<left>>)
  /\ Advance
  /\ UNCHANGED <<pos, frames, left, newcount, memo>>
TFoldLinkOnly ==
  /\ At({"TFold"})
  /\ log' = Append(log, LinkEntry(SymbolAt(Inst.id % 256), left))
  /\ heap' = GcIncAll(heap, <<left>>)
  /\ Advance
  /\ UNCHANGED <<pos, frames, left, newcount, memo>>

\* ParserContext_foldTree; the handler keeps the label id in a uint8_t.
TFold == /\ At({"TFold"})
         /\ log' = log \o <<NewEntry(pos + Inst.shift),
                            LinkEntry(SymbolAt(Inst.id % 256), left)>>
         /\ heap' = GcIncAll(heap, <<left>>)
         /\ Advance
         /\ UNCHANGED <<pos, frames, left, newcount, memo>>
-----------------------------------------------------------------------------
(* Memoization.                                                            *)

\* Seeded fault: the memo point is added without the shift that makes room.
LongKeyUnshifted(p, memoPoint) == (p - InputBase) + memoPoint

\* longkey: (pos << 12) | memoPoint, for memo points below 4096.
LongKey(p, memoPoint) == (p - InputBase) * 4096 + memoPoint

Hash(key) == key % MemoSize

\* The entry the lookups read, and whether it is the one asked for.
Entry(memoPoint) == memo[Hash(LongKey(pos, memoPoint))]
Found(memoPoint) == Entry(memoPoint).key = LongKey(pos, memoPoint)

\* Seeded faults: the length stored is a position; the table's reference to the
\* tree is not counted.
StoreAbsolute(memoPoint, p, res) ==
  LET key == LongKey(p, memoPoint)
  IN  memo' = [memo EXCEPT ![Hash(key)] =
                 [key |-> key, consumed |-> pos - InputBase, tree |-> left,
                  result |-> res]]
StoredUncounted(memoPoint, p) == heap

\* ParserContext_memoSucc, memoTreeSucc and memoFail: overwrite the entry,
\* whatever key it holds.
Store(memoPoint, p, res) ==
  LET key == LongKey(p, memoPoint)
  IN  memo' = [memo EXCEPT ![Hash(key)] =
                 [key |-> key, consumed |-> pos - p, tree |-> left,
                  result |-> res]]
Stored(memoPoint, p) ==
  GcSet(heap, memo[Hash(LongKey(p, memoPoint))].tree, left)

\* Lookup: ParserContext_memoLookup.
Lookup ==
  /\ At({"Lookup"})
  /\ \/ /\ ~Found(Inst.uid)
        /\ Advance
        /\ UNCHANGED <<pos, frames, tree>>
     \/ /\ Found(Inst.uid) /\ Entry(Inst.uid).result = SuccFound
        /\ pos' = pos + Entry(Inst.uid).consumed
        /\ pc' = Inst.next + Inst.jump
        /\ UNCHANGED <<frames, tree>>
     \/ /\ Found(Inst.uid) /\ Entry(Inst.uid).result = FailFound
        /\ PopFail(heap)
  /\ UNCHANGED memo

\* TLookup: ParserContext_memoLookupTree also takes the entry's tree.
TLookup ==
  /\ At({"TLookup"})
  /\ \/ /\ ~Found(Inst.uid)
        /\ Advance
        /\ UNCHANGED <<pos, frames, tree>>
     \/ /\ Found(Inst.uid) /\ Entry(Inst.uid).result = SuccFound
        /\ pos' = pos + Entry(Inst.uid).consumed
        /\ left' = Entry(Inst.uid).tree
        /\ heap' = GcSet(heap, left, Entry(Inst.uid).tree)
        /\ pc' = Inst.next + Inst.jump
        /\ UNCHANGED <<frames, log, newcount>>
     \/ /\ Found(Inst.uid) /\ Entry(Inst.uid).result = FailFound
        /\ PopFail(GcSet(heap, left, Entry(Inst.uid).tree))
  /\ UNCHANGED memo

\* Memo and TMemo: POP_SUCC_POS, then the frame's position keys the entry.
Memo ==
  LET ppos == stacks[fail_stack + 1].value
  IN  /\ At({"Memo", "TMemo"})
      /\ PopSucc
      /\ Store(Inst.uid, ppos, SuccFound)
      /\ heap' = Stored(Inst.uid, ppos)
      /\ Advance
      /\ UNCHANGED <<pos, left, log, newcount>>

MemoFail ==
  /\ At({"MemoFail"})
  /\ Store(Inst.uid, pos, FailFound)
  /\ PopFail(Stored(Inst.uid, pos))
-----------------------------------------------------------------------------
(* main: release of the context once mininez_parse has returned.           *)

\* ParserContext_free: the memo's trees, the log's, then every slot's, top of
\* the stack or not.  left itself is not released.
Dispose ==
  LET back == BackLog(GcDecAll(heap, [h \in 1..MemoSize |-> memo[h-1].tree]), 0)
  IN  /\ status = "exit"
      /\ status' = "disposed"
      /\ memo' = [h \in DOMAIN memo |-> EmptyEntry]
      /\ log' = back.log
      /\ heap' = GcDecAll(back.heap,
                          [s \in 1..StackSize |-> stacks[s-1].tree])
      /\ stacks' = [s \in DOMAIN stacks |-> [stacks[s] EXCEPT !.tree = NULL]]
      /\ UNCHANGED <<input, pc, pos, left, unused_stack, fail_stack, newcount,
                     result>>

Done == /\ status \in {"disposed", "aborted", "undefined"}
        /\ UNCHANGED vars

Control == Nop \/ Exit \/ Unimplemented \/ Pos \/ Back \/ Jump \/ Call \/ Ret
             \/ Alt \/ Succ \/ Fail \/ Step
Scan    == Consume \/ AnyByte \/ NotMatch \/ NAny \/ Optional \/ Repeat \/ Dispatch
Build   == TPush \/ TPop \/ TBegin \/ TEnd \/ TTag \/ TReplace \/ TLink \/ TFold
Memoize == Lookup \/ TLookup \/ Memo \/ MemoFail

Next == Control \/ Scan \/ Build \/ Memoize \/ Undefined \/ Dispose \/ Done

\* The interpreter loop runs until it exits: weak fairness of its steps.
Spec == Init /\ [][Next]_vars /\ WF_vars(Next)
=============================================================================
