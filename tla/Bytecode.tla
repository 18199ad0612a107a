------------------------------ MODULE Bytecode ------------------------------
(***************************************************************************)
(* Nez bytecode as loader.c lays it out in memory: the opcodes of          *)
(* instruction.h, the bytes each one takes, and the offsets and constant   *)
(* ids that mininez_load_code gives to a program.  A program is a sequence *)
(* of instructions as the bytecode file lists them.  Byte sets, strings    *)
(* and jump tables stay inline; tags and labels keep their pool id, which  *)
(* the interpreter reads at two different widths.                          *)
(***************************************************************************)
EXTENDS Integers, Sequences, SequencesExt, TLC

\* The instructions as the file holds them.  Relative jumps carry their sign.
iOp(op)             == [op |-> op]
iNop(name)          == [op |-> "Nop", name |-> name]
iExit(code)         == [op |-> "Exit", code |-> code]
iJump(jump)         == [op |-> "Jump", jump |-> jump]
iCall(next, ret)    == [op |-> "Call", jump |-> next, ret |-> ret]
iAlt(alt)           == [op |-> "Alt", alt |-> alt]
iBytes(op, str)     == [op |-> op, str |-> str]
iSet(op, set)       == [op |-> op, set |-> set]
iTable(op, table)   == [op |-> op, table |-> table]
iTBegin(shift)      == [op |-> "TBegin", shift |-> shift]
iTEnd(shift, tag, value) ==
  [op |-> "TEnd", shift |-> shift, tag |-> tag, value |-> value]
iTag(op, tag)       == [op |-> op, tag |-> tag]
iTReplace(text)     == [op |-> "TReplace", value |-> text]
iTFold(shift, tag)  == [op |-> "TFold", shift |-> shift, tag |-> tag]
iLookup(op, uid, jump) == [op |-> op, uid |-> uid, jump |-> jump]
iMemo(op, uid)      == [op |-> op, uid |-> uid]

\* Operand bytes mininez_load_instruction writes after the opcode.
OperandBytes(op) ==
  CASE op \in {"Exit", "Byte", "NByte", "OByte", "RByte", "TBegin"}       -> 1
    [] op \in {"Nop", "Jump", "Alt", "Set", "NSet", "OSet", "RSet",
               "Str", "NStr", "OStr", "RStr", "Dispatch", "DDispatch",
               "TTag", "TReplace", "TLink", "Memo", "MemoFail", "TMemo"}  -> 2
    [] op = "TFold"                                                       -> 3
    [] op \in {"Call", "Lookup", "TLookup"}                               -> 4
    [] op = "TEnd"                                                        -> 5
    [] OTHER                                                              -> 0

\* Opcodes whose operand is an entry of C->tags.
HoldsTag(op) == op \in {"TEnd", "TTag", "TLink", "TFold"}

\* What an instruction takes: bytes, tag ids and production ids.
Taken(inst) == [at   |-> 1 + OperandBytes(inst.op),
                id   |-> IF HoldsTag(inst.op) THEN 1 ELSE 0,
                prod |-> IF inst.op = "Nop" THEN 1 ELSE 0]

Past(p, q) == [at |-> p.at + q.at, id |-> p.id + q.id, prod |-> p.prod + q.prod]

Start == [at |-> 0, id |-> 0, prod |-> 0]

\* mininez_load_code writes the instructions one after the other, and every tag
\* or production name takes the next id of its pool: the offset, the tag id and
\* the production id of each instruction, and of the end.  Halving keeps the
\* evaluation shallow: part[n][a] is the layout of the n instructions from
\* prog[a] on, as if they came first.
Layout(prog) ==
  LET part[n \in Nat] ==
        [a \in Nat |->
           IF n = 0 THEN <<Start>>
           ELSE IF n = 1 THEN <<Start, Taken(prog[a])>>
           ELSE LET half == n \div 2
                    low  == part[half][a]
                    high == part[n - half][a + half]
                IN  Front(low) \o [k \in DOMAIN high |-> Past(Last(low), high[k])]]
  IN  part[Len(prog)][1]

\* The loaded code: at each offset the instruction written there, with the
\* offset after its operands, its tag id and its production id.
CodeOf(prog) ==
  LET layout == Layout(prog)
      at == {<<layout[i].at, i>> : i \in DOMAIN prog}
      loaded(i) ==
        [next |-> layout[i + 1].at, id |-> layout[i].id, prod |-> layout[i].prod]
          @@ prog[i]
  IN  [o \in {p[1] : p \in at} |->
         loaded((CHOOSE p \in at : p[1] = o)[2])] @@ <<>>

\* C->tags once the code is loaded.
TagsOf(prog) ==
  LET layout == Layout(prog)
      Holder(n) == CHOOSE k \in DOMAIN prog :
                     HoldsTag(prog[k].op) /\ layout[k].id = n - 1
  IN  [n \in 1..Last(layout).id |-> prog[Holder(n)].tag]
=============================================================================
