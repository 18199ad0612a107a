------------------------------- MODULE Loader -------------------------------
(***************************************************************************)
(* mininez_load_code of loader.c: the header, the constant pools sized by  *)
(* it, the instructions one after the other into one block of memory, and  *)
(* mininez_dispose_constant at the end.  Next to it, how mininez_parse     *)
(* reads those bytes back.                                                 *)
(*                                                                         *)
(* A file is its header fields and the instructions of its body.  The      *)
(* loader checks nothing: it writes first, and a write past the block,     *)
(* past a pool or past a set makes the run undefined from then on.  A cell *)
(* of memory is a byte: an opcode, a number, or the set of input bytes     *)
(* that stands for the operand of a byte test.                             *)
(***************************************************************************)
EXTENDS Bytecode

CONSTANT Files  \* the files a run may be given

MaxInt == 2147483647

\* The numbers a file holds.
UInt8  == 0..256-1
Int8   == -128..128-1
UInt16 == 0..256*256-1
Int16  == -(128*256)..128*256-1

\* The opcodes that mininez_load_instruction treats alike.
ByteOps   == {"Byte", "NByte", "OByte", "RByte"}
SetOps    == {"Set", "NSet", "OSet", "RSet"}
StrOps    == {"Str", "NStr", "OStr", "RStr"}
TableOps  == {"Dispatch", "DDispatch"}
LookupOps == {"Lookup", "TLookup"}
MemoOps   == {"Memo", "MemoFail", "TMemo"}

\* A 16-bit value converted to int16_t.
Int16Of(v) == ((v + 32768) % 65536) - 32768

\* The operands of an instruction as the file holds them, as wide as
\* mininez_load_instruction reads them.  A distance has its sign in a byte of its
\* own.  A set lists a byte for each of its positions, as many as a 16-bit length
\* says: past are those from 256 on whose byte is not 0.
Operands(i) ==
  /\ i.op = "Exit" => i.code \in UInt8
  /\ i.op = "Call" => i.ret \in UInt16
  /\ i.op = "Alt"  => i.alt \in UInt16
  /\ i.op \in LookupOps \cup MemoOps => i.uid \in UInt16
  /\ i.op \in LookupOps \cup {"Jump", "Call"} =>
       i.is_signed \in UInt8 /\ i.jump \in UInt16
  /\ i.op \in SetOps => i.past \subseteq UInt16 \ UInt8
  /\ i.op \in {"TBegin", "TEnd", "TFold"} => i.shift \in Int8

\* The header's fields are as wide as it stores them, the body is a list.  A
\* 64-bit field is its two halves; from 2^31 on, read32's own shift leaves an int.
FileOK(f) ==
  /\ {f.w, f.n, f.prods, f.sets, f.strs, f.tags, f.tables} \subseteq UInt16
  /\ {f.length.low, f.length.high, f.size.low, f.size.high} \subseteq 0..MaxInt
  /\ f.body \in Seq(Range(f.body))
  /\ \A k \in DOMAIN f.body : Operands(f.body[k])

ASSUME FilesAssumption == \A f \in Files : FileOK(f)

VARIABLES
  file,
  bytecode_length,  \* of mininez_bytecode_info, as read64 returned them
  bytecode_size,
  status,      \* "header", "body", "loaded", "disposed" or "undefined"
  index,       \* instructions loaded
  mem,         \* the bytes written from head on
  prod_names,  \* the filled part of each pool of mininez_constant_t
  sets,
  strs,
  tags,
  tables       \* jump_indexs and jump_tables together

header == <<file, bytecode_length, bytecode_size>>
pools  == <<prod_names, sets, strs, tags, tables>>
vars   == <<header, status, index, mem, pools>>

Init == /\ file \in Files
        /\ bytecode_length = 0 /\ bytecode_size = 0
        /\ status = "header"
        /\ index = 0
        /\ mem = <<>>
        /\ prod_names = <<>> /\ sets = <<>> /\ strs = <<>>
        /\ tags = <<>> /\ tables = <<>>
-----------------------------------------------------------------------------
(* The header.                                                             *)

Bit(n, k) == (n \div 2^k) % 2

\* read64 ors the low half with the high one shifted as a uint32_t by 32, which C
\* leaves undefined.  What comes of it: the optimiser drops the high half, the
\* machine's shift takes 32 for 0 and adds its bits to those of the low one.
Read64(f) ==
  {f.low} \cup
  {n \in f.low..f.low + f.high :
     \A k \in 0..30 : Bit(n, k) = 0 <=> Bit(f.low, k) = 0 /\ Bit(f.high, k) = 0}

\* ParserContext_initMemo computes w * n + 1 in an int.
MemoFits == file.w = 0 \/ file.n <= (MaxInt - 1) \div file.w

\* The block of bytecode_size bytes is cleared for bytecode_length of them.
HeaderDefined == MemoFits /\ bytecode_length <= bytecode_size

Header == /\ status = "header"
          /\ bytecode_length' \in Read64(file.length)
          /\ bytecode_size' \in Read64(file.size)
          /\ UNCHANGED <<file, index, mem, pools>>
          /\ status' = IF HeaderDefined' THEN "body" ELSE "undefined"
-----------------------------------------------------------------------------
(* The body.                                                               *)

Inst == file.body[index + 1]

\* Loader_Write16 and Loader_WriteS16, on a little-endian machine.
Word(v) == <<v % 256, (v \div 256) % 256>>

\* What Jump, Call and Lookup write: the distance goes into an int16_t, which is
\* negated when the byte before it is 0.
Distance(i) == IF i.is_signed = 0 THEN Int16Of(-Int16Of(i.jump))
               ELSE Int16Of(i.jump)

\* All that has been written lies in the block and in the pools.
InBounds == /\ Len(mem) <= bytecode_size
            /\ Len(prod_names) <= file.prods
            /\ Len(sets) <= file.sets
            /\ Len(strs) <= file.strs
            /\ Len(tags) <= file.tags
            /\ Len(tables) <= file.tables

\* bitset_set stays in the 256 bits of the set.
SetFits(i) == i.op \in SetOps => i.past = {}

At(ops) == /\ status = "body" /\ index < bytecode_length
           /\ index < Len(file.body) /\ Inst.op \in ops

\* The opcode and its operands.  Each action names it last: whether the pools
\* still fit is known once they are written.
Write(operands) == /\ mem' = mem \o <<Inst.op>> \o operands
                   /\ index' = index + 1
                   /\ UNCHANGED header
                   /\ status' = IF InBounds' /\ SetFits(Inst) THEN status
                                ELSE "undefined"

Nop == /\ At({"Nop"})
       /\ prod_names' = Append(prod_names, Inst.name)
       /\ UNCHANGED <<sets, strs, tags, tables>>
       /\ Write(Word(Len(prod_names)))

\* Byte and its family, whose operand stays inline.
Byte == /\ At(ByteOps)
        /\ UNCHANGED pools
        /\ Write(<<Inst.set>>)

Exit == At({"Exit"}) /\ UNCHANGED pools /\ Write(<<Inst.code>>)

\* Seeded fault: the sign byte is read the other way round.
JumpTurned ==
  /\ At({"Jump"})
  /\ UNCHANGED pools
  /\ Write(Word(IF Inst.is_signed = 0 THEN Int16Of(Inst.jump)
                ELSE Int16Of(-Int16Of(Inst.jump))))

Jump == At({"Jump"}) /\ UNCHANGED pools /\ Write(Word(Distance(Inst)))

Call == /\ At({"Call"})
        /\ UNCHANGED pools
        /\ Write(Word(Distance(Inst)) \o Word(Inst.ret))

Alt == At({"Alt"}) /\ UNCHANGED pools /\ Write(Word(Inst.alt))

Set == /\ At(SetOps)
       /\ sets' = Append(sets, Inst.set)
       /\ UNCHANGED <<prod_names, strs, tags, tables>>
       /\ Write(Word(Len(sets)))

Str == /\ At(StrOps)
       /\ strs' = Append(strs, Inst.str)
       /\ UNCHANGED <<prod_names, sets, tags, tables>>
       /\ Write(Word(Len(strs)))

Dispatch == /\ At(TableOps)
            /\ tables' = Append(tables, Inst.table)
            /\ UNCHANGED <<prod_names, sets, strs, tags>>
            /\ Write(Word(Len(tables)))

TBegin == At({"TBegin"}) /\ UNCHANGED pools /\ Write(<<Inst.shift % 256>>)

TEnd == /\ At({"TEnd"})
        /\ tags' = Append(tags, Inst.tag)
        /\ strs' = Append(strs, Inst.value)
        /\ UNCHANGED <<prod_names, sets, tables>>
        /\ Write(<<Inst.shift % 256>> \o Word(Len(tags)) \o Word(Len(strs)))

\* Seeded fault: a link without a label takes no slot.
TTagNamed ==
  /\ At({"TTag", "TLink"})
  /\ tags' = IF Inst.tag = "" THEN tags ELSE Append(tags, Inst.tag)
  /\ UNCHANGED <<prod_names, sets, strs, tables>>
  /\ Write(Word(Len(tags)))

\* TTag and TLink.
TTag == /\ At({"TTag", "TLink"})
        /\ tags' = Append(tags, Inst.tag)
        /\ UNCHANGED <<prod_names, sets, strs, tables>>
        /\ Write(Word(Len(tags)))

TReplace == /\ At({"TReplace"})
            /\ strs' = Append(strs, Inst.value)
            /\ UNCHANGED <<prod_names, sets, tags, tables>>
            /\ Write(Word(Len(strs)))

\* Seeded fault: the id is written with Loader_Write32.
TFoldWide == /\ At({"TFold"})
             /\ tags' = Append(tags, Inst.tag)
             /\ UNCHANGED <<prod_names, sets, strs, tables>>
             /\ Write(<<Inst.shift % 256>> \o Word(Len(tags)) \o <<0, 0>>)

TFold == /\ At({"TFold"})
         /\ tags' = Append(tags, Inst.tag)
         /\ UNCHANGED <<prod_names, sets, strs, tables>>
         /\ Write(<<Inst.shift % 256>> \o Word(Len(tags)))

\* Lookup and TLookup.
Lookup == /\ At(LookupOps)
          /\ UNCHANGED pools
          /\ Write(Word(Inst.uid) \o Word(Distance(Inst)))

\* Memo, MemoFail and TMemo.
Memo == /\ At(MemoOps)
        /\ UNCHANGED pools
        /\ Write(Word(Inst.uid))

\* An opcode without operands.
Plain == /\ status = "body" /\ index < bytecode_length
         /\ index < Len(file.body) /\ OperandBytes(Inst.op) = 0
         /\ UNCHANGED pools
         /\ Write(<<>>)

\* A read past the file's last byte.
Undefined == /\ status = "body" /\ index < bytecode_length
             /\ ~(index < Len(file.body))
             /\ status' = "undefined"
             /\ UNCHANGED <<header, index, mem, pools>>

Return == /\ status = "body" /\ index = bytecode_length
          /\ status' = "loaded"
          /\ UNCHANGED <<header, index, mem, pools>>
-----------------------------------------------------------------------------
\* mininez_dispose_constant deletes as many entries as the header declared:
\* malloc left what no instruction filled with whatever was there.
Filled == /\ Len(prod_names) = file.prods
          /\ Len(strs) = file.strs
          /\ Len(tags) = file.tags
          /\ Len(tables) = file.tables

Dispose == /\ status = "loaded"
           /\ status' = IF Filled THEN "disposed" ELSE "undefined"
           /\ UNCHANGED <<header, index, mem, pools>>

Done == status \in {"disposed", "undefined"} /\ UNCHANGED vars

Next == \/ Header \/ Return \/ Dispose \/ Undefined \/ Done
        \/ Nop \/ Exit \/ Jump \/ Call \/ Alt \/ Byte \/ Set \/ Str \/ Dispatch
        \/ TBegin \/ TEnd \/ TTag \/ TReplace \/ TFold \/ Lookup \/ Memo \/ Plain

Spec == Init /\ [][Next]_vars
-----------------------------------------------------------------------------
(* How mininez_parse reads the block: read_uint16_t and the other macros,  *)
(* and the reads at the head of each handler.                              *)

ReadU8(o)  == mem[o + 1]
ReadS8(o)  == IF mem[o + 1] < 128 THEN mem[o + 1] ELSE mem[o + 1] - 256
ReadU16(o) == mem[o + 1] + 256 * mem[o + 2]
ReadS16(o) == IF ReadU16(o) < 32768 THEN ReadU16(o) ELSE ReadU16(o) - 65536

\* TFold keeps its label id in a uint8_t.
ReadLabel(o) == ReadU16(o) % 256

\* The entry of a pool whose number lies at b.
Entry(pool, b) == pool[ReadU16(b) + 1]

\* The distance the file means.  Where it fits no int16_t the loader wrote
\* another one.
Meant(i) == IF i.is_signed = 0 THEN -i.jump ELSE i.jump
ReadsJump(b, i) == Meant(i) \in Int16 => ReadS16(b) = Meant(i)

\* What the handlers read from a on, constants through the pools, is what the
\* instruction i holds: jumps, calls and alternatives, and what stops the parse.
ReadsControl(a, i) ==
  /\ i.op = "Nop"              => Entry(prod_names, a) = i.name
  /\ i.op = "Exit"             => ReadU8(a) = i.code
  /\ i.op = "Alt"              => ReadU16(a) = i.alt
  /\ i.op \in {"Jump", "Call"} => ReadsJump(a, i)
  /\ i.op = "Call"             => ReadU16(a + 2) = i.ret

\* The tests of the text.
ReadsTest(a, i) ==
  /\ i.op \in ByteOps  => ReadU8(a) = i.set
  /\ i.op \in SetOps   => Entry(sets, a) = i.set
  /\ i.op \in StrOps   => Entry(strs, a) = i.str
  /\ i.op \in TableOps => Entry(tables, a) = i.table

\* The building of the tree.
ReadsTree(a, i) ==
  /\ i.op \in {"TBegin", "TEnd", "TFold"} => ReadS8(a) = i.shift
  /\ i.op = "TEnd"              => Entry(tags, a + 1) = i.tag /\ Entry(strs, a + 3) = i.value
  /\ i.op \in {"TTag", "TLink"} => Entry(tags, a) = i.tag
  /\ i.op = "TReplace"          => Entry(strs, a) = i.value
  /\ i.op = "TFold"             => tags[ReadLabel(a + 1) + 1] = i.tag

\* The memo.
ReadsMemo(a, i) ==
  /\ i.op \in LookupOps \cup MemoOps => ReadU16(a) = i.uid
  /\ i.op \in LookupOps              => ReadsJump(a + 2, i)

\* What is read at offset o is the instruction i.
Reads(o, i) == /\ mem[o + 1] = i.op
               /\ ReadsControl(o + 1, i) /\ ReadsTest(o + 1, i)
               /\ ReadsTree(o + 1, i) /\ ReadsMemo(o + 1, i)
-----------------------------------------------------------------------------
(* What holds of it.                                                       *)

\* The number of instructions among ops, of the first n of the body.
Count(n, ops) == Cardinality({k \in 1..n : file.body[k].op \in ops})

\* The variables have their types: the header's numbers are of those read64 can
\* return, and the block and each pool are exactly as long as the instructions
\* loaded so far make them, whatever room the header asked for.
TypeOK ==
  /\ file \in Files
  /\ bytecode_length \in {0} \cup Read64(file.length)
  /\ bytecode_size \in {0} \cup Read64(file.size)
  /\ status \in {"header", "body", "loaded", "disposed", "undefined"}
  /\ index \in 0..Len(file.body)
  /\ Len(mem) = Last(Layout(SubSeq(file.body, 1, index))).at
  /\ Len(prod_names) = Count(index, {"Nop"})
  /\ Len(sets) = Count(index, SetOps)
  /\ Len(strs) = Count(index, StrOps \cup {"TReplace", "TEnd"})
  /\ Len(tags) = Count(index, {"TEnd", "TTag", "TLink", "TFold"})
  /\ Len(tables) = Count(index, TableOps)

\* At every point of a load that has stayed in bounds, each instruction loaded so
\* far sits at its place in the layout the interpreter's model starts from and
\* reads back, with the interpreter's widths and through the pools, as the file
\* means it, its distance if an int16_t can hold it; the tags are the model's.
\* Beyond 256 tags a fold would read another label.
ReadsBack ==
  LET loaded == SubSeq(file.body, 1, index)
      layout == Layout(loaded)
  IN  status # "undefined" /\ Len(tags) <= 256 =>
        /\ \A k \in DOMAIN loaded : Reads(layout[k].at, loaded[k])
        /\ tags = TagsOf(loaded)

\* The header declares what the body holds, in halves that are 0 above, asks for
\* no larger memo than an int can say, and no set lists positions past its 256.
Declared ==
  LET n == Len(file.body)
  IN  /\ MemoFits
      /\ file.length = [low |-> n, high |-> 0]
      /\ file.size = [low |-> Last(Layout(file.body)).at, high |-> 0]
      /\ file.prods = Count(n, {"Nop"})
      /\ file.sets = Count(n, SetOps)
      /\ file.strs = Count(n, StrOps \cup {"TReplace", "TEnd"})
      /\ file.tags = Count(n, {"TEnd", "TTag", "TLink", "TFold"})
      /\ file.tables = Count(n, TableOps)
      /\ \A k \in 1..n : SetFits(file.body[k])

\* With such a file the unchecked load and the release stay defined to the end:
\* nothing is read or written past the file, the block, a pool or a set, and the
\* release finds every entry it deletes.
SafeWhenDeclared == Declared => status # "undefined" /\ InBounds
=============================================================================
