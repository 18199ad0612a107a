---------------------------- MODULE OpsGrammar ----------------------------
(***************************************************************************)
(* A small grammar over the bytes a, b, c and d, written to use the        *)
(* opcodes that none of the shipped programs holds together: Pos and Back, *)
(* TPop, DDispatch, the N, O and R families on bytes, sets and strings,    *)
(* Lookup and Memo next to TLookup and TMemo, TReplace, a TEnd with a      *)
(* value, a loop whose body can match nothing, and an opcode that is not   *)
(* implemented.  The bytecode is hand-compiled along the forms the shipped *)
(* programs use:                                                           *)
(*   File = { $(Item)* #File } !.                                          *)
(*   Item = { 'a' &Word !'bc' 'b'? 'ca'? `z` #A }                          *)
(*        / { 'b' !'d' !(Word 'd') (~C)* [ab]? `l` #B } / C / <symbol>     *)
(*   C    = { 'cb'* 'c'* #C }                                              *)
(*   Word = ('aa' / !'d' [abc]) ('b'?)*                                    *)
(***************************************************************************)
EXTENDS Bytecode, PegSemantics

OpsBytes == {"a", "b", "c", "d", "NUL"}

\* A jump table: the entries listed, and one value for all other bytes.
LOCAL Jumps(other, entries) ==
  [b \in OpsBytes |-> IF b \in DOMAIN entries THEN entries[b] ELSE other]

\* The comments give the byte offset of each rule.
OpsProgram == <<
   iExit(0), iExit(1),
   \* 4
   iNop("File"), iTBegin(0), iAlt(25), iOp("TPush"), iCall(21, 18),
   iTag("TLink", ""), iOp("Step"), iJump(-13), iTag("TTag", "File"),
   iTEnd(0, "", <<>>), iOp("NAny"), iOp("Ret"),
   \* 36
   iNop("Item"),
   iTable("Dispatch", Jumps(0, "a" :> 1 @@ "b" :> 1 @@ "c" :> 72 @@ "d" :> 78)),
   iOp("Fail"), iTable("DDispatch", Jumps(0, "a" :> 1 @@ "b" :> 28)),
   iOp("Fail"), iTBegin(-1), iOp("Pos"), iCall(103, 55), iOp("Back"),
   iBytes("NStr", <<"b", "c">>), iSet("OByte", {"b"}),
   iBytes("OStr", <<"c", "a">>), iTReplace(<<"z">>), iTEnd(0, "A", <<>>),
   iOp("Ret"), iTBegin(-1), iSet("NByte", {"d"}), iAlt(90), iCall(72, 86),
   iSet("Byte", {"d"}), iOp("Succ"), iOp("Fail"), iAlt(104), iOp("TPush"),
   iCall(25, 99), iOp("TPop"), iOp("Step"), iJump(-11),
   iSet("OSet", {"a", "b"}), iTEnd(0, "B", <<"l">>), iOp("Ret"),
   iCall(5, 119), iOp("Ret"), iOp("SDef"),
   \* 121
   iNop("C"), iLookup("TLookup", 1, 22), iAlt(152), iTBegin(0),
   iBytes("RStr", <<"c", "b">>), iSet("RByte", {"c"}), iTag("TTag", "C"),
   iTEnd(0, "", <<>>), iMemo("TMemo", 1), iOp("Ret"), iMemo("MemoFail", 1),
   \* 155
   iNop("Word"), iLookup("Lookup", 0, 31), iAlt(195), iAlt(176),
   iBytes("Str", <<"a", "a">>), iOp("Succ"), iJump(6), iSet("NSet", {"d"}),
   iSet("Set", {"a", "b", "c"}), iAlt(191), iSet("OByte", {"b"}),
   iOp("Step"), iJump(-6), iMemo("Memo", 0), iOp("Ret"), iMemo("MemoFail", 0)
>>

OpsCode == CodeOf(OpsProgram)
OpsTags == TagsOf(OpsProgram)

LOCAL Byte(b) == pSet({b})

OpsRules == [
  File |-> pSeq(<<pNew(pSeq(<<pMany(pLink("", pRule("Item"))), pTag("File")>>)),
                  pEnd>>),
  Item |-> pAlt(<<
    pNew(pSeq(<<Byte("a"), pAnd(pRule("Word")), pNot(pWord(<<"b", "c">>)),
                pOpt(Byte("b")), pOpt(pWord(<<"c", "a">>)),
                pReplace(<<"z">>), pTag("A")>>)),
    pNew(pSeq(<<Byte("b"), pNot(Byte("d")),
                pNot(pSeq(<<pRule("Word"), Byte("d")>>)),
                pMany(pDetree(pRule("C"))), pOpt(pSet({"a", "b"})),
                pReplace(<<"l">>), pTag("B")>>)),
    pSeq(<<pAnd(Byte("c")), pRule("C")>>)>>),
  C    |-> pNew(pSeq(<<pMany(pWord(<<"c", "b">>)), pMany(Byte("c")),
                       pTag("C")>>)),
  Word |-> pSeq(<<pAlt(<<pWord(<<"a", "a">>),
                         pSeq(<<pNot(Byte("d")), pSet({"a", "b", "c"})>>)>>),
                  pMany(pOpt(Byte("b")))>>)]

\* The rule each memo point of the bytecode stands for.
OpsMemoRules == <<"Word", "C">>
=============================================================================
