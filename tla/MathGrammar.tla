---------------------------- MODULE MathGrammar ----------------------------
(***************************************************************************)
(* The calculator of sample/grammar/math.nez: the bytecode the repository  *)
(* ships for it (sample/bytecode/math.bin, instruction by instruction) and *)
(* the grammar itself as parsing expressions.  Bytes are represented by    *)
(* one member of each class the grammar tells apart: "1" for the digits,   *)
(* "a" for the other word characters, " " for the blanks, "?" for a byte   *)
(* no rule mentions.                                                       *)
(***************************************************************************)
EXTENDS Bytecode, PegSemantics

MathBytes == {"1", "a", "+", "-", "*", "/", "%", "(", ")", " ", "?", "NUL"}
Digit == {"1"}
Word  == {"1", "a"}
S     == {" "}

\* A jump table: the entries listed, and one value for all other bytes.
LOCAL Jumps(other, entries) ==
  [b \in MathBytes |-> IF b \in DOMAIN entries THEN entries[b] ELSE other]

\* sample/bytecode/math.bin; the comments give the byte offset of each rule.
MathProgram == <<
   iExit(0), iExit(1),
   \* 4
   iNop("_0.File"), iLookup("TLookup", 0, 19), iAlt(32), iCall(18, 20),
   iAlt(28), iOp("Any"), iOp("Step"), iJump(-5), iMemo("TMemo", 0),
   iOp("Ret"), iMemo("MemoFail", 0),
   \* 35
   iNop("_0.Expression"), iLookup("TLookup", 1, 62), iAlt(106), iCall(61, 51),
   iAlt(102), iTFold(0, "left"),
   iTable("Dispatch", Jumps(0, "+" :> 1 @@ "-" :> 28)), iOp("Fail"),
   iCall(267, 67), iTag("TTag", "Add"), iOp("TPush"), iCall(36, 76),
   iTag("TLink", "right"), iTEnd(0, "", <<>>), iOp("Step"), iJump(-35),
   iSet("Byte", {"-"}), iCall(204, 96), iTag("TTag", "Sub"), iJump(-32),
   iMemo("TMemo", 1), iOp("Ret"), iMemo("MemoFail", 1),
   \* 109
   iNop("_0.Product"), iLookup("TLookup", 2, 75), iAlt(193), iCall(74, 125),
   iAlt(189), iTFold(0, "left"),
   iTable("Dispatch", Jumps(0, "%" :> 1 @@ "*" :> 28 @@ "/" :> 41)),
   iOp("Fail"), iCall(184, 141), iTag("TTag", "Mod"), iOp("TPush"),
   iCall(49, 150), iTag("TLink", "right"), iTEnd(0, "", <<>>), iOp("Step"),
   iJump(-35), iSet("Byte", {"*"}), iCall(130, 170), iTag("TTag", "Mul"),
   iJump(-32), iSet("Byte", {"/"}), iCall(117, 183), iTag("TTag", "Div"),
   iJump(-45), iMemo("TMemo", 2), iOp("Ret"), iMemo("MemoFail", 2),
   \* 196
   iNop("_0.Value"), iLookup("TLookup", 3, 25), iAlt(294),
   iTable("Dispatch", Jumps(0, "(" :> 1 @@ "1" :> 20 @@ "a" :> 64)),
   iOp("Fail"), iCall(91, 216), iCall(-183, 221), iCall(90, 226),
   iMemo("TMemo", 3), iOp("Ret"), iAlt(254), iTBegin(0), iSet("Set", Digit),
   iSet("RSet", Digit), iTEnd(0, "Integer", <<>>), iSet("RSet", S),
   iOp("Succ"), iJump(-28), iTBegin(0), iSet("Set", Word), iSet("RSet", Word),
   iTEnd(0, "Variable", <<>>), iSet("RSet", S), iJump(-48), iTBegin(0),
   iSet("Set", Word), iSet("RSet", Word), iTEnd(0, "Variable", <<>>),
   iSet("RSet", S), iJump(-68), iMemo("MemoFail", 3),
   \* 297
   iNop("_0._"), iSet("RSet", S), iOp("Ret"),
   \* 304
   iNop("_0.'('"), iSet("Byte", {"("}), iSet("RSet", S), iOp("Ret"),
   \* 313
   iNop("_0.')'"), iSet("Byte", {")"}), iSet("RSet", S), iOp("Ret"),
   \* 322
   iNop("_0.'%'"), iSet("Byte", {"%"}), iSet("RSet", S), iOp("Ret"),
   \* 331
   iNop("_0.'+'"), iSet("Byte", {"+"}), iSet("RSet", S), iOp("Ret")
>>

MathCode == CodeOf(MathProgram)
MathTags == TagsOf(MathProgram)

\* sample/grammar/math.nez
LOCAL Blanks == pMany(pSet(S))
LOCAL Token(b) == pSeq(<<pSet({b}), Blanks>>)
LOCAL Operator(b, tag) == pSeq(<<Token(b), pTag(tag)>>)

MathRules == [
  File |-> pSeq(<<pRule("Expression"), pMany(pAny)>>),
  Expression |-> pRule("Sum"),
  Sum |-> pSeq(<<pRule("Product"),
            pMany(pFold("left", pSeq(<<
              pAlt(<<Operator("+", "Add"), Operator("-", "Sub")>>),
              pLink("right", pRule("Product"))>>)))>>),
  Product |-> pSeq(<<pRule("Value"),
            pMany(pFold("left", pSeq(<<
              pAlt(<<Operator("*", "Mul"), Operator("/", "Div"),
                     Operator("%", "Mod")>>),
              pLink("right", pRule("Value"))>>)))>>),
  Value |-> pAlt(<<
      pSeq(<<pNew(pSeq(<<pSome(pSet(Digit)), pTag("Integer")>>)), Blanks>>),
      pSeq(<<pNew(pSeq(<<pSome(pSet(Word)), pTag("Variable")>>)), Blanks>>),
      pSeq(<<Token("("), pRule("Expression"), Token(")")>>)>>)]

\* The rule each memo point of the bytecode stands for.
MathMemoRules == <<"File", "Expression", "Product", "Value">>
=============================================================================
