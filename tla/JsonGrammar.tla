---------------------------- MODULE JsonGrammar ----------------------------
(***************************************************************************)
(* JSON: the bytecode of sample/bytecode/json.bin, instruction by          *)
(* instruction, and the grammar of sample/grammar/json.nez.  "1" stands    *)
(* for the digits 1-9, "e" for E, " " for the white space, "?" for a byte  *)
(* the grammar does not name.                                              *)
(***************************************************************************)
EXTENDS Bytecode, PegSemantics

JsonBytes == {"0", "1", ".", "-", "+", "{", "}", "[", "]", "(", ")", ",", ":",
              "\"", "\\", " ", "t", "r", "u", "e", "f", "a", "l", "s", "n",
              "O", "b", "j", "c", "I", "d", "?", "NUL"}
Digit == {"0", "1"}
Word  == {"0", "1", "t", "r", "u", "e", "f", "a", "l", "s", "n", "b", "j",
          "c", "d"}
S     == {" "}

\* A jump table: the entries listed, and one value for all other bytes.
LOCAL Jumps(other, entries) ==
  [b \in JsonBytes |-> IF b \in DOMAIN entries THEN entries[b] ELSE other]

\* sample/bytecode/json.bin; the comments give the byte offset of each rule.
JsonProgram == <<
   iExit(0), iExit(1),
   \* 4
   iNop("_0.File"), iLookup("TLookup", 0, 18), iAlt(31), iSet("RSet", S),
   iCall(14, 23), iSet("RSet", S), iOp("NAny"), iMemo("TMemo", 0), iOp("Ret"),
   iMemo("MemoFail", 0),
   \* 34
   iNop("_0.Value"), iLookup("TLookup", 1, 15), iAlt(361),
   iTable("Dispatch", Jumps(0, "\"" :> 1 @@ "0" :> 10 @@ "1" :> 10 @@ "-" :> 10
     @@ "O" :> 88 @@ "[" :> 129 @@ "f" :> 187 @@ "n" :> 211 @@ "t" :> 233
     @@ "{" :> 255)),
   iOp("Fail"), iCall(313, 54), iMemo("TMemo", 1), iOp("Ret"), iTBegin(0),
   iSet("OByte", {"-"}), iTable("Dispatch", Jumps(0, "0" :> 1 @@ "1" :> 62)),
   iOp("Fail"), iSet("Byte", {"0"}), iTable("Dispatch", Jumps(1, "." :> 16)),
   iOp("Fail"), iTag("TTag", "Integer"), iTEnd(0, "", <<>>), iSet("RSet", S),
   iJump(-33), iAlt(121), iSet("Byte", {"."}), iSet("Set", Digit),
   iSet("RSet", Digit), iAlt(114), iSet("Set", {"e"}),
   iSet("OSet", {"-", "+"}), iSet("Set", Digit), iSet("RSet", Digit),
   iOp("Succ"), iTag("TTag", "Float"), iOp("Succ"), iJump(-46),
   iTag("TTag", "Integer"), iJump(-52), iSet("Set", {"1"}),
   iSet("RSet", Digit), iJump(-68), iSet("Byte", {"O"}), iSet("Byte", {"b"}),
   iSet("Byte", {"j"}), iSet("Byte", {"e"}), iSet("Byte", {"c"}),
   iSet("Byte", {"t"}), iSet("Byte", {"I"}), iSet("Byte", {"d"}),
   iSet("Byte", {"("}), iSet("Byte", {"\""}), iTBegin(0), iSet("Set", Word),
   iSet("RSet", Word), iSet("Byte", {"\""}), iSet("Byte", {")"}),
   iTEnd(-2, "ObjectId", <<>>), iJump(-123), iTBegin(0), iSet("Byte", {"["}),
   iSet("RSet", S), iAlt(218), iOp("TPush"), iCall(-156, 193),
   iTag("TLink", ""), iAlt(217), iSet("Byte", {","}), iSet("RSet", S),
   iOp("TPush"), iCall(-173, 210), iTag("TLink", ""), iOp("Step"), iJump(-18),
   iOp("Succ"), iSet("Byte", {"]"}), iSet("RSet", S), iTag("TTag", "List"),
   iTEnd(0, "", <<>>), iJump(-181), iSet("Byte", {"f"}), iSet("Byte", {"a"}),
   iSet("Byte", {"l"}), iSet("Byte", {"s"}), iSet("Byte", {"e"}), iTBegin(-5),
   iTEnd(0, "False", <<>>), iSet("RSet", S), iJump(-205), iSet("Byte", {"n"}),
   iSet("Byte", {"u"}), iSet("Byte", {"l"}), iSet("Byte", {"l"}), iTBegin(-4),
   iTEnd(0, "Null", <<>>), iSet("RSet", S), iJump(-227), iSet("Byte", {"t"}),
   iSet("Byte", {"r"}), iSet("Byte", {"u"}), iSet("Byte", {"e"}), iTBegin(-4),
   iTEnd(0, "True", <<>>), iSet("RSet", S), iJump(-249), iTBegin(0),
   iSet("Byte", {"{"}), iSet("RSet", S), iAlt(344), iOp("TPush"),
   iCall(118, 319), iTag("TLink", ""), iAlt(343), iSet("Byte", {","}),
   iSet("RSet", S), iOp("TPush"), iCall(101, 336), iTag("TLink", ""),
   iOp("Step"), iJump(-18), iOp("Succ"), iSet("Byte", {"}"}), iSet("RSet", S),
   iTag("TTag", "JSON"), iTEnd(0, "", <<>>), iJump(-307),
   iMemo("MemoFail", 1),
   \* 364
   iNop("_0.String"), iLookup("TLookup", 2, 58), iAlt(431),
   iSet("Byte", {"\""}), iTBegin(0), iAlt(416),
   iTable("Dispatch", Jumps(1, "\"" :> 0 @@ "NUL" :> 0 @@ "\\" :> 8)),
   iOp("Fail"),
   iSet("Set", JsonBytes \ {"\"", "NUL"}),
   iOp("Step"), iJump(-11), iOp("Any"),
   iTable("Dispatch", Jumps(65528, "\"" :> 1 @@ "\\" :> 10)), iOp("Fail"),
   iAlt(389), iSet("Byte", {"\""}), iOp("Succ"), iJump(-18), iAlt(389),
   iSet("Byte", {"\\"}), iOp("Succ"), iJump(-27), iSet("Byte", {"\""}),
   iTEnd(-1, "String", <<>>), iSet("RSet", S), iMemo("TMemo", 2), iOp("Ret"),
   iMemo("MemoFail", 2),
   \* 434
   iNop("_0.Member"), iLookup("TLookup", 3, 40), iAlt(483), iTBegin(0),
   iOp("TPush"), iCall(-86, 453), iTag("TLink", "key"), iSet("Byte", {":"}),
   iSet("RSet", S), iOp("TPush"), iCall(-430, 467), iTag("TLink", "value"),
   iTag("TTag", "KeyValue"), iTEnd(0, "", <<>>), iMemo("TMemo", 3),
   iOp("Ret"), iMemo("MemoFail", 3)
>>

JsonCode == CodeOf(JsonProgram)
JsonTags == TagsOf(JsonProgram)

\* sample/grammar/json.nez
LOCAL Blanks == pMany(pSet(S))
LOCAL Token(b) == pSeq(<<pSet({b}), Blanks>>)
LOCAL Constant(word, tag) ==
  pSeq(<<pNew(pSeq(<<pWord(word), pTag(tag)>>)), Blanks>>)
LOCAL List(e) == pOpt(pSeq(<<pLink("", e),
                             pMany(pSeq(<<Token(","), pLink("", e)>>))>>))
LOCAL Fraction == pSeq(<<pSet({"."}), pSome(pSet(Digit))>>)
LOCAL Exponent == pSeq(<<pSet({"e"}), pOpt(pSet({"-", "+"})),
                         pSome(pSet(Digit))>>)

JsonRules == [
  File |-> pSeq(<<Blanks, pRule("Value"), Blanks, pEnd>>),
  Value |-> pAlt(<<pRule("String"), pRule("Number"), pRule("Object"),
                   pRule("Array"),
                   Constant(<<"n", "u", "l", "l">>, "Null"),
                   Constant(<<"t", "r", "u", "e">>, "True"),
                   Constant(<<"f", "a", "l", "s", "e">>, "False"),
                   pRule("ObjectId")>>),
  Object |-> pNew(pSeq(<<Token("{"), List(pRule("Member")), Token("}"),
                         pTag("JSON")>>)),
  Array |-> pNew(pSeq(<<Token("["), List(pRule("Value")), Token("]"),
                        pTag("List")>>)),
  Member |-> pNew(pSeq(<<pLink("key", pRule("String")), Token(":"),
                         pLink("value", pRule("Value")), pTag("KeyValue")>>)),
  ObjectId |-> pSeq(<<pWord(<<"O", "b", "j", "e", "c", "t", "I", "d", "(",
                              "\"">>),
                      pNew(pSeq(<<pSome(pSet(Word)), pTag("ObjectId")>>)),
                      pWord(<<"\"", ")">>)>>),
  String |-> pSeq(<<pSet({"\""}),
               pNew(pSeq(<<pMany(pAlt(<<
                      pWord(<<"\\", "\"">>), pWord(<<"\\", "\\">>),
                      pSeq(<<pNot(pSet({"\""})), pAny>>)>>)),
                    pTag("String")>>)),
               pSet({"\""}), Blanks>>),
  Number |-> pSeq(<<pNew(pSeq(<<pOpt(pSet({"-"})),
               pAlt(<<pSet({"0"}), pSeq(<<pSet({"1"}), pMany(pSet(Digit))>>)>>),
               pAlt(<<pSeq(<<Fraction, pOpt(Exponent), pTag("Float")>>),
                      pTag("Integer")>>)>>)), Blanks>>)]

\* The rule each memo point of the bytecode stands for.
JsonMemoRules == <<"File", "Value", "String", "Member">>
=============================================================================
