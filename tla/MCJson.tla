------------------------------- MODULE MCJson -------------------------------
(***************************************************************************)
(* The machine on sample/bytecode/json.bin.                                *)
(***************************************************************************)
EXTENDS NezVMGrammar, ProgramShapes, JsonGrammar

\* The values the .cfg gives the constants.
mcCode == JsonCode
mcTags == JsonTags
mcRules == JsonRules
mcMemoRules == JsonMemoRules

\* The program saves no tree in a slot.
ASSUME TreeAssumption == SavesNoTree(Shape, Holding)

Texts(alphabet, n) == UNION {[1..k -> alphabet] : k \in 0..n}

\* Every text of up to four bytes of the brackets and a number, and longer
\* ones that use the other rules.
JsonShort == Texts({"{", "}", "[", "]", ",", "1"}, 4)
JsonLong  ==
  {<<"{", "\"", "a", "\"", ":", "1", ",", "\"", "\"", ":", "[", "1", ",", "0",
     "]", "}">>,
   <<"{", "\"", "a", "\"", ":", "{", "\"", "a", "\"", ":", "1", "}", "}">>,
   <<"[", "-", "1", ".", "0", "e", "+", "1", ",", " ", "0", ".", "1", "]">>,
   <<"[", "n", "u", "l", "l", ",", "t", "r", "u", "e", ",", "f", "a", "l",
     "s", "e", "]", " ">>,
   <<"{", "\"", "a", "\"", ":", "1", ",", "\"", "a", "\"", "1", "}">>,
   <<"[", "[", "1", ",", "[", "]", "]", ",", "\"", "?", "\"", ",", "1", "[">>,
   <<"[", "1", ",", "-", "e", "]">>, <<"[", "1", "1", ".", "e", "]">>,
   <<"0", ".", "1", "e">>, <<"0", "0">>, <<"\"", "a">>}
JsonInputs == JsonShort \cup JsonLong
mcInputs == JsonInputs
=============================================================================
