---------------------------- MODULE MCJsonEscape ----------------------------
(***************************************************************************)
(* The machine on sample/bytecode/json.bin and a string with an escape.    *)
(* With a backslash among the bytes the program has no shape: its jump     *)
(* tables hold offsets outside the code.                                   *)
(***************************************************************************)
EXTENDS NezVMGrammar, JsonGrammar

\* The values the .cfg gives the constants.
mcCode == JsonCode
mcTags == JsonTags
mcRules == JsonRules
mcMemoRules == JsonMemoRules

\* A string with an escape other than \" and \\.
mcEscape == {<<"\"", "\\", "n", "\"">>}
=============================================================================
