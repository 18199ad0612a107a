------------------------------- MODULE MCOps -------------------------------
(***************************************************************************)
(* The machine on the synthetic program of OpsGrammar.                     *)
(***************************************************************************)
EXTENDS NezVMGrammar, ProgramShapes, OpsGrammar

\* The values the .cfg gives the constants.
mcCode == OpsCode
mcTags == OpsTags
mcRules == OpsRules
mcMemoRules == OpsMemoRules

\* The program saves no tree in a slot.
ASSUME TreeAssumption == SavesNoTree(Shape, Holding)

Texts(alphabet, n) == UNION {[1..k -> alphabet] : k \in 0..n}

\* Every text of up to four bytes, and of five without d (an item that begins
\* with d reaches the opcode that is not implemented).
OpsInputs == Texts({"a", "b", "c", "d"}, 4) \cup Texts({"a", "b", "c"}, 5)
mcInputs == OpsInputs

\* The texts of the run that checks termination.
OpsShort == Texts({"a", "b", "c"}, 3) \cup Texts({"a", "b", "c", "d"}, 2)
mcShort == OpsShort
=============================================================================
