---------------------------- MODULE SymbolState ----------------------------
(***************************************************************************)
(* The symbol table together with one entry of the state-versioned memo    *)
(* that cnez-runtime.h keeps in a comment ("State Version"): the entry     *)
(* notes the state value it was stored under and is taken for valid when   *)
(* the state value is that one again.                                      *)
(***************************************************************************)
EXTENDS SymbolTable

VARIABLE entry   \* the memo entry, if one is stored: [stateValue, symbols]

stateVars == <<vars, entry>>

StateInit == Init /\ entry = <<>>

\* memoStateSucc; what the rule's outcome depended on is the symbols in scope.
memoStateSucc ==
  /\ entry' = <<[stateValue |-> stateValue, symbols |-> Symbols(tableSize)]>>
  /\ UNCHANGED vars

StateNext == memoStateSucc \/ (Next /\ UNCHANGED entry)

StateSpec == StateInit /\ [][StateNext]_stateVars

\* The test of lookupStateTreeMemo, "m.stateValue == c->stateValue", finds the
\* symbols the entry was stored under.  They are not: the first symbol gets the
\* state value of the empty table, and an entry left behind keeps its state
\* value whatever lies below it.
StateNamesTable ==
  \A k \in DOMAIN entry :
    entry[k].stateValue = stateValue => entry[k].symbols = Symbols(tableSize)
=============================================================================
