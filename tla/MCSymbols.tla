----------------------------- MODULE MCSymbols -----------------------------
(***************************************************************************)
(* The symbol table on a short text, with an array that grows by two.      *)
(***************************************************************************)
EXTENDS SymbolTable

\* Two symbols and one that both are part of.
mcText == <<"a", "b">>
=============================================================================
