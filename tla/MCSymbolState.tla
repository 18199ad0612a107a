--------------------------- MODULE MCSymbolState ---------------------------
(***************************************************************************)
(* One memo entry under state values, on the text of MCSymbols.            *)
(***************************************************************************)
EXTENDS SymbolState

mcText == <<"a", "b">>
=============================================================================
