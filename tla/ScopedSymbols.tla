--------------------------- MODULE ScopedSymbols ---------------------------
(***************************************************************************)
(* What the symbol table of a parser context promises: tables of symbols   *)
(* whose scope is the backtracking of the parser.  The whole list of       *)
(* symbols is kept with every alternative, and comes back with it.         *)
(***************************************************************************)
EXTENDS Integers, Sequences, SequencesExt

CONSTANTS Text, Tables

VARIABLES
  pos,       \* the parser's position: bytes of Text consumed
  symbols,   \* [table, masked, symbol], oldest first
  version,   \* the state value
  saved,     \* the open alternatives: [symbols, version], outermost first
  added      \* what the last call added: a sequence of at most one symbol

vars == <<pos, symbols, version, saved, added>>

Init == /\ pos = 0
        /\ symbols = <<>>
        /\ version = 0
        /\ saved = <<>>
        /\ added = <<>>

\* Where the list has the symbols of table t that its last mask does not hide.
Scope(t) ==
  {i \in DOMAIN symbols :
     /\ symbols[i].table = t
     /\ \A m \in i..Len(symbols) : symbols[m].table = t => ~symbols[m].masked}

\* The symbols of table t in scope, and the last of them.
Known(t)  == {symbols[i].symbol : i \in Scope(t)}
Newest(t) == symbols[CHOOSE i \in Scope(t) : \A j \in Scope(t) : j <= i].symbol

\* The symbol that match looks for comes next.
ComesNext(t) ==
  Scope(t) # {} /\ IsPrefix(Newest(t), SubSeq(Text, pos + 1, Len(Text)))

\* A symbol ends at the position; a mask is anywhere.
Add == /\ Len(added') = 1
       /\ added'[1].table \in Tables
       /\ added'[1].masked \/
            \E from \in 0..pos : added'[1].symbol = SubSeq(Text, from + 1, pos)
       /\ symbols' = symbols \o added'
       /\ UNCHANGED <<pos, saved>>

Match == /\ \E t \in Tables :
              ComesNext(t) /\ pos' = pos + Len(Newest(t))
         /\ UNCHANGED <<symbols, version, saved>>

Now == [symbols |-> symbols, version |-> version]

\* An alternative is opened, taken for good, renewed after a round of a loop,
\* or failed: then the list of symbols and its version are back.
Open   == saved' = Append(saved, Now) /\ UNCHANGED <<pos, symbols, version>>
Close  == /\ saved # <<>> /\ saved' = Front(saved)
          /\ UNCHANGED <<pos, symbols, version>>
Renew  == /\ saved # <<>> /\ saved' = Append(Front(saved), Now)
          /\ UNCHANGED <<pos, symbols, version>>
Revert == /\ saved # <<>> /\ saved' = Front(saved)
          /\ symbols' = Last(saved).symbols
          /\ version' = Last(saved).version

\* The parser is elsewhere.
Move == UNCHANGED <<symbols, version, saved>>

Next == \/ Add
        \/ added' = <<>> /\ (Match \/ Open \/ Close \/ Renew \/ Revert \/ Move)

Spec == Init /\ [][Next]_vars
=============================================================================
