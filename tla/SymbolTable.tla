---------------------------- MODULE SymbolTable ----------------------------
(***************************************************************************)
(* The symbol table of ParserContext (cnez-runtime.h): an array that never *)
(* forgets.  A roll back only lowers tableSize; the entries above it stay, *)
(* and a push that finds the symbol it is about to write there already     *)
(* reuses the entry with its state value.                                  *)
(*                                                                         *)
(* The caller is a parser that saves and restores the table's size with    *)
(* its alternatives, as PUSH_FAIL, POP_FAIL, STEP_FAIL and POP_SUCC do.    *)
(***************************************************************************)
EXTENDS Integers, Sequences, SequencesExt

CONSTANTS
  Text,      \* the input, a sequence of bytes
  Tables,    \* the symbol_t that name a table
  Growth,    \* entries a full array grows by (256 in the code)
  MaxState,  \* bound: values of stateCount
  MaxSaves,  \* bound: alternatives open at once
  NoTable    \* a symbol_t that is NULL

ASSUME TableAssumption ==
  /\ Growth \in Nat \ {0} /\ MaxState \in Nat /\ MaxSaves \in Nat
  /\ NoTable \notin Tables
  /\ Text \in Seq(Range(Text))
  \* Four NUL bytes in a row would compare equal to the mask's own symbol.
  /\ \A p \in 1..Len(Text)-3 : \E b \in p..p+3 : Text[b] # "NUL"

VARIABLES
  pos,         \* bytes of Text before ParserContext.pos
  tables,      \* ParserContext.tables: tableMax entries, the first is 1
  tableSize,
  stateValue,
  stateCount,
  points,      \* the saved sizes in the frames of the open alternatives
  added        \* what the last call asked to add (history)

vars == <<pos, tables, tableSize, stateValue, stateCount, points, added>>

\* A symbol is a pointer into the text, or NullSymbol, and a length.
NullSymbol == -1
EmptyEntry == [stateValue |-> 0, table |-> NoTable, symbol |-> 0, length |-> 0]

Init == /\ pos = 0
        /\ tables = <<>>
        /\ tableSize = 0
        /\ stateValue = 0
        /\ stateCount = 0
        /\ points = <<>>
        /\ added = <<>>

\* The bytes a pointer and a length stand for.
Bytes(symbol, length) ==
  IF symbol = NullSymbol THEN [i \in 1..length |-> "NUL"]
  ELSE SubSeq(Text, symbol + 1, symbol + length)
-----------------------------------------------------------------------------
\* The array that _push writes to.
Roomy == IF tableSize < Len(tables) THEN tables
         ELSE tables \o [i \in 1..Growth |-> EmptyEntry]

\* Seeded fault: a reuse counts too, a fresh entry does not.
CountReused(reuse) == IF reuse THEN stateCount + 1 ELSE stateCount

\* A reused entry keeps its state value; a fresh one takes the next.
NextCount(reuse) == IF reuse THEN stateCount ELSE stateCount + 1

\* Entry holds the symbol already, live or left behind.
Same(entry, t, symbol, length) ==
  /\ entry.table = t
  /\ entry.length = length
  /\ Bytes(entry.symbol, length) = Bytes(symbol, length)

_push(t, symbol, length) ==
  LET room  == Roomy
      top   == tableSize + 1
      reuse == Same(room[top], t, symbol, length)
  IN  /\ tableSize' = top
      /\ stateValue' = IF reuse THEN room[top].stateValue ELSE stateCount
      /\ stateCount' = NextCount(reuse)
      /\ tables' = IF reuse THEN room
                   ELSE [room EXCEPT ![top] =
                           [stateValue |-> stateCount, table |-> t,
                            symbol |-> symbol, length |-> length]]
      /\ UNCHANGED <<pos, points>>

addSymbol ==
  /\ stateCount < MaxState
  /\ \E t \in Tables, ppos \in 0..pos :
       /\ _push(t, ppos, pos - ppos)
       /\ added' = <<[table |-> t, masked |-> FALSE,
                      symbol |-> Bytes(ppos, pos - ppos)]>>

addSymbolMask ==
  /\ stateCount < MaxState
  /\ \E t \in Tables : /\ _push(t, NullSymbol, 4)
                       /\ added' = <<[table |-> t, masked |-> TRUE,
                                      symbol |-> <<>>]>>

\* Seeded fault: the state value of the entry above.
BackToAbove(savePoint) ==
  /\ tableSize' = savePoint
  /\ stateValue' = IF tableSize = savePoint THEN stateValue
                   ELSE IF savePoint = 0 THEN 0
                   ELSE tables[savePoint + 1].stateValue

backSymbolPoint(savePoint) ==
  /\ tableSize' = savePoint
  /\ stateValue' = IF tableSize = savePoint THEN stateValue
                   ELSE IF savePoint = 0 THEN 0
                   ELSE tables[savePoint].stateValue
-----------------------------------------------------------------------------
(* The queries walk the live entries downwards.                            *)

\* The first entry of table t at or below i, 0 if there is none.
Down(t) ==
  LET from[i \in 0..tableSize] ==
        IF i = 0 \/ tables[i].table = t THEN i ELSE from[i - 1]
  IN  from

\* Seeded fault: the walk does not stop at a mask.
HoldsUnmasked(t, sym) ==
  \E i \in 1..tableSize : /\ tables[i].table = t
                          /\ tables[i].symbol # NullSymbol
                          /\ Bytes(tables[i].symbol, tables[i].length) = sym

\* existsSymbol and contains: a mask ends the walk.
Holds(t, sym) ==
  LET down == Down(t)
      from[i \in 0..tableSize] ==
        /\ down[i] # 0
        /\ tables[down[i]].symbol # NullSymbol
        /\ \/ Bytes(tables[down[i]].symbol, tables[down[i]].length) = sym
           \/ from[down[i] - 1]
  IN  from[tableSize]

\* The entry exists, equals and matchSymbol look at.
Top(t) == Down(t)[tableSize]
exists(t) == Top(t) # 0 /\ tables[Top(t)].symbol # NullSymbol
TopBytes(t) == Bytes(tables[Top(t)].symbol, tables[Top(t)].length)
equals(t, sym) == exists(t) /\ TopBytes(t) = sym

\* matchSymbol consumes the symbol, by ParserContext_match.
matchSymbol ==
  /\ \E t \in Tables :
       /\ exists(t)
       /\ pos + tables[Top(t)].length <= Len(Text)
       /\ Bytes(pos, tables[Top(t)].length) = TopBytes(t)
       /\ pos' = pos + tables[Top(t)].length
  /\ added' = <<>>
  /\ UNCHANGED <<tables, tableSize, stateValue, stateCount, points>>
-----------------------------------------------------------------------------
(* The parser: the symbol point in the frames of its alternatives.         *)

\* PUSH_FAIL
Open == /\ Len(points) < MaxSaves
        /\ points' = Append(points, tableSize)
        /\ added' = <<>>
        /\ UNCHANGED <<pos, tables, tableSize, stateValue, stateCount>>

\* POP_SUCC
Close == /\ points # <<>>
         /\ points' = Front(points)
         /\ added' = <<>>
         /\ UNCHANGED <<pos, tables, tableSize, stateValue, stateCount>>

\* STEP_FAIL
Renew == /\ points # <<>>
         /\ points' = Append(Front(points), tableSize)
         /\ added' = <<>>
         /\ UNCHANGED <<pos, tables, tableSize, stateValue, stateCount>>

\* POP_FAIL; the position it sets back as well is Move's.
Revert == /\ points # <<>>
          /\ backSymbolPoint(Last(points))
          /\ points' = Front(points)
          /\ added' = <<>>
          /\ UNCHANGED <<pos, tables, stateCount>>

\* Instructions that do not touch the table.
Move == /\ pos' \in 0..Len(Text)
        /\ added' = <<>>
        /\ UNCHANGED <<tables, tableSize, stateValue, stateCount, points>>

Next == \/ addSymbol \/ addSymbolMask \/ matchSymbol
        \/ Open \/ Close \/ Renew \/ Revert \/ Move

Spec == Init /\ [][Next]_vars
-----------------------------------------------------------------------------
(* What holds of it.                                                       *)

Typed ==
  /\ pos \in 0..Len(Text)
  /\ tables \in Seq([stateValue : 0..MaxState, table : Tables \cup {NoTable},
                     symbol : {NullSymbol} \cup 0..Len(Text), length : Nat])
  /\ tableSize \in 0..Len(tables)
  /\ stateCount \in 0..MaxState
  /\ points \in Seq(0..tableSize)

\* An inner alternative began with no smaller a table than an outer one.
PointsNest == \A j, k \in DOMAIN points : j <= k => points[j] <= points[k]

Written == {i \in DOMAIN tables : tables[i].table # NoTable}

\* Live entries were written, and what was written, live or left behind, is a
\* mask or lies in the text.
EntriesWritten ==
  /\ 1..tableSize \subseteq Written
  /\ \A i \in Written :
       IF tables[i].symbol = NullSymbol THEN tables[i].length = 4
       ELSE tables[i].symbol + tables[i].length <= Len(Text)

\* No two entries that were ever written share a state value (else reusing one
\* would bring back another's), and the table's is its last entry's.
StateValues ==
  /\ \A i \in Written : tables[i].stateValue < stateCount
  /\ \A i, j \in Written :
       tables[i].stateValue = tables[j].stateValue => i = j
  /\ stateValue = IF tableSize = 0 THEN 0 ELSE tables[tableSize].stateValue

\* The variables have their types, and the array its order: this is inductive.
TypeOK == Typed /\ PointsNest /\ EntriesWritten /\ StateValues

\* The first n entries as the symbols they stand for.
Symbols(n) ==
  [i \in 1..n |->
     [table  |-> tables[i].table,
      masked |-> tables[i].symbol = NullSymbol,
      symbol |-> IF tables[i].symbol = NullSymbol THEN <<>>
                 ELSE Bytes(tables[i].symbol, tables[i].length)]]

Scopes == INSTANCE ScopedSymbols WITH
  symbols <- Symbols(tableSize),
  version <- stateValue,
  saved   <- [k \in DOMAIN points |->
                [symbols |-> Symbols(points[k]),
                 version |-> IF points[k] = 0 THEN 0
                             ELSE tables[points[k]].stateValue]]

\* exists, existsSymbol, contains and equals answer from the symbols in scope,
\* for any table and any slice of the text.
QueriesAgree ==
  \A t \in Tables :
    LET inScope == Scopes!Scope(t) # {} IN
    /\ exists(t) = inScope
    /\ \A p, q \in 0..Len(Text) : LET sym == SubSeq(Text, p + 1, q) IN
         /\ Holds(t, sym) = (sym \in Scopes!Known(t))
         /\ equals(t, sym) = (inScope /\ Scopes!Newest(t) = sym)

\* The array with its leftovers behaves like a list that each alternative
\* keeps a copy of: what is added is what is there, a failure brings back the
\* symbols and the state value its alternative began with, whatever was
\* pushed, masked, left behind, reused or copied by a growth since.
Implements == Scopes!Spec
=============================================================================
