------------------------- MODULE SymbolTableProofs --------------------------
(***************************************************************************)
(* Proofs about the symbol table, for every text, every set of tables,     *)
(* every growth and every bound on state values and open alternatives.     *)
(***************************************************************************)
EXTENDS SymbolTable, NatSets, SequenceTheorems

\* An entry of the array, with the extent of its symbol in the text or no symbol.
EntryType == [stateValue : 0..MaxState, table : Tables \cup {NoTable},
              symbol : {NullSymbol} \cup 0..Len(Text), length : Nat]

-----------------------------------------------------------------------------
(* The text.                                                               *)

\* A slice of the text has the text's bytes.
LEMMA SliceIs ==
  ASSUME NEW p \in Nat, NEW n \in Nat, p + n <= Len(Text)
  PROVE  /\ SubSeq(Text, p + 1, p + n) \in Seq(Range(Text))
         /\ Len(SubSeq(Text, p + 1, p + n)) = n
         /\ \A i \in 1..n : SubSeq(Text, p + 1, p + n)[i] = Text[p + i]
<1>1. Text \in Seq(Range(Text)) /\ Len(Text) \in Nat
  BY TableAssumption
<1>2. \A i \in p+1..p+n : Text[i] \in Range(Text)
  BY <1>1, ElementOfSeq
<1> QED
  BY <1>1, <1>2, SubSeqProperties

\* No symbol of the text reads like the mask's four bytes of 0.
LEMMA NoSliceIsMask ==
  ASSUME NEW p \in 0..Len(Text), p + 4 <= Len(Text)
  PROVE  Bytes(p, 4) # Bytes(NullSymbol, 4)
<1>1. Len(Text) \in Nat
  BY TableAssumption, LenProperties
<1>2. Bytes(p, 4) = SubSeq(Text, p + 1, p + 4) /\ Bytes(NullSymbol, 4) = [i \in 1..4 |-> "NUL"]
  BY DEF Bytes, NullSymbol
<1>3. PICK b \in p+1..p+4 : Text[b] # "NUL"
  BY <1>1, TableAssumption
<1>4. b - p \in 1..4 /\ SubSeq(Text, p + 1, p + 4)[b - p] = Text[b]
  BY <1>1, SliceIs
<1>5. [i \in 1..4 |-> "NUL"][b - p] = "NUL"
  BY <1>4
<1> QED
  BY <1>2, <1>3, <1>4, <1>5
-----------------------------------------------------------------------------
(* A push.                                                                 *)

\* The array that a push writes to has room, and the old entries.
LEMMA RoomyIs ==
  ASSUME TypeOK
  PROVE  /\ Roomy \in Seq(EntryType) /\ tableSize + 1 \in 1..Len(Roomy)
         /\ Len(tables) <= Len(Roomy)
         /\ \A i \in DOMAIN tables : Roomy[i] = tables[i]
         /\ \A i \in DOMAIN Roomy : Roomy[i].table # NoTable => i \in Written
<1>1. tables \in Seq(EntryType) /\ tableSize \in 0..Len(tables) /\ Len(tables) \in Nat
  BY DEF TypeOK, Typed, EntryType
<1>2. CASE tableSize < Len(tables)
  BY <1>1, <1>2 DEF Roomy, Written
<1>3. CASE ~(tableSize < Len(tables))
  <2> DEFINE more == [i \in 1..Growth |-> EmptyEntry]
  <2>1. Growth \in Nat \ {0} /\ MaxState \in Nat
    BY TableAssumption
  <2>2. EmptyEntry \in EntryType
    <3>1. Len(Text) \in Nat
      BY TableAssumption, LenProperties
    <3> QED
      BY <2>1, <3>1 DEF EmptyEntry, EntryType
  <2>3. more \in Seq(EntryType) /\ Len(more) = Growth
    BY <2>1, <2>2
  <2>4. \A i \in 1..Growth : more[i].table = NoTable
    BY DEF EmptyEntry
  <2> HIDE DEF more
  <2>5. Roomy = tables \o more
    BY <1>3 DEF Roomy, more
  <2>6. /\ Roomy \in Seq(EntryType) /\ Len(Roomy) = Len(tables) + Growth
        /\ \A i \in 1..Len(tables) + Growth :
             Roomy[i] = IF i <= Len(tables) THEN tables[i] ELSE more[i - Len(tables)]
    BY <1>1, <2>3, <2>5, ConcatProperties
  <2>7. \A i \in DOMAIN Roomy : Roomy[i].table # NoTable => i \in Written
    BY <1>1, <2>1, <2>4, <2>6 DEF Written
  <2> QED
    BY <1>1, <1>3, <2>1, <2>6, <2>7
<1> QED
  BY <1>2, <1>3

\* What a push leaves: the entries it had, and on top one that reads as asked.
\* A reused entry keeps its state value, a fresh one has the next.
LEMMA PushIs ==
  ASSUME TypeOK, NEW t \in Tables, NEW symbol \in {NullSymbol} \cup 0..Len(Text),
         NEW length \in Nat,
         IF symbol = NullSymbol THEN length = 4 ELSE symbol + length <= Len(Text),
         stateCount < MaxState, _push(t, symbol, length)
  PROVE  /\ tables' \in Seq(EntryType) /\ tableSize' \in 1..Len(tables')
         /\ tableSize' = tableSize + 1
         /\ DOMAIN tables \subseteq DOMAIN tables'
         /\ \A i \in DOMAIN tables : i # tableSize' => tables'[i] = tables[i]
         /\ Written' = Written \cup {tableSize'}
         /\ Same(tables'[tableSize'], t, symbol, length)
         /\ IF tables'[tableSize'].symbol = NullSymbol
            THEN tables'[tableSize'].length = 4
            ELSE tables'[tableSize'].symbol + tables'[tableSize'].length <= Len(Text)
         /\ stateValue' = tables'[tableSize'].stateValue
         /\ \/ /\ stateValue' = stateCount
               /\ stateCount' = stateCount + 1
            \/ /\ tableSize' \in Written
               /\ tables'[tableSize'] = tables[tableSize']
               /\ stateCount' = stateCount
<1> DEFINE top == tableSize + 1
           reuse == Same(Roomy[top], t, symbol, length)
           new == [stateValue |-> stateCount, table |-> t,
                   symbol |-> symbol, length |-> length]
<1>1. /\ tableSize' = top
      /\ stateValue' = IF reuse THEN Roomy[top].stateValue ELSE stateCount
      /\ stateCount' = IF reuse THEN stateCount ELSE stateCount + 1
      /\ tables' = IF reuse THEN Roomy ELSE [Roomy EXCEPT ![top] = new]
  BY DEF _push, NextCount
<1>2. /\ Roomy \in Seq(EntryType) /\ top \in 1..Len(Roomy)
      /\ Len(tables) <= Len(Roomy)
      /\ \A i \in DOMAIN tables : Roomy[i] = tables[i]
      /\ \A i \in DOMAIN Roomy : Roomy[i].table # NoTable => i \in Written
  BY RoomyIs
<1>3. tables \in Seq(EntryType) /\ tableSize \in Nat /\ stateCount \in 0..MaxState
  BY DEF TypeOK, Typed, EntryType
<1>4. NoTable \notin Tables
  BY TableAssumption
<1>5. Written \subseteq DOMAIN tables
  BY DEF Written
<1>6. CASE reuse
  <2>1. tables' = Roomy /\ stateValue' = Roomy[top].stateValue /\ stateCount' = stateCount
    BY <1>1, <1>6
  <2>2. Roomy[top].table = t
    BY <1>6 DEF Same
  <2>3. top \in Written /\ tables[top] = Roomy[top]
    BY <1>2, <1>4, <1>5, <2>2
  <2>4. Written' = Written
    BY <1>2, <1>3, <2>1 DEF Written
  <2>5. Same(tables'[tableSize'], t, symbol, length)
    BY <1>1, <1>6, <2>1 DEF Same, Bytes
  <2>6. IF tables[top].symbol = NullSymbol THEN tables[top].length = 4
        ELSE tables[top].symbol + tables[top].length <= Len(Text)
    BY <2>3 DEF TypeOK, EntriesWritten
  <2> QED
    BY <1>1, <1>2, <1>3, <2>1, <2>3, <2>4, <2>5, <2>6
<1>7. CASE ~reuse
  <2>1. tables' = [Roomy EXCEPT ![top] = new] /\ stateValue' = stateCount /\ stateCount' = stateCount + 1
    BY <1>1, <1>7
  <2>2. new \in EntryType
    BY <1>3 DEF EntryType
  <2>3. /\ tables' \in Seq(EntryType) /\ Len(tables') = Len(Roomy)
        /\ \A i \in 1..Len(Roomy) : tables'[i] = IF i = top THEN new ELSE Roomy[i]
    <3> HIDE DEF new
    <3> QED
      BY <1>2, <2>1, <2>2, ExceptSeq
  <2>4. Written' = Written \cup {top}
    <3>1. new.table # NoTable
      BY <1>4
    <3> HIDE DEF new
    <3>2. DOMAIN tables' = 1..Len(Roomy) /\ DOMAIN tables = 1..Len(tables)
      BY <1>3, <2>3
    <3> QED
      BY <1>2, <2>3, <3>1, <3>2 DEF Written
  <2>5. Same(tables'[tableSize'], t, symbol, length)
    BY <1>1, <1>2, <2>3 DEF Same, Bytes
  <2> QED
    BY <1>1, <1>2, <1>3, <2>1, <2>3, <2>4, <2>5
<1> QED
  BY <1>6, <1>7

\* addSymbol and addSymbolMask are pushes of what TypeOK allows.
LEMMA AddIs ==
  ASSUME TypeOK, addSymbol \/ addSymbolMask
  PROVE  \E t \in Tables, symbol \in {NullSymbol} \cup 0..Len(Text), length \in Nat :
           /\ IF symbol = NullSymbol THEN length = 4
              ELSE symbol \in 0..pos /\ symbol + length = pos
           /\ stateCount < MaxState
           /\ _push(t, symbol, length)
           /\ added' = <<[table |-> t, masked |-> symbol = NullSymbol,
                          symbol |-> IF symbol = NullSymbol THEN <<>>
                                     ELSE Bytes(symbol, length)]>>
<1>1. pos \in 0..Len(Text) /\ Len(Text) \in Nat
  BY TableAssumption, LenProperties DEF TypeOK, Typed
<1>2. CASE addSymbol
  <2>1. PICK t \in Tables, ppos \in 0..pos :
          /\ stateCount < MaxState
          /\ _push(t, ppos, pos - ppos)
          /\ added' = <<[table |-> t, masked |-> FALSE, symbol |-> Bytes(ppos, pos - ppos)]>>
    BY <1>2 DEF addSymbol
  <2>2. /\ ppos \in {NullSymbol} \cup 0..Len(Text) /\ pos - ppos \in Nat
        /\ ppos # NullSymbol /\ ppos + (pos - ppos) = pos
    BY <1>1 DEF NullSymbol
  <2>3. (ppos = NullSymbol) = FALSE
    BY <2>2
  <2>4. added' = <<[table |-> t, masked |-> ppos = NullSymbol,
                    symbol |-> IF ppos = NullSymbol THEN <<>>
                               ELSE Bytes(ppos, pos - ppos)]>>
    BY <2>1, <2>3
  <2> HIDE DEF NullSymbol
  <2> QED
    BY <2>1, <2>2, <2>4
<1>3. CASE addSymbolMask
  <2>1. PICK t \in Tables :
          /\ stateCount < MaxState
          /\ _push(t, NullSymbol, 4)
          /\ added' = <<[table |-> t, masked |-> TRUE, symbol |-> <<>>]>>
    BY <1>3 DEF addSymbolMask
  <2>2. (NullSymbol = NullSymbol) = TRUE
    OBVIOUS
  <2>3. added' = <<[table |-> t, masked |-> NullSymbol = NullSymbol,
                    symbol |-> IF NullSymbol = NullSymbol THEN <<>>
                               ELSE Bytes(NullSymbol, 4)]>>
    BY <2>1, <2>2
  <2> QED
    BY <2>1, <2>3
<1> QED
  BY <1>2, <1>3
-----------------------------------------------------------------------------
(* Type correctness.                                                       *)

\* The empty table has the types.
LEMMA InitOK == Init => TypeOK
<1> SUFFICES ASSUME Init PROVE TypeOK
  OBVIOUS
<1>1. Len(Text) \in Nat /\ MaxState \in Nat
  BY TableAssumption, LenProperties
<1>2. tables \in Seq(EntryType) /\ points \in Seq(0..0) /\ Written = {}
  BY EmptySeq DEF Init, Written
<1> QED
  BY <1>1, <1>2 DEF Init, TypeOK, Typed, PointsNest, EntriesWritten, StateValues, EntryType

\* A push keeps the array in order.
LEMMA AddOK ==
  ASSUME TypeOK, addSymbol \/ addSymbolMask
  PROVE  TypeOK'
<1>1. PICK t \in Tables, symbol \in {NullSymbol} \cup 0..Len(Text), length \in Nat :
        /\ IF symbol = NullSymbol THEN length = 4
           ELSE symbol \in 0..pos /\ symbol + length = pos
        /\ stateCount < MaxState
        /\ _push(t, symbol, length)
  BY AddIs
<1>2. pos \in 0..Len(Text) /\ Len(Text) \in Nat /\ MaxState \in Nat /\ stateCount \in 0..MaxState
  BY TableAssumption, LenProperties DEF TypeOK, Typed
<1>3. IF symbol = NullSymbol THEN length = 4 ELSE symbol + length <= Len(Text)
  BY <1>1, <1>2
<1>4. /\ tables' \in Seq(EntryType) /\ tableSize' \in 1..Len(tables')
      /\ tableSize' = tableSize + 1
      /\ DOMAIN tables \subseteq DOMAIN tables'
      /\ \A i \in DOMAIN tables : i # tableSize' => tables'[i] = tables[i]
      /\ Written' = Written \cup {tableSize'}
      /\ IF tables'[tableSize'].symbol = NullSymbol
         THEN tables'[tableSize'].length = 4
         ELSE tables'[tableSize'].symbol + tables'[tableSize'].length <= Len(Text)
      /\ stateValue' = tables'[tableSize'].stateValue
      /\ \/ stateValue' = stateCount /\ stateCount' = stateCount + 1
         \/ /\ tableSize' \in Written /\ tables'[tableSize'] = tables[tableSize']
            /\ stateCount' = stateCount
  BY <1>1, <1>2, <1>3, PushIs
<1>5. pos' = pos /\ points' = points
  BY <1>1 DEF _push
<1>6. Typed /\ PointsNest /\ EntriesWritten /\ StateValues
  BY DEF TypeOK
<1>7. tableSize \in Nat /\ Written \subseteq DOMAIN tables
  BY <1>6 DEF Typed, Written
<1>8. Typed'
  <2>1. 0..tableSize \subseteq 0..tableSize' /\ points \in Seq(0..tableSize)
    BY <1>4, <1>6, <1>7 DEF Typed
  <2>2. points' \in Seq(0..tableSize')
    BY <1>5, <2>1, SeqMonotonic
  <2>3. stateCount' \in 0..MaxState
    BY <1>1, <1>2, <1>4
  <2> QED
    BY <1>2, <1>4, <1>5, <2>2, <2>3 DEF Typed, EntryType
<1>9. PointsNest'
  BY <1>5, <1>6 DEF PointsNest
<1>10. EntriesWritten'
  <2>1. 1..tableSize' \subseteq Written'
    BY <1>4, <1>6, <1>7 DEF EntriesWritten
  <2>2. \A i \in Written' :
          IF tables'[i].symbol = NullSymbol THEN tables'[i].length = 4
          ELSE tables'[i].symbol + tables'[i].length <= Len(Text)
    BY <1>4, <1>6, <1>7 DEF EntriesWritten
  <2> QED
    BY <2>1, <2>2 DEF EntriesWritten
<1>11. StateValues'
  <2>1. \A i \in Written : tables[i].stateValue \in Nat /\ tables[i].stateValue < stateCount
    <3>0. tables \in Seq(EntryType)
      BY <1>6 DEF Typed, EntryType
    <3>1. \A i \in DOMAIN tables : tables[i] \in EntryType
      BY <3>0, ElementOfSeq
    <3>2. \A i \in DOMAIN tables : tables[i].stateValue \in 0..MaxState
      BY <3>1 DEF EntryType
    <3> QED
      BY <1>2, <1>6, <1>7, <3>2 DEF StateValues
  <2>2. \A i \in Written' : i # tableSize' => i \in Written /\ tables'[i] = tables[i]
    BY <1>4, <1>7
  <2>3. stateCount' \in Nat
    BY <1>2, <1>4
  <2>4. CASE stateValue' = stateCount /\ stateCount' = stateCount + 1
    <3>0. \A i \in Written' :
            IF i = tableSize' THEN tables'[i].stateValue = stateCount
            ELSE i \in Written /\ tables'[i].stateValue = tables[i].stateValue
      BY <1>4, <2>2, <2>4
    <3>1. \A i \in Written' : tables'[i].stateValue < stateCount'
      BY <1>2, <2>1, <2>4, <3>0
    <3>2. \A i, j \in Written' : tables'[i].stateValue = tables'[j].stateValue => i = j
      <4> SUFFICES ASSUME NEW i \in Written', NEW j \in Written',
                          tables'[i].stateValue = tables'[j].stateValue
                   PROVE  i = j
        OBVIOUS
      <4>1. \A m, n \in Written : tables[m].stateValue = tables[n].stateValue => m = n
        BY <1>6 DEF StateValues
      <4> QED
        BY <2>1, <3>0, <4>1
    <3> QED
      BY <1>4, <1>7, <3>1, <3>2 DEF StateValues
  <2>5. CASE /\ tableSize' \in Written /\ tables'[tableSize'] = tables[tableSize']
             /\ stateCount' = stateCount
    <3>1. \A i \in Written' : i \in Written /\ tables'[i] = tables[i]
      BY <1>4, <2>2, <2>5
    <3> QED
      BY <1>4, <1>6, <1>7, <2>5, <3>1 DEF StateValues
  <2> QED
    BY <1>4, <2>4, <2>5
<1> QED
  BY <1>8, <1>9, <1>10, <1>11 DEF TypeOK

\* A sequence without its last element, and with another in its place.
LEMMA FrontIs ==
  ASSUME NEW S, NEW s \in Seq(S), s # <<>>
  PROVE  /\ Front(s) \in Seq(S) /\ Len(Front(s)) = Len(s) - 1
         /\ Len(s) \in Nat \ {0}
         /\ \A i \in 1..Len(s) - 1 : Front(s)[i] = s[i]
         /\ Last(s) = s[Len(s)] /\ Last(s) \in S
<1>1. Len(s) \in Nat \ {0}
  BY EmptySeq
<1>2. \A i \in 1..Len(s) : s[i] \in S
  BY ElementOfSeq
<1>3. Front(s) = SubSeq(s, 1, Len(s) - 1) /\ Last(s) = s[Len(s)]
  BY DEF Front, Last
<1> DEFINE n == Len(s) - 1
<1>4. n \in Nat /\ \A i \in 1..n : s[i] \in S
  BY <1>1, <1>2
<1> HIDE DEF n
<1>5. /\ SubSeq(s, 1, n) \in Seq(S) /\ Len(SubSeq(s, 1, n)) = n
      /\ \A i \in 1..n : SubSeq(s, 1, n)[i] = s[i]
  BY <1>4, SubSeqProperties
<1> QED
  BY <1>1, <1>2, <1>3, <1>5 DEF n

\* The alternatives keep the save points nested, and lead back to live entries.
LEMMA ParserOK ==
  ASSUME TypeOK, Open \/ Close \/ Renew \/ Revert
  PROVE  TypeOK'
<1>1. /\ Typed /\ PointsNest /\ EntriesWritten /\ StateValues
      /\ tableSize \in Nat /\ points \in Seq(0..tableSize)
  BY DEF TypeOK, Typed
<1>2. UNCHANGED <<pos, tables, stateCount>> /\ Written' = Written
  BY DEF Open, Close, Renew, Revert, Written
<1> DEFINE Nests(s) == \A j, k \in 1..Len(s) : j <= k => s[j] <= s[k]
<1>0. Nests(points)
  BY <1>1 DEF PointsNest
<1>8. ASSUME points' \in Seq(Nat), Nests(points')
      PROVE  PointsNest'
  BY <1>8, LenProperties DEF PointsNest
<1>7. Len(points) \in Nat /\ \A i \in 1..Len(points) : points[i] \in 0..tableSize
  BY <1>1, ElementOfSeq
<1>3. CASE Open
  <2>1. points' = Append(points, tableSize) /\ UNCHANGED <<tableSize, stateValue>>
    BY <1>3 DEF Open
  <2>2. /\ points' \in Seq(0..tableSize) /\ Len(points') = Len(points) + 1
        /\ \A i \in 1..Len(points) : points'[i] = points[i] /\ points[i] <= tableSize
        /\ points'[Len(points) + 1] = tableSize
    BY <1>1, <2>1, AppendProperties, ElementOfSeq
  <2>3. PointsNest'
    <3>1. 0..tableSize \subseteq Nat
      BY <1>1
    <3>2. points' \in Seq(Nat)
      BY <2>2, <3>1, SeqMonotonic
    <3>3. Nests(points')
      <4> SUFFICES ASSUME NEW j \in 1..Len(points'), NEW k \in 1..Len(points'), j <= k
                   PROVE  points'[j] <= points'[k]
        OBVIOUS
      <4>1. CASE k = Len(points) + 1
        BY <1>1, <1>7, <2>2, <4>1
      <4>2. CASE k # Len(points) + 1
        BY <1>0, <1>7, <2>2, <4>2
      <4> QED
        BY <4>1, <4>2
    <3> QED
      BY <1>8, <3>2, <3>3
  <2> QED
    BY <1>1, <1>2, <2>1, <2>2, <2>3 DEF TypeOK, Typed, EntriesWritten, StateValues
<1>4. CASE Close
  <2>1. points # <<>> /\ points' = Front(points) /\ UNCHANGED <<tableSize, stateValue>>
    BY <1>4 DEF Close
  <2>2. /\ points' \in Seq(0..tableSize) /\ Len(points') = Len(points) - 1
        /\ \A i \in 1..Len(points) - 1 : points'[i] = points[i]
    BY <1>1, <2>1, FrontIs
  <2>3. PointsNest'
    <3>1. 0..tableSize \subseteq Nat
      BY <1>1
    <3>2. points' \in Seq(Nat)
      BY <2>2, <3>1, SeqMonotonic
    <3>3. Nests(points')
      BY <1>0, <1>7, <2>2
    <3> QED
      BY <1>8, <3>2, <3>3
  <2> QED
    BY <1>1, <1>2, <2>1, <2>2, <2>3 DEF TypeOK, Typed, EntriesWritten, StateValues
<1>5. CASE Renew
  <2>1. /\ points # <<>> /\ points' = Append(Front(points), tableSize)
        /\ UNCHANGED <<tableSize, stateValue>>
    BY <1>5 DEF Renew
  <2>2. /\ Front(points) \in Seq(0..tableSize) /\ Len(Front(points)) = Len(points) - 1
        /\ \A i \in 1..Len(points) - 1 : Front(points)[i] = points[i]
        /\ Len(points) \in Nat \ {0}
    BY <1>1, <2>1, FrontIs
  <2>3. /\ points' \in Seq(0..tableSize) /\ Len(points') = Len(points)
        /\ \A i \in 1..Len(points) - 1 : points'[i] = points[i] /\ points[i] <= tableSize
        /\ points'[Len(points)] = tableSize
    BY <1>1, <2>1, <2>2, AppendProperties, ElementOfSeq
  <2>4. PointsNest'
    <3>1. 0..tableSize \subseteq Nat
      BY <1>1
    <3>2. points' \in Seq(Nat)
      BY <2>3, <3>1, SeqMonotonic
    <3>3. Nests(points')
      <4> SUFFICES ASSUME NEW j \in 1..Len(points'), NEW k \in 1..Len(points'), j <= k
                   PROVE  points'[j] <= points'[k]
        OBVIOUS
      <4>1. CASE k = Len(points)
        BY <1>1, <1>7, <2>2, <2>3, <4>1
      <4>2. CASE k # Len(points)
        <5>1. j \in 1..Len(points) - 1 /\ k \in 1..Len(points) - 1
          BY <2>2, <2>3, <4>2
        <5>2. points[j] <= points[k]
          BY <1>0, <2>2, <5>1
        <5> QED
          BY <2>3, <5>1, <5>2
      <4> QED
        BY <4>1, <4>2
    <3> QED
      BY <1>8, <3>2, <3>3
  <2> QED
    BY <1>1, <1>2, <2>1, <2>3, <2>4 DEF TypeOK, Typed, EntriesWritten, StateValues
<1>6. CASE Revert
  <2>1. /\ points # <<>> /\ points' = Front(points) /\ tableSize' = Last(points)
        /\ stateValue' = IF tableSize = Last(points) THEN stateValue
                         ELSE IF Last(points) = 0 THEN 0
                         ELSE tables[Last(points)].stateValue
    BY <1>6 DEF Revert, backSymbolPoint
  <2>2. /\ Front(points) \in Seq(0..tableSize) /\ Len(Front(points)) = Len(points) - 1
        /\ \A i \in 1..Len(points) - 1 : Front(points)[i] = points[i]
        /\ Len(points) \in Nat \ {0}
        /\ Last(points) = points[Len(points)] /\ Last(points) \in 0..tableSize
    BY <1>1, <2>1, FrontIs
  <2>3. \A i \in 1..Len(points) - 1 : points'[i] = points[i] /\ points[i] \in 0..tableSize'
    BY <1>0, <1>7, <2>1, <2>2
  <2>4. points' \in Seq(0..tableSize')
    BY <2>1, <2>2, <2>3
  <2>5. PointsNest'
    <3>1. 0..tableSize' \subseteq Nat
      BY <1>1, <2>1, <2>2
    <3>2. points' \in Seq(Nat)
      BY <2>4, <3>1, SeqMonotonic
    <3>3. Nests(points')
      <4>1. Len(points') = Len(points) - 1
        BY <2>1, <2>2
      <4> QED
        BY <1>0, <1>7, <2>3, <4>1
    <3> QED
      BY <1>8, <3>2, <3>3
  <2>6. tableSize' \in 0..Len(tables) /\ 1..tableSize' \subseteq 1..tableSize
    BY <1>1, <2>1, <2>2 DEF Typed
  <2>7. StateValues'
    BY <1>1, <1>2, <2>1, <2>2 DEF StateValues
  <2> QED
    BY <1>1, <1>2, <2>4, <2>5, <2>6, <2>7 DEF TypeOK, Typed, EntriesWritten
<1> QED
  BY <1>3, <1>4, <1>5, <1>6

-----------------------------------------------------------------------------
(* The queries.                                                            *)

\* j is the last entry of table t at or below i, 0 if there is none.
LastOf(t, i, j) == /\ j \in 0..i
                   /\ j = 0 \/ tables[j].table = t
                   /\ \A k \in j+1..i : tables[k].table # t

\* The walk down from i stops at the last entry of the table.
LEMMA DownIs ==
  ASSUME TypeOK, NEW t
  PROVE  \A i \in 0..tableSize : LastOf(t, i, Down(t)[i])
<1>1. tableSize \in Nat
  BY DEF TypeOK, Typed
<1>2. \A i \in Nat : \E j \in 0..i : LastOf(t, i, j)
  <2> DEFINE T == {i \in Nat : \E j \in 0..i : LastOf(t, i, j)}
  <2>1. 0 \in T
    BY DEF LastOf
  <2>2. ASSUME NEW i \in Nat, i \in T
        PROVE  i + 1 \in T
    <3>1. PICK j \in 0..i : LastOf(t, i, j)
      BY <2>2
    <3>2. CASE tables[i + 1].table = t
      <4>1. LastOf(t, i + 1, i + 1)
        BY <3>2 DEF LastOf
      <4> QED
        BY <4>1
    <3>3. CASE tables[i + 1].table # t
      <4>1. LastOf(t, i + 1, j) /\ j \in 0..i+1
        BY <3>1, <3>3 DEF LastOf
      <4> QED
        BY <4>1
    <3> QED
      BY <3>2, <3>3
  <2> HIDE DEF T
  <2>3. Nat \subseteq T
    BY <2>1, <2>2, NatSetInduction
  <2> QED
    BY <2>3 DEF T
<1>3. \A i \in Nat, j, k \in Nat : LastOf(t, i, j) /\ LastOf(t, i, k) => j = k
  BY DEF LastOf
<1> DEFINE walk(f) == [i \in 0..tableSize |->
                         IF i = 0 \/ tables[i].table = t THEN i ELSE f[i - 1]]
           g == [i \in 0..tableSize |-> CHOOSE j \in 0..i : LastOf(t, i, j)]
<1>4. \A i \in 0..tableSize : g[i] \in 0..i /\ LastOf(t, i, g[i])
  BY <1>2
<1>5. g = walk(g)
  <2> DEFINE next(i) == IF i = 0 \/ tables[i].table = t THEN i ELSE g[i - 1]
  <2>0. DOMAIN g = 0..tableSize /\ g = [i \in 0..tableSize |-> g[i]]
    OBVIOUS
  <2> HIDE DEF g
  <2>1. ASSUME NEW i \in 0..tableSize
        PROVE  g[i] = next(i)
    <3>1. CASE i = 0 \/ tables[i].table = t
      <4>1. LastOf(t, i, i)
        BY <3>1 DEF LastOf
      <4> QED
        BY <1>3, <1>4, <3>1, <4>1
    <3>2. CASE ~(i = 0 \/ tables[i].table = t)
      <4>1. i - 1 \in 0..tableSize
        BY <1>1, <3>2
      <4>2. LastOf(t, i - 1, g[i - 1]) /\ g[i - 1] \in 0..i-1
        BY <1>4, <4>1
      <4>3. LastOf(t, i, g[i - 1])
        BY <3>2, <4>2 DEF LastOf
      <4> QED
        BY <1>3, <1>4, <3>2, <4>2, <4>3
    <3> QED
      BY <3>1, <3>2
  <2>2. walk(g) = [i \in 0..tableSize |-> next(i)]
    OBVIOUS
  <2> HIDE DEF next, walk
  <2>3. [i \in 0..tableSize |-> g[i]] = [i \in 0..tableSize |-> next(i)]
    BY <2>1
  <2> QED
    BY <2>0, <2>2, <2>3
<1> HIDE DEF g
<1>6. Down(t) = walk(Down(t))
  <2>1. Down(t) = CHOOSE from : from = walk(from)
    BY DEF Down
  <2> HIDE DEF walk
  <2> QED
    BY <1>5, <2>1
<1> DEFINE T == {i \in Nat : i <= tableSize => LastOf(t, i, Down(t)[i])}
<1>7. 0 \in T
  <2>1. Down(t)[0] = 0
    BY <1>1, <1>6
  <2> QED
    BY <2>1 DEF LastOf
<1>8. ASSUME NEW i \in Nat, i \in T
      PROVE  i + 1 \in T
  <2> SUFFICES ASSUME i + 1 <= tableSize PROVE LastOf(t, i + 1, Down(t)[i + 1])
    OBVIOUS
  <2>1. LastOf(t, i, Down(t)[i])
    BY <1>1, <1>8
  <2>2. Down(t)[i + 1] = IF tables[i + 1].table = t THEN i + 1 ELSE Down(t)[i]
    <3>1. i + 1 \in 0..tableSize /\ i + 1 # 0 /\ (i + 1) - 1 = i
      BY <1>1
    <3> HIDE DEF T
    <3> QED
      BY <1>6, <3>1
  <2> QED
    BY <2>1, <2>2 DEF LastOf
<1> HIDE DEF T
<1>9. Nat \subseteq T
  BY <1>7, <1>8, NatSetInduction
<1> QED
  BY <1>1, <1>9 DEF T

\* Entry j at or below i has table t, reads sym, and no mask of t lies between.
InScopeAt(t, sym, i, j) ==
  /\ j \in 1..i
  /\ tables[j].table = t
  /\ Bytes(tables[j].symbol, tables[j].length) = sym
  /\ \A k \in j..i : tables[k].table = t => tables[k].symbol # NullSymbol

\* The walk that ends at a mask finds what no mask hides.
LEMMA HoldsIs ==
  ASSUME TypeOK, NEW t, NEW sym
  PROVE  /\ Holds(t, sym) <=> \E j \in 1..tableSize : InScopeAt(t, sym, tableSize, j)
         /\ Holds(t, sym) \in BOOLEAN
<1>1. tableSize \in Nat
  BY DEF TypeOK, Typed
<1> DEFINE d == Down(t)
           reads(k) == Bytes(tables[k].symbol, tables[k].length) = sym
           walk(f) == [i \in 0..tableSize |->
                         /\ d[i] # 0
                         /\ tables[d[i]].symbol # NullSymbol
                         /\ reads(d[i]) \/ f[d[i] - 1]]
           seen(i) == \E j \in 1..i : InScopeAt(t, sym, i, j)
           g == [i \in 0..tableSize |-> seen(i)]
<1>2. \A i \in 0..tableSize : LastOf(t, i, d[i])
  BY DownIs
<1>3. ASSUME NEW i \in 0..tableSize
      PROVE  seen(i) <=> /\ d[i] # 0
                         /\ tables[d[i]].symbol # NullSymbol
                         /\ reads(d[i]) \/ seen(d[i] - 1)
  <2>1. LastOf(t, i, d[i]) /\ i \in Nat
    BY <1>1, <1>2
  <2> HIDE DEF d
  <2>2. CASE d[i] = 0
    BY <2>1, <2>2 DEF LastOf, InScopeAt
  <2>3. CASE d[i] # 0 /\ tables[d[i]].symbol = NullSymbol
    BY <2>1, <2>3 DEF LastOf, InScopeAt
  <2>4. CASE d[i] # 0 /\ tables[d[i]].symbol # NullSymbol
    <3>1. d[i] \in 1..i /\ tables[d[i]].table = t
      BY <2>1, <2>4 DEF LastOf
    <3>2. ASSUME reads(d[i])
          PROVE  seen(i)
      <4>1. InScopeAt(t, sym, i, d[i])
        BY <2>1, <2>4, <3>1, <3>2 DEF LastOf, InScopeAt
      <4> QED
        BY <3>1, <4>1
    <3>3. ASSUME seen(d[i] - 1)
          PROVE  seen(i)
      <4>1. PICK j \in 1..d[i]-1 : InScopeAt(t, sym, d[i] - 1, j)
        BY <3>3
      <4>2. InScopeAt(t, sym, i, j) /\ j \in 1..i
        BY <2>1, <2>4, <3>1, <4>1 DEF LastOf, InScopeAt
      <4> QED
        BY <4>2
    <3>4. ASSUME seen(i)
          PROVE  reads(d[i]) \/ seen(d[i] - 1)
      <4>1. PICK j \in 1..i : InScopeAt(t, sym, i, j)
        BY <3>4
      <4>2. j <= d[i]
        BY <2>1, <3>1, <4>1 DEF LastOf, InScopeAt
      <4>3. CASE j = d[i]
        BY <4>1, <4>3 DEF InScopeAt
      <4>4. CASE j # d[i]
        <5>1. j \in 1..d[i]-1 /\ InScopeAt(t, sym, d[i] - 1, j)
          BY <3>1, <4>1, <4>2, <4>4 DEF InScopeAt
        <5> QED
          BY <5>1
      <4> QED
        BY <4>3, <4>4
    <3> HIDE DEF reads, seen
    <3> QED
      BY <2>4, <3>2, <3>3, <3>4
  <2> QED
    BY <2>2, <2>3, <2>4
<1>4. \A i \in 0..tableSize : d[i] \in 0..i /\ (d[i] # 0 => d[i] - 1 \in 0..tableSize)
  BY <1>1, <1>2 DEF LastOf
<1> HIDE DEF d, reads, seen
<1>5. g = walk(g)
  <2> DEFINE next(i) == /\ d[i] # 0
                        /\ tables[d[i]].symbol # NullSymbol
                        /\ reads(d[i]) \/ g[d[i] - 1]
  <2>1. \A i \in 0..tableSize : d[i] # 0 => g[d[i] - 1] = seen(d[i] - 1)
    BY <1>4
  <2>2. ASSUME NEW i \in 0..tableSize
        PROVE  seen(i) = next(i)
    <3>1. seen(i) <=> next(i)
      BY <1>3, <2>1
    <3>2. seen(i) \in BOOLEAN
      BY DEF seen
    <3>3. next(i) \in BOOLEAN
      OBVIOUS
    <3> HIDE DEF next
    <3> QED
      BY <3>1, <3>2, <3>3
  <2>3. walk(g) = [i \in 0..tableSize |-> next(i)]
    OBVIOUS
  <2> HIDE DEF next, walk
  <2>4. g = [i \in 0..tableSize |-> next(i)]
    <3> HIDE DEF seen
    <3> QED
      BY <2>2
  <2> QED
    BY <2>3, <2>4
<1> DEFINE f == CHOOSE from : from = walk(from)
<1>6. Holds(t, sym) = f[tableSize]
  BY DEF Holds, d, reads
<1> HIDE DEF g
<1>7. f = walk(f)
  <2> HIDE DEF walk
  <2> QED
    BY <1>5
<1> HIDE DEF f
<1> DEFINE T == {n \in Nat : \A i \in 0..n : i <= tableSize => (f[i] <=> seen(i))}
<1>8. \A i \in 0..tableSize :
        f[i] <=> /\ d[i] # 0
                 /\ tables[d[i]].symbol # NullSymbol
                 /\ reads(d[i]) \/ f[d[i] - 1]
  BY <1>7
<1>9. 0 \in T
  <2>1. d[0] = 0
    BY <1>1, <1>4
  <2> QED
    BY <1>1, <1>3, <1>8, <2>1
<1>10. ASSUME NEW n \in Nat, n \in T
       PROVE  n + 1 \in T
  <2> SUFFICES ASSUME n + 1 <= tableSize PROVE f[n + 1] <=> seen(n + 1)
    BY <1>10
  <2>1. n + 1 \in 0..tableSize
    BY <1>1
  <2>2. d[n + 1] # 0 => d[n + 1] - 1 \in 0..n /\ d[n + 1] - 1 <= tableSize
    BY <1>1, <1>4, <2>1
  <2>3. d[n + 1] # 0 => (f[d[n + 1] - 1] <=> seen(d[n + 1] - 1))
    BY <1>10, <2>2
  <2> QED
    BY <1>3, <1>8, <2>1, <2>3
<1> HIDE DEF T
<1>11. Nat \subseteq T
  BY <1>9, <1>10, NatSetInduction
<1>12. f[tableSize] <=> seen(tableSize)
  BY <1>1, <1>11 DEF T
<1>13. f[tableSize] \in BOOLEAN
  BY <1>1, <1>7
<1> QED
  BY <1>6, <1>12, <1>13 DEF seen

\* The entry that exists, equals and matchSymbol look at.
LEMMA TopIs ==
  ASSUME TypeOK, NEW t
  PROVE  LastOf(t, tableSize, Top(t)) /\ Top(t) \in 0..tableSize
<1>1. tableSize \in 0..tableSize
  BY DEF TypeOK, Typed
<1>2. LastOf(t, tableSize, Down(t)[tableSize])
  BY <1>1, DownIs
<1> QED
  BY <1>2 DEF LastOf, Top

\* The abstract scope of a table, in the array's terms.
LEMMA ScopeIs ==
  ASSUME TypeOK, NEW t
  PROVE  /\ Scopes!Scope(t) =
              {i \in 1..tableSize :
                 /\ tables[i].table = t
                 /\ \A m \in i..tableSize :
                      tables[m].table = t => tables[m].symbol # NullSymbol}
         /\ \A i \in Scopes!Scope(t) :
              Symbols(tableSize)[i].symbol = Bytes(tables[i].symbol, tables[i].length)
<1>1. tableSize \in Nat
  BY DEF TypeOK, Typed
<1>2. DOMAIN Symbols(tableSize) = 1..tableSize /\ Len(Symbols(tableSize)) = tableSize
  BY <1>1 DEF Symbols
<1>3. \A i \in 1..tableSize :
        /\ Symbols(tableSize)[i].table = tables[i].table
        /\ Symbols(tableSize)[i].masked <=> tables[i].symbol = NullSymbol
        /\ tables[i].symbol # NullSymbol =>
             Symbols(tableSize)[i].symbol = Bytes(tables[i].symbol, tables[i].length)
  BY DEF Symbols
<1>4. Scopes!Scope(t) =
        {i \in 1..tableSize :
           /\ tables[i].table = t
           /\ \A m \in i..tableSize :
                tables[m].table = t => tables[m].symbol # NullSymbol}
  BY <1>1, <1>2, <1>3 DEF Scopes!Scope
<1> QED
  BY <1>1, <1>3, <1>4

\* The array's top entry of a table is the newest in scope, if any is in scope.
LEMMA NewestIs ==
  ASSUME TypeOK, NEW t
  PROVE  /\ exists(t) <=> Scopes!Scope(t) # {}
         /\ exists(t) => Scopes!Newest(t) = TopBytes(t)
<1>1. tableSize \in Nat /\ LastOf(t, tableSize, Top(t)) /\ Top(t) \in 0..tableSize
  BY TopIs DEF TypeOK, Typed
<1>2. /\ Scopes!Scope(t) =
           {i \in 1..tableSize :
              /\ tables[i].table = t
              /\ \A m \in i..tableSize :
                   tables[m].table = t => tables[m].symbol # NullSymbol}
      /\ \A i \in Scopes!Scope(t) :
           Symbols(tableSize)[i].symbol = Bytes(tables[i].symbol, tables[i].length)
  BY ScopeIs
<1>3. \A i \in Scopes!Scope(t) : i <= Top(t) /\ exists(t) /\ i \in Nat
  BY <1>1, <1>2 DEF LastOf, exists
<1>4. exists(t) => Top(t) \in Scopes!Scope(t)
  BY <1>1, <1>2 DEF LastOf, exists
<1>5. ASSUME exists(t)
      PROVE  Scopes!Newest(t) = TopBytes(t)
  <2> DEFINE S == Scopes!Scope(t)
             c == CHOOSE i \in S : \A j \in S : j <= i
  <2>1. Top(t) \in S /\ \A j \in S : j <= Top(t)
    BY <1>3, <1>4, <1>5
  <2>2. c \in S /\ \A j \in S : j <= c
    <3> HIDE DEF S
    <3> QED
      BY <2>1
  <2>3. \A j \in S : j \in Nat
    BY <1>3
  <2>4. c = Top(t)
    <3> HIDE DEF S, c
    <3> QED
      BY <2>1, <2>2, <2>3
  <2>5. Scopes!Newest(t) = Symbols(tableSize)[c].symbol
    BY DEF Scopes!Newest
  <2> HIDE DEF S, c
  <2> QED
    BY <1>2, <2>1, <2>4, <2>5 DEF TopBytes, S
<1> QED
  BY <1>3, <1>4, <1>5

\* Type correctness leaves the queries no other answer.
LEMMA QueriesOK == TypeOK => QueriesAgree
<1> SUFFICES ASSUME TypeOK, NEW t \in Tables
             PROVE  /\ exists(t) = (Scopes!Scope(t) # {})
                    /\ \A p, q \in 0..Len(Text) :
                         /\ Holds(t, SubSeq(Text, p + 1, q)) =
                              (SubSeq(Text, p + 1, q) \in Scopes!Known(t))
                         /\ equals(t, SubSeq(Text, p + 1, q)) =
                              (/\ Scopes!Scope(t) # {}
                               /\ Scopes!Newest(t) = SubSeq(Text, p + 1, q))
  BY DEF QueriesAgree
<1>1. /\ exists(t) <=> Scopes!Scope(t) # {}
      /\ exists(t) => Scopes!Newest(t) = TopBytes(t)
  BY NewestIs
<1>2. exists(t) = (Scopes!Scope(t) # {})
  BY <1>1 DEF exists
<1>3. ASSUME NEW sym
      PROVE  equals(t, sym) = (Scopes!Scope(t) # {} /\ Scopes!Newest(t) = sym)
  BY <1>1 DEF equals
<1>4. ASSUME NEW sym
      PROVE  Holds(t, sym) = (sym \in Scopes!Known(t))
  <2>1. /\ Holds(t, sym) <=> \E j \in 1..tableSize : InScopeAt(t, sym, tableSize, j)
        /\ Holds(t, sym) \in BOOLEAN
    BY HoldsIs
  <2>2. /\ Scopes!Scope(t) =
             {i \in 1..tableSize :
                /\ tables[i].table = t
                /\ \A m \in i..tableSize :
                     tables[m].table = t => tables[m].symbol # NullSymbol}
        /\ \A i \in Scopes!Scope(t) :
             Symbols(tableSize)[i].symbol = Bytes(tables[i].symbol, tables[i].length)
    BY ScopeIs
  <2>3. sym \in Scopes!Known(t) <=>
          \E i \in Scopes!Scope(t) : Bytes(tables[i].symbol, tables[i].length) = sym
    BY <2>2 DEF Scopes!Known
  <2>4. sym \in Scopes!Known(t) <=>
          \E j \in 1..tableSize : InScopeAt(t, sym, tableSize, j)
    BY <2>2, <2>3 DEF InScopeAt
  <2> QED
    BY <2>1, <2>4
<1> QED
  BY <1>2, <1>3, <1>4
-----------------------------------------------------------------------------

\* Every step keeps the types and the order of the array.
LEMMA NextOK == TypeOK /\ [Next]_vars => TypeOK'
<1> SUFFICES ASSUME TypeOK, [Next]_vars PROVE TypeOK'
  OBVIOUS
<1>1. Typed /\ PointsNest /\ EntriesWritten /\ StateValues
  BY DEF TypeOK
<1>2. ASSUME pos' \in 0..Len(Text),
             UNCHANGED <<tables, tableSize, stateValue, stateCount, points>>
      PROVE  TypeOK'
  BY <1>1, <1>2 DEF TypeOK, Typed, PointsNest, EntriesWritten, StateValues, Written
<1>3. CASE addSymbol \/ addSymbolMask
  BY <1>3, AddOK
<1>4. CASE Open \/ Close \/ Renew \/ Revert
  BY <1>4, ParserOK
<1>5. CASE matchSymbol
  <2>1. PICK t \in Tables : /\ exists(t) /\ pos + tables[Top(t)].length <= Len(Text)
                            /\ pos' = pos + tables[Top(t)].length
    BY <1>5 DEF matchSymbol
  <2>2. Top(t) \in 1..tableSize
    BY <2>1, TopIs DEF exists
  <2>3. tables \in Seq(EntryType) /\ Top(t) \in 1..Len(tables)
    BY <1>1, <2>2 DEF Typed, EntryType
  <2>4. tables[Top(t)].length \in Nat
    <3>1. tables[Top(t)] \in EntryType
      BY <2>3, ElementOfSeq
    <3> QED
      BY <3>1 DEF EntryType
  <2>5. pos' \in 0..Len(Text)
    <3>1. pos \in 0..Len(Text) /\ Len(Text) \in Nat
      BY <1>1, TableAssumption, LenProperties DEF Typed
    <3> QED
      BY <2>1, <2>4, <3>1
  <2> QED
    BY <1>2, <1>5, <2>5 DEF matchSymbol
<1>6. CASE Move
  BY <1>2, <1>6 DEF Move
<1>7. CASE UNCHANGED vars
  BY <1>1, <1>2, <1>7 DEF vars, Typed
<1> QED
  BY <1>3, <1>4, <1>5, <1>6, <1>7 DEF Next

\* In every state the array, its live part, the save points and the state
\* values are in order, for every text, growth and bound.
THEOREM TypeCorrect == Spec => []TypeOK
<1> QED
  BY InitOK, NextOK, PTL DEF Spec

\* exists, existsSymbol, contains and equals answer, in every state, from the
\* symbols that a list with scopes would have in scope.
THEOREM QueriesAnswer == Spec => []QueriesAgree
<1> QED
  BY TypeCorrect, QueriesOK, PTL
-----------------------------------------------------------------------------
(* The array implements the list with scopes.                              *)

\* The mapping as operators of the array: the first n entries as symbols, the
\* state value that goes with them, and the copies kept with alternatives.
SymbolOf(e) == [table  |-> e.table,
                masked |-> e.symbol = NullSymbol,
                symbol |-> IF e.symbol = NullSymbol THEN <<>>
                           ELSE Bytes(e.symbol, e.length)]
SymbolsOf(es, n) == [i \in 1..n |-> SymbolOf(es[i])]
VersionOf(es, n) == IF n = 0 THEN 0 ELSE es[n].stateValue
NowOf(es, n) == [symbols |-> SymbolsOf(es, n), version |-> VersionOf(es, n)]
SavedOf(es, ps) == [k \in DOMAIN ps |-> NowOf(es, ps[k])]

\* A function on 1..n is a sequence.
LEMMA Listed ==
  ASSUME NEW n \in Nat, NEW f, f = [i \in 1..n |-> f[i]]
  PROVE  /\ f \in Seq({f[i] : i \in 1..n}) /\ Len(f) = n
<1>1. f \in [1..n -> {f[i] : i \in 1..n}]
  OBVIOUS
<1> QED
  BY <1>1

\* Sequences are equal when their elements are.
LEMMA SameList ==
  ASSUME NEW n \in Nat, NEW f, NEW h,
         f = [i \in 1..n |-> f[i]], h = [i \in 1..n |-> h[i]],
         \A i \in 1..n : f[i] = h[i]
  PROVE  f = h
OBVIOUS

\* What an alternative keeps depends on the entries below its save point only.
LEMMA NowKept ==
  ASSUME NEW es, NEW fs, NEW n \in Nat, \A i \in 1..n : es[i] = fs[i]
  PROVE  NowOf(es, n) = NowOf(fs, n)
<1>1. SymbolsOf(es, n) = SymbolsOf(fs, n)
  BY DEF SymbolsOf
<1>2. VersionOf(es, n) = VersionOf(fs, n)
  BY DEF VersionOf
<1> QED
  BY <1>1, <1>2 DEF NowOf

\* The abstract variables are these operators of the concrete ones.
LEMMA MappedIs ==
  /\ Symbols(tableSize) = SymbolsOf(tables, tableSize)
  /\ [k \in DOMAIN points |->
        [symbols |-> Symbols(points[k]),
         version |-> IF points[k] = 0 THEN 0 ELSE tables[points[k]].stateValue]]
     = SavedOf(tables, points)
  /\ Symbols(tableSize)' = SymbolsOf(tables', tableSize')
  /\ [k \in DOMAIN points |->
        [symbols |-> Symbols(points[k]),
         version |-> IF points[k] = 0 THEN 0 ELSE tables[points[k]].stateValue]]'
     = SavedOf(tables', points')
  BY DEF Symbols, SymbolsOf, SymbolOf, SavedOf, NowOf, VersionOf

\* The array starts as the empty list.
LEMMA InitMaps == Init => Scopes!Init
<1> SUFFICES ASSUME Init PROVE Scopes!Init
  OBVIOUS
<1>1. Symbols(tableSize) = <<>>
  BY DEF Init, Symbols
<1>2. [k \in DOMAIN points |->
        [symbols |-> Symbols(points[k]),
         version |-> IF points[k] = 0 THEN 0 ELSE tables[points[k]].stateValue]]
      = <<>>
  BY DEF Init
<1> QED
  BY <1>1, <1>2 DEF Init, Scopes!Init

\* A push adds what it was asked to add, and no copy changes.
LEMMA AddMaps ==
  ASSUME TypeOK, addSymbol \/ addSymbolMask
  PROVE  Scopes!Add
<1>1. PICK t \in Tables, symbol \in {NullSymbol} \cup 0..Len(Text), length \in Nat :
        /\ IF symbol = NullSymbol THEN length = 4
           ELSE symbol \in 0..pos /\ symbol + length = pos
        /\ stateCount < MaxState
        /\ _push(t, symbol, length)
        /\ added' = <<[table |-> t, masked |-> symbol = NullSymbol,
                       symbol |-> IF symbol = NullSymbol THEN <<>>
                                  ELSE Bytes(symbol, length)]>>
  BY AddIs
<1>2. pos \in 0..Len(Text) /\ Len(Text) \in Nat /\ tableSize \in Nat
  BY TableAssumption, LenProperties DEF TypeOK, Typed
<1>3. IF symbol = NullSymbol THEN length = 4 ELSE symbol + length <= Len(Text)
  BY <1>1, <1>2
<1> DEFINE e == tables'[tableSize']
<1>4. /\ tables' \in Seq(EntryType) /\ tableSize' \in 1..Len(tables')
      /\ tableSize' = tableSize + 1
      /\ \A i \in DOMAIN tables : i # tableSize' => tables'[i] = tables[i]
      /\ Same(e, t, symbol, length)
      /\ IF e.symbol = NullSymbol THEN e.length = 4 ELSE e.symbol + e.length <= Len(Text)
  BY <1>1, <1>2, <1>3, PushIs
<1>5. \A i \in 1..tableSize : i \in DOMAIN tables /\ tables'[i] = tables[i]
  <2>1. tables \in Seq(EntryType) /\ tableSize \in 0..Len(tables)
    BY DEF TypeOK, Typed, EntryType
  <2>2. DOMAIN tables = 1..Len(tables) /\ Len(tables) \in Nat
    BY <2>1, LenProperties
  <2> QED
    BY <1>2, <1>4, <2>1, <2>2
<1>6. SymbolOf(e) = [table |-> t, masked |-> symbol = NullSymbol,
                     symbol |-> IF symbol = NullSymbol THEN <<>> ELSE Bytes(symbol, length)]
  <2>1. e \in EntryType
    BY <1>4, ElementOfSeq
  <2>2. e.symbol \in {NullSymbol} \cup 0..Len(Text) /\ e.length \in Nat
    BY <2>1 DEF EntryType
  <2>3. e.table = t /\ e.length = length /\ Bytes(e.symbol, length) = Bytes(symbol, length)
    BY <1>4 DEF Same
  <2>4. e.symbol = NullSymbol <=> symbol = NullSymbol
    <3>1. ASSUME e.symbol = NullSymbol, symbol # NullSymbol PROVE FALSE
      BY <1>1, <1>2, <1>3, <1>4, <2>3, <3>1, NoSliceIsMask
    <3>2. ASSUME e.symbol # NullSymbol, symbol = NullSymbol PROVE FALSE
      BY <1>1, <1>2, <1>3, <1>4, <2>2, <2>3, <3>2, NoSliceIsMask
    <3> QED
      BY <3>1, <3>2
  <2>5. (e.symbol = NullSymbol) = (symbol = NullSymbol)
    BY <2>4
  <2> HIDE DEF e
  <2> QED
    BY <2>3, <2>5 DEF SymbolOf
<1>7. /\ added' = <<SymbolOf(e)>> /\ SymbolOf(e).table \in Tables
      /\ SymbolOf(e).masked \/
           \E from \in 0..pos : SymbolOf(e).symbol = SubSeq(Text, from + 1, pos)
  <2>1. added' = <<SymbolOf(e)>> /\ SymbolOf(e).table = t
    BY <1>1, <1>6
  <2>2. CASE symbol = NullSymbol
    <3>1. SymbolOf(e).masked = (symbol = NullSymbol)
      BY <1>6
    <3>2. SymbolOf(e).masked
      BY <2>2, <3>1
    <3> QED
      BY <2>1, <3>2
  <2>3. CASE symbol # NullSymbol
    <3>1. SymbolOf(e).symbol = SubSeq(Text, symbol + 1, pos) /\ symbol \in 0..pos
      BY <1>1, <1>2, <1>6, <2>3 DEF Bytes
    <3> QED
      BY <2>1, <3>1
  <2> QED
    BY <2>2, <2>3
<1>8. SymbolsOf(tables', tableSize') = SymbolsOf(tables, tableSize) \o <<SymbolOf(e)>>
  <2> DEFINE a == SymbolsOf(tables, tableSize)
             z == SymbolOf(e)
             b == SymbolsOf(tables', tableSize')
  <2>1. /\ a = [i \in 1..tableSize |-> a[i]] /\ b = [i \in 1..tableSize+1 |-> b[i]]
        /\ \A i \in 1..tableSize : b[i] = a[i]
        /\ b[tableSize + 1] = z
    BY <1>2, <1>4, <1>5 DEF SymbolsOf
  <2> HIDE DEF a, b, z, e
  <2>2. Len(a) = tableSize
    BY <1>2, <2>1, Listed
  <2>3. a \o <<z>> = [i \in 1..tableSize+1 |-> IF i <= tableSize THEN a[i] ELSE z]
    BY <1>2, <2>2
  <2>4. b = a \o <<z>>
    <3> DEFINE c == a \o <<z>>
    <3>1. \A i \in 1..tableSize+1 : c[i] = IF i <= tableSize THEN a[i] ELSE z
      BY <1>2, <2>3
    <3>2. c = [i \in 1..tableSize+1 |-> c[i]] /\ tableSize + 1 \in Nat
      BY <1>2, <2>3
    <3> HIDE DEF c
    <3>3. ASSUME NEW i \in 1..tableSize+1
          PROVE  b[i] = c[i]
      <4>1. CASE i <= tableSize
        <5>1. i \in 1..tableSize /\ c[i] = a[i]
          BY <1>2, <3>1, <4>1
        <5> QED
          BY <2>1, <5>1
      <4>2. CASE i = tableSize + 1
        <5>1. c[i] = z
          BY <1>2, <3>1, <4>2
        <5> QED
          BY <2>1, <4>2, <5>1
      <4> QED
        BY <1>2, <4>1, <4>2
    <3>4. b = c
      BY <2>1, <3>2, <3>3, SameList
    <3> QED
      BY <3>4 DEF c
  <2> QED
    BY <2>4 DEF a, b, z
<1>9. SavedOf(tables', points') = SavedOf(tables, points)
  <2>1. points' = points /\ points \in Seq(0..tableSize)
    BY <1>1 DEF _push, TypeOK, Typed
  <2>2. \A k \in DOMAIN points : points[k] \in Nat /\ points[k] <= tableSize
    BY <1>2, <2>1, LenProperties, ElementOfSeq
  <2>3. \A k \in DOMAIN points : NowOf(tables', points[k]) = NowOf(tables, points[k])
    BY <1>2, <1>5, <2>2, NowKept
  <2> QED
    BY <2>1, <2>3 DEF SavedOf
<1>10. pos' = pos /\ Len(added') = 1 /\ added'[1] = SymbolOf(e)
  BY <1>1, <1>7 DEF _push
<1> HIDE DEF e
<1> QED
  BY <1>7, <1>8, <1>9, <1>10, MappedIs DEF Scopes!Add

\* The bytes of a pointer into the text.
LEMMA BytesIs ==
  ASSUME NEW p \in Nat, NEW n \in Nat, p + n <= Len(Text)
  PROVE  /\ Bytes(p, n) \in Seq(Range(Text)) /\ Len(Bytes(p, n)) = n
         /\ \A i \in 1..n : Bytes(p, n)[i] = Text[p + i]
<1>1. Bytes(p, n) = SubSeq(Text, p + 1, p + n)
  BY DEF Bytes, NullSymbol
<1> QED
  BY <1>1, SliceIs

\* What ComesNext asks of the text is what ParserContext_match compares.
LEMMA MatchMaps ==
  ASSUME TypeOK, matchSymbol
  PROVE  Scopes!Match
<1>1. PICK t \in Tables : /\ exists(t)
                          /\ pos + tables[Top(t)].length <= Len(Text)
                          /\ Bytes(pos, tables[Top(t)].length) = TopBytes(t)
                          /\ pos' = pos + tables[Top(t)].length
  BY DEF matchSymbol
<1> DEFINE e == tables[Top(t)]
           n == e.length
           s == TopBytes(t)
           rest == SubSeq(Text, pos + 1, Len(Text))
<1>2. pos \in 0..Len(Text) /\ Len(Text) \in Nat /\ Text \in Seq(Range(Text))
  BY TableAssumption, LenProperties DEF TypeOK, Typed
<1>3. Top(t) \in 1..tableSize /\ e.symbol # NullSymbol
  BY <1>1, TopIs DEF exists
<1>4. n \in Nat /\ e.symbol \in 0..Len(Text) /\ e.symbol + n <= Len(Text)
  <2>1. tables \in Seq(EntryType) /\ Top(t) \in 1..Len(tables) /\ Top(t) \in Written
    BY <1>3 DEF TypeOK, Typed, EntriesWritten, EntryType
  <2>2. e \in EntryType
    BY <2>1, ElementOfSeq
  <2> QED
    BY <1>3, <2>1, <2>2 DEF EntryType, TypeOK, EntriesWritten
<1>5. /\ s \in Seq(Range(Text)) /\ Len(s) = n
      /\ \A i \in 1..n : s[i] = Text[pos + i]
  <2>1. s = Bytes(pos, n) /\ pos + n <= Len(Text) /\ pos \in Nat
    BY <1>1, <1>2
  <2> HIDE DEF s, n
  <2> QED
    BY <1>4, <2>1, BytesIs
<1>7. IsPrefix(s, rest)
  <2>1. /\ Len(rest) = Len(Text) - pos
        /\ \A i \in 1..Len(Text) - pos : rest[i] = Text[pos + i]
    <3> DEFINE m == Len(Text) - pos
    <3>1. pos \in Nat /\ m \in Nat /\ pos + m = Len(Text)
      BY <1>2
    <3> HIDE DEF m, rest
    <3>2. /\ Len(SubSeq(Text, pos + 1, pos + m)) = m
          /\ \A i \in 1..m : SubSeq(Text, pos + 1, pos + m)[i] = Text[pos + i]
      BY <3>1, SliceIs
    <3> QED
      BY <3>1, <3>2 DEF m, rest
  <2>2. \A i \in 1..n : s[i] = Text[pos + i] /\ Text[pos + i] = rest[i] /\ rest[i] \in Range(Text)
    <3>1. \A i \in 1..n : Text[pos + i] = rest[i]
      BY <1>1, <1>2, <1>4, <2>1
    <3>2. \A i \in 1..n : s[i] \in Range(Text)
      <4> HIDE DEF s, n
      <4> QED
        BY <1>5, ElementOfSeq
    <3> HIDE DEF s, n, rest
    <3> QED
      BY <1>5, <3>1, <3>2
  <2> HIDE DEF rest, n, s, e
  <2>3. /\ SubSeq(rest, 1, n) \in Seq(Range(Text)) /\ Len(SubSeq(rest, 1, n)) = n
        /\ \A i \in 1..n : SubSeq(rest, 1, n)[i] = rest[i]
    BY <1>4, <2>2, SubSeqProperties
  <2>4. SubSeq(rest, 1, n) = s
    BY <1>4, <1>5, <2>2, <2>3, SeqEqual
  <2>5. SubSeq(s, 1, n) = s
    BY <1>5, SubSeqFull
  <2>6. n <= Len(rest)
    BY <1>1, <1>2, <1>4, <2>1 DEF n, e
  <2> QED
    BY <1>5, <2>4, <2>5, <2>6 DEF IsPrefix
<1>8. Scopes!Scope(t) # {} /\ Scopes!Newest(t) = s
  BY <1>1, NewestIs
<1>9. Scopes!ComesNext(t)
  <2> HIDE DEF s
  <2> QED
    BY <1>7, <1>8 DEF Scopes!ComesNext, Scopes!IsPrefix, IsPrefix
<1>10. UNCHANGED <<tables, tableSize, stateValue, points>>
  BY DEF matchSymbol
<1>11. pos' = pos + Len(Scopes!Newest(t))
  BY <1>1, <1>5, <1>8
<1> QED
  BY <1>9, <1>10, <1>11, MappedIs DEF Scopes!Match

\* The copies an alternative keeps, as a sequence.
LEMMA SavedIs ==
  ASSUME TypeOK
  PROVE  /\ DOMAIN SavedOf(tables, points) = 1..Len(points)
         /\ SavedOf(tables, points) \in Seq({NowOf(tables, n) : n \in Nat})
         /\ Len(SavedOf(tables, points)) = Len(points) /\ Len(points) \in Nat
         /\ \A k \in 1..Len(points) :
              /\ SavedOf(tables, points)[k] = NowOf(tables, points[k])
              /\ points[k] \in 0..tableSize
         /\ points = <<>> <=> SavedOf(tables, points) = <<>>
         /\ Len(points) = 0 <=> points = <<>>
<1>1. points \in Seq(0..tableSize) /\ tableSize \in Nat
  BY DEF TypeOK, Typed
<1>2. /\ Len(points) \in Nat /\ DOMAIN points = 1..Len(points)
      /\ \A k \in 1..Len(points) : points[k] \in 0..tableSize
      /\ Len(points) = 0 <=> points = <<>>
  BY <1>1, LenProperties, ElementOfSeq, EmptySeq
<1> DEFINE sv == SavedOf(tables, points)
<1>3. /\ sv = [k \in 1..Len(points) |-> NowOf(tables, points[k])]
      /\ \A k \in 1..Len(points) : sv[k] = NowOf(tables, points[k])
  BY <1>2 DEF SavedOf
<1>4. sv \in [1..Len(points) -> {NowOf(tables, n) : n \in Nat}]
  <2>1. \A k \in 1..Len(points) : points[k] \in Nat
    BY <1>1, <1>2
  <2> HIDE DEF sv
  <2> QED
    BY <1>3, <2>1
<1> HIDE DEF sv
<1>5. sv \in Seq({NowOf(tables, n) : n \in Nat}) /\ Len(sv) = Len(points)
  BY <1>2, <1>4
<1>6. points = <<>> <=> sv = <<>>
  BY <1>2, <1>5, EmptySeq
<1> QED
  BY <1>2, <1>3, <1>5, <1>6 DEF sv

\* Opening, closing, renewing and failing an alternative do to the copies what
\* the list with scopes does to them.
LEMMA ParserMaps ==
  ASSUME TypeOK
  PROVE  /\ Open => Scopes!Open
         /\ Close => Scopes!Close
         /\ Renew => Scopes!Renew
         /\ Revert => Scopes!Revert
<1> DEFINE V == {NowOf(tables, n) : n \in Nat}
           sv == SavedOf(tables, points)
           now == NowOf(tables, tableSize)
           back == SubSeq(sv, 1, Len(sv) - 1)
<1>1. points \in Seq(0..tableSize) /\ tableSize \in Nat
  BY DEF TypeOK, Typed
<1>2. /\ sv \in Seq(V) /\ now \in V
      /\ Len(sv) = Len(points) /\ Len(points) \in Nat
      /\ \A k \in 1..Len(points) : sv[k] = NowOf(tables, points[k])
      /\ points = <<>> <=> sv = <<>>
  BY <1>1, SavedIs
<1>3. Scopes!Now = now
  BY MappedIs DEF Scopes!Now, NowOf, VersionOf, TypeOK, StateValues
<1>4. ASSUME NEW ps \in Seq(0..tableSize), NEW f \in Seq(V), Len(ps) = Len(f),
             \A k \in 1..Len(f) : f[k] = NowOf(tables, ps[k])
      PROVE  SavedOf(tables, ps) = f
  <2> DEFINE h == SavedOf(tables, ps)
  <2>1. Len(f) \in Nat /\ DOMAIN ps = 1..Len(f) /\ f = [k \in 1..Len(f) |-> f[k]]
    BY <1>4, LenProperties
  <2>2. h = [k \in 1..Len(f) |-> h[k]] /\ \A k \in 1..Len(f) : h[k] = f[k]
    BY <1>4, <2>1 DEF SavedOf
  <2> HIDE DEF h, V
  <2>3. h = f
    BY <2>1, <2>2, SameList
  <2> QED
    BY <2>3 DEF h
<1> HIDE DEF V, sv, now
\* The copies of all alternatives but the last, when there is one.
<1>5. ASSUME points # <<>>
      PROVE  /\ back \in Seq(V) /\ Len(back) = Len(points) - 1
             /\ SavedOf(tables, Front(points)) = back
             /\ Front(points) \in Seq(0..tableSize)
             /\ sv[Len(sv)] = NowOf(tables, Last(points))
             /\ Last(points) \in 0..tableSize
  <2>1. /\ Front(points) \in Seq(0..tableSize) /\ Len(Front(points)) = Len(points) - 1
        /\ Len(points) \in Nat \ {0}
        /\ \A i \in 1..Len(points) - 1 : Front(points)[i] = points[i]
        /\ Last(points) = points[Len(points)] /\ Last(points) \in 0..tableSize
    BY <1>1, <1>5, FrontIs
  <2>2. /\ Front(sv) \in Seq(V) /\ Len(Front(sv)) = Len(sv) - 1
        /\ \A i \in 1..Len(sv) - 1 : Front(sv)[i] = sv[i]
    BY <1>2, <1>5, FrontIs
  <2>3. back = Front(sv)
    BY DEF Front
  <2> HIDE DEF back
  <2>4. SavedOf(tables, Front(points)) = back
    <3>1. \A k \in 1..Len(back) : back[k] = NowOf(tables, Front(points)[k])
      BY <1>2, <2>1, <2>2, <2>3
    <3> QED
      BY <1>2, <1>4, <2>1, <2>2, <2>3, <3>1
  <2> QED
    BY <1>2, <2>1, <2>2, <2>3, <2>4
<1>6. ASSUME NEW ps \in Seq(0..tableSize), NEW f \in Seq(V), SavedOf(tables, ps) = f,
             Len(ps) = Len(f)
      PROVE  SavedOf(tables, Append(ps, tableSize)) = Append(f, now)
  <2>1. /\ Append(f, now) \in Seq(V) /\ Len(Append(f, now)) = Len(f) + 1
        /\ \A k \in 1..Len(f) : Append(f, now)[k] = f[k]
        /\ Append(f, now)[Len(f) + 1] = now /\ Len(f) \in Nat
    BY <1>2, AppendProperties, LenProperties
  <2>2. /\ Append(ps, tableSize) \in Seq(0..tableSize)
        /\ Len(Append(ps, tableSize)) = Len(ps) + 1
        /\ \A k \in 1..Len(ps) : Append(ps, tableSize)[k] = ps[k]
        /\ Append(ps, tableSize)[Len(ps) + 1] = tableSize
    BY <1>1, AppendProperties
  <2>3. \A k \in 1..Len(f) : f[k] = NowOf(tables, ps[k])
    BY <1>6, LenProperties DEF SavedOf
  <2>4. \A k \in 1..Len(f) + 1 :
          Append(f, now)[k] = NowOf(tables, Append(ps, tableSize)[k])
    BY <1>6, <2>1, <2>2, <2>3 DEF now
  <2> QED
    BY <1>4, <1>6, <2>1, <2>2, <2>4
<1>7. ASSUME Open PROVE Scopes!Open
  <2>1. /\ points' = Append(points, tableSize) /\ UNCHANGED <<pos, tables, tableSize, stateValue>>
        /\ SavedOf(tables', points') = Append(sv, now)
    BY <1>1, <1>2, <1>6, <1>7 DEF Open, sv
  <2> QED
    BY <1>3, <2>1, MappedIs DEF Scopes!Open, sv
<1>8. ASSUME Close PROVE Scopes!Close
  <2>1. /\ points # <<>> /\ UNCHANGED <<pos, tables, tableSize, stateValue>>
        /\ SavedOf(tables', points') = back
    BY <1>5, <1>8 DEF Close
  <2> QED
    BY <1>2, <2>1, MappedIs DEF Scopes!Close, Scopes!Front, sv
<1>9. ASSUME Renew PROVE Scopes!Renew
  <2>1. /\ points # <<>> /\ points' = Append(Front(points), tableSize)
        /\ UNCHANGED <<pos, tables, tableSize, stateValue>>
    BY <1>9 DEF Renew
  <2>2. SavedOf(tables', points') = Append(back, now)
    <3> HIDE DEF back
    <3>1. Len(Front(points)) = Len(back)
      BY <1>1, <1>5, <2>1, FrontIs
    <3> QED
      BY <1>5, <1>6, <2>1, <3>1
  <2> QED
    BY <1>2, <1>3, <2>1, <2>2, MappedIs DEF Scopes!Renew, Scopes!Front, sv
<1>10. ASSUME Revert PROVE Scopes!Revert
  <2>1. /\ points # <<>> /\ points' = Front(points) /\ tableSize' = Last(points)
        /\ UNCHANGED tables
        /\ stateValue' = IF tableSize = Last(points) THEN stateValue
                         ELSE IF Last(points) = 0 THEN 0
                         ELSE tables[Last(points)].stateValue
    BY <1>10 DEF Revert, backSymbolPoint
  <2>2. stateValue' = VersionOf(tables, Last(points))
    BY <2>1 DEF VersionOf, TypeOK, StateValues
  <2>3. /\ SavedOf(tables', points') = back
        /\ sv[Len(sv)].symbols = SymbolsOf(tables', tableSize')
        /\ sv[Len(sv)].version = stateValue'
    BY <1>5, <2>1, <2>2 DEF NowOf
  <2> QED
    BY <1>2, <2>1, <2>3, MappedIs DEF Scopes!Revert, Scopes!Front, Scopes!Last, sv
<1> QED
  BY <1>7, <1>8, <1>9, <1>10

\* Every step of the table is a step of the list with scopes, or none.
LEMMA NextMaps == TypeOK /\ [Next]_vars => [Scopes!Next]_Scopes!vars
<1> SUFFICES ASSUME TypeOK, [Next]_vars PROVE [Scopes!Next]_Scopes!vars
  OBVIOUS
<1>1. CASE addSymbol \/ addSymbolMask
  BY <1>1, AddMaps DEF Scopes!Next
<1>2. CASE matchSymbol
  BY <1>2, MatchMaps DEF Scopes!Next, matchSymbol
<1>3. CASE Open \/ Close \/ Renew \/ Revert
  BY <1>3, ParserMaps DEF Scopes!Next, Open, Close, Renew, Revert
<1>4. CASE Move
  BY <1>4, MappedIs DEF Scopes!Next, Scopes!Move, Move
<1>5. CASE UNCHANGED vars
  BY <1>5, MappedIs DEF Scopes!vars, vars
<1> QED
  BY <1>1, <1>2, <1>3, <1>4, <1>5 DEF Next

\* The array that never forgets implements the list that each alternative
\* keeps a copy of.
THEOREM Refines == Spec => Implements
<1>1. Spec => []TypeOK
  BY TypeCorrect
<1> QED
  BY <1>1, InitMaps, NextMaps, PTL DEF Spec, Implements, Scopes!Spec
=============================================================================
