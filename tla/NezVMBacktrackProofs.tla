------------------------ MODULE NezVMBacktrackProofs ------------------------
(***************************************************************************)
(* The parsing machine implements the abstract one, whose choices hold the *)
(* whole state: proved for every program with a shape, every input and     *)
(* every size of stack and memo.                                           *)
(*                                                                         *)
(* Words and choices are read along the links of the failure frames.  The  *)
(* items of NezVMProofs say where those frames are and that each of   *)
(* them saved no more log than there is below it, so that a step which     *)
(* writes or drops what is on top leaves what the frames below hold.       *)
(***************************************************************************)
EXTENDS NezVMProofs, NezVMBacktracks

-----------------------------------------------------------------------------
(* Joining along the links.                                                *)

\* The equation that Joined's function solves, on the slots up to n.
Joins(g, stk, piece, n) ==
  \A f \in 0..n : g[f] = IF f = 0 THEN <<>> ELSE g[Outer(stk, f)] \o piece[f]

\* A frame is linked to one below it.
LEMMA OuterBelow ==
  ASSUME NEW stk, NEW f \in Nat, f # 0
  PROVE  Outer(stk, f) \in 0..f-1
BY DEF Outer

\* The equation has a solution.
LEMMA JoinExists ==
  ASSUME NEW stk, NEW piece
  PROVE  \A n \in Nat : \E g : g = [f \in 0..n |-> g[f]] /\ Joins(g, stk, piece, n)
<1> DEFINE T == {n \in Nat : \E g : g = [f \in 0..n |-> g[f]] /\ Joins(g, stk, piece, n)}
<1>1. 0 \in T
  <2> DEFINE g == [f \in 0..0 |-> <<>>]
  <2>1. g = [f \in 0..0 |-> g[f]] /\ g[0] = <<>> /\ \A f \in 0..0 : f = 0
    OBVIOUS
  <2> HIDE DEF g
  <2>2. Joins(g, stk, piece, 0)
    BY <2>1 DEF Joins
  <2> QED
    BY <2>1, <2>2
<1>2. ASSUME NEW n \in Nat, n \in T
      PROVE  n + 1 \in T
  <2>1. PICK g : g = [f \in 0..n |-> g[f]] /\ Joins(g, stk, piece, n)
    BY <1>2
  <2> DEFINE top == g[Outer(stk, n + 1)] \o piece[n + 1]
             h == [f \in 0..n+1 |-> IF f = n + 1 THEN top ELSE g[f]]
  <2>2. /\ h = [f \in 0..n+1 |-> h[f]] /\ h[n + 1] = top
        /\ \A f \in 0..n : h[f] = g[f]
    <3> HIDE DEF top
    <3> QED
      OBVIOUS
  <2> HIDE DEF h
  <2>3. ASSUME NEW f \in 0..n+1, f # 0
        PROVE  Outer(stk, f) \in 0..n
    BY <2>3, OuterBelow
  <2>4. ASSUME NEW f \in 0..n+1
        PROVE  h[f] = IF f = 0 THEN <<>> ELSE h[Outer(stk, f)] \o piece[f]
    <3>1. CASE f = n + 1
      <4>1. f # 0
        BY <3>1
      <4>2. h[Outer(stk, f)] = g[Outer(stk, f)]
        BY <2>2, <2>3, <4>1
      <4> QED
        BY <2>2, <3>1, <4>1, <4>2
    <3>2. CASE f \in 0..n
      <4>1. f # 0 => h[Outer(stk, f)] = g[Outer(stk, f)]
        BY <2>2, <2>3
      <4>2. h[f] = g[f] /\ g[f] = IF f = 0 THEN <<>> ELSE g[Outer(stk, f)] \o piece[f]
        BY <2>1, <2>2, <3>2 DEF Joins
      <4> QED
        BY <4>1, <4>2
    <3> QED
      BY <3>1, <3>2
  <2>5. Joins(h, stk, piece, n + 1)
    BY <2>4 DEF Joins
  <2> QED
    BY <2>2, <2>5
<1> HIDE DEF T
<1>3. Nat \subseteq T
  BY <1>1, <1>2, NatSetInduction
<1> QED
  BY <1>3 DEF T

\* So Joined is the function it looks like.
LEMMA JoinedIs ==
  ASSUME NEW stk, NEW piece
  PROVE  Joins(Joined(stk, piece), stk, piece, StackSize - 1)
<1> DEFINE D == 0..StackSize-1
           Body(g, f) == IF f = 0 THEN <<>> ELSE g[Outer(stk, f)] \o piece[f]
           upTo == CHOOSE g : g = [f \in D |-> Body(g, f)]
<1>1. StackSize - 1 \in Nat /\ 0 \in D
  BY StackAssumption
<1>2. PICK g : g = [f \in D |-> g[f]] /\ Joins(g, stk, piece, StackSize - 1)
  BY <1>1, JoinExists
<1>3. g = [f \in D |-> Body(g, f)]
  <2>1. \A f \in D : g[f] = Body(g, f)
    BY <1>2 DEF Joins
  <2> HIDE DEF Body
  <2>2. [f \in D |-> g[f]] = [f \in D |-> Body(g, f)]
    BY <2>1
  <2> QED
    BY <1>2, <2>2
<1>4. upTo = [f \in D |-> Body(upTo, f)]
  <2> HIDE DEF Body
  <2> QED
    BY <1>3
<1>5. Joined(stk, piece) = upTo
  BY DEF Joined
<1> HIDE DEF upTo
<1>6. Joins(upTo, stk, piece, StackSize - 1)
  BY <1>4 DEF Joins
<1> QED
  BY <1>5, <1>6

\* What is joined up to a frame.
LEMMA JoinedAt ==
  ASSUME NEW stk, NEW piece, NEW f \in 1..StackSize-1
  PROVE  /\ Outer(stk, f) \in 0..f-1
         /\ Joined(stk, piece)[f] = Joined(stk, piece)[Outer(stk, f)] \o piece[f]
<1>1. Joins(Joined(stk, piece), stk, piece, StackSize - 1)
  BY JoinedIs
<1> DEFINE J == Joined(stk, piece)
<1> HIDE DEF J
<1>2. f \in 0..StackSize-1 /\ f # 0 /\ f \in Nat
  BY StackAssumption
<1>3. J[f] = J[Outer(stk, f)] \o piece[f]
  BY <1>1, <1>2 DEF Joins, J
<1> QED
  BY <1>2, <1>3, OuterBelow DEF J

\* Nothing is joined at the bottom.
LEMMA JoinedBottom ==
  ASSUME NEW stk, NEW piece
  PROVE  Joined(stk, piece)[0] = <<>>
<1>1. Joins(Joined(stk, piece), stk, piece, StackSize - 1)
  BY JoinedIs
<1>2. 0 \in 0..StackSize-1
  BY StackAssumption
<1> QED
  BY <1>1, <1>2 DEF Joins

\* The frames of C are linked to each other, and alike, and have the same pieces.
LinkedAlike(stk, piece, stk2, piece2, C) ==
  /\ C \subseteq 0..StackSize-1
  /\ \A f \in C : f # 0 => /\ Outer(stk, f) \in C
                           /\ Outer(stk2, f) = Outer(stk, f)
                           /\ piece2[f] = piece[f]

\* Then what is joined is the same.
LEMMA JoinedSame ==
  ASSUME NEW stk, NEW piece, NEW stk2, NEW piece2, NEW C,
         LinkedAlike(stk, piece, stk2, piece2, C)
  PROVE  \A f \in C : Joined(stk2, piece2)[f] = Joined(stk, piece)[f]
<1> DEFINE Same(f) == Joined(stk2, piece2)[f] = Joined(stk, piece)[f]
           T == {n \in Nat : \A f \in C : f <= n => Same(f)}
<1>0. StackSize \in Nat
  BY StackAssumption
<1>1. 0 \in T
  <2>1. Same(0)
    BY JoinedBottom
  <2>2. \A f \in C : f <= 0 => f = 0
    BY <1>0 DEF LinkedAlike
  <2> HIDE DEF Same
  <2> QED
    BY <2>1, <2>2
<1>2. ASSUME NEW n \in Nat, n \in T
      PROVE  n + 1 \in T
  <2>1. ASSUME NEW f \in C, f = n + 1
        PROVE  Same(f)
    <3>0. f \in 0..StackSize-1 /\ f # 0
      BY <2>1 DEF LinkedAlike
    <3>1. f \in 1..StackSize-1
      BY <1>0, <3>0
    <3>2. /\ Outer(stk, f) \in C /\ Outer(stk2, f) = Outer(stk, f) /\ piece2[f] = piece[f]
      BY <3>0 DEF LinkedAlike
    <3>3. Outer(stk, f) \in 0..f-1
      BY <3>1, JoinedAt
    <3>4. Same(Outer(stk, f))
      BY <1>2, <2>1, <3>2, <3>3
    <3>5. Joined(stk, piece)[f] = Joined(stk, piece)[Outer(stk, f)] \o piece[f]
      BY <3>1, JoinedAt
    <3>6. Joined(stk2, piece2)[f] = Joined(stk2, piece2)[Outer(stk2, f)] \o piece2[f]
      BY <3>1, JoinedAt
    <3> QED
      BY <3>2, <3>4, <3>5, <3>6
  <2>2. \A f \in C : f <= n + 1 => f <= n \/ f = n + 1
    BY <1>0 DEF LinkedAlike
  <2> HIDE DEF Same
  <2> QED
    BY <1>2, <2>1, <2>2
<1> HIDE DEF T
<1>3. Nat \subseteq T
  BY <1>1, <1>2, NatSetInduction
<1> SUFFICES ASSUME NEW f \in C PROVE Same(f)
  OBVIOUS
<1>4. f \in Nat /\ f <= f
  BY <1>0 DEF LinkedAlike
<1> QED
  BY <1>3, <1>4 DEF T

\* What is joined is a sequence of what the pieces are sequences of.
LEMMA JoinedSeq ==
  ASSUME NEW stk, NEW piece, NEW T, \A f \in 1..StackSize-1 : piece[f] \in Seq(T)
  PROVE  \A f \in 0..StackSize-1 : Joined(stk, piece)[f] \in Seq(T)
<1> DEFINE J(f) == Joined(stk, piece)[f] \in Seq(T)
           N == {n \in Nat : \A f \in 0..StackSize-1 : f <= n => J(f)}
<1>0. StackSize \in Nat
  BY StackAssumption
<1>1. 0 \in N
  <2>1. J(0)
    BY JoinedBottom, EmptySeq
  <2>2. \A f \in 0..StackSize-1 : f <= 0 => f = 0
    BY <1>0
  <2> HIDE DEF J
  <2> QED
    BY <2>1, <2>2
<1>2. ASSUME NEW n \in Nat, n \in N
      PROVE  n + 1 \in N
  <2>1. ASSUME NEW f \in 0..StackSize-1, f = n + 1
        PROVE  J(f)
    <3>1. f \in 1..StackSize-1
      BY <1>0, <2>1
    <3>2. Outer(stk, f) \in 0..f-1
      BY <3>1, JoinedAt
    <3>3. J(Outer(stk, f))
      BY <1>0, <1>2, <2>1, <3>2
    <3>4. Joined(stk, piece)[f] = Joined(stk, piece)[Outer(stk, f)] \o piece[f]
      BY <3>1, JoinedAt
    <3> QED
      BY <3>1, <3>3, <3>4, ConcatProperties
  <2>2. \A f \in 0..StackSize-1 : f <= n + 1 => f <= n \/ f = n + 1
    BY <1>0
  <2> HIDE DEF J
  <2> QED
    BY <1>2, <2>1, <2>2
<1> HIDE DEF N
<1>3. Nat \subseteq N
  BY <1>1, <1>2, NatSetInduction
<1> SUFFICES ASSUME NEW f \in 0..StackSize-1 PROVE J(f)
  OBVIOUS
<1>4. f \in Nat /\ f <= f
  BY <1>0
<1> QED
  BY <1>3, <1>4 DEF N
-----------------------------------------------------------------------------
(* Words.                                                                  *)

\* A slot read as a word: its number and its tree.
Word(k) == [value : Int, tree : 0..k]

\* The word that slot s holds.
WordAt(stk, s) == [value |-> stk[s].value, tree |-> stk[s].tree]

\* The slots are numbers and trees.
SlotsTyped(stk, k) == stk \in [0..StackSize-1 -> SlotType(k)]

\* Each slot is a word.
LEMMA WordTyped ==
  ASSUME NEW k, NEW stk, SlotsTyped(stk, k), NEW s \in 0..StackSize-1
  PROVE  WordAt(stk, s) \in Word(k)
<1>1. stk[s] \in SlotType(k)
  BY DEF SlotsTyped
<1> QED
  BY <1>1 DEF SlotType, Word, WordAt

\* The words in slots a to b.
LEMMA SlotsAre ==
  ASSUME NEW k, NEW stk, SlotsTyped(stk, k), NEW a \in Nat, NEW b \in Int, b < StackSize
  PROVE  /\ Slots(stk, a, b) \in Seq(Word(k))
         /\ Len(Slots(stk, a, b)) = IF a <= b + 1 THEN b - a + 1 ELSE 0
         /\ \A i \in 1..b-a+1 : Slots(stk, a, b)[i] = WordAt(stk, a + i - 1)
<1> DEFINE n == IF a <= b + 1 THEN b - a + 1 ELSE 0
           s == Slots(stk, a, b)
<1>1. n \in Nat /\ 1..b-a+1 = 1..n
  OBVIOUS
<1>2. s = [i \in 1..n |-> WordAt(stk, a + i - 1)]
  BY <1>1 DEF Slots, WordAt
<1>3. \A i \in 1..n : WordAt(stk, a + i - 1) \in Word(k)
  <2> SUFFICES ASSUME NEW i \in 1..n PROVE WordAt(stk, a + i - 1) \in Word(k)
    OBVIOUS
  <2>1. a + i - 1 \in 0..StackSize-1
    BY <1>1, StackAssumption
  <2> QED
    BY <2>1, WordTyped
<1> HIDE DEF n, s
<1>4. s \in [1..n -> Word(k)]
  BY <1>2, <1>3
<1>5. s \in Seq(Word(k)) /\ Len(s) = n
  BY <1>1, <1>4
<1>6. \A i \in 1..n : s[i] = WordAt(stk, a + i - 1)
  BY <1>2
<1> QED
  BY <1>1, <1>5, <1>6 DEF n, s

\* One slot more, on top.
LEMMA SlotsPush ==
  ASSUME NEW k, NEW stk, SlotsTyped(stk, k), NEW a \in Nat, NEW b \in Int, b + 1 < StackSize,
         a <= b + 1
  PROVE  Slots(stk, a, b + 1) = Append(Slots(stk, a, b), WordAt(stk, b + 1))
<1> DEFINE s == Slots(stk, a, b)
           t == Slots(stk, a, b + 1)
           e == WordAt(stk, b + 1)
<1>0. b < StackSize /\ b + 1 \in Int /\ b + 1 \in 0..StackSize-1 /\ (b + 1) - a + 1 = (b - a + 1) + 1
  BY StackAssumption
<1>1. /\ s \in Seq(Word(k)) /\ Len(s) = b - a + 1
      /\ \A i \in 1..b-a+1 : s[i] = WordAt(stk, a + i - 1)
  <2>1. /\ s \in Seq(Word(k)) /\ Len(s) = IF a <= b + 1 THEN b - a + 1 ELSE 0
        /\ \A i \in 1..b-a+1 : s[i] = WordAt(stk, a + i - 1)
    <3>1. b < StackSize
      BY <1>0
    <3> QED
      BY <3>1, SlotsAre
  <2> QED
    BY <2>1
<1>2. /\ t \in Seq(Word(k)) /\ Len(t) = (b - a + 1) + 1
      /\ \A i \in 1..(b-a+1)+1 : t[i] = WordAt(stk, a + i - 1)
  <2>1. /\ t \in Seq(Word(k)) /\ Len(t) = IF a <= (b + 1) + 1 THEN (b + 1) - a + 1 ELSE 0
        /\ \A i \in 1..(b + 1)-a+1 : t[i] = WordAt(stk, a + i - 1)
    <3>1. b + 1 \in Int /\ b + 1 < StackSize
      BY <1>0, StackAssumption
    <3> QED
      BY <3>1, SlotsAre
  <2> QED
    BY <1>0, <2>1
<1>3. e \in Word(k)
  BY <1>0, WordTyped
<1> DEFINE n == b - a + 1
<1>4. n \in Nat /\ a + (n + 1) - 1 = b + 1
  OBVIOUS
<1> HIDE DEF s, t
<1>5. /\ Append(s, e) \in Seq(Word(k)) /\ Len(Append(s, e)) = n + 1
      /\ \A i \in 1..n : Append(s, e)[i] = s[i]
      /\ Append(s, e)[n + 1] = e
  BY <1>1, <1>3, AppendProperties
<1>6. ASSUME NEW i \in 1..n+1
      PROVE  t[i] = Append(s, e)[i]
  <2>1. CASE i \in 1..n
    <3>1. s[i] = WordAt(stk, a + i - 1)
      BY <1>1, <2>1
    <3>2. t[i] = WordAt(stk, a + i - 1)
      BY <1>2
    <3> QED
      BY <1>5, <2>1, <3>1, <3>2
  <2>2. CASE i = n + 1
    <3>1. t[i] = WordAt(stk, a + i - 1)
      BY <1>2
    <3>2. a + i - 1 = b + 1
      BY <1>4, <2>2
    <3>3. Append(s, e)[i] = e
      BY <1>5, <2>2
    <3> QED
      BY <3>1, <3>2, <3>3
  <2>3. i \in 1..n \/ i = n + 1
    <3> HIDE DEF n
    <3> QED
      BY <1>4
  <2> QED
    BY <2>1, <2>2, <2>3
<1>7. t = Append(s, e)
  BY <1>2, <1>5, <1>6, SeqEqual
<1> QED
  BY <1>7 DEF s, t

\* No slots, no words.
LEMMA SlotsNone ==
  ASSUME NEW stk, NEW a \in Nat, NEW b \in Int, b < a
  PROVE  Slots(stk, a, b) = <<>>
<1>1. 1..b-a+1 = {}
  OBVIOUS
<1>2. Slots(stk, a, b) = [i \in {} |-> [value |-> stk[a+i-1].value, tree |-> stk[a+i-1].tree]]
  BY <1>1 DEF Slots
<1> QED
  BY <1>2

\* The slots are the same as far as slots a to b are.
LEMMA SlotsSame ==
  ASSUME NEW stk, NEW stk2, NEW a \in Nat, NEW b \in Int,
         \A s \in a..b : stk2[s] = stk[s]
  PROVE  Slots(stk2, a, b) = Slots(stk, a, b)
<1>1. ASSUME NEW i \in 1..b-a+1
      PROVE  stk2[a+i-1] = stk[a+i-1]
  <2>1. a + i - 1 \in a..b
    OBVIOUS
  <2> QED
    BY <2>1
<1> QED
  BY <1>1 DEF Slots

\* The words of frame 0 and of a frame linked to another.
LEMMA WordsUnderIs ==
  ASSUME NEW stk
  PROVE  /\ WordsUnder(stk, 0) = <<>>
         /\ \A f \in 1..StackSize-1 :
              WordsUnder(stk, f) =
                WordsUnder(stk, Outer(stk, f)) \o Slots(stk, Outer(stk, f) + 3, f - 1)
<1>1. WordsUnder(stk, 0) = <<>>
  BY JoinedBottom DEF WordsUnder
<1>2. ASSUME NEW f \in 1..StackSize-1
      PROVE  WordsUnder(stk, f) =
               WordsUnder(stk, Outer(stk, f)) \o Slots(stk, Outer(stk, f) + 3, f - 1)
  <2>1. WordsUnder(stk, f) = WordsUnder(stk, Outer(stk, f)) \o SlotsBefore(stk)[f]
    BY JoinedAt DEF WordsUnder
  <2>2. f \in 0..StackSize-1
    BY StackAssumption
  <2> QED
    BY <2>1, <2>2 DEF SlotsBefore
<1> QED
  BY <1>1, <1>2

\* The words under a frame are a sequence of words.
LEMMA WordsUnderTyped ==
  ASSUME NEW k, NEW stk, SlotsTyped(stk, k), NEW f \in 0..StackSize-1
  PROVE  WordsUnder(stk, f) \in Seq(Word(k))
<1>1. ASSUME NEW g \in 1..StackSize-1
      PROVE  SlotsBefore(stk)[g] \in Seq(Word(k))
  <2>1. g \in 0..StackSize-1 /\ g \in Nat /\ g # 0 /\ g - 1 \in Int /\ g - 1 < StackSize
    BY StackAssumption
  <2>2. Outer(stk, g) + 3 \in Nat
    BY <2>1, OuterBelow
  <2>3. Slots(stk, Outer(stk, g) + 3, g - 1) \in Seq(Word(k))
    BY <2>1, <2>2, SlotsAre
  <2> QED
    BY <2>1, <2>3 DEF SlotsBefore
<1> QED
  BY <1>1, JoinedSeq DEF WordsUnder

\* The choices up to frame 0 and up to a frame linked to another.
LEMMA ChoicesUpToIs ==
  ASSUME NEW stk, NEW lg
  PROVE  /\ ChoicesUpTo(stk, lg, 0) = <<>>
         /\ \A f \in 1..StackSize-1 :
              ChoicesUpTo(stk, lg, f) =
                ChoicesUpTo(stk, lg, Outer(stk, f)) \o <<ChoiceAt(stk, lg, f)>>
<1>1. ChoicesUpTo(stk, lg, 0) = <<>>
  BY JoinedBottom DEF ChoicesUpTo
<1>2. ASSUME NEW f \in 1..StackSize-1
      PROVE  ChoicesUpTo(stk, lg, f) =
               ChoicesUpTo(stk, lg, Outer(stk, f)) \o <<ChoiceAt(stk, lg, f)>>
  <2>1. ChoicesUpTo(stk, lg, f) = ChoicesUpTo(stk, lg, Outer(stk, f)) \o ChoicesAt(stk, lg)[f]
    BY JoinedAt DEF ChoicesUpTo
  <2>2. f \in 0..StackSize-1
    BY StackAssumption
  <2> HIDE DEF ChoiceAt
  <2>3. ChoicesAt(stk, lg)[f] = <<ChoiceAt(stk, lg, f)>>
    BY <2>2 DEF ChoicesAt
  <2> QED
    BY <2>1, <2>3
<1> QED
  BY <1>1, <1>2

\* The choices up to a frame are a sequence of choices.
LEMMA ChoicesUpToTyped ==
  ASSUME NEW stk, NEW lg, NEW T, \A f \in 1..StackSize-1 : ChoiceAt(stk, lg, f) \in T,
         NEW f \in 0..StackSize-1
  PROVE  ChoicesUpTo(stk, lg, f) \in Seq(T)
<1>1. ASSUME NEW g \in 1..StackSize-1
      PROVE  ChoicesAt(stk, lg)[g] \in Seq(T)
  <2>1. g \in 0..StackSize-1
    BY StackAssumption
  <2>2. ChoicesAt(stk, lg)[g] = <<ChoiceAt(stk, lg, g)>> /\ ChoiceAt(stk, lg, g) \in T
    BY <2>1 DEF ChoicesAt
  <2> QED
    BY <2>2
<1> QED
  BY <1>1, JoinedSeq DEF ChoicesUpTo
-----------------------------------------------------------------------------
(* The frames of the items.                                                *)

\* The frames in force up to item k.
FramesTo(L, k) == {L[i].frame : i \in 1..k}

\* A frame is whole below the top slot of every item it is in force for.
LEMMA FrameWhole ==
  ASSUME NEW S, WellShaped(S), TypeOK, NEW L, Held(S, L), NEW k \in 1..Len(L)
  PROVE  /\ L[k].frame \in Nat /\ L[k].top \in Nat /\ L[k].frame + 2 <= L[k].top
         /\ L[k].top <= unused_stack /\ L[k].frame \in 0..StackSize-3
<1>1. /\ Stacked(S, L, stacks, log) /\ Len(L) \in Nat \ {0} /\ Len(L) \in 1..Len(L)
      /\ unused_stack = L[Len(L)].top
  BY HeldIs
<1>2. Sorted(L) /\ FramesHeld(L)
  BY <1>1 DEF Stacked
<1>3. /\ L[k].frame \in Nat /\ L[k].top \in Nat /\ 3 <= L[k].top
      /\ L[Len(L)].top \in Nat
  BY <1>1, ItemsIs
<1>4. L[k].top <= unused_stack
  <2>1. CASE k = Len(L)
    BY <1>1, <1>3, <2>1
  <2>2. CASE k < Len(L)
    BY <1>1, <1>2, <2>2, SortedAt
  <2> QED
    BY <1>1, <2>1, <2>2
<1>5. L[k].frame + 2 <= L[k].top
  <2>1. CASE L[k].frame = 0
    BY <1>3, <2>1
  <2>2. CASE L[k].frame # 0
    <3>1. PICK j \in 2..k : L[j].kind = "alt" /\ L[j].frame = L[k].frame
      BY <1>2, <2>2 DEF FramesHeld
    <3>2. j \in 1..Len(L) /\ j - 1 \in 1..Len(L) /\ j \in 2..Len(L)
      BY <1>1, <3>1
    <3>3. Over(S, stacks, log, L[j - 1], L[j])
      BY <1>1, <3>2 DEF Stacked
    <3>4. L[j].top = L[j - 1].top + 3 /\ L[j].frame = L[j - 1].top + 1
      BY <3>1, <3>3 DEF Over
    <3>5. L[j].top \in Nat /\ L[j - 1].top \in Nat
      BY <1>1, <3>2, ItemsIs
    <3>6. L[j].top <= L[k].top
      <4>1. CASE j = k
        BY <3>5, <4>1
      <4>2. CASE j < k
        BY <1>2, <3>2, <4>2, SortedAt
      <4> QED
        BY <1>1, <3>1, <4>1, <4>2
    <3>7. L[k].frame + 2 = L[j].top
      BY <3>1, <3>4, <3>5
    <3> QED
      BY <1>3, <3>5, <3>6, <3>7
  <2> QED
    BY <2>1, <2>2
<1>6. unused_stack \in Int /\ unused_stack <= StackSize - 1 /\ StackSize \in Nat
  BY StackAssumption DEF TypeOK
<1>7. L[k].frame \in 0..StackSize-3
  BY <1>3, <1>4, <1>5, <1>6
<1> QED
  BY <1>3, <1>4, <1>5, <1>7

\* A frame other than the bottom one is linked to a frame of the items below,
\* and has saved no more log than any item above has.
LEMMA FrameLinked ==
  ASSUME NEW S, WellShaped(S), TypeOK, NEW L, Held(S, L), NEW k \in 1..Len(L),
         NEW f \in FramesTo(L, k), f # 0
  PROVE  \E j \in 2..k :
           /\ L[j].kind = "alt" /\ L[j].frame = f
           /\ stacks[f].value = L[j - 1].frame /\ Outer(stacks, f) = L[j - 1].frame
           /\ L[j - 1].frame \in FramesTo(L, k)
           /\ f \in 1..StackSize-3 /\ f + 2 <= L[k].top
           /\ stacks[f + 2].value = L[j].size
           /\ L[j].size \in 0..L[k].size /\ L[j - 1].size \in 0..L[j].size
<1>1. /\ Stacked(S, L, stacks, log) /\ Len(L) \in Nat \ {0}
  BY HeldIs
<1>2. Sorted(L) /\ FramesHeld(L)
  BY <1>1 DEF Stacked
<1>3. PICK i \in 1..k : f = L[i].frame
  BY DEF FramesTo
<1>4. i \in 1..Len(L) /\ k \in Nat
  BY <1>1
<1>5. PICK j \in 2..i : L[j].kind = "alt" /\ L[j].frame = f
  BY <1>2, <1>3, <1>4 DEF FramesHeld
<1>6. j \in 2..k /\ j \in 2..Len(L) /\ j \in 1..Len(L) /\ j - 1 \in 1..k /\ j - 1 \in 1..Len(L)
  BY <1>1, <1>4, <1>5
<1>7. /\ stacks[L[j].frame].value = L[j - 1].frame
      /\ L[j - 1].frame = 0 \/ L[j - 1].frame \in 1..L[j].frame-3
      /\ stacks[L[j].frame + 2].value = L[j].size
  <2>1. stacks[L[j].frame].value = L[j - 1].frame
    BY <1>5, <1>6, FrameIs
  <2>2. L[j - 1].frame = 0 \/ L[j - 1].frame \in 1..L[j].frame-3
    BY <1>5, <1>6, FrameIs
  <2>3. stacks[L[j].frame + 2].value = L[j].size
    BY <1>5, <1>6, FrameIs
  <2> QED
    BY <2>1, <2>2, <2>3
<1>8. /\ L[k].frame \in Nat /\ L[k].top \in Nat /\ L[j].top \in Nat
      /\ L[j].frame + 2 <= L[j].top /\ L[j].frame \in 0..StackSize-3
  BY <1>6, FrameWhole
<1>9. L[j].size \in Nat /\ L[k].size \in Nat /\ L[j - 1].size \in Nat
  BY <1>1, <1>6, ItemsIs
<1>10. L[j].top <= L[k].top /\ L[j].size <= L[k].size
  <2>1. CASE j = k
    BY <1>8, <1>9, <2>1
  <2>2. CASE j < k
    BY <1>2, <1>6, <2>2, SortedAt
  <2> QED
    BY <1>4, <1>6, <2>1, <2>2
<1>11. L[j - 1].size <= L[j].size
  <2>1. j - 1 < j
    BY <1>6
  <2> QED
    BY <1>2, <1>6, <2>1, SortedAt
<1>12. Outer(stacks, f) = L[j - 1].frame
  <2>1. stacks[f].value = L[j - 1].frame /\ f \in Nat /\ f # 0
    BY <1>5, <1>7, <1>8
  <2>2. L[j - 1].frame \in 0..f-1
    <3>1. L[j - 1].frame = 0 \/ L[j - 1].frame \in 1..f-3
      BY <1>5, <1>7
    <3> QED
      BY <2>1, <3>1
  <2> QED
    BY <2>1, <2>2 DEF Outer
<1>13. L[j - 1].frame \in FramesTo(L, k)
  BY <1>6 DEF FramesTo
<1>14. f \in 1..StackSize-3 /\ f + 2 <= L[k].top
  <2>1. f + 2 <= L[j].top /\ f \in 0..StackSize-3 /\ f # 0
    BY <1>5, <1>8
  <2> QED
    BY <1>8, <1>10, <2>1
<1>15. stacks[f].value = L[j - 1].frame /\ stacks[f + 2].value = L[j].size
  BY <1>5, <1>7
<1>16. L[j].size \in 0..L[k].size /\ L[j - 1].size \in 0..L[j].size
  BY <1>9, <1>10, <1>11
<1> QED
  BY <1>5, <1>6, <1>12, <1>13, <1>14, <1>15, <1>16

\* The slots up to item k and the log's entries below its size are kept.
Kept(L, k, stk2, lg2) ==
  /\ \A s \in 0..L[k].top : stk2[s] = stacks[s]
  /\ Len(lg2) \in Nat /\ L[k].size <= Len(lg2)
  /\ \A i \in 1..L[k].size : lg2[i] = log[i]

\* The log is the same as far as n entries.
LEMMA LogUpToSame ==
  ASSUME NEW lg, NEW lg2, Len(lg) \in Nat, Len(lg2) \in Nat,
         NEW n \in Nat, n <= Len(lg), n <= Len(lg2), \A i \in 1..n : lg2[i] = lg[i]
  PROVE  LogUpTo(lg2, n) = LogUpTo(lg, n)
<1>1. (IF n < Len(lg) THEN n ELSE Len(lg)) = n /\ (IF n < Len(lg2) THEN n ELSE Len(lg2)) = n
  OBVIOUS
<1>2. SubSeq(lg2, 1, n) = SubSeq(lg, 1, n)
  <2> DEFINE T == {lg[i] : i \in 1..n}
  <2>1. \A i \in 1..n : lg[i] \in T /\ lg2[i] \in T
    OBVIOUS
  <2> HIDE DEF T
  <2>2. /\ SubSeq(lg, 1, n) \in Seq(T) /\ Len(SubSeq(lg, 1, n)) = IF 1 <= n THEN n - 1 + 1 ELSE 0
        /\ \A i \in 1..n-1+1 : SubSeq(lg, 1, n)[i] = lg[1 + i - 1]
    BY <2>1, SubSeqProperties
  <2>3. /\ SubSeq(lg2, 1, n) \in Seq(T) /\ Len(SubSeq(lg2, 1, n)) = IF 1 <= n THEN n - 1 + 1 ELSE 0
        /\ \A i \in 1..n-1+1 : SubSeq(lg2, 1, n)[i] = lg2[1 + i - 1]
    BY <2>1, SubSeqProperties
  <2>4. ASSUME NEW i \in 1..n
        PROVE  SubSeq(lg2, 1, n)[i] = SubSeq(lg, 1, n)[i]
    BY <2>2, <2>3
  <2>5. Len(SubSeq(lg, 1, n)) = n /\ Len(SubSeq(lg2, 1, n)) = n
    BY <2>2, <2>3
  <2> QED
    BY <2>2, <2>3, <2>4, <2>5, SeqEqual
<1> QED
  BY <1>1, <1>2 DEF LogUpTo

\* Then so are the words and the choices of the frames up to item k.
LEMMA SameUpTo ==
  ASSUME NEW S, WellShaped(S), TypeOK, NEW L, Held(S, L), NEW k \in 1..Len(L),
         NEW stk2, NEW lg2, Kept(L, k, stk2, lg2)
  PROVE  \A f \in FramesTo(L, k) :
           /\ WordsUnder(stk2, f) = WordsUnder(stacks, f)
           /\ ChoicesUpTo(stk2, lg2, f) = ChoicesUpTo(stacks, log, f)
<1> DEFINE C == FramesTo(L, k)
<1>1. /\ Len(L) \in Nat /\ StackSize \in Nat /\ Len(log) \in Nat
      /\ L[k].size \in Nat /\ L[k].size <= Len(log)
  <2>1. Stacked(S, L, stacks, log) /\ Len(L) \in Nat /\ Len(log) \in Nat
    BY HeldIs
  <2>2. L[k].size \in Nat
    BY <2>1, ItemsIs
  <2>3. L[k].size <= Len(log)
    BY <2>1 DEF Stacked, LogHeld
  <2> QED
    BY <2>1, <2>2, <2>3, StackAssumption
<1>2. C \subseteq 0..StackSize-1
  <2> SUFFICES ASSUME NEW i \in 1..k PROVE L[i].frame \in 0..StackSize-1
    BY DEF FramesTo
  <2>1. i \in 1..Len(L)
    BY <1>1
  <2>2. L[i].frame \in 0..StackSize-3
    BY <2>1, FrameWhole
  <2> QED
    BY <1>1, <2>2
<1>3. ASSUME NEW f \in C, f # 0
      PROVE  /\ f \in 1..StackSize-3 /\ Outer(stacks, f) \in C
             /\ \A s \in 0..f+2 : stk2[s] = stacks[s]
             /\ Outer(stk2, f) = Outer(stacks, f)
             /\ LogUpTo(lg2, stk2[f + 2].value) = LogUpTo(log, stacks[f + 2].value)
  <2>1. PICK j \in 2..k :
           /\ Outer(stacks, f) = L[j - 1].frame
           /\ L[j - 1].frame \in C
           /\ f \in 1..StackSize-3 /\ f + 2 <= L[k].top
           /\ stacks[f + 2].value = L[j].size
           /\ L[j].size \in 0..L[k].size
    BY <1>3, FrameLinked
  <2>2. L[k].top \in Nat
    BY FrameWhole
  <2>3. \A s \in 0..f+2 : s \in 0..L[k].top
    BY <1>1, <2>1, <2>2
  <2>4. \A s \in 0..f+2 : stk2[s] = stacks[s]
    BY <2>3 DEF Kept
  <2>5. stk2[f] = stacks[f] /\ stk2[f + 2] = stacks[f + 2]
    <3>1. f \in 0..f+2 /\ f + 2 \in 0..f+2
      BY <2>1
    <3> QED
      BY <2>4, <3>1
  <2>6. LogUpTo(lg2, L[j].size) = LogUpTo(log, L[j].size)
    <3>1. Len(lg2) \in Nat /\ L[k].size <= Len(lg2) /\ \A i \in 1..L[k].size : lg2[i] = log[i]
      BY DEF Kept
    <3>2. L[j].size \in Nat /\ L[j].size <= L[k].size
      BY <1>1, <2>1
    <3>3. L[j].size <= Len(log) /\ L[j].size <= Len(lg2)
      BY <1>1, <3>1, <3>2
    <3>4. \A i \in 1..L[j].size : lg2[i] = log[i]
      BY <1>1, <3>1, <3>2
    <3> QED
      BY <1>1, <3>1, <3>2, <3>3, <3>4, LogUpToSame
  <2>7. LogUpTo(lg2, stk2[f + 2].value) = LogUpTo(log, stacks[f + 2].value)
    BY <2>1, <2>5, <2>6
  <2>8. Outer(stk2, f) = Outer(stacks, f)
    BY <2>5 DEF Outer
  <2> QED
    BY <2>1, <2>4, <2>7, <2>8
<1>4. \A f \in C : WordsUnder(stk2, f) = WordsUnder(stacks, f)
  <2>1. ASSUME NEW f \in C, f # 0
        PROVE  /\ Outer(stacks, f) \in C /\ Outer(stk2, f) = Outer(stacks, f)
               /\ SlotsBefore(stk2)[f] = SlotsBefore(stacks)[f]
    <3> DEFINE o == Outer(stacks, f)
    <3>1. /\ f \in 1..StackSize-3 /\ o \in C /\ \A s \in 0..f+2 : stk2[s] = stacks[s]
          /\ Outer(stk2, f) = o
      BY <1>3, <2>1
    <3>2. o + 3 \in Nat /\ f - 1 \in Int /\ f \in 0..StackSize-1
      BY <1>1, <1>2, <3>1
    <3>3. \A s \in o+3..f-1 : stk2[s] = stacks[s]
      BY <3>1, <3>2
    <3>4. Slots(stk2, o + 3, f - 1) = Slots(stacks, o + 3, f - 1)
      BY <3>2, <3>3, SlotsSame
    <3> QED
      BY <3>1, <3>2, <3>4 DEF SlotsBefore
  <2>2. LinkedAlike(stacks, SlotsBefore(stacks), stk2, SlotsBefore(stk2), C)
    BY <1>2, <2>1 DEF LinkedAlike
  <2> HIDE DEF C
  <2> QED
    BY <2>2, JoinedSame DEF WordsUnder
<1>5. \A f \in C : ChoicesUpTo(stk2, lg2, f) = ChoicesUpTo(stacks, log, f)
  <2>1. ASSUME NEW f \in C, f # 0
        PROVE  /\ Outer(stacks, f) \in C /\ Outer(stk2, f) = Outer(stacks, f)
               /\ ChoicesAt(stk2, lg2)[f] = ChoicesAt(stacks, log)[f]
    <3>1. /\ f \in 1..StackSize-3 /\ Outer(stacks, f) \in C
          /\ \A s \in 0..f+2 : stk2[s] = stacks[s]
          /\ Outer(stk2, f) = Outer(stacks, f)
          /\ LogUpTo(lg2, stk2[f + 2].value) = LogUpTo(log, stacks[f + 2].value)
      BY <1>3, <2>1
    <3>2. f \in 0..f+2 /\ f + 1 \in 0..f+2 /\ f \in 0..StackSize-1
      BY <1>1, <3>1
    <3>3. stk2[f] = stacks[f] /\ stk2[f + 1] = stacks[f + 1]
      BY <3>1, <3>2
    <3>4. ChoiceAt(stk2, lg2, f) = ChoiceAt(stacks, log, f)
      BY <1>4, <3>1, <3>3 DEF ChoiceAt
    <3> QED
      BY <3>1, <3>2, <3>4 DEF ChoicesAt
  <2>2. LinkedAlike(stacks, ChoicesAt(stacks, log), stk2, ChoicesAt(stk2, lg2), C)
    BY <1>2, <2>1 DEF LinkedAlike
  <2> HIDE DEF C
  <2> QED
    BY <2>2, JoinedSame DEF ChoicesUpTo
<1> QED
  BY <1>4, <1>5
-----------------------------------------------------------------------------
(* The words and choices of a state, and of the state after a step.        *)

\* What the machine has saved, while it runs.
LEMMA NowIs ==
  ASSUME NEW S, WellShaped(S), TypeOK, NEW L, Held(S, L)
  PROVE  /\ fail_stack = L[Len(L)].frame /\ unused_stack = L[Len(L)].top
         /\ fail_stack \in 0..StackSize-3 /\ unused_stack \in Nat
         /\ fail_stack + 2 <= unused_stack /\ unused_stack < StackSize
         /\ fail_stack \in FramesTo(L, Len(L)) /\ Len(L) \in 1..Len(L)
         /\ SavedWords = WordsUnder(stacks, fail_stack)
                           \o Slots(stacks, fail_stack + 3, unused_stack)
         /\ OpenChoices = ChoicesUpTo(stacks, log, fail_stack)
<1>1. /\ Len(L) \in Nat \ {0} /\ Len(L) \in 1..Len(L)
      /\ fail_stack = L[Len(L)].frame /\ unused_stack = L[Len(L)].top
  BY HeldIs
<1>2. /\ L[Len(L)].frame \in 0..StackSize-3 /\ L[Len(L)].top \in Nat
      /\ L[Len(L)].frame + 2 <= L[Len(L)].top
  BY <1>1, FrameWhole
<1>3. unused_stack < StackSize
  BY StackAssumption DEF TypeOK
<1>4. fail_stack \in FramesTo(L, Len(L))
  BY <1>1 DEF FramesTo
<1>5. Innermost = fail_stack
  BY <1>1, <1>2 DEF Innermost
<1> QED
  BY <1>1, <1>2, <1>3, <1>4, <1>5 DEF SavedWords, OpenChoices

\* What it has saved after a step that keeps the innermost frame in the array.
LEMMA ThenIs ==
  ASSUME fail_stack' \in 0..StackSize-3
  PROVE  /\ SavedWords' = WordsUnder(stacks', fail_stack')
                            \o Slots(stacks', fail_stack' + 3, unused_stack')
         /\ OpenChoices' = ChoicesUpTo(stacks', log', fail_stack')
BY DEF SavedWords, OpenChoices, Innermost

\* The slots have their types.
LEMMA StacksTyped ==
  ASSUME TypeOK
  PROVE  SlotsTyped(stacks, newcount)
BY DEF TypeOK, SlotsTyped

\* The slots have their types after the step.
LEMMA StacksTypedThen ==
  ASSUME TypeOK'
  PROVE  SlotsTyped(stacks', newcount')
BY DEF TypeOK, SlotsTyped

\* An element more.
LEMMA AppendIs ==
  ASSUME NEW T, NEW s \in Seq(T), NEW e \in T, NEW x, x = Append(s, e)
  PROVE  /\ x # <<>> /\ x \in Seq(T)
         /\ Abstract!Front(x) = s /\ Abstract!Last(x) = e
<1>1. Len(s) \in Nat
  BY LenProperties
<1>2. /\ x \in Seq(T) /\ x # <<>> /\ Len(x) = Len(s) + 1
      /\ \A i \in 1..Len(s) : x[i] = s[i]
      /\ x[Len(s) + 1] = e
  BY AppendProperties
<1>3. Abstract!Last(x) = e
  BY <1>2 DEF Abstract!Last
<1>4. SubSeq(x, 1, Len(s)) = s
  <2>1. \A i \in 1..Len(s) : x[i] \in T
    BY <1>2, ElementOfSeq
  <2>2. /\ SubSeq(x, 1, Len(s)) \in Seq(T)
        /\ Len(SubSeq(x, 1, Len(s))) = IF 1 <= Len(s) THEN Len(s) - 1 + 1 ELSE 0
        /\ \A i \in 1..Len(s)-1+1 : SubSeq(x, 1, Len(s))[i] = x[1 + i - 1]
    BY <1>1, <2>1, SubSeqProperties
  <2>3. ASSUME NEW i \in 1..Len(s)
        PROVE  SubSeq(x, 1, Len(s))[i] = s[i]
    BY <1>1, <1>2, <2>2
  <2>4. Len(SubSeq(x, 1, Len(s))) = Len(s)
    BY <1>1, <2>2
  <2> QED
    BY <2>2, <2>3, <2>4, SeqEqual
<1>5. Abstract!Front(x) = s
  BY <1>1, <1>2, <1>4 DEF Abstract!Front
<1> QED
  BY <1>2, <1>3, <1>5

\* Appending to the second of two joined sequences.
LEMMA ConcatAppend ==
  ASSUME NEW T, NEW s \in Seq(T), NEW t \in Seq(T), NEW e \in T
  PROVE  s \o Append(t, e) = Append(s \o t, e)
<1>1. Append(t, e) = t \o <<e>> /\ <<e>> \in Seq(T)
  BY AppendIsConcat
<1>2. s \o t \in Seq(T)
  BY ConcatProperties
<1>3. Append(s \o t, e) = (s \o t) \o <<e>>
  BY <1>2, AppendIsConcat
<1>4. (s \o t) \o <<e>> = s \o (t \o <<e>>)
  BY <1>1, ConcatAssociative
<1> QED
  BY <1>1, <1>3, <1>4

\* Joining a single element.
LEMMA ConcatOne ==
  ASSUME NEW T, NEW s \in Seq(T), NEW e \in T
  PROVE  s \o <<e>> = Append(s, e)
BY AppendIsConcat

\* Sequence x is sequence s with e after it.
OneMore(x, s, e) ==
  x # <<>> /\ Abstract!Front(x) = s /\ Abstract!Last(x) = e

\* One slot more is one word more.
LEMMA MoreWords ==
  ASSUME NEW T, NEW under \in Seq(T), NEW slots \in Seq(T), NEW e \in T
  PROVE  OneMore(under \o Append(slots, e), under \o slots, e)
<1>1. under \o Append(slots, e) = Append(under \o slots, e)
  BY ConcatAppend
<1>2. under \o slots \in Seq(T)
  BY ConcatProperties
<1> QED
  BY <1>1, <1>2, AppendIs DEF OneMore

\* One frame more is one choice more.
LEMMA MoreChoices ==
  ASSUME NEW T, NEW s \in Seq(T), NEW e \in T
  PROVE  OneMore(s \o <<e>>, s, e)
<1>1. s \o <<e>> = Append(s, e)
  BY ConcatOne
<1> DEFINE x == s \o <<e>>
<1> HIDE DEF x
<1>2. x # <<>> /\ Abstract!Front(x) = s /\ Abstract!Last(x) = e
  <2>1. x = Append(s, e)
    BY <1>1 DEF x
  <2> QED
    BY <2>1, AppendIs
<1> QED
  BY <1>2 DEF OneMore, x

\* A step that keeps the frame in force and what the items up to k hold.
LEMMA StepSame ==
  ASSUME NEW S, WellShaped(S), TypeOK, NEW L, Held(S, L), NEW k \in 1..Len(L),
         L[k].frame = fail_stack, fail_stack' = fail_stack, Kept(L, k, stacks', log')
  PROVE  /\ OpenChoices' = OpenChoices
         /\ WordsUnder(stacks', fail_stack) = WordsUnder(stacks, fail_stack)
         /\ SavedWords' = WordsUnder(stacks, fail_stack)
                            \o Slots(stacks', fail_stack + 3, unused_stack')
<1>1. /\ fail_stack \in 0..StackSize-3
      /\ OpenChoices = ChoicesUpTo(stacks, log, fail_stack)
  BY NowIs
<1>2. fail_stack \in FramesTo(L, k)
  <2>1. k \in 1..k
    OBVIOUS
  <2> QED
    BY <2>1 DEF FramesTo
<1>3. /\ WordsUnder(stacks', fail_stack) = WordsUnder(stacks, fail_stack)
      /\ ChoicesUpTo(stacks', log', fail_stack) = ChoicesUpTo(stacks, log, fail_stack)
  BY <1>2, SameUpTo
<1>4. /\ SavedWords' = WordsUnder(stacks', fail_stack')
                         \o Slots(stacks', fail_stack' + 3, unused_stack')
      /\ OpenChoices' = ChoicesUpTo(stacks', log', fail_stack')
  BY <1>1, ThenIs
<1> QED
  BY <1>1, <1>3, <1>4

\* The same, for a step that changes nothing below the top.
LEMMA TopSame ==
  ASSUME NEW S, WellShaped(S), TypeOK, NEW L, Held(S, L),
         fail_stack' = fail_stack, \A s \in 0..unused_stack : stacks'[s] = stacks[s],
         Len(log') \in Nat, Len(log) <= Len(log'), \A i \in 1..Len(log) : log'[i] = log[i]
  PROVE  /\ OpenChoices' = OpenChoices
         /\ WordsUnder(stacks', fail_stack) = WordsUnder(stacks, fail_stack)
         /\ SavedWords' = WordsUnder(stacks, fail_stack)
                            \o Slots(stacks', fail_stack + 3, unused_stack')
<1>1. /\ Len(L) \in 1..Len(L) /\ fail_stack = L[Len(L)].frame
      /\ unused_stack = L[Len(L)].top
  BY NowIs
<1>2. /\ L[Len(L)].size <= Len(log) /\ L[Len(L)].size \in Nat /\ Len(log) \in Nat
  BY HeldIs
<1>3. Kept(L, Len(L), stacks', log')
  BY <1>1, <1>2 DEF Kept
<1> QED
  BY <1>1, <1>3, StepSame
-----------------------------------------------------------------------------
(* Steps that save a word.                                                 *)

\* A push writes the slot above the top and leaves those below.
LEMMA PushSlotWord ==
  ASSUME TypeOK, NEW v, NEW t, unused_stack + 1 < StackSize, unused_stack \in Nat,
         PushSlot(v, t)
  PROVE  /\ unused_stack' = unused_stack + 1
         /\ \A s \in 0..unused_stack : stacks'[s] = stacks[s]
         /\ WordAt(stacks', unused_stack + 1) = [value |-> v, tree |-> t]
<1> DEFINE top == unused_stack + 1
           old == stacks[top]
<1>1. /\ unused_stack' = top
      /\ stacks' = [stacks EXCEPT ![top] = [old EXCEPT !.value = v, !.tree = t]]
  BY DEF PushSlot
<1>2. /\ top \in 0..StackSize-1 /\ stacks \in [0..StackSize-1 -> SlotType(newcount)]
      /\ \A s \in 0..unused_stack : s \in 0..StackSize-1 /\ s # top
  BY StackAssumption DEF TypeOK
<1>3. old \in SlotType(newcount)
  BY <1>2
<1> HIDE DEF top, old
<1>4. /\ [old EXCEPT !.value = v, !.tree = t].value = v
      /\ [old EXCEPT !.value = v, !.tree = t].tree = t
  BY <1>3 DEF SlotType
<1>5. stacks'[top] = [old EXCEPT !.value = v, !.tree = t]
  BY <1>1, <1>2
<1>6. \A s \in 0..unused_stack : stacks'[s] = stacks[s]
  BY <1>1, <1>2
<1>7. WordAt(stacks', top) = [value |-> v, tree |-> t]
  BY <1>4, <1>5 DEF WordAt
<1> QED
  BY <1>1, <1>6, <1>7 DEF top

\* A push of a return address or a tree is a push of the abstract machine.
LEMMA PushWord ==
  ASSUME NEW S, WellShaped(S), TypeOK, TypeOK', NEW L, Held(S, L),
         NEW v, NEW t \in {0, left}, unused_stack + 1 < StackSize, PushSlot(v, t),
         UNCHANGED <<pos, fail_stack, left, log>>
  PROVE  Abstract!Push
<1> DEFINE f == fail_stack
           u == unused_stack
           W == Word(newcount')
           e == [value |-> v, tree |-> t]
<1>1. /\ u \in Nat /\ f \in 0..StackSize-3 /\ f + 2 <= u /\ u < StackSize
      /\ SavedWords = WordsUnder(stacks, f) \o Slots(stacks, f + 3, u)
  BY NowIs
<1>2. /\ unused_stack' = u + 1
      /\ \A s \in 0..u : stacks'[s] = stacks[s]
      /\ WordAt(stacks', u + 1) = e
  BY <1>1, PushSlotWord
<1>3. Len(log) \in Nat
  BY HeldIs
<1>4. /\ OpenChoices' = OpenChoices
      /\ WordsUnder(stacks', f) = WordsUnder(stacks, f)
      /\ SavedWords' = WordsUnder(stacks, f) \o Slots(stacks', f + 3, u + 1)
  BY <1>2, <1>3, TopSame
<1>5. SlotsTyped(stacks', newcount')
  BY StacksTypedThen
<1>6. f + 3 \in Nat /\ u \in Int /\ u + 1 < StackSize /\ f + 3 <= u + 1
      /\ u + 1 \in 0..StackSize-1 /\ f \in 0..StackSize-1 /\ StackSize \in Nat
  BY <1>1, StackAssumption
<1>7. Slots(stacks', f + 3, u + 1) = Append(Slots(stacks', f + 3, u), e)
  BY <1>2, <1>5, <1>6, SlotsPush
<1>8. Slots(stacks', f + 3, u) = Slots(stacks, f + 3, u)
  <2>1. \A s \in f+3..u : s \in 0..u
    BY <1>6
  <2>2. \A s \in f+3..u : stacks'[s] = stacks[s]
    BY <1>2, <2>1
  <2> QED
    BY <1>6, <2>2, SlotsSame
<1>9. Slots(stacks', f + 3, u) \in Seq(W) /\ WordsUnder(stacks', f) \in Seq(W) /\ e \in W
  BY <1>1, <1>2, <1>5, <1>6, SlotsAre, WordsUnderTyped, WordTyped
<1> DEFINE under == WordsUnder(stacks, f)
           slots == Slots(stacks, f + 3, u)
<1>10. /\ under \in Seq(W) /\ slots \in Seq(W) /\ e \in W
       /\ SavedWords = under \o slots /\ SavedWords' = under \o Append(slots, e)
  BY <1>1, <1>4, <1>7, <1>8, <1>9
<1> HIDE DEF f, u, W, e, under, slots
<1>11. OneMore(under \o Append(slots, e), under \o slots, e)
  BY <1>10, MoreWords
<1>12. OneMore(SavedWords', SavedWords, e)
  BY <1>10, <1>11
<1>13. e.tree \in {0, left}
  BY DEF e
<1> QED
  BY <1>4, <1>12, <1>13 DEF Abstract!Push, OneMore
-----------------------------------------------------------------------------
(* Steps that take a word back.                                            *)

\* The top item is neither an alternative nor a node: it is one slot.
LEMMA PopWord ==
  ASSUME NEW S, WellShaped(S), TypeOK, NEW L, Held(S, L), Len(L) # 1,
         L[Len(L)].kind \in {"pos", "tree", "call"},
         UNCHANGED <<stacks, fail_stack>>, unused_stack' = unused_stack - 1,
         Len(log') \in Nat, L[Len(L) - 1].size <= Len(log'),
         \A i \in 1..L[Len(L) - 1].size : log'[i] = log[i]
  PROVE  /\ OpenChoices' = OpenChoices
         /\ SavedWords # <<>> /\ SavedWords' = Abstract!Front(SavedWords)
         /\ Abstract!Last(SavedWords) = WordAt(stacks, unused_stack)
<1> DEFINE f == fail_stack
           u == unused_stack
           m == Len(L)
           W == Word(newcount)
           w == WordAt(stacks, u)
<1>1. /\ u \in Nat /\ f \in 0..StackSize-3 /\ f + 2 <= u /\ u < StackSize
      /\ f = L[m].frame /\ u = L[m].top
      /\ SavedWords = WordsUnder(stacks, f) \o Slots(stacks, f + 3, u)
  BY NowIs
<1>2. /\ m - 1 \in 1..m /\ L[m - 1].top \in Nat /\ Over(S, stacks, log, L[m - 1], L[m])
  BY BelowTop
<1>3. L[m].top = L[m - 1].top + 1 /\ L[m].frame = L[m - 1].frame
  BY <1>2 DEF Over
<1>4. L[m - 1].frame + 2 <= L[m - 1].top /\ L[m - 1].frame \in Nat
  BY <1>2, FrameWhole
<1>5. Kept(L, m - 1, stacks', log')
  BY DEF Kept
<1>6. L[m - 1].frame = fail_stack
  BY <1>1, <1>3
<1>7. /\ OpenChoices' = OpenChoices
      /\ SavedWords' = WordsUnder(stacks, f) \o Slots(stacks', f + 3, unused_stack')
  BY <1>2, <1>5, <1>6, StepSame
<1>8. SavedWords' = WordsUnder(stacks, f) \o Slots(stacks, f + 3, u - 1)
  BY <1>7
<1>9. /\ f + 3 \in Nat /\ u - 1 \in Int /\ (u - 1) + 1 = u /\ u < StackSize /\ f + 3 <= u
      /\ f \in 0..StackSize-1 /\ u \in 0..StackSize-1 /\ u - 1 < StackSize
  <2> HIDE DEF f, u, m, W, w
  <2>1. f + 2 <= L[m - 1].top /\ u = L[m - 1].top + 1 /\ L[m - 1].top \in Nat
    BY <1>1, <1>2, <1>3, <1>4
  <2>2. f + 3 <= u
    BY <1>1, <2>1
  <2>3. u \in Nat /\ f \in 0..StackSize-3 /\ u < StackSize /\ StackSize \in Nat
    BY <1>1, StackAssumption
  <2>4. f \in 0..StackSize-1 /\ u \in 0..StackSize-1
    BY <2>3
  <2> QED
    BY <2>2, <2>3, <2>4
<1>10. SlotsTyped(stacks, newcount)
  BY StacksTyped
<1>11. Slots(stacks, f + 3, u) = Append(Slots(stacks, f + 3, u - 1), w)
  <2> DEFINE b == u - 1
  <2>1. b \in Int /\ b + 1 = u /\ b + 1 < StackSize /\ f + 3 <= b + 1
    BY <1>9
  <2> HIDE DEF b
  <2>2. Slots(stacks, f + 3, b + 1) = Append(Slots(stacks, f + 3, b), WordAt(stacks, b + 1))
    BY <1>9, <1>10, <2>1, SlotsPush
  <2> QED
    BY <2>1, <2>2 DEF b
<1>12. Slots(stacks, f + 3, u - 1) \in Seq(W) /\ WordsUnder(stacks, f) \in Seq(W) /\ w \in W
  BY <1>9, <1>10, SlotsAre, WordsUnderTyped, WordTyped
<1> DEFINE under == WordsUnder(stacks, f)
           slots == Slots(stacks, f + 3, u - 1)
<1>13. /\ under \in Seq(W) /\ slots \in Seq(W) /\ w \in W
       /\ SavedWords = under \o Append(slots, w) /\ SavedWords' = under \o slots
  BY <1>1, <1>8, <1>11, <1>12
<1> HIDE DEF f, u, W, w, under, slots
<1>14. OneMore(under \o Append(slots, w), under \o slots, w)
  BY <1>13, MoreWords
<1>15. OneMore(SavedWords, SavedWords', w)
  BY <1>13, <1>14
<1> QED
  BY <1>7, <1>15 DEF u, w, OneMore
-----------------------------------------------------------------------------
(* Steps that end the innermost choice.                                    *)

\* The choices are of one kind.
LEMMA ChoicesTyped ==
  ASSUME NEW stk, NEW lg, NEW f \in 0..StackSize-1
  PROVE  ChoicesUpTo(stk, lg, f) \in Seq({ChoiceAt(stk, lg, g) : g \in 0..StackSize-1})
<1> DEFINE T == {ChoiceAt(stk, lg, g) : g \in 0..StackSize-1}
<1>1. \A g \in 1..StackSize-1 : ChoiceAt(stk, lg, g) \in T
  <2>1. \A g \in 1..StackSize-1 : g \in 0..StackSize-1
    BY StackAssumption
  <2> QED
    BY <2>1
<1> HIDE DEF T
<1>2. ChoicesUpTo(stk, lg, f) \in Seq(T)
  BY <1>1, ChoicesUpToTyped
<1> QED
  BY <1>2 DEF T

\* The choices up to a frame are those up to the frame it is linked to, and its own.
LEMMA ChoiceMore ==
  ASSUME NEW stk, NEW lg, NEW f \in 1..StackSize-1, NEW o, Outer(stk, f) = o
  PROVE  /\ ChoicesUpTo(stk, lg, f) = Append(ChoicesUpTo(stk, lg, o), ChoiceAt(stk, lg, f))
         /\ OneMore(ChoicesUpTo(stk, lg, f), ChoicesUpTo(stk, lg, o), ChoiceAt(stk, lg, f))
<1> DEFINE T == {ChoiceAt(stk, lg, g) : g \in 0..StackSize-1}
<1>1. ChoicesUpTo(stk, lg, f) = ChoicesUpTo(stk, lg, o) \o <<ChoiceAt(stk, lg, f)>>
  BY ChoicesUpToIs
<1>2. f \in 0..StackSize-1 /\ o \in 0..StackSize-1
  <2>1. o \in 0..f-1
    BY OuterBelow
  <2> QED
    BY <2>1, StackAssumption
<1>3. ChoicesUpTo(stk, lg, o) \in Seq(T) /\ ChoiceAt(stk, lg, f) \in T
  BY <1>2, ChoicesTyped
<1> HIDE DEF T
<1> QED
  BY <1>1, <1>3, MoreChoices, ConcatOne

\* POP_SUCC and POP_FAIL drop the frame and all above it.
LEMMA LeaveFrame ==
  ASSUME NEW S, WellShaped(S), TypeOK, NEW L, Held(S, L), fail_stack # 0,
         stacks' = stacks, fail_stack' = stacks[fail_stack].value,
         unused_stack' = fail_stack - 1,
         Len(log') \in Nat, stacks[fail_stack + 2].value <= Len(log'),
         \A i \in 1..stacks[fail_stack + 2].value : log'[i] = log[i]
  PROVE  /\ OneMore(OpenChoices, OpenChoices', ChoiceAt(stacks, log, fail_stack))
         /\ SavedWords' = WordsUnder(stacks, fail_stack)
<1> DEFINE f == fail_stack
           m == Len(L)
<1>1. /\ f = L[m].frame /\ f \in FramesTo(L, m) /\ m \in 1..m
      /\ OpenChoices = ChoicesUpTo(stacks, log, f)
  BY NowIs
<1>2. PICK j \in 2..m :
        /\ L[j].kind = "alt" /\ L[j].frame = f
        /\ stacks[f].value = L[j - 1].frame /\ Outer(stacks, f) = L[j - 1].frame
        /\ f \in 1..StackSize-3
        /\ stacks[f + 2].value = L[j].size
        /\ L[j].size \in 0..L[m].size /\ L[j - 1].size \in 0..L[j].size
  <2> HIDE DEF f
  <2>1. m \in 1..Len(L) /\ f \in FramesTo(L, m) /\ f # 0
    BY <1>1 DEF f
  <2>2. PICK j \in 2..m :
           /\ L[j].kind = "alt" /\ L[j].frame = f
           /\ stacks[f].value = L[j - 1].frame /\ Outer(stacks, f) = L[j - 1].frame
           /\ L[j - 1].frame \in FramesTo(L, m)
           /\ f \in 1..StackSize-3 /\ f + 2 <= L[m].top
           /\ stacks[f + 2].value = L[j].size
           /\ L[j].size \in 0..L[m].size /\ L[j - 1].size \in 0..L[j].size
    BY <2>1, FrameLinked
  <2> QED
    BY <2>2
<1> DEFINE k == j - 1
           o == L[k].frame
<1>3. m \in Nat /\ L[m].size \in Nat
  BY HeldIs
<1>4. k \in 1..Len(L) /\ k \in 1..k
  BY <1>2, <1>3
<1>5. /\ o \in 0..StackSize-3 /\ o \in FramesTo(L, k)
  BY <1>4, FrameWhole DEF FramesTo
<1>6. Kept(L, k, stacks', log')
  <2>1. L[k].size <= Len(log') /\ \A i \in 1..L[k].size : i \in 1..stacks[f + 2].value
    BY <1>2, <1>3
  <2> QED
    BY <2>1 DEF Kept
<1>7. /\ WordsUnder(stacks', o) = WordsUnder(stacks, o)
      /\ ChoicesUpTo(stacks', log', o) = ChoicesUpTo(stacks, log, o)
  BY <1>4, <1>5, <1>6, SameUpTo
<1>8. fail_stack' = o /\ f \in 1..StackSize-1
  BY <1>2, StackAssumption
<1> HIDE DEF k, o
<1>9. /\ SavedWords' = WordsUnder(stacks', o) \o Slots(stacks', o + 3, f - 1)
      /\ OpenChoices' = ChoicesUpTo(stacks', log', o)
  <2>1. fail_stack' \in 0..StackSize-3
    BY <1>5, <1>8
  <2> QED
    BY <1>8, <2>1, ThenIs
<1>10. SavedWords' = WordsUnder(stacks, f)
  <2>1. WordsUnder(stacks, f) = WordsUnder(stacks, o) \o Slots(stacks, o + 3, f - 1)
    BY <1>2, <1>8, WordsUnderIs DEF k, o
  <2> QED
    BY <1>7, <1>9, <2>1
<1>11. OneMore(OpenChoices, OpenChoices', ChoiceAt(stacks, log, f))
  <2>1. Outer(stacks, f) = o
    BY <1>2 DEF k, o
  <2>2. OneMore(ChoicesUpTo(stacks, log, f), ChoicesUpTo(stacks, log, o),
                ChoiceAt(stacks, log, f))
    BY <1>8, <2>1, ChoiceMore
  <2> QED
    BY <1>1, <1>7, <1>9, <2>2
<1> QED
  BY <1>10, <1>11

\* The size of the log that the innermost frame saved.
LEMMA FrameSize ==
  ASSUME NEW S, WellShaped(S), TypeOK, NEW L, Held(S, L), fail_stack # 0
  PROVE  /\ stacks[fail_stack + 2].value \in 0..Len(log) /\ Len(log) \in Nat
         /\ fail_stack \in 1..StackSize-3
<1>1. fail_stack \in FramesTo(L, Len(L)) /\ Len(L) \in 1..Len(L)
  BY NowIs
<1>2. PICK j \in 2..Len(L) : /\ stacks[fail_stack + 2].value = L[j].size
                             /\ L[j].size \in 0..L[Len(L)].size
                             /\ fail_stack \in 1..StackSize-3
  BY <1>1, FrameLinked
<1>3. L[Len(L)].size \in Nat /\ L[Len(L)].size <= Len(log) /\ Len(log) \in Nat
  BY HeldIs
<1> QED
  BY <1>2, <1>3

\* Succ, Memo and TMemo.
LEMMA CommitChoice ==
  ASSUME NEW S, WellShaped(S), TypeOK, NEW L, Held(S, L), fail_stack # 0,
         PopSucc, UNCHANGED <<pos, left, log>>
  PROVE  Abstract!Commit
<1>1. /\ stacks' = stacks /\ fail_stack' = stacks[fail_stack].value
      /\ unused_stack' = fail_stack - 1
  BY DEF PopSucc
<1>2. Len(log') \in Nat /\ stacks[fail_stack + 2].value <= Len(log')
  BY FrameSize
<1>3. \A i \in 1..stacks[fail_stack + 2].value : log'[i] = log[i]
  OBVIOUS
<1>4. /\ OneMore(OpenChoices, OpenChoices', ChoiceAt(stacks, log, fail_stack))
      /\ SavedWords' = WordsUnder(stacks, fail_stack)
  BY <1>1, <1>2, <1>3, LeaveFrame
<1>5. ChoiceAt(stacks, log, fail_stack).words = WordsUnder(stacks, fail_stack)
  BY DEF ChoiceAt
<1> QED
  BY <1>4, <1>5 DEF OneMore, Abstract!Commit

\* POP_FAIL, wherever a handler calls it.
LEMMA FailChoice ==
  ASSUME NEW S, WellShaped(S), TypeOK, NEW L, Held(S, L), fail_stack # 0,
         NEW h, PopFail(h)
  PROVE  Abstract!Fail
<1> DEFINE n == stacks[fail_stack + 2].value
           c == ChoiceAt(stacks, log, fail_stack)
<1>1. /\ stacks' = stacks /\ fail_stack' = stacks[fail_stack].value
      /\ unused_stack' = fail_stack - 1
      /\ left' = stacks[fail_stack].tree
      /\ pos' = stacks[fail_stack + 1].value
      /\ pc' = stacks[fail_stack + 1].num
      /\ log' = BackLog(h, n).log
  BY DEF PopFail
<1>2. n \in 0..Len(log) /\ Len(log) \in Nat
  BY FrameSize
<1> HIDE DEF n
<1>3. /\ log' = SubSeq(log, 1, n) /\ Len(log') = n
      /\ \A i \in 1..n : log'[i] = log[i]
  BY <1>1, <1>2, CutLog
<1>4. n \in Nat /\ n <= Len(log') /\ Len(log') \in Nat
  BY <1>2, <1>3
<1>5. /\ OneMore(OpenChoices, OpenChoices', c)
      /\ SavedWords' = WordsUnder(stacks, fail_stack)
  BY <1>1, <1>3, <1>4, LeaveFrame DEF n
<1>6. LogUpTo(log, n) = SubSeq(log, 1, n)
  <2>1. (IF n < Len(log) THEN n ELSE Len(log)) = n
    BY <1>2
  <2> QED
    BY <2>1 DEF LogUpTo
<1>7. /\ c.alt = pc' /\ c.pos = pos' /\ c.left = left' /\ c.log = log'
      /\ c.words = WordsUnder(stacks, fail_stack)
  BY <1>1, <1>3, <1>6 DEF ChoiceAt, n
<1> HIDE DEF c
<1> QED
  BY <1>5, <1>7 DEF OneMore, Abstract!Fail

\* One sequence begins with another.
LEMMA PrefixIs ==
  ASSUME NEW T, NEW s \in Seq(T), NEW x \in Seq(T), Len(s) <= Len(x),
         \A i \in 1..Len(s) : s[i] = x[i]
  PROVE  /\ Abstract!IsPrefix(s, x)
         /\ Len(s) < Len(x) => Abstract!IsStrictPrefix(s, x)
<1>1. Len(s) \in Nat /\ Len(x) \in Nat
  BY LenProperties
<1>2. \A i \in 1..Len(s) : i \in 1..Len(x)
  BY <1>1
<1>3. \A i \in 1..Len(s) : x[i] \in T
  BY <1>2, ElementOfSeq
<1>4. /\ SubSeq(x, 1, Len(s)) \in Seq(T)
      /\ Len(SubSeq(x, 1, Len(s))) = IF 1 <= Len(s) THEN Len(s) - 1 + 1 ELSE 0
      /\ \A i \in 1..Len(s)-1+1 : SubSeq(x, 1, Len(s))[i] = x[1 + i - 1]
  BY <1>1, <1>3, SubSeqProperties
<1>5. \A i \in 1..Len(s) : s[i] = SubSeq(x, 1, Len(s))[i]
  BY <1>1, <1>4
<1>6. Len(s) = Len(SubSeq(x, 1, Len(s)))
  BY <1>1, <1>4
<1>7. s = SubSeq(x, 1, Len(s))
  BY <1>4, <1>5, <1>6, SeqEqual
<1>8. s = SubSeq(s, 1, Len(s))
  BY SubSeqFull
<1>9. Abstract!IsPrefix(s, x)
  BY <1>7, <1>8 DEF Abstract!IsPrefix
<1>10. Len(s) < Len(x) => s # x
  BY <1>1
<1> QED
  BY <1>9, <1>10 DEF Abstract!IsStrictPrefix

\* Slot 0 keeps no tree.
BottomKept == status = "run" => stacks[0].tree = NULL

\* Without an alternative it is the bottom frame that is popped.
LEMMA NoChoice ==
  ASSUME NEW S, WellShaped(S), TypeOK, NEW L, Held(S, L), fail_stack = 0,
         BottomKept, status = "run", NEW h, PopFail(h)
  PROVE  Abstract!GiveUp
<1> DEFINE n == stacks[2].value
           keep == IF n < Len(log) THEN n ELSE Len(log)
<1>1. /\ stacks' = stacks /\ fail_stack' = stacks[0].value
      /\ unused_stack' = -1 /\ left' = stacks[0].tree
      /\ pc' = stacks[1].num /\ log' = BackLog(h, n).log
  BY DEF PopFail
<1>2. stacks[0].value = 0 /\ stacks[1].num = 0
  BY HeldIs DEF Stacked
<1>3. left' = 0 /\ pc' = 0 /\ fail_stack' = 0 /\ fail_stack' \in 0..StackSize-3
  BY <1>1, <1>2, StackAssumption DEF BottomKept, NULL
<1>4. OpenChoices = <<>> /\ OpenChoices' = <<>>
  <2>1. OpenChoices = ChoicesUpTo(stacks, log, 0)
    BY NowIs
  <2>2. OpenChoices' = ChoicesUpTo(stacks', log', 0)
    BY <1>3, ThenIs
  <2> QED
    BY <2>1, <2>2, ChoicesUpToIs
<1>5. SavedWords' = <<>>
  <2>1. SavedWords' = WordsUnder(stacks', 0) \o Slots(stacks', 0 + 3, -1)
    BY <1>1, <1>3, ThenIs
  <2>2. Slots(stacks', 0 + 3, -1) = <<>>
    BY SlotsNone
  <2>3. WordsUnder(stacks', 0) = <<>>
    BY WordsUnderIs
  <2>4. <<>> \o <<>> = <<>>
    BY EmptySeq, ConcatEmptySeq
  <2> QED
    BY <2>1, <2>2, <2>3, <2>4
<1>6. log' = SubSeq(log, 1, keep)
  BY <1>1 DEF BackLog
<1>7. Len(log) \in Nat /\ n \in Int /\ log \in Seq(Range(log))
  <2>1. 2 \in 0..StackSize-1
    BY StackAssumption
  <2>2. stacks[2] \in SlotType(newcount)
    BY <2>1 DEF TypeOK
  <2> QED
    BY <2>2, HeldIs DEF SlotType
<1>8. Abstract!IsPrefix(log', log)
  <2>1. keep \in Int /\ keep <= Len(log)
    BY <1>7
  <2> HIDE DEF keep
  <2>2. \A i \in 1..keep : i \in 1..Len(log)
    BY <1>7, <2>1
  <2>3. \A i \in 1..keep : log[i] \in Range(log)
    BY <1>7, <2>2, ElementOfSeq
  <2>4. /\ log' \in Seq(Range(log)) /\ Len(log') = IF 1 <= keep THEN keep - 1 + 1 ELSE 0
        /\ \A i \in 1..keep-1+1 : log'[i] = log[1 + i - 1]
    BY <1>6, <2>1, <2>3, SubSeqProperties
  <2>5. Len(log') <= Len(log)
    BY <1>7, <2>1, <2>4
  <2>6. \A i \in 1..Len(log') : log'[i] = log[i]
    BY <1>7, <2>1, <2>4
  <2> QED
    BY <1>7, <2>4, <2>5, <2>6, PrefixIs
<1> QED
  BY <1>3, <1>4, <1>5, <1>8 DEF Abstract!GiveUp
-----------------------------------------------------------------------------
(* Steps that make a choice, or make one anew.                             *)

\* Frame f of stk holds the machine's tree, position and log size.
FrameNow(stk, f) ==
  stk[f].tree = left /\ stk[f + 1].value = pos /\ stk[f + 2].value = Len(log)

\* A frame that saves the present state is a choice that holds it.
LEMMA ChoiceNow ==
  ASSUME TypeOK, NEW stk, NEW f, FrameNow(stk, f)
  PROVE  ChoiceAt(stk, log, f) = [alt   |-> stk[f + 1].num, pos |-> pos, left |-> left,
                                  log   |-> log, words |-> WordsUnder(stk, f)]
<1>1. log \in Seq(LogType(newcount))
  BY DEF TypeOK
<1>2. SubSeq(log, 1, Len(log)) = log
  BY <1>1, SubSeqFull
<1>3. LogUpTo(log, Len(log)) = log
  BY <1>2 DEF LogUpTo
<1> QED
  BY <1>3 DEF ChoiceAt, FrameNow

\* PUSH_FAIL writes a frame above all that is there.
LEMMA PushFailFrame ==
  ASSUME TypeOK, NEW alt, unused_stack + 3 < StackSize, unused_stack \in Nat, PushFail(alt)
  PROVE  /\ \A x \in 0..unused_stack : stacks'[x] = stacks[x]
         /\ stacks'[unused_stack + 1].value = fail_stack
         /\ FrameNow(stacks', unused_stack + 1)
<1> DEFINE s == unused_stack + 1
<1>1. /\ unused_stack \in -1..StackSize-1 /\ DOMAIN stacks = 0..StackSize-1
      /\ StackSize \in Nat /\ s \in Nat /\ {s, s + 1, s + 2} \subseteq 0..StackSize-1
      /\ stacks[s] \in SlotType(newcount)
  BY StackAssumption DEF TypeOK
<1>2. /\ [stacks[s] EXCEPT !.value = fail_stack, !.tree = left].value = fail_stack
      /\ [stacks[s] EXCEPT !.value = fail_stack, !.tree = left].tree = left
  BY <1>1 DEF SlotType
<1>3. stacks' = [stacks EXCEPT
                   ![s]   = [stacks[s] EXCEPT !.value = fail_stack, !.tree = left],
                   ![s+1] = [value |-> pos, num |-> alt, tree |-> NULL],
                   ![s+2] = [value |-> Len(log), num |-> 0, tree |-> NULL]]
  BY <1>1 DEF PushFail
<1>4. \A x \in 0..unused_stack : stacks'[x] = stacks[x]
  BY <1>1, <1>3
<1>5. /\ stacks'[s] = [stacks[s] EXCEPT !.value = fail_stack, !.tree = left]
      /\ stacks'[s + 1] = [value |-> pos, num |-> alt, tree |-> NULL]
      /\ stacks'[s + 2] = [value |-> Len(log), num |-> 0, tree |-> NULL]
  BY <1>1, <1>3
<1>6. /\ stacks'[s].value = fail_stack /\ stacks'[s].tree = left
      /\ stacks'[s + 1].value = pos /\ stacks'[s + 2].value = Len(log)
  BY <1>2, <1>5
<1> HIDE DEF s
<1>7. FrameNow(stacks', s)
  BY <1>6 DEF FrameNow
<1> QED
  BY <1>4, <1>6, <1>7 DEF s

\* Alt.
LEMMA ChooseAlt ==
  ASSUME NEW S, WellShaped(S), TypeOK, TypeOK', NEW L, Held(S, L),
         NEW alt, unused_stack + 3 < StackSize, PushFail(alt), UNCHANGED <<pos, left, log>>
  PROVE  Abstract!Choose
<1> DEFINE f == fail_stack
           u == unused_stack
           g == u + 1
           c == ChoiceAt(stacks', log, g)
<1>1. /\ u \in Nat /\ f \in 0..StackSize-3 /\ f + 2 <= u /\ u < StackSize
      /\ f \in FramesTo(L, Len(L)) /\ Len(L) \in 1..Len(L) /\ u = L[Len(L)].top
      /\ SavedWords = WordsUnder(stacks, f) \o Slots(stacks, f + 3, u)
      /\ OpenChoices = ChoicesUpTo(stacks, log, f)
  BY NowIs
<1>2. /\ unused_stack' = u + 3 /\ fail_stack' = g
      /\ \A s \in 0..u : stacks'[s] = stacks[s]
      /\ stacks'[g].value = f /\ FrameNow(stacks', g)
  BY <1>1, PushFailIs, PushFailFrame
<1>3. L[Len(L)].size <= Len(log) /\ L[Len(L)].size \in Nat /\ Len(log) \in Nat
  BY HeldIs
<1>4. Kept(L, Len(L), stacks', log)
  BY <1>1, <1>2, <1>3 DEF Kept
<1>5. /\ WordsUnder(stacks', f) = WordsUnder(stacks, f)
      /\ ChoicesUpTo(stacks', log, f) = ChoicesUpTo(stacks, log, f)
  BY <1>1, <1>4, SameUpTo
<1>6. /\ g \in 1..StackSize-1 /\ g \in 0..StackSize-3 /\ f \in 0..g-1 /\ g - 1 = u
      /\ g + 3 \in Nat /\ u + 3 \in Int /\ u + 3 < g + 3 /\ f + 3 \in Nat /\ u \in Int
  <2>1. u \in Nat /\ f \in Nat /\ f + 2 <= u /\ u + 3 < StackSize /\ StackSize \in Nat
    BY <1>1, StackAssumption
  <2> HIDE DEF u, f
  <2> QED
    BY <2>1
<1>7. Outer(stacks', g) = f
  BY <1>2, <1>6 DEF Outer
<1> HIDE DEF c
<1>8. /\ SavedWords' = WordsUnder(stacks', g) \o Slots(stacks', g + 3, u + 3)
      /\ OpenChoices' = ChoicesUpTo(stacks', log, g)
  BY <1>2, <1>6, ThenIs
<1>9. WordsUnder(stacks', g) = SavedWords
  <2>1. Slots(stacks', f + 3, u) = Slots(stacks, f + 3, u)
    <3>1. \A s \in f+3..u : s \in 0..u
      BY <1>6
    <3>2. \A s \in f+3..u : stacks'[s] = stacks[s]
      BY <1>2, <3>1
    <3> QED
      BY <1>6, <3>2, SlotsSame
  <2>2. WordsUnder(stacks', g) = WordsUnder(stacks', f) \o Slots(stacks', f + 3, g - 1)
    BY <1>6, <1>7, WordsUnderIs
  <2> QED
    BY <1>1, <1>5, <1>6, <2>1, <2>2
<1>10. SavedWords' = SavedWords
  <2>1. Slots(stacks', g + 3, u + 3) = <<>>
    BY <1>6, SlotsNone
  <2>2. WordsUnder(stacks', g) \in Seq(Word(newcount'))
    <3>1. g \in 0..StackSize-1
      BY <1>6
    <3> QED
      BY <3>1, StacksTypedThen, WordsUnderTyped
  <2>3. WordsUnder(stacks', g) \o <<>> = WordsUnder(stacks', g)
    BY <2>2, ConcatEmptySeq
  <2> QED
    BY <1>8, <1>9, <2>1, <2>3
<1>11. OneMore(OpenChoices', OpenChoices, c) /\ OpenChoices' = Append(OpenChoices, c)
  <2>1. /\ OneMore(ChoicesUpTo(stacks', log, g), ChoicesUpTo(stacks', log, f), c)
        /\ ChoicesUpTo(stacks', log, g) = Append(ChoicesUpTo(stacks', log, f), c)
    BY <1>6, <1>7, ChoiceMore DEF c
  <2> QED
    BY <1>1, <1>5, <1>8, <2>1
<1>12. c = Abstract!Saved(c.alt)
  <2>1. c = [alt |-> stacks'[g + 1].num, pos |-> pos, left |-> left, log |-> log,
             words |-> SavedWords]
    BY <1>2, <1>9, ChoiceNow DEF c
  <2>2. c.alt = stacks'[g + 1].num
    BY <2>1
  <2> QED
    BY <2>1, <2>2 DEF Abstract!Saved
<1> QED
  BY <1>10, <1>11, <1>12 DEF OneMore, Abstract!Choose

\* Frame f is rewritten in stk2, its link and its alternative are not.
FrameAnew(stk2, f) ==
  /\ \A s \in 0..f-1 : stk2[s] = stacks[s]
  /\ stk2[f].value = stacks[f].value /\ stk2[f + 1].num = stacks[f + 1].num
  /\ FrameNow(stk2, f)

\* STEP_FAIL, when the round has consumed something, rewrites the frame.
LEMMA RenewFrame ==
  ASSUME TypeOK, fail_stack \in 0..StackSize-3,
         stacks' = [stacks EXCEPT
                      ![fail_stack]     = [@ EXCEPT !.tree = left],
                      ![fail_stack + 1] = [@ EXCEPT !.value = pos],
                      ![fail_stack + 2] = [@ EXCEPT !.value = Len(log), !.num = 0]]
  PROVE  FrameAnew(stacks', fail_stack)
<1> DEFINE f == fail_stack
<1>1. /\ f \in Nat /\ {f, f + 1, f + 2} \subseteq 0..StackSize-1
      /\ DOMAIN stacks = 0..StackSize-1 /\ StackSize \in Nat
  <2>1. f \in 0..StackSize-3 /\ StackSize \in Nat
    BY StackAssumption
  <2>2. DOMAIN stacks = 0..StackSize-1
    BY DEF TypeOK
  <2> QED
    BY <2>1, <2>2
<1>2. \A s \in 0..StackSize-1 : stacks[s] \in SlotType(newcount)
  BY DEF TypeOK
<1>3. /\ stacks[f] \in SlotType(newcount) /\ stacks[f + 1] \in SlotType(newcount)
      /\ stacks[f + 2] \in SlotType(newcount)
  BY <1>1, <1>2
<1>4. \A s \in 0..f-1 : stacks'[s] = stacks[s]
  BY <1>1
<1>5. /\ stacks'[f] = [stacks[f] EXCEPT !.tree = left]
      /\ stacks'[f + 1] = [stacks[f + 1] EXCEPT !.value = pos]
      /\ stacks'[f + 2] = [stacks[f + 2] EXCEPT !.value = Len(log), !.num = 0]
  BY <1>1
<1>6. /\ [stacks[f] EXCEPT !.tree = left].value = stacks[f].value
      /\ [stacks[f] EXCEPT !.tree = left].tree = left
  BY <1>3 DEF SlotType
<1>7. /\ [stacks[f + 1] EXCEPT !.value = pos].value = pos
      /\ [stacks[f + 1] EXCEPT !.value = pos].num = stacks[f + 1].num
  BY <1>3 DEF SlotType
<1>8. [stacks[f + 2] EXCEPT !.value = Len(log), !.num = 0].value = Len(log)
  BY <1>3 DEF SlotType
<1>9. FrameNow(stacks', f)
  BY <1>5, <1>6, <1>7, <1>8 DEF FrameNow
<1> QED
  BY <1>4, <1>5, <1>6, <1>7, <1>9 DEF FrameAnew

\* Step renews the choice on top.
LEMMA RenewChoice ==
  ASSUME NEW S, WellShaped(S), TypeOK, TypeOK', NEW L, Held(S, L),
         NEW t \in Seq(Letters), S[pc] = Append(t, "alt"),
         stacks[fail_stack + 1].value # pos, FrameAnew(stacks', fail_stack),
         UNCHANGED <<pos, unused_stack, fail_stack, left, log, newcount>>
  PROVE  Abstract!Renew
<1> DEFINE m == Len(L)
           f == fail_stack
           u == unused_stack
           k == m - 1
           o == L[m - 1].frame
           b == ChoiceAt(stacks, log, f)
           c == ChoiceAt(stacks', log, f)
<1>1. /\ m # 1 /\ L[m - 1].top \in Nat /\ o \in Nat /\ L[m - 1].size \in Nat
      /\ L[m].size \in Nat /\ L[m - 1].size <= L[m].size /\ L[m].size <= Len(log)
      /\ f = L[m - 1].top + 1 /\ u = L[m - 1].top + 3 /\ stacks[f].value = o
  BY TopAlt
<1>2. k \in 1..Len(L) /\ Len(log) \in Nat
  BY <1>1, BelowTop, HeldIs
<1>3. /\ f \in 0..StackSize-3 /\ u < StackSize
      /\ SavedWords = WordsUnder(stacks, f) \o Slots(stacks, f + 3, u)
      /\ OpenChoices = ChoicesUpTo(stacks, log, f)
  BY NowIs
<1>4. o + 2 <= L[m - 1].top /\ o \in FramesTo(L, k)
  <2>1. k \in 1..k
    BY <1>2
  <2> QED
    BY <1>2, <2>1, FrameWhole DEF FramesTo
<1>5. /\ \A s \in 0..f-1 : stacks'[s] = stacks[s]
      /\ stacks'[f].value = o /\ stacks'[f + 1].num = stacks[f + 1].num
      /\ FrameNow(stacks', f)
  BY <1>1 DEF FrameAnew
<1>6. Kept(L, k, stacks', log)
  <2>1. \A s \in 0..L[k].top : s \in 0..f-1
    BY <1>1
  <2>2. L[k].size <= Len(log)
    BY <1>1, <1>2
  <2> QED
    BY <1>2, <1>5, <2>1, <2>2 DEF Kept
<1>7. /\ WordsUnder(stacks', o) = WordsUnder(stacks, o)
      /\ ChoicesUpTo(stacks', log, o) = ChoicesUpTo(stacks, log, o)
  BY <1>2, <1>4, <1>6, SameUpTo
<1> HIDE DEF k, b, c
<1>8. /\ f \in 1..StackSize-1 /\ f \in 0..StackSize-1 /\ o \in 0..f-1
      /\ o + 3 \in Nat /\ f - 1 \in Int /\ f + 3 \in Nat /\ u \in Int /\ u < f + 3
  <2> DEFINE below == L[m - 1].top
  <2>1. /\ below \in Nat /\ o \in Nat /\ f = below + 1 /\ u = below + 3 /\ o + 2 <= below
        /\ f \in 0..StackSize-3 /\ StackSize \in Nat
    BY <1>1, <1>3, <1>4, StackAssumption
  <2> HIDE DEF o, f, u, m, below
  <2>2. /\ o + 3 \in Nat /\ f - 1 \in Int /\ f + 3 \in Nat /\ u \in Int /\ u < f + 3
        /\ o \in 0..f-1
    BY <2>1
  <2>3. f \in 1..StackSize-1 /\ f \in 0..StackSize-1
    BY <2>1
  <2> QED
    BY <2>2, <2>3
<1>9. Outer(stacks, f) = o /\ Outer(stacks', f) = o
  BY <1>1, <1>5, <1>8 DEF Outer
<1> HIDE DEF o
<1>10. WordsUnder(stacks', f) = WordsUnder(stacks, f)
  <2>1. \A s \in o+3..f-1 : s \in 0..f-1
    BY <1>8
  <2>2. \A s \in o+3..f-1 : stacks'[s] = stacks[s]
    BY <1>5, <2>1
  <2>3. Slots(stacks', o + 3, f - 1) = Slots(stacks, o + 3, f - 1)
    BY <1>8, <2>2, SlotsSame
  <2>4. /\ WordsUnder(stacks, f) = WordsUnder(stacks, o) \o Slots(stacks, o + 3, f - 1)
        /\ WordsUnder(stacks', f) = WordsUnder(stacks', o) \o Slots(stacks', o + 3, f - 1)
    BY <1>8, <1>9, WordsUnderIs
  <2> QED
    BY <1>7, <2>3, <2>4
<1>11. SavedWords = WordsUnder(stacks, f) /\ SavedWords' = WordsUnder(stacks, f)
  <2>1. Slots(stacks, f + 3, u) = <<>> /\ Slots(stacks', f + 3, u) = <<>>
    BY <1>8, SlotsNone
  <2>2. WordsUnder(stacks, f) \in Seq(Word(newcount))
    BY <1>8, StacksTyped, WordsUnderTyped
  <2>3. WordsUnder(stacks, f) \o <<>> = WordsUnder(stacks, f)
    BY <2>2, ConcatEmptySeq
  <2>4. SavedWords' = WordsUnder(stacks', f) \o Slots(stacks', f + 3, u)
    <3>1. fail_stack' \in 0..StackSize-3
      BY <1>3
    <3> QED
      BY <3>1, ThenIs
  <2> QED
    BY <1>3, <1>10, <2>1, <2>3, <2>4
<1>12. OpenChoices' = ChoicesUpTo(stacks', log, f)
  <2>1. fail_stack' \in 0..StackSize-3
    BY <1>3
  <2> QED
    BY <2>1, ThenIs
<1>13. /\ OneMore(OpenChoices, ChoicesUpTo(stacks, log, o), b)
       /\ OpenChoices' = Append(ChoicesUpTo(stacks, log, o), c)
  <2>1. OneMore(ChoicesUpTo(stacks, log, f), ChoicesUpTo(stacks, log, o), b)
    BY <1>8, <1>9, ChoiceMore DEF b
  <2>2. ChoicesUpTo(stacks', log, f) = Append(ChoicesUpTo(stacks', log, o), c)
    BY <1>8, <1>9, ChoiceMore DEF c
  <2> QED
    BY <1>3, <1>7, <1>12, <2>1, <2>2
<1>14. b.alt = stacks[f + 1].num /\ b.pos = stacks[f + 1].value
       /\ b.words = WordsUnder(stacks, f)
  BY DEF ChoiceAt, b
<1>15. c = [Abstract!Saved(b.alt) EXCEPT !.words = b.words]
  <2>1. c = [alt |-> stacks'[f + 1].num, pos |-> pos, left |-> left, log |-> log,
             words |-> WordsUnder(stacks', f)]
    BY <1>5, ChoiceNow DEF c
  <2>2. c = [alt |-> b.alt, pos |-> pos, left |-> left, log |-> log, words |-> b.words]
    BY <1>5, <1>10, <1>14, <2>1
  <2> QED
    BY <2>2 DEF Abstract!Saved
<1> QED
  BY <1>11, <1>13, <1>14, <1>15 DEF OneMore, Abstract!Renew
-----------------------------------------------------------------------------
(* Steps on the log.                                                       *)

\* TBegin, TFold, TTag and TReplace.
LEMMA RecordEntries ==
  ASSUME NEW S, WellShaped(S), TypeOK, NEW L, Held(S, L), NEW T,
         log \in Seq(T), log' \in Seq(T), Len(log) < Len(log'),
         \A i \in 1..Len(log) : log'[i] = log[i],
         UNCHANGED <<pos, left, stacks, unused_stack, fail_stack>>
  PROVE  Abstract!Record
<1>1. Len(log) \in Nat /\ Len(log') \in Nat
  BY LenProperties
<1>2. Len(log) <= Len(log') /\ \A s \in 0..unused_stack : stacks'[s] = stacks[s]
  BY <1>1
<1>3. OpenChoices' = OpenChoices
  BY <1>1, <1>2, TopSame
<1>4. SavedWords' = SavedWords
  BY DEF SavedWords, Innermost
<1>5. \A i \in 1..Len(log) : log[i] = log'[i]
  OBVIOUS
<1>6. Abstract!IsStrictPrefix(log, log')
  BY <1>2, <1>5, PrefixIs
<1> QED
  BY <1>3, <1>4, <1>6 DEF Abstract!Record

\* Every tree that is saved is one that was made.
LEMMA TreesSaved ==
  ASSUME NEW S, WellShaped(S), TypeOK, NEW L, Held(S, L)
  PROVE  /\ \A w \in Abstract!Range(SavedWords) : w.tree \in 0..newcount
         /\ \A c \in Abstract!Range(OpenChoices) : c.left \in 0..newcount
<1>1. /\ fail_stack \in 0..StackSize-3 /\ unused_stack \in Nat /\ unused_stack < StackSize
      /\ SavedWords = WordsUnder(stacks, fail_stack)
                         \o Slots(stacks, fail_stack + 3, unused_stack)
      /\ OpenChoices = ChoicesUpTo(stacks, log, fail_stack)
  BY NowIs
<1>2. fail_stack \in 0..StackSize-1 /\ fail_stack + 3 \in Nat /\ unused_stack \in Int
  BY <1>1, StackAssumption
<1>3. \A w \in Abstract!Range(SavedWords) : w.tree \in 0..newcount
  <2> DEFINE W == Word(newcount)
  <2>1. /\ WordsUnder(stacks, fail_stack) \in Seq(W)
        /\ Slots(stacks, fail_stack + 3, unused_stack) \in Seq(W)
    BY <1>1, <1>2, StacksTyped, SlotsAre, WordsUnderTyped
  <2> HIDE DEF W
  <2>2. SavedWords \in Seq(W)
    BY <1>1, <2>1, ConcatProperties
  <2>3. \A i \in DOMAIN SavedWords : SavedWords[i] \in W
    BY <2>2, LenProperties, ElementOfSeq
  <2> QED
    BY <2>3 DEF Abstract!Range, W, Word
<1>4. \A c \in Abstract!Range(OpenChoices) : c.left \in 0..newcount
  <2> DEFINE T == {ChoiceAt(stacks, log, g) : g \in 0..StackSize-1}
  <2>1. OpenChoices \in Seq(T)
    BY <1>1, <1>2, ChoicesTyped
  <2>2. \A c \in T : c.left \in 0..newcount
    <3>1. ASSUME NEW g \in 0..StackSize-1
          PROVE  ChoiceAt(stacks, log, g).left \in 0..newcount
      <4>1. stacks[g] \in SlotType(newcount)
        BY DEF TypeOK
      <4> QED
        BY <4>1 DEF SlotType, ChoiceAt
    <3> QED
      BY <3>1
  <2> HIDE DEF T
  <2>3. \A i \in DOMAIN OpenChoices : OpenChoices[i] \in T
    BY <2>1, LenProperties, ElementOfSeq
  <2> QED
    BY <2>2, <2>3 DEF Abstract!Range
<1> QED
  BY <1>3, <1>4

\* TEnd takes the entries of the node on top, and the node is new.
LEMMA BuildNode ==
  ASSUME NEW S, WellShaped(S), TypeOK, NEW L, Held(S, L), TEnd
  PROVE  Abstract!Build
<1> DEFINE k == Len(L) - 1
<1>1. PICK start \in DOMAIN log :
        /\ Inst.op = "TEnd" /\ LastNew(start)
        /\ log' = BackLog(Made(start), start - 1).log
        /\ left' = newcount + 1 /\ pos' = pos
        /\ UNCHANGED <<stacks, unused_stack, fail_stack>>
  BY DEF TEnd, At, frames
<1>2. /\ k \in 1..Len(L) /\ L[k].size \in Nat /\ L[k].size < start
      /\ L[k].frame = fail_stack /\ start \in 1..Len(log) /\ Len(log) \in Nat
  BY <1>1, EndStart
<1> DEFINE n == start - 1
<1>3. n \in 0..Len(log) /\ n < Len(log) /\ L[k].size <= n
  BY <1>2
<1> HIDE DEF k, n
<1>4. /\ log' \in Seq(LogType(newcount)) /\ Len(log') = n
      /\ \A i \in 1..n : log'[i] = log[i]
  <2>1. log' = SubSeq(log, 1, n)
    BY <1>1, <1>3, CutLog DEF n
  <2> QED
    BY <1>3, <2>1, CutLog
<1>5. Kept(L, k, stacks', log')
  <2>1. \A i \in 1..L[k].size : i \in 1..n
    BY <1>2, <1>3
  <2> QED
    BY <1>1, <1>3, <1>4, <2>1 DEF Kept
<1>6. OpenChoices' = OpenChoices
  BY <1>1, <1>2, <1>5, StepSame
<1>7. SavedWords' = SavedWords
  BY <1>1 DEF SavedWords, Innermost
<1>8. Abstract!IsStrictPrefix(log', log)
  <2>1. log \in Seq(LogType(newcount))
    BY DEF TypeOK
  <2> QED
    BY <1>3, <1>4, <2>1, PrefixIs
<1>9. left' \notin {left} \cup {w.tree : w \in Abstract!Range(SavedWords)}
                         \cup {c.left : c \in Abstract!Range(OpenChoices)}
  <2>1. left \in 0..newcount /\ newcount + 1 \notin 0..newcount
    BY DEF TypeOK
  <2> QED
    BY <1>1, <2>1, TreesSaved
<1> QED
  BY <1>1, <1>6, <1>7, <1>8, <1>9 DEF Abstract!Build
-----------------------------------------------------------------------------
(* Every handler is a step of the abstract machine.                        *)

\* Slot 0 is not written.
Backed == Abstract!Step /\ stacks'[0] = stacks[0]

\* Instructions that only move.
LEMMA MoveBacked ==
  ASSUME UNCHANGED <<stacks, unused_stack, fail_stack, left, log>>, pos' >= pos
  PROVE  Backed
<1>1. SavedWords' = SavedWords /\ OpenChoices' = OpenChoices
  BY DEF SavedWords, OpenChoices, Innermost
<1> QED
  BY <1>1 DEF Backed, Abstract!Step, Abstract!Proceed

\* A failure gives up the last choice.
LEMMA FailBacked ==
  ASSUME NEW S, WellShaped(S), TypeOK, NEW L, Held(S, L), BottomKept, status = "run",
         NEW h, PopFail(h)
  PROVE  Backed
<1>1. stacks' = stacks
  BY DEF PopFail
<1>2. Abstract!Fail \/ Abstract!GiveUp
  BY FailChoice, NoChoice
<1> QED
  BY <1>1, <1>2 DEF Backed, Abstract!Step

\* Pos, Call and TPush push a word.
LEMMA PushBacked ==
  ASSUME NEW S, WellShaped(S), TypeOK, TypeOK', NEW L, Held(S, L), Pos \/ Call \/ TPush
  PROVE  Backed
<1>0. \E v : \E t \in {0, left} : PushSlot(v, t)
  <2>1. CASE Pos \/ Call
    <3>1. \E v : PushSlot(v, 0)
      BY <2>1 DEF Pos, Call, NULL
    <3> QED
      BY <3>1
  <2>2. CASE TPush
    <3>1. PushSlot(Len(log), left)
      BY <2>2 DEF TPush
    <3> QED
      BY <3>1
  <2> QED
    BY <2>1, <2>2
<1>1. PICK v : \E t \in {0, left} : PushSlot(v, t)
  BY <1>0
<1>2. Defined /\ Inst.op \in {"Pos", "Call", "TPush"} /\ UNCHANGED <<pos, fail_stack, left, log>>
  BY DEF Pos, Call, TPush, At
<1>3. unused_stack + 1 < StackSize
  BY <1>2 DEF Defined, Pushed
<1>4. unused_stack \in Nat
  BY NowIs
<1>5. stacks'[0] = stacks[0]
  <2>1. 0 \in 0..unused_stack
    BY <1>4
  <2>2. \A s \in 0..unused_stack : stacks'[s] = stacks[s]
    BY <1>1, <1>3, <1>4, PushSlotWord
  <2> QED
    BY <2>1, <2>2
<1>6. Abstract!Push
  BY <1>1, <1>2, <1>3, PushWord
<1> QED
  BY <1>5, <1>6 DEF Backed, Abstract!Step

\* Alt chooses.
LEMMA AltBacked ==
  ASSUME NEW S, WellShaped(S), TypeOK, TypeOK', NEW L, Held(S, L), Alt
  PROVE  Backed
<1>1. Defined /\ Inst.op = "Alt" /\ PushFail(Inst.alt) /\ UNCHANGED <<pos, left, log>>
  BY DEF Alt, At
<1>2. unused_stack + 3 < StackSize
  BY <1>1 DEF Defined, Pushed
<1>3. unused_stack \in Nat
  BY NowIs
<1>4. stacks'[0] = stacks[0]
  <2>1. 0 \in 0..unused_stack
    BY <1>3
  <2>2. \A s \in 0..unused_stack : stacks'[s] = stacks[s]
    BY <1>1, <1>2, <1>3, PushFailFrame
  <2> QED
    BY <2>1, <2>2
<1>5. Abstract!Choose
  BY <1>1, <1>2, ChooseAlt
<1> QED
  BY <1>4, <1>5 DEF Backed, Abstract!Step

\* Succ and Memo commit.
LEMMA SuccBacked ==
  ASSUME NEW S, WellShaped(S), TypeOK, NEW L, Held(S, L), Succ \/ Memo
  PROVE  Backed
<1>1. /\ Inst.op \in {"Succ", "Memo", "TMemo"} /\ PopSucc /\ UNCHANGED <<pos, left, log>>
  BY DEF Succ, Memo, At, tree
<1>2. S[pc] = Append(S[Inst.next], "alt") /\ S[Inst.next] \in Seq(Letters)
  BY <1>1, AtShape DEF PairsAt
<1>3. fail_stack # 0
  BY <1>2, TopAlt
<1>4. Abstract!Commit
  BY <1>1, <1>3, CommitChoice
<1>5. stacks' = stacks
  BY <1>1 DEF PopSucc
<1> QED
  BY <1>4, <1>5 DEF Backed, Abstract!Step

\* The procedure has an alternative on top at a Step.
LEMMA StepShape ==
  ASSUME NEW S, WellShaped(S), TypeOK, NEW L, Held(S, L), Inst.op = "Step"
  PROVE  Front(S[pc]) \in Seq(Letters) /\ S[pc] = Append(Front(S[pc]), "alt")
<1>1. S[pc] \in Seq(Letters) /\ Len(S[pc]) \in Nat
  BY AtShape, LenProperties
<1>2. \A i \in 1..Len(S[pc])-1 : S[pc][i] \in Letters
  BY <1>1, ElementOfSeq
<1>3. Front(S[pc]) \in Seq(Letters)
  BY <1>1, <1>2, SubSeqProperties DEF Front
<1> QED
  BY <1>3, AtShape DEF PairsAt

\* Step renews a choice that has advanced, and fails if it has not.
LEMMA StepBacked ==
  ASSUME NEW S, WellShaped(S), TypeOK, TypeOK', NEW L, Held(S, L), BottomKept, Step
  PROVE  Backed
<1>1. Defined /\ Inst.op = "Step" /\ status = "run"
  BY DEF Step, At
<1>2. CASE PopFail(heap)
  BY <1>1, <1>2, FailBacked
<1>3. CASE /\ stacks[fail_stack + 1].value # pos
           /\ stacks' = [stacks EXCEPT
                ![fail_stack]     = [@ EXCEPT !.tree = left],
                ![fail_stack + 1] = [@ EXCEPT !.value = pos],
                ![fail_stack + 2] = [@ EXCEPT !.value = Len(log), !.num = 0]]
           /\ UNCHANGED <<pos, unused_stack, fail_stack, tree>>
  <2>1. UNCHANGED <<pos, unused_stack, fail_stack, left, log, newcount>>
    BY <1>3 DEF tree
  <2>2. fail_stack \in 0..StackSize-3
    BY <1>1 DEF Defined
  <2>3. FrameAnew(stacks', fail_stack)
    BY <1>3, <2>2, RenewFrame
  <2>4. /\ Front(S[pc]) \in Seq(Letters) /\ S[pc] = Append(Front(S[pc]), "alt")
    BY <1>1, StepShape
  <2>5. Abstract!Renew
    BY <1>3, <2>1, <2>3, <2>4, RenewChoice
  <2>6. stacks'[0] = stacks[0]
    <3>1. fail_stack = L[Len(L) - 1].top + 1 /\ L[Len(L) - 1].top \in Nat
      BY <2>4, TopAlt
    <3>2. 0 \in 0..fail_stack-1
      BY <3>1
    <3> QED
      BY <2>3, <3>2 DEF FrameAnew
  <2> QED
    BY <2>5, <2>6 DEF Backed, Abstract!Step
<1> QED
  BY <1>2, <1>3 DEF Step
-----------------------------------------------------------------------------
\* The log is as long as the item below the top asks for.
LEMMA BelowSize ==
  ASSUME NEW S, WellShaped(S), TypeOK, NEW L, Held(S, L), Len(L) # 1
  PROVE  Len(log) \in Nat /\ L[Len(L) - 1].size <= Len(log)
<1>1. Len(L) - 1 \in 1..Len(L)
  BY BelowTop
<1>2. Stacked(S, L, stacks, log) /\ Len(log) \in Nat
  BY HeldIs
<1> QED
  BY <1>1, <1>2 DEF Stacked, LogHeld

\* Back pops the position it goes to.
LEMMA BackBacked ==
  ASSUME NEW S, WellShaped(S), TypeOK, NEW L, Held(S, L), Back
  PROVE  Backed
<1>1. /\ Inst.op = "Back" /\ pos' = stacks[unused_stack].value
      /\ unused_stack' = unused_stack - 1 /\ pc' = Inst.next
      /\ UNCHANGED <<stacks, fail_stack, left, log>>
  BY DEF Back, At, Advance, tree
<1>2. S[pc] = Append(S[pc'], "pos") /\ S[pc'] \in Seq(Letters)
  BY <1>1, AtShape DEF PairsAt
<1>3. Len(L) # 1 /\ L[Len(L)].kind = "pos"
  BY <1>2, TopOpened DEF Opened
<1>4. Len(log') \in Nat /\ L[Len(L) - 1].size <= Len(log')
  BY <1>1, <1>3, BelowSize
<1>5. /\ OpenChoices' = OpenChoices
      /\ SavedWords # <<>> /\ SavedWords' = Abstract!Front(SavedWords)
      /\ Abstract!Last(SavedWords) = WordAt(stacks, unused_stack)
  BY <1>1, <1>3, <1>4, PopWord
<1>6. pos' = Abstract!Last(SavedWords).value
  BY <1>1, <1>5 DEF WordAt
<1> QED
  BY <1>1, <1>5, <1>6 DEF Backed, Abstract!Step, Abstract!Pop

\* Ret pops the address it goes to.
LEMMA RetBacked ==
  ASSUME NEW S, WellShaped(S), TypeOK, NEW L, Held(S, L), Ret
  PROVE  Backed
<1>1. /\ Inst.op = "Ret" /\ pc' = stacks[unused_stack].value
      /\ unused_stack' = unused_stack - 1
      /\ UNCHANGED <<pos, stacks, fail_stack, left, log>>
  BY DEF Ret, At, tree
<1>2. S[pc] \in Entries
  BY <1>1, AtShape DEF PairsAt
<1>3. Len(L) # 1 /\ L[Len(L)].kind = "call"
  BY <1>2, TopCall
<1>4. Len(log') \in Nat /\ L[Len(L) - 1].size <= Len(log')
  BY <1>1, <1>3, BelowSize
<1>5. /\ OpenChoices' = OpenChoices
      /\ SavedWords # <<>> /\ SavedWords' = Abstract!Front(SavedWords)
      /\ Abstract!Last(SavedWords) = WordAt(stacks, unused_stack)
  BY <1>1, <1>3, <1>4, PopWord
<1>6. pc' = Abstract!Last(SavedWords).value
  BY <1>1, <1>5 DEF WordAt
<1> QED
  BY <1>1, <1>5, <1>6 DEF Backed, Abstract!Step, Abstract!Pop

\* TPop pops the tree it restores, and cuts the log.
LEMMA TPopBacked ==
  ASSUME NEW S, WellShaped(S), TypeOK, NEW L, Held(S, L), TPop
  PROVE  Backed
<1> DEFINE n == L[Len(L)].size
           top == WordAt(stacks, unused_stack)
<1>1. /\ Inst.op = "TPop" /\ unused_stack' = unused_stack - 1 /\ pc' = Inst.next
      /\ log' = BackLog(heap, stacks[unused_stack].value).log
      /\ left' = stacks[unused_stack].tree
      /\ UNCHANGED <<pos, stacks, fail_stack>>
  BY DEF TPop, At, Advance
<1>2. S[pc] = Append(S[pc'], "tree") /\ S[pc'] \in Seq(Letters)
  BY <1>1, AtShape DEF PairsAt
<1>3. /\ Len(L) # 1 /\ L[Len(L)].kind = "tree"
      /\ n \in 0..Len(log) /\ L[Len(L) - 1].size <= n /\ L[Len(L) - 1].size \in Nat
      /\ stacks[unused_stack].value = n
  BY <1>2, TopTree
<1>4. top.value = n /\ top.tree = stacks[unused_stack].tree
  BY <1>3 DEF WordAt
<1> HIDE DEF n, top
<1>5. log' = SubSeq(log, 1, n) /\ Len(log') = n /\ \A i \in 1..n : log'[i] = log[i]
  BY <1>1, <1>3, CutLog
<1>6. Len(log') \in Nat /\ L[Len(L) - 1].size <= Len(log')
      /\ \A i \in 1..L[Len(L) - 1].size : i \in 1..n
  BY <1>3, <1>5
<1>7. /\ OpenChoices' = OpenChoices
      /\ SavedWords # <<>> /\ SavedWords' = Abstract!Front(SavedWords)
      /\ Abstract!Last(SavedWords) = top
  BY <1>1, <1>3, <1>5, <1>6, PopWord DEF top
<1>8. /\ Abstract!Last(SavedWords).value \in 0..Len(log)
      /\ left' = Abstract!Last(SavedWords).tree
      /\ log' = SubSeq(log, 1, Abstract!Last(SavedWords).value)
  BY <1>1, <1>3, <1>4, <1>5, <1>7
<1> QED
  BY <1>1, <1>7, <1>8 DEF Backed, Abstract!Step, Abstract!Pop

\* TLink pops the tree it links to, and records the link.
LEMMA TLinkBacked ==
  ASSUME NEW S, WellShaped(S), TypeOK, NEW L, Held(S, L), TLink
  PROVE  Backed
<1> DEFINE n == L[Len(L)].size
           top == WordAt(stacks, unused_stack)
           e == LinkEntry(SymbolAt(Inst.id), left)
           T == LogType(newcount) \cup {e}
           kept == SubSeq(log, 1, n)
<1>1. /\ Inst.op = "TLink" /\ unused_stack' = unused_stack - 1 /\ pc' = Inst.next
      /\ log' = Append(BackLog(heap, stacks[unused_stack].value).log, e)
      /\ left' = stacks[unused_stack].tree
      /\ UNCHANGED <<pos, stacks, fail_stack>>
  BY DEF TLink, At, Advance
<1>2. /\ pc' \in DOMAIN S /\ S[pc] = Append(S[pc'], "tree") /\ S[pc'] \in Seq(Letters)
  BY <1>1, AtShape DEF PairsAt
<1>3. /\ Len(L) # 1 /\ L[Len(L)].kind = "tree"
      /\ n \in 0..Len(log) /\ L[Len(L) - 1].size <= n /\ L[Len(L) - 1].size \in Nat
      /\ stacks[unused_stack].value = n
  BY <1>2, TopTree
<1>4. top.value = n /\ top.tree = stacks[unused_stack].tree
  BY <1>3 DEF WordAt
<1>5. e.op = "link" /\ e.tree = left
  BY DEF LinkEntry, LinkOp
<1> HIDE DEF n, top, e, kept
<1>6. /\ log' = Append(kept, e) /\ kept \in Seq(LogType(newcount)) /\ Len(kept) = n
      /\ \A i \in 1..n : kept[i] = log[i]
  BY <1>1, <1>3, CutLog DEF kept
<1>7. kept \in Seq(T) /\ e \in T
  BY <1>6, SeqMonotonic
<1> HIDE DEF T
<1>8. /\ log' # <<>> /\ Abstract!Front(log') = kept /\ Abstract!Last(log') = e
  BY <1>6, <1>7, AppendIs
<1>9. Len(log') = n + 1 /\ \A i \in 1..n : log'[i] = log[i]
  BY <1>6, <1>7, AppendProperties
<1>10. Len(log') \in Nat /\ L[Len(L) - 1].size <= Len(log')
       /\ \A i \in 1..L[Len(L) - 1].size : i \in 1..n
  BY <1>3, <1>9
<1>11. /\ OpenChoices' = OpenChoices
       /\ SavedWords # <<>> /\ SavedWords' = Abstract!Front(SavedWords)
       /\ Abstract!Last(SavedWords) = top
  BY <1>1, <1>3, <1>9, <1>10, PopWord DEF top
<1>12. /\ Abstract!Last(SavedWords).value \in 0..Len(log)
       /\ left' = Abstract!Last(SavedWords).tree
       /\ Abstract!Front(log') = SubSeq(log, 1, Abstract!Last(SavedWords).value)
       /\ Abstract!Last(log').op = "link" /\ Abstract!Last(log').tree = left
  BY <1>1, <1>3, <1>4, <1>5, <1>8, <1>11 DEF kept
<1> QED
  BY <1>1, <1>8, <1>11, <1>12 DEF Backed, Abstract!Step, Abstract!Pop
-----------------------------------------------------------------------------
(* Records of trees.                                                       *)

\* TBegin, TFold, TTag and TReplace add to the log.
LEMMA RecordBacked ==
  ASSUME NEW S, WellShaped(S), TypeOK, NEW L, Held(S, L),
         TBegin \/ TFold \/ TTag \/ TReplace
  PROVE  Backed
<1>1. \/ \E e : log' = Append(log, e)
      \/ \E e : \E link : log' = log \o <<e, link>>
  BY DEF TBegin, TFold, TTag, TReplace
<1>2. UNCHANGED <<pos, left, stacks, unused_stack, fail_stack>>
  BY DEF TBegin, TFold, TTag, TReplace, frames
<1>3. log \in Seq(Range(log)) /\ Len(log) \in Nat
  BY HeldIs
<1>4. \E T : log \in Seq(T) /\ log' \in Seq(T)
             /\ Len(log) < Len(log') /\ \A i \in 1..Len(log) : log'[i] = log[i]
  <2>1. CASE \E e : log' = Append(log, e)
    <3> PICK e : log' = Append(log, e)
      BY <2>1
    <3> DEFINE T == Range(log) \cup {e}
    <3>1. log \in Seq(T) /\ e \in T
      BY <1>3, SeqMonotonic
    <3> HIDE DEF T
    <3>2. /\ log' \in Seq(T) /\ Len(log') = Len(log) + 1
          /\ \A i \in 1..Len(log) : log'[i] = log[i]
      BY <3>1, AppendProperties
    <3> QED
      BY <1>3, <3>1, <3>2
  <2>2. CASE \E e : \E link : log' = log \o <<e, link>>
    <3> PICK e : \E link : log' = log \o <<e, link>>
      BY <2>2
    <3> PICK link : log' = log \o <<e, link>>
      OBVIOUS
    <3> DEFINE T == Range(log) \cup {e, link}
    <3>1. log \in Seq(T) /\ e \in T /\ link \in T
      BY <1>3, SeqMonotonic
    <3> HIDE DEF T
    <3>2. <<e, link>> \in Seq(T) /\ Len(<<e, link>>) = 2
      BY <3>1
    <3>3. /\ log' \in Seq(T) /\ Len(log') = Len(log) + 2
          /\ \A i \in 1..Len(log) + 2 : log'[i] = IF i <= Len(log) THEN log[i]
                                                  ELSE <<e, link>>[i - Len(log)]
      BY <3>1, <3>2, ConcatProperties
    <3>4. \A i \in 1..Len(log) : log'[i] = log[i]
      BY <1>3, <3>3
    <3> QED
      BY <1>3, <3>1, <3>3, <3>4
  <2> QED
    BY <1>1, <2>1, <2>2
<1>5. Abstract!Record
  BY <1>2, <1>4, RecordEntries
<1> QED
  BY <1>2, <1>5 DEF Backed, Abstract!Step

\* TEnd cuts the log back to its TBegin and builds a tree not saved anywhere.
LEMMA EndBacked ==
  ASSUME NEW S, WellShaped(S), TypeOK, NEW L, Held(S, L), TEnd
  PROVE  Backed
<1>1. Abstract!Build
  BY BuildNode
<1>2. stacks' = stacks
  BY DEF TEnd, frames
<1> QED
  BY <1>1, <1>2 DEF Backed, Abstract!Step

\* The tree instructions.
LEMMA BuildBacked ==
  ASSUME NEW S, WellShaped(S), TypeOK, TypeOK', NEW L, Held(S, L), Build
  PROVE  Backed
BY PushBacked, TPopBacked, RecordBacked, EndBacked, TLinkBacked DEF Build

\* The control instructions.
LEMMA ControlBacked ==
  ASSUME NEW S, WellShaped(S), TypeOK, TypeOK', NEW L, Held(S, L), BottomKept,
         Control, status = "run", status' = "run"
  PROVE  Backed
<1>1. CASE Nop \/ Jump
  <2>1. UNCHANGED <<stacks, unused_stack, fail_stack, left, log>> /\ pos' = pos
    BY <1>1 DEF Nop, Jump, frames, tree
  <2>2. pos' >= pos
    BY <2>1 DEF TypeOK
  <2> QED
    BY <2>1, <2>2, MoveBacked
<1>2. CASE Fail
  <2>1. PopFail(heap)
    BY <1>2 DEF Fail
  <2> QED
    BY <2>1, FailBacked
<1>3. ~Exit /\ ~Unimplemented
  BY DEF Exit, Unimplemented
<1> QED
  BY <1>1, <1>2, <1>3, PushBacked, BackBacked, RetBacked, AltBacked, SuccBacked, StepBacked
  DEF Control

\* The scanning instructions, which advance or fail.
LEMMA ScanBacked ==
  ASSUME NEW S, WellShaped(S), TypeOK, NEW L, Held(S, L), BottomKept, Scan, status = "run"
  PROVE  Backed
<1>1. CASE PopFail(heap)
  BY <1>1, FailBacked
<1>2. Defined /\ Width(Inst) \in Nat /\ pos \in Int
  BY WidthIs DEF Scan, Consume, AnyByte, NotMatch, NAny, Optional, Repeat, Dispatch,
                 At, TypeOK
<1>3. CASE UNCHANGED <<frames, tree>> /\ pos' >= pos
  <2>1. UNCHANGED <<stacks, unused_stack, fail_stack, left, log>>
    BY <1>3 DEF frames, tree
  <2> QED
    BY <1>3, <2>1, MoveBacked
<1>4. CASE UNCHANGED <<frames, tree>> /\ pos' \in {pos, pos + 1, pos + Width(Inst)}
  <2>1. pos' >= pos
    BY <1>2, <1>4
  <2> QED
    BY <1>3, <1>4, <2>1
<1>5. CASE Repeat
  <2>1. PICK k \in 0..Len(input) : pos' = pos + k * Width(Inst)
    BY <1>5 DEF Repeat
  <2>2. k \in Nat
    OBVIOUS
  <2>3. k * Width(Inst) \in Nat
    BY <1>2, <2>2
  <2> DEFINE n == k * Width(Inst)
  <2> HIDE DEF n
  <2>4. n \in Nat /\ pos' = pos + n
    BY <2>1, <2>3 DEF n
  <2>5. pos' >= pos
    BY <1>2, <2>4
  <2>6. UNCHANGED <<frames, tree>>
    BY <1>5 DEF Repeat
  <2> QED
    BY <1>3, <2>5, <2>6
<1>6. CASE Consume
  BY <1>1, <1>4, <1>6 DEF Consume
<1>7. CASE AnyByte
  BY <1>1, <1>4, <1>7 DEF AnyByte
<1>8. CASE NotMatch \/ NAny
  BY <1>1, <1>4, <1>8 DEF NotMatch, NAny
<1>9. CASE Optional
  BY <1>4, <1>9 DEF Optional
<1>10. CASE Dispatch
  BY <1>4, <1>10 DEF Dispatch
<1> QED
  BY <1>5, <1>6, <1>7, <1>8, <1>9, <1>10 DEF Scan

\* The memo instructions, which advance by what was consumed or fail.
LEMMA MemoizeBacked ==
  ASSUME NEW S, WellShaped(S), TypeOK, NEW L, Held(S, L), BottomKept, Memoize, MemoForward,
         status = "run"
  PROVE  Backed
<1>1. CASE \E h : PopFail(h)
  BY <1>1, FailBacked
<1>2. CASE Memo
  BY <1>2, SuccBacked
<1>3. CASE MemoFail
  BY <1>1, <1>3 DEF MemoFail
<1> DEFINE entry == Entry(Inst.uid)
<1>4. CASE Lookup \/ TLookup
  <2>1. Defined /\ Inst.uid \in Nat /\ pos \in Int
    BY <1>4, InstTyped DEF Lookup, TLookup, At, InstOK, TypeOK
  <2>2. entry.consumed \in Int /\ entry.consumed >= 0
    BY <2>1, MemoSlotOK DEF Entry, EntryType, MemoForward
  <2> HIDE DEF entry
  <2>3. CASE UNCHANGED <<pos, frames, tree>> \/ (pos' = pos + entry.consumed /\ UNCHANGED <<frames, tree>>)
    <3>1. pos' >= pos /\ UNCHANGED <<stacks, unused_stack, fail_stack, left, log>>
      BY <2>1, <2>2, <2>3 DEF frames, tree
    <3> QED
      BY <3>1, MoveBacked
  <2>4. CASE pos' = pos + entry.consumed /\ UNCHANGED <<frames, log>>
    <3>1. pos' >= pos /\ UNCHANGED <<stacks, unused_stack, fail_stack, log>>
      BY <2>1, <2>2, <2>4 DEF frames
    <3>2. SavedWords' = SavedWords /\ OpenChoices' = OpenChoices
      BY <3>1 DEF SavedWords, OpenChoices, Innermost
    <3> QED
      BY <3>1, <3>2 DEF Backed, Abstract!Step, Abstract!Recall
  <2> QED
    BY <1>1, <1>4, <2>3, <2>4 DEF Lookup, TLookup, entry
<1> QED
  BY <1>2, <1>3, <1>4 DEF Memoize
-----------------------------------------------------------------------------
(* The refinement.                                                         *)

\* The run starts without a choice.
LEMMA StartIs ==
  ASSUME Init
  PROVE  Abstract!Init /\ BottomKept
<1>1. /\ left = 0 /\ log = <<>> /\ status = "run" /\ fail_stack = 0 /\ stacks = InitStacks
  BY DEF Init, NULL
<1>2. Innermost = 0
  BY <1>1, StackAssumption DEF Innermost
<1>3. OpenChoices = <<>>
  BY <1>2, ChoicesUpToIs DEF OpenChoices
<1>4. stacks[0].tree = NULL
  BY <1>1, StackAssumption DEF InitStacks, EmptySlot
<1> QED
  BY <1>1, <1>3, <1>4 DEF Abstract!Init, BottomKept

\* Every step is a step of the abstract machine, or leaves what it sees.
LEMMA StepIs ==
  ASSUME NEW S, WellShaped(S), TypeOK, TypeOK', Disciplined(S), BottomKept, [Next]_vars
  PROVE  [Abstract!Next]_(Abstract!vars) /\ BottomKept'
<1>1. CASE UNCHANGED vars
  <2>1. UNCHANGED <<pc, pos, left, stacks, unused_stack, fail_stack, log, status>>
    BY <1>1 DEF vars
  <2>2. SavedWords' = SavedWords /\ OpenChoices' = OpenChoices
    BY <2>1 DEF SavedWords, OpenChoices, Innermost
  <2> QED
    BY <2>1, <2>2 DEF Abstract!vars, BottomKept
<1>2. CASE Dispose
  BY <1>2 DEF Dispose, Abstract!Next, BottomKept
<1>3. CASE Exit \/ Unimplemented \/ Undefined
  <2>1. /\ status = "run" /\ status' # "run"
        /\ UNCHANGED <<pc, pos, left, stacks, unused_stack, fail_stack, log>>
    BY <1>3 DEF Exit, Unimplemented, Undefined, frames, tree
  <2>2. SavedWords' = SavedWords /\ OpenChoices' = OpenChoices
    BY <2>1 DEF SavedWords, OpenChoices, Innermost
  <2> QED
    BY <2>1, <2>2 DEF Abstract!Next, BottomKept
<1>4. CASE (Control \/ Scan \/ Build \/ Memoize) /\ ~Exit /\ ~Unimplemented
  <2>1. status = "run" /\ status' = "run" /\ Defined
    BY <1>4 DEF Control, Nop, Pos, Back, Jump, Call, Ret, Alt,
         Succ, Fail, Step, Scan, Consume, AnyByte, NotMatch, NAny, Optional, Repeat,
         Dispatch, Build, TPush, TPop, TBegin, TEnd, TTag, TReplace, TLink, TFold,
         Memoize, Lookup, TLookup, Memo, MemoFail, At
  <2>2. Inst.op # "Exit"
    BY <1>4 DEF Control, Nop, Pos, Back, Jump, Call, Ret, Alt,
         Succ, Fail, Step, Scan, Consume, AnyByte, NotMatch, NAny, Optional, Repeat,
         Dispatch, Build, TPush, TPop, TBegin, TEnd, TTag, TReplace, TLink, TFold,
         Memoize, Lookup, TLookup, Memo, MemoFail, At, RepeatOps
  <2>3. PICK L : Held(S, L)
    BY <2>1, <2>2, FailedExits DEF Disciplined
  <2>4. MemoForward
    BY DEF Disciplined
  <2>5. Backed
    BY <1>4, <2>1, <2>3, <2>4, ControlBacked, ScanBacked, BuildBacked, MemoizeBacked
  <2> QED
    BY <2>1, <2>5 DEF Backed, Abstract!Next, BottomKept
<1>5. CASE Done
  BY <1>1, <1>5 DEF Done
<1> QED
  BY <1>1, <1>2, <1>3, <1>4, <1>5 DEF Next, Control

\* Linked frames over slots that calls, saved trees and failures share, save
\* points of a log that is cut and regrown, stale values left in popped slots
\* (PUSH_FAIL .. STEP_FAIL, ParserContext_backLog): whatever the program, if its
\* pushes and pops pair up, a failure restores position, tree, log and saved
\* words as they were when its alternative was pushed or renewed.
THEOREM BacktracksWhole ==
  ASSUME NEW S, WellShaped(S)
  PROVE  Spec => Backtracks
<1>1. Init => Abstract!Init /\ BottomKept
  BY StartIs
<1>2. TypeOK /\ TypeOK' /\ Disciplined(S) /\ BottomKept /\ [Next]_vars
        => [Abstract!Next]_(Abstract!vars) /\ BottomKept'
  BY StepIs
<1>3. Spec => []TypeOK /\ []Disciplined(S)
  BY TypeCorrect, StackDiscipline
<1> QED
  BY <1>1, <1>2, <1>3, PTL DEF Spec, Backtracks, Abstract!Spec
=============================================================================
