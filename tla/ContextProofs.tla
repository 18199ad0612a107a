---------------------------- MODULE ContextProofs ----------------------------
(***************************************************************************)
(* Proofs about ContextText and ContextCalls.  On every text, with all     *)
(* words and ranges, the position stays in the text, the two forms of      *)
(* match agree with the text, and so do the two forms of search where a    *)
(* block takes the whole range; every reference to a tree is counted,      *)
(* once; and a repetition counter says yes as often as the number it was   *)
(* given.                                                                  *)
(*                                                                         *)
(* A loop over the bytes is a recursive function.  Each proof exhibits a   *)
(* solution of its equation, the first index at which the loop must stop,  *)
(* and shows by induction from the end that there is no other.             *)
(***************************************************************************)
EXTENDS ContextCalls, TreeHeapProofs

-----------------------------------------------------------------------------
(* The first index of a set.                                               *)

\* j is the least element of S from i on.
IsFirst(S, i, j) == j \in S /\ i <= j /\ \A k \in S : i <= k => j <= k

\* A set that holds its upper bound n has a first element from every i <= n.
LEMMA FirstExists ==
  ASSUME NEW n \in Nat, NEW S, S \subseteq 0..n, n \in S, NEW i \in 0..n
  PROVE  \E j \in i..n : IsFirst(S, i, j)
<1> DEFINE T == {k \in S : i <= k}
<1>1. T \subseteq Nat
  <2>1. 0..n \subseteq Nat
    OBVIOUS
  <2> QED
    BY <2>1
<1>0. n \in T
  OBVIOUS
<1>2. PICK j \in T : \A k \in T : j <= k
  <2> HIDE DEF T
  <2> QED
    BY <1>0, <1>1, LeastNat
<1>3. j \in i..n /\ IsFirst(S, i, j)
  BY <1>2 DEF IsFirst
<1> QED
  BY <1>3

\* There is only one.
LEMMA FirstUnique ==
  ASSUME NEW n \in Nat, NEW S, S \subseteq 0..n,
         NEW i, NEW j, NEW k, IsFirst(S, i, j), IsFirst(S, i, k)
  PROVE  j = k
BY DEF IsFirst

\* What comes first after an index outside the set comes first from there.
LEMMA FirstAfter ==
  ASSUME NEW n \in Nat, NEW S, S \subseteq 0..n
  PROVE  \A i \in Nat, j \in S : i \notin S /\ IsFirst(S, i + 1, j) => IsFirst(S, i, j)
<1>1. \A k \in S : k \in Nat
  OBVIOUS
<1> QED
  BY <1>1 DEF IsFirst

-----------------------------------------------------------------------------
(* The loop that goes on by one.                                           *)

\* f is a loop over 0..n that stops in S.
Walks(f, n, S) == f = [i \in 0..n |-> IF i \in S THEN i ELSE f[i + 1]]

\* Such a loop exists.
LEMMA WalkExists ==
  ASSUME NEW n \in Nat, NEW S, S \subseteq 0..n, n \in S
  PROVE  \E f : Walks(f, n, S)
<1> DEFINE g == [i \in 0..n |-> CHOOSE j \in i..n : IsFirst(S, i, j)]
           next(i) == IF i \in S THEN i ELSE g[i + 1]
<1>1. ASSUME NEW i \in 0..n
      PROVE  IsFirst(S, i, g[i])
  BY FirstExists
<1>2. g = [i \in 0..n |-> g[i]]
  OBVIOUS
<1> HIDE DEF g
<1>3. ASSUME NEW i \in 0..n
      PROVE  g[i] = next(i)
  <2>1. CASE i \in S
    <3>1. IsFirst(S, i, i)
      BY <2>1 DEF IsFirst
    <3> QED
      BY <1>1, <2>1, <3>1, FirstUnique
  <2>2. CASE i \notin S
    <3>1. i + 1 \in 0..n
      BY <2>2
    <3>2. IsFirst(S, i + 1, g[i + 1])
      BY <1>1, <3>1
    <3>3. IsFirst(S, i, g[i + 1])
      <4>1. g[i + 1] \in S /\ i \in Nat
        BY <3>2 DEF IsFirst
      <4>2. \A k \in Nat, j \in S : k \notin S /\ IsFirst(S, k + 1, j) => IsFirst(S, k, j)
        BY FirstAfter
      <4> QED
        BY <2>2, <3>2, <4>1, <4>2
    <3> QED
      BY <1>1, <2>2, <3>3, FirstUnique
  <2> QED
    BY <2>1, <2>2
<1>4. Walks(g, n, S)
  <2>1. g = [i \in 0..n |-> next(i)]
    <3> HIDE DEF next
    <3> QED
      BY <1>2, <1>3
  <2> QED
    BY <2>1 DEF Walks
<1> QED
  BY <1>4

\* It stops at the first index of S.
LEMMA WalkIs ==
  ASSUME NEW n \in Nat, NEW S, S \subseteq 0..n, n \in S, NEW f, Walks(f, n, S)
  PROVE  \A i \in 0..n : IsFirst(S, i, f[i])
<1> DEFINE T == {d \in Nat : \A i \in 0..n : n - i <= d => IsFirst(S, i, f[i])}
<1>1. \A i \in 0..n : f[i] = IF i \in S THEN i ELSE f[i + 1]
  BY DEF Walks
<1>2. \A i \in S : IsFirst(S, i, f[i])
  BY <1>1 DEF IsFirst
<1>3. 0 \in T
  BY <1>2
<1>4. ASSUME NEW d \in Nat, d \in T
      PROVE  d + 1 \in T
  <2> SUFFICES ASSUME NEW i \in 0..n, n - i <= d + 1, i \notin S
               PROVE  IsFirst(S, i, f[i])
    BY <1>2
  <2>1. i + 1 \in 0..n /\ n - (i + 1) <= d
    OBVIOUS
  <2>2. IsFirst(S, i + 1, f[i + 1])
    BY <1>4, <2>1
  <2>3. f[i] = f[i + 1]
    BY <1>1
  <2> QED
    <3>1. f[i + 1] \in S /\ i \in Nat
      BY <2>2 DEF IsFirst
    <3>2. \A k \in Nat, j \in S : k \notin S /\ IsFirst(S, k + 1, j) => IsFirst(S, k, j)
      BY FirstAfter
    <3> QED
      BY <2>2, <2>3, <3>1, <3>2
<1> HIDE DEF T
<1>5. Nat \subseteq T
  BY <1>3, <1>4, NatSetInduction
<1>6. n \in T
  BY <1>5
<1> QED
  BY <1>6 DEF T

-----------------------------------------------------------------------------
(* Matching.                                                               *)

\* The indices at which the comparison with text stops.
Differ(text) ==
  {i \in 0..Len(text) : i = Len(text) \/ text[i + 1] # ByteAt(pos + i)}

\* Agreed is the first of them.
LEMMA AgreedIs ==
  ASSUME NEW text, text \in Seq(Char)
  PROVE  IsFirst(Differ(text), 0, Agreed(text))
<1> DEFINE n == Len(text)
           S == Differ(text)
           Stop(i) == i = Len(text) \/ text[i + 1] # ByteAt(pos + i)
           walk(g) == [i \in 0..n |-> IF Stop(i) THEN i ELSE g[i + 1]]
           f == CHOOSE g : g = walk(g)
<1>1. n \in Nat /\ S \subseteq 0..n /\ n \in S
  BY DEF Differ
<1>2. Agreed(text) = f[0]
  BY DEF Agreed
<1>3. \A i \in 0..n : Stop(i) <=> i \in S
  BY DEF Differ
<1> HIDE DEF Stop, n, S
<1>4. ASSUME NEW g
      PROVE  Walks(g, n, S) <=> g = walk(g)
  BY <1>3 DEF Walks
<1>5. \E g : g = walk(g)
  BY <1>1, <1>4, WalkExists
<1> HIDE DEF walk
<1>6. f = walk(f)
  BY <1>5
<1> HIDE DEF f
<1>7. \A i \in 0..n : IsFirst(S, i, f[i])
  BY <1>1, <1>4, <1>6, WalkIs
<1>8. IsFirst(S, 0, f[0])
  BY <1>1, <1>7
<1> QED
  BY <1>2, <1>8 DEF S

\* The word stands in the text at the position.
Stands(text) ==
  /\ pos + Len(text) <= Len(Text)
  /\ \A i \in 1..Len(text) : text[i] = Text[pos + i]

\* The position is in the text or at its end.
Within == pos \in 0..Len(Text)

\* The bytes of the text are its own, the others are no byte of a word.
LEMMA ByteIs ==
  ASSUME NEW p \in Nat
  PROVE  /\ p < Len(Text) => ByteAt(p) = Text[p + 1]
         /\ p >= Len(Text) => ByteAt(p) \notin Char
         /\ p <= Len(Text) => ByteAt(p) # Beyond
<1>1. Len(Text) \in Nat
  BY TextAssumption
<1>2. ASSUME p < Len(Text)
      PROVE  ByteAt(p) = Text[p + 1] /\ ByteAt(p) # Beyond
  <2>1. p + 1 \in 1..Len(Text)
    BY <1>1, <1>2
  <2>2. Text[p + 1] \in Char
    BY <2>1, TextAssumption
  <2>3. ByteAt(p) = Text[p + 1]
    BY <1>2 DEF ByteAt
  <2>4. Beyond \notin Char
    BY DEF Beyond, Char
  <2> QED
    BY <2>2, <2>3, <2>4
<1>3. p = Len(Text) => ByteAt(p) = 0
  BY <1>1 DEF ByteAt
<1>4. p > Len(Text) => ByteAt(p) = Beyond
  BY <1>1 DEF ByteAt
<1>5. 0 \notin Char /\ Beyond \notin Char /\ Beyond # 0
  BY DEF Beyond, Char
<1> QED
  BY <1>1, <1>2, <1>3, <1>4, <1>5

\* A comparison stops in the text, and goes through only where the word stands.
LEMMA AgreedFits ==
  ASSUME Within, NEW text, text \in Seq(Char)
  PROVE  /\ Agreed(text) \in 0..Len(text)
         /\ pos + Agreed(text) <= Len(Text)
         /\ Agreed(text) = Len(text) <=> Stands(text)
<1> DEFINE n == Len(text)
           a == Agreed(text)
<1>1. IsFirst(Differ(text), 0, a)
  BY AgreedIs
<1>2. n \in Nat /\ Len(Text) \in Nat /\ pos \in Nat /\ pos <= Len(Text)
  BY TextAssumption DEF Within
<1>3. \A i \in 1..n : text[i] \in Char
  OBVIOUS
<1>4. a \in 0..n /\ (a = n \/ text[a + 1] # ByteAt(pos + a))
  BY <1>1 DEF IsFirst, Differ
<1>5. ASSUME NEW i \in 0..n, i < a
      PROVE  i # n /\ text[i + 1] = ByteAt(pos + i)
  <2>1. i \notin Differ(text)
    BY <1>1, <1>4, <1>5 DEF IsFirst
  <2> QED
    BY <2>1 DEF Differ
<1> HIDE DEF a, n
<1>6. ASSUME NEW i \in 0..n, i < a
      PROVE  pos + i < Len(Text) /\ text[i + 1] = Text[pos + i + 1]
  <2>1. i \in Nat /\ pos + i \in Nat /\ i + 1 \in 1..n
    BY <1>2, <1>5, <1>6
  <2>2. ByteAt(pos + i) \in Char
    BY <1>3, <1>5, <1>6, <2>1
  <2> QED
    BY <1>2, <1>5, <1>6, <2>1, <2>2, ByteIs
<1>7. pos + a <= Len(Text)
  <2>1. CASE a = 0
    BY <1>2, <2>1
  <2>2. CASE a # 0
    <3>1. a - 1 \in 0..n /\ a - 1 < a
      BY <1>2, <1>4, <2>2
    <3>2. pos + (a - 1) < Len(Text)
      BY <1>6, <3>1
    <3> QED
      BY <1>2, <1>4, <3>2
  <2> QED
    BY <2>1, <2>2
<1>8. ASSUME a = n
      PROVE  Stands(text)
  <2>1. ASSUME NEW i \in 1..n
        PROVE  text[i] = Text[pos + i]
    <3>1. i - 1 \in 0..n /\ i - 1 < a
      BY <1>2, <1>8
    <3>2. text[(i - 1) + 1] = Text[pos + (i - 1) + 1]
      BY <1>6, <3>1
    <3>3. (i - 1) + 1 = i /\ pos + (i - 1) + 1 = pos + i
      BY <1>2
    <3> QED
      BY <3>2, <3>3
  <2> QED
    BY <1>7, <1>8, <2>1 DEF Stands, n
<1>9. ASSUME Stands(text), a # n
      PROVE  FALSE
  <2>1. a + 1 \in 1..n /\ pos + a \in Nat /\ pos + a < Len(Text)
    BY <1>2, <1>4, <1>9 DEF Stands, n
  <2>2. text[a + 1] = Text[pos + (a + 1)]
    BY <1>9, <2>1 DEF Stands, n
  <2>3. ByteAt(pos + a) = Text[pos + a + 1]
    BY <2>1, ByteIs
  <2>4. pos + (a + 1) = pos + a + 1
    BY <1>2, <1>4
  <2> QED
    BY <1>4, <1>9, <2>2, <2>3, <2>4
<1> QED
  BY <1>4, <1>7, <1>8, <1>9 DEF a, n

\* The word stands there when it is a prefix of what follows.
LEMMA StandsIs ==
  ASSUME Within, NEW text, text \in Seq(Char)
  PROVE  Stands(text) <=> IsPrefix(text, SubSeq(Text, pos + 1, Len(Text)))
<1> DEFINE n == Len(text)
           t == Len(Text)
           rest == SubSeq(Text, pos + 1, t)
<1>1. n \in Nat /\ t \in Nat /\ pos \in Nat /\ pos <= t
  BY TextAssumption DEF Within
<1>2. rest \in Seq(Char) /\ Len(rest) = t - pos
  BY <1>1, TextAssumption
<1>3. \A i \in 1..t-pos : rest[i] = Text[pos + i]
  BY <1>1, TextAssumption
<1> HIDE DEF rest
<1>4. ASSUME n <= t - pos
      PROVE  /\ SubSeq(rest, 1, n) \in Seq(Char)
             /\ Len(SubSeq(rest, 1, n)) = n
             /\ \A i \in 1..n : SubSeq(rest, 1, n)[i] = rest[i]
  BY <1>1, <1>2, <1>4
<1>5. SubSeq(text, 1, n) = text
  OBVIOUS
<1>6. ASSUME n <= t - pos
      PROVE  text = SubSeq(rest, 1, n) <=> \A i \in 1..n : text[i] = Text[pos + i]
  <2>1. \A i \in 1..n : SubSeq(rest, 1, n)[i] = Text[pos + i]
    BY <1>1, <1>3, <1>4, <1>6
  <2>2. text = SubSeq(rest, 1, n) <=> \A i \in 1..n : text[i] = SubSeq(rest, 1, n)[i]
    BY <1>4, <1>6, SeqEqual
  <2> QED
    BY <2>1, <2>2
<1>7. IsPrefix(text, rest) <=> n <= t - pos /\ text = SubSeq(rest, 1, n)
  BY <1>2, <1>5 DEF IsPrefix
<1>8. Stands(text) <=> n <= t - pos /\ \A i \in 1..n : text[i] = Text[pos + i]
  BY <1>1 DEF Stands
<1> QED
  BY <1>6, <1>7, <1>8 DEF rest

\* The functions of matching on a position in the text.
LEMMA MatchIs ==
  ASSUME Within
  PROVE  MatchesAgree
<1> SUFFICES ASSUME NEW w \in Words
             PROVE  /\ Matches(w) = IsPrefix(w, SubSeq(Text, pos + 1, Len(Text)))
                    /\ MatchesN(w) = Matches(w)
                    /\ ~MatchesN(w) => ByteAt(pos + Agreed(w)) # Beyond
  BY DEF MatchesAgree
<1>1. w \in Seq(Char)
  BY TextAssumption
<1>2. Stands(w) <=> IsPrefix(w, SubSeq(Text, pos + 1, Len(Text)))
  BY <1>1, StandsIs
<1>3. Agreed(w) \in 0..Len(w) /\ pos + Agreed(w) <= Len(Text)
  BY <1>1, AgreedFits
<1>4. Agreed(w) = Len(w) <=> Stands(w)
  BY <1>1, AgreedFits
<1>5. Matches(w) <=> Stands(w)
  BY <1>4 DEF Matches, Stands
<1>6. MatchesN(w) <=> Stands(w)
  BY <1>4 DEF MatchesN
<1>7. ByteAt(pos + Agreed(w)) # Beyond
  <2>1. pos + Agreed(w) \in Nat
    BY <1>1, <1>3 DEF Within
  <2> QED
    BY <1>3, <2>1, ByteIs
<1>8. /\ Matches(w) \in BOOLEAN
      /\ MatchesN(w) \in BOOLEAN
      /\ IsPrefix(w, SubSeq(Text, pos + 1, Len(Text))) \in BOOLEAN
  BY DEF Matches, MatchesN, IsPrefix
<1> QED
  BY <1>2, <1>5, <1>6, <1>7, <1>8

-----------------------------------------------------------------------------
(* Searching.                                                              *)

\* The indices from p at which a search stops: a byte in range, or the end.
Hits(p, size, range) ==
  {i \in 0..size : i = size \/ InRange(range, ByteAt(p + i))}

\* The search byte by byte finds the first.
LEMMA FindcharIs ==
  ASSUME NEW p \in Nat, NEW size \in Nat, NEW range
  PROVE  \E j \in 0..size : /\ findchar(p, size, range) = p + j
                            /\ IsFirst(Hits(p, size, range), 0, j)
<1> DEFINE S == Hits(p, size, range)
           Stop(i) == i = size \/ InRange(range, ByteAt(p + i))
           walk(g) == [i \in 0..size |-> IF Stop(i) THEN i ELSE g[i + 1]]
           f == CHOOSE g : g = walk(g)
<1>1. S \subseteq 0..size /\ size \in S
  BY DEF Hits
<1>2. findchar(p, size, range) = p + f[0]
  BY DEF findchar
<1>3. \A i \in 0..size : Stop(i) <=> i \in S
  BY DEF Hits
<1> HIDE DEF Stop, S
<1>4. ASSUME NEW g
      PROVE  Walks(g, size, S) <=> g = walk(g)
  BY <1>3 DEF Walks
<1>5. \E g : g = walk(g)
  BY <1>1, <1>4, WalkExists
<1> HIDE DEF walk
<1>6. f = walk(f)
  BY <1>5
<1> HIDE DEF f
<1>7. \A i \in 0..size : IsFirst(S, i, f[i])
  BY <1>1, <1>4, <1>6, WalkIs
<1>8. IsFirst(S, 0, f[0])
  BY <1>7
<1>9. f[0] \in 0..size
  BY <1>1, <1>8 DEF IsFirst
<1> QED
  BY <1>2, <1>8, <1>9 DEF S

\* A set of numbers has the least element that the comparison of a block returns.
LEMMA LeastIs ==
  ASSUME NEW H, H \subseteq Nat, H # {}
  PROVE  LET k == CHOOSE x \in H : \A y \in H : x <= y
         IN  k \in H /\ \A y \in H : k <= y
BY LeastNat

\* A search that goes on by whole blocks finds the first byte in what the register
\* takes of the range.  hit(i) is such a byte, Span(i) the bytes of the block at i,
\* Found(i) its hits.
LEMMA FindcharSSEIs ==
  ASSUME NEW p \in Nat, NEW size \in Nat, NEW range
  PROVE  \E j \in 0..size : /\ findcharSSE(p, size, range) = p + j
                            /\ IsFirst(Hits(p, size, Loaded(range)), 0, j)
<1> DEFINE r == Loaded(range)
           S == Hits(p, size, r)
           hit(i) == InRange(r, ByteAt(p + i))
           Span(i) == IF size - i < Block THEN size - i ELSE Block
           Found(i) == {k \in 0..Span(i)-1 : InRange(r, ByteAt(p + i + k))}
           least(i) == CHOOSE k \in Found(i) : \A j \in Found(i) : k <= j
           Step(g, i) == IF Found(i) # {} THEN i + least(i)
                         ELSE IF Span(i) = Block THEN g[i + Block] ELSE size
           walk(g) == [i \in 0..size |-> Step(g, i)]
           f == CHOOSE g : g = walk(g)
<1>1. S \subseteq 0..size /\ size \in S
  BY DEF Hits
<1>2. Block \in Nat /\ Block > 0
  BY TextAssumption
<1>3. findcharSSE(p, size, range) = p + f[0]
  BY DEF findcharSSE
<1>4. \A i \in 0..size : i \in S <=> i = size \/ hit(i)
  BY DEF Hits
<1>5. \A i \in 0..size : Span(i) \in Nat /\ i + Span(i) <= size /\ Span(i) <= Block
  BY <1>2
<1>6. ASSUME NEW i \in 0..size
      PROVE  /\ Found(i) \subseteq 0..Span(i)-1
             /\ \A k \in 0..Span(i)-1 : k \in Found(i) <=> hit(i + k)
  <2>1. \A k \in 0..Span(i)-1 : p + i + k = p + (i + k)
    BY <1>5
  <2> HIDE DEF Span
  <2> QED
    BY <2>1
<1>7. \A i \in 0..size : Span(i) # Block => i + Span(i) = size
  BY <1>2
<1>8. ASSUME NEW i \in 0..size, Found(i) # {}
      PROVE  least(i) \in Found(i) /\ \A k \in Found(i) : least(i) <= k
  <2>1. Found(i) \subseteq Nat
    BY <1>5, <1>6
  <2> HIDE DEF Found
  <2> QED
    BY <1>8, <2>1, LeastIs
<1> HIDE DEF r, S, hit, Span, Found, least
<1>9. ASSUME NEW i \in 0..size, NEW m \in S, i <= m
      PROVE  m - i \in Found(i) \/ i + Span(i) <= m
  <2> SUFFICES ASSUME m < i + Span(i) PROVE m - i \in Found(i)
    BY <1>1, <1>5
  <2>1. m \in 0..size /\ m # size
    BY <1>1, <1>5
  <2>2. hit(m)
    BY <1>4, <2>1
  <2>3. m - i \in 0..Span(i)-1 /\ i + (m - i) = m
    BY <1>5, <1>9, <2>1
  <2> QED
    BY <1>6, <2>2, <2>3
<1>10. ASSUME NEW i \in 0..size, Found(i) # {}
       PROVE  IsFirst(S, i, i + least(i))
  <2>1. least(i) \in 0..Span(i)-1 /\ hit(i + least(i))
    BY <1>6, <1>8, <1>10
  <2>2. i + least(i) \in 0..size /\ i <= i + least(i) /\ least(i) < Span(i)
    BY <1>5, <2>1
  <2>3. i + least(i) \in S
    BY <1>4, <2>1, <2>2
  <2>4. ASSUME NEW m \in S, i <= m
        PROVE  i + least(i) <= m
    <3>1. m \in 0..size
      BY <1>1
    <3>2. CASE m - i \in Found(i)
      BY <1>8, <1>10, <2>1, <3>1, <3>2
    <3>3. CASE i + Span(i) <= m
      BY <1>5, <2>1, <3>1, <3>3
    <3> QED
      BY <1>9, <2>4, <3>2, <3>3
  <2> QED
    BY <2>2, <2>3, <2>4 DEF IsFirst
<1>11. ASSUME NEW i \in 0..size, Found(i) = {}
       PROVE  \A m \in S : i <= m => i + Span(i) <= m
  BY <1>9, <1>11
<1>12. ASSUME NEW i \in 0..size, Found(i) = {}, Span(i) = Block
       PROVE  /\ i + Block \in 0..size
              /\ \A j \in Nat : IsFirst(S, i + Block, j) => IsFirst(S, i, j)
  <2>1. i + Block \in 0..size /\ i <= i + Block
    BY <1>2, <1>5, <1>12
  <2> QED
    BY <1>11, <1>12, <2>1 DEF IsFirst
<1>13. ASSUME NEW i \in 0..size, Found(i) = {}, Span(i) # Block
       PROVE  IsFirst(S, i, size)
  <2>1. i + Span(i) = size
    BY <1>7, <1>13
  <2> QED
    BY <1>1, <1>11, <1>13, <2>1 DEF IsFirst
<1>14. \E g : g = walk(g)
  <2> DEFINE G == [i \in 0..size |-> CHOOSE j \in i..size : IsFirst(S, i, j)]
  <2>1. ASSUME NEW i \in 0..size
        PROVE  G[i] \in Nat /\ IsFirst(S, i, G[i])
    <3>1. \E j \in i..size : IsFirst(S, i, j)
      BY <1>1, FirstExists
    <3>2. G[i] \in i..size /\ IsFirst(S, i, G[i])
      BY <3>1
    <3> QED
      BY <3>2
  <2>2. G = [i \in 0..size |-> G[i]]
    OBVIOUS
  <2> HIDE DEF G
  <2>3. ASSUME NEW i \in 0..size
        PROVE  G[i] = Step(G, i)
    <3>1. IsFirst(S, i, Step(G, i))
      BY <1>10, <1>12, <1>13, <2>1
    <3> HIDE DEF Step
    <3> QED
      BY <1>1, <2>1, <3>1, FirstUnique
  <2> HIDE DEF Step
  <2>4. G = walk(G)
    BY <2>2, <2>3
  <2> QED
    BY <2>4
<1> HIDE DEF Step
<1>15. f = walk(f)
  <2> HIDE DEF walk
  <2> QED
    BY <1>14
<1> HIDE DEF f
<1>16. \A i \in 0..size : f[i] = Step(f, i)
  BY <1>15
<1> DEFINE T == {d \in Nat : \A i \in 0..size : size - i <= d => IsFirst(S, i, f[i])}
<1>17. ASSUME NEW i \in 0..size,
              Found(i) = {} /\ Span(i) = Block => IsFirst(S, i + Block, f[i + Block])
       PROVE  IsFirst(S, i, f[i])
  <2>1. CASE Found(i) # {}
    BY <1>10, <1>16, <2>1 DEF Step
  <2>2. CASE Found(i) = {} /\ Span(i) = Block
    <3>1. f[i + Block] \in Nat
      <4>1. f[i + Block] \in S
        BY <1>17, <2>2 DEF IsFirst
      <4>2. f[i + Block] \in 0..size
        BY <1>1, <4>1
      <4> QED
        BY <4>2
    <3>2. f[i] = f[i + Block]
      BY <1>16, <2>2 DEF Step
    <3> QED
      BY <1>12, <1>17, <2>2, <3>1, <3>2
  <2>3. CASE Found(i) = {} /\ Span(i) # Block
    BY <1>13, <1>16, <2>3 DEF Step
  <2> QED
    BY <2>1, <2>2, <2>3
<1>18. 0 \in T
  <2> SUFFICES ASSUME NEW i \in 0..size, size - i <= 0 PROVE IsFirst(S, i, f[i])
    OBVIOUS
  <2>1. ~(Found(i) = {} /\ Span(i) = Block)
    BY <1>2, <1>12
  <2> QED
    BY <1>17, <2>1
<1>19. ASSUME NEW d \in Nat, d \in T
       PROVE  d + 1 \in T
  <2> SUFFICES ASSUME NEW i \in 0..size, size - i <= d + 1,
                      Found(i) = {}, Span(i) = Block
               PROVE  IsFirst(S, i + Block, f[i + Block])
    BY <1>17
  <2>1. i + Block \in 0..size
    BY <1>12
  <2>2. size - (i + Block) <= d
    BY <1>2
  <2> QED
    BY <1>19, <2>1, <2>2
<1> HIDE DEF T
<1>20. Nat \subseteq T
  BY <1>18, <1>19, NatSetInduction
<1>21. size \in T
  BY <1>20
<1>22. IsFirst(S, 0, f[0])
  BY <1>21 DEF T
<1>23. f[0] \in 0..size
  BY <1>1, <1>22 DEF IsFirst
<1> QED
  BY <1>3, <1>22, <1>23 DEF S, r

\* The register takes some of the pairs, and all when they fit it.
LEMMA LoadedIs ==
  ASSUME NEW range \in Ranges
  PROVE  /\ \A c : InRange(Loaded(range), c) => InRange(range, c)
         /\ Len(range) <= Block => Loaded(range) = range
<1>1. /\ range \in Seq(0..256-1) /\ Len(range) \in Nat /\ Block \in Nat
      /\ Len(range) % 2 = 0 /\ Block % 2 = 0
  BY TextAssumption
<1>2. CASE Len(range) <= Block
  BY <1>2 DEF Loaded
<1>3. CASE ~(Len(range) <= Block)
  <2> DEFINE r == SubSeq(range, 1, Block)
  <2>1. Len(r) = Block /\ \A j \in 1..Block : r[j] = range[j]
    <3>1. \A j \in 1..Block : j \in 1..Len(range)
      BY <1>1, <1>3
    <3> QED
      BY <1>1, <3>1, SubSeqProperties
  <2> HIDE DEF r
  <2>2. ASSUME NEW j \in 1..Len(r) \div 2
        PROVE  /\ j \in 1..Len(range) \div 2
               /\ r[2*j - 1] = range[2*j - 1] /\ r[2*j] = range[2*j]
    <3>1. 2*j - 1 \in 1..Block /\ 2*j \in 1..Block
      BY <1>1, <2>1
    <3>2. j \in 1..Len(range) \div 2
      BY <1>1, <1>3, <2>1
    <3> QED
      BY <2>1, <3>1, <3>2
  <2>3. \A c : InRange(r, c) => InRange(range, c)
    BY <2>2 DEF InRange
  <2> QED
    BY <1>3, <2>3 DEF Loaded, r
<1> QED
  BY <1>2, <1>3

\* The functions of searching on a position in the text.
LEMMA SearchIs ==
  ASSUME Within
  PROVE  SearchesAgree
<1> SUFFICES ASSUME NEW r \in Ranges
             PROVE  LET p == findchar(pos, Len(Text) - pos, r)
                        q == findcharSSE(pos, Len(Text) - pos, r)
                    IN  /\ p \in pos..Len(Text) /\ q \in p..Len(Text)
                        /\ p < Len(Text) => InRange(r, Text[p + 1])
                        /\ q < Len(Text) => InRange(r, Text[q + 1])
                        /\ \A k \in pos..p-1 : ~InRange(r, Text[k + 1])
                        /\ Len(r) <= Block => q = p
  BY DEF SearchesAgree
<1> DEFINE size == Len(Text) - pos
           S == Hits(pos, size, r)
           L == Hits(pos, size, Loaded(r))
<1>1. pos \in Nat /\ Len(Text) \in Nat /\ size \in Nat
  BY TextAssumption DEF Within
<1>2. PICK j \in 0..size : findchar(pos, size, r) = pos + j /\ IsFirst(S, 0, j)
  BY <1>1, FindcharIs
<1>3. PICK k \in 0..size : findcharSSE(pos, size, r) = pos + k /\ IsFirst(L, 0, k)
  BY <1>1, FindcharSSEIs
<1>4. L \subseteq S /\ S \subseteq 0..size
  BY LoadedIs DEF Hits
<1>5. \A i \in 0..size : i \in S <=> i = size \/ InRange(r, ByteAt(pos + i))
  BY DEF Hits
<1>6. Len(r) <= Block => L = S
  BY LoadedIs
<1> HIDE DEF S, L
<1>7. k \in S /\ j <= k
  BY <1>2, <1>3, <1>4 DEF IsFirst
<1>8. Len(r) <= Block => k = j
  BY <1>1, <1>2, <1>3, <1>4, <1>6, FirstUnique
<1>9. ASSUME NEW i \in 0..size, i < size
      PROVE  i \in S <=> InRange(r, Text[pos + i + 1])
  <2>1. pos + i \in Nat /\ pos + i < Len(Text)
    BY <1>1, <1>9
  <2>2. ByteAt(pos + i) = Text[pos + i + 1]
    BY <2>1, ByteIs
  <2> QED
    BY <1>5, <1>9, <2>2
<1>10. ASSUME NEW i \in 0..size, i \in S, pos + i < Len(Text)
       PROVE  InRange(r, Text[pos + i + 1])
  BY <1>1, <1>9, <1>10
<1>11. ASSUME NEW q \in pos..(pos + j)-1
       PROVE  ~InRange(r, Text[q + 1])
  <2>1. q - pos \in 0..size /\ q - pos < j /\ q - pos < size /\ pos + (q - pos) + 1 = q + 1
    BY <1>1, <1>2
  <2>2. q - pos \notin S
    BY <1>2, <2>1 DEF IsFirst
  <2> QED
    BY <1>9, <2>1, <2>2
<1>12. pos + j \in pos..Len(Text) /\ pos + k \in pos + j..Len(Text)
  BY <1>1, <1>2, <1>3, <1>7
<1>13. j \in S
  BY <1>2 DEF IsFirst
<1> QED
  BY <1>2, <1>3, <1>7, <1>8, <1>10, <1>11, <1>12, <1>13

-----------------------------------------------------------------------------
(* The position.                                                           *)

\* A step of the position leaves it in the text.  A word matched without a test
\* of its length does because no byte of it is the text's 0.
LEMMA MoveStays ==
  ASSUME Within, Move
  PROVE  Within'
<1>1. pos \in Nat /\ Len(Text) \in Nat /\ pos <= Len(Text)
  BY TextAssumption DEF Within
<1>2. CASE read
  BY <1>1, <1>2 DEF read, eof, Within
<1>3. CASE \E ppos \in 0..Len(Text) : back(ppos)
  BY <1>3 DEF back, Within
<1>4. ASSUME NEW text \in Words, match(text) \/ matchN(text)
      PROVE  Within'
  <2>1. text \in Seq(Char) /\ Len(text) \in Nat
    BY TextAssumption
  <2>2. MatchesN(text) => pos + Len(text) <= Len(Text)
    BY <2>1, AgreedFits DEF MatchesN
  <2>3. Matches(text) => pos + Len(text) <= Len(Text)
    BY DEF Matches
  <2>4. pos' = pos \/ (pos' = pos + Len(text) /\ pos + Len(text) <= Len(Text))
    BY <1>4, <2>2, <2>3 DEF match, matchN
  <2> QED
    BY <1>1, <2>1, <2>4 DEF Within
<1>5. ASSUME NEW range \in Ranges, skipRange(range) \/ checkOneMoreRange(range)
      PROVE  Within'
  <2>1. findchar(pos, Len(Text) - pos, range) \in pos..Len(Text)
    BY SearchIs DEF SearchesAgree
  <2>2. pos' = pos \/ pos' = findchar(pos, Len(Text) - pos, range)
    BY <1>5 DEF skipRange, checkOneMoreRange
  <2> QED
    BY <1>1, <2>1, <2>2 DEF Within
<1> QED
  BY <1>2, <1>3, <1>4, <1>5 DEF Move
-----------------------------------------------------------------------------
(* The tree at a choice.                                                   *)

\* The nodes made, and what a parser holds of node n in the slots, stale ones
\* included, and as left.
Nodes   == Len(heap.nodes)
Refs(n) == Times(stacks, n) + One(left, n)

\* What the caller kept of the open choices is in the text and in the array.
ChoicesOK ==
  /\ Within
  /\ saved \in Seq([pos : 0..Len(Text), back : 0..StackSize-1])
  /\ unused_stack \in 0..StackSize-1

\* The pointers are NULL or made, and every reference is counted.
TreesOK ==
  /\ Nodes \in Nat
  /\ left \in 0..Nodes
  /\ stacks \in [0..StackSize-1 -> 0..Nodes]
  /\ Counted(heap, Nodes, [n \in 1..Nodes |-> Refs(n)])
  /\ Referred(heap, 1..Nodes)

\* The slots are finitely many, and so are the references in them.
LEMMA RefsIs ==
  ASSUME TreesOK
  PROVE  /\ IsFiniteSet(DOMAIN stacks) /\ DOMAIN stacks = 0..StackSize-1
         /\ \A n : Times(stacks, n) \in Nat /\ One(left, n) \in 0..1
<1>1. DOMAIN stacks = 0..StackSize-1
  BY DEF TreesOK
<1>2. StackSize \in Nat \ {0}
  BY CallsAssumption
<1>3. IsFiniteSet(0..StackSize-1)
  BY <1>2, FS_Interval
<1> QED
  BY <1>1, <1>3, TimesIs DEF One

\* What a slot or left holds is in use.
LEMMA RefsAlive ==
  ASSUME TreesOK
  PROVE  /\ left \notin heap.freed
         /\ \A s \in 0..StackSize-1 : stacks[s] \notin heap.freed
<1> DEFINE R == [n \in 1..Nodes |-> Refs(n)]
<1>1. Nodes \in Nat /\ Counted(heap, Nodes, R) /\ heap.freed \subseteq 1..Nodes
  BY DEF TreesOK, Counted, Sound, HeapOK
<1>2. \A n \in 1..Nodes : R[n] = Refs(n)
  OBVIOUS
<1> HIDE DEF R
<1>3. \A n \in 1..Nodes : Refs(n) > 0 => n \notin heap.freed
  BY <1>1, <1>2, HeldInUse
<1>4. left \notin heap.freed
  <2> SUFFICES ASSUME left \in heap.freed PROVE FALSE
    OBVIOUS
  <2>1. left \in 1..Nodes /\ One(left, left) = 1
    BY <1>1 DEF One
  <2>2. Refs(left) > 0
    BY <2>1, RefsIs DEF Refs
  <2> QED
    BY <1>3, <2>1, <2>2
<1>5. ASSUME NEW s \in 0..StackSize-1, stacks[s] \in heap.freed
      PROVE  FALSE
  <2>1. stacks[s] \in 1..Nodes
    BY <1>1, <1>5
  <2>2. Times(stacks, stacks[s]) \in Nat /\ Times(stacks, stacks[s]) # 0
    BY RefsIs, TimesIs
  <2>3. Refs(stacks[s]) > 0
    BY <2>2, RefsIs DEF Refs
  <2> QED
    BY <1>3, <1>5, <2>1, <2>3
<1> QED
  BY <1>4, <1>5

\* ParserContext_new holds no tree.
LEMMA InitTrees == Init => TreesOK /\ ChoicesOK
<1> SUFFICES ASSUME Init PROVE TreesOK /\ ChoicesOK
  OBVIOUS
<1>1. /\ heap.nodes = <<>> /\ heap.refc = <<>> /\ heap.freed = {} /\ heap.uaf = FALSE
  BY DEF Init, EmptyHeap
<1>2. Nodes = 0 /\ 1..Nodes = {}
  BY <1>1 DEF Nodes
<1>3. HeapOK(heap, Nodes)
  <2>1. heap.nodes \in Seq(Range(heap.nodes)) /\ heap.refc \in Seq(Range(heap.refc))
    BY <1>1, EmptySeq
  <2> QED
    BY <1>1, <1>2, <2>1 DEF HeapOK
<1>4. heap.refc \in [1..Nodes -> Nat] /\ [n \in 1..Nodes |-> Refs(n)] \in [1..Nodes -> Nat]
  <2>1. DOMAIN heap.refc = {} /\ heap.refc = [n \in {} |-> heap.refc[n]]
    BY <1>1
  <2> QED
    BY <1>2, <2>1
<1>5. Counted(heap, Nodes, [n \in 1..Nodes |-> Refs(n)])
  BY <1>1, <1>2, <1>3, <1>4 DEF Counted, Sound, Bounded
<1>6. Referred(heap, 1..Nodes)
  BY <1>2 DEF Referred
<1>7. left \in 0..Nodes /\ stacks \in [0..StackSize-1 -> 0..Nodes]
  BY <1>2 DEF Init, NULL
<1>8. ChoicesOK
  <2>1. Len(Text) \in Nat /\ StackSize \in Nat \ {0}
    BY TextAssumption, CallsAssumption
  <2>2. saved \in Seq([pos : 0..Len(Text), back : 0..StackSize-1])
    BY EmptySeq DEF Init
  <2> QED
    BY <2>1, <2>2 DEF Init, ChoicesOK, Within
<1> QED
  BY <1>2, <1>5, <1>6, <1>7, <1>8 DEF TreesOK

\* saveTree: the slot gives up its old tree for left.
LEMMA SaveOK ==
  ASSUME TreesOK, ChoicesOK, saveTree
  PROVE  TreesOK' /\ ChoicesOK'
<1> DEFINE s == unused_stack + 1
           old == stacks[s]
           R == [n \in 1..Nodes |-> Refs(n)]
           Q == [n \in 1..Nodes |-> Times(stacks', n) + One(left, n)]
<1>1. /\ heap' = GcSet(heap, old, left) /\ left' = left /\ pos' = pos
      /\ stacks' = [stacks EXCEPT ![s] = left]
      /\ unused_stack' = s /\ saved' = Append(saved, [pos |-> pos, back |-> unused_stack])
  BY DEF saveTree
<1>2. s \in 0..StackSize-1 /\ left \in 0..Nodes /\ Nodes \in Nat
  BY CallsAssumption DEF saveTree, ChoicesOK, TreesOK
<1> HIDE DEF s
<1>3. DOMAIN stacks = 0..StackSize-1 /\ IsFiniteSet(DOMAIN stacks)
  BY RefsIs
<1>4. /\ stacks' \in [0..StackSize-1 -> 0..Nodes] /\ DOMAIN stacks' = DOMAIN stacks
      /\ stacks'[s] = left /\ \A i \in DOMAIN stacks \ {s} : stacks'[i] = stacks[i]
  BY <1>1, <1>2 DEF TreesOK
<1>5. heap'.nodes = heap.nodes /\ Nodes' = Nodes
  BY <1>1, SameNodes DEF Nodes
<1>6. \A n : Times(stacks', n) \in Nat
  BY <1>3, <1>4, TimesIs
<1>7. Q \in [1..Nodes -> Nat]
  BY <1>6 DEF One
<1>14. \A n : Times(stacks', n) + Times(<<old>>, n) = Times(stacks, n) + Times(<<left>>, n)
  <2>1. ButFor(stacks', stacks, s, left)
    BY <1>2, <1>3, <1>4 DEF ButFor
  <2>2. \A n : Times(stacks', n) + Times(<<stacks[s]>>, n)
               = Times(stacks, n) + Times(<<left>>, n)
    <3> DEFINE f == stacks
               g == stacks'
    <3>1. IsFiniteSet(DOMAIN f) /\ ButFor(g, f, s, left)
      BY <1>3, <2>1
    <3> HIDE DEF f, g
    <3>2. \A n : Times(g, n) + Times(<<f[s]>>, n) = Times(f, n) + Times(<<left>>, n)
      BY <3>1, TimesExcept
    <3> QED
      BY <3>2 DEF f, g
  <2> QED
    BY <2>2
<1>8. ASSUME NEW n \in 1..Nodes
      PROVE  R[n] + One(left, n) = Q[n] + One(old, n)
  <2>1. Times(stacks', n) + Times(<<old>>, n) = Times(stacks, n) + Times(<<left>>, n)
    BY <1>14
  <2>2. Times(<<old>>, n) = One(old, n) /\ Times(<<left>>, n) = One(left, n)
    BY TimesOne DEF One
  <2>3. Times(stacks, n) \in Nat /\ One(left, n) \in Nat /\ One(old, n) \in Nat
    BY RefsIs DEF One
  <2> QED
    BY <1>6, <2>1, <2>2, <2>3 DEF Refs
<1>9. Counted(heap, Nodes, R) /\ Referred(heap, 1..Nodes)
  BY DEF TreesOK
<1> HIDE DEF R, Q, old
<1>10. Counted(heap', Nodes, Q) /\ Referred(heap', 1..Nodes)
  BY <1>1, <1>2, <1>7, <1>8, <1>9, RefsAlive, SetCounted
<1>11. Q = [n \in 1..Nodes' |-> Refs(n)']
  BY <1>1, <1>5 DEF Q, Refs
<1>12. TreesOK'
  BY <1>1, <1>2, <1>4, <1>5, <1>10, <1>11 DEF TreesOK
<1>13. ChoicesOK'
  <2>1. [pos |-> pos, back |-> unused_stack] \in [pos : 0..Len(Text), back : 0..StackSize-1]
    BY DEF ChoicesOK, Within
  <2>2. saved' \in Seq([pos : 0..Len(Text), back : 0..StackSize-1])
    BY <1>1, <2>1, AppendProperties DEF ChoicesOK
  <2> QED
    BY <1>1, <1>2, <2>2 DEF ChoicesOK, Within
<1> QED
  BY <1>12, <1>13

\* backTree: left gives up its tree for that of the slot read, if it is another.
LEMMA BackOK ==
  ASSUME TreesOK, ChoicesOK, backTree
  PROVE  TreesOK' /\ ChoicesOK'
<1> DEFINE save == Last(saved)
           t == stacks[save.back]
           R == [n \in 1..Nodes |-> Refs(n)]
           Q == [n \in 1..Nodes |-> Times(stacks, n) + One(t, n)]
<1>1. /\ heap' = IF left # t THEN GcSet(heap, left, t) ELSE heap
      /\ left' = t /\ stacks' = stacks /\ saved' = Front(saved)
      /\ unused_stack' = save.back /\ pos' = save.pos
  BY DEF backTree
<1> DEFINE Choice == [pos : 0..Len(Text), back : 0..StackSize-1]
<1>2. saved # <<>> /\ saved \in Seq(Choice)
  BY DEF backTree, ChoicesOK
<1> HIDE DEF Choice
<1>17. Len(saved) \in Nat /\ Len(saved) # 0
  BY <1>2, EmptySeq, LenProperties
<1>18. \A i \in 1..Len(saved) : saved[i] \in Choice
  BY <1>2, ElementOfSeq
<1>3. save \in Choice
  BY <1>17, <1>18 DEF Last
<1>4. saved' \in Seq(Choice)
  <2>1. \A i \in 1..Len(saved)-1 : saved[i] \in Choice
    BY <1>17, <1>18
  <2> QED
    BY <1>1, <1>2, <1>17, <2>1, SubSeqProperties DEF Front
<1> HIDE DEF save
<1>5. save.back \in 0..StackSize-1 /\ save.pos \in 0..Len(Text)
  BY <1>3 DEF Choice
<1>6. ChoicesOK'
  BY <1>1, <1>4, <1>5 DEF ChoicesOK, Within, Choice
<1>7. t \in 0..Nodes /\ t \notin heap.freed /\ Nodes \in Nat
  BY <1>5, RefsAlive DEF TreesOK
<1>8. heap'.nodes = heap.nodes /\ Nodes' = Nodes
  BY <1>1, SameNodes DEF Nodes
<1>9. Q \in [1..Nodes -> Nat]
  BY RefsIs DEF One
<1>10. ASSUME NEW n \in 1..Nodes
       PROVE  R[n] + One(t, n) = Q[n] + One(left, n)
  <2>1. Times(stacks, n) \in Nat /\ One(left, n) \in Nat /\ One(t, n) \in Nat
    BY RefsIs DEF One
  <2> QED
    BY <2>1 DEF Refs
<1>11. Counted(heap, Nodes, R) /\ Referred(heap, 1..Nodes)
  BY DEF TreesOK
<1>12. left = t => R = Q
  BY DEF Refs
<1> HIDE DEF R, Q, t
<1>13. Counted(GcSet(heap, left, t), Nodes, Q) /\ Referred(GcSet(heap, left, t), 1..Nodes)
  BY <1>7, <1>9, <1>10, <1>11, SetCounted
<1>14. Counted(heap', Nodes, Q) /\ Referred(heap', 1..Nodes)
  BY <1>1, <1>11, <1>12, <1>13
<1>15. Q = [n \in 1..Nodes' |-> Refs(n)']
  BY <1>1, <1>8 DEF Q, Refs
<1>16. TreesOK'
  BY <1>1, <1>7, <1>8, <1>14, <1>15 DEF TreesOK
<1> QED
  BY <1>6, <1>16

\* endTree: the new node takes the place of left, which may be its child.
LEMMA MakeOK ==
  ASSUME TreesOK, ChoicesOK, NEW linked \in BOOLEAN, Make(linked)
  PROVE  TreesOK' /\ ChoicesOK'
<1> DEFINE k == Nodes
           t == k + 1
           childs == IF linked THEN <<left>> ELSE <<>>
           labels == IF linked THEN <<"">> ELSE <<>>
           none == ""
           h == New(heap, none, none, labels, childs)
           g == IF linked THEN GcIncAll(h, <<left>>) ELSE h
           R == [n \in 1..k |-> Refs(n)]
           P == [n \in 1..t |-> IF n = t THEN 0
                               ELSE Times(stacks, n) + IF linked THEN 0 ELSE One(left, n)]
           S == [n \in 1..t |-> IF n = t THEN 0 ELSE Refs(n)]
           Q == [n \in 1..t |-> IF n = t THEN 1 ELSE Times(stacks, n)]
<1>1. /\ heap' = GcSet(g, left, t) /\ left' = t /\ stacks' = stacks
      /\ UNCHANGED <<pos, unused_stack, saved>> /\ (linked => left # NULL)
  BY DEF Make, Nodes
<1>2. /\ k \in Nat /\ left \in 0..k /\ left \notin heap.freed /\ stacks \in [0..StackSize-1 -> 0..k]
      /\ Counted(heap, k, R) /\ Referred(heap, 1..k) /\ heap.freed \subseteq 1..k
  BY RefsAlive DEF TreesOK, Counted, Sound, HeapOK
<1>3. \A n : Times(stacks, n) \in Nat /\ One(left, n) \in Nat
  BY RefsIs DEF One
<1>4. /\ IsFiniteSet(DOMAIN childs) /\ Range(childs) \subseteq 0..k
      /\ \A n : Times(childs, n) = IF linked THEN One(left, n) ELSE 0
  <2>1. CASE linked
    <3>1. childs = <<left>> /\ DOMAIN <<left>> = {1} /\ Range(<<left>>) = {left}
      BY <2>1 DEF Range
    <3>2. \A x : IsFiniteSet({x})
      BY FS_Singleton
    <3>3. \A n : Times(<<left>>, n) = One(left, n)
      BY TimesOne DEF One
    <3> HIDE DEF childs
    <3>4. IsFiniteSet(DOMAIN childs)
      BY <3>1, <3>2
    <3>5. Range(childs) \subseteq 0..k
      BY <1>2, <3>1
    <3> QED
      BY <2>1, <3>1, <3>3, <3>4, <3>5
  <2>2. CASE ~linked
    <3>1. childs = <<>> /\ DOMAIN childs = {} /\ Range(childs) = {}
      BY <2>2 DEF Range
    <3> HIDE DEF childs
    <3>2. IsFiniteSet(DOMAIN childs)
      BY <3>1, FS_EmptySet
    <3> QED
      BY <2>2, <3>1, <3>2, TimesIs
  <2> QED
    BY <2>1, <2>2
<1>5. P \in [1..t -> Nat] /\ P[t] = 0
  BY <1>2, <1>3
<1>6. \A n \in 1..k : R[n] = P[n] + Times(childs, n)
  <2> SUFFICES ASSUME NEW n \in 1..k
               PROVE  R[n] = P[n] + Times(childs, n)
    OBVIOUS
  <2>1. n # t /\ n \in 1..t
    BY <1>2
  <2>2. Times(childs, n) = IF linked THEN One(left, n) ELSE 0
    BY <1>4
  <2>3. Times(stacks, n) \in Nat /\ One(left, n) \in Nat
    BY <1>3
  <2>4. R[n] = Times(stacks, n) + One(left, n)
    BY DEF Refs
  <2>5. P[n] = Times(stacks, n) + IF linked THEN 0 ELSE One(left, n)
    BY <2>1
  <2> QED
    BY <2>2, <2>3, <2>4, <2>5
<1>7. /\ S \in [1..t -> Nat] /\ Q \in [1..t -> Nat] /\ S[t] = 0 /\ Q[t] = 1
      /\ \A n \in 1..k : S[n] = Refs(n) /\ Q[n] = Times(stacks, n)
  BY <1>2, <1>3 DEF Refs
<1>8. linked => \A n \in 1..t : S[n] = P[n] + One(left, n)
  <2> SUFFICES ASSUME linked, NEW n \in 1..t
               PROVE  S[n] = P[n] + One(left, n)
    OBVIOUS
  <2>1. Times(stacks, n) \in Nat /\ One(left, n) \in Nat
    BY <1>3
  <2>2. CASE n = t
    BY <1>2, <2>2 DEF One
  <2>3. CASE n # t
    BY <2>1, <2>3 DEF Refs
  <2> QED
    BY <2>2, <2>3
<1>9. ~linked => S = P
  BY DEF Refs
<1>10. \A n \in 1..t : S[n] + One(t, n) = Q[n] + One(left, n)
  <2> SUFFICES ASSUME NEW n \in 1..t
               PROVE  S[n] + One(t, n) = Q[n] + One(left, n)
    OBVIOUS
  <2>1. Times(stacks, n) \in Nat /\ One(left, n) \in Nat
    BY <1>3
  <2>2. CASE n = t
    BY <1>2, <2>2 DEF One
  <2>3. CASE n # t
    BY <2>1, <2>3 DEF One, Refs
  <2> QED
    BY <2>2, <2>3
<1> HIDE DEF R, P, S, Q, childs, labels, none
<1>22. k \in Nat /\ Counted(heap, k, R) /\ Referred(heap, 1..k)
  BY <1>2
<1>11. Counted(h, t, P) /\ Referred(h, 1..k)
  <2>3. t = k + 1
    OBVIOUS
  <2> HIDE DEF k, t
  <2>4. IsFiniteSet(DOMAIN childs) /\ Range(childs) \subseteq 0..k
    BY <1>4
  <2>1. Counted(h, t, P)
    BY <1>5, <1>6, <1>22, <2>3, <2>4, NewCounted
  <2>2. Referred(h, 1..k)
    BY <1>5, <1>6, <1>22, <2>3, <2>4, NewCounted
  <2> QED
    BY <2>1, <2>2
<1>12. h.freed = heap.freed /\ Len(h.nodes) = k + 1
  <2>1. heap.nodes \in Seq(Range(heap.nodes)) /\ Len(heap.nodes) = k
    BY <1>2 DEF Counted, Sound, HeapOK
  <2> QED
    BY <2>1, AppendProperties DEF New
<1> HIDE DEF h
<1>13. t \in Nat /\ t \notin heap.freed /\ k \in Nat
  BY <1>2
<1>14. Counted(g, t, S) /\ Referred(g, 1..k) /\ g.freed = heap.freed /\ Len(g.nodes) = k + 1
  <2>1. CASE ~linked
    BY <1>9, <1>11, <1>12, <2>1
  <2>2. CASE linked
    <3>1. IsFiniteSet(DOMAIN <<left>>)
      <4>1. DOMAIN <<left>> = {1}
        OBVIOUS
      <4> QED
        BY <4>1, FS_Singleton
    <3>2. \A n \in h.freed : Times(<<left>>, n) = 0
      BY <1>2, <1>12, TimesOne
    <3>3. \A n \in 1..t : S[n] = P[n] + Times(<<left>>, n)
      BY <1>8, <2>2, TimesOne DEF One
    <3>4. Counted(GcIncAll(h, <<left>>), t, S)
      BY <1>7, <1>11, <1>13, <3>1, <3>2, <3>3, IncCounted
    <3>5. Referred(GcIncAll(h, <<left>>), 1..k)
      <4> SUFFICES ASSUME NEW n \in 1..k, n \notin heap.freed
                   PROVE  GcIncAll(h, <<left>>).refc[n] > 0
        BY <1>12, SameNodes DEF Referred
      <4>1. h.refc[n] > 0 /\ n \in DOMAIN h.refc /\ h.refc[n] \in Nat
        BY <1>11, <1>12, <1>13 DEF Referred, Counted, Sound
      <4>2. GcIncAll(h, <<left>>).refc[n] = h.refc[n] + Times(<<left>>, n)
        BY <4>1 DEF GcIncAll
      <4>3. Times(<<left>>, n) \in Nat
        BY TimesOne
      <4> QED
        BY <4>1, <4>2, <4>3
    <3> QED
      BY <1>12, <2>2, <3>4, <3>5, SameNodes
  <2> QED
    BY <2>1, <2>2
<1> HIDE DEF g
<1>15. \A n \in 1..t : n # t /\ n \notin g.freed => g.refc[n] > 0
  <2>1. \A n \in 1..t : n # t => n \in 1..k
    BY <1>13
  <2> QED
    BY <1>14, <2>1 DEF Referred
<1>16. Counted(heap', t, Q) /\ Referred(heap', 1..t)
  <2> HIDE DEF t
  <2> QED
    BY <1>1, <1>7, <1>10, <1>13, <1>14, <1>15, SetCounted
<1>17. Nodes' = t
  BY <1>1, <1>14, SameNodes DEF Nodes
<1>18. Q = [n \in 1..Nodes' |-> Refs(n)']
  <2>1. \A n : Refs(n)' = Times(stacks, n) + One(t, n)
    BY <1>1 DEF Refs
  <2>2. ASSUME NEW n \in 1..t
        PROVE  Q[n] = Times(stacks, n) + One(t, n)
    <3>1. CASE n = t
      <4>1. Times(stacks, t) = 0
        <5>1. \A s \in DOMAIN stacks : stacks[s] # t
          BY <1>2
        <5> QED
          BY <5>1, RefsIs, TimesIs
      <4> QED
        BY <1>7, <3>1, <4>1 DEF One
    <3>2. CASE n # t
      <4>1. n \in 1..k
        BY <1>13, <3>2
      <4> QED
        BY <1>3, <1>7, <3>2, <4>1 DEF One
    <3> QED
      BY <3>1, <3>2
  <2>3. Q = [n \in 1..t |-> Q[n]]
    BY <1>7
  <2> QED
    BY <1>17, <2>1, <2>2, <2>3
<1>19. left' \in 0..Nodes' /\ stacks' \in [0..StackSize-1 -> 0..Nodes']
  BY <1>1, <1>2, <1>17
<1>20. TreesOK'
  BY <1>13, <1>16, <1>17, <1>18, <1>19 DEF TreesOK
<1>21. ChoicesOK'
  BY <1>1 DEF ChoicesOK, Within
<1> QED
  BY <1>20, <1>21

\* Every call leaves the trees and the open choices as they should be.
LEMMA TreesStep ==
  ASSUME TreesOK, ChoicesOK, [Next]_vars
  PROVE  TreesOK' /\ ChoicesOK'
<1>1. ASSUME UNCHANGED <<left, stacks, heap>>
      PROVE  TreesOK'
  BY <1>1 DEF TreesOK, Nodes, Refs
<1>2. CASE Move /\ UNCHANGED <<tree, counter>>
  BY <1>1, <1>2, MoveStays DEF ChoicesOK, tree
<1>3. CASE decCount
  BY <1>1, <1>3 DEF decCount, ChoicesOK, Within, tree
<1>4. CASE saveTree
  BY <1>4, SaveOK
<1>5. CASE backTree
  BY <1>5, BackOK
<1>6. CASE Keep
  <2>1. saved # <<>> /\ saved' = Front(saved)
    BY <1>6 DEF Keep
  <2> DEFINE Choice == [pos : 0..Len(Text), back : 0..StackSize-1]
  <2>2. saved \in Seq(Choice)
    BY DEF ChoicesOK
  <2> HIDE DEF Choice
  <2>3. Len(saved) \in Nat /\ Len(saved) # 0
    BY <2>1, <2>2, EmptySeq, LenProperties
  <2>4. \A i \in 1..Len(saved)-1 : saved[i] \in Choice
    BY <2>2, <2>3, ElementOfSeq
  <2>5. saved' \in Seq(Choice)
    BY <2>1, <2>2, <2>3, <2>4, SubSeqProperties DEF Front
  <2> QED
    BY <1>1, <1>6, <2>5 DEF Keep, ChoicesOK, Within, Choice
<1>7. CASE \E m \in Masks, ppos \in 0..pos : scanCount(ppos, m[1], m[2])
  BY <1>1, <1>7 DEF scanCount, ChoicesOK, Within, tree
<1>8. CASE \E linked \in BOOLEAN : Make(linked)
  BY <1>8, MakeOK
<1>9. CASE UNCHANGED vars
  BY <1>1, <1>9 DEF vars, tree, ChoicesOK, Within
<1> QED
  BY <1>2, <1>3, <1>4, <1>5, <1>6, <1>7, <1>8, <1>9 DEF Next

\* Exact counts are what the invariant says.
LEMMA TreesExact ==
  ASSUME TreesOK
  PROVE  CountsExact
<1> DEFINE R == [n \in 1..Nodes |-> Refs(n)]
           A == Alive(heap, Nodes)
<1>1. /\ Nodes \in Nat /\ Counted(heap, Nodes, R) /\ Referred(heap, 1..Nodes) /\ ~heap.uaf
      /\ heap.freed \subseteq 1..Nodes /\ Sound(heap, Nodes)
  BY DEF TreesOK, Counted, Sound, HeapOK
<1>2. DOMAIN heap.nodes = 1..Nodes
  BY <1>1 DEF Sound, HeapOK, Nodes
<1>3. A = DOMAIN heap.nodes \ heap.freed
  BY <1>2 DEF Alive
<1>4. ASSUME NEW n \in 1..Nodes
      PROVE  /\ heap.refc[n] = Refs(n) + HeldBy(heap, A, n)
             /\ n \in heap.freed <=> heap.refc[n] = 0
  <2>1. heap.refc[n] = R[n] + HeldBy(heap, A, n) /\ (n \in heap.freed => heap.refc[n] = 0)
    BY <1>1 DEF Counted
  <2>2. heap.refc[n] = 0 => n \in heap.freed
    BY <1>1 DEF Referred
  <2> QED
    BY <2>1, <2>2
<1>5. \A n : Refs(n) = Times(stacks, n) + IF left = n THEN 1 ELSE 0
  BY DEF Refs, One
<1> HIDE DEF R, A
<1> QED
  BY <1>1, <1>2, <1>3, <1>4, <1>5 DEF CountsExact

-----------------------------------------------------------------------------
(* The repetition counter.                                                 *)

\* While it is asked, the counter holds what is left of the number scanned.
CounterOK ==
  due # Unknown =>
    /\ due \in 0..MaxLong
    /\ answers.asked \in 0..due+1
    /\ answers.yes = IF answers.asked <= due THEN answers.asked ELSE due
    /\ answers.asked <= due => count = due - answers.asked

\* A long has as many values below zero as from zero on.
LEMMA LongHalf ==
  /\ CountSize \in Nat \ {0} /\ MaxLong \in Nat /\ MaxLong < CountSize
  /\ \A n \in 0..MaxLong : n % CountSize = n
<1>1. CountSize \in Nat \ {0} /\ CountSize % 2 = 0
  BY CallsAssumption
<1>2. MaxLong \in Nat /\ MaxLong < CountSize
  BY <1>1 DEF MaxLong
<1> QED
  BY <1>1, <1>2

\* strtol reads all the digits of a slice that denotes a number and no more.
LEMMA ScanIs ==
  ASSUME Within, NEW ppos \in 0..pos, Denoted(ppos, pos) # Unknown
  PROVE  /\ Denoted(ppos, pos) \in 0..MaxLong
         /\ strtol(ppos) = Denoted(ppos, pos)
<1> DEFINE n == Number(ppos, pos, 10, 48)
           t == Len(Text)
<1>1. /\ ppos < pos /\ \A q \in ppos+1..pos : Text[q] \in Digits
      /\ ByteAt(pos) \notin Digits /\ n \in 0..MaxLong /\ Denoted(ppos, pos) = n
  BY DEF Denoted
<1>2. t \in Nat /\ pos \in 0..t
  BY TextAssumption DEF Within
<1> HIDE DEF n
<1>3. ASSUME NEW r \in ppos..pos-1
      PROVE  ByteAt(r) \in Digits
  <2>1. r \in Nat /\ r < t /\ r + 1 \in ppos+1..pos
    BY <1>2
  <2> QED
    BY <1>1, <2>1, ByteIs
<1>4. Digits \cap Space = {} /\ Plus \notin Digits /\ Minus \notin Digits
  BY DEF Digits, Space, Plus, Minus
<1>5. ppos \in ppos..pos-1 /\ ppos \in ppos..t /\ pos \in ppos..t
  BY <1>1, <1>2
<1>6. ByteAt(ppos) \in Digits
  BY <1>3, <1>5
<1>7. Skip(ppos, Space) = ppos
  <2> DEFINE At(q) == /\ ByteAt(q) \notin Space
                      /\ \A r \in ppos..q-1 : ByteAt(r) \in Space
  <2>1. At(ppos)
    BY <1>4, <1>6
  <2>2. ASSUME NEW q \in ppos..t, At(q)
        PROVE  q = ppos
    <3>1. q # ppos => ppos \in ppos..q-1
      BY <1>2
    <3> QED
      BY <1>4, <1>6, <2>2, <3>1
  <2>3. Skip(ppos, Space) = CHOOSE q \in ppos..t : At(q)
    BY DEF Skip
  <2> HIDE DEF At
  <2> QED
    BY <1>5, <2>1, <2>2, <2>3
<1>8. Skip(ppos, Digits) = pos
  <2> DEFINE At(q) == /\ ByteAt(q) \notin Digits
                      /\ \A r \in ppos..q-1 : ByteAt(r) \in Digits
  <2>1. At(pos)
    BY <1>1, <1>3
  <2>2. ASSUME NEW q \in ppos..t, At(q)
        PROVE  q = pos
    <3>1. q < pos => q \in ppos..pos-1
      BY <1>2
    <3>2. q > pos => pos \in ppos..q-1
      BY <1>2
    <3> QED
      BY <1>1, <1>2, <1>3, <2>2, <3>1, <3>2
  <2>3. Skip(ppos, Digits) = CHOOSE q \in ppos..t : At(q)
    BY DEF Skip
  <2> HIDE DEF At
  <2> QED
    BY <1>5, <2>1, <2>2, <2>3
<1>9. ByteAt(ppos) # Plus /\ ByteAt(ppos) # Minus
  BY <1>4, <1>6
<1>10. strtol(ppos) = IF n > MaxLong THEN MaxLong ELSE n
  BY <1>7, <1>8, <1>9 DEF strtol, n
<1> QED
  BY <1>1, <1>10, LongHalf

\* Every call leaves the counter so.
LEMMA CounterStep ==
  ASSUME CounterOK, Within, [Next]_vars
  PROVE  CounterOK'
<1>1. ASSUME UNCHANGED <<count, due, answers>>
      PROVE  CounterOK'
  BY <1>1 DEF CounterOK
<1>2. CASE decCount
  <2> SUFFICES ASSUME due # Unknown
               PROVE  CounterOK'
    BY <1>2 DEF decCount, CounterOK
  <2>1. /\ due \in 0..MaxLong /\ answers.asked \in 0..due+1
        /\ answers.yes = IF answers.asked <= due THEN answers.asked ELSE due
        /\ answers.asked <= due => count = due - answers.asked
    BY DEF CounterOK
  <2>2. count' = (count - 1) % CountSize /\ due' = due /\ Answer(count > 0)
    BY <1>2 DEF decCount
  <2>3. CASE answers.asked > due
    BY <2>1, <2>2, <2>3 DEF Answer, CounterOK
  <2>4. CASE answers.asked <= due
    <3> DEFINE a == answers.asked
    <3>1. /\ a \in Nat /\ due \in Nat /\ count = due - a /\ answers.yes = a /\ a <= due
      BY <2>1, <2>4
    <3>2. answers' = [asked |-> a + 1, yes |-> a + (IF count > 0 THEN 1 ELSE 0)]
      BY <2>2, <2>4, <3>1 DEF Answer
    <3>3. answers'.asked = a + 1 /\ answers'.yes = a + (IF count > 0 THEN 1 ELSE 0)
      BY <3>2
    <3> HIDE DEF a
    <3>4. a + 1 <= due => count' = due - (a + 1)
      <4> SUFFICES ASSUME a + 1 <= due
                   PROVE  count' = due - (a + 1)
        OBVIOUS
      <4>1. count - 1 \in 0..MaxLong
        BY <2>1, <3>1, LongHalf
      <4> QED
        BY <2>2, <3>1, <4>1, LongHalf
    <3> QED
      BY <2>1, <2>2, <3>1, <3>3, <3>4 DEF CounterOK
  <2> QED
    BY <2>1, <2>3, <2>4
<1>3. ASSUME NEW m \in Masks, NEW ppos \in 0..pos, scanCount(ppos, m[1], m[2])
      PROVE  CounterOK'
  <2> SUFFICES ASSUME due' # Unknown
               PROVE  CounterOK'
    BY DEF CounterOK
  <2>1. m[1] = 0 /\ due' = Denoted(ppos, pos) /\ answers' = NoAnswers
        /\ count' = strtol(ppos) % CountSize
    BY <1>3 DEF scanCount
  <2>2. due' \in 0..MaxLong /\ strtol(ppos) = due'
    BY <2>1, ScanIs
  <2>3. count' = due'
    BY <2>1, <2>2, LongHalf
  <2>4. answers'.asked = 0 /\ answers'.yes = 0
    BY <2>1 DEF NoAnswers
  <2> DEFINE d == due'
             a == answers'
  <2>5. d \in 0..MaxLong /\ MaxLong \in Nat /\ count' = d
    BY <2>2, <2>3, LongHalf
  <2>6. a.asked = 0 /\ a.yes = 0
    BY <2>4
  <2> HIDE DEF d, a
  <2>7. /\ a.asked \in 0..d+1 /\ a.yes = IF a.asked <= d THEN a.asked ELSE d
        /\ a.asked <= d => count' = d - a.asked
    BY <2>5, <2>6
  <2> QED
    BY <2>5, <2>7 DEF CounterOK, d, a
<1>4. CASE Move /\ UNCHANGED <<tree, counter>>
  BY <1>1, <1>4 DEF counter
<1>5. CASE saveTree
  BY <1>1, <1>5 DEF saveTree, counter
<1>6. CASE backTree
  BY <1>1, <1>6 DEF backTree, counter
<1>7. CASE Keep
  BY <1>1, <1>7 DEF Keep, counter
<1>8. CASE \E linked \in BOOLEAN : Make(linked)
  BY <1>1, <1>8 DEF Make, counter
<1>9. CASE UNCHANGED vars
  BY <1>1, <1>9 DEF vars, counter
<1> QED
  BY <1>2, <1>3, <1>4, <1>5, <1>6, <1>7, <1>8, <1>9 DEF Next

-----------------------------------------------------------------------------
(* What holds of every sequence of calls.                                  *)

\* All that a call relies on.
Invariant == TreesOK /\ ChoicesOK /\ CounterOK

LEMMA Invariantly == Spec => []Invariant
<1>1. Init => Invariant
  BY InitTrees DEF Invariant, Init, CounterOK, Unknown
<1>2. Invariant /\ [Next]_vars => Invariant'
  BY TreesStep, CounterStep DEF Invariant, ChoicesOK
<1> QED
  BY <1>1, <1>2, PTL DEF Spec

\* Whatever the order of making, saving, restoring and keeping trees, a node's
\* count is the number of references to it, so it is freed just when the last
\* one goes, and none is freed twice or counted after.
THEOREM CountedExactly == Spec => []CountsExact
<1>1. Invariant => CountsExact
  BY TreesExact DEF Invariant
<1> QED
  BY <1>1, Invariantly, PTL

\* A counter that scanCount set from a slice of digits, asked until it says no,
\* says yes as often as the number in the slice, for every text and width.
THEOREM CountedDown == Spec => []CountsDown
<1>1. Invariant => CountsDown
  BY DEF Invariant, CounterOK, CountsDown
<1> QED
  BY <1>1, Invariantly, PTL

\* Every call of a generated parser finds the two forms of match in agreement
\* with each other and with the text, and reads no byte behind the text's 0.
THEOREM MatchesTheText == Spec => []MatchesAgree
<1>1. Invariant => MatchesAgree
  BY MatchIs DEF Invariant, ChoicesOK
<1> QED
  BY <1>1, Invariantly, PTL

\* At every call the search by bytes stops at the first byte in range, or at the
\* end of the text.  The search by blocks, of any even length, stops there too when
\* a block takes the whole range, and otherwise at a byte in range or at the end,
\* but no earlier (_findchar with and without CNEZ_SSE).
THEOREM SearchesTheText == Spec => []SearchesAgree
<1>1. Invariant => SearchesAgree
  BY SearchIs DEF Invariant, ChoicesOK
<1> QED
  BY <1>1, Invariantly, PTL
=============================================================================
