---------------------------- MODULE LoaderProofs ----------------------------
(***************************************************************************)
(* The loader for every file: where the instructions lie, that they read   *)
(* back as the file means them while no write goes out of bounds, and that *)
(* none does when the header declares what the body holds.                 *)
(***************************************************************************)
EXTENDS Loader, NatSets, SequenceTheorems

-----------------------------------------------------------------------------
(* Sums.                                                                   *)

\* s holds the sums of the first n values of w.
Sums(s, w, n) == /\ s \in [0..n -> Nat] /\ s[0] = 0
                 /\ \A k \in 0..n-1 : s[k + 1] = s[k] + w[k]

\* s holds the sums of all of them.
Summed(s, w) == s \in [Nat -> Nat] /\ \A n \in Nat : s[n + 1] = s[n] + w[n]

\* The values of a function of the natural numbers can be summed.
LEMMA SumExists ==
  ASSUME NEW w, \A n \in Nat : w[n] \in Nat
  PROVE  \E s : Summed(s, w)
<1>1. \A n \in Nat : \E s : Sums(s, w, n)
  <2> DEFINE T == {n \in Nat : \E s : Sums(s, w, n)}
  <2>1. 0 \in T
    <3>1. Sums([k \in 0..0 |-> 0], w, 0)
      BY DEF Sums
    <3> QED
      BY <3>1
  <2>2. ASSUME NEW n \in Nat, n \in T
        PROVE  n + 1 \in T
    <3>1. PICK s : Sums(s, w, n)
      BY <2>2
    <3> DEFINE t == [k \in 0..n+1 |-> IF k = n + 1 THEN s[n] + w[n] ELSE s[k]]
    <3>2. t \in [0..n+1 -> Nat] /\ t[0] = 0
      BY <3>1 DEF Sums
    <3>3. ASSUME NEW k \in 0..n
          PROVE  t[k + 1] = t[k] + w[k]
      <4>1. k \in 0..n+1 /\ k + 1 \in 0..n+1 /\ k # n + 1
        OBVIOUS
      <4>2. CASE k = n
        BY <4>1, <4>2
      <4>3. CASE k # n
        <5>1. k \in 0..n-1 /\ k + 1 # n + 1
          BY <4>3
        <5>2. s[k + 1] = s[k] + w[k]
          BY <3>1, <5>1 DEF Sums
        <5> QED
          BY <4>1, <5>1, <5>2
      <4> QED
        BY <4>2, <4>3
    <3> HIDE DEF t
    <3>4. Sums(t, w, n + 1)
      BY <3>2, <3>3 DEF Sums
    <3> QED
      BY <3>4
  <2> HIDE DEF T
  <2>3. Nat \subseteq T
    BY <2>1, <2>2, NatSetInduction
  <2> QED
    BY <2>3 DEF T
<1>2. \A n \in Nat : \A m, p \in Nat : n <= m /\ n <= p =>
        \A s, t : Sums(s, w, m) /\ Sums(t, w, p) => s[n] = t[n]
  <2> DEFINE T == {n \in Nat : \A m, p \in Nat : n <= m /\ n <= p =>
                     \A s, t : Sums(s, w, m) /\ Sums(t, w, p) => s[n] = t[n]}
  <2>1. 0 \in T
    BY DEF Sums
  <2>2. ASSUME NEW n \in Nat, n \in T
        PROVE  n + 1 \in T
    <3> SUFFICES ASSUME NEW m \in Nat, NEW p \in Nat, n + 1 <= m, n + 1 <= p,
                        NEW s, NEW t, Sums(s, w, m), Sums(t, w, p)
                 PROVE  s[n + 1] = t[n + 1]
      OBVIOUS
    <3>1. s[n] = t[n]
      <4>1. n <= m /\ n <= p
        OBVIOUS
      <4> QED
        BY <2>2, <4>1
    <3>2. n \in 0..m-1 /\ n \in 0..p-1
      OBVIOUS
    <3> QED
      BY <3>1, <3>2 DEF Sums
  <2> HIDE DEF T
  <2>3. Nat \subseteq T
    BY <2>1, <2>2, NatSetInduction
  <2> QED
    BY <2>3 DEF T
<1> DEFINE c(n) == CHOOSE s : Sums(s, w, n)
           total == [n \in Nat |-> c(n)[n]]
<1>3. \A n \in Nat : Sums(c(n), w, n)
  BY <1>1
<1> HIDE DEF c
<1>4. total \in [Nat -> Nat]
  BY <1>3 DEF Sums
<1>5. ASSUME NEW n \in Nat
      PROVE  total[n + 1] = total[n] + w[n]
  <2>1. c(n + 1)[n] = c(n)[n]
    BY <1>2, <1>3
  <2>2. n \in 0..(n + 1)-1 /\ Sums(c(n + 1), w, n + 1)
    BY <1>3
  <2>3. c(n + 1)[n + 1] = c(n + 1)[n] + w[n]
    BY <2>2 DEF Sums
  <2> QED
    BY <2>1, <2>3
<1> QED
  BY <1>4, <1>5 DEF Summed
-----------------------------------------------------------------------------
(* The layout of a program.                                                *)

\* The sum from the value at a on of k - 1 values.
Between(s, a, k) == s[a + k - 1] - s[a]

\* Sums from anywhere can be put together.
Additive(s, w) ==
  /\ \A a \in Nat, k \in Nat \ {0} : Between(s, a, k) \in Int
  /\ \A a \in Nat : Between(s, a, 1) = 0 /\ Between(s, a, 2) = w[a]
  /\ \A a, h \in Nat, k \in Nat \ {0} :
       Between(s, a, h + 1) + Between(s, a + h, k) = Between(s, a, h + k)

\* The sums of a function are additive.
LEMMA BetweenIs ==
  ASSUME NEW w, \A n \in Nat : w[n] \in Nat, NEW s, Summed(s, w)
  PROVE  Additive(s, w)
<1>1. s \in [Nat -> Nat] /\ \A n \in Nat : s[n + 1] = s[n] + w[n]
  BY DEF Summed
<1>2. ASSUME NEW a \in Nat, NEW k \in Nat \ {0}
      PROVE  Between(s, a, k) \in Int
  <2>1. a + k - 1 \in Nat
    OBVIOUS
  <2>2. s[a + k - 1] \in Nat /\ s[a] \in Nat
    BY <1>1, <2>1
  <2> QED
    BY <2>2 DEF Between
<1>3. ASSUME NEW a \in Nat
      PROVE  Between(s, a, 1) = 0 /\ Between(s, a, 2) = w[a]
  <2>1. a + 1 - 1 = a /\ a + 2 - 1 = a + 1
    OBVIOUS
  <2>2. s[a] \in Nat /\ s[a + 1] = s[a] + w[a] /\ w[a] \in Nat
    BY <1>1
  <2> QED
    BY <2>1, <2>2 DEF Between
<1>4. ASSUME NEW a \in Nat, NEW h \in Nat, NEW k \in Nat \ {0}
      PROVE  Between(s, a, h + 1) + Between(s, a + h, k) = Between(s, a, h + k)
  <2>1. a + (h + 1) - 1 = a + h /\ (a + h) + k - 1 = a + (h + k) - 1
        /\ a + h \in Nat /\ a + (h + k) - 1 \in Nat
    OBVIOUS
  <2>2. s[a] \in Nat /\ s[a + h] \in Nat /\ s[a + (h + k) - 1] \in Nat
    BY <1>1, <2>1
  <2> QED
    BY <2>1, <2>2 DEF Between
<1> QED
  BY <1>2, <1>3, <1>4 DEF Additive

\* A place in the layout.
Spot == [at : Int, id : Int, prod : Int]

\* An instruction has at most five bytes of operands.
LEMMA OperandIs ==
  ASSUME NEW op
  PROVE  OperandBytes(op) \in 0..5
BY DEF OperandBytes

\* What an instruction takes is a byte at least.
LEMMA TakenIs ==
  ASSUME NEW inst
  PROVE  /\ Taken(inst) \in Spot
         /\ Taken(inst).at \in Nat \ {0} /\ Taken(inst).id \in Nat /\ Taken(inst).prod \in Nat
<1>1. OperandBytes(inst.op) \in 0..5
  BY OperandIs
<1> QED
  BY <1>1 DEF Taken, Spot

\* l is the layout of prog, in the words of a recurrence.
LaidOut(l, prog) ==
  /\ l \in Seq(Spot) /\ Len(l) = Len(prog) + 1 /\ l[1] = Start
  /\ \A k \in 1..Len(prog) : l[k + 1] = Past(l[k], Taken(prog[k]))

\* Each instruction lies past the one before it.
LEMMA LayoutIs ==
  ASSUME NEW T, NEW prog \in Seq(T)
  PROVE  LaidOut(Layout(prog), prog)
<1> DEFINE w1 == [n \in Nat |-> Taken(prog[n]).at]
           w2 == [n \in Nat |-> Taken(prog[n]).id]
           w3 == [n \in Nat |-> Taken(prog[n]).prod]
<1>1. /\ \A n \in Nat : w1[n] \in Nat
      /\ \A n \in Nat : w2[n] \in Nat
      /\ \A n \in Nat : w3[n] \in Nat
  BY TakenIs
<1> HIDE DEF w1, w2, w3
<1>2. PICK bytes : Summed(bytes, w1)
  BY <1>1, SumExists
<1>3. PICK ids : Summed(ids, w2)
  BY <1>1, SumExists
<1>4. PICK prods : Summed(prods, w3)
  BY <1>1, SumExists
<1> DEFINE From(a, k) == [at |-> Between(bytes, a, k), id |-> Between(ids, a, k),
                          prod |-> Between(prods, a, k)]
           G == [n \in Nat |-> [a \in Nat |-> [k \in 1..n+1 |-> From(a, k)]]]
           Body(part, n, a) ==
             IF n = 0 THEN <<Start>>
             ELSE IF n = 1 THEN <<Start, Taken(prog[a])>>
             ELSE LET half == n \div 2
                      low  == part[half][a]
                      high == part[n - half][a + half]
                  IN  Front(low) \o [k \in DOMAIN high |-> Past(Last(low), high[k])]
           Part == CHOOSE part : part = [n \in Nat |-> [a \in Nat |-> Body(part, n, a)]]
<1> HIDE DEF From, G, Body, Part
<1>5. /\ \A a \in Nat, k \in Nat \ {0} : From(a, k) \in Spot
      /\ \A a \in Nat : From(a, 1) = Start /\ From(a, 2) = Taken(prog[a])
      /\ \A a, h \in Nat, k \in Nat \ {0} :
           Past(From(a, h + 1), From(a + h, k)) = From(a, h + k)
  <2>1. Additive(bytes, w1)
    BY <1>1, <1>2, BetweenIs
  <2>2. Additive(ids, w2)
    BY <1>1, <1>3, BetweenIs
  <2>3. Additive(prods, w3)
    BY <1>1, <1>4, BetweenIs
  <2>4. \A a \in Nat : Taken(prog[a]) = [at |-> w1[a], id |-> w2[a], prod |-> w3[a]]
    BY DEF Taken, w1, w2, w3
  <2>5. \A a \in Nat, k \in Nat \ {0} : From(a, k) \in Spot
    BY <2>1, <2>2, <2>3 DEF From, Spot, Additive
  <2>6. \A a \in Nat : From(a, 1) = Start /\ From(a, 2) = Taken(prog[a])
    BY <2>1, <2>2, <2>3, <2>4 DEF From, Start, Additive
  <2>7. \A a, h \in Nat, k \in Nat \ {0} :
          Past(From(a, h + 1), From(a + h, k)) = From(a, h + k)
    BY <2>1, <2>2, <2>3 DEF From, Past, Additive
  <2> QED
    BY <2>5, <2>6, <2>7
<1>7. ASSUME NEW n \in Nat, NEW a \in Nat
      PROVE  G[n][a] = Body(G, n, a)
  <2>1. CASE n = 0
    <3>1. G[n][a] = <<From(a, 1)>>
      BY <2>1 DEF G
    <3> QED
      BY <2>1, <3>1, <1>5 DEF Body
  <2>2. CASE n = 1
    <3>1. G[n][a] = <<From(a, 1), From(a, 2)>>
      BY <2>2 DEF G
    <3> QED
      BY <2>2, <3>1, <1>5 DEF Body
  <2>3. CASE n # 0 /\ n # 1
    <3>1. PICK h \in Nat : h = n \div 2 /\ n - h \in Nat /\ h # 0 /\ a + h \in Nat
      BY <2>3
    <3> DEFINE low  == [k \in 1..h+1 |-> From(a, k)]
               high == [k \in 1..(n - h)+1 |-> From(a + h, k)]
               tail == [k \in 1..(n - h)+1 |-> Past(From(a, h + 1), high[k])]
    <3> HIDE DEF low, high, tail
    <3>2. G[h][a] = low /\ G[n - h][a + h] = high /\ G[n][a] = [k \in 1..n+1 |-> From(a, k)]
      BY <3>1 DEF G, low, high
    <3>3. /\ low \in Seq(Spot) /\ Len(low) = h + 1
          /\ high \in Seq(Spot) /\ Len(high) = n - h + 1
      <4>1. h + 1 \in Nat /\ n - h + 1 \in Nat
        BY <3>1
      <4>2. \A k \in 1..h+1 : From(a, k) \in Spot
        BY <1>5
      <4>3. \A k \in 1..(n-h)+1 : From(a + h, k) \in Spot
        BY <1>5, <3>1
      <4> QED
        BY <4>1, <4>2, <4>3 DEF low, high
    <3>4. /\ Front(low) \in Seq(Spot) /\ Len(Front(low)) = h
          /\ \A k \in 1..h : Front(low)[k] = From(a, k)
      <4>1. Front(low) = SubSeq(low, 1, h) /\ Len(low) = h + 1
        BY <3>1, <3>3 DEF Front
      <4>2. \A k \in 1..h : low[k] = From(a, k)
        BY DEF low
      <4> QED
        BY <3>3, <4>1, <4>2, SubSeqProperties
    <3>5. Last(low) = From(a, h + 1)
      <4>1. h + 1 \in 1..h+1
        BY <3>1
      <4> QED
        BY <3>3, <4>1 DEF Last, low
    <3>6. ASSUME NEW k \in 1..(n - h)+1
          PROVE  Past(From(a, h + 1), From(a + h, k)) = From(a, h + k)
      BY <1>5, <3>1
    <3>7. /\ tail \in Seq(Spot) /\ Len(tail) = n - h + 1
          /\ \A k \in 1..(n - h)+1 : tail[k] = From(a, h + k)
      <4>1. \A k \in 1..(n - h)+1 : high[k] = From(a + h, k)
        BY DEF high
      <4>2. \A k \in 1..(n - h)+1 : tail[k] = From(a, h + k)
        BY <3>6, <4>1 DEF tail
      <4>3. \A k \in 1..(n - h)+1 : tail[k] \in Spot
        BY <1>5, <3>1, <4>2
      <4>4. tail = [k \in 1..(n - h)+1 |-> tail[k]] /\ (n - h) + 1 \in Nat
        BY <3>1 DEF tail
      <4> QED
        BY <4>2, <4>3, <4>4
    <3>8. Front(low) \o tail = [k \in 1..n+1 |-> From(a, k)]
      <4> DEFINE s == Front(low) \o tail
                 t == [k \in 1..n+1 |-> From(a, k)]
      <4>1. s \in Seq(Spot) /\ Len(s) = n + 1
        <5>1. s \in Seq(Spot) /\ Len(s) = h + (n - h + 1)
          BY <3>4, <3>7, ConcatProperties
        <5> QED
          BY <3>1, <5>1
      <4>2. t \in Seq(Spot) /\ Len(t) = n + 1
        BY <1>5
      <4>3. ASSUME NEW k \in 1..n+1
            PROVE  s[k] = From(a, k)
        <5>1. CASE k <= h
          BY <3>1, <3>4, <3>7, <5>1, ConcatProperties
        <5>2. CASE ~(k <= h)
          <6>1. k - h \in 1..(n - h)+1 /\ h + (k - h) = k
            BY <3>1, <5>2
          <6>2. s[k] = tail[k - h]
            BY <3>1, <3>4, <3>7, <5>2, <6>1, ConcatProperties
          <6> QED
            BY <3>7, <6>1, <6>2
        <5> QED
          BY <5>1, <5>2
      <4>4. \A k \in 1..n+1 : t[k] = From(a, k)
        OBVIOUS
      <4> HIDE DEF s, t
      <4>5. s = t
        BY <4>1, <4>2, <4>3, <4>4, SeqEqual
      <4> QED
        BY <4>5 DEF s, t
    <3>9. Body(G, n, a) = Front(low) \o tail
      <4>1. Body(G, n, a) = Front(low) \o [k \in DOMAIN high |-> Past(Last(low), high[k])]
        BY <2>3, <3>1, <3>2 DEF Body
      <4>2. DOMAIN high = 1..(n - h)+1
        BY DEF high
      <4> QED
        BY <3>5, <4>1, <4>2 DEF tail
    <3> QED
      BY <3>2, <3>8, <3>9
  <2> QED
    BY <2>1, <2>2, <2>3
<1>8. G = [n \in Nat |-> [a \in Nat |-> Body(G, n, a)]]
  <2>1. G = [n \in Nat |-> G[n]] /\ \A n \in Nat : G[n] = [a \in Nat |-> G[n][a]]
    BY DEF G
  <2>2. \A n \in Nat : G[n] = [a \in Nat |-> Body(G, n, a)]
    BY <1>7, <2>1
  <2> QED
    BY <2>1, <2>2
<1>9. Part = [n \in Nat |-> [a \in Nat |-> Body(Part, n, a)]]
  BY <1>8 DEF Part
<1>10. \A n \in Nat : Part[n] = G[n]
  <2> DEFINE Same == {n \in Nat : \A m \in 0..n : Part[m] = G[m]}
  <2>1. ASSUME NEW n \in Nat, \A m \in 0..n-1 : Part[m] = G[m]
        PROVE  Part[n] = G[n]
    <3>1. ASSUME NEW a \in Nat
          PROVE  Body(Part, n, a) = Body(G, n, a)
      <4>1. CASE n = 0 \/ n = 1
        BY <4>1 DEF Body
      <4>2. CASE n # 0 /\ n # 1
        <5>1. n \div 2 \in 0..n-1 /\ n - n \div 2 \in 0..n-1
          BY <4>2
        <5>2. Part[n \div 2] = G[n \div 2] /\ Part[n - n \div 2] = G[n - n \div 2]
          BY <2>1, <5>1
        <5> QED
          BY <4>2, <5>2 DEF Body
      <4> QED
        BY <4>1, <4>2
    <3>2. Part[n] = [a \in Nat |-> Body(Part, n, a)] /\ G[n] = [a \in Nat |-> Body(G, n, a)]
      BY <1>8, <1>9
    <3> QED
      BY <3>1, <3>2
  <2>2. 0 \in Same
    BY <2>1
  <2>3. ASSUME NEW n \in Nat, n \in Same
        PROVE  n + 1 \in Same
    <3>1. \A m \in 0..n : Part[m] = G[m]
      BY <2>3
    <3>2. Part[n + 1] = G[n + 1]
      BY <3>1, <2>1
    <3>3. \A m \in 0..n+1 : m \in 0..n \/ m = n + 1
      OBVIOUS
    <3> QED
      BY <3>1, <3>2, <3>3 DEF Same
  <2> HIDE DEF Same
  <2>4. Nat \subseteq Same
    BY <2>2, <2>3, NatSetInduction
  <2>5. ASSUME NEW n \in Nat
        PROVE  Part[n] = G[n]
    <3>1. n \in Same /\ n \in 0..n
      BY <2>4
    <3> QED
      BY <3>1 DEF Same
  <2> QED
    BY <2>5
<1>11. Layout(prog) = Part[Len(prog)][1]
  BY DEF Layout, Part, Body
<1>12. Layout(prog) = [k \in 1..Len(prog)+1 |-> From(1, k)]
  <2>1. Len(prog) \in Nat
    BY LenProperties
  <2>2. G[Len(prog)][1] = [k \in 1..Len(prog)+1 |-> From(1, k)]
    BY <2>1 DEF G
  <2> QED
    BY <1>10, <1>11, <2>1, <2>2
<1>13. ASSUME NEW k \in 1..Len(prog)
       PROVE  From(1, k + 1) = Past(From(1, k), Taken(prog[k]))
  <2>1. k - 1 \in Nat /\ (k - 1) + 1 = k /\ 1 + (k - 1) = k /\ (k - 1) + 2 = k + 1
    OBVIOUS
  <2>2. Past(From(1, (k - 1) + 1), From(1 + (k - 1), 2)) = From(1, (k - 1) + 2)
    <3>1. \A h \in Nat : Past(From(1, h + 1), From(1 + h, 2)) = From(1, h + 2)
      BY <1>5
    <3> QED
      BY <2>1, <3>1
  <2>3. From(k, 2) = Taken(prog[k])
    BY <1>5
  <2> QED
    BY <2>1, <2>2, <2>3
<1>14. Len(prog) \in Nat
  BY LenProperties
<1>15. \A k \in 1..Len(prog)+1 : From(1, k) \in Spot
  BY <1>5
<1>16. /\ Layout(prog) \in Seq(Spot) /\ Len(Layout(prog)) = Len(prog) + 1
       /\ \A k \in 1..Len(prog)+1 : Layout(prog)[k] = From(1, k)
  BY <1>12, <1>14, <1>15
<1>17. Layout(prog)[1] = Start
  BY <1>5, <1>14, <1>16
<1>18. \A k \in 1..Len(prog) : k \in 1..Len(prog)+1 /\ k + 1 \in 1..Len(prog)+1
  BY <1>14
<1> QED
  BY <1>13, <1>16, <1>17, <1>18 DEF LaidOut

\* The order of the numbers.
LEMMA LeqLeq ==
  ASSUME NEW x \in Int, NEW y \in Int, NEW z \in Int, x <= y, y <= z
  PROVE  x <= z
OBVIOUS

\* Offsets grow by a byte at least, ids do not go back.
LEMMA LayoutGrows ==
  ASSUME NEW T, NEW prog \in Seq(T), NEW l, LaidOut(l, prog)
  PROVE  \A n \in 1..Len(prog)+1 :
           /\ l[n].at \in Nat /\ l[n].id \in Nat /\ l[n].prod \in Nat
           /\ \A j \in 1..n : /\ l[j].at <= l[n].at /\ l[j].id <= l[n].id
                              /\ l[j].prod <= l[n].prod
<1> DEFINE Good(n) == /\ l[n].at \in Nat /\ l[n].id \in Nat /\ l[n].prod \in Nat
                      /\ \A j \in 1..n : /\ l[j].at <= l[n].at /\ l[j].id <= l[n].id
                                         /\ l[j].prod <= l[n].prod
           T1 == {n \in Nat : n + 1 \in 1..Len(prog)+1 => Good(n + 1)}
<1>1. Len(prog) \in Nat
  BY LenProperties
<1>2. Good(1)
  BY DEF LaidOut, Start
<1>3. ASSUME NEW n \in 1..Len(prog), Good(n)
      PROVE  Good(n + 1)
  <2>1. l[n + 1] = Past(l[n], Taken(prog[n]))
    BY DEF LaidOut
  <2>2. /\ Taken(prog[n]).at \in Nat /\ Taken(prog[n]).id \in Nat
        /\ Taken(prog[n]).prod \in Nat
    BY TakenIs
  <2>3. /\ l[n + 1].at = l[n].at + Taken(prog[n]).at
        /\ l[n + 1].id = l[n].id + Taken(prog[n]).id
        /\ l[n + 1].prod = l[n].prod + Taken(prog[n]).prod
    BY <2>1 DEF Past
  <2>4. l[n].at \in Nat /\ l[n].id \in Nat /\ l[n].prod \in Nat
    BY <1>3
  <2>5. /\ l[n + 1].at \in Nat /\ l[n + 1].id \in Nat /\ l[n + 1].prod \in Nat
        /\ l[n].at <= l[n + 1].at /\ l[n].id <= l[n + 1].id /\ l[n].prod <= l[n + 1].prod
    <3>1. l[n + 1].at \in Nat /\ l[n].at <= l[n + 1].at
      BY <2>2, <2>3, <2>4
    <3>2. l[n + 1].id \in Nat /\ l[n].id <= l[n + 1].id
      BY <2>2, <2>3, <2>4
    <3>3. l[n + 1].prod \in Nat /\ l[n].prod <= l[n + 1].prod
      BY <2>2, <2>3, <2>4
    <3> QED
      BY <3>1, <3>2, <3>3
  <2>6. ASSUME NEW j \in 1..n+1
        PROVE  l[j].at <= l[n + 1].at /\ l[j].id <= l[n + 1].id /\ l[j].prod <= l[n + 1].prod
    <3>1. CASE j = n + 1
      BY <2>5, <3>1
    <3>2. CASE j # n + 1
      <4>1. j \in 1..n /\ j \in 1..Len(prog)+1
        BY <3>2, <1>1
      <4>2. l[j] \in Spot
        BY <1>1, <4>1, ElementOfSeq DEF LaidOut
      <4>3. l[j].at <= l[n].at /\ l[j].id <= l[n].id /\ l[j].prod <= l[n].prod
        BY <1>3, <4>1
      <4>4. l[j].at \in Int /\ l[j].id \in Int /\ l[j].prod \in Int
        BY <4>2 DEF Spot
      <4>5. l[j].at <= l[n + 1].at
        BY <2>4, <2>5, <4>3, <4>4, LeqLeq
      <4>6. l[j].id <= l[n + 1].id
        BY <2>4, <2>5, <4>3, <4>4, LeqLeq
      <4>7. l[j].prod <= l[n + 1].prod
        BY <2>4, <2>5, <4>3, <4>4, LeqLeq
      <4> QED
        BY <4>5, <4>6, <4>7
    <3> QED
      BY <3>1, <3>2
  <2> QED
    BY <2>5, <2>6
<1> HIDE DEF Good
<1>4. 0 \in T1
  BY <1>2
<1>5. ASSUME NEW n \in Nat, n \in T1
      PROVE  n + 1 \in T1
  <2>1. SUFFICES ASSUME n + 1 + 1 \in 1..Len(prog)+1
                 PROVE  Good(n + 1 + 1)
    OBVIOUS
  <2>2. n + 1 \in 1..Len(prog) /\ n + 1 \in 1..Len(prog)+1
    BY <1>1, <2>1
  <2> QED
    BY <1>3, <1>5, <2>2
<1> HIDE DEF T1
<1>6. Nat \subseteq T1
  BY <1>4, <1>5, NatSetInduction
<1>7. ASSUME NEW n \in 1..Len(prog)+1
      PROVE  Good(n)
  <2>1. n - 1 \in Nat /\ (n - 1) + 1 = n
    BY <1>1
  <2>2. n - 1 \in T1
    BY <1>6, <2>1
  <2> QED
    BY <2>1, <2>2 DEF T1
<1> QED
  BY <1>7 DEF Good

\* The layout of the first instructions does not depend on the others.
LEMMA LayoutOfPrefix ==
  ASSUME NEW T, NEW prog \in Seq(T), NEW n \in 0..Len(prog), NEW l, LaidOut(l, prog),
         NEW m, LaidOut(m, SubSeq(prog, 1, n))
  PROVE  Len(m) = n + 1 /\ \A k \in 1..n+1 : m[k] = l[k]
<1>1. Len(prog) \in Nat /\ n \in Nat
  BY LenProperties
<1>2. Len(SubSeq(prog, 1, n)) = n /\ \A k \in 1..n : SubSeq(prog, 1, n)[k] = prog[k]
  BY <1>1, SubSeqProperties
<1> DEFINE T1 == {k \in Nat : k <= n => m[k + 1] = l[k + 1]}
<1>3. 0 \in T1
  BY DEF LaidOut
<1>4. ASSUME NEW k \in Nat, k \in T1
      PROVE  k + 1 \in T1
  <2>1. SUFFICES ASSUME k + 1 <= n
                 PROVE  m[k + 1 + 1] = l[k + 1 + 1]
    OBVIOUS
  <2>2. k + 1 \in 1..n /\ k + 1 \in 1..Len(prog) /\ k <= n
    BY <1>1, <2>1
  <2>3. m[k + 1] = l[k + 1]
    BY <1>4, <2>2
  <2>4. /\ m[k + 1 + 1] = Past(m[k + 1], Taken(prog[k + 1]))
        /\ l[k + 1 + 1] = Past(l[k + 1], Taken(prog[k + 1]))
    BY <1>2, <2>2 DEF LaidOut
  <2> QED
    BY <2>3, <2>4
<1> HIDE DEF T1
<1>5. Nat \subseteq T1
  BY <1>3, <1>4, NatSetInduction
<1>6. ASSUME NEW k \in 1..n+1
      PROVE  m[k] = l[k]
  <2>1. k - 1 \in Nat /\ k - 1 <= n /\ (k - 1) + 1 = k
    BY <1>1
  <2>2. k - 1 \in T1
    BY <1>5, <2>1
  <2> QED
    BY <2>1, <2>2 DEF T1
<1> QED
  BY <1>2, <1>6 DEF LaidOut
-----------------------------------------------------------------------------
(* Types.                                                                  *)

\* The instructions of all files, and what memory and pools hold of them.
Insts == UNION {Range(f.body) : f \in Files}
Cell  == {i.op : i \in Insts} \cup {i.set : i \in Insts} \cup UInt8
\* The texts come from two fields.
Texts == {i.str : i \in Insts} \cup {i.value : i \in Insts}

\* Memory and pools are lists.
Listed ==
  /\ mem \in Seq(Cell)
  /\ prod_names \in Seq({i.name : i \in Insts})
  /\ sets \in Seq({i.set : i \in Insts})
  /\ strs \in Seq(Texts)
  /\ tags \in Seq({i.tag : i \in Insts})
  /\ tables \in Seq({i.table : i \in Insts})

\* What the file gives.
LEMMA FileIs ==
  ASSUME file \in Files
  PROVE  /\ file.body \in Seq(Insts) /\ Len(file.body) \in Nat
         /\ file.length.low \in Nat /\ file.length.high \in Nat
         /\ file.size.low \in Nat /\ file.size.high \in Nat
         /\ file.prods \in UInt16 /\ file.sets \in UInt16 /\ file.strs \in UInt16
         /\ file.tags \in UInt16 /\ file.tables \in UInt16
         /\ \A k \in 1..Len(file.body) : Operands(file.body[k]) /\ file.body[k] \in Insts
<1>0. FileOK(file)
  BY FilesAssumption
<1>1. file.body \in Seq(Range(file.body))
  BY <1>0 DEF FileOK
<1>2. Len(file.body) \in Nat /\ DOMAIN file.body = 1..Len(file.body)
  BY <1>1, LenProperties
<1>3. Range(file.body) \subseteq Insts
  BY DEF Insts
<1>4. \A k \in 1..Len(file.body) : file.body[k] \in Insts
  BY <1>2, <1>3 DEF Range
<1>5. file.body \in Seq(Insts)
  BY <1>1, <1>3, SeqMonotonic
<1>6. \A k \in 1..Len(file.body) : Operands(file.body[k])
  BY <1>0, <1>2 DEF FileOK
<1>7. /\ file.length.low \in Nat /\ file.length.high \in Nat
      /\ file.size.low \in Nat /\ file.size.high \in Nat
  <2>1. \A n \in 0..MaxInt : n \in Nat
    OBVIOUS
  <2> QED
    BY <1>0, <2>1 DEF FileOK
<1>8. /\ file.prods \in UInt16 /\ file.sets \in UInt16 /\ file.strs \in UInt16
      /\ file.tags \in UInt16 /\ file.tables \in UInt16
  BY <1>0 DEF FileOK
<1> QED
  BY <1>2, <1>4, <1>5, <1>6, <1>7, <1>8

\* The instruction read next is one of the file's.
LEMMA InstIs ==
  ASSUME file \in Files, index \in Nat, index < Len(file.body)
  PROVE  /\ index + 1 \in 1..Len(file.body) /\ Inst = file.body[index + 1]
         /\ Operands(Inst) /\ Inst \in Insts /\ Inst.op \in Cell
<1>1. index + 1 \in 1..Len(file.body)
  <2>1. index < Len(file.body) /\ Len(file.body) \in Nat
    BY FileIs
  <2> QED
    BY <2>1
<1>2. Inst = file.body[index + 1]
  BY DEF Inst
<1>3. Operands(Inst) /\ Inst \in Insts
  BY <1>1, <1>2, FileIs
<1> QED
  BY <1>1, <1>2, <1>3 DEF Cell

\* A byte each.
LEMMA WordCells ==
  ASSUME NEW v \in Int
  PROVE  Word(v) \in Seq(Cell) /\ Len(Word(v)) = 2 /\ Word(v)[1] \in UInt8 /\ Word(v)[2] \in UInt8
<1>1. v % 256 \in UInt8 /\ (v \div 256) % 256 \in UInt8
  BY DEF UInt8
<1> QED
  BY <1>1 DEF Word, Cell

\* t is s with something behind it, or s.
Kept(s, t) == /\ Len(s) \in Nat /\ Len(t) \in Nat /\ Len(s) <= Len(t)
              /\ \A i \in 1..Len(s) : t[i] = s[i]

\* A list keeps itself.
LEMMA KeptSame ==
  ASSUME NEW T, NEW s \in Seq(T)
  PROVE  Kept(s, s)
BY LenProperties DEF Kept

\* Appending keeps a list, and ends it with the new entry.
LEMMA KeptAppend ==
  ASSUME NEW T, NEW s \in Seq(T), NEW e \in T
  PROVE  /\ Append(s, e) \in Seq(T) /\ Kept(s, Append(s, e))
         /\ Len(Append(s, e)) = Len(s) + 1 /\ Append(s, e)[Len(s) + 1] = e
<1>1. Len(s) \in Nat
  BY LenProperties
<1>2. /\ Append(s, e) \in Seq(T) /\ Len(Append(s, e)) = Len(s) + 1
      /\ \A i \in 1..Len(s) : Append(s, e)[i] = s[i]
      /\ Append(s, e)[Len(s) + 1] = e
  BY AppendProperties
<1> QED
  BY <1>1, <1>2 DEF Kept

\* The rest of what Write does.
Passed == /\ index' = index + 1 /\ file' = file
          /\ bytecode_length' = bytecode_length /\ bytecode_size' = bytecode_size
          /\ status' = IF InBounds' /\ SetFits(Inst) THEN status ELSE "undefined"

\* What Write leaves.
LEMMA WriteIs ==
  ASSUME mem \in Seq(Cell), Inst.op \in Cell, NEW t \in Seq(Cell), Write(t)
  PROVE  /\ mem' \in Seq(Cell) /\ Kept(mem, mem') /\ Len(mem) \in Nat /\ Len(t) \in Nat
         /\ Len(mem') = Len(mem) + 1 + Len(t)
         /\ mem'[Len(mem) + 1] = Inst.op
         /\ \A j \in 1..Len(t) : mem'[Len(mem) + 1 + j] = t[j]
         /\ Passed
<1> DEFINE e == Inst.op
           s == Append(mem, e)
<1>1. mem' = (mem \o <<e>>) \o t /\ Passed
  BY DEF Write, Passed, header
<1>2. Len(mem) \in Nat /\ Len(t) \in Nat
  BY LenProperties
<1> HIDE DEF e
<1>3. mem \o <<e>> = s
  BY AppendIsConcat DEF e
<1>4. /\ s \in Seq(Cell) /\ Kept(mem, s) /\ Len(s) = Len(mem) + 1 /\ s[Len(mem) + 1] = e
  BY KeptAppend DEF e
<1> HIDE DEF s
<1>5. /\ s \o t \in Seq(Cell) /\ Len(s \o t) = Len(s) + Len(t)
      /\ \A i \in 1..Len(s)+Len(t) : (s \o t)[i] = IF i <= Len(s) THEN s[i] ELSE t[i - Len(s)]
  BY <1>4, ConcatProperties
<1>6. mem' = s \o t
  BY <1>1, <1>3
<1>7. Len(mem') = Len(mem) + 1 + Len(t)
  BY <1>2, <1>4, <1>5, <1>6
<1>8. ASSUME NEW i \in 1..Len(mem)+1
      PROVE  mem'[i] = s[i]
  <2>1. i \in 1..Len(s)+Len(t) /\ i <= Len(s)
    BY <1>2, <1>4
  <2> QED
    BY <1>5, <1>6, <2>1
<1>9. ASSUME NEW j \in 1..Len(t)
      PROVE  mem'[Len(mem) + 1 + j] = t[j]
  <2>1. /\ Len(mem) + 1 + j \in 1..Len(s)+Len(t) /\ ~(Len(mem) + 1 + j <= Len(s))
        /\ Len(mem) + 1 + j - Len(s) = j
    BY <1>2, <1>4
  <2> QED
    BY <1>5, <1>6, <2>1
<1>10. Kept(mem, mem')
  BY <1>2, <1>4, <1>7, <1>8 DEF Kept
<1>11. mem'[Len(mem) + 1] = e
  BY <1>2, <1>4, <1>8
<1> QED
  BY <1>1, <1>2, <1>5, <1>6, <1>7, <1>9, <1>10, <1>11 DEF e

\* What a range of numbers says.
LEMMA RangeIs ==
  ASSUME NEW a \in Int, NEW k \in Int, NEW v \in a..k-1
  PROVE  v \in Int /\ a <= v /\ v < k
OBVIOUS

\* The numbers of a word are integers.
LEMMA UInt16Is ==
  ASSUME NEW v \in UInt16
  PROVE  v \in Int /\ 0 <= v /\ v < 256 * 256
<1>1. 0 \in Int /\ 256 * 256 \in Int
  OBVIOUS
<1>2. v \in 0..256*256-1
  BY DEF UInt16
<1> QED
  BY <1>1, <1>2, RangeIs

\* So are those of a word with a sign.
LEMMA Int16Is ==
  ASSUME NEW v \in Int16
  PROVE  v \in Int /\ -(128 * 256) <= v /\ v < 128 * 256
<1>1. -(128 * 256) \in Int /\ 128 * 256 \in Int
  OBVIOUS
<1>2. v \in -(128 * 256)..128*256-1
  BY DEF Int16
<1> QED
  BY <1>1, <1>2, RangeIs

\* And the other way round.
LEMMA Int16From ==
  ASSUME NEW v \in Int, -(128 * 256) <= v, v < 128 * 256
  PROVE  v \in Int16
<1> DEFINE a == -(128 * 256)
           k == 128 * 256
<1>1. a \in Int /\ k \in Int /\ a <= v /\ v < k
  OBVIOUS
<1> HIDE DEF a, k
<1>2. v \in a..k-1
  BY <1>1
<1> QED
  BY <1>2 DEF a, k, Int16

\* What is read back of a word.
LEMMA WordReads ==
  ASSUME NEW v \in UInt16
  PROVE  Word(v)[1] + 256 * Word(v)[2] = v
<1>1. v \in Int /\ 0 <= v /\ v < 256 * 256
  BY UInt16Is
<1>2. (v % 256) + 256 * ((v \div 256) % 256) = v
  BY <1>1
<1>3. Word(v)[1] = v % 256 /\ Word(v)[2] = (v \div 256) % 256
  BY DEF Word
<1> QED
  BY <1>2, <1>3

\* And of a word with a sign.
LEMMA SignedWordReads ==
  ASSUME NEW v \in Int16, NEW u, u = Word(v)[1] + 256 * Word(v)[2]
  PROVE  v = IF u < 32768 THEN u ELSE u - 65536
<1>1. v \in Int /\ -(128 * 256) <= v /\ v < 128 * 256
  BY Int16Is
<1>2. (v % 256) + 256 * ((v \div 256) % 256) = IF v < 0 THEN v + 65536 ELSE v
  BY <1>1
<1>3. Word(v)[1] = v % 256 /\ Word(v)[2] = (v \div 256) % 256
  BY DEF Word
<1>4. u = IF v < 0 THEN v + 65536 ELSE v
  BY <1>2, <1>3
<1> QED
  BY <1>1, <1>4

\* Converting to 16 bits keeps what has them.
LEMMA Int16OfIs ==
  ASSUME NEW v \in Int
  PROVE  Int16Of(v) \in Int16 /\ (v \in Int16 => Int16Of(v) = v)
<1>1. /\ Int16Of(v) = ((v + 32768) % 65536) - 32768
      /\ (v + 32768) % 65536 \in Int
      /\ 0 <= (v + 32768) % 65536 /\ (v + 32768) % 65536 < 65536
  BY DEF Int16Of
<1>2. Int16Of(v) \in Int /\ -(128 * 256) <= Int16Of(v) /\ Int16Of(v) < 128 * 256
  BY <1>1
<1>3. Int16Of(v) \in Int16
  BY <1>2, Int16From
<1>4. ASSUME v \in Int16
      PROVE  Int16Of(v) = v
  <2>1. -32768 <= v /\ v < 32768
    BY <1>4, Int16Is
  <2>2. 0 <= v + 32768 /\ v + 32768 < 65536
    BY <2>1
  <2>3. (v + 32768) % 65536 = v + 32768
    BY <2>2
  <2> QED
    BY <1>1, <2>3
<1> QED
  BY <1>3, <1>4

\* The distance written is the one the file means, when that has 16 bits.
LEMMA DistanceIs ==
  ASSUME NEW i, i.jump \in UInt16
  PROVE  /\ Distance(i) \in Int16 /\ Distance(i) \in Int
         /\ Meant(i) \in Int16 => Distance(i) = Meant(i)
<1>1. i.jump \in Int /\ 0 <= i.jump /\ i.jump < 256 * 256
  BY UInt16Is
<1>2. /\ Int16Of(i.jump) \in Int16 /\ Int16Of(i.jump) \in Int
      /\ i.jump \in Int16 => Int16Of(i.jump) = i.jump
  BY <1>1, Int16OfIs, Int16Is
<1>3. CASE i.is_signed = 0
  <2> DEFINE d == Int16Of(i.jump)
  <2>1. Distance(i) = Int16Of(-d) /\ Meant(i) = -i.jump
    BY <1>3 DEF Distance, Meant
  <2>2. -d \in Int
    BY <1>2
  <2>3. Int16Of(-d) \in Int16 /\ Int16Of(-d) \in Int
    BY <2>2, Int16OfIs, Int16Is
  <2>4. ASSUME -i.jump \in Int16
        PROVE  Int16Of(-d) = -i.jump
    <3>1. -i.jump \in Int /\ -32768 <= -i.jump
      BY <1>1, <2>4, Int16Is
    <3>2. d = IF i.jump < 32768 THEN i.jump ELSE i.jump - 65536
      BY <1>1, <3>1 DEF Int16Of
    <3>3. -d = IF i.jump < 32768 THEN -i.jump ELSE 32768
      BY <1>1, <3>1, <3>2
    <3> HIDE DEF d
    <3>4. Int16Of(-i.jump) = -i.jump
      BY <2>4, <3>1, Int16OfIs
    <3>5. Int16Of(32768) = -32768
      BY DEF Int16Of
    <3> QED
      BY <1>1, <3>1, <3>3, <3>4, <3>5
  <2> QED
    BY <2>1, <2>3, <2>4
<1>4. CASE i.is_signed # 0
  BY <1>2, <1>4 DEF Distance, Meant
<1> QED
  BY <1>3, <1>4

\* And of a byte with one.
LEMMA SignedByteReads ==
  ASSUME NEW v \in Int8
  PROVE  v % 256 \in UInt8 /\ v = IF (v % 256) < 128 THEN v % 256 ELSE (v % 256) - 256
BY DEF Int8, UInt8
-----------------------------------------------------------------------------
(* Reading back.                                                           *)

\* What the handlers of op read at o lies in the block and in the pools.
Within(o, op) ==
  LET a == o + 1
      In(pool, b) == ReadU16(b) + 1 \in 1..Len(pool)
  IN  /\ o + 1 + OperandBytes(op) <= Len(mem)
      /\ op = "Nop" => In(prod_names, a)
      /\ op \in SetOps => In(sets, a)
      /\ op \in StrOps \cup {"TReplace"} => In(strs, a)
      /\ op \in TableOps => In(tables, a)
      /\ op \in {"TTag", "TLink"} => In(tags, a)
      /\ op = "TEnd" => In(tags, a + 1) /\ In(strs, a + 3)
      /\ op = "TFold" => ReadLabel(a + 1) + 1 \in 1..Len(tags)

\* Memory and pools are only added to.
Grown == /\ Kept(mem, mem') /\ Kept(prod_names, prod_names') /\ Kept(sets, sets')
         /\ Kept(strs, strs') /\ Kept(tags, tags') /\ Kept(tables, tables')

\* Cells that are there stay.
LEMMA CellsStay ==
  ASSUME Grown, NEW o \in Nat, NEW n \in Nat, o + 1 + n <= Len(mem)
  PROVE  /\ mem'[o + 1] = mem[o + 1]
         /\ o + 1 + n <= Len(mem')
         /\ \A j \in 1..n : mem'[o + 1 + j] = mem[o + 1 + j]
<1>1. /\ Len(mem) \in Nat /\ Len(mem') \in Nat /\ Len(mem) <= Len(mem')
      /\ \A i \in 1..Len(mem) : mem'[i] = mem[i]
  BY DEF Grown, Kept
<1>2. o + 1 \in 1..Len(mem)
  BY <1>1
<1>3. ASSUME NEW j \in 1..n
      PROVE  o + 1 + j \in 1..Len(mem)
  BY <1>1
<1> QED
  BY <1>1, <1>2, <1>3

\* An entry of a pool stays.
LEMMA EntryStays ==
  ASSUME NEW s, NEW t, Kept(s, t), NEW i, i \in 1..Len(s)
  PROVE  i \in 1..Len(t) /\ t[i] = s[i]
BY DEF Kept

\* How many bytes of operands the families have: one.
LEMMA Operand1 ==
  ASSUME NEW op, op \in ByteOps \cup {"Exit", "TBegin"}
  PROVE  OperandBytes(op) = 1
BY Zenon DEF OperandBytes, ByteOps

\* Two bytes: a word.
LEMMA Operand2 ==
  ASSUME NEW op,
         op \in SetOps \cup StrOps \cup TableOps \cup MemoOps
                \cup {"Nop", "Jump", "Alt", "TTag", "TLink", "TReplace"}
  PROVE  OperandBytes(op) = 2
BY Zenon DEF OperandBytes, SetOps, StrOps, TableOps, MemoOps

\* Four bytes: two words.
LEMMA Operand4 ==
  ASSUME NEW op, op \in LookupOps \cup {"Call"}
  PROVE  OperandBytes(op) = 4
BY Zenon DEF OperandBytes, LookupOps

\* A byte before a word, and before two.
LEMMA Operand35 ==
  OperandBytes("TFold") = 3 /\ OperandBytes("TEnd") = 5
<1>1. OperandBytes("TFold") = 3
  BY Zenon DEF OperandBytes
<1>2. OperandBytes("TEnd") = 5
  BY Zenon DEF OperandBytes
<1> QED
  BY <1>1, <1>2

\* The operands of an instruction that stays are read as before: a byte.
LEMMA Operands1Stay ==
  ASSUME Grown, NEW o \in Nat, o + 1 + 1 <= Len(mem)
  PROVE  /\ ReadU8(o + 1)' = ReadU8(o + 1)
         /\ ReadS8(o + 1)' = ReadS8(o + 1)
<1>1. \A j \in 1..1 : mem'[o + 1 + j] = mem[o + 1 + j]
  BY CellsStay
<1>2. mem'[o + 1 + 1] = mem[o + 1 + 1]
  BY <1>1
<1> QED
  BY <1>2 DEF ReadU8, ReadS8

\* A word.
LEMMA Operands2Stay ==
  ASSUME Grown, NEW o \in Nat, o + 1 + 2 <= Len(mem)
  PROVE  /\ ReadU16(o + 1)' = ReadU16(o + 1)
         /\ ReadS16(o + 1)' = ReadS16(o + 1)
<1>1. \A j \in 1..2 : mem'[o + 1 + j] = mem[o + 1 + j]
  BY CellsStay
<1>2. mem'[o + 1 + 1] = mem[o + 1 + 1]
  BY <1>1
<1>3. mem'[o + 1 + 2] = mem[o + 1 + 2]
  BY <1>1
<1> QED
  BY <1>2, <1>3 DEF ReadU16, ReadS16

\* A byte with a sign, and the label after it.
LEMMA Operands3Stay ==
  ASSUME Grown, NEW o \in Nat, o + 1 + 3 <= Len(mem)
  PROVE  /\ ReadS8(o + 1)' = ReadS8(o + 1)
         /\ ReadLabel(o + 1 + 1)' = ReadLabel(o + 1 + 1)
<1>1. \A j \in 1..3 : mem'[o + 1 + j] = mem[o + 1 + j]
  BY CellsStay
<1>2. mem'[o + 1 + 1] = mem[o + 1 + 1]
  BY <1>1
<1>3. mem'[o + 1 + 2] = mem[o + 1 + 2]
  BY <1>1
<1>4. mem'[o + 1 + 3] = mem[o + 1 + 3]
  BY <1>1
<1>5. /\ o + 1 + 1 + 1 = o + 1 + 2 /\ o + 1 + 1 + 2 = o + 1 + 3
      /\ o + 1 + 2 + 1 = o + 1 + 3 /\ o + 1 + 2 + 2 = o + 1 + 4
      /\ o + 1 + 3 + 1 = o + 1 + 4 /\ o + 1 + 3 + 2 = o + 1 + 5
  OBVIOUS
<1> QED
  BY <1>2, <1>3, <1>4, <1>5 DEF ReadS8, ReadU16, ReadLabel

\* Two words.
LEMMA Operands4Stay ==
  ASSUME Grown, NEW o \in Nat, o + 1 + 4 <= Len(mem)
  PROVE  /\ ReadU16(o + 1)' = ReadU16(o + 1)
         /\ ReadS16(o + 1)' = ReadS16(o + 1)
         /\ ReadU16(o + 1 + 2)' = ReadU16(o + 1 + 2)
         /\ ReadS16(o + 1 + 2)' = ReadS16(o + 1 + 2)
<1>1. \A j \in 1..4 : mem'[o + 1 + j] = mem[o + 1 + j]
  BY CellsStay
<1>2. mem'[o + 1 + 1] = mem[o + 1 + 1]
  BY <1>1
<1>3. mem'[o + 1 + 2] = mem[o + 1 + 2]
  BY <1>1
<1>4. mem'[o + 1 + 3] = mem[o + 1 + 3]
  BY <1>1
<1>5. mem'[o + 1 + 4] = mem[o + 1 + 4]
  BY <1>1
<1>6. /\ o + 1 + 1 + 1 = o + 1 + 2 /\ o + 1 + 1 + 2 = o + 1 + 3
      /\ o + 1 + 2 + 1 = o + 1 + 3 /\ o + 1 + 2 + 2 = o + 1 + 4
      /\ o + 1 + 3 + 1 = o + 1 + 4 /\ o + 1 + 3 + 2 = o + 1 + 5
  OBVIOUS
<1> QED
  BY <1>2, <1>3, <1>4, <1>5, <1>6 DEF ReadU16, ReadS16

\* A byte with a sign and two words.
LEMMA Operands5Stay ==
  ASSUME Grown, NEW o \in Nat, o + 1 + 5 <= Len(mem)
  PROVE  /\ ReadS8(o + 1)' = ReadS8(o + 1)
         /\ ReadU16(o + 1 + 1)' = ReadU16(o + 1 + 1)
         /\ ReadU16(o + 1 + 3)' = ReadU16(o + 1 + 3)
<1>1. \A j \in 1..5 : mem'[o + 1 + j] = mem[o + 1 + j]
  BY CellsStay
<1>2. mem'[o + 1 + 1] = mem[o + 1 + 1]
  BY <1>1
<1>3. mem'[o + 1 + 2] = mem[o + 1 + 2]
  BY <1>1
<1>4. mem'[o + 1 + 3] = mem[o + 1 + 3]
  BY <1>1
<1>5. mem'[o + 1 + 4] = mem[o + 1 + 4]
  BY <1>1
<1>6. mem'[o + 1 + 5] = mem[o + 1 + 5]
  BY <1>1
<1>7. /\ o + 1 + 1 + 1 = o + 1 + 2 /\ o + 1 + 1 + 2 = o + 1 + 3
      /\ o + 1 + 2 + 1 = o + 1 + 3 /\ o + 1 + 2 + 2 = o + 1 + 4
      /\ o + 1 + 3 + 1 = o + 1 + 4 /\ o + 1 + 3 + 2 = o + 1 + 5
  OBVIOUS
<1> QED
  BY <1>2, <1>3, <1>4, <1>5, <1>6, <1>7 DEF ReadS8, ReadU16

\* What the handlers of an instruction read stays when more has been loaded.
LEMMA EntriesStay ==
  ASSUME Grown, NEW o \in Nat, NEW op, Within(o, op)
  PROVE  /\ Within(o, op)'
         /\ \A i : i.op = op /\ Reads(o, i) => Reads(o, i)'
<1>1. ASSUME op = "Nop"
     PROVE  /\ ReadU16(o + 1)' + 1 \in 1..Len(prod_names')
            /\ prod_names'[ReadU16(o + 1)' + 1] = prod_names[ReadU16(o + 1) + 1]
  <2>1. OperandBytes(op) = 2
    BY <1>1, Operand2
  <2>2. o + 1 + 2 <= Len(mem) /\ ReadU16(o + 1) + 1 \in 1..Len(prod_names)
    BY <1>1, <2>1 DEF Within
  <2>3. ReadU16(o + 1)' = ReadU16(o + 1)
    BY <2>2, Operands2Stay
  <2>4. Kept(prod_names, prod_names')
    BY DEF Grown
  <2> QED
    BY <2>2, <2>3, <2>4, EntryStays
<1>2. ASSUME op \in SetOps
     PROVE  /\ ReadU16(o + 1)' + 1 \in 1..Len(sets')
            /\ sets'[ReadU16(o + 1)' + 1] = sets[ReadU16(o + 1) + 1]
  <2>1. OperandBytes(op) = 2
    BY <1>2, Operand2
  <2>2. o + 1 + 2 <= Len(mem) /\ ReadU16(o + 1) + 1 \in 1..Len(sets)
    BY <1>2, <2>1 DEF Within
  <2>3. ReadU16(o + 1)' = ReadU16(o + 1)
    BY <2>2, Operands2Stay
  <2>4. Kept(sets, sets')
    BY DEF Grown
  <2> QED
    BY <2>2, <2>3, <2>4, EntryStays
<1>3. ASSUME op \in StrOps \cup {"TReplace"}
     PROVE  /\ ReadU16(o + 1)' + 1 \in 1..Len(strs')
            /\ strs'[ReadU16(o + 1)' + 1] = strs[ReadU16(o + 1) + 1]
  <2>1. OperandBytes(op) = 2
    BY <1>3, Operand2
  <2>2. o + 1 + 2 <= Len(mem) /\ ReadU16(o + 1) + 1 \in 1..Len(strs)
    BY <1>3, <2>1 DEF Within
  <2>3. ReadU16(o + 1)' = ReadU16(o + 1)
    BY <2>2, Operands2Stay
  <2>4. Kept(strs, strs')
    BY DEF Grown
  <2> QED
    BY <2>2, <2>3, <2>4, EntryStays
<1>4. ASSUME op \in TableOps
     PROVE  /\ ReadU16(o + 1)' + 1 \in 1..Len(tables')
            /\ tables'[ReadU16(o + 1)' + 1] = tables[ReadU16(o + 1) + 1]
  <2>1. OperandBytes(op) = 2
    BY <1>4, Operand2
  <2>2. o + 1 + 2 <= Len(mem) /\ ReadU16(o + 1) + 1 \in 1..Len(tables)
    BY <1>4, <2>1 DEF Within
  <2>3. ReadU16(o + 1)' = ReadU16(o + 1)
    BY <2>2, Operands2Stay
  <2>4. Kept(tables, tables')
    BY DEF Grown
  <2> QED
    BY <2>2, <2>3, <2>4, EntryStays
<1>5. ASSUME op \in {"TTag", "TLink"}
     PROVE  /\ ReadU16(o + 1)' + 1 \in 1..Len(tags')
            /\ tags'[ReadU16(o + 1)' + 1] = tags[ReadU16(o + 1) + 1]
  <2>1. OperandBytes(op) = 2
    BY <1>5, Operand2
  <2>2. o + 1 + 2 <= Len(mem) /\ ReadU16(o + 1) + 1 \in 1..Len(tags)
    BY <1>5, <2>1 DEF Within
  <2>3. ReadU16(o + 1)' = ReadU16(o + 1)
    BY <2>2, Operands2Stay
  <2>4. Kept(tags, tags')
    BY DEF Grown
  <2> QED
    BY <2>2, <2>3, <2>4, EntryStays
<1>6. ASSUME op = "TEnd"
     PROVE  /\ ReadU16(o + 1 + 1)' + 1 \in 1..Len(tags')
            /\ tags'[ReadU16(o + 1 + 1)' + 1] = tags[ReadU16(o + 1 + 1) + 1]
  <2>1. OperandBytes(op) = 5
    BY <1>6, Operand35
  <2>2. o + 1 + 5 <= Len(mem) /\ ReadU16(o + 1 + 1) + 1 \in 1..Len(tags)
    BY <1>6, <2>1 DEF Within
  <2>3. ReadU16(o + 1 + 1)' = ReadU16(o + 1 + 1)
    BY <2>2, Operands5Stay
  <2>4. Kept(tags, tags')
    BY DEF Grown
  <2> QED
    BY <2>2, <2>3, <2>4, EntryStays
<1>7. ASSUME op = "TEnd"
     PROVE  /\ ReadU16(o + 1 + 3)' + 1 \in 1..Len(strs')
            /\ strs'[ReadU16(o + 1 + 3)' + 1] = strs[ReadU16(o + 1 + 3) + 1]
  <2>1. OperandBytes(op) = 5
    BY <1>7, Operand35
  <2>2. o + 1 + 5 <= Len(mem) /\ ReadU16(o + 1 + 3) + 1 \in 1..Len(strs)
    BY <1>7, <2>1 DEF Within
  <2>3. ReadU16(o + 1 + 3)' = ReadU16(o + 1 + 3)
    BY <2>2, Operands5Stay
  <2>4. Kept(strs, strs')
    BY DEF Grown
  <2> QED
    BY <2>2, <2>3, <2>4, EntryStays
<1>8. ASSUME op = "TFold"
     PROVE  /\ ReadLabel(o + 1 + 1)' + 1 \in 1..Len(tags')
            /\ tags'[ReadLabel(o + 1 + 1)' + 1] = tags[ReadLabel(o + 1 + 1) + 1]
  <2>1. OperandBytes(op) = 3
    BY <1>8, Operand35
  <2>2. o + 1 + 3 <= Len(mem) /\ ReadLabel(o + 1 + 1) + 1 \in 1..Len(tags)
    BY <1>8, <2>1 DEF Within
  <2>3. ReadLabel(o + 1 + 1)' = ReadLabel(o + 1 + 1)
    BY <2>2, Operands3Stay
  <2>4. Kept(tags, tags')
    BY DEF Grown
  <2> QED
    BY <2>2, <2>3, <2>4, EntryStays
<1>9. ASSUME op \in ByteOps \cup {"Exit", "TBegin"}
     PROVE  ReadU8(o + 1)' = ReadU8(o + 1) /\ ReadS8(o + 1)' = ReadS8(o + 1)
  <2>1. OperandBytes(op) = 1
    BY <1>9, Operand1
  <2>2. o + 1 + 1 <= Len(mem)
    BY <2>1 DEF Within
  <2> QED
    BY <2>2, Operands1Stay
<1>10. ASSUME op \in MemoOps \cup {"Jump", "Alt"}
       PROVE  ReadU16(o + 1)' = ReadU16(o + 1) /\ ReadS16(o + 1)' = ReadS16(o + 1)
  <2>1. OperandBytes(op) = 2
    BY <1>10, Operand2
  <2>2. o + 1 + 2 <= Len(mem)
    BY <2>1 DEF Within
  <2> QED
    BY <2>2, Operands2Stay
<1>11. ASSUME op \in {"TEnd", "TFold"}
       PROVE  ReadS8(o + 1)' = ReadS8(o + 1)
  <2>1. CASE op = "TFold"
    BY <2>1, Operand35, Operands3Stay DEF Within
  <2>2. CASE op = "TEnd"
    BY <2>2, Operand35, Operands5Stay DEF Within
  <2> QED
    BY <1>11, <2>1, <2>2
<1>12. ASSUME op \in LookupOps \cup {"Call"}
       PROVE  /\ ReadU16(o + 1)' = ReadU16(o + 1) /\ ReadS16(o + 1)' = ReadS16(o + 1)
              /\ ReadU16(o + 1 + 2)' = ReadU16(o + 1 + 2)
              /\ ReadS16(o + 1 + 2)' = ReadS16(o + 1 + 2)
  <2>1. OperandBytes(op) = 4
    BY <1>12, Operand4
  <2>2. o + 1 + 4 <= Len(mem)
    BY <2>1 DEF Within
  <2> QED
    BY <2>2, Operands4Stay
<1>13. mem'[o + 1] = mem[o + 1] /\ o + 1 + OperandBytes(op) <= Len(mem')
  <2>1. OperandBytes(op) \in Nat
    BY OperandIs
  <2>2. o + 1 + OperandBytes(op) <= Len(mem)
    BY DEF Within
  <2> QED
    BY <2>1, <2>2, CellsStay
<1>14. Within(o, op)'
  BY <1>1, <1>2, <1>3, <1>4, <1>5, <1>6, <1>7, <1>8, <1>13 DEF Within
<1>15. ASSUME NEW i, i.op = op, Reads(o, i)
       PROVE  Reads(o, i)'
  <2> DEFINE a == o + 1
  <2>1. /\ mem[o + 1] = i.op /\ mem'[o + 1] = i.op
        /\ ReadsControl(a, i) /\ ReadsTest(a, i) /\ ReadsTree(a, i) /\ ReadsMemo(a, i)
    BY <1>13, <1>15 DEF Reads
  <2>2. ReadsControl(a, i)'
    <3>1. op = "Nop" => Entry(prod_names, a)' = i.name
      BY <1>1, <1>15, <2>1 DEF ReadsControl, Entry
    <3>2. op = "Exit" => ReadU8(a)' = i.code
      BY <1>9, <1>15, <2>1 DEF ReadsControl
    <3>3. op = "Alt" => ReadU16(a)' = i.alt
      BY <1>10, <1>15, <2>1 DEF ReadsControl
    <3>4. op \in {"Jump", "Call"} => ReadsJump(a, i)'
      BY <1>10, <1>12, <1>15, <2>1 DEF ReadsControl, ReadsJump, Meant
    <3>5. op = "Call" => ReadU16(a + 2)' = i.ret
      BY <1>12, <1>15, <2>1 DEF ReadsControl
    <3> HIDE DEF a
    <3> QED
      BY <1>15, <3>1, <3>2, <3>3, <3>4, <3>5 DEF ReadsControl
  <2>3. ReadsTest(a, i)'
    <3>1. op \in ByteOps => ReadU8(a)' = i.set
      BY <1>9, <1>15, <2>1 DEF ReadsTest
    <3>2. op \in SetOps => Entry(sets, a)' = i.set
      BY <1>2, <1>15, <2>1 DEF ReadsTest, Entry
    <3>3. op \in StrOps => Entry(strs, a)' = i.str
      BY <1>3, <1>15, <2>1 DEF ReadsTest, Entry
    <3>4. op \in TableOps => Entry(tables, a)' = i.table
      BY <1>4, <1>15, <2>1 DEF ReadsTest, Entry
    <3> HIDE DEF a
    <3> QED
      BY <1>15, <3>1, <3>2, <3>3, <3>4 DEF ReadsTest
  <2>4. ReadsTree(a, i)'
    <3>1. op \in {"TBegin", "TEnd", "TFold"} => ReadS8(a)' = i.shift
      BY <1>9, <1>11, <1>15, <2>1 DEF ReadsTree
    <3>2. op = "TEnd" => Entry(tags, a + 1)' = i.tag /\ Entry(strs, a + 3)' = i.value
      BY <1>6, <1>7, <1>15, <2>1 DEF ReadsTree, Entry
    <3>3. op \in {"TTag", "TLink"} => Entry(tags, a)' = i.tag
      BY <1>5, <1>15, <2>1 DEF ReadsTree, Entry
    <3>4. op = "TReplace" => Entry(strs, a)' = i.value
      BY <1>3, <1>15, <2>1 DEF ReadsTree, Entry
    <3>5. op = "TFold" => tags'[ReadLabel(a + 1)' + 1] = i.tag
      BY <1>8, <1>15, <2>1 DEF ReadsTree
    <3> HIDE DEF a
    <3> QED
      BY <1>15, <3>1, <3>2, <3>3, <3>4, <3>5 DEF ReadsTree
  <2>5. ReadsMemo(a, i)'
    <3>1. op \in LookupOps \cup MemoOps => ReadU16(a)' = i.uid
      BY <1>10, <1>12, <1>15, <2>1 DEF ReadsMemo
    <3>2. op \in LookupOps => ReadsJump(a + 2, i)'
      BY <1>12, <1>15, <2>1 DEF ReadsMemo, ReadsJump, Meant
    <3> HIDE DEF a
    <3> QED
      BY <1>15, <3>1, <3>2 DEF ReadsMemo
  <2> QED
    BY <2>1, <2>2, <2>3, <2>4, <2>5 DEF Reads
<1> QED
  BY <1>14, <1>15
-----------------------------------------------------------------------------
(* Loading one instruction.                                                *)

\* Two lists put together.
LEMMA PutTogether ==
  ASSUME NEW T, NEW p \in Seq(T), NEW q \in Seq(T)
  PROVE  /\ p \o q \in Seq(T) /\ Len(p \o q) = Len(p) + Len(q)
         /\ \A i \in 1..Len(p) : (p \o q)[i] = p[i]
         /\ \A i \in 1..Len(q) : (p \o q)[Len(p) + i] = q[i]
<1>1. Len(p) \in Nat /\ Len(q) \in Nat
  BY LenProperties
<1>2. /\ p \o q \in Seq(T) /\ Len(p \o q) = Len(p) + Len(q)
      /\ \A i \in 1..Len(p)+Len(q) : (p \o q)[i] = IF i <= Len(p) THEN p[i] ELSE q[i - Len(p)]
  BY ConcatProperties
<1>3. ASSUME NEW i \in 1..Len(p)
      PROVE  (p \o q)[i] = p[i]
  <2>1. i \in 1..Len(p)+Len(q) /\ i <= Len(p)
    BY <1>1
  <2> QED
    BY <1>2, <2>1
<1>4. ASSUME NEW i \in 1..Len(q)
      PROVE  (p \o q)[Len(p) + i] = q[i]
  <2>1. /\ Len(p) + i \in 1..Len(p)+Len(q) /\ ~(Len(p) + i <= Len(p))
        /\ Len(p) + i - Len(p) = i
    BY <1>1
  <2> QED
    BY <1>2, <2>1
<1> QED
  BY <1>2, <1>3, <1>4

\* The cells of operands: a byte and a word.
LEMMA Cells3 ==
  ASSUME NEW x \in UInt8, NEW v \in Int
  PROVE  LET t == <<x>> \o Word(v)
         IN  /\ t \in Seq(Cell) /\ Len(t) = 3 /\ t[1] = x
             /\ t[2] = Word(v)[1] /\ t[3] = Word(v)[2]
<1> DEFINE p == <<x>>
           q == Word(v)
<1>1. p \in Seq(Cell) /\ Len(p) = 1 /\ p[1] = x
  BY DEF Cell
<1>2. q \in Seq(Cell) /\ Len(q) = 2
  BY WordCells
<1> HIDE DEF p, q
<1>3. /\ p \o q \in Seq(Cell) /\ Len(p \o q) = 1 + 2
      /\ \A i \in 1..1 : (p \o q)[i] = p[i]
      /\ \A i \in 1..2 : (p \o q)[1 + i] = q[i]
  <2>1. /\ p \o q \in Seq(Cell) /\ Len(p \o q) = Len(p) + Len(q)
        /\ \A i \in 1..Len(p) : (p \o q)[i] = p[i]
        /\ \A i \in 1..Len(q) : (p \o q)[Len(p) + i] = q[i]
    BY <1>1, <1>2, PutTogether
  <2> QED
    BY <1>1, <1>2, <2>1
<1>4. (p \o q)[1] = p[1] /\ (p \o q)[1 + 1] = q[1] /\ (p \o q)[1 + 2] = q[2]
  BY <1>3
<1> QED
  BY <1>1, <1>3, <1>4 DEF p, q

\* Two words.
LEMMA Cells4 ==
  ASSUME NEW u \in Int, NEW v \in Int
  PROVE  LET t == Word(u) \o Word(v)
         IN  /\ t \in Seq(Cell) /\ Len(t) = 4 /\ t[1] = Word(u)[1] /\ t[2] = Word(u)[2]
             /\ t[3] = Word(v)[1] /\ t[4] = Word(v)[2]
<1> DEFINE p == Word(u)
           q == Word(v)
<1>1. p \in Seq(Cell) /\ Len(p) = 2 /\ q \in Seq(Cell) /\ Len(q) = 2
  BY WordCells
<1> HIDE DEF p, q
<1>2. /\ p \o q \in Seq(Cell) /\ Len(p \o q) = 2 + 2
      /\ \A i \in 1..2 : (p \o q)[i] = p[i]
      /\ \A i \in 1..2 : (p \o q)[2 + i] = q[i]
  <2>1. /\ p \o q \in Seq(Cell) /\ Len(p \o q) = Len(p) + Len(q)
        /\ \A i \in 1..Len(p) : (p \o q)[i] = p[i]
        /\ \A i \in 1..Len(q) : (p \o q)[Len(p) + i] = q[i]
    BY <1>1, PutTogether
  <2> QED
    BY <1>1, <2>1
<1>3. /\ (p \o q)[1] = p[1] /\ (p \o q)[2] = p[2]
      /\ (p \o q)[2 + 1] = q[1] /\ (p \o q)[2 + 2] = q[2]
  BY <1>2
<1> QED
  BY <1>2, <1>3 DEF p, q

\* t is a byte and two words.
Five(t, x, u, v) ==
  /\ t \in Seq(Cell) /\ Len(t) = 5 /\ t[1] = x /\ t[2] = Word(u)[1]
  /\ t[3] = Word(u)[2] /\ t[4] = Word(v)[1] /\ t[5] = Word(v)[2]

\* So it is, put together.
LEMMA Cells5 ==
  ASSUME NEW x \in UInt8, NEW u \in Int, NEW v \in Int
  PROVE  Five(<<x>> \o Word(u) \o Word(v), x, u, v)
<1> DEFINE p == <<x>> \o Word(u)
           q == Word(v)
<1>1. /\ p \in Seq(Cell) /\ Len(p) = 3 /\ p[1] = x
      /\ p[2] = Word(u)[1] /\ p[3] = Word(u)[2]
  BY Cells3
<1>2. q \in Seq(Cell) /\ Len(q) = 2
  BY WordCells
<1> HIDE DEF p, q
<1>3. /\ p \o q \in Seq(Cell) /\ Len(p \o q) = 3 + 2
      /\ \A i \in 1..3 : (p \o q)[i] = p[i]
      /\ \A i \in 1..2 : (p \o q)[3 + i] = q[i]
  <2>0. p \in Seq(Cell) /\ q \in Seq(Cell)
    BY <1>1, <1>2
  <2>1. /\ p \o q \in Seq(Cell) /\ Len(p \o q) = Len(p) + Len(q)
        /\ \A i \in 1..Len(p) : (p \o q)[i] = p[i]
        /\ \A i \in 1..Len(q) : (p \o q)[Len(p) + i] = q[i]
    BY <2>0, PutTogether
  <2> QED
    BY <1>1, <1>2, <2>1
<1>4. /\ (p \o q)[1] = p[1] /\ (p \o q)[2] = p[2] /\ (p \o q)[3] = p[3]
      /\ (p \o q)[3 + 1] = q[1] /\ (p \o q)[3 + 2] = q[2]
  BY <1>3
<1> QED
  BY <1>1, <1>3, <1>4 DEF p, q, Five

\* A word that lies at b afterwards is read there.
LEMMA WordAt ==
  ASSUME NEW b \in Nat, NEW v \in UInt16, mem'[b + 1] = Word(v)[1], mem'[b + 2] = Word(v)[2]
  PROVE  ReadU16(b)' = v
BY WordReads DEF ReadU16

\* A word with a sign.
LEMMA SignedWordAt ==
  ASSUME NEW b \in Nat, NEW v \in Int16, mem'[b + 1] = Word(v)[1], mem'[b + 2] = Word(v)[2]
  PROVE  ReadS16(b)' = v
<1>1. ReadU16(b)' = Word(v)[1] + 256 * Word(v)[2]
  BY DEF ReadU16
<1>2. v = IF ReadU16(b)' < 32768 THEN ReadU16(b)' ELSE ReadU16(b)' - 65536
  BY <1>1, SignedWordReads
<1> QED
  BY <1>2 DEF ReadS16

\* A byte with a sign.
LEMMA SignedByteAt ==
  ASSUME NEW b \in Nat, NEW v \in Int8, mem'[b + 1] = v % 256
  PROVE  ReadS8(b)' = v
BY SignedByteReads DEF ReadS8

\* op and t lie at o afterwards, and end the memory.
Stored(o, op, t) ==
  /\ mem' \in Seq(Cell) /\ Kept(mem, mem') /\ Len(mem') = o + 1 + Len(t)
  /\ mem'[o + 1] = op /\ \A j \in 1..Len(t) : mem'[o + 1 + j] = t[j]
  /\ Passed

\* So do n cells of operands.
Lies(o, op, n) == \E t \in Seq(Cell) : Len(t) = n /\ Stored(o, op, t)

\* The operands at o tell i, or where its constants go.
Told(o, i) ==
  LET a == o + 1
  IN  /\ i.op = "Nop"             => ReadU16(a)' = Len(prod_names)
      /\ i.op = "Exit"            => ReadU8(a)' = i.code
      /\ i.op = "Alt"             => ReadU16(a)' = i.alt
      /\ i.op \in {"Jump", "Call"} => ReadsJump(a, i)'
      /\ i.op = "Call"            => ReadU16(a + 2)' = i.ret
      /\ i.op \in ByteOps         => ReadU8(a)' = i.set
      /\ i.op \in SetOps          => ReadU16(a)' = Len(sets)
      /\ i.op \in StrOps \cup {"TReplace"} => ReadU16(a)' = Len(strs)
      /\ i.op \in TableOps        => ReadU16(a)' = Len(tables)
      /\ i.op \in {"TBegin", "TEnd", "TFold"} => ReadS8(a)' = i.shift
      /\ i.op \in {"TEnd", "TFold"} => ReadU16(a + 1)' = Len(tags)
      /\ i.op = "TEnd"            => ReadU16(a + 3)' = Len(strs)
      /\ i.op \in {"TTag", "TLink"} => ReadU16(a)' = Len(tags)
      /\ i.op \in LookupOps \cup MemoOps => ReadU16(a)' = i.uid
      /\ i.op \in LookupOps       => ReadsJump(a + 2, i)'

\* What i adds to the pools.
Fills(i) ==
  /\ prod_names' = IF i.op = "Nop" THEN Append(prod_names, i.name) ELSE prod_names
  /\ sets' = IF i.op \in SetOps THEN Append(sets, i.set) ELSE sets
  /\ strs' = IF i.op \in StrOps THEN Append(strs, i.str)
             ELSE IF i.op \in {"TReplace", "TEnd"} THEN Append(strs, i.value)
             ELSE strs
  /\ tags' = IF HoldsTag(i.op) THEN Append(tags, i.tag) ELSE tags
  /\ tables' = IF i.op \in TableOps THEN Append(tables, i.table) ELSE tables

\* The pools have a slot for each constant of i.
HasSlot(i) ==
  /\ i.op = "Nop" => Len(prod_names) < file.prods
  /\ i.op \in SetOps => Len(sets) < file.sets
  /\ i.op \in StrOps \cup {"TReplace", "TEnd"} => Len(strs) < file.strs
  /\ HoldsTag(i.op) => Len(tags) < file.tags
  /\ i.op \in TableOps => Len(tables) < file.tables

\* The loading of i at o.  The number of a slot that is there fits its word.
Loads(o, i) == /\ Lies(o, i.op, OperandBytes(i.op))
               /\ HasSlot(i) => Told(o, i)
               /\ Fills(i)

\* What the load may start from.
Ready(o, i) == /\ file \in Files /\ index \in Nat /\ Listed
               /\ o = Len(mem) /\ i = Inst /\ index < Len(file.body)

\* Write stores the opcode and its operands at the end of the memory.
LEMMA WritesStored ==
  ASSUME NEW o, NEW i, Ready(o, i), NEW t \in Seq(Cell), Write(t)
  PROVE  Stored(o, i.op, t) /\ o \in Nat
<1>1. mem \in Seq(Cell) /\ Inst.op \in Cell /\ o = Len(mem) /\ i.op = Inst.op
  BY InstIs DEF Ready, Listed
<1> QED
  BY <1>1, WriteIs DEF Stored

\* What is below a number of a range is in it.
LEMMA BelowRange ==
  ASSUME NEW k \in Int, NEW n \in 0..k-1, NEW m \in Nat, m < n
  PROVE  m \in 0..k-1
OBVIOUS

\* A slot's number is one, and fits a word if the slot is there.
LEMMA SlotFits ==
  ASSUME NEW o, NEW i, Ready(o, i)
  PROVE  /\ Len(prod_names) \in Int /\ Len(sets) \in Int /\ Len(strs) \in Int
         /\ Len(tags) \in Int /\ Len(tables) \in Int
         /\ HasSlot(i) =>
              /\ i.op = "Nop" => Len(prod_names) \in UInt16
              /\ i.op \in SetOps => Len(sets) \in UInt16
              /\ i.op \in StrOps \cup {"TReplace", "TEnd"} => Len(strs) \in UInt16
              /\ HoldsTag(i.op) => Len(tags) \in UInt16
              /\ i.op \in TableOps => Len(tables) \in UInt16
         /\ Operands(i)
<1>1. /\ Len(prod_names) \in Nat /\ Len(sets) \in Nat /\ Len(strs) \in Nat
      /\ Len(tags) \in Nat /\ Len(tables) \in Nat
  BY LenProperties DEF Ready, Listed
<1>2. /\ file.prods \in UInt16 /\ file.sets \in UInt16 /\ file.strs \in UInt16
      /\ file.tags \in UInt16 /\ file.tables \in UInt16
  BY FileIs DEF Ready
<1>3. ASSUME NEW m \in Nat, NEW n \in UInt16, m < n
      PROVE  m \in UInt16
  <2>1. 256 * 256 \in Int
    OBVIOUS
  <2> QED
    BY <1>3, <2>1, BelowRange DEF UInt16
<1>4. Operands(i)
  BY InstIs DEF Ready
<1>5. ASSUME HasSlot(i)
      PROVE  /\ i.op = "Nop" => Len(prod_names) \in UInt16
             /\ i.op \in SetOps => Len(sets) \in UInt16
             /\ i.op \in StrOps \cup {"TReplace", "TEnd"} => Len(strs) \in UInt16
             /\ HoldsTag(i.op) => Len(tags) \in UInt16
             /\ i.op \in TableOps => Len(tables) \in UInt16
  BY <1>1, <1>2, <1>3, <1>5 DEF HasSlot
<1> QED
  BY <1>1, <1>4, <1>5

\* What is written in each shape of operands: a byte.
LEMMA WritesByte ==
  ASSUME NEW o, NEW i, Ready(o, i), NEW x \in Cell, Write(<<x>>)
  PROVE  Lies(o, i.op, 1) /\ mem'[o + 1 + 1] = x /\ o \in Nat
<1> DEFINE t == <<x>>
<1>1. t \in Seq(Cell) /\ Len(t) = 1 /\ t[1] = x
  OBVIOUS
<1> HIDE DEF t
<1>2. Write(t)
  BY DEF t
<1>3. Stored(o, i.op, t) /\ o \in Nat
  BY <1>1, <1>2, WritesStored
<1>4. 1 \in 1..Len(t)
  BY <1>1
<1>5. mem'[o + 1 + 1] = t[1]
  BY <1>3, <1>4 DEF Stored
<1> QED
  BY <1>1, <1>3, <1>5 DEF Lies

\* A word.
LEMMA WritesWord ==
  ASSUME NEW o, NEW i, Ready(o, i), NEW v \in Int, Write(Word(v))
  PROVE  /\ Lies(o, i.op, 2) /\ o \in Nat
         /\ v \in UInt16 => ReadU16(o + 1)' = v
         /\ v \in Int16 => ReadS16(o + 1)' = v
<1> DEFINE t == Word(v)
<1>1. t \in Seq(Cell) /\ Len(t) = 2
  BY WordCells
<1>2. Write(t)
  OBVIOUS
<1> HIDE DEF t
<1>3. Stored(o, i.op, t) /\ o \in Nat
  BY <1>1, <1>2, WritesStored
<1>4. \A j \in 1..2 : mem'[o + 1 + j] = t[j]
  BY <1>1, <1>3 DEF Stored
<1>5. mem'[o + 1 + 1] = Word(v)[1] /\ mem'[o + 1 + 2] = Word(v)[2]
  BY <1>4 DEF t
<1>6. o + 1 \in Nat
  BY <1>3
<1>7. v \in UInt16 => ReadU16(o + 1)' = v
  BY <1>5, <1>6, WordAt
<1>8. v \in Int16 => ReadS16(o + 1)' = v
  BY <1>5, <1>6, SignedWordAt
<1>9. Lies(o, i.op, 2)
  BY <1>1, <1>3 DEF Lies
<1> QED
  BY <1>3, <1>7, <1>8, <1>9

\* Two words.
LEMMA WritesWords ==
  ASSUME NEW o, NEW i, Ready(o, i), NEW u \in Int, NEW v \in Int, Write(Word(u) \o Word(v))
  PROVE  /\ Lies(o, i.op, 4) /\ o \in Nat
         /\ u \in UInt16 => ReadU16(o + 1)' = u
         /\ u \in Int16 => ReadS16(o + 1)' = u
         /\ v \in UInt16 => ReadU16(o + 1 + 2)' = v
         /\ v \in Int16 => ReadS16(o + 1 + 2)' = v
<1> DEFINE t == Word(u) \o Word(v)
<1>1. /\ t \in Seq(Cell) /\ Len(t) = 4 /\ t[1] = Word(u)[1] /\ t[2] = Word(u)[2]
      /\ t[3] = Word(v)[1] /\ t[4] = Word(v)[2]
  BY Cells4
<1>2. Write(t)
  OBVIOUS
<1> HIDE DEF t
<1>3. Stored(o, i.op, t) /\ o \in Nat
  BY <1>1, <1>2, WritesStored
<1>4. \A j \in 1..4 : mem'[o + 1 + j] = t[j]
  BY <1>1, <1>3 DEF Stored
<1>5. mem'[o + 1 + 1] = Word(u)[1] /\ mem'[o + 1 + 2] = Word(u)[2]
  BY <1>1, <1>4
<1>6. mem'[o + 1 + 3] = Word(v)[1] /\ mem'[o + 1 + 4] = Word(v)[2]
  BY <1>1, <1>4
<1>7. o + 1 \in Nat /\ o + 1 + 2 \in Nat /\ o + 1 + 2 + 1 = o + 1 + 3 /\ o + 1 + 2 + 2 = o + 1 + 4
  BY <1>3
<1>8. u \in UInt16 => ReadU16(o + 1)' = u
  BY <1>5, <1>7, WordAt
<1>9. u \in Int16 => ReadS16(o + 1)' = u
  BY <1>5, <1>7, SignedWordAt
<1>10. v \in UInt16 => ReadU16(o + 1 + 2)' = v
  BY <1>6, <1>7, WordAt
<1>11. v \in Int16 => ReadS16(o + 1 + 2)' = v
  BY <1>6, <1>7, SignedWordAt
<1>12. Lies(o, i.op, 4)
  BY <1>1, <1>3 DEF Lies
<1> QED
  BY <1>3, <1>8, <1>9, <1>10, <1>11, <1>12

\* A byte with a sign and a word.
LEMMA WritesByteWord ==
  ASSUME NEW o, NEW i, Ready(o, i), NEW s \in Int8, NEW v \in Int,
         Write(<<s % 256>> \o Word(v))
  PROVE  /\ Lies(o, i.op, 3) /\ o \in Nat /\ ReadS8(o + 1)' = s
         /\ v \in UInt16 => ReadU16(o + 1 + 1)' = v
<1> DEFINE t == <<s % 256>> \o Word(v)
<1>1. s % 256 \in UInt8
  BY SignedByteReads
<1>3. /\ t \in Seq(Cell) /\ Len(t) = 3 /\ t[1] = s % 256
      /\ t[2] = Word(v)[1] /\ t[3] = Word(v)[2]
  BY <1>1, Cells3
<1>4. Write(t)
  OBVIOUS
<1> HIDE DEF t
<1>5. Stored(o, i.op, t) /\ o \in Nat
  BY <1>3, <1>4, WritesStored
<1>6. \A j \in 1..3 : mem'[o + 1 + j] = t[j]
  BY <1>3, <1>5 DEF Stored
<1>7. mem'[o + 1 + 1] = s % 256
  BY <1>3, <1>6
<1>8. mem'[o + 1 + 2] = Word(v)[1] /\ mem'[o + 1 + 3] = Word(v)[2]
  BY <1>3, <1>6
<1>9. o + 1 \in Nat /\ o + 1 + 1 \in Nat /\ o + 1 + 1 + 1 = o + 1 + 2 /\ o + 1 + 1 + 2 = o + 1 + 3
  BY <1>5
<1>10. ReadS8(o + 1)' = s
  BY <1>7, <1>9, SignedByteAt
<1>11. v \in UInt16 => ReadU16(o + 1 + 1)' = v
  BY <1>8, <1>9, WordAt
<1>12. Lies(o, i.op, 3)
  BY <1>3, <1>5 DEF Lies
<1> QED
  BY <1>5, <1>10, <1>11, <1>12

\* A byte with a sign and two words.
LEMMA WritesByteWords ==
  ASSUME NEW o, NEW i, Ready(o, i), NEW s \in Int8, NEW u \in Int, NEW v \in Int,
         Write(<<s % 256>> \o Word(u) \o Word(v))
  PROVE  /\ Lies(o, i.op, 5) /\ o \in Nat /\ ReadS8(o + 1)' = s
         /\ u \in UInt16 => ReadU16(o + 1 + 1)' = u
         /\ v \in UInt16 => ReadU16(o + 1 + 3)' = v
<1> DEFINE t == <<s % 256>> \o Word(u) \o Word(v)
<1>1. s % 256 \in UInt8
  BY SignedByteReads
<1>3. /\ t \in Seq(Cell) /\ Len(t) = 5 /\ t[1] = s % 256 /\ t[2] = Word(u)[1]
      /\ t[3] = Word(u)[2] /\ t[4] = Word(v)[1] /\ t[5] = Word(v)[2]
  <2>1. Five(t, s % 256, u, v)
    BY <1>1, Cells5
  <2> QED
    BY <2>1 DEF Five
<1>4. Write(t)
  OBVIOUS
<1> HIDE DEF t
<1>5. Stored(o, i.op, t) /\ o \in Nat
  BY <1>3, <1>4, WritesStored
<1>6. \A j \in 1..5 : mem'[o + 1 + j] = t[j]
  BY <1>3, <1>5 DEF Stored
<1>7. mem'[o + 1 + 1] = s % 256
  BY <1>3, <1>6
<1>8. mem'[o + 1 + 2] = Word(u)[1] /\ mem'[o + 1 + 3] = Word(u)[2]
  BY <1>3, <1>6
<1>9. mem'[o + 1 + 4] = Word(v)[1] /\ mem'[o + 1 + 5] = Word(v)[2]
  BY <1>3, <1>6
<1>10. /\ o + 1 \in Nat /\ o + 1 + 1 \in Nat /\ o + 1 + 3 \in Nat
       /\ o + 1 + 1 + 1 = o + 1 + 2 /\ o + 1 + 1 + 2 = o + 1 + 3
       /\ o + 1 + 3 + 1 = o + 1 + 4 /\ o + 1 + 3 + 2 = o + 1 + 5
  BY <1>5
<1>11. ReadS8(o + 1)' = s
  BY <1>7, <1>10, SignedByteAt
<1>12. u \in UInt16 => ReadU16(o + 1 + 1)' = u
  BY <1>8, <1>10, WordAt
<1>13. v \in UInt16 => ReadU16(o + 1 + 3)' = v
  BY <1>9, <1>10, WordAt
<1>14. Lies(o, i.op, 5)
  BY <1>3, <1>5 DEF Lies
<1> QED
  BY <1>5, <1>11, <1>12, <1>13, <1>14

\* Each action loads the instruction it stands for: the name goes to the prod_names.
LEMMA NopLoads ==
  ASSUME NEW o, NEW i, Ready(o, i), Nop
  PROVE  Loads(o, i)
<1>1. i.op = "Nop" /\ Write(Word(Len(prod_names)))
  BY DEF Nop, At, Ready
<1>2. Len(prod_names) \in Int /\ (HasSlot(i) => Len(prod_names) \in UInt16)
  BY <1>1, SlotFits
<1>3. Lies(o, i.op, 2) /\ (HasSlot(i) => ReadU16(o + 1)' = Len(prod_names))
  BY <1>1, <1>2, WritesWord
<1>4. OperandBytes(i.op) = 2
  BY <1>1, Operand2
<1>5. HasSlot(i) => Told(o, i)
  BY <1>1, <1>3 DEF Told, ByteOps, SetOps, StrOps, TableOps, LookupOps, MemoOps
<1>6. Fills(i)
  BY <1>1 DEF Nop, At, Ready, Fills, HoldsTag, pools, ByteOps, SetOps, StrOps, TableOps, LookupOps, MemoOps
<1> QED
  BY <1>3, <1>4, <1>5, <1>6 DEF Loads

\* The set goes to the sets.
LEMMA SetLoads ==
  ASSUME NEW o, NEW i, Ready(o, i), Set
  PROVE  Loads(o, i)
<1>1. i.op \in SetOps /\ Write(Word(Len(sets)))
  BY DEF Set, At, Ready
<1>2. Len(sets) \in Int /\ (HasSlot(i) => Len(sets) \in UInt16)
  BY <1>1, SlotFits
<1>3. Lies(o, i.op, 2) /\ (HasSlot(i) => ReadU16(o + 1)' = Len(sets))
  BY <1>1, <1>2, WritesWord
<1>4. OperandBytes(i.op) = 2
  BY <1>1, Operand2
<1>5. HasSlot(i) => Told(o, i)
  BY <1>1, <1>3 DEF Told, ByteOps, SetOps, StrOps, TableOps, LookupOps, MemoOps
<1>6. Fills(i)
  BY <1>1 DEF Set, At, Ready, Fills, HoldsTag, pools, ByteOps, SetOps, StrOps, TableOps, LookupOps, MemoOps
<1> QED
  BY <1>3, <1>4, <1>5, <1>6 DEF Loads

\* The text goes to the strs.
LEMMA StrLoads ==
  ASSUME NEW o, NEW i, Ready(o, i), Str
  PROVE  Loads(o, i)
<1>1. i.op \in StrOps /\ Write(Word(Len(strs)))
  BY DEF Str, At, Ready
<1>2. Len(strs) \in Int /\ (HasSlot(i) => Len(strs) \in UInt16)
  BY <1>1, SlotFits
<1>3. Lies(o, i.op, 2) /\ (HasSlot(i) => ReadU16(o + 1)' = Len(strs))
  BY <1>1, <1>2, WritesWord
<1>4. OperandBytes(i.op) = 2
  BY <1>1, Operand2
<1>5. HasSlot(i) => Told(o, i)
  BY <1>1, <1>3 DEF Told, ByteOps, SetOps, StrOps, TableOps, LookupOps, MemoOps
<1>6. Fills(i)
  BY <1>1 DEF Str, At, Ready, Fills, HoldsTag, pools, ByteOps, SetOps, StrOps, TableOps, LookupOps, MemoOps
<1> QED
  BY <1>3, <1>4, <1>5, <1>6 DEF Loads

\* The table goes to the tables.
LEMMA DispatchLoads ==
  ASSUME NEW o, NEW i, Ready(o, i), Dispatch
  PROVE  Loads(o, i)
<1>1. i.op \in TableOps /\ Write(Word(Len(tables)))
  BY DEF Dispatch, At, Ready
<1>2. Len(tables) \in Int /\ (HasSlot(i) => Len(tables) \in UInt16)
  BY <1>1, SlotFits
<1>3. Lies(o, i.op, 2) /\ (HasSlot(i) => ReadU16(o + 1)' = Len(tables))
  BY <1>1, <1>2, WritesWord
<1>4. OperandBytes(i.op) = 2
  BY <1>1, Operand2
<1>5. HasSlot(i) => Told(o, i)
  BY <1>1, <1>3 DEF Told, ByteOps, SetOps, StrOps, TableOps, LookupOps, MemoOps
<1>6. Fills(i)
  BY <1>1 DEF Dispatch, At, Ready, Fills, HoldsTag, pools, ByteOps, SetOps, StrOps, TableOps, LookupOps, MemoOps
<1> QED
  BY <1>3, <1>4, <1>5, <1>6 DEF Loads

\* The tag or label goes to the tags.
LEMMA TTagLoads ==
  ASSUME NEW o, NEW i, Ready(o, i), TTag
  PROVE  Loads(o, i)
<1>1. i.op \in {"TTag", "TLink"} /\ Write(Word(Len(tags)))
  BY DEF TTag, At, Ready
<1>2. Len(tags) \in Int /\ (HasSlot(i) => Len(tags) \in UInt16)
  BY <1>1, SlotFits DEF HoldsTag
<1>3. Lies(o, i.op, 2) /\ (HasSlot(i) => ReadU16(o + 1)' = Len(tags))
  BY <1>1, <1>2, WritesWord
<1>4. OperandBytes(i.op) = 2
  BY <1>1, Operand2
<1>5. HasSlot(i) => Told(o, i)
  BY <1>1, <1>3 DEF Told, ByteOps, SetOps, StrOps, TableOps, LookupOps, MemoOps
<1>6. Fills(i)
  BY <1>1 DEF TTag, At, Ready, Fills, HoldsTag, pools, ByteOps, SetOps, StrOps, TableOps, LookupOps, MemoOps
<1> QED
  BY <1>3, <1>4, <1>5, <1>6 DEF Loads

\* The value goes to the strs.
LEMMA TReplaceLoads ==
  ASSUME NEW o, NEW i, Ready(o, i), TReplace
  PROVE  Loads(o, i)
<1>1. i.op = "TReplace" /\ Write(Word(Len(strs)))
  BY DEF TReplace, At, Ready
<1>2. Len(strs) \in Int /\ (HasSlot(i) => Len(strs) \in UInt16)
  BY <1>1, SlotFits
<1>3. Lies(o, i.op, 2) /\ (HasSlot(i) => ReadU16(o + 1)' = Len(strs))
  BY <1>1, <1>2, WritesWord
<1>4. OperandBytes(i.op) = 2
  BY <1>1, Operand2
<1>5. HasSlot(i) => Told(o, i)
  BY <1>1, <1>3 DEF Told, ByteOps, SetOps, StrOps, TableOps, LookupOps, MemoOps
<1>6. Fills(i)
  BY <1>1 DEF TReplace, At, Ready, Fills, HoldsTag, pools, ByteOps, SetOps, StrOps, TableOps, LookupOps, MemoOps
<1> QED
  BY <1>3, <1>4, <1>5, <1>6 DEF Loads

\* The alternative is written as it is.
LEMMA AltLoads ==
  ASSUME NEW o, NEW i, Ready(o, i), Alt
  PROVE  Loads(o, i)
<1>1. i.op = "Alt" /\ Write(Word(i.alt))
  BY DEF Alt, At, Ready
<1>2. i.alt \in UInt16 /\ i.alt \in Int
  BY <1>1, SlotFits, UInt16Is, Int16Is DEF Operands
<1>3. Lies(o, i.op, 2) /\ ReadU16(o + 1)' = i.alt
  BY <1>1, <1>2, WritesWord
<1>4. OperandBytes(i.op) = 2
  BY <1>1, Operand2
<1>5. HasSlot(i) => Told(o, i)
  BY <1>1, <1>3 DEF Told, ByteOps, SetOps, StrOps, TableOps, LookupOps, MemoOps
<1>6. Fills(i)
  BY <1>1 DEF Alt, At, Ready, Fills, HoldsTag, pools, ByteOps, SetOps, StrOps, TableOps, LookupOps, MemoOps
<1> QED
  BY <1>3, <1>4, <1>5, <1>6 DEF Loads

\* The memo point is written as it is.
LEMMA MemoLoads ==
  ASSUME NEW o, NEW i, Ready(o, i), Memo
  PROVE  Loads(o, i)
<1>1. i.op \in MemoOps /\ Write(Word(i.uid))
  BY DEF Memo, At, Ready
<1>2. i.uid \in UInt16 /\ i.uid \in Int
  BY <1>1, SlotFits, UInt16Is, Int16Is DEF Operands
<1>3. Lies(o, i.op, 2) /\ ReadU16(o + 1)' = i.uid
  BY <1>1, <1>2, WritesWord
<1>4. OperandBytes(i.op) = 2
  BY <1>1, Operand2
<1>5. HasSlot(i) => Told(o, i)
  BY <1>1, <1>3 DEF Told, ByteOps, SetOps, StrOps, TableOps, LookupOps, MemoOps
<1>6. Fills(i)
  BY <1>1 DEF Memo, At, Ready, Fills, HoldsTag, pools, ByteOps, SetOps, StrOps, TableOps, LookupOps, MemoOps
<1> QED
  BY <1>3, <1>4, <1>5, <1>6 DEF Loads

\* The byte test is written as it is.
LEMMA ByteLoads ==
  ASSUME NEW o, NEW i, Ready(o, i), Byte
  PROVE  Loads(o, i)
<1>1. i.op \in ByteOps /\ Write(<<i.set>>)
  BY DEF Byte, At, Ready
<1>2. i.set \in Cell
  BY InstIs DEF Ready, Cell
<1>3. Lies(o, i.op, 1) /\ mem'[o + 1 + 1] = i.set
  BY <1>1, <1>2, WritesByte
<1>4. OperandBytes(i.op) = 1
  BY <1>1, Operand1
<1>5. HasSlot(i) => Told(o, i)
  BY <1>1, <1>3 DEF Told, ReadU8, ByteOps, SetOps, StrOps, TableOps, LookupOps, MemoOps
<1>6. Fills(i)
  BY <1>1 DEF Byte, At, Ready, Fills, HoldsTag, pools, ByteOps, SetOps, StrOps, TableOps, LookupOps, MemoOps
<1> QED
  BY <1>3, <1>4, <1>5, <1>6 DEF Loads

\* The verdict is written as it is.
LEMMA ExitLoads ==
  ASSUME NEW o, NEW i, Ready(o, i), Exit
  PROVE  Loads(o, i)
<1>1. i.op = "Exit" /\ Write(<<i.code>>)
  BY DEF Exit, At, Ready
<1>2. i.code \in Cell
  BY <1>1, SlotFits DEF Operands, Cell
<1>3. Lies(o, i.op, 1) /\ mem'[o + 1 + 1] = i.code
  BY <1>1, <1>2, WritesByte
<1>4. OperandBytes(i.op) = 1
  BY <1>1, Operand1
<1>5. HasSlot(i) => Told(o, i)
  BY <1>1, <1>3 DEF Told, ReadU8, ByteOps, SetOps, StrOps, TableOps, LookupOps, MemoOps
<1>6. Fills(i)
  BY <1>1 DEF Exit, At, Ready, Fills, HoldsTag, pools, ByteOps, SetOps, StrOps, TableOps, LookupOps, MemoOps
<1> QED
  BY <1>3, <1>4, <1>5, <1>6 DEF Loads

\* The shift keeps its sign.
LEMMA TBeginLoads ==
  ASSUME NEW o, NEW i, Ready(o, i), TBegin
  PROVE  Loads(o, i)
<1>1. i.op = "TBegin" /\ Write(<<i.shift % 256>>)
  BY DEF TBegin, At, Ready
<1>2. i.shift \in Int8 /\ i.shift % 256 \in Cell
  BY <1>1, SlotFits, SignedByteReads DEF Operands, Cell
<1>3. Lies(o, i.op, 1) /\ mem'[o + 1 + 1] = i.shift % 256 /\ o \in Nat
  BY <1>1, <1>2, WritesByte
<1>4. OperandBytes(i.op) = 1
  BY <1>1, Operand1
<1>5. ReadS8(o + 1)' = i.shift
  <2>1. o + 1 \in Nat
    BY <1>3
  <2> QED
    BY <1>2, <1>3, <2>1, SignedByteAt
<1>6. HasSlot(i) => Told(o, i)
  BY <1>1, <1>5 DEF Told, ByteOps, SetOps, StrOps, TableOps, LookupOps, MemoOps
<1>7. Fills(i)
  BY <1>1 DEF TBegin, At, Ready, Fills, HoldsTag, pools, ByteOps, SetOps, StrOps, TableOps, LookupOps, MemoOps
<1> QED
  BY <1>3, <1>4, <1>6, <1>7 DEF Loads

\* The distance keeps its sign.
LEMMA JumpLoads ==
  ASSUME NEW o, NEW i, Ready(o, i), Jump
  PROVE  Loads(o, i)
<1>1. i.op = "Jump" /\ Write(Word(Distance(i)))
  BY DEF Jump, At, Ready
<1>2. /\ Distance(i) \in Int16 /\ Distance(i) \in Int
      /\ Meant(i) \in Int16 => Distance(i) = Meant(i)
  BY <1>1, SlotFits, DistanceIs DEF Operands
<1>3. Lies(o, i.op, 2) /\ ReadsJump(o + 1, i)'
  <2>1. Lies(o, i.op, 2) /\ ReadS16(o + 1)' = Distance(i)
    BY <1>1, <1>2, WritesWord
  <2> QED
    BY <1>2, <2>1 DEF ReadsJump, Meant
<1>4. OperandBytes(i.op) = 2
  BY <1>1, Operand2
<1>5. HasSlot(i) => Told(o, i)
  BY <1>1, <1>3 DEF Told, ByteOps, SetOps, StrOps, TableOps, LookupOps, MemoOps
<1>6. Fills(i)
  BY <1>1 DEF Jump, At, Ready, Fills, HoldsTag, pools, ByteOps, SetOps, StrOps, TableOps, LookupOps, MemoOps
<1> QED
  BY <1>3, <1>4, <1>5, <1>6 DEF Loads

\* The distance and the return address.
LEMMA CallLoads ==
  ASSUME NEW o, NEW i, Ready(o, i), Call
  PROVE  Loads(o, i)
<1>1. i.op = "Call" /\ Write(Word(Distance(i)) \o Word(i.ret))
  BY DEF Call, At, Ready
<1>2. /\ Distance(i) \in Int16 /\ Distance(i) \in Int
      /\ Meant(i) \in Int16 => Distance(i) = Meant(i)
      /\ i.ret \in UInt16 /\ i.ret \in Int
  BY <1>1, SlotFits, DistanceIs, UInt16Is DEF Operands
<1>3. Lies(o, i.op, 4) /\ ReadsJump(o + 1, i)' /\ ReadU16(o + 1 + 2)' = i.ret
  <2>1. Lies(o, i.op, 4) /\ ReadS16(o + 1)' = Distance(i) /\ ReadU16(o + 1 + 2)' = i.ret
    BY <1>1, <1>2, WritesWords
  <2> QED
    BY <1>2, <2>1 DEF ReadsJump, Meant
<1>4. OperandBytes(i.op) = 4
  BY <1>1, Operand4
<1>5. HasSlot(i) => Told(o, i)
  BY <1>1, <1>3 DEF Told, ByteOps, SetOps, StrOps, TableOps, LookupOps, MemoOps
<1>6. Fills(i)
  BY <1>1 DEF Call, At, Ready, Fills, HoldsTag, pools, ByteOps, SetOps, StrOps, TableOps, LookupOps, MemoOps
<1> QED
  BY <1>3, <1>4, <1>5, <1>6 DEF Loads

\* The memo point and the distance.
LEMMA LookupLoads ==
  ASSUME NEW o, NEW i, Ready(o, i), Lookup
  PROVE  Loads(o, i)
<1>1. i.op \in LookupOps /\ Write(Word(i.uid) \o Word(Distance(i)))
  BY DEF Lookup, At, Ready
<1>2. /\ Distance(i) \in Int16 /\ Distance(i) \in Int
      /\ Meant(i) \in Int16 => Distance(i) = Meant(i)
      /\ i.uid \in UInt16 /\ i.uid \in Int
  BY <1>1, SlotFits, DistanceIs, UInt16Is DEF Operands
<1>3. Lies(o, i.op, 4) /\ ReadU16(o + 1)' = i.uid /\ ReadsJump(o + 1 + 2, i)'
  <2>1. Lies(o, i.op, 4) /\ ReadU16(o + 1)' = i.uid /\ ReadS16(o + 1 + 2)' = Distance(i)
    BY <1>1, <1>2, WritesWords
  <2> QED
    BY <1>2, <2>1 DEF ReadsJump, Meant
<1>4. OperandBytes(i.op) = 4
  BY <1>1, Operand4
<1>5. HasSlot(i) => Told(o, i)
  BY <1>1, <1>3 DEF Told, ByteOps, SetOps, StrOps, TableOps, LookupOps, MemoOps
<1>6. Fills(i)
  BY <1>1 DEF Lookup, At, Ready, Fills, HoldsTag, pools, ByteOps, SetOps, StrOps, TableOps, LookupOps, MemoOps
<1> QED
  BY <1>3, <1>4, <1>5, <1>6 DEF Loads

\* The shift, and the label that goes to the tags.
LEMMA TFoldLoads ==
  ASSUME NEW o, NEW i, Ready(o, i), TFold
  PROVE  Loads(o, i)
<1>1. i.op = "TFold" /\ Write(<<i.shift % 256>> \o Word(Len(tags)))
  BY DEF TFold, At, Ready
<1>2. /\ i.shift \in Int8 /\ Len(tags) \in Int
      /\ HasSlot(i) => Len(tags) \in UInt16
  BY <1>1, SlotFits DEF Operands, HoldsTag
<1>3. /\ Lies(o, i.op, 3) /\ ReadS8(o + 1)' = i.shift
      /\ HasSlot(i) => ReadU16(o + 1 + 1)' = Len(tags)
  BY <1>1, <1>2, WritesByteWord
<1>4. OperandBytes(i.op) = 3
  BY <1>1, Operand35
<1>5. HasSlot(i) => Told(o, i)
  BY <1>1, <1>3 DEF Told, ByteOps, SetOps, StrOps, TableOps, LookupOps, MemoOps
<1>6. Fills(i)
  BY <1>1 DEF TFold, At, Ready, Fills, HoldsTag, pools, ByteOps, SetOps, StrOps, TableOps, LookupOps, MemoOps
<1> QED
  BY <1>3, <1>4, <1>5, <1>6 DEF Loads

\* The shift, the tag and the value that go to their pools.
LEMMA TEndLoads ==
  ASSUME NEW o, NEW i, Ready(o, i), TEnd
  PROVE  Loads(o, i)
<1>1. i.op = "TEnd" /\ Write(<<i.shift % 256>> \o Word(Len(tags)) \o Word(Len(strs)))
  BY DEF TEnd, At, Ready
<1>2. /\ i.shift \in Int8 /\ Len(tags) \in Int /\ Len(strs) \in Int
      /\ HasSlot(i) => Len(tags) \in UInt16 /\ Len(strs) \in UInt16
  BY <1>1, SlotFits DEF Operands, HoldsTag
<1>3. /\ Lies(o, i.op, 5) /\ ReadS8(o + 1)' = i.shift
      /\ HasSlot(i) => ReadU16(o + 1 + 1)' = Len(tags) /\ ReadU16(o + 1 + 3)' = Len(strs)
  BY <1>1, <1>2, WritesByteWords
<1>4. OperandBytes(i.op) = 5
  BY <1>1, Operand35
<1>5. HasSlot(i) => Told(o, i)
  BY <1>1, <1>3 DEF Told, ByteOps, SetOps, StrOps, TableOps, LookupOps, MemoOps
<1>6. Fills(i)
  BY <1>1 DEF TEnd, At, Ready, Fills, HoldsTag, pools, ByteOps, SetOps, StrOps, TableOps, LookupOps, MemoOps
<1> QED
  BY <1>3, <1>4, <1>5, <1>6 DEF Loads

\* An opcode without operands adds nothing to the pools.
LEMMA PlainLoads ==
  ASSUME NEW o, NEW i, Ready(o, i), Plain
  PROVE  Loads(o, i)
<1> DEFINE t == <<>>
<1>1. OperandBytes(i.op) = 0 /\ Write(t)
  BY DEF Plain, Ready
<1>2. t \in Seq(Cell) /\ Len(t) = 0
  OBVIOUS
<1> HIDE DEF t
<1>3. Lies(o, i.op, 0)
  BY <1>1, <1>2, WritesStored DEF Lies
<1>4. i.op \notin ByteOps \cup {"Exit", "TBegin"}
  BY <1>1, Operand1
<1>5. i.op \notin SetOps \cup StrOps \cup TableOps \cup MemoOps
                  \cup {"Nop", "Jump", "Alt", "TTag", "TLink", "TReplace"}
  BY <1>1, Operand2
<1>6. i.op \notin LookupOps \cup {"Call"}
  BY <1>1, Operand4
<1>7. i.op # "TFold" /\ i.op # "TEnd"
  BY <1>1, Operand35
<1>8. HasSlot(i) => Told(o, i)
  BY <1>4, <1>5, <1>6, <1>7 DEF Told
<1>9. Fills(i)
  BY <1>5, <1>7 DEF Plain, Fills, HoldsTag, pools
<1> QED
  BY <1>1, <1>3, <1>8, <1>9 DEF Loads

\* The actions that load an instruction.
Loading == \/ Nop \/ Exit \/ Jump \/ Call \/ Alt \/ Byte \/ Set \/ Str \/ Dispatch
           \/ TBegin \/ TEnd \/ TTag \/ TReplace \/ TFold \/ Lookup \/ Memo \/ Plain

\* Every loading action loads the instruction read next.
LEMMA InstLoads ==
  ASSUME NEW o, NEW i, Ready(o, i), Loading
  PROVE  Loads(o, i)
BY NopLoads, ExitLoads, JumpLoads, CallLoads, AltLoads, ByteLoads, SetLoads, StrLoads,
   DispatchLoads, TBeginLoads, TEndLoads, TTagLoads, TReplaceLoads, TFoldLoads,
   LookupLoads, MemoLoads, PlainLoads DEF Loading

\* What an instruction adds to the lengths, and to the tags.
Adds(o, i) ==
  /\ Len(mem') = o + Taken(i).at
  /\ Len(prod_names') = Len(prod_names) + (IF i.op = "Nop" THEN 1 ELSE 0)
  /\ Len(sets') = Len(sets) + (IF i.op \in SetOps THEN 1 ELSE 0)
  /\ Len(strs') = Len(strs) + (IF i.op \in StrOps \cup {"TReplace", "TEnd"} THEN 1 ELSE 0)
  /\ Len(tags') = Len(tags) + Taken(i).id
  /\ Len(tables') = Len(tables) + (IF i.op \in TableOps THEN 1 ELSE 0)
  /\ HoldsTag(i.op) => tags'[Len(tags) + 1] = i.tag

\* t is the pool s, with e added to it when n is 1.
Grew(T, s, e, n, t) ==
  /\ t \in Seq(T) /\ Kept(s, t) /\ Len(s) \in Nat /\ Len(t) = Len(s) + n
  /\ n = 1 => t[Len(s) + 1] = e /\ Len(s) + 1 \in 1..Len(t)

\* Appending or not, a pool grows by what it should.
LEMMA PoolGrows ==
  ASSUME NEW T, NEW s \in Seq(T), NEW e \in T, NEW n \in {0, 1}, NEW t,
         n = 1 => t = Append(s, e), n = 0 => t = s
  PROVE  Grew(T, s, e, n, t)
<1>1. Len(s) \in Nat /\ Kept(s, s)
  BY LenProperties, KeptSame
<1>2. /\ Append(s, e) \in Seq(T) /\ Kept(s, Append(s, e))
      /\ Len(Append(s, e)) = Len(s) + 1 /\ Append(s, e)[Len(s) + 1] = e
  BY KeptAppend
<1>3. CASE n = 1
  <2>1. t = Append(s, e)
    BY <1>3
  <2>2. /\ t \in Seq(T) /\ Kept(s, t) /\ Len(t) = Len(s) + 1 /\ t[Len(s) + 1] = e
    BY <1>2, <2>1
  <2>3. Len(s) + 1 \in 1..Len(t)
    BY <1>1, <2>2
  <2> QED
    BY <1>1, <1>3, <2>2, <2>3 DEF Grew
<1>4. CASE n = 0
  BY <1>1, <1>4 DEF Grew
<1> QED
  BY <1>3, <1>4

\* What the loading of an instruction leaves.
LEMMA LoadsGrow ==
  ASSUME NEW o, NEW i, Ready(o, i), Loads(o, i)
  PROVE  /\ Listed' /\ Grown /\ Adds(o, i) /\ o \in Nat
         /\ Passed
         /\ HasSlot(i) /\ Len(tags') <= 256 => Reads(o, i)' /\ Within(o, i.op)'
<1>1. Fills(i) /\ Listed
  BY DEF Loads, Ready
<1>2. i \in Insts
  BY InstIs DEF Ready
<1>3. o \in Nat
  BY LenProperties DEF Ready, Listed
<1>4. PICK t \in Seq(Cell) : Len(t) = OperandBytes(i.op) /\ Stored(o, i.op, t)
  BY DEF Loads, Lies
<1>5. /\ mem' \in Seq(Cell) /\ Kept(mem, mem') /\ mem'[o + 1] = i.op
      /\ Len(mem') = o + 1 + OperandBytes(i.op) /\ Passed
  BY <1>4 DEF Stored
<1>6. Grew({j.name : j \in Insts}, prod_names, i.name, IF i.op = "Nop" THEN 1 ELSE 0, prod_names')
  <2> DEFINE n == IF i.op = "Nop" THEN 1 ELSE 0
             e == i.name
  <2>1. prod_names \in Seq({j.name : j \in Insts}) /\ e \in {j.name : j \in Insts}
    BY <1>1, <1>2 DEF Listed, Texts
  <2>2. /\ n \in {0, 1}
        /\ n = 1 => prod_names' = Append(prod_names, e)
        /\ n = 0 => prod_names' = prod_names
    BY <1>1 DEF Fills
  <2> HIDE DEF n, e
  <2>3. Grew({j.name : j \in Insts}, prod_names, e, n, prod_names')
    BY <2>1, <2>2, PoolGrows
  <2> QED
    BY <2>3 DEF n, e
<1>7. Grew({j.set : j \in Insts}, sets, i.set, IF i.op \in SetOps THEN 1 ELSE 0, sets')
  <2> DEFINE n == IF i.op \in SetOps THEN 1 ELSE 0
             e == i.set
  <2>1. sets \in Seq({j.set : j \in Insts}) /\ e \in {j.set : j \in Insts}
    BY <1>1, <1>2 DEF Listed, Texts
  <2>2. /\ n \in {0, 1}
        /\ n = 1 => sets' = Append(sets, e)
        /\ n = 0 => sets' = sets
    BY <1>1 DEF Fills
  <2> HIDE DEF n, e
  <2>3. Grew({j.set : j \in Insts}, sets, e, n, sets')
    BY <2>1, <2>2, PoolGrows
  <2> QED
    BY <2>3 DEF n, e
<1>8. Grew({j.tag : j \in Insts}, tags, i.tag, IF HoldsTag(i.op) THEN 1 ELSE 0, tags')
  <2> DEFINE n == IF HoldsTag(i.op) THEN 1 ELSE 0
             e == i.tag
  <2>1. tags \in Seq({j.tag : j \in Insts}) /\ e \in {j.tag : j \in Insts}
    BY <1>1, <1>2 DEF Listed, Texts
  <2>2. /\ n \in {0, 1}
        /\ n = 1 => tags' = Append(tags, e)
        /\ n = 0 => tags' = tags
    BY <1>1 DEF Fills
  <2> HIDE DEF n, e
  <2>3. Grew({j.tag : j \in Insts}, tags, e, n, tags')
    BY <2>1, <2>2, PoolGrows
  <2> QED
    BY <2>3 DEF n, e
<1>9. Grew({j.table : j \in Insts}, tables, i.table, IF i.op \in TableOps THEN 1 ELSE 0, tables')
  <2> DEFINE n == IF i.op \in TableOps THEN 1 ELSE 0
             e == i.table
  <2>1. tables \in Seq({j.table : j \in Insts}) /\ e \in {j.table : j \in Insts}
    BY <1>1, <1>2 DEF Listed, Texts
  <2>2. /\ n \in {0, 1}
        /\ n = 1 => tables' = Append(tables, e)
        /\ n = 0 => tables' = tables
    BY <1>1 DEF Fills
  <2> HIDE DEF n, e
  <2>3. Grew({j.table : j \in Insts}, tables, e, n, tables')
    BY <2>1, <2>2, PoolGrows
  <2> QED
    BY <2>3 DEF n, e
<1>10. Grew(Texts, strs, (IF i.op \in StrOps THEN i.str ELSE i.value), IF i.op \in StrOps \cup {"TReplace", "TEnd"} THEN 1 ELSE 0, strs')
  <2> DEFINE n == IF i.op \in StrOps \cup {"TReplace", "TEnd"} THEN 1 ELSE 0
             e == (IF i.op \in StrOps THEN i.str ELSE i.value)
  <2>1. strs \in Seq(Texts) /\ e \in Texts
    BY <1>1, <1>2 DEF Listed, Texts
  <2>2. /\ n \in {0, 1}
        /\ n = 1 => strs' = Append(strs, e)
        /\ n = 0 => strs' = strs
    BY <1>1 DEF Fills
  <2> HIDE DEF n, e
  <2>3. Grew(Texts, strs, e, n, strs')
    BY <2>1, <2>2, PoolGrows
  <2> QED
    BY <2>3 DEF n, e
<1>11. Listed'
  BY <1>5, <1>6, <1>7, <1>8, <1>9, <1>10 DEF Listed, Grew
<1>12. Grown
  BY <1>5, <1>6, <1>7, <1>8, <1>9, <1>10 DEF Grown, Grew
<1>13. Adds(o, i)
  <2>1. Len(mem') = o + Taken(i).at
    <3>1. OperandBytes(i.op) \in Nat
      BY OperandIs
    <3>2. Taken(i).at = 1 + OperandBytes(i.op)
      BY DEF Taken
    <3> QED
      BY <1>3, <1>5, <3>1, <3>2
  <2>2. Len(tags') = Len(tags) + Taken(i).id
    BY <1>8 DEF Taken, Grew
  <2>3. HoldsTag(i.op) => tags'[Len(tags) + 1] = i.tag
    BY <1>8 DEF Grew
  <2>4. Len(prod_names') = Len(prod_names) + (IF i.op = "Nop" THEN 1 ELSE 0)
    BY <1>6 DEF Grew
  <2>5. Len(sets') = Len(sets) + (IF i.op \in SetOps THEN 1 ELSE 0)
    BY <1>7 DEF Grew
  <2>6. Len(strs') = Len(strs)
          + (IF i.op \in StrOps \cup {"TReplace", "TEnd"} THEN 1 ELSE 0)
    BY <1>10 DEF Grew
  <2>7. Len(tables') = Len(tables) + (IF i.op \in TableOps THEN 1 ELSE 0)
    BY <1>9 DEF Grew
  <2> QED
    BY <2>1, <2>2, <2>3, <2>4, <2>5, <2>6, <2>7 DEF Adds
<1>14. ASSUME HasSlot(i), Len(tags') <= 256
       PROVE  Reads(o, i)' /\ Within(o, i.op)'
  <2>0. Told(o, i)
    BY <1>14 DEF Loads
  <2>1. ASSUME i.op = "Nop"
        PROVE  /\ ReadU16(o + 1)' + 1 \in 1..Len(prod_names')
               /\ prod_names'[ReadU16(o + 1)' + 1] = i.name
    BY <2>0, <1>6, <2>1 DEF Told, Grew
  <2>2. ASSUME i.op \in SetOps
        PROVE  /\ ReadU16(o + 1)' + 1 \in 1..Len(sets')
               /\ sets'[ReadU16(o + 1)' + 1] = i.set
    BY <2>0, <1>7, <2>2 DEF Told, Grew
  <2>3. ASSUME i.op \in StrOps
        PROVE  /\ ReadU16(o + 1)' + 1 \in 1..Len(strs')
               /\ strs'[ReadU16(o + 1)' + 1] = i.str
    BY <2>0, <1>10, <2>3 DEF Told, Grew
  <2>4. ASSUME i.op = "TReplace"
        PROVE  /\ ReadU16(o + 1)' + 1 \in 1..Len(strs')
               /\ strs'[ReadU16(o + 1)' + 1] = i.value
    BY <2>0, <1>10, <2>4 DEF Told, Grew, StrOps
  <2>5. ASSUME i.op \in TableOps
        PROVE  /\ ReadU16(o + 1)' + 1 \in 1..Len(tables')
               /\ tables'[ReadU16(o + 1)' + 1] = i.table
    BY <2>0, <1>9, <2>5 DEF Told, Grew
  <2>6. ASSUME i.op \in {"TTag", "TLink"}
        PROVE  /\ ReadU16(o + 1)' + 1 \in 1..Len(tags')
               /\ tags'[ReadU16(o + 1)' + 1] = i.tag
    BY <2>0, <1>8, <2>6 DEF Told, Grew, HoldsTag
  <2>7. ASSUME i.op = "TEnd"
        PROVE  /\ ReadU16(o + 1 + 1)' + 1 \in 1..Len(tags')
               /\ tags'[ReadU16(o + 1 + 1)' + 1] = i.tag
    BY <2>0, <1>8, <2>7 DEF Told, Grew, HoldsTag
  <2>8. ASSUME i.op = "TEnd"
        PROVE  /\ ReadU16(o + 1 + 3)' + 1 \in 1..Len(strs')
               /\ strs'[ReadU16(o + 1 + 3)' + 1] = i.value
    BY <2>0, <1>10, <2>8 DEF Told, Grew, StrOps
  <2>9. ASSUME i.op = "TFold"
        PROVE  /\ ReadLabel(o + 1 + 1)' + 1 \in 1..Len(tags')
               /\ tags'[ReadLabel(o + 1 + 1)' + 1] = i.tag
    <3>1. ReadU16(o + 1 + 1)' = Len(tags)
      BY <2>0, <2>9 DEF Told
    <3>2. /\ Len(tags) \in Nat /\ Len(tags') = Len(tags) + 1
          /\ tags'[Len(tags) + 1] = i.tag
      BY <1>8, <2>9 DEF HoldsTag, Grew
    <3>3. ReadLabel(o + 1 + 1)' = Len(tags)
      BY <1>14, <3>1, <3>2 DEF ReadLabel
    <3> QED
      BY <3>2, <3>3
  <2>10. Within(o, i.op)'
    BY <1>5, <2>1, <2>2, <2>3, <2>4, <2>5, <2>6, <2>7, <2>8, <2>9 DEF Within
  <2>11. Reads(o, i)'
    <3> DEFINE a == o + 1
    <3>1. ReadsControl(a, i)'
      BY <2>0, <2>1 DEF ReadsControl, Told, Entry
    <3>2. ReadsTest(a, i)'
      BY <2>0, <2>2, <2>3, <2>5 DEF ReadsTest, Told, Entry
    <3>3. ReadsTree(a, i)'
      BY <2>0, <2>4, <2>6, <2>7, <2>8, <2>9 DEF ReadsTree, Told, Entry
    <3>4. ReadsMemo(a, i)'
      BY <2>0 DEF ReadsMemo, Told
    <3> QED
      BY <1>5, <3>1, <3>2, <3>3, <3>4 DEF Reads
  <2> QED
    BY <2>10, <2>11
<1> QED
  BY <1>3, <1>5, <1>11, <1>12, <1>13, <1>14
-----------------------------------------------------------------------------
(* What the header has to declare.                                         *)

\* The instructions among ops, of the first n.
Among(n, ops) == {k \in 1..n : file.body[k].op \in ops}

\* They are what Count counts.
LEMMA CountIs ==
  ASSUME NEW n, NEW ops
  PROVE  Count(n, ops) = Cardinality(Among(n, ops))
BY DEF Count, Among

\* One more for an instruction that counts.
LEMMA CountGrows ==
  ASSUME NEW n \in Nat, NEW ops
  PROVE  /\ IsFiniteSet(Among(n, ops)) /\ Count(n, ops) \in Nat /\ Count(0, ops) = 0
         /\ Count(n + 1, ops) = Count(n, ops)
              + (IF file.body[n + 1].op \in ops THEN 1 ELSE 0)
<1>1. Among(n, ops) \in SUBSET (1..n)
  BY DEF Among
<1>2. IsFiniteSet(Among(n, ops))
  <2>1. IsFiniteSet(1..n)
    BY FS_Interval
  <2> QED
    BY <1>1, <2>1, FS_Subset
<1>3. Count(n, ops) \in Nat
  BY <1>2, CountIs, FS_CardinalityType
<1>4. Count(0, ops) = 0
  <2>1. Among(0, ops) = {}
    BY DEF Among
  <2> QED
    BY <2>1, CountIs, FS_EmptySet
<1>5. CASE file.body[n + 1].op \in ops
  <2>1. Among(n + 1, ops) = Among(n, ops) \cup {n + 1}
    BY <1>5 DEF Among
  <2>2. n + 1 \notin Among(n, ops)
    BY DEF Among
  <2>3. Cardinality(Among(n, ops) \cup {n + 1}) = Cardinality(Among(n, ops)) + 1
    BY <1>2, <2>2, FS_AddElement
  <2> QED
    BY <1>2, <1>3, <1>4, <1>5, <2>1, <2>3, CountIs
<1>6. CASE file.body[n + 1].op \notin ops
  <2>1. Among(n + 1, ops) = Among(n, ops)
    BY <1>6 DEF Among
  <2> QED
    BY <1>2, <1>3, <1>4, <1>6, <2>1, CountIs
<1> QED
  BY <1>5, <1>6

\* Never fewer among more.
LEMMA CountBound ==
  ASSUME NEW n \in Nat, NEW m \in Nat, n <= m, NEW ops
  PROVE  Count(n, ops) <= Count(m, ops)
<1>1. IsFiniteSet(Among(m, ops))
  BY CountGrows
<1>2. Among(n, ops) \in SUBSET Among(m, ops)
  BY DEF Among
<1> QED
  BY <1>1, <1>2, FS_Subset, CountIs
-----------------------------------------------------------------------------
(* The invariant of the load.                                              *)

\* Where the instructions of the body lie.
Lay == Layout(file.body)

\* The opcodes of HoldsTag.
TagOps == {"TEnd", "TTag", "TLink", "TFold"}

\* The file, and what the header said once it is read.
Typed ==
  /\ file \in Files
  /\ status \in {"header", "body", "loaded", "disposed", "undefined"}
  /\ IF status = "header"
     THEN bytecode_length = 0 /\ bytecode_size = 0 /\ index = 0
     ELSE bytecode_length \in Read64(file.length) /\ bytecode_size \in Read64(file.size)

\* Memory and pools are as long as the instructions loaded so far make them.
Measured ==
  /\ index \in 0..Len(file.body)
  /\ Len(mem) = Lay[index + 1].at
  /\ Len(tags) = Lay[index + 1].id
  /\ Len(tags) = Count(index, TagOps)
  /\ Len(prod_names) = Count(index, {"Nop"})
  /\ Len(sets) = Count(index, SetOps)
  /\ Len(strs) = Count(index, StrOps \cup {"TReplace", "TEnd"})
  /\ Len(tables) = Count(index, TableOps)

\* Every tag is that of the instruction with its id.
Tagged ==
  \A n \in 1..Len(tags) : \E k \in 1..index :
    /\ HoldsTag(file.body[k].op) /\ Lay[k].id = n - 1
    /\ tags[n] = file.body[k].tag

\* The instructions loaded so far read back, inside the block and the pools.
Readable ==
  Len(tags) <= 256 =>
    \A k \in 1..index : /\ Reads(Lay[k].at, file.body[k])
                        /\ Within(Lay[k].at, file.body[k].op)

\* Until a write goes out of bounds none has.
Sound == status # "undefined" => InBounds /\ Readable

\* The load ends after as many instructions as the header declares.
Finished == status \in {"loaded", "disposed"} => index = bytecode_length

\* The inductive invariant.
IInv == Typed /\ Listed /\ Measured /\ Tagged /\ Sound /\ Finished /\ SafeWhenDeclared

\* The layout of the whole body.
LEMMA LayIs ==
  ASSUME file \in Files
  PROVE  /\ LaidOut(Lay, file.body) /\ Len(file.body) \in Nat
         /\ \A n \in 1..Len(file.body)+1 :
              /\ Lay[n].at \in Nat /\ Lay[n].id \in Nat
              /\ \A j \in 1..n : Lay[j].at <= Lay[n].at /\ Lay[j].id <= Lay[n].id
         /\ \A k \in 1..Len(file.body) :
              /\ Lay[k + 1].at = Lay[k].at + Taken(file.body[k]).at
              /\ Lay[k + 1].id = Lay[k].id + Taken(file.body[k]).id
<1>1. file.body \in Seq(Insts) /\ Len(file.body) \in Nat
  BY FileIs
<1>2. LaidOut(Lay, file.body)
  BY <1>1, LayoutIs DEF Lay
<1> HIDE DEF Lay
<1>3. ASSUME NEW n \in 1..Len(file.body)+1
      PROVE  /\ Lay[n].at \in Nat /\ Lay[n].id \in Nat
             /\ \A j \in 1..n : Lay[j].at <= Lay[n].at /\ Lay[j].id <= Lay[n].id
  <2>1. \A m \in 1..Len(file.body)+1 :
          /\ Lay[m].at \in Nat /\ Lay[m].id \in Nat /\ Lay[m].prod \in Nat
          /\ \A j \in 1..m : /\ Lay[j].at <= Lay[m].at /\ Lay[j].id <= Lay[m].id
                             /\ Lay[j].prod <= Lay[m].prod
    BY <1>1, <1>2, LayoutGrows
  <2> QED
    BY <2>1
<1>4. ASSUME NEW k \in 1..Len(file.body)
      PROVE  /\ Lay[k + 1].at = Lay[k].at + Taken(file.body[k]).at
             /\ Lay[k + 1].id = Lay[k].id + Taken(file.body[k]).id
  <2>1. Lay[k + 1] = Past(Lay[k], Taken(file.body[k]))
    BY <1>2 DEF LaidOut
  <2> QED
    BY <2>1 DEF Past
<1> QED
  BY <1>1, <1>2, <1>3, <1>4

\* A header field whose high half is 0 is read as its low half.
LEMMA Read64Is ==
  ASSUME NEW f, f.low \in Nat, f.high \in Nat, NEW n \in Read64(f)
  PROVE  n \in Nat /\ (f.high = 0 => n = f.low)
<1>1. n = f.low \/ n \in f.low..f.low + f.high
  BY DEF Read64
<1> QED
  BY <1>1

\* A byte at least for each instruction.
LEMMA LayAtLeast ==
  ASSUME file \in Files, NEW n \in 0..Len(file.body)
  PROVE  n <= Lay[n + 1].at
<1> DEFINE T == {m \in Nat : m <= Len(file.body) => m <= Lay[m + 1].at}
<1>1. Len(file.body) \in Nat
  BY FileIs
<1>2. 0 \in T
  <2>1. Lay[0 + 1].at \in Nat
    BY <1>1, LayIs
  <2> QED
    BY <2>1
<1>3. ASSUME NEW m \in Nat, m \in T
      PROVE  m + 1 \in T
  <2>1. SUFFICES ASSUME m + 1 <= Len(file.body)
                 PROVE  m + 1 <= Lay[m + 1 + 1].at
    OBVIOUS
  <2>2. m + 1 \in 1..Len(file.body) /\ m + 1 \in 1..Len(file.body)+1 /\ m <= Lay[m + 1].at
    BY <1>1, <1>3, <2>1
  <2>3. Lay[m + 1 + 1].at = Lay[m + 1].at + Taken(file.body[m + 1]).at
    BY <2>2, LayIs
  <2>4. Lay[m + 1].at \in Nat
    BY <2>2, LayIs
  <2>5. Taken(file.body[m + 1]).at \in Nat \ {0}
    BY TakenIs
  <2> QED
    BY <2>2, <2>3, <2>4, <2>5
<1> HIDE DEF T
<1>4. Nat \subseteq T
  BY <1>2, <1>3, NatSetInduction
<1>5. n \in Nat /\ n <= Len(file.body)
  BY <1>1
<1>6. n \in T
  BY <1>4, <1>5
<1> QED
  BY <1>5, <1>6 DEF T

\* What a header that declares the body says.
LEMMA DeclaredIs ==
  ASSUME file \in Files, Declared,
         NEW l \in Read64(file.length), NEW z \in Read64(file.size)
  PROVE  l = Len(file.body) /\ z = Lay[Len(file.body) + 1].at
<1> DEFINE f == file.length
           g == file.size
<1>1. /\ f.low = Len(file.body) /\ f.high = 0
      /\ g.low = Last(Lay).at /\ g.high = 0
  BY DEF Declared, Lay
<1>2. f.low \in Nat /\ f.high \in Nat /\ g.low \in Nat /\ g.high \in Nat
  BY FileIs
<1>3. l \in Read64(f) /\ z \in Read64(g)
  OBVIOUS
<1> HIDE DEF f, g
<1>4. l = f.low
  BY <1>1, <1>2, <1>3, Read64Is
<1>5. z = g.low
  BY <1>1, <1>2, <1>3, Read64Is
<1>6. Len(Lay) = Len(file.body) + 1
  BY LayIs DEF LaidOut
<1> QED
  BY <1>1, <1>4, <1>5, <1>6 DEF Last

\* With it, everything the first n instructions bring finds its room.
LEMMA DeclaredBounds ==
  ASSUME file \in Files, Declared, NEW n \in 0..Len(file.body)
  PROVE  /\ Lay[n + 1].at <= Lay[Len(file.body) + 1].at
         /\ Count(n, {"Nop"}) <= file.prods
         /\ Count(n, SetOps) <= file.sets
         /\ Count(n, StrOps \cup {"TReplace", "TEnd"}) <= file.strs
         /\ Count(n, TagOps) <= file.tags
         /\ Count(n, TableOps) <= file.tables
<1>1. Len(file.body) \in Nat
  BY FileIs
<1>2. /\ n \in Nat /\ n <= Len(file.body)
      /\ n + 1 \in 1..Len(file.body)+1 /\ Len(file.body) + 1 \in 1..Len(file.body)+1
      /\ n + 1 \in 1..(Len(file.body) + 1)
  BY <1>1
<1>3. Lay[n + 1].at <= Lay[Len(file.body) + 1].at
  BY <1>2, LayIs
<1>4. \A ops : Count(n, ops) <= Count(Len(file.body), ops)
  BY <1>1, <1>2, CountBound
<1> QED
  BY <1>3, <1>4 DEF Declared, TagOps

\* The load starts in it.
LEMMA InitInv == Init => IInv
<1> SUFFICES ASSUME Init PROVE IInv
  OBVIOUS
<1>1. file \in Files
  BY DEF Init
<1>2. /\ Len(file.body) \in Nat
      /\ file.prods \in UInt16 /\ file.sets \in UInt16 /\ file.strs \in UInt16
      /\ file.tags \in UInt16 /\ file.tables \in UInt16
  BY <1>1, FileIs
<1>3. \A n \in UInt16 : 0 <= n
  BY UInt16Is
<1>4. Typed
  BY <1>1 DEF Init, Typed
<1>5. Listed
  BY DEF Init, Listed
<1>6. Lay[0 + 1] = Start
  <2>1. LaidOut(Lay, file.body)
    BY <1>1, LayIs
  <2> QED
    BY <2>1 DEF LaidOut
<1>7. \A ops : Count(0, ops) = 0
  BY CountGrows
<1>8. index = 0 /\ Len(mem) = 0 /\ Len(tags) = 0 /\ Len(prod_names) = 0
      /\ Len(sets) = 0 /\ Len(strs) = 0 /\ Len(tables) = 0 /\ status = "header"
      /\ bytecode_size = 0
  BY DEF Init
<1>9. Measured
  BY <1>2, <1>6, <1>7, <1>8 DEF Measured, Start
<1>10. InBounds
  BY <1>2, <1>3, <1>8 DEF InBounds
<1>11. Tagged /\ Sound /\ Finished /\ SafeWhenDeclared
  BY <1>8, <1>10 DEF Tagged, Sound, Readable, Finished, SafeWhenDeclared
<1> QED
  BY <1>4, <1>5, <1>9, <1>11 DEF IInv

\* An instruction more.
LEMMA LoadingInv ==
  ASSUME IInv, Loading
  PROVE  IInv'
<1> DEFINE body == file.body
<1>1. PICK o, i : o = Len(mem) /\ i = Inst
  OBVIOUS
<1>2. /\ file \in Files /\ index \in Nat /\ Listed /\ Typed /\ Measured
      /\ Tagged /\ Sound /\ Finished /\ SafeWhenDeclared
  <2>1. index \in Nat
    BY FileIs DEF IInv, Typed, Measured
  <2> QED
    BY <2>1 DEF IInv, Typed
<1>3. status = "body" /\ index < bytecode_length /\ index < Len(file.body)
  BY DEF Loading, Nop, Exit, Jump, Call, Alt, Byte, Set, Str, Dispatch, TBegin, TEnd, TTag,
         TReplace, TFold, Lookup, Memo, Plain, At
<1>4. Ready(o, i)
  BY <1>1, <1>2, <1>3 DEF Ready
<1>5. Loads(o, i)
  BY <1>4, InstLoads
<1>6. /\ Listed' /\ Grown /\ Adds(o, i) /\ o \in Nat /\ Passed
      /\ HasSlot(i) /\ Len(tags') <= 256 => Reads(o, i)' /\ Within(o, i.op)'
  BY <1>4, <1>5, LoadsGrow
<1>7. index + 1 \in 1..Len(body) /\ i = body[index + 1] /\ Len(body) \in Nat
  BY <1>1, <1>2, <1>3, InstIs, FileIs
<1>8. Lay' = Lay /\ body' = body /\ \A n, ops : Count(n, ops)' = Count(n, ops)
  BY <1>6 DEF Lay, Count, Passed
<1>9. /\ Lay[index + 1].at = o /\ Lay[index + 1].id = Len(tags)
      /\ Lay[index + 2].at = o + Taken(i).at /\ Lay[index + 2].id = Len(tags) + Taken(i).id
  <2>1. Lay[index + 1].at = o /\ Lay[index + 1].id = Len(tags)
    BY <1>1, <1>2 DEF Measured
  <2>2. /\ Lay[index + 1 + 1].at = Lay[index + 1].at + Taken(i).at
        /\ Lay[index + 1 + 1].id = Lay[index + 1].id + Taken(i).id
    BY <1>2, <1>7, LayIs
  <2>3. index + 1 + 1 = index + 2
    BY <1>2
  <2> QED
    BY <2>1, <2>2, <2>3
<1>10. Measured'
  <2>1. index' \in 0..Len(body')
    BY <1>2, <1>6, <1>7, <1>8 DEF Passed
  <2>2. Len(mem)' = Lay'[index' + 1].at
    <3>1. index' + 1 = index + 2
      BY <1>2, <1>6 DEF Passed
    <3> QED
      BY <1>6, <1>8, <1>9, <3>1 DEF Adds
  <2>3. Len(tags)' = Lay'[index' + 1].id
    <3>1. index' + 1 = index + 2
      BY <1>2, <1>6 DEF Passed
    <3> QED
      BY <1>6, <1>8, <1>9, <3>1 DEF Adds
  <2>4. ASSUME NEW ops
        PROVE  Count(index, ops)' = Count(index, ops) + (IF i.op \in ops THEN 1 ELSE 0)
    <3>1. Count(index, ops)' = Count(index + 1, ops)
      BY <1>6 DEF Count, Passed
    <3>2. Count(index + 1, ops) = Count(index, ops)
            + (IF body[index + 1].op \in ops THEN 1 ELSE 0)
      BY <1>2, CountGrows
    <3> QED
      BY <1>7, <3>1, <3>2
  <2>5. Len(tags)' = Count(index, TagOps)'
    <3>1. Len(tags') = Len(tags) + (IF i.op \in TagOps THEN 1 ELSE 0)
      BY <1>6 DEF Adds, Taken, HoldsTag, TagOps
    <3>2. Len(tags) = Count(index, TagOps)
      BY <1>2 DEF Measured
    <3> QED
      BY <2>4, <3>1, <3>2
  <2>6. Len(prod_names)' = Count(index, {"Nop"})'
    <3>1. Len(prod_names') = Len(prod_names) + (IF i.op \in {"Nop"} THEN 1 ELSE 0)
      BY <1>6 DEF Adds
    <3>2. Len(prod_names) = Count(index, {"Nop"})
      BY <1>2 DEF Measured
    <3> QED
      BY <2>4, <3>1, <3>2
  <2>7. Len(sets)' = Count(index, SetOps)'
    <3>1. Len(sets') = Len(sets) + (IF i.op \in SetOps THEN 1 ELSE 0)
      BY <1>6 DEF Adds
    <3>2. Len(sets) = Count(index, SetOps)
      BY <1>2 DEF Measured
    <3> QED
      BY <2>4, <3>1, <3>2
  <2>8. Len(strs)' = Count(index, StrOps \cup {"TReplace", "TEnd"})'
    <3>1. Len(strs') = Len(strs) + (IF i.op \in StrOps \cup {"TReplace", "TEnd"} THEN 1 ELSE 0)
      BY <1>6 DEF Adds
    <3>2. Len(strs) = Count(index, StrOps \cup {"TReplace", "TEnd"})
      BY <1>2 DEF Measured
    <3> QED
      BY <2>4, <3>1, <3>2
  <2>9. Len(tables)' = Count(index, TableOps)'
    <3>1. Len(tables') = Len(tables) + (IF i.op \in TableOps THEN 1 ELSE 0)
      BY <1>6 DEF Adds
    <3>2. Len(tables) = Count(index, TableOps)
      BY <1>2 DEF Measured
    <3> QED
      BY <2>4, <3>1, <3>2
  <2> QED
    BY <2>1, <2>2, <2>3, <2>5, <2>6, <2>7, <2>8, <2>9 DEF Measured
<1>11. Tagged'
  <2> SUFFICES ASSUME NEW n \in 1..Len(tags')
               PROVE  \E k \in 1..index+1 : /\ HoldsTag(body[k].op) /\ Lay[k].id = n - 1
                                            /\ tags'[n] = body[k].tag
    BY <1>6, <1>8 DEF Tagged, Passed
  <2>1. Len(tags) \in Nat /\ Len(tags') = Len(tags) + Taken(i).id
        /\ \A m \in 1..Len(tags) : tags'[m] = tags[m]
    BY <1>6 DEF Adds, Grown, Kept
  <2>2. CASE n <= Len(tags)
    <3>1. n \in 1..Len(tags)
      BY <2>1, <2>2
    <3>2. PICK k \in 1..index : /\ HoldsTag(body[k].op) /\ Lay[k].id = n - 1
                                /\ tags[n] = body[k].tag
      BY <1>2, <3>1 DEF Tagged
    <3>3. k \in 1..index+1
      BY <1>2
    <3> QED
      BY <2>1, <3>1, <3>2, <3>3
  <2>3. CASE ~(n <= Len(tags))
    <3>1. HoldsTag(i.op) /\ n = Len(tags) + 1
      BY <2>1, <2>3 DEF Taken
    <3>2. tags'[n] = i.tag /\ Lay[index + 1].id = n - 1
      BY <1>6, <1>9, <2>1, <3>1 DEF Adds
    <3>3. index + 1 \in 1..index+1
      BY <1>2
    <3> QED
      BY <1>7, <3>1, <3>2, <3>3
  <2> QED
    BY <2>2, <2>3
<1>12. InBounds /\ Readable
  BY <1>2, <1>3 DEF Sound
<1>13. ASSUME InBounds'
       PROVE  HasSlot(i)
  <2>1. /\ Len(prod_names) \in Nat /\ Len(sets) \in Nat /\ Len(strs) \in Nat
        /\ Len(tags) \in Nat /\ Len(tables) \in Nat
    BY <1>2, LenProperties DEF Listed
  <2>2. /\ file.prods \in Int /\ file.sets \in Int /\ file.strs \in Int
        /\ file.tags \in Int /\ file.tables \in Int
    BY <1>2, FileIs, UInt16Is
  <2>3. /\ Len(prod_names') <= file.prods /\ Len(sets') <= file.sets
        /\ Len(strs') <= file.strs /\ Len(tags') <= file.tags
        /\ Len(tables') <= file.tables
    BY <1>6, <1>13 DEF InBounds, Passed
  <2>4. i.op = "Nop" => Len(prod_names) < file.prods
    BY <1>6, <2>1, <2>2, <2>3 DEF Adds
  <2>5. i.op \in SetOps => Len(sets) < file.sets
    BY <1>6, <2>1, <2>2, <2>3 DEF Adds
  <2>6. i.op \in StrOps \cup {"TReplace", "TEnd"} => Len(strs) < file.strs
    BY <1>6, <2>1, <2>2, <2>3 DEF Adds
  <2>7. HoldsTag(i.op) => Len(tags) < file.tags
    BY <1>6, <2>1, <2>2, <2>3 DEF Adds, Taken
  <2>8. i.op \in TableOps => Len(tables) < file.tables
    BY <1>6, <2>1, <2>2, <2>3 DEF Adds
  <2> QED
    BY <2>4, <2>5, <2>6, <2>7, <2>8 DEF HasSlot
<1>14. ASSUME InBounds'
       PROVE  Readable'
  <2> SUFFICES ASSUME Len(tags') <= 256
               PROVE  \A k \in 1..index+1 : /\ Reads(Lay[k].at, body[k])'
                                             /\ Within(Lay[k].at, body[k].op)'
    BY <1>6 DEF Readable, Passed
  <2> TAKE k \in 1..index+1
  <2>1. PICK p, j : p = Lay[k].at /\ j = body[k]
    OBVIOUS
  <2>2. p = Lay'[k].at /\ j = body'[k]
    BY <1>8, <2>1
  <2>3. Reads(p, j)' /\ Within(p, j.op)'
    <3>1. CASE k = index + 1
      <4>1. p = o /\ j = i
        BY <1>7, <1>9, <2>1, <3>1
      <4>2. HasSlot(i)
        BY <1>13, <1>14
      <4> QED
        BY <1>6, <4>1, <4>2
    <3>2. CASE k # index + 1
      <4>1. k \in 1..index /\ k \in 1..Len(body)+1
        BY <1>2, <1>7, <3>2
      <4>2. Len(tags) <= 256
        BY <1>6 DEF Grown, Kept
      <4>3. Reads(p, j) /\ Within(p, j.op)
        BY <1>12, <2>1, <4>1, <4>2 DEF Readable
      <4>4. p \in Nat
        BY <1>2, <2>1, <4>1, LayIs
      <4> QED
        BY <1>6, <4>3, <4>4, EntriesStay
    <3> QED
      BY <3>1, <3>2
  <2> QED
    BY <2>2, <2>3
<1>15. Sound'
  <2>1. status' # "undefined" => InBounds'
    BY <1>6 DEF Passed
  <2> QED
    BY <1>14, <2>1 DEF Sound
<1>16. Typed' /\ Finished'
  BY <1>2, <1>3, <1>6 DEF Typed, Finished, Passed
<1>17. SafeWhenDeclared'
  <2> SUFFICES ASSUME Declared
               PROVE  status' # "undefined" /\ InBounds'
    BY <1>6 DEF SafeWhenDeclared, Declared, MemoFits, Count, Passed
  <2>1. bytecode_size = Lay[Len(body) + 1].at
    BY <1>2, <1>3, DeclaredIs DEF Typed
  <2>2. index + 1 \in 0..Len(body)
    BY <1>7
  <2>3. /\ Lay[index + 1 + 1].at <= Lay[Len(body) + 1].at
        /\ Count(index + 1, {"Nop"}) <= file.prods
        /\ Count(index + 1, SetOps) <= file.sets
        /\ Count(index + 1, StrOps \cup {"TReplace", "TEnd"}) <= file.strs
        /\ Count(index + 1, TagOps) <= file.tags
        /\ Count(index + 1, TableOps) <= file.tables
    BY <1>2, <2>2, DeclaredBounds
  <2>4. /\ Len(mem') = Lay[index + 1 + 1].at
        /\ Len(prod_names') = Count(index + 1, {"Nop"})
        /\ Len(sets') = Count(index + 1, SetOps)
        /\ Len(strs') = Count(index + 1, StrOps \cup {"TReplace", "TEnd"})
        /\ Len(tags') = Count(index + 1, TagOps)
        /\ Len(tables') = Count(index + 1, TableOps)
    <3>1. \A ops : Count(index, ops)' = Count(index + 1, ops)
      BY <1>6 DEF Count, Passed
    <3>2. Lay'[index' + 1] = Lay[index + 1 + 1]
      BY <1>6, <1>8 DEF Passed
    <3> QED
      BY <1>10, <3>1, <3>2 DEF Measured
  <2>5. InBounds'
    BY <1>6, <2>1, <2>3, <2>4 DEF InBounds, Passed
  <2>6. SetFits(Inst)
    BY <1>1, <1>7 DEF Declared
  <2> QED
    BY <1>3, <1>6, <2>5, <2>6 DEF Passed
<1> QED
  BY <1>6, <1>10, <1>11, <1>15, <1>16, <1>17 DEF IInv

\* A step that loads nothing keeps what is said of memory and pools.
LEMMA OtherInv ==
  ASSUME IInv, UNCHANGED <<file, index, mem, pools>>
  PROVE  /\ Listed' /\ Measured' /\ Tagged' /\ (Readable => Readable')
         /\ Declared' = Declared
<1>1. Listed /\ Measured /\ Tagged
  BY DEF IInv
<1>2. Listed'
  BY <1>1 DEF Listed, pools
<1>3. Measured'
  BY <1>1 DEF Measured, Count, Lay, pools
<1>4. Tagged'
  BY <1>1 DEF Tagged, Lay, pools
<1>5. ASSUME Readable
      PROVE  Readable'
  <2>1. ASSUME NEW o, NEW i
        PROVE  Reads(o, i)' = Reads(o, i)
    <3>1. /\ ReadsControl(o + 1, i)' = ReadsControl(o + 1, i)
          /\ ReadsTest(o + 1, i)' = ReadsTest(o + 1, i)
          /\ ReadsTree(o + 1, i)' = ReadsTree(o + 1, i)
          /\ ReadsMemo(o + 1, i)' = ReadsMemo(o + 1, i)
      BY DEF ReadsControl, ReadsTest, ReadsTree, ReadsMemo, ReadsJump, Meant, Entry,
             ReadU8, ReadS8, ReadU16, ReadS16, ReadLabel, pools
    <3> QED
      BY <3>1 DEF Reads
  <2>2. ASSUME NEW o, NEW op
        PROVE  Within(o, op)' = Within(o, op)
    BY DEF Within, ReadU16, ReadLabel, pools
  <2>3. Len(tags)' = Len(tags) /\ index' = index /\ file' = file /\ Lay' = Lay
    BY DEF Lay, pools
  <2>4. SUFFICES ASSUME Len(tags)' <= 256, NEW k \in 1..index
                 PROVE  /\ Reads(Lay[k].at, file.body[k])'
                        /\ Within(Lay[k].at, file.body[k].op)'
    BY <2>3 DEF Readable
  <2>5. PICK p, j : p = Lay[k].at /\ j = file.body[k]
    OBVIOUS
  <2>6. Reads(p, j) /\ Within(p, j.op)
    BY <1>5, <2>3, <2>4, <2>5 DEF Readable
  <2>7. Reads(p, j)' /\ Within(p, j.op)'
    BY <2>1, <2>2, <2>6
  <2> QED
    BY <2>3, <2>5, <2>7
<1>6. Declared' = Declared
  BY DEF Declared, MemoFits, Count
<1> QED
  BY <1>2, <1>3, <1>4, <1>5, <1>6

\* The header.
LEMMA HeaderInv ==
  ASSUME IInv, Header
  PROVE  IInv'
<1> DEFINE body == file.body
<1>1. /\ Typed /\ Listed /\ Measured /\ Tagged /\ Sound /\ Finished /\ SafeWhenDeclared
  BY DEF IInv
<1>2. UNCHANGED <<file, index, mem, pools>> /\ status = "header"
  BY DEF Header
<1>3. /\ Listed' /\ Measured' /\ Tagged' /\ (Readable => Readable')
      /\ Declared' = Declared
  BY <1>2, OtherInv
<1>4. file \in Files /\ index = 0
  BY <1>1, <1>2 DEF Typed
<1>5. /\ bytecode_length' \in Read64(file.length) /\ bytecode_size' \in Read64(file.size)
      /\ status' = IF HeaderDefined' THEN "body" ELSE "undefined"
  BY DEF Header
<1>6. bytecode_size' \in Nat
  <2>1. file.size.low \in Nat /\ file.size.high \in Nat
    BY <1>4, FileIs
  <2> QED
    BY <1>5, <2>1, Read64Is
<1>7. InBounds'
  <2>1. InBounds /\ Lay[0 + 1].at = 0
    <3>1. LaidOut(Lay, body)
      BY <1>4, LayIs
    <3> QED
      BY <1>1, <1>2, <3>1 DEF Sound, LaidOut, Start
  <2>2. Len(mem') = 0
    BY <1>1, <1>2, <1>4, <2>1 DEF Measured
  <2> QED
    BY <1>2, <1>6, <2>1, <2>2 DEF InBounds, pools
<1>8. Typed' /\ Finished'
  BY <1>1, <1>2, <1>5 DEF Typed, Finished
<1>9. Sound'
  BY <1>1, <1>2, <1>3, <1>7 DEF Sound
<1>10. SafeWhenDeclared'
  <2> SUFFICES ASSUME Declared
               PROVE  HeaderDefined'
    BY <1>3, <1>5, <1>7 DEF SafeWhenDeclared
  <2>1. bytecode_length' = Len(body) /\ bytecode_size' = Lay[Len(body) + 1].at
    BY <1>4, <1>5, DeclaredIs
  <2>2. Len(body) \in 0..Len(body)
    BY <1>4, FileIs
  <2>3. Len(body) <= Lay[Len(body) + 1].at
    BY <1>4, <2>2, LayAtLeast
  <2>4. MemoFits'
    BY <1>2 DEF Declared, MemoFits
  <2> QED
    BY <2>1, <2>3, <2>4 DEF HeaderDefined
<1> QED
  BY <1>3, <1>8, <1>9, <1>10 DEF IInv

\* A step that keeps the header and loads nothing.
LEMMA StatusInv ==
  ASSUME IInv, UNCHANGED <<header, index, mem, pools>>,
         status' = status \/ status' \in {"loaded", "disposed", "undefined"},
         status' # status => status # "header" /\ status # "undefined",
         status' \in {"loaded", "disposed"} => index = bytecode_length,
         status' = "undefined" => status = "undefined" \/ ~Declared
  PROVE  IInv'
<1>1. /\ Typed /\ Listed /\ Measured /\ Tagged /\ Sound /\ Finished /\ SafeWhenDeclared
  BY DEF IInv
<1>2. /\ UNCHANGED <<file, index, mem, pools>>
      /\ bytecode_length' = bytecode_length /\ bytecode_size' = bytecode_size
  BY DEF header
<1>3. /\ Listed' /\ Measured' /\ Tagged' /\ (Readable => Readable')
      /\ Declared' = Declared
  BY <1>2, OtherInv
<1>4. InBounds' = InBounds
  BY <1>2 DEF InBounds, pools
<1>5. Typed'
  BY <1>1, <1>2 DEF Typed
<1>6. Sound'
  BY <1>1, <1>3, <1>4 DEF Sound
<1>7. Finished'
  BY <1>2 DEF Finished
<1>8. SafeWhenDeclared'
  BY <1>1, <1>3, <1>4 DEF SafeWhenDeclared
<1> QED
  BY <1>3, <1>5, <1>6, <1>7, <1>8 DEF IInv

\* With a header that declares the body the pools are filled in the end.
LEMMA DeclaredFilled ==
  ASSUME IInv, Declared, status = "loaded"
  PROVE  Filled
<1>1. /\ file \in Files /\ Measured /\ index = bytecode_length
      /\ bytecode_length \in Read64(file.length) /\ bytecode_size \in Read64(file.size)
  BY DEF IInv, Typed, Finished
<1>2. index = Len(file.body)
  BY <1>1, DeclaredIs
<1> QED
  BY <1>1, <1>2 DEF Measured, Declared, Filled, TagOps

\* The steps keep the invariant.
LEMMA StepInv ==
  IInv /\ [Next]_vars => IInv'
<1> SUFFICES ASSUME IInv, [Next]_vars
             PROVE  IInv'
  OBVIOUS
<1>1. CASE Header
  BY <1>1, HeaderInv
<1>2. CASE Loading
  BY <1>2, LoadingInv
<1>3. CASE Undefined
  <2>1. /\ UNCHANGED <<header, index, mem, pools>> /\ status = "body"
        /\ status' = "undefined" /\ index < bytecode_length /\ ~(index < Len(file.body))
    BY <1>3 DEF Undefined
  <2>2. ~Declared
    <3> SUFFICES ASSUME Declared PROVE FALSE
      OBVIOUS
    <3>1. /\ file \in Files /\ bytecode_length \in Read64(file.length)
          /\ bytecode_size \in Read64(file.size)
      BY <2>1 DEF IInv, Typed
    <3>2. bytecode_length = Len(file.body)
      BY <3>1, DeclaredIs
    <3> QED
      BY <2>1, <3>2
  <2> QED
    BY <2>1, <2>2, StatusInv
<1>4. CASE Return
  <2>1. /\ UNCHANGED <<header, index, mem, pools>> /\ status = "body"
        /\ status' = "loaded" /\ index = bytecode_length
    BY <1>4 DEF Return
  <2> QED
    BY <2>1, StatusInv
<1>5. CASE Dispose
  <2>1. /\ UNCHANGED <<header, index, mem, pools>> /\ status = "loaded"
        /\ status' = IF Filled THEN "disposed" ELSE "undefined"
    BY <1>5 DEF Dispose
  <2>2. index = bytecode_length
    BY <2>1 DEF IInv, Finished
  <2>3. Declared => Filled
    BY <2>1, DeclaredFilled
  <2> QED
    BY <2>1, <2>2, <2>3, StatusInv
<1>6. CASE UNCHANGED vars
  <2>1. UNCHANGED <<header, index, mem, pools>> /\ status' = status
    BY <1>6 DEF vars
  <2>2. status \in {"loaded", "disposed"} => index = bytecode_length
    BY DEF IInv, Finished
  <2> QED
    BY <2>1, <2>2, StatusInv
<1>7. CASE Done
  BY <1>6, <1>7 DEF Done
<1> QED
  BY <1>1, <1>2, <1>3, <1>4, <1>5, <1>6, <1>7 DEF Next, Loading
-----------------------------------------------------------------------------
(* The theorems.                                                           *)

\* The instructions loaded so far and their layout.
LEMMA LoadedIs ==
  ASSUME file \in Files, index \in 0..Len(file.body)
  PROVE  LET loaded == SubSeq(file.body, 1, index)
             layout == Layout(loaded)
         IN  /\ loaded \in Seq(Insts) /\ Len(loaded) = index
             /\ \A k \in 1..index : loaded[k] = file.body[k]
             /\ \A k \in 1..index+1 : layout[k] = Lay[k]
             /\ Last(layout) = Lay[index + 1]
<1> DEFINE body == file.body
           loaded == SubSeq(body, 1, index)
           layout == Layout(loaded)
<1>1. body \in Seq(Insts) /\ Len(body) \in Nat /\ index \in 0..Len(body)
  BY FileIs
<1>2. LaidOut(Lay, body)
  BY LayIs
<1>3. /\ loaded \in Seq(Insts) /\ Len(loaded) = index
      /\ \A k \in 1..index : loaded[k] = body[k]
  <2>1. \A k \in 1..index : k \in 1..Len(body)
    BY <1>1
  <2> QED
    BY <1>1, <2>1, SubSeqProperties
<1>4. LaidOut(layout, loaded)
  BY <1>3, LayoutIs
<1> HIDE DEF layout
<1>5. Len(layout) = index + 1 /\ \A k \in 1..index+1 : layout[k] = Lay[k]
  BY <1>1, <1>2, <1>4, LayoutOfPrefix
<1>6. Last(layout) = Lay[index + 1]
  BY <1>1, <1>5 DEF Last
<1> QED
  BY <1>3, <1>5, <1>6 DEF layout

\* The invariant gives the types.
LEMMA InvTypeOK == IInv => TypeOK
<1> SUFFICES ASSUME IInv PROVE TypeOK
  OBVIOUS
<1>1. Typed /\ Measured
  BY DEF IInv
<1>2. file \in Files /\ index \in 0..Len(file.body)
  BY <1>1 DEF Typed, Measured
<1>3. Last(Layout(SubSeq(file.body, 1, index))) = Lay[index + 1]
  BY <1>2, LoadedIs
<1>4. /\ bytecode_length \in {0} \cup Read64(file.length)
      /\ bytecode_size \in {0} \cup Read64(file.size)
      /\ status \in {"header", "body", "loaded", "disposed", "undefined"}
  BY <1>1 DEF Typed
<1> QED
  BY <1>1, <1>2, <1>3, <1>4 DEF TypeOK, Measured, TagOps

\* The invariant gives what is read back.
LEMMA InvReadsBack == IInv => ReadsBack
<1> SUFFICES ASSUME IInv, status # "undefined", Len(tags) <= 256
             PROVE  LET loaded == SubSeq(file.body, 1, index)
                        layout == Layout(loaded)
                    IN  /\ \A k \in DOMAIN loaded : Reads(layout[k].at, loaded[k])
                        /\ tags = TagsOf(loaded)
  BY DEF ReadsBack
<1> DEFINE body == file.body
           loaded == SubSeq(body, 1, index)
           layout == Layout(loaded)
<1>1. /\ file \in Files /\ Listed /\ Measured /\ Tagged /\ Readable
  BY DEF IInv, Typed, Sound
<1>2. body \in Seq(Insts) /\ Len(body) \in Nat /\ index \in 0..Len(body)
  BY <1>1, FileIs DEF Measured
<1>4. /\ loaded \in Seq(Insts) /\ Len(loaded) = index
      /\ \A k \in 1..index : loaded[k] = body[k]
  BY <1>1, <1>2, LoadedIs
<1>5. DOMAIN loaded = 1..index
  BY <1>4, LenProperties
<1>7. \A k \in 1..index+1 : layout[k] = Lay[k]
  BY <1>1, <1>2, LoadedIs
<1>8. Last(layout) = Lay[index + 1]
  BY <1>1, <1>2, LoadedIs
<1> HIDE DEF layout
<1>9. ASSUME NEW k \in DOMAIN loaded
      PROVE  Reads(layout[k].at, loaded[k])
  <2>1. k \in 1..index /\ k \in 1..index+1
    BY <1>2, <1>5
  <2>2. Reads(Lay[k].at, body[k])
    BY <1>1, <2>1 DEF Readable
  <2>3. layout[k] = Lay[k] /\ loaded[k] = body[k]
    BY <1>4, <1>7, <2>1
  <2> QED
    BY <2>2, <2>3
<1>10. Len(tags) = Last(layout).id
  BY <1>1, <1>8 DEF Measured
<1>11. tags = TagsOf(loaded)
  <2> DEFINE Holds(n, k) == HoldsTag(loaded[k].op) /\ layout[k].id = n - 1
             Holder(n) == CHOOSE k \in DOMAIN loaded : Holds(n, k)
  <2>1. ASSUME NEW n \in 1..Len(tags)
        PROVE  tags[n] = loaded[Holder(n)].tag
    <3>1. PICK k \in 1..index : /\ HoldsTag(body[k].op) /\ Lay[k].id = n - 1
                                /\ tags[n] = body[k].tag
      BY <1>1 DEF Tagged
    <3>2. k \in DOMAIN loaded /\ Holds(n, k)
      <4>1. k \in 1..index+1
        BY <1>2
      <4> QED
        BY <1>4, <1>5, <1>7, <3>1, <4>1
    <3> HIDE DEF Holds
    <3>3. PICK h \in DOMAIN loaded : h = Holder(n) /\ Holds(n, h)
      BY <3>2
    <3>4. h \in 1..index /\ HoldsTag(body[h].op) /\ Lay[h].id = n - 1
      <4>1. h \in 1..index /\ h \in 1..index+1
        BY <1>2, <1>5
      <4> QED
        BY <1>4, <1>7, <3>3, <4>1 DEF Holds
    <3>5. \A p, q \in 1..index : HoldsTag(body[p].op) /\ p < q => Lay[p].id < Lay[q].id
      <4> SUFFICES ASSUME NEW p \in 1..index, NEW q \in 1..index,
                          HoldsTag(body[p].op), p < q
                   PROVE  Lay[p].id < Lay[q].id
        OBVIOUS
      <4>1. /\ p \in 1..Len(body) /\ q \in 1..Len(body)+1 /\ p \in 1..Len(body)+1
            /\ p + 1 \in 1..q
        BY <1>2
      <4>2. Lay[p + 1].id = Lay[p].id + Taken(body[p]).id
        BY <1>1, <4>1, LayIs
      <4>3. Taken(body[p]).id = 1
        BY DEF Taken
      <4>4. Lay[p].id \in Nat /\ Lay[q].id \in Nat /\ Lay[p + 1].id <= Lay[q].id
        BY <1>1, <4>1, LayIs
      <4> QED
        BY <4>2, <4>3, <4>4
    <3>6. h = k
      <4>1. ~(Lay[h].id < Lay[k].id) /\ ~(Lay[k].id < Lay[h].id)
        BY <3>1, <3>4
      <4>2. ~(h < k) /\ ~(k < h)
        BY <3>1, <3>4, <3>5, <4>1
      <4> QED
        BY <3>4, <4>2
    <3> QED
      BY <1>4, <3>1, <3>3, <3>6
  <2>2. tags = [n \in 1..Len(tags) |-> tags[n]]
    <3>1. tags \in Seq({j.tag : j \in Insts})
      BY <1>1 DEF Listed
    <3> QED
      BY <3>1
  <2>3. TagsOf(loaded) = [n \in 1..Last(layout).id |-> loaded[Holder(n)].tag]
    BY DEF TagsOf, layout
  <2> HIDE DEF Holder
  <2>4. [n \in 1..Len(tags) |-> tags[n]] = [n \in 1..Len(tags) |-> loaded[Holder(n)].tag]
    BY <2>1
  <2> QED
    BY <1>10, <2>2, <2>3, <2>4
<1> QED
  BY <1>9, <1>11 DEF layout

\* Every reachable state of the load is in it.
LEMMA IInvAlways == Spec => []IInv
BY InitInv, StepInv, PTL DEF Spec

\* For every file: the header's numbers are among those read64 can return, and the
\* block and every pool are as long as the instructions loaded so far make them,
\* in bounds or not (mininez_load_code, which tests no bound).
THEOREM TypeCorrect == Spec => []TypeOK
BY IInvAlways, InvTypeOK, PTL

\* For every file: at every point of a load that has stayed in bounds the
\* instructions loaded so far lie where the interpreter's model has them, read
\* back as the file means them, a distance if it has 16 bits with its sign, and
\* the tags are the model's (mininez_load_instruction against the reads of
\* mininez_parse).
THEOREM LoadsFaithfully == Spec => []ReadsBack
BY IInvAlways, InvReadsBack, PTL

\* For every file whose header declares the body, asks for no larger memo than an
\* int can say, and whose sets list no position past 255: the load and the release
\* are defined, and no write leaves the block, a pool or a set
\* (mininez_load_code, mininez_dispose_constant).
THEOREM DefinedWhenDeclared == Spec => []SafeWhenDeclared
<1>1. IInv => SafeWhenDeclared
  BY DEF IInv
<1> QED
  BY <1>1, IInvAlways, PTL
=============================================================================
