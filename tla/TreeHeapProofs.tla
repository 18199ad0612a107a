--------------------------- MODULE TreeHeapProofs ----------------------------
(***************************************************************************)
(* Proofs about the reference counts of TreeHeap, for every heap: that a   *)
(* count covers the references to a node, those of the children of nodes   *)
(* in use and those a caller holds, is kept by the calls that count and    *)
(* release references, and no freed node is counted again.                 *)
(***************************************************************************)
EXTENDS TreeHeap, NatSets, SequenceTheorems

-----------------------------------------------------------------------------
(* The heap operators keep a heap well formed.                             *)

\* A function on 1..k is a sequence of its values.
LEMMA FunIsSeq ==
  ASSUME NEW k \in Nat, NEW f, f = [n \in 1..k |-> f[n]]
  PROVE  f \in Seq(Range(f)) /\ Len(f) = k
BY IsASeq DEF Range

\* GcIncAll counts references and builds nothing.
LEMMA IncOK ==
  ASSUME NEW k \in Nat, NEW h, HeapOK(h, k), NEW trees
  PROVE  HeapOK(GcIncAll(h, trees), k)
<1>1. DOMAIN h.refc = 1..k
  BY DEF HeapOK
<1> DEFINE r == [n \in DOMAIN h.refc |-> h.refc[n] + Times(trees, n)]
<1>2. r = [n \in 1..k |-> r[n]]
  BY <1>1
<1> HIDE DEF r
<1>3. r \in Seq(Range(r)) /\ Len(r) = k
  BY <1>2, FunIsSeq
<1>4. /\ GcIncAll(h, trees).nodes = h.nodes
      /\ GcIncAll(h, trees).refc = r
      /\ GcIncAll(h, trees).freed = h.freed
      /\ GcIncAll(h, trees).uaf \in BOOLEAN
  BY DEF GcIncAll, r, HeapOK
<1> QED
  BY <1>3, <1>4 DEF HeapOK

\* GcDecAll frees nodes of the heap and changes none of them.
LEMMA DecOK ==
  ASSUME NEW k \in Nat, NEW h, HeapOK(h, k), NEW trees
  PROVE  HeapOK(GcDecAll(h, trees), k)
<1>1. DOMAIN h.refc = 1..k /\ DOMAIN h.nodes = 1..k
  BY DEF HeapOK
<1> DEFINE dead == Freed(h, trees)
           lost(n) == Lost(h, trees, dead, n)
           r == [n \in DOMAIN h.refc |-> h.refc[n] - lost(n)]
<1>2. r = [n \in 1..k |-> r[n]]
  BY <1>1
<1>3. dead \subseteq 1..k
  BY <1>1 DEF Freed
<1> HIDE DEF r, dead
<1>4. r \in Seq(Range(r)) /\ Len(r) = k
  BY <1>2, FunIsSeq
<1>5. CASE \A i \in DOMAIN trees : trees[i] = NULL
  BY <1>5 DEF GcDecAll
<1>6. CASE ~ \A i \in DOMAIN trees : trees[i] = NULL
  <2>1. GcDecAll(h, trees) =
          [nodes |-> h.nodes, refc |-> r, freed |-> h.freed \cup dead,
           uaf |-> \/ h.uaf
                   \/ \E n \in h.freed : lost(n) > 0
                   \/ \E n \in dead : lost(n) > h.refc[n]]
    BY <1>6 DEF GcDecAll, r, dead
  <2>2. /\ GcDecAll(h, trees).nodes = h.nodes
        /\ GcDecAll(h, trees).refc = r
        /\ GcDecAll(h, trees).freed = h.freed \cup dead
        /\ GcDecAll(h, trees).uaf \in BOOLEAN
    BY <2>1 DEF HeapOK
  <2> QED
    BY <1>3, <1>4, <2>2 DEF HeapOK
<1> QED
  BY <1>5, <1>6

\* GcSet counts one reference and drops one.
LEMMA SetOK ==
  ASSUME NEW k \in Nat, NEW h, HeapOK(h, k), NEW old, NEW new
  PROVE  HeapOK(GcSet(h, old, new), k)
BY IncOK, DecOK DEF GcSet

\* Counting makes no node.
LEMMA SameNodes ==
  ASSUME NEW h, NEW trees, NEW old, NEW new
  PROVE  /\ GcIncAll(h, trees).nodes = h.nodes /\ GcIncAll(h, trees).freed = h.freed
         /\ GcDecAll(h, trees).nodes = h.nodes
         /\ GcSet(h, old, new).nodes = h.nodes
<1>1. \A g, t : GcIncAll(g, t).nodes = g.nodes /\ GcIncAll(g, t).freed = g.freed
  BY DEF GcIncAll
<1>2. \A g, t : GcDecAll(g, t).nodes = g.nodes
  BY DEF GcDecAll
<1> QED
  BY <1>1, <1>2 DEF GcSet

\* A new node whose children are older keeps the heap well formed.
LEMMA NewOK ==
  ASSUME NEW k \in Nat, NEW h, HeapOK(h, k),
         NEW tag, NEW text, NEW labels, NEW childs, Range(childs) \subseteq 0..k
  PROVE  HeapOK(New(h, tag, text, labels, childs), k + 1)
<1> DEFINE node == [tag |-> tag, text |-> text, labels |-> labels, childs |-> childs]
           g == New(h, tag, text, labels, childs)
           S == Range(h.nodes) \cup {node}
           R == Range(h.refc) \cup {0}
<1>1. /\ g.nodes = Append(h.nodes, node) /\ g.refc = Append(h.refc, 0)
      /\ g.freed = h.freed /\ g.uaf = h.uaf
  BY DEF New
<1>2. node.childs = childs
  OBVIOUS
<1> HIDE DEF g, node
<1>3. h.nodes \in Seq(S) /\ h.refc \in Seq(R)
  BY SeqMonotonic DEF HeapOK
<1> HIDE DEF S, R
<1>4. node \in S /\ 0 \in R
  BY DEF S, R
<1>5. /\ Append(h.nodes, node) \in Seq(S)
      /\ Len(Append(h.nodes, node)) = k + 1
      /\ \A n \in 1..k : Append(h.nodes, node)[n] = h.nodes[n]
      /\ Append(h.nodes, node)[k + 1] = node
  BY <1>3, <1>4, AppendProperties DEF HeapOK
<1>6. Append(h.refc, 0) \in Seq(R) /\ Len(Append(h.refc, 0)) = k + 1
  BY <1>3, <1>4, AppendProperties DEF HeapOK
<1>7. g.nodes \in Seq(Range(g.nodes)) /\ g.refc \in Seq(Range(g.refc))
  BY <1>1, <1>5, <1>6, SeqOfRange
<1>8. \A n \in 1..k+1 : Range(g.nodes[n].childs) \subseteq 0..n-1
  <2> SUFFICES ASSUME NEW n \in 1..k+1
               PROVE  Range(g.nodes[n].childs) \subseteq 0..n-1
    OBVIOUS
  <2>1. CASE n = k + 1
    BY <1>1, <1>2, <1>5, <2>1
  <2>2. CASE n \in 1..k
    BY <1>1, <1>5, <2>2 DEF HeapOK
  <2> QED
    BY <2>1, <2>2
<1> QED
  BY <1>1, <1>5, <1>6, <1>7, <1>8 DEF HeapOK, g
-----------------------------------------------------------------------------
(* Counting occurrences.                                                   *)

\* What Times counts.
LEMMA TimesIs ==
  ASSUME NEW trees, IsFiniteSet(DOMAIN trees), NEW n
  PROVE  /\ Times(trees, n) \in Nat
         /\ Times(trees, n) = 0 <=> \A i \in DOMAIN trees : trees[i] # n
<1> DEFINE S == {i \in DOMAIN trees : trees[i] = n}
<1>1. S \subseteq DOMAIN trees
  OBVIOUS
<1>2. S = {} <=> \A i \in DOMAIN trees : trees[i] # n
  OBVIOUS
<1>3. Times(trees, n) = Cardinality(S)
  BY DEF Times
<1> HIDE DEF S
<1>4. IsFiniteSet(S)
  BY <1>1, FS_Subset
<1> QED
  BY <1>2, <1>3, <1>4, FS_CardinalityType, FS_EmptySet

\* One tree and two.
LEMMA TimesOne ==
  ASSUME NEW t, NEW n
  PROVE  Times(<<t>>, n) = IF t = n THEN 1 ELSE 0
<1> DEFINE S == {i \in DOMAIN <<t>> : <<t>>[i] = n}
<1>1. CASE t = n
  <2>1. S = {1}
    BY <1>1
  <2> QED
    BY <1>1, <2>1, FS_Singleton DEF Times
<1>2. CASE t # n
  <2>1. S = {}
    BY <1>2
  <2> QED
    BY <1>2, <2>1, FS_EmptySet DEF Times
<1> QED
  BY <1>1, <1>2

LEMMA TimesTwo ==
  ASSUME NEW t, NEW u, NEW n
  PROVE  Times(<<t, u>>, n) = Times(<<t>>, n) + Times(<<u>>, n)
<1> DEFINE S == {i \in DOMAIN <<t, u>> : <<t, u>>[i] = n}
           A == IF t = n THEN {1} ELSE {}
           B == IF u = n THEN {2} ELSE {}
<1>1. S = A \cup B /\ A \cap B = {}
  OBVIOUS
<1>2. IsFiniteSet(A) /\ Cardinality(A) = Times(<<t>>, n)
  BY FS_Singleton, FS_EmptySet, TimesOne
<1>3. IsFiniteSet(B) /\ Cardinality(B) = Times(<<u>>, n)
  BY FS_Singleton, FS_EmptySet, TimesOne
<1>4. Times(<<t, u>>, n) = Cardinality(S)
  BY DEF Times
<1> HIDE DEF A, B, S
<1>5. Cardinality(A \cup B) = Cardinality(A) + Cardinality(B) - Cardinality({})
  BY <1>1, <1>2, <1>3, FS_Union
<1>6. Cardinality(A) \in Nat /\ Cardinality(B) \in Nat
  BY <1>2, <1>3, FS_CardinalityType
<1> QED
  BY <1>1, <1>2, <1>3, <1>4, <1>5, <1>6, FS_EmptySet
\* g is f but for the value v at k.
ButFor(g, f, k, v) ==
  /\ k \in DOMAIN f /\ DOMAIN g = DOMAIN f
  /\ g[k] = v /\ \A i \in DOMAIN f \ {k} : g[i] = f[i]

\* One value in the place of another.
LEMMA TimesExcept ==
  ASSUME NEW f, IsFiniteSet(DOMAIN f), NEW g, NEW k, NEW v, ButFor(g, f, k, v), NEW n
  PROVE  Times(g, n) + Times(<<f[k]>>, n) = Times(f, n) + Times(<<v>>, n)
<1> DEFINE S == {i \in DOMAIN f : f[i] = n}
           T == {i \in DOMAIN f : g[i] = n}
           U == {i \in DOMAIN f \ {k} : f[i] = n}
<1>1. S = IF f[k] = n THEN U \cup {k} ELSE U
  BY DEF ButFor
<1>2. T = IF v = n THEN U \cup {k} ELSE U
  BY DEF ButFor
<1>3. Times(f, n) = Cardinality(S) /\ Times(g, n) = Cardinality(T)
  BY DEF Times, ButFor
<1>4. k \notin U /\ U \subseteq DOMAIN f
  OBVIOUS
<1> HIDE DEF S, T, U
<1>5. IsFiniteSet(U)
  BY <1>4, FS_Subset
<1>6. Cardinality(U \cup {k}) = Cardinality(U) + 1 /\ Cardinality(U) \in Nat
  BY <1>4, <1>5, FS_AddElement, FS_CardinalityType
<1>7. Cardinality(S) = Cardinality(U) + Times(<<f[k]>>, n)
  BY <1>1, <1>6, TimesOne
<1>8. Cardinality(T) = Cardinality(U) + Times(<<v>>, n)
  BY <1>2, <1>6, TimesOne
<1>9. Times(<<f[k]>>, n) \in Nat /\ Times(<<v>>, n) \in Nat
  BY TimesOne
<1> QED
  BY <1>3, <1>6, <1>7, <1>8, <1>9

\* at leads from the places of g to as many of f that hold the same.
Into(at, g, f) ==
  /\ \A i \in DOMAIN g : at[i] \in DOMAIN f /\ f[at[i]] = g[i]
  /\ \A i, j \in DOMAIN g : at[i] = at[j] => i = j

\* A part, and all there is of n in another order.
LEMMA TimesInto ==
  ASSUME NEW f, IsFiniteSet(DOMAIN f), NEW g, NEW at, Into(at, g, f), NEW n
  PROVE  /\ Times(g, n) <= Times(f, n)
         /\ (\A x \in DOMAIN f : f[x] = n => \E i \in DOMAIN g : at[i] = x)
               => Times(g, n) = Times(f, n)
<1> DEFINE S == {i \in DOMAIN g : g[i] = n}
           T == {x \in DOMAIN f : f[x] = n}
           m == [i \in S |-> at[i]]
<1>1. m \in [S -> T] /\ \A i, j \in S : m[i] = m[j] => i = j
  BY DEF Into
<1>2. m \in Injection(S, T)
  <2> HIDE DEF m, S, T
  <2> QED
    BY <1>1 DEF Injection, IsInjective
<1>3. ASSUME \A x \in DOMAIN f : f[x] = n => \E i \in DOMAIN g : at[i] = x
      PROVE  \A x \in T : \E i \in S : m[i] = x
  BY <1>3 DEF Into
<1>4. (\A x \in T : \E i \in S : m[i] = x) => m \in Surjection(S, T)
  <2> HIDE DEF m, S, T
  <2> QED
    BY <1>1 DEF Surjection
<1>5. Times(g, n) = Cardinality(S) /\ Times(f, n) = Cardinality(T) /\ T \subseteq DOMAIN f
  BY DEF Times
<1> HIDE DEF m, S, T
<1>6. IsFiniteSet(T)
  BY <1>5, FS_Subset
<1>7. /\ Cardinality(S) <= Cardinality(T)
      /\ m \in Surjection(S, T) => Cardinality(S) = Cardinality(T)
  BY <1>2, <1>6, FS_Injection
<1> QED
  BY <1>3, <1>4, <1>5, <1>7

\* f is a and b, one beside the other.
Parts(f, a, b) ==
  /\ DOMAIN f = DOMAIN a \cup DOMAIN b /\ DOMAIN a \cap DOMAIN b = {}
  /\ \A i \in DOMAIN a : a[i] = f[i]
  /\ \A i \in DOMAIN b : b[i] = f[i]

\* Some places and the others.
LEMMA TimesSplit ==
  ASSUME NEW f, IsFiniteSet(DOMAIN f), NEW a, NEW b, Parts(f, a, b), NEW n
  PROVE  Times(f, n) = Times(a, n) + Times(b, n)
<1> DEFINE S == {i \in DOMAIN f : f[i] = n}
           A == {i \in DOMAIN a : a[i] = n}
           B == {i \in DOMAIN b : b[i] = n}
<1>1. S = A \cup B /\ A \cap B = {} /\ A \subseteq DOMAIN f /\ B \subseteq DOMAIN f
  BY DEF Parts
<1>2. Times(f, n) = Cardinality(S) /\ Times(a, n) = Cardinality(A) /\ Times(b, n) = Cardinality(B)
  BY DEF Times
<1> HIDE DEF S, A, B
<1>3. IsFiniteSet(A) /\ IsFiniteSet(B)
  BY <1>1, FS_Subset
<1>4. Cardinality(A \cup B) = Cardinality(A) + Cardinality(B) - Cardinality({})
  BY <1>1, <1>3, FS_Union
<1>5. Cardinality(A) \in Nat /\ Cardinality(B) \in Nat
  BY <1>3, FS_CardinalityType
<1> QED
  BY <1>1, <1>2, <1>4, <1>5, FS_EmptySet
-----------------------------------------------------------------------------
(* The places that hold a node.                                            *)

\* The nodes of S have finitely many children.
Bounded(h, S) == \A m \in S : IsFiniteSet(DOMAIN h.nodes[m].childs)

\* The children of one node.
LEMMA HeldByOne ==
  ASSUME NEW h, NEW m, Bounded(h, {m}), NEW n
  PROVE  /\ IsFiniteSet({m} \X ChildAt(h, m, n))
         /\ HeldBy(h, {m}, n) = Times(h.nodes[m].childs, n)
<1> DEFINE C == ChildAt(h, m, n)
<1>1. IsFiniteSet(C)
  <2>1. C \subseteq DOMAIN h.nodes[m].childs
    BY DEF ChildAt
  <2>2. IsFiniteSet(DOMAIN h.nodes[m].childs)
    BY DEF Bounded
  <2> QED
    BY <2>1, <2>2, FS_Subset
<1>2. Times(h.nodes[m].childs, n) = Cardinality(C)
  BY DEF Times, ChildAt
<1>3. Places(h, {m}, n) = {m} \X C
  BY DEF Places
<1> HIDE DEF C
<1>4. IsFiniteSet({m}) /\ Cardinality({m}) = 1
  BY FS_Singleton
<1>5. IsFiniteSet({m} \X C) /\ Cardinality({m} \X C) = 1 * Cardinality(C)
  BY <1>1, <1>4, FS_Product
<1>6. Cardinality(C) \in Nat
  BY <1>1, FS_CardinalityType
<1>7. HeldBy(h, {m}, n) = Cardinality({m} \X C)
  BY <1>3 DEF HeldBy
<1>8. HeldBy(h, {m}, n) = Times(h.nodes[m].childs, n)
  BY <1>2, <1>5, <1>6, <1>7
<1> QED
  BY <1>5, <1>8 DEF C

\* Finitely many nodes hold a node in finitely many places, or in none.
LEMMA HeldByIs ==
  ASSUME NEW h, NEW S, IsFiniteSet(S), Bounded(h, S), NEW n
  PROVE  /\ IsFiniteSet(Places(h, S, n))
         /\ HeldBy(h, S, n) \in Nat
         /\ HeldBy(h, S, n) = 0 <=> \A m \in S : ChildAt(h, m, n) = {}
<1> DEFINE f == [m \in S |-> {m} \X ChildAt(h, m, n)]
           U == {{m} \X ChildAt(h, m, n) : m \in S}
<1>1. IsFiniteSet(U)
  <2>1. f \in Surjection(S, U)
    BY DEF Surjection
  <2> HIDE DEF f, U
  <2> QED
    BY <2>1, FS_Surjection DEF ExistsSurjection
<1>2. \A T \in U : IsFiniteSet(T)
  <2> SUFFICES ASSUME NEW m \in S
               PROVE  IsFiniteSet({m} \X ChildAt(h, m, n))
    OBVIOUS
  <2>1. Bounded(h, {m})
    BY DEF Bounded
  <2> QED
    BY <2>1, HeldByOne
<1>3. Places(h, S, n) = UNION U
  BY DEF Places
<1>4. UNION U = {} <=> \A m \in S : ChildAt(h, m, n) = {}
  <2>1. ASSUME UNION U = {}, NEW m \in S
        PROVE  ChildAt(h, m, n) = {}
    <3>1. {m} \X ChildAt(h, m, n) \in U
      OBVIOUS
    <3>2. \A i \in ChildAt(h, m, n) : <<m, i>> \in UNION U
      BY <3>1
    <3> QED
      BY <2>1, <3>2
  <2>2. ASSUME \A m \in S : ChildAt(h, m, n) = {}, NEW x \in UNION U
        PROVE  FALSE
    BY <2>2
  <2> QED
    BY <2>1, <2>2
<1> HIDE DEF U
<1>5. IsFiniteSet(UNION U)
  BY <1>1, <1>2, FS_UNION
<1> QED
  BY <1>3, <1>4, <1>5, FS_CardinalityType, FS_EmptySet DEF HeldBy

\* Other holders hold it in other places.
LEMMA HeldByUnion ==
  ASSUME NEW h, NEW S, IsFiniteSet(S), Bounded(h, S),
         NEW T, IsFiniteSet(T), Bounded(h, T), S \cap T = {}, NEW n
  PROVE  HeldBy(h, S \cup T, n) = HeldBy(h, S, n) + HeldBy(h, T, n)
<1> DEFINE A == Places(h, S, n)
           B == Places(h, T, n)
<1>1. IsFiniteSet(A) /\ IsFiniteSet(B)
  BY HeldByIs
<1>2. Places(h, S \cup T, n) = A \cup B
  BY DEF Places
<1>3. A \cap B = {}
  BY DEF Places
<1>4. HeldBy(h, S, n) = Cardinality(A) /\ HeldBy(h, T, n) = Cardinality(B)
  BY DEF HeldBy
<1> HIDE DEF A, B
<1>5. Cardinality(A \cup B) = Cardinality(A) + Cardinality(B) - Cardinality({})
  BY <1>1, <1>3, FS_Union
<1>6. Cardinality(A) \in Nat /\ Cardinality(B) \in Nat
  BY <1>1, FS_CardinalityType
<1>7. HeldBy(h, S \cup T, n) = Cardinality(A \cup B)
  BY <1>2 DEF HeldBy
<1> QED
  BY <1>4, <1>5, <1>6, <1>7, FS_EmptySet

\* Only the holders' children matter.
LEMMA HeldBySame ==
  ASSUME NEW h, NEW g, NEW S, \A m \in S : g.nodes[m] = h.nodes[m], NEW n
  PROVE  HeldBy(g, S, n) = HeldBy(h, S, n)
<1>1. \A m \in S : ChildAt(g, m, n) = ChildAt(h, m, n)
  BY DEF ChildAt
<1>2. Places(g, S, n) = Places(h, S, n)
  BY <1>1 DEF Places
<1> QED
  BY <1>2 DEF HeldBy
-----------------------------------------------------------------------------
(* Which nodes a release frees.                                            *)

\* A heap of k nodes with their counts and finitely many children.
Sound(h, k) ==
  /\ HeapOK(h, k)
  /\ h.refc \in [1..k -> Nat]
  /\ Bounded(h, 1..k)

\* The step of Freed's recursion: node n, if the losses that the younger nodes
\* of S cause free it, joins them.
Grown(h, trees, S, n) ==
  S \cup {m \in {n} \ h.freed : h.refc[m] \in 1..Lost(h, trees, S, m)}

\* f is the recursion of Freed, from node n on.
Frees(h, trees, k, n, f) ==
  \A i \in n..k+1 : f[i] = IF i > k THEN {} ELSE Grown(h, trees, f[i + 1], i)

\* The recursion has a solution, which is built from its end.
LEMMA FreesExists ==
  ASSUME NEW h, NEW trees, NEW k \in Nat
  PROVE  \E f : Frees(h, trees, k, 1, f)
<1> DEFINE T == {d \in Nat : d <= k => \E f : Frees(h, trees, k, k + 1 - d, f)}
<1>1. 0 \in T
  <2> DEFINE f == [i \in {k + 1} |-> {}]
  <2>1. \A i \in k+1..k+1 : i = k + 1
    OBVIOUS
  <2>2. Frees(h, trees, k, k + 1, f)
    BY <2>1 DEF Frees
  <2>3. k + 1 - 0 = k + 1
    OBVIOUS
  <2> QED
    BY <2>2, <2>3
<1>2. ASSUME NEW d \in Nat, d \in T
      PROVE  d + 1 \in T
  <2> SUFFICES ASSUME d + 1 <= k
               PROVE  \E f : Frees(h, trees, k, k + 1 - (d + 1), f)
    OBVIOUS
  <2> DEFINE n == k - d
  <2>1. PICK f : Frees(h, trees, k, k + 1 - d, f)
    BY <1>2
  <2>2. n \in Nat /\ k + 1 - d = n + 1 /\ k + 1 - (d + 1) = n /\ n >= 1 /\ n <= k
    OBVIOUS
  <2> HIDE DEF n
  <2> DEFINE g == [i \in n..k+1 |-> IF i = n THEN Grown(h, trees, f[n + 1], n) ELSE f[i]]
  <2>3. ASSUME NEW i \in n..k+1
        PROVE  g[i] = IF i > k THEN {} ELSE Grown(h, trees, g[i + 1], i)
    <3>1. CASE i = n
      <4>1. n \in n..k+1 /\ n + 1 \in n..k+1 /\ n + 1 # n /\ ~(i > k)
        BY <2>2, <3>1
      <4>2. g[n + 1] = f[n + 1] /\ g[n] = Grown(h, trees, f[n + 1], n)
        BY <4>1
      <4> QED
        BY <3>1, <4>1, <4>2
    <3>2. CASE i # n
      <4>1. i \in n+1..k+1 /\ g[i] = f[i]
        BY <2>2, <3>2
      <4>2. f[i] = IF i > k THEN {} ELSE Grown(h, trees, f[i + 1], i)
        BY <2>1, <2>2, <4>1 DEF Frees
      <4>3. i <= k => g[i + 1] = f[i + 1]
        BY <2>2, <4>1
      <4>4. i \in Int
        BY <2>2
      <4> QED
        BY <4>1, <4>2, <4>3, <4>4
    <3> QED
      BY <3>1, <3>2
  <2>4. Frees(h, trees, k, n, g)
    BY <2>3 DEF Frees
  <2> QED
    BY <2>2, <2>4
<1> HIDE DEF T
<1>3. k \in T
  BY <1>1, <1>2, NatSetInduction
<1>4. k + 1 - k = 1
  OBVIOUS
<1> QED
  BY <1>3, <1>4 DEF T

\* Its values are those of dead, the value at 1, from each node on.
Ends(h, trees, k, f, dead) ==
  /\ dead \subseteq 1..k
  /\ \A n \in 1..k : f[n + 1] = {m \in dead : m > n}
  /\ \A n \in 1..k : n \in dead <=> n \in Grown(h, trees, f[n + 1], n)

LEMMA FreesIs ==
  ASSUME NEW h, NEW trees, NEW k \in Nat, NEW f, Frees(h, trees, k, 1, f)
  PROVE  Ends(h, trees, k, f, f[1])
<1> DEFINE U == {d \in Nat : d <= k => f[k + 1 - d] \subseteq k+1-d..k}
           V == {d \in Nat : d <= k => f[d + 1] = {m \in f[1] : m > d}}
<1>1. \A n \in 1..k : f[n] = Grown(h, trees, f[n + 1], n)
  <2> SUFFICES ASSUME NEW n \in 1..k
               PROVE  f[n] = Grown(h, trees, f[n + 1], n)
    OBVIOUS
  <2>1. n \in 1..k+1 /\ ~(n > k)
    OBVIOUS
  <2> QED
    BY <2>1 DEF Frees
<1>2. f[k + 1] = {}
  <2>1. k + 1 \in 1..k+1 /\ k + 1 > k
    OBVIOUS
  <2> QED
    BY <2>1 DEF Frees
<1>3. \A n, S : Grown(h, trees, S, n) \subseteq S \cup {n} /\ S \subseteq Grown(h, trees, S, n)
  BY DEF Grown
<1>4. 0 \in U
  BY <1>2
<1>5. ASSUME NEW d \in Nat, d \in U
      PROVE  d + 1 \in U
  <2> SUFFICES ASSUME d + 1 <= k
               PROVE  f[k + 1 - (d + 1)] \subseteq k+1-(d+1)..k
    OBVIOUS
  <2>1. k - d \in 1..k /\ k + 1 - (d + 1) = k - d /\ (k - d) + 1 = k + 1 - d
    OBVIOUS
  <2>2. f[k + 1 - d] \subseteq k+1-d..k
    BY <1>5
  <2>3. f[k - d] \subseteq f[k + 1 - d] \cup {k - d}
    BY <1>1, <1>3, <2>1
  <2>4. (k+1-d..k) \cup {k - d} \subseteq k-d..k
    OBVIOUS
  <2> QED
    BY <2>1, <2>2, <2>3, <2>4
<1> HIDE DEF U
<1>6. Nat \subseteq U
  BY <1>4, <1>5, NatSetInduction
<1>7. ASSUME NEW n \in 1..k+1
      PROVE  f[n] \subseteq n..k
  <2>1. k + 1 - n \in Nat /\ k + 1 - n <= k /\ k + 1 - (k + 1 - n) = n
    OBVIOUS
  <2>2. k + 1 - n \in U
    BY <1>6, <2>1
  <2> QED
    BY <2>1, <2>2 DEF U
<1>8. f[1] \subseteq 1..k
  <2>1. 1 \in 1..k+1
    OBVIOUS
  <2> QED
    BY <1>7, <2>1
<1>9. 0 \in V
  <2>1. \A m \in 1..k : m > 0
    OBVIOUS
  <2> QED
    BY <1>8, <2>1
<1>10. ASSUME NEW d \in Nat, d \in V
       PROVE  d + 1 \in V
  <2> SUFFICES ASSUME d + 1 <= k
               PROVE  f[(d + 1) + 1] = {m \in f[1] : m > d + 1}
    OBVIOUS
  <2>1. d + 1 \in 1..k /\ (d + 1) + 1 \in 1..k+1
    OBVIOUS
  <2>2. f[d + 1] = {m \in f[1] : m > d}
    BY <1>10
  <2>3. f[d + 1] \subseteq f[(d + 1) + 1] \cup {d + 1} /\ f[(d + 1) + 1] \subseteq f[d + 1]
    BY <1>1, <1>3, <2>1
  <2>4. f[(d + 1) + 1] \subseteq (d+1)+1..k
    BY <1>7, <2>1
  <2>5. \A m \in f[1] : m \in Int
    BY <1>8
  <2>6. ASSUME NEW m \in f[(d + 1) + 1]
        PROVE  m \in f[1] /\ m > d + 1
    BY <2>2, <2>3, <2>4
  <2>7. ASSUME NEW m \in f[1], m > d + 1
        PROVE  m \in f[(d + 1) + 1]
    <3>1. m \in Int
      BY <2>5
    <3>2. m > d /\ m # d + 1
      BY <2>7, <3>1
    <3> QED
      BY <2>2, <2>3, <3>2
  <2> QED
    BY <2>6, <2>7
<1> HIDE DEF V
<1>11. Nat \subseteq V
  BY <1>9, <1>10, NatSetInduction
<1>12. ASSUME NEW n \in 1..k
       PROVE  /\ f[n + 1] = {m \in f[1] : m > n}
              /\ n \in f[1] <=> n \in Grown(h, trees, f[n + 1], n)
  <2>1. n \in Nat /\ n - 1 \in Nat /\ n <= k /\ n - 1 <= k /\ (n - 1) + 1 = n /\ n > n - 1
    OBVIOUS
  <2>2. n \in V /\ n - 1 \in V
    BY <1>11, <2>1
  <2>3. f[n] = {m \in f[1] : m > n - 1}
    BY <2>1, <2>2 DEF V
  <2>4. n \in f[1] <=> n \in f[n]
    BY <2>1, <2>3
  <2> QED
    BY <1>1, <2>1, <2>2, <2>4 DEF V
<1> QED
  BY <1>8, <1>12 DEF Ends

\* The nodes freed are those in use whose counts the losses bring to zero,
\* their own children's among the losses.
LEMMA FreedIs ==
  ASSUME NEW k \in Nat, NEW h, Sound(h, k), NEW trees
  PROVE  /\ Freed(h, trees) \subseteq (1..k) \ h.freed
         /\ \A n \in (1..k) \ h.freed :
              n \in Freed(h, trees) <=> h.refc[n] \in 1..Lost(h, trees, Freed(h, trees), n)
<1> DEFINE body(g) == [n \in 1..k+1 |-> IF n > k THEN {} ELSE Grown(h, trees, g[n + 1], n)]
           f == CHOOSE g : g = body(g)
<1>1. Len(h.nodes) = k /\ DOMAIN h.nodes = 1..k
  BY DEF Sound, HeapOK
<1>2. Freed(h, trees) = DOMAIN h.nodes \cap f[1]
  BY <1>1 DEF Freed, Grown
<1>3. \E g : g = body(g)
  <2>1. PICK g : Frees(h, trees, k, 1, g)
    BY FreesExists
  <2> DEFINE e == [n \in 1..k+1 |-> g[n]]
  <2>2. ASSUME NEW n \in 1..k+1
        PROVE  e[n] = IF n > k THEN {} ELSE Grown(h, trees, e[n + 1], n)
    <3>1. n <= k => n + 1 \in 1..k+1
      OBVIOUS
    <3>2. n \in Int /\ k \in Int
      OBVIOUS
    <3>3. g[n] = IF n > k THEN {} ELSE Grown(h, trees, g[n + 1], n)
      BY <2>1 DEF Frees
    <3>4. e[n] = g[n] /\ (n <= k => e[n + 1] = g[n + 1])
      BY <3>1
    <3> QED
      BY <3>2, <3>3, <3>4
  <2>3. e = body(e)
    <3>1. e = [n \in 1..k+1 |-> e[n]]
      OBVIOUS
    <3> HIDE DEF e
    <3> QED
      BY <2>2, <3>1
  <2> QED
    BY <2>3
<1>4. f = body(f)
  <2> HIDE DEF body
  <2> QED
    BY <1>3
<1> HIDE DEF f
<1>5. Frees(h, trees, k, 1, f)
  BY <1>4 DEF Frees
<1> HIDE DEF body
<1> DEFINE dead == f[1]
<1>6. Ends(h, trees, k, f, dead)
  BY <1>5, FreesIs
<1>9. Freed(h, trees) = DOMAIN h.nodes \cap dead
  BY <1>2
<1> HIDE DEF dead
<1>10. dead \subseteq 1..k
  BY <1>6 DEF Ends
<1>7. Freed(h, trees) = dead
  BY <1>1, <1>9, <1>10
<1>8. ASSUME NEW n \in 1..k
      PROVE  n \in dead <=> n \notin h.freed /\ h.refc[n] \in 1..Lost(h, trees, dead, n)
  <2> DEFINE S == f[n + 1]
  <2>1. S = {m \in dead : m > n}
    BY <1>6 DEF Ends
  <2>2. n \notin S
    BY <2>1
  <2>3. n \in dead <=> n \notin h.freed /\ h.refc[n] \in 1..Lost(h, trees, S, n)
    <3>1. n \in dead <=> n \in Grown(h, trees, S, n)
      BY <1>6 DEF Ends
    <3> HIDE DEF S
    <3> QED
      BY <2>2, <3>1 DEF Grown
  <2>4. ASSUME NEW m \in dead, m \notin S
        PROVE  ChildAt(h, m, n) = {}
    <3>1. m \in 1..k /\ ~(m > n)
      BY <1>10, <2>1, <2>4
    <3>2. Range(h.nodes[m].childs) \subseteq 0..m-1
      BY <3>1 DEF Sound, HeapOK
    <3>3. n \notin 0..m-1
      BY <3>1
    <3> QED
      BY <3>2, <3>3 DEF ChildAt, Range
  <2>5. Places(h, dead, n) = Places(h, S, n)
    <3>1. S \subseteq dead
      BY <2>1
    <3> HIDE DEF S
    <3> QED
      BY <2>4, <3>1 DEF Places
  <2>6. Lost(h, trees, dead, n) = Lost(h, trees, S, n)
    BY <2>5 DEF Lost, HeldBy
  <2> QED
    BY <2>3, <2>6
<1> QED
  BY <1>7, <1>8, <1>10
-----------------------------------------------------------------------------
(* The counts.                                                             *)

\* The nodes in use.
Alive(h, k) == (1..k) \ h.freed

\* The count of node n is the number of references to it: R[n] that a caller
\* holds and those of the children of nodes in use.  A freed node has none.
Counted(h, k, R) ==
  /\ Sound(h, k)
  /\ ~h.uaf
  /\ R \in [1..k -> Nat]
  /\ \A n \in 1..k : h.refc[n] = R[n] + HeldBy(h, Alive(h, k), n)
  /\ \A n \in h.freed : h.refc[n] = 0

\* The nodes of S in use are referred to.
Referred(h, S) == \A n \in S : n \notin h.freed => h.refc[n] > 0

\* Sets of nodes are finite, and so are their children.
LEMMA NodesFinite ==
  ASSUME NEW k \in Nat, NEW h, Sound(h, k), NEW S, S \subseteq 1..k
  PROVE  IsFiniteSet(S) /\ Bounded(h, S)
<1>1. IsFiniteSet(1..k)
  BY FS_Interval
<1> QED
  BY <1>1, FS_Subset DEF Sound, Bounded

\* What a caller or a node in use holds is in use.
LEMMA HeldInUse ==
  ASSUME NEW k \in Nat, NEW h, NEW R, Counted(h, k, R), NEW n \in 1..k
  PROVE  /\ R[n] > 0 => n \notin h.freed
         /\ \A m \in Alive(h, k) : n \in Range(h.nodes[m].childs) => n \notin h.freed
<1>1. IsFiniteSet(Alive(h, k)) /\ Bounded(h, Alive(h, k))
  BY NodesFinite DEF Counted, Alive
<1>2. HeldBy(h, Alive(h, k), n) \in Nat
  BY <1>1, HeldByIs
<1>3. R[n] \in Nat
  BY DEF Counted
<1>4. ASSUME n \in h.freed
      PROVE  R[n] = 0 /\ HeldBy(h, Alive(h, k), n) = 0
  <2>1. R[n] + HeldBy(h, Alive(h, k), n) = 0
    BY <1>4 DEF Counted
  <2> QED
    BY <1>2, <1>3, <2>1
<1>5. ASSUME n \in h.freed, NEW m \in Alive(h, k)
      PROVE  n \notin Range(h.nodes[m].childs)
  <2>1. ChildAt(h, m, n) = {}
    BY <1>1, <1>4, <1>5, HeldByIs
  <2> QED
    BY <2>1 DEF ChildAt, Range
<1> QED
  BY <1>3, <1>4, <1>5

\* GcIncAll: the caller holds the trees once more.
LEMMA IncCounted ==
  ASSUME NEW k \in Nat, NEW h, NEW R, Counted(h, k, R),
         NEW trees, IsFiniteSet(DOMAIN trees),
         \A n \in h.freed : Times(trees, n) = 0,
         NEW Q, Q \in [1..k -> Nat], \A n \in 1..k : Q[n] = R[n] + Times(trees, n)
  PROVE  /\ Counted(GcIncAll(h, trees), k, Q)
         /\ Referred(h, 1..k) => Referred(GcIncAll(h, trees), 1..k)
<1> DEFINE g == GcIncAll(h, trees)
           A == Alive(h, k)
<1>1. HeapOK(h, k) /\ h.refc \in [1..k -> Nat] /\ h.freed \subseteq 1..k
  BY DEF Counted, Sound, HeapOK
<1>2. /\ g.nodes = h.nodes /\ g.freed = h.freed
      /\ g.refc = [n \in 1..k |-> h.refc[n] + Times(trees, n)]
      /\ g.uaf <=> h.uaf \/ \E n \in h.freed : Times(trees, n) > 0
  BY <1>1 DEF GcIncAll
<1>3. \A n : Times(trees, n) \in Nat
  BY TimesIs
<1>4. ~g.uaf
  BY <1>2 DEF Counted
<1>5. g.refc \in [1..k -> Nat]
  BY <1>1, <1>2, <1>3
<1>6. Sound(g, k)
  <2>1. HeapOK(g, k)
    BY <1>1, IncOK
  <2>2. Bounded(g, 1..k)
    BY <1>2 DEF Counted, Sound, Bounded
  <2> QED
    BY <1>5, <2>1, <2>2 DEF Sound
<1>7. Alive(g, k) = A /\ \A n : HeldBy(g, A, n) = HeldBy(h, A, n)
  BY <1>2, HeldBySame DEF Alive
<1>8. IsFiniteSet(A) /\ Bounded(h, A)
  BY NodesFinite DEF Counted, Alive
<1> HIDE DEF g, A
<1>9. ASSUME NEW n \in 1..k
      PROVE  g.refc[n] = Q[n] + HeldBy(g, Alive(g, k), n)
  <2>1. h.refc[n] = R[n] + HeldBy(h, A, n) /\ R[n] \in Nat
    BY DEF Counted, A
  <2>2. HeldBy(h, A, n) \in Nat
    BY <1>8, HeldByIs
  <2> QED
    BY <1>2, <1>3, <1>7, <2>1, <2>2
<1>10. ASSUME NEW n \in g.freed
       PROVE  g.refc[n] = 0
  <2>1. n \in 1..k /\ h.refc[n] = 0 /\ Times(trees, n) = 0
    BY <1>1, <1>2 DEF Counted
  <2> QED
    BY <1>2, <2>1
<1>11. Counted(g, k, Q)
  BY <1>4, <1>6, <1>9, <1>10 DEF Counted
<1>12. ASSUME Referred(h, 1..k), NEW n \in 1..k, n \notin g.freed
       PROVE  g.refc[n] > 0
  <2>1. h.refc[n] > 0 /\ h.refc[n] \in Nat
    BY <1>1, <1>2, <1>12 DEF Referred
  <2> QED
    BY <1>2, <1>3, <2>1
<1> QED
  BY <1>11, <1>12 DEF g, Referred

\* GcDecAll: what the caller held of the trees it holds no more.  No node is
\* counted below zero, and the children of a freed node lose just what it held.
LEMMA DecCounted ==
  ASSUME NEW k \in Nat, NEW h, NEW R, Counted(h, k, R),
         NEW trees, IsFiniteSet(DOMAIN trees),
         NEW Q, Q \in [1..k -> Nat], \A n \in 1..k : R[n] = Q[n] + Times(trees, n)
  PROVE  /\ Counted(GcDecAll(h, trees), k, Q)
         /\ Referred(h, 1..k) => Referred(GcDecAll(h, trees), 1..k)
<1> DEFINE g == GcDecAll(h, trees)
           dead == Freed(h, trees)
           lost(n) == Lost(h, trees, dead, n)
           A == Alive(h, k)
           B == A \ dead
<1>1. /\ Sound(h, k) /\ HeapOK(h, k) /\ h.refc \in [1..k -> Nat] /\ h.freed \subseteq 1..k
      /\ ~h.uaf
  BY DEF Counted, Sound, HeapOK
<1>2. \A n : Times(trees, n) \in Nat
  BY TimesIs
<1>3. dead \subseteq A
  BY <1>1, FreedIs DEF Alive
<1>4. \A n \in A : n \in dead <=> h.refc[n] \in 1..lost(n)
  BY <1>1, FreedIs DEF Alive
<1>5. IsFiniteSet(dead) /\ Bounded(h, dead) /\ IsFiniteSet(B) /\ Bounded(h, B)
  <2>1. dead \subseteq 1..k /\ B \subseteq 1..k
    BY <1>3 DEF Alive
  <2> HIDE DEF dead, B
  <2> QED
    BY <1>1, <2>1, NodesFinite
<1>6. A = B \cup dead /\ B \cap dead = {}
  BY <1>3
<1> HIDE DEF B
<1>7. ASSUME NEW n
      PROVE  /\ HeldBy(h, A, n) = HeldBy(h, B, n) + HeldBy(h, dead, n)
             /\ HeldBy(h, B, n) \in Nat /\ HeldBy(h, dead, n) \in Nat
             /\ lost(n) = Times(trees, n) + HeldBy(h, dead, n)
  BY <1>5, <1>6, HeldByIs, HeldByUnion DEF Lost
<1> HIDE DEF dead, lost, A
<1>8. ASSUME NEW n \in 1..k
      PROVE  /\ h.refc[n] - lost(n) = Q[n] + HeldBy(h, B, n)
             /\ lost(n) <= h.refc[n] /\ lost(n) \in Nat
  <2>1. h.refc[n] = R[n] + HeldBy(h, A, n) /\ R[n] = Q[n] + Times(trees, n) /\ Q[n] \in Nat
    BY DEF Counted, A
  <2>2. Times(trees, n) \in Nat
    BY <1>2
  <2>3. /\ HeldBy(h, A, n) = HeldBy(h, B, n) + HeldBy(h, dead, n)
        /\ HeldBy(h, B, n) \in Nat /\ HeldBy(h, dead, n) \in Nat
        /\ lost(n) = Times(trees, n) + HeldBy(h, dead, n)
    BY <1>7
  <2> QED
    BY <2>1, <2>2, <2>3
<1>9. CASE \A i \in DOMAIN trees : trees[i] = NULL
  <2>1. g = h
    BY <1>9 DEF GcDecAll
  <2>2. \A n \in 1..k : Times(trees, n) = 0
    BY <1>9, TimesIs DEF NULL
  <2>3. R = Q
    <3>1. ASSUME NEW n \in 1..k
          PROVE  R[n] = Q[n]
      <4>1. R[n] = Q[n] + Times(trees, n) /\ Q[n] \in Nat
        OBVIOUS
      <4> QED
        BY <2>2, <4>1
    <3>2. R \in [1..k -> Nat]
      BY DEF Counted
    <3> QED
      BY <3>1, <3>2
  <2> QED
    BY <2>1, <2>3
<1>10. CASE ~ \A i \in DOMAIN trees : trees[i] = NULL
  <2>1. /\ g.nodes = h.nodes /\ g.freed = h.freed \cup dead
        /\ g.refc = [n \in 1..k |-> h.refc[n] - lost(n)]
        /\ g.uaf <=> \/ h.uaf
                     \/ \E n \in h.freed : lost(n) > 0
                     \/ \E n \in dead : lost(n) > h.refc[n]
    BY <1>1, <1>10 DEF GcDecAll, dead, lost
  <2>2. ~g.uaf
    <3>1. ASSUME NEW n \in h.freed
          PROVE  ~(lost(n) > 0)
      <4>1. n \in 1..k /\ h.refc[n] = 0
        BY <1>1 DEF Counted
      <4> QED
        BY <1>8, <4>1
    <3>2. ASSUME NEW n \in dead
          PROVE  ~(lost(n) > h.refc[n])
      <4>1. n \in 1..k
        BY <1>3 DEF A, Alive
      <4>2. h.refc[n] \in Nat
        BY <1>1, <4>1
      <4> QED
        BY <1>8, <4>1, <4>2
    <3> QED
      BY <1>1, <2>1, <3>1, <3>2
  <2>3. g.refc \in [1..k -> Nat]
    <3>1. \A n \in 1..k : h.refc[n] - lost(n) \in Nat
      BY <1>1, <1>8
    <3> QED
      BY <2>1, <3>1
  <2>4. Sound(g, k)
    <3>1. HeapOK(g, k)
      BY <1>1, DecOK
    <3>2. Bounded(g, 1..k)
      BY <1>1, <2>1 DEF Sound, Bounded
    <3> QED
      BY <2>3, <3>1, <3>2 DEF Sound
  <2>5. Alive(g, k) = B
    BY <2>1 DEF Alive, A, B
  <2>6. \A n : HeldBy(g, B, n) = HeldBy(h, B, n)
    BY <2>1, HeldBySame
  <2>7. \A n \in 1..k : g.refc[n] = Q[n] + HeldBy(g, Alive(g, k), n)
    BY <1>8, <2>1, <2>5, <2>6
  <2>8. ASSUME NEW n \in g.freed
        PROVE  g.refc[n] = 0
    <3>1. CASE n \in h.freed
      <4>1. n \in 1..k /\ h.refc[n] = 0
        BY <1>1, <3>1 DEF Counted
      <4> QED
        BY <1>8, <2>1, <4>1
    <3>2. CASE n \in dead
      <4>1. n \in 1..k /\ n \in A
        BY <1>3, <3>2 DEF A, Alive
      <4>2. h.refc[n] \in 1..lost(n) /\ lost(n) <= h.refc[n] /\ lost(n) \in Nat
        BY <1>4, <1>8, <3>2, <4>1
      <4> QED
        BY <2>1, <4>1, <4>2
    <3> QED
      BY <2>1, <3>1, <3>2
  <2>9. Counted(g, k, Q)
    BY <2>2, <2>4, <2>7, <2>8 DEF Counted
  <2>10. ASSUME Referred(h, 1..k), NEW n \in 1..k, n \notin g.freed
         PROVE  g.refc[n] > 0
    <3>1. n \in A /\ n \notin dead /\ n \notin h.freed
      BY <2>1, <2>10 DEF A, Alive
    <3>2. h.refc[n] > 0 /\ h.refc[n] \in Nat
      BY <1>1, <2>10, <3>1 DEF Referred
    <3>3. ~(h.refc[n] \in 1..lost(n)) /\ lost(n) \in Nat
      BY <1>4, <1>8, <3>1
    <3> QED
      BY <2>1, <3>2, <3>3
  <2> QED
    BY <2>9, <2>10 DEF Referred
<1> QED
  BY <1>9, <1>10

\* NEW: the node holds what the caller held of its children; nothing holds it.
LEMMA NewCounted ==
  ASSUME NEW k \in Nat, NEW h, NEW R, Counted(h, k, R),
         NEW tag, NEW text, NEW labels,
         NEW childs, IsFiniteSet(DOMAIN childs), Range(childs) \subseteq 0..k,
         NEW t, t = k + 1, NEW Q, Q \in [1..t -> Nat], Q[t] = 0,
         \A n \in 1..k : R[n] = Q[n] + Times(childs, n)
  PROVE  /\ Counted(New(h, tag, text, labels, childs), t, Q)
         /\ Referred(h, 1..k) => Referred(New(h, tag, text, labels, childs), 1..k)
         /\ t \in Alive(New(h, tag, text, labels, childs), t)
         /\ New(h, tag, text, labels, childs).nodes[t].childs = childs
<1> DEFINE g == New(h, tag, text, labels, childs)
           node == [tag |-> tag, text |-> text, labels |-> labels, childs |-> childs]
           A == Alive(h, k)
<1>1. /\ Sound(h, k) /\ HeapOK(h, k) /\ h.refc \in [1..k -> Nat]
      /\ h.freed \subseteq 1..k /\ Len(h.nodes) = k /\ Len(h.refc) = k /\ ~h.uaf
      /\ h.nodes \in Seq(Range(h.nodes)) /\ h.refc \in Seq(Range(h.refc))
  BY DEF Counted, Sound, HeapOK
<1>2. /\ g.nodes = Append(h.nodes, node) /\ g.refc = Append(h.refc, 0)
      /\ g.freed = h.freed /\ g.uaf = h.uaf
  BY DEF New
<1>3. node.childs = childs
  OBVIOUS
<1> HIDE DEF node
<1>4. /\ g.nodes[k + 1] = node /\ \A n \in 1..k : g.nodes[n] = h.nodes[n]
      /\ g.refc[k + 1] = 0 /\ \A n \in 1..k : g.refc[n] = h.refc[n]
      /\ DOMAIN g.refc = 1..k+1
  BY <1>1, <1>2
<1>5. HeapOK(g, k + 1)
  BY <1>1, NewOK
<1> HIDE DEF g
<1>6. g.refc \in [1..k+1 -> Nat]
  <2>1. \A n \in 1..k+1 : g.refc[n] \in Nat
    BY <1>1, <1>4
  <2>2. h.refc \in Seq(Nat)
    BY <1>1, SeqDef
  <2>3. g.refc \in Seq(Nat)
    BY <1>2, <2>2, AppendProperties
  <2>4. DOMAIN g.refc = 1..k+1
    BY <1>4
  <2> QED
    BY <2>1, <2>3, <2>4
<1>7. Bounded(g, 1..k+1)
  <2>1. Bounded(h, 1..k)
    BY <1>1 DEF Sound
  <2> QED
    BY <1>3, <1>4, <2>1 DEF Bounded
<1>8. Sound(g, k + 1)
  BY <1>5, <1>6, <1>7 DEF Sound
<1>9. Alive(g, k + 1) = A \cup {k + 1} /\ A \cap {k + 1} = {} /\ A \subseteq 1..k
  <2>1. 1..k+1 = (1..k) \cup {k + 1} /\ k + 1 \notin 1..k
    OBVIOUS
  <2> QED
    BY <1>1, <1>2, <2>1 DEF Alive
<1> HIDE DEF A
<1>10. IsFiniteSet(A) /\ Bounded(g, A) /\ Bounded(g, {k + 1}) /\ IsFiniteSet({k + 1})
  <2>1. A \subseteq 1..k /\ IsFiniteSet({k + 1}) /\ k + 1 \in 1..k+1
    <3>1. \A x : IsFiniteSet({x})
      BY FS_Singleton
    <3>2. IsFiniteSet({k + 1})
      BY <3>1
    <3> QED
      BY <1>9, <3>2
  <2>2. IsFiniteSet(A)
    BY <1>1, <2>1, NodesFinite
  <2>3. Bounded(g, A) /\ Bounded(g, {k + 1})
    BY <1>7, <2>1 DEF Bounded
  <2> QED
    BY <2>1, <2>2, <2>3
<1>11. ASSUME NEW n
       PROVE  /\ HeldBy(g, Alive(g, k + 1), n) = HeldBy(h, A, n) + Times(childs, n)
              /\ HeldBy(h, A, n) \in Nat
  <2>1. HeldBy(g, Alive(g, k + 1), n) = HeldBy(g, A, n) + HeldBy(g, {k + 1}, n)
    BY <1>9, <1>10, HeldByUnion
  <2>2. HeldBy(g, {k + 1}, n) = Times(childs, n)
    <3> DEFINE m == k + 1
    <3>1. Bounded(g, {m}) /\ g.nodes[m].childs = childs
      BY <1>3, <1>4, <1>10
    <3> HIDE DEF m
    <3>2. HeldBy(g, {m}, n) = Times(g.nodes[m].childs, n)
      BY <3>1, HeldByOne
    <3> QED
      BY <3>1, <3>2 DEF m
  <2>3. HeldBy(g, A, n) = HeldBy(h, A, n) /\ HeldBy(g, A, n) \in Nat
    <3>1. \A m \in A : g.nodes[m] = h.nodes[m]
      BY <1>4, <1>9
    <3> QED
      BY <3>1, <1>10, HeldBySame, HeldByIs
  <2> QED
    BY <2>1, <2>2, <2>3
<1>12. ASSUME NEW n \in 1..k+1
       PROVE  g.refc[n] = Q[n] + HeldBy(g, Alive(g, k + 1), n)
  <2>1. CASE n \in 1..k
    <3>1. h.refc[n] = R[n] + HeldBy(h, A, n) /\ R[n] = Q[n] + Times(childs, n) /\ Q[n] \in Nat
      BY <2>1 DEF Counted, A
    <3>2. Times(childs, n) \in Nat
      BY TimesIs
    <3> QED
      BY <1>4, <1>11, <2>1, <3>1, <3>2
  <2>2. CASE n = k + 1
    <3>1. Times(childs, k + 1) = 0
      <4>1. k + 1 \notin Range(childs)
        OBVIOUS
      <4> QED
        BY <4>1, TimesIs DEF Range
    <3>2. HeldBy(h, A, k + 1) = 0
      <4>1. ASSUME NEW m \in A
            PROVE  ChildAt(h, m, k + 1) = {}
        <5>1. m \in 1..k
          BY <1>9
        <5>2. Range(h.nodes[m].childs) \subseteq 0..m-1 /\ k + 1 \notin 0..m-1
          BY <1>1, <5>1 DEF HeapOK
        <5> QED
          BY <5>2 DEF ChildAt, Range
      <4>2. Bounded(h, A)
        BY <1>1, <1>9, NodesFinite
      <4> QED
        BY <1>10, <4>1, <4>2, HeldByIs
    <3>3. HeldBy(g, Alive(g, k + 1), n) = 0
      <4>1. HeldBy(g, Alive(g, k + 1), n) = HeldBy(h, A, n) + Times(childs, n)
        BY <1>11
      <4> QED
        BY <2>2, <3>1, <3>2, <4>1
    <3>4. g.refc[n] = 0 /\ Q[n] = 0
      BY <1>4, <2>2
    <3> QED
      BY <3>3, <3>4
  <2> QED
    BY <2>1, <2>2
<1>13. ASSUME NEW n \in g.freed
       PROVE  g.refc[n] = 0
  <2>1. n \in 1..k /\ h.refc[n] = 0
    BY <1>1, <1>2 DEF Counted
  <2> QED
    BY <1>4, <2>1
<1>14. Counted(g, k + 1, Q)
  BY <1>1, <1>2, <1>8, <1>12, <1>13 DEF Counted
<1>15. Referred(h, 1..k) => Referred(g, 1..k)
  BY <1>2, <1>4 DEF Referred
<1> QED
  BY <1>3, <1>4, <1>9, <1>14, <1>15 DEF g

\* One reference to t.
One(t, n) == IF t = n THEN 1 ELSE 0

\* GcSet: the caller holds new in the place of old.
LEMMA SetCounted ==
  ASSUME NEW k \in Nat, NEW h, NEW R, Counted(h, k, R),
         NEW old, NEW new, new \notin h.freed,
         NEW Q, Q \in [1..k -> Nat],
         \A n \in 1..k : R[n] + One(new, n) = Q[n] + One(old, n)
  PROVE  /\ Counted(GcSet(h, old, new), k, Q)
         /\ Referred(h, 1..k) => Referred(GcSet(h, old, new), 1..k)
         /\ (\A n \in 1..k : n # new /\ n \notin h.freed => h.refc[n] > 0)
               => Referred(GcSet(h, old, new), 1..k)
<1> DEFINE g == GcIncAll(h, <<new>>)
           P == [n \in 1..k |-> R[n] + One(new, n)]
<1>1. P \in [1..k -> Nat]
  <2>1. \A n \in 1..k : R[n] \in Nat
    BY DEF Counted
  <2> QED
    BY <2>1 DEF One
<1>2. IsFiniteSet(DOMAIN <<new>>) /\ IsFiniteSet(DOMAIN <<old>>)
  <2>1. DOMAIN <<new>> = {1} /\ DOMAIN <<old>> = {1}
    OBVIOUS
  <2> QED
    BY <2>1, FS_Singleton
<1>3. \A n : Times(<<new>>, n) = One(new, n) /\ Times(<<old>>, n) = One(old, n)
  BY TimesOne DEF One
<1>4. \A n \in h.freed : Times(<<new>>, n) = 0
  BY <1>3 DEF One
<1>5. \A n \in 1..k : P[n] = R[n] + Times(<<new>>, n)
  BY <1>3
<1>6. \A n \in 1..k : P[n] = Q[n] + Times(<<old>>, n)
  BY <1>3
<1> HIDE DEF P
<1>7. Counted(g, k, P) /\ (Referred(h, 1..k) => Referred(g, 1..k))
  BY <1>1, <1>2, <1>4, <1>5, IncCounted
<1>8. ASSUME \A n \in 1..k : n # new /\ n \notin h.freed => h.refc[n] > 0
      PROVE  Referred(g, 1..k)
  <2> SUFFICES ASSUME NEW n \in 1..k, n \notin g.freed
               PROVE  g.refc[n] > 0
    BY DEF Referred
  <2>1. DOMAIN h.refc = 1..k /\ h.refc[n] \in Nat
    BY DEF Counted, Sound
  <2>2. g.refc[n] = h.refc[n] + One(new, n) /\ g.freed = h.freed
    BY <1>3, <2>1 DEF GcIncAll
  <2> QED
    BY <1>8, <2>1, <2>2 DEF One
<1> HIDE DEF g
<1>9. /\ Counted(GcDecAll(g, <<old>>), k, Q)
      /\ Referred(g, 1..k) => Referred(GcDecAll(g, <<old>>), 1..k)
  BY <1>2, <1>6, <1>7, DecCounted
<1> QED
  BY <1>7, <1>8, <1>9 DEF GcSet, g
-----------------------------------------------------------------------------
(* References that are counted, with others that may be.                   *)

\* A caller holds P[n] references to node n, and every one is counted.  The
\* count may be higher, as a reference overwritten without GC(t, -1) leaves it.
Covered(h, k, P) ==
  /\ P \in [1..k -> Nat]
  /\ \E R : Counted(h, k, R) /\ \A n \in 1..k : P[n] <= R[n]

\* No node held is freed, and none is counted after it was.
LEMMA CoveredIs ==
  ASSUME NEW k \in Nat, NEW h, NEW P, Covered(h, k, P)
  PROVE  /\ ~h.uaf /\ Sound(h, k)
         /\ \A n \in 1..k : P[n] > 0 => n \notin h.freed
         /\ \A n \in Alive(h, k) : P[n] + HeldBy(h, Alive(h, k), n) <= h.refc[n]
         /\ \A m \in Alive(h, k) : \A n \in 1..k :
              n \in Range(h.nodes[m].childs) => n \notin h.freed
<1>1. PICK R : Counted(h, k, R) /\ \A n \in 1..k : P[n] <= R[n]
  BY DEF Covered
<1>2. P \in [1..k -> Nat] /\ R \in [1..k -> Nat] /\ ~h.uaf /\ Sound(h, k)
  BY <1>1 DEF Covered, Counted
<1>3. ASSUME NEW n \in 1..k, P[n] > 0
      PROVE  n \notin h.freed
  <2>1. R[n] > 0
    BY <1>1, <1>2, <1>3
  <2> QED
    BY <1>1, <2>1, HeldInUse
<1>4. ASSUME NEW n \in Alive(h, k)
      PROVE  P[n] + HeldBy(h, Alive(h, k), n) <= h.refc[n]
  <2>1. n \in 1..k /\ Alive(h, k) \subseteq 1..k
    BY DEF Alive
  <2>2. IsFiniteSet(Alive(h, k)) /\ Bounded(h, Alive(h, k))
    BY <1>2, <2>1, NodesFinite
  <2>3. HeldBy(h, Alive(h, k), n) \in Nat
    BY <2>2, HeldByIs
  <2>4. h.refc[n] = R[n] + HeldBy(h, Alive(h, k), n) /\ P[n] <= R[n]
    BY <1>1, <2>1 DEF Counted
  <2>5. P[n] \in Nat /\ R[n] \in Nat
    BY <1>2, <2>1
  <2> QED
    BY <2>3, <2>4, <2>5
<1> QED
  BY <1>1, <1>2, <1>3, <1>4, HeldInUse

\* The caller may forget some.
LEMMA CoveredLess ==
  ASSUME NEW k \in Nat, NEW h, NEW P, Covered(h, k, P),
         NEW Q \in [1..k -> Nat], \A n \in 1..k : Q[n] <= P[n]
  PROVE  Covered(h, k, Q)
<1>1. PICK R : Counted(h, k, R) /\ \A n \in 1..k : P[n] <= R[n]
  BY DEF Covered
<1>2. \A n \in 1..k : Q[n] <= R[n]
  <2>1. \A n \in 1..k : P[n] \in Nat /\ R[n] \in Nat /\ Q[n] \in Nat
    BY <1>1 DEF Covered, Counted
  <2> QED
    BY <1>1, <2>1
<1> QED
  BY <1>1, <1>2 DEF Covered

\* References to nodes that it holds already.
LEMMA IncCovered ==
  ASSUME NEW k \in Nat, NEW h, NEW P, Covered(h, k, P),
         NEW trees, IsFiniteSet(DOMAIN trees),
         \A n \in 1..k : Times(trees, n) > 0 => n \notin h.freed,
         NEW Q \in [1..k -> Nat], \A n \in 1..k : Q[n] <= P[n] + Times(trees, n)
  PROVE  Covered(GcIncAll(h, trees), k, Q)
<1> DEFINE g == GcIncAll(h, trees)
<1>1. PICK R : Counted(h, k, R) /\ \A n \in 1..k : P[n] <= R[n]
  BY DEF Covered
<1>2. /\ \A n \in 1..k : P[n] \in Nat /\ R[n] \in Nat /\ Times(trees, n) \in Nat
      /\ h.freed \subseteq 1..k
  BY <1>1, TimesIs DEF Covered, Counted, Sound, HeapOK
<1> DEFINE T == [n \in 1..k |-> R[n] + Times(trees, n)]
<1>3. T \in [1..k -> Nat] /\ \A n \in 1..k : T[n] = R[n] + Times(trees, n)
  BY <1>2
<1> HIDE DEF T
<1>4. \A n \in h.freed : Times(trees, n) = 0
  <2> SUFFICES ASSUME NEW n \in h.freed PROVE ~(Times(trees, n) > 0) /\ Times(trees, n) \in Nat
    OBVIOUS
  <2> QED
    BY <1>2
<1>5. Counted(g, k, T)
  BY <1>1, <1>3, <1>4, IncCounted
<1>6. \A n \in 1..k : Q[n] <= T[n]
  <2>1. \A n \in 1..k : Q[n] \in Nat
    OBVIOUS
  <2> QED
    BY <1>1, <1>2, <1>3, <2>1
<1> HIDE DEF g
<1>7. Covered(g, k, Q)
  BY <1>5, <1>6 DEF Covered
<1> QED
  BY <1>7 DEF g

\* References given up.
LEMMA DecCovered ==
  ASSUME NEW k \in Nat, NEW h, NEW P, Covered(h, k, P),
         NEW trees, IsFiniteSet(DOMAIN trees),
         NEW Q \in [1..k -> Nat], \A n \in 1..k : Q[n] + Times(trees, n) <= P[n]
  PROVE  Covered(GcDecAll(h, trees), k, Q)
<1> DEFINE g == GcDecAll(h, trees)
<1>1. PICK R : Counted(h, k, R) /\ \A n \in 1..k : P[n] <= R[n]
  BY DEF Covered
<1>2. \A n \in 1..k : P[n] \in Nat /\ R[n] \in Nat /\ Times(trees, n) \in Nat /\ Q[n] \in Nat
  BY <1>1, TimesIs DEF Covered, Counted
<1> DEFINE T == [n \in 1..k |-> R[n] - Times(trees, n)]
<1>3. ASSUME NEW n \in 1..k
      PROVE  /\ R[n] - Times(trees, n) \in Nat
             /\ Q[n] <= R[n] - Times(trees, n)
             /\ R[n] = (R[n] - Times(trees, n)) + Times(trees, n)
  <2>1. /\ P[n] \in Nat /\ R[n] \in Nat /\ Times(trees, n) \in Nat /\ Q[n] \in Nat
        /\ P[n] <= R[n] /\ Q[n] + Times(trees, n) <= P[n]
    BY <1>1, <1>2
  <2> QED
    BY <2>1
<1>4. T \in [1..k -> Nat] /\ \A n \in 1..k : Q[n] <= T[n] /\ R[n] = T[n] + Times(trees, n)
  BY <1>3
<1> HIDE DEF T
<1>5. Counted(g, k, T)
  BY <1>1, <1>4, DecCounted
<1> HIDE DEF g
<1>6. Covered(g, k, Q)
  BY <1>4, <1>5 DEF Covered
<1> QED
  BY <1>6 DEF g

\* One in the place of another.
LEMMA SetCovered ==
  ASSUME NEW k \in Nat, NEW h, NEW P, Covered(h, k, P),
         NEW old, NEW new, new \notin h.freed,
         NEW Q \in [1..k -> Nat], \A n \in 1..k : Q[n] + One(old, n) <= P[n] + One(new, n)
  PROVE  Covered(GcSet(h, old, new), k, Q)
<1> DEFINE g == GcSet(h, old, new)
<1>1. PICK R : Counted(h, k, R) /\ \A n \in 1..k : P[n] <= R[n]
  BY DEF Covered
<1>2. \A n \in 1..k : /\ P[n] \in Nat /\ R[n] \in Nat /\ Q[n] \in Nat
                      /\ One(old, n) \in Nat /\ One(new, n) \in Nat
  BY <1>1 DEF Covered, Counted, One
<1> DEFINE T == [n \in 1..k |-> R[n] + One(new, n) - One(old, n)]
<1>3. ASSUME NEW n \in 1..k
      PROVE  /\ R[n] + One(new, n) - One(old, n) \in Nat
             /\ Q[n] <= R[n] + One(new, n) - One(old, n)
             /\ R[n] + One(new, n) = (R[n] + One(new, n) - One(old, n)) + One(old, n)
  <2>1. /\ P[n] \in Nat /\ R[n] \in Nat /\ Q[n] \in Nat
        /\ One(old, n) \in Nat /\ One(new, n) \in Nat
        /\ P[n] <= R[n] /\ Q[n] + One(old, n) <= P[n] + One(new, n)
    BY <1>1, <1>2
  <2> QED
    BY <2>1
<1>4. /\ T \in [1..k -> Nat]
      /\ \A n \in 1..k : Q[n] <= T[n] /\ R[n] + One(new, n) = T[n] + One(old, n)
  BY <1>3
<1> HIDE DEF T
<1>5. Counted(g, k, T)
  BY <1>1, <1>4, SetCounted
<1> HIDE DEF g
<1>6. Covered(g, k, Q)
  BY <1>4, <1>5 DEF Covered
<1> QED
  BY <1>6 DEF g

\* A node whose children the caller holds takes the place of another tree.
LEMMA MakeCovered ==
  ASSUME NEW k \in Nat, NEW h, NEW P, Covered(h, k, P),
         NEW tag, NEW text, NEW labels,
         NEW childs, IsFiniteSet(DOMAIN childs), Range(childs) \subseteq 0..k,
         NEW old \in 0..k, \A n \in 1..k : One(old, n) + Times(childs, n) <= P[n],
         NEW t, t = k + 1, NEW Q \in [1..t -> Nat], Q[t] <= 1,
         \A n \in 1..k : Q[n] + One(old, n) <= P[n]
  PROVE  Covered(GcIncAll(GcSet(New(h, tag, text, labels, childs), old, t), childs), t, Q)
<1> DEFINE made == New(h, tag, text, labels, childs)
           kept == GcSet(made, old, t)
<1>1. PICK R : Counted(h, k, R) /\ \A n \in 1..k : P[n] <= R[n]
  BY DEF Covered
<1>2. \A n \in 1..t : One(old, n) \in Nat /\ One(t, n) \in Nat /\ Times(childs, n) \in Nat
  BY TimesIs DEF One
<1>3. \A n \in 1..k : P[n] \in Nat /\ R[n] \in Nat /\ One(t, n) = 0
  BY <1>1 DEF Covered, Counted, One
<1>4. /\ One(t, t) = 1 /\ One(old, t) = 0 /\ t \in 1..t /\ t \notin 1..k
      /\ 1..t = (1..k) \cup {t} /\ t \in Nat
  BY DEF One
<1> DEFINE T == [n \in 1..t |-> IF n = t THEN 0 ELSE R[n] - Times(childs, n)]
           U == [n \in 1..t |-> IF n = t THEN 1 ELSE R[n] - Times(childs, n) - One(old, n)]
           V == [n \in 1..t |-> U[n] + Times(childs, n)]
<1>5. ASSUME NEW n \in 1..k
      PROVE  /\ R[n] - Times(childs, n) \in Nat
             /\ R[n] - Times(childs, n) - One(old, n) \in Nat
             /\ R[n] = (R[n] - Times(childs, n)) + Times(childs, n)
             /\ R[n] - Times(childs, n) + One(t, n)
                  = (R[n] - Times(childs, n) - One(old, n)) + One(old, n)
             /\ Q[n] <= (R[n] - Times(childs, n) - One(old, n)) + Times(childs, n)
  <2>1. n \in 1..t /\ Q[n] \in Nat
    BY <1>4
  <2>2. Q[n] + One(old, n) <= P[n] /\ One(old, n) + Times(childs, n) <= P[n] /\ P[n] <= R[n]
    BY <1>1
  <2>3. /\ P[n] \in Nat /\ R[n] \in Nat /\ One(t, n) = 0
        /\ One(old, n) \in Nat /\ Times(childs, n) \in Nat
    BY <1>2, <1>3, <2>1
  <2> DEFINE p == P[n]
             r == R[n]
             q == Q[n]
             c == Times(childs, n)
             o == One(old, n)
  <2>4. /\ p \in Nat /\ r \in Nat /\ q \in Nat /\ c \in Nat /\ o \in Nat
        /\ q + o <= p /\ o + c <= p /\ p <= r
    BY <2>1, <2>2, <2>3
  <2> HIDE DEF p, r, q, c, o
  <2>5. /\ r - c \in Nat /\ r - c - o \in Nat /\ r = (r - c) + c
        /\ r - c + 0 = (r - c - o) + o /\ q <= (r - c - o) + c
    BY <2>4
  <2> QED
    BY <2>3, <2>5 DEF p, r, q, c, o
<1>6. /\ T \in [1..t -> Nat] /\ T[t] = 0
      /\ \A n \in 1..k : T[n] = R[n] - Times(childs, n)
  BY <1>4, <1>5
<1>7. /\ U \in [1..t -> Nat] /\ U[t] = 1
      /\ \A n \in 1..k : U[n] = R[n] - Times(childs, n) - One(old, n)
  BY <1>4, <1>5
<1> HIDE DEF T, U
<1>8. V \in [1..t -> Nat] /\ \A n \in 1..t : V[n] = U[n] + Times(childs, n)
  BY <1>2, <1>7
<1> HIDE DEF V
<1>9. \A n \in 1..k : R[n] = T[n] + Times(childs, n)
  BY <1>5, <1>6
<1>10. \A n \in 1..t : T[n] + One(t, n) = U[n] + One(old, n)
  <2> SUFFICES ASSUME NEW n \in 1..t PROVE T[n] + One(t, n) = U[n] + One(old, n)
    OBVIOUS
  <2>1. CASE n = t
    BY <1>4, <1>6, <1>7, <2>1
  <2>2. CASE n # t
    BY <1>4, <1>5, <1>6, <1>7, <2>2
  <2> QED
    BY <2>1, <2>2
<1>11. Counted(made, t, T) /\ t \in Alive(made, t) /\ made.nodes[t].childs = childs
  BY <1>1, <1>6, <1>9, NewCounted
<1> HIDE DEF made
<1>12. Counted(kept, t, U) /\ kept.nodes = made.nodes
  <2>1. t \notin made.freed
    BY <1>11 DEF Alive
  <2>2. t \in Nat /\ U \in [1..t -> Nat] /\ Counted(made, t, T)
    BY <1>4, <1>7, <1>11
  <2> HIDE DEF kept
  <2>3. Counted(GcSet(made, old, t), t, U)
    BY <1>10, <2>1, <2>2, SetCounted
  <2> QED
    BY <2>3, SameNodes DEF kept
<1> HIDE DEF kept
<1>13. t \in Alive(kept, t)
  BY <1>4, <1>7, <1>12, HeldInUse DEF Alive
<1>14. \A n \in kept.freed : Times(childs, n) = 0
  <2> SUFFICES ASSUME NEW n \in kept.freed PROVE \A i \in DOMAIN childs : childs[i] # n
    BY TimesIs
  <2> SUFFICES ASSUME NEW i \in DOMAIN childs, childs[i] = n PROVE FALSE
    OBVIOUS
  <2>1. n \in 1..t
    BY <1>12 DEF Counted, Sound, HeapOK
  <2>2. n \in Range(kept.nodes[t].childs)
    BY <1>11, <1>12 DEF Range
  <2> QED
    BY <1>4, <1>12, <1>13, <2>1, <2>2, HeldInUse
<1>15. Counted(GcIncAll(kept, childs), t, V)
  BY <1>4, <1>8, <1>12, <1>14, IncCounted
<1>16. \A n \in 1..t : Q[n] <= V[n]
  <2> SUFFICES ASSUME NEW n \in 1..t PROVE Q[n] <= V[n]
    OBVIOUS
  <2>1. CASE n = t
    BY <1>2, <1>7, <1>8, <2>1
  <2>2. CASE n # t
    BY <1>4, <1>5, <1>7, <1>8, <2>2
  <2> QED
    BY <2>1, <2>2
<1> QED
  BY <1>15, <1>16 DEF Covered, kept, made
=============================================================================
