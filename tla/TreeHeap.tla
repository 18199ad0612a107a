------------------------------ MODULE TreeHeap ------------------------------
(***************************************************************************)
(* The reference-counted syntax trees of cnez-runtime.h.  A heap value     *)
(* holds what every node ever allocated was made of (node n is the n-th    *)
(* result of NEW; addresses are not recycled), the nodes' counts, the      *)
(* nodes freed so far, and whether a freed node was counted, which C       *)
(* leaves undefined.  The operators are pure: the interpreter threads the  *)
(* heap through the GCINC / GCDEC calls of a handler in the handler's      *)
(* order.  Calls of the same kind in a row are one operator on a sequence: *)
(* the counts they leave do not depend on their order.                     *)
(***************************************************************************)
EXTENDS Integers, Sequences, FiniteSets, SequencesExt

\* The null tree pointer; nodes are numbered from 1.
NULL == 0

\* A symbol_t that is NULL.
NoSymbol == ""

EmptyHeap == [nodes |-> <<>>, refc |-> <<>>, freed |-> {}, uaf |-> FALSE]

\* NEW, and the fields the LINK calls on the new node set: no reference yet.
New(h, tag, text, labels, childs) ==
  [nodes |-> Append(h.nodes, [tag |-> tag, text |-> text,
                              labels |-> labels, childs |-> childs]),
   refc  |-> Append(h.refc, 0),
   freed |-> h.freed,
   uaf   |-> h.uaf]

\* How often node n is among trees (NULL is no node).
Times(trees, n) == Cardinality({i \in DOMAIN trees : trees[i] = n})

\* GC(t, 1) for each t of trees.
GcIncAll(h, trees) ==
  [nodes |-> h.nodes,
   refc  |-> [n \in DOMAIN h.refc |-> h.refc[n] + Times(trees, n)],
   freed |-> h.freed,
   uaf   |-> h.uaf \/ \E n \in h.freed : Times(trees, n) > 0]

\* Where node n is a child of the nodes of S, and how often that is.
ChildAt(h, m, n) == {i \in DOMAIN h.nodes[m].childs : h.nodes[m].childs[i] = n}
Places(h, S, n) == UNION {{m} \X ChildAt(h, m, n) : m \in S}
HeldBy(h, S, n)   == Cardinality(Places(h, S, n))

\* The references node n loses when trees lose one each and the nodes of dead
\* are freed: a freed node releases its children.
Lost(h, trees, dead, n) == Times(trees, n) + HeldBy(h, dead, n)

\* The nodes freed when trees lose one reference each: those whose positive
\* count the losses bring to zero (a count that is zero already only goes
\* below).  Children are older than their parents, so the younger nodes come
\* first.
Freed(h, trees) ==
  LET k == Len(h.nodes)
      from[n \in 1..k+1] ==      \* those among n..k
        IF n > k THEN {}
        ELSE LET younger == from[n+1]
             IN  younger \cup
                 {m \in {n} \ h.freed :
                    h.refc[m] \in 1..Lost(h, trees, younger, m)}
  IN  DOMAIN h.nodes \cap from[1]

\* GC(t, -1) for each t of trees.
GcDecAll(h, trees) ==
  LET dead == Freed(h, trees)
      lost(n) == Lost(h, trees, dead, n)
  IN  IF \A i \in DOMAIN trees : trees[i] = NULL THEN h
      ELSE [nodes |-> h.nodes,
            refc  |-> [n \in DOMAIN h.refc |-> h.refc[n] - lost(n)],
            freed |-> h.freed \cup dead,
            uaf   |-> \/ h.uaf
                      \/ \E n \in h.freed : lost(n) > 0
                      \/ \E n \in dead : lost(n) > h.refc[n]]

\* GCSET(old, new): the new reference is counted before the old one is dropped.
GcSet(h, old, new) == GcDecAll(GcIncAll(h, <<new>>), <<old>>)

\* A heap of k nodes, each older than its parents.
HeapOK(h, k) ==
  /\ h.nodes \in Seq(Range(h.nodes)) /\ Len(h.nodes) = k
  /\ h.refc \in Seq(Range(h.refc)) /\ Len(h.refc) = k
  /\ h.freed \subseteq 1..k
  /\ h.uaf \in BOOLEAN
  /\ \A n \in 1..k : Range(h.nodes[n].childs) \subseteq 0..n-1
=============================================================================
