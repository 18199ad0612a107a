---------------------------- MODULE ContextCalls ----------------------------
(***************************************************************************)
(* The functions of cnez-runtime.h through which a parser generated as C   *)
(* counts repetitions, and keeps and restores its tree at a choice, beside *)
(* those through which it moves over the text (ContextText).  The bytecode *)
(* interpreter calls none of them.  The caller brackets a choice by        *)
(* saveTree and backTree.                                                  *)
(***************************************************************************)
EXTENDS ContextText, TreeHeap

CONSTANTS
  Masks,      \* the <<mask, shift>> of scanCount
  LongBytes,  \* bytes that a long holds without its sign (7 in the code)
  CountSize,  \* 2 ^ the width of count (an unsigned long)
  StackSize,  \* ParserContext.stack_size
  MaxNodes,   \* bound: nodes ever made
  MaxSaves    \* bound: choices open at once

ASSUME CallsAssumption ==
  /\ {CountSize, StackSize} \subseteq Nat \ {0}
  /\ CountSize % 2 = 0

VARIABLES
  count,
  left,
  stacks,        \* the tree fields of ParserContext.stacks
  unused_stack,
  heap,
  saved,         \* what the caller keeps for each open choice
  due,           \* the number the slice last scanned denotes (history)
  answers        \* the answers since: how many, how many yes (history)

tree    == <<left, stacks, unused_stack, heap, saved>>
counter == <<count, due, answers>>
vars    == <<pos, tree, counter>>

\* due when the slice is no number that a long holds or goes on after its end.
Unknown   == -1
NoAnswers == [asked |-> 0, yes |-> 0]

\* ParserContext_new.
Init == /\ pos = 0
        /\ count = 0
        /\ left = NULL
        /\ stacks = [s \in 0..StackSize-1 |-> NULL]
        /\ unused_stack = 0
        /\ heap = EmptyHeap
        /\ saved = <<>>
        /\ due = Unknown
        /\ answers = NoAnswers
-----------------------------------------------------------------------------
(* The repetition counter.                                                 *)

Space  == {32} \cup 9..13
Plus   == 43
Minus  == 45
Digits == 48..57

\* The largest long.
MaxLong == CountSize \div 2 - 1

\* Where the bytes of set that stand at p end; the 0 after the text is none.
Skip(p, set) ==
  CHOOSE q \in p..Len(Text) : /\ ByteAt(q) \notin set
                             /\ \A r \in p..q-1 : ByteAt(r) \in set

\* The bytes from p to end as digits of one number, the first the highest.
Number(p, end, base, zero) ==
  LET from[q \in p..end] ==
        IF q = p THEN 0 ELSE from[q - 1] * base + Text[q] - zero
  IN  from[end]

\* strtol: white space, a sign, and the digits there, as many as there are; a
\* number that no long holds becomes the nearest.
strtol(p) ==
  LET s == Skip(p, Space)
      d == IF ByteAt(s) \in {Plus, Minus} THEN s + 1 ELSE s
      n == Number(d, Skip(d, Digits), 10, 48)
  IN  IF ByteAt(s) = Minus THEN IF n > MaxLong THEN -MaxLong - 1 ELSE -n
      ELSE IF n > MaxLong THEN MaxLong ELSE n

\* The bits that a and b share.
BitAnd[a \in Nat, b \in Nat] ==
  IF a = 0 THEN 0
  ELSE 2 * BitAnd[a \div 2, b \div 2] + (a % 2) * (b % 2)

\* The number that the digits from p to end denote.
Denoted(p, end) ==
  IF /\ p < end /\ \A q \in p+1..end : Text[q] \in Digits
     /\ ByteAt(end) \notin Digits
     /\ Number(p, end, 10, 48) \in 0..MaxLong
  THEN Number(p, end, 10, 48) ELSE Unknown

scanCount(ppos, mask, shift) ==
  /\ mask # 0 => pos - ppos <= LongBytes
  /\ count' = (IF mask = 0 THEN strtol(ppos)
               ELSE BitAnd[Number(ppos, pos, 256, 0), mask] \div 2^shift)
              % CountSize
  /\ due' = IF mask = 0 THEN Denoted(ppos, pos) ELSE Unknown
  /\ answers' = NoAnswers
  /\ UNCHANGED <<pos, tree>>

\* The answer of the moment, kept as long as it is of interest.
Answer(yes) ==
  answers' = IF due = Unknown \/ answers.asked > due THEN answers
             ELSE [asked |-> answers.asked + 1,
                   yes   |-> answers.yes + (IF yes THEN 1 ELSE 0)]

\* Seeded fault: the counter is decremented before it is compared.
decCountFirst == /\ count' = (count - 1) % CountSize
                 /\ Answer(count' > 0)
                 /\ UNCHANGED <<pos, tree, due>>

\* From 0 the unsigned counter goes to its largest value.
decCount == /\ count' = (count - 1) % CountSize
            /\ Answer(count > 0)
            /\ UNCHANGED <<pos, tree, due>>
-----------------------------------------------------------------------------
(* The tree at a choice.                                                   *)

\* endTree's effect on left: the new node, with left as its only child or
\* none.
Make(linked) ==
  LET h == New(heap, "", "", IF linked THEN <<"">> ELSE <<>>,
               IF linked THEN <<left>> ELSE <<>>)
      t == Len(heap.nodes) + 1
  IN  /\ t <= MaxNodes /\ (linked => left # NULL)
      \* The log holds the child until the node does.
      /\ heap' = GcSet(IF linked THEN GcIncAll(h, <<left>>) ELSE h, left, t)
      /\ left' = t
      /\ UNCHANGED <<pos, counter, stacks, unused_stack, saved>>

\* pushW: the slot's old tree is released, whoever left it there.  The array
\* is not enlarged before its last slot is taken.
saveTree ==
  /\ Len(saved) < MaxSaves /\ unused_stack + 1 < StackSize
  /\ unused_stack' = unused_stack + 1
  /\ heap' = GcSet(heap, stacks[unused_stack + 1], left)
  /\ stacks' = [stacks EXCEPT ![unused_stack + 1] = left]
  /\ saved' = Append(saved, [pos |-> pos, back |-> unused_stack])
  /\ UNCHANGED <<pos, counter, left>>

\* Seeded fault: left is taken from the slot without a count, as POP_FAIL does.
backTreeUncounted ==
  /\ saved # <<>>
  /\ LET save == Last(saved)
     IN  /\ left' = stacks[save.back]
         /\ unused_stack' = save.back
         /\ pos' = save.pos
  /\ saved' = Front(saved)
  /\ UNCHANGED <<counter, stacks, heap>>

\* back and backTree: an alternative failed.  The slot read is the one below
\* the slot that saveTree wrote.
backTree ==
  /\ saved # <<>>
  /\ LET save == Last(saved)
         t == stacks[save.back]
     IN  /\ heap' = IF left # t THEN GcSet(heap, left, t) ELSE heap
         /\ left' = t
         /\ unused_stack' = save.back
         /\ pos' = save.pos
  /\ saved' = Front(saved)
  /\ UNCHANGED <<counter, stacks>>

\* The alternative succeeded; its slot stays on the stack.
Keep == /\ saved # <<>>
        /\ saved' = Front(saved)
        /\ UNCHANGED <<pos, counter, left, stacks, unused_stack, heap>>

Next ==
  \/ Move /\ UNCHANGED <<tree, counter>>
  \/ decCount \/ saveTree \/ backTree \/ Keep
  \/ \E m \in Masks, ppos \in 0..pos : scanCount(ppos, m[1], m[2])
  \/ \E linked \in BOOLEAN : Make(linked)

Spec == Init /\ [][Next]_vars
-----------------------------------------------------------------------------
(* What holds of it.                                                       *)

\* Every reference to a node is counted, once: those of the slots, stale ones
\* included, of left and of the children of nodes in use.  So a node is freed
\* exactly when nothing holds it, and nothing that holds a node outlives it.
CountsExact ==
  /\ ~heap.uaf
  /\ \A n \in DOMAIN heap.nodes :
       LET held == Times(stacks, n) + (IF left = n THEN 1 ELSE 0)
                   + HeldBy(heap, DOMAIN heap.nodes \ heap.freed, n)
       IN  /\ heap.refc[n] = held
           /\ n \in heap.freed <=> held = 0

\* Asked until it says no, decCount says yes as often as the number in the
\* slice scanned.  Digits that follow the slice would be counted in, and after
\* the no the counter has wrapped.
CountsDown ==
  due # Unknown =>
    answers.yes = IF answers.asked <= due THEN answers.asked ELSE due
=============================================================================
