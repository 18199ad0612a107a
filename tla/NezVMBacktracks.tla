-------------------------- MODULE NezVMBacktracks --------------------------
(***************************************************************************)
(* The machine's slots as the abstract machine's words and choices: what   *)
(* an array of slots stk and a log lg hold, read along the links of the    *)
(* failure frames.                                                         *)
(***************************************************************************)
EXTENDS NezVMProps

\* The frame that frame f is linked to; 0 is the bottom frame, slots 0 to 2.
Outer(stk, f) == IF stk[f].value \in 0..f-1 THEN stk[f].value ELSE 0
Innermost == IF fail_stack \in 0..StackSize-3 THEN fail_stack ELSE 0

\* The frames from the bottom one, which adds nothing, to frame f, and what
\* piece has for each of them, one after the other.
Joined(stk, piece) ==
  LET upTo[f \in 0..StackSize-1] ==
        IF f = 0 THEN <<>> ELSE upTo[Outer(stk, f)] \o piece[f]
  IN  upTo

\* What slots a to b hold for Back, Ret, TPop and TLink.
Slots(stk, a, b) == [k \in 1..b-a+1 |-> [value |-> stk[a+k-1].value,
                                         tree  |-> stk[a+k-1].tree]]

\* The words below frame f: those between the frames it is linked to.
SlotsBefore(stk) == [f \in 0..StackSize-1 |-> Slots(stk, Outer(stk, f) + 3, f - 1)]
WordsUnder(stk, f) == Joined(stk, SlotsBefore(stk))[f]

\* The log cut to n entries, as ParserContext_backLog cuts it.
LogUpTo(lg, n) == SubSeq(lg, 1, IF n < Len(lg) THEN n ELSE Len(lg))

ChoiceAt(stk, lg, f) == [alt   |-> stk[f+1].num,
                         pos   |-> stk[f+1].value,
                         left  |-> stk[f].tree,
                         log   |-> LogUpTo(lg, stk[f+2].value),
                         words |-> WordsUnder(stk, f)]

\* The frames from the bottom one (which is no choice) to frame f.
ChoicesAt(stk, lg) == [f \in 0..StackSize-1 |-> <<ChoiceAt(stk, lg, f)>>]
ChoicesUpTo(stk, lg, f) == Joined(stk, ChoicesAt(stk, lg))[f]

SavedWords  == WordsUnder(stacks, Innermost) \o Slots(stacks, Innermost + 3, unused_stack)
OpenChoices == ChoicesUpTo(stacks, log, Innermost)

Abstract == INSTANCE Backtracker WITH words <- SavedWords, choices <- OpenChoices

\* Linked frames over slots that calls, saved trees and failures share, save
\* points of a log that is cut and regrown, and stale values left in popped
\* slots amount to this: a failure restores position, tree, log and the saved
\* words exactly as they were when its alternative was pushed or renewed.
Backtracks == Abstract!Spec
=============================================================================
