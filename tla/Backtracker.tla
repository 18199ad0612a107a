---------------------------- MODULE Backtracker ----------------------------
(***************************************************************************)
(* What the parsing machine promises about backtracking, with no slots,    *)
(* links, save points or counts: a choice point holds the whole state the  *)
(* machine was in when Alt made it, and a failure brings that state back.  *)
(* Whether an instruction matches is left open.                            *)
(***************************************************************************)
EXTENDS Integers, Sequences, SequencesExt

VARIABLES
  pc,       \* the next instruction
  pos,      \* the position in the text
  left,     \* the tree at hand
  log,      \* the tree operations not yet consumed
  words,    \* what Pos, Call and TPush saved and nothing has popped yet
  choices,  \* the choice points, outermost first
  status    \* "run" until the machine stops

vars == <<pc, pos, left, log, words, choices, status>>

Saved(alt) == [alt |-> alt, pos |-> pos, left |-> left, log |-> log,
               words |-> words]

Init == /\ left = 0
        /\ log = <<>>
        /\ choices = <<>>
        /\ status = "run"

\* A test that does not fail, a jump, a look up that takes no tree.
Proceed == /\ pos' >= pos
           /\ UNCHANGED <<left, log, words, choices>>

\* A tree comes from the memo table.
Recall == /\ pos' >= pos
          /\ UNCHANGED <<log, words, choices>>

Push == /\ words' # <<>> /\ Front(words') = words
        /\ Last(words').tree \in {0, left}
        /\ UNCHANGED <<pos, left, log, choices>>

\* Back, Ret, and TPop or TLink, which cut the log to the size saved.
Pop == /\ words # <<>>
       /\ words' = Front(words)
       /\ LET top == Last(words) IN
          \/ pos' = top.value /\ UNCHANGED <<left, log>>
          \/ pc' = top.value /\ UNCHANGED <<pos, left, log>>
          \/ /\ top.value \in 0..Len(log)
             /\ left' = top.tree
             /\ \/ log' = SubSeq(log, 1, top.value)
                \/ /\ log' # <<>> /\ Front(log') = SubSeq(log, 1, top.value)
                   /\ Last(log').op = "link" /\ Last(log').tree = left
             /\ UNCHANGED pos
       /\ UNCHANGED choices

Record == /\ IsStrictPrefix(log, log')
          /\ UNCHANGED <<pos, left, words, choices>>

\* A node made of the last entries of the log; nobody else holds it yet.
Build == /\ IsStrictPrefix(log', log)
         /\ left' \notin {left} \cup {w.tree : w \in Range(words)}
                                \cup {c.left : c \in Range(choices)}
         /\ UNCHANGED <<pos, words, choices>>

Choose == /\ UNCHANGED <<pos, left, log, words>>
          /\ choices' # <<>>
          /\ choices' = Append(choices, Saved(Last(choices').alt))

\* The innermost choice is over; what was saved since is forgotten.
Commit == /\ choices # <<>>
          /\ choices' = Front(choices)
          /\ words' = Last(choices).words
          /\ UNCHANGED <<pos, left, log>>

\* A round of a loop is over and has consumed something: the choice now stands
\* for the state after it.
Renew == /\ choices # <<>>
         /\ pos # Last(choices).pos
         /\ LET back == Last(choices) IN
            choices' = Append(Front(choices),
                         [Saved(back.alt) EXCEPT !.words = back.words])
         /\ UNCHANGED <<pos, left, log, words>>

\* The state of the innermost choice is back, all of it.
Fail == /\ choices # <<>>
        /\ LET back == Last(choices) IN
           /\ pc' = back.alt
           /\ pos' = back.pos
           /\ left' = back.left
           /\ log' = back.log
           /\ words' = back.words
        /\ choices' = Front(choices)

\* No choice is left: the exit with code 0.  No position is promised, and of
\* the log only that nothing is added.
GiveUp == /\ choices = <<>> /\ choices' = <<>>
          /\ pc' = 0
          /\ left' = 0
          /\ words' = <<>>
          /\ IsPrefix(log', log)

Step == \/ Proceed \/ Recall \/ Push \/ Pop \/ Record \/ Build
        \/ Choose \/ Commit \/ Renew \/ Fail \/ GiveUp

\* Running, stopping, and whatever the release of the context leaves.
Next == \/ status = "run" /\ status' = "run" /\ Step
        \/ /\ status = "run" /\ status' # "run"
           /\ UNCHANGED <<pc, pos, left, log, words, choices>>
        \/ status # "run" /\ status' # "run" /\ UNCHANGED <<pc, pos, left>>

Spec == Init /\ [][Next]_vars
=============================================================================
