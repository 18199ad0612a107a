----------------------------- MODULE NezVMProps -----------------------------
(***************************************************************************)
(* What makes the parsing machine correct, whatever the grammar: its       *)
(* stack discipline, the life of its trees, and its termination.           *)
(***************************************************************************)
EXTENDS NezVM

SlotType(k)  == [value : Int, num : Int, tree : 0..k]
EntryType(k) == [key : Int, consumed : Int, tree : 0..k,
                 result : {NotFound, SuccFound, FailFound}]
Replacements ==
  {Code[o].value : o \in {p \in DOMAIN Code : Code[p].op = "TReplace"}}
LogType(k) ==
  [op : {NewOp}, pos : Int]
    \cup [op : {LinkOp}, label : Symbols, tree : 0..k]
    \cup [op : {TagOp}, tag : Symbols]
    \cup [op : {ReplaceOp}, text : Replacements]

\* Every variable has its type; every tree pointer the machine holds, in use
\* or stale, is NULL or a node that was made, and trees have no cycles.
TypeOK ==
  /\ input \in Inputs
  /\ pc \in Int
  /\ pos \in Int
  /\ left \in 0..newcount
  /\ stacks \in [0..StackSize-1 -> SlotType(newcount)]
  /\ unused_stack \in -1..StackSize-1
  /\ fail_stack \in Int
  /\ log \in Seq(LogType(newcount))
  /\ memo \in [0..MemoSize-1 -> EntryType(newcount)]
  /\ newcount \in Nat
  /\ HeapOK(heap, newcount)
  /\ status \in {"run", "exit", "disposed", "aborted", "undefined"}
  /\ result \in Nat
-----------------------------------------------------------------------------
(* Stack discipline.                                                       *)

\* The failure frames from f down to the bottom frame, as slot numbers.
Chain(f) ==
  LET down[s \in 0..StackSize-1] ==
        IF s = 0 THEN {}
        ELSE {s} \cup (IF stacks[s].value \in 0..s-1
                       THEN down[stacks[s].value] ELSE {})
  IN  down[f]

\* The frames linked from fail_stack are whole, lie below the stack top and
\* do not overlap; an outer frame saved no more log and no later position
\* than an inner one, and neither is ahead of the machine.  Else a failure
\* would resume in the middle of someone else's slots, keep log entries of
\* the attempt it abandons, or move forward (PUSH_FAIL .. STEP_FAIL).
FailChain ==
  status = "run" /\ unused_stack >= 0 =>
    /\ fail_stack \in 0..StackSize-3
    /\ \A f \in Chain(fail_stack) :
         LET outer == stacks[f].value IN
         /\ f + 2 <= unused_stack
         /\ outer = 0 \/ outer \in 1..f-3
         /\ stacks[f+1].value \in InputBase..pos
         /\ stacks[f+2].value \in 0..Len(log)
         /\ outer # 0 => /\ stacks[outer+1].value <= stacks[f+1].value
                         /\ stacks[outer+2].value <= stacks[f+2].value

\* A parse that accepts has popped everything it pushed: only the bottom
\* frame is left on the stack and no log entry is left over (a leftover would
\* be a tag or child attached to a tree it does not belong to).
BalancedExit ==
  status = "exit" /\ result = 1 =>
    unused_stack = 3 /\ fail_stack = 0 /\ log = <<>>

\* A parse that fails hands the position it began at back to the caller, as
\* the comment on the bottom frame has it ("stacks[1].value=pc->pos"); POP_FAIL
\* at the bottom reads the slots below the ones mininez_init_vm pushed.
FailureRestoresPos ==
  status = "exit" /\ result = 0 => pos = InputBase

\* No legal bytecode makes the interpreter read past the input's Nul, past
\* the stack or outside the code: every step it takes is defined.
ParseDefined == status # "undefined"

\* The only way out of the defined steps is a stack filled to its size.
UndefinedOnlyWhenFull ==
  status = "undefined" => unused_stack + 3 >= StackSize
-----------------------------------------------------------------------------
(* The life of trees.                                                      *)

\* Trees the machine can still reach: left, the log's links, the memo's and
\* the trees saved in the slots below the top.
Roots ==
  ({left} \cup {memo[h].tree : h \in DOMAIN memo}
          \cup {log[i].tree : i \in {j \in DOMAIN log : log[j].op = LinkOp}}
          \cup {stacks[s].tree : s \in 0..unused_stack}) \ {NULL}

\* The nodes reachable from a set of nodes; children are older.
Reachable(nodes) ==
  LET from[n \in 1..newcount+1] ==   \* those among n..newcount
        IF n > newcount THEN {}
        ELSE LET above == from[n+1]
             IN  IF \/ n \in nodes
                    \/ \E m \in above : n \in Range(heap.nodes[m].childs)
                 THEN above \cup {n} ELSE above
  IN  from[1]

\* Nothing reachable has been freed, although POP_FAIL, STEP_FAIL, TPop and
\* TLink set left or a slot's tree without counting the reference.
ReachableAlive ==
  status \in {"run", "exit"} =>
    Reachable(Roots) \cap heap.freed = {}

\* The references counted cover the references that ParserContext_free and
\* the slots' reuse will release: all slots, live or stale, the memo, the log
\* and the children of live nodes.
Releases(n) ==
  Cardinality({h \in DOMAIN memo : memo[h].tree = n})
  + Cardinality({i \in DOMAIN log : log[i].op = LinkOp /\ log[i].tree = n})
  + Cardinality({s \in DOMAIN stacks : stacks[s].tree = n})
  + HeldBy(heap, (1..newcount) \ heap.freed, n)

\* No node can be released more often than it was counted.
CountsCover ==
  status \in {"run", "exit"} =>
    \A n \in (1..newcount) \ heap.freed : Releases(n) <= heap.refc[n]

\* Releasing the context frees nothing twice and touches nothing freed.
CleanDisposal == status = "disposed" => ~heap.uaf
-----------------------------------------------------------------------------
(* Termination: the interpreter loop always comes to an end.               *)

Terminates == <>(status # "run")
=============================================================================
