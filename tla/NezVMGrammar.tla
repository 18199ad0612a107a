---------------------------- MODULE NezVMGrammar ----------------------------
(***************************************************************************)
(* The machine against the grammar its bytecode was compiled from: main's  *)
(* verdict, the tree dumpAST prints and every memo entry are what the      *)
(* meaning of the grammar says.                                            *)
(***************************************************************************)
EXTENDS NezVMBacktracks, PegSemantics

CONSTANTS
  Rules,      \* the grammar: rule name -> parsing expression
  MemoRules   \* the rule name of each memo point, from 0

\* Tree t of the heap as dumpAST walks it.
Shown(t) ==
  LET textOf(text) ==
        IF "str" \in DOMAIN text THEN text.str
        ELSE SubSeq(input, text.from - InputBase + 1,
                    text.from - InputBase + text.len)
      shown[n \in 0..newcount] ==
        IF n = NULL THEN NoTree
        ELSE LET node == heap.nodes[n]
             IN  ShownNode(node.tag,
                           IF node.childs = <<>> THEN textOf(node.text) ELSE <<>>,
                           FoldLeftDomain(LAMBDA kids, i :
                             Append(kids, <<node.labels[i], shown[node.childs[i]]>>),
                             <<>>, node.childs))
  IN  shown[t]

\* What main prints once mininez_parse has returned.
Verdict == IF result = 0 THEN "syntax error"
           ELSE IF pos # tail THEN "unconsume error" ELSE "success"

\* The verdict the grammar gives of the input.
Expected(parse) == IF ~parse.ok THEN "syntax error"
                   ELSE IF parse.at # Len(input) THEN "unconsume error"
                   ELSE "success"

\* When the machine exits, its verdict is the grammar's, and an accepted
\* input yields the tree the grammar builds.
ResultMatchesGrammar ==
  status = "exit" =>
    LET parse == Parse(Rules, input, "File", 0)
    IN  /\ Verdict = Expected(parse)
        /\ result = 1 => /\ pos = InputBase + parse.at
                         /\ Shown(left) = parse.left

\* A memo entry says of its rule at its position what the grammar says: the
\* same outcome, the same length, the same tree.
EntryFaithful(h) ==
  LET entry == memo[h]
      off   == entry.key \div 4096
      parse == Parse(Rules, input, MemoRules[(entry.key % 4096) + 1], off)
  IN  CASE entry.result = SuccFound ->
             /\ parse.ok
             /\ entry.consumed = parse.at - off
             /\ Shown(entry.tree) = parse.left
        [] entry.result = FailFound -> ~parse.ok
        [] OTHER -> TRUE

\* Whatever entry of another rule or position was overwritten, every entry of
\* the memo table agrees with the grammar, at every step of the parse.
MemoFaithful ==
  status = "run" => \A h \in DOMAIN memo : EntryFaithful(h)
=============================================================================
