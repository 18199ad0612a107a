---------------------------- MODULE PegSemantics ----------------------------
(***************************************************************************)
(* What a Nez grammar promises: the meaning of a parsing expression as a   *)
(* function from a state to the state after a match, or to failure.  A     *)
(* state is a value, so backtracking is simply going on with the old one;  *)
(* there is no stack, no log to undo, no memo table and no reference       *)
(* count.  This is the reference the machine is compared with, built from  *)
(* the grammars under sample/grammar and the tree printed in README.md.    *)
(* RECURSIVE operators: only the model-checking modules use this module.   *)
(***************************************************************************)
EXTENDS Integers, Sequences, SequencesExt

\* Parsing expressions.
pSet(set)        == [kind |-> "set", set |-> set]
pAny             == [kind |-> "any"]
pEnd             == [kind |-> "end"]                    \* !.
pNot(e)          == [kind |-> "not", e |-> e]
pAnd(e)          == [kind |-> "and", e |-> e]
pSeq(es)         == [kind |-> "seq", es |-> es]
pAlt(es)         == [kind |-> "alt", es |-> es]
pMany(e)         == [kind |-> "many", e |-> e]
pRule(name)      == [kind |-> "rule", name |-> name]
pNew(e)          == [kind |-> "new", e |-> e]           \* { e }
pFold(label, e)  == [kind |-> "fold", label |-> label, e |-> e]  \* {$label e}
pLink(label, e)  == [kind |-> "link", label |-> label, e |-> e]  \* $label(e)
pTag(tag)        == [kind |-> "tag", tag |-> tag]       \* #tag
pReplace(text)   == [kind |-> "replace", text |-> text] \* `text`
pDetree(e)       == [kind |-> "detree", e |-> e]        \* ~e

pOpt(e)      == pAlt(<<e, pSeq(<<>>)>>)
pSome(e)     == pSeq(<<e, pMany(e)>>)
pWord(bytes) == pSeq([i \in DOMAIN bytes |-> pSet({bytes[i]})])

\* Trees as dumpAST shows them: a leaf has a text, a node its children.
NoTree == [tag |-> "", text |-> <<>>, kids |-> <<>>]
ShownNode(tag, text, kids) ==
  [tag |-> tag, text |-> IF kids = <<>> THEN text ELSE <<>>, kids |-> kids]

\* The state of a match: offset, the tree at hand, and the node being built.
OpenNode(at) == [start |-> at, tag |-> "", text |-> <<>>, fixed |-> FALSE,
                 kids |-> <<>>]
StateAt(at) == [ok |-> TRUE, at |-> at, left |-> NoTree, node |-> OpenNode(at)]
Failed == [ok |-> FALSE]

\* The node complete at state s, over text.
Closed(text, s) ==
  ShownNode(s.node.tag,
            IF s.node.fixed THEN s.node.text
            ELSE SubSeq(text, s.node.start + 1, s.at),
            s.node.kids)

RECURSIVE Eval(_, _, _, _), EvalSeq(_, _, _, _), EvalAlt(_, _, _, _),
          EvalMany(_, _, _, _)

EvalSeq(rules, text, es, s) ==
  IF ~s.ok \/ es = <<>> THEN s
  ELSE EvalSeq(rules, text, Tail(es), Eval(rules, text, Head(es), s))

EvalAlt(rules, text, es, s) ==
  IF es = <<>> THEN Failed
  ELSE LET r == Eval(rules, text, Head(es), s)
       IN  IF r.ok THEN r ELSE EvalAlt(rules, text, Tail(es), s)

\* Greedy repetition; an iteration that consumes nothing ends it.
EvalMany(rules, text, e, s) ==
  LET r == Eval(rules, text, e, s)
  IN  IF ~r.ok \/ (r.ok /\ r.at = s.at) THEN s
      ELSE EvalMany(rules, text, e, r)

\* A match of e as a new node, begun with the given children.
EvalNode(rules, text, e, s, kids) ==
  LET r == Eval(rules, text, e,
                [s EXCEPT !.node = [OpenNode(s.at) EXCEPT !.kids = kids]])
  IN  IF ~r.ok THEN Failed
      ELSE [r EXCEPT !.left = Closed(text, r), !.node = s.node]

Eval(rules, text, e, s) ==
  CASE e.kind = "set" ->
         IF s.at < Len(text) /\ text[s.at + 1] \in e.set
         THEN [s EXCEPT !.at = @ + 1] ELSE Failed
    [] e.kind = "any" ->
         IF s.at < Len(text) THEN [s EXCEPT !.at = @ + 1] ELSE Failed
    [] e.kind = "end" -> IF s.at = Len(text) THEN s ELSE Failed
    [] e.kind = "not" -> IF Eval(rules, text, e.e, s).ok THEN Failed ELSE s
    [] e.kind = "and" -> 
         LET r == Eval(rules, text, e.e, s)
         IN  IF r.ok THEN [r EXCEPT !.at = s.at] ELSE Failed
    [] e.kind = "seq" -> EvalSeq(rules, text, e.es, s)
    [] e.kind = "alt" -> EvalAlt(rules, text, e.es, s)
    [] e.kind = "many" -> EvalMany(rules, text, e.e, s)
    [] e.kind = "rule" -> Eval(rules, text, rules[e.name], s)
    [] e.kind = "new" -> EvalNode(rules, text, e.e, s, <<>>)
    [] e.kind = "fold" -> EvalNode(rules, text, e.e, s, <<<<e.label, s.left>>>>)
    [] e.kind = "link" ->
         LET r == Eval(rules, text, e.e, s)
         IN  IF ~r.ok THEN Failed
             ELSE [s EXCEPT !.at = r.at,
                            !.node.kids = Append(@, <<e.label, r.left>>)]
    [] e.kind = "tag" -> [s EXCEPT !.node.tag = e.tag]
    [] e.kind = "replace" -> [s EXCEPT !.node.text = e.text,
                                       !.node.fixed = TRUE]
    [] e.kind = "detree" ->
         LET r == Eval(rules, text, e.e, s)
         IN  IF r.ok THEN [s EXCEPT !.at = r.at] ELSE Failed

\* What rule name matches of text from offset at on.
Parse(rules, text, name, at) == Eval(rules, text, pRule(name), StateAt(at))
=============================================================================
