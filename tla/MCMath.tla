------------------------------- MODULE MCMath -------------------------------
(***************************************************************************)
(* The machine on sample/bytecode/math.bin.                                *)
(***************************************************************************)
EXTENDS NezVMGrammar, ProgramShapes, MathGrammar

\* The values the .cfg gives the constants.
mcCode == MathCode
mcTags == MathTags
mcRules == MathRules
mcMemoRules == MathMemoRules

Texts(alphabet, n) == UNION {[1..k -> alphabet] : k \in 0..n}

\* Every text of up to three bytes, longer ones of interest, and nested ones
\* that fill the stack (a level of parentheses takes twelve slots
\* while it is tried).
MathShort == Texts({"1", "a", "+", "*", "(", ")", " "}, 3)
MathLong  == {<<"1", "+", "1", "*", "1", "/", "1", "-", "1">>,
              <<"(", "1", "+", "1", ")", "*", "1">>,
              <<"1", "%", " ", "(", "a", ")", "?">>,
              <<"(", "(", "(", "1", ")", ")", ")">>}
Nested(n) == [i \in 1..n |-> "("] \o <<"1">> \o [i \in 1..n |-> ")"]
MathDeep  == {Nested(n) : n \in {5, 6, 16}}
MathInputs == MathShort \cup MathLong \cup MathDeep
mcInputs == MathInputs

\* The example of README.md; an expression in as many parentheses as the stack
\* cannot hold; an operator without operands.
mcExample == {<<"1", "+", "1", "*", "1", "/", "1", "-", "1">>}
mcDeep    == {Nested(4)}
mcWrong   == {<<"+">>}
=============================================================================
