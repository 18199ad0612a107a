---------------------------- MODULE ProgramShapes ----------------------------
(***************************************************************************)
(* The shape of a program, found by following it from where the parse      *)
(* starts and from every procedure it calls.  TLC finds one for each       *)
(* program that is checked, and that it is one; and where left may hold a  *)
(* tree there.                                                             *)
(***************************************************************************)
EXTENDS NezVMShape

\* Where the instruction at o goes when shape is open there, and what is open
\* then: <<offset, shape>> pairs.
LOCAL Arrows(o, shape) ==
  LET i == Code[o]
      below == Front(shape)
      Opens(letter) == {<<i.next, Append(shape, letter)>>}
  IN  CASE i.op \in {"Exit", "Ret", "Fail", "MemoFail"} -> {}
        [] i.op = "Jump" -> {<<i.next + i.jump, shape>>}
        [] i.op \in {"Lookup", "TLookup"} ->
             {<<i.next, shape>>, <<i.next + i.jump, shape>>}
        [] i.op \in {"Dispatch", "DDispatch"} ->
             {<<i.next + i.table[b], shape>> : b \in Bytes}
        [] i.op = "Call" -> {<<i.next + i.jump, <<>>>>, <<i.ret, shape>>}
        [] i.op = "Pos" -> Opens("pos")
        [] i.op = "TPush" -> Opens("tree")
        [] i.op = "Alt" -> {<<i.alt, shape>>} \cup Opens("alt")
        [] i.op \in {"TBegin", "TFold"} -> Opens("node")
        [] i.op \in {"Back", "TPop", "TLink", "Succ", "Memo", "TMemo", "TEnd"} ->
             {<<i.next, below>>}
        [] i.op \in {"Cov", "Trap", "Move", "Guard", "TEmit", "SOpen", "SClose",
                     "SMask", "SDef", "SExists", "SIsDef", "SMatch", "SIs",
                     "SIsa", "NScan", "NDec"} -> {}
        [] OTHER -> {<<i.next, shape>>}

RECURSIVE Follow(_, _)
LOCAL Reached(S, found) == {p \in found : p[1] \notin DOMAIN S}
Follow(found, S) ==
  IF Reached(S, found) = {} THEN S
  ELSE LET new == Reached(S, found)
           T == [o \in {p[1] : p \in new} |->
                   (CHOOSE p \in new : p[1] = o)[2]] @@ S
       IN  Follow(UNION {Arrows(p[1], p[2]) : p \in new}, T)

Shape == Follow({<<StartPoint, <<>>>>, <<2, <<Leaving>>>>}, <<>>)

\* The offsets after the instruction at o where left may hold a tree, when it
\* held one at o and when it did not.
LOCAL Carried(o, held) ==
  LET i == Code[o]
      Goes == {p[1] : p \in Arrows(o, Shape[o])}
  IN  CASE i.op = "TEnd"             -> Goes
        [] i.op = "TLookup"          -> Goes \ (IF held THEN {} ELSE {i.next})
        [] i.op = "Call"             -> Goes \ (IF held THEN {} ELSE {i.next + i.jump})
        [] i.op \in {"TPop", "TLink"} -> {}
        [] OTHER                     -> IF held THEN Goes ELSE {}

RECURSIVE Spread(_)
Spread(H) ==
  LET G == H \cup UNION {Carried(o, o \in H) : o \in DOMAIN Shape}
  IN  IF G = H THEN H ELSE Spread(G)

Holding == Spread({2})

ASSUME ShapeAssumption == WellShaped(Shape)
ASSUME TextAssumption == TextSafe(Shape)
=============================================================================
