----------------------------- MODULE NezVMShape -----------------------------
(***************************************************************************)
(* What a compiler of bytecode owes the parsing machine: that pushes and   *)
(* pops pair up on every path through a procedure.  A shape says of an     *)
(* offset of the code what the procedure running there has open, outermost *)
(* first: a position kept by Pos, a tree by TPush, an alternative by Alt,  *)
(* a node by TBegin or TFold.                                              *)
(*                                                                         *)
(* The machine checks none of this; the proofs about its stack assume it   *)
(* of the program, and every program checked here has it.                  *)
(***************************************************************************)
EXTENDS NezVM

\* Inside: the procedure was called with a node open.  Leaving: offset 2, where
\* the first procedure returns to.
Inside  == "inside"
Leaving == "leaving"
Opened  == {"pos", "tree", "alt", "node"}
Letters == Opened \cup {Inside, Leaving}

Entries == {<<>>, <<Inside>>}

\* There is a node to tag, to replace the text of or to link to.
NodeOpen(shape) == \E k \in DOMAIN shape : shape[k] \in {"node", Inside}

\* Where the program goes from the instruction at o, and what is open there.
PairsAt(S, o) ==
  LET i == Code[o]
      Goes(p, shape) == p \in DOMAIN S /\ S[p] = shape
      Closes(letter) == i.next \in DOMAIN S /\ S[o] = Append(S[i.next], letter)
  IN  /\ i.op \in {"Nop", "Any", "NAny", "TTag", "TReplace", "Lookup", "TLookup"}
                    \cup (TextOps \ {"Dispatch", "DDispatch"}) =>
           Goes(i.next, S[o])
      /\ i.op \in {"Jump", "Lookup", "TLookup"} => Goes(i.next + i.jump, S[o])
      /\ i.op \in {"Dispatch", "DDispatch"} =>
           \A b \in Bytes : Goes(i.next + i.table[b], S[o])
      /\ i.op = "Call" =>
           /\ i.next + i.jump \in DOMAIN S
           /\ S[i.next + i.jump] \in Entries
           /\ S[i.next + i.jump] = <<Inside>> => NodeOpen(S[o])
           /\ Goes(i.ret, S[o])
      /\ i.op = "Ret" => S[o] \in Entries
      /\ i.op = "Exit" /\ i.code = 1 => S[o] = <<Leaving>>
      /\ i.op = "Pos"   => Goes(i.next, Append(S[o], "pos"))
      /\ i.op = "TPush" => Goes(i.next, Append(S[o], "tree"))
      /\ i.op = "Alt"   => Goes(i.next, Append(S[o], "alt")) /\ Goes(i.alt, S[o])
      /\ i.op \in {"TBegin", "TFold"} => Goes(i.next, Append(S[o], "node"))
      /\ i.op = "Back"                    => Closes("pos")
      /\ i.op \in {"TPop", "TLink"}       => Closes("tree")
      /\ i.op \in {"Succ", "Memo", "TMemo"} => Closes("alt")
      /\ i.op = "TEnd"                    => Closes("node")
      /\ i.op = "Step" => Goes(i.next, S[o]) /\ S[o] = Append(Front(S[o]), "alt")
      /\ i.op \in {"TTag", "TReplace"} => NodeOpen(S[o])
      /\ i.op = "TLink" => NodeOpen(S[i.next])

\* S is a shape of the program: offset 0 is where a failure without an
\* alternative ends.
WellShaped(S) ==
  /\ S \in [DOMAIN S -> Seq(Letters)] /\ DOMAIN S \subseteq DOMAIN Code
  /\ 0 \in DOMAIN Code /\ Code[0].op = "Exit" /\ Code[0].code = 0
  /\ StartPoint \in DOMAIN S /\ S[StartPoint] = <<>>
  /\ 2 \in DOMAIN S /\ S[2] = <<Leaving>>
  /\ \A o \in DOMAIN S : PairsAt(S, o)
-----------------------------------------------------------------------------
(* What it owes the text: no instruction takes the Nul after it (NByte, NSet *)
(* and Dispatch look at it and stay), except a DDispatch that fails at once; *)
(* no loop repeats the empty string; no Nop has an operand that runs.        *)

TextSafe(S) ==
  \A o \in DOMAIN S :
    LET i == Code[o]
    IN  /\ i.op \in {"Byte", "Set", "OByte", "OSet", "RByte", "RSet"} =>
             Nul \notin i.set
        /\ i.op = "RStr" => i.str # <<>>
        /\ i.op = "DDispatch" => Code[i.next + i.table[Nul]].op = "Fail"
        /\ i.op = "Nop" => i.prod = 0
-----------------------------------------------------------------------------
(* What it owes the trees: that left is NULL whenever a slot keeps it, for a *)
(* slot's tree comes back into left without a count.  H is where left may    *)
(* hold a tree: after a TEnd, a TLookup that found one, a procedure, and on  *)
(* from there until a failure, a TLink or a TPop brings back a slot's tree.  *)

\* Where a procedure may return to.
Returns(S) == {2} \cup {Code[o].ret : o \in {c \in DOMAIN S : Code[c].op = "Call"}}

\* Instructions that go on to the next one with left as it is.
KeepOps == {"Nop", "Any", "NAny", "Pos", "Back", "Succ", "Memo", "TMemo", "Lookup",
            "TLookup", "TBegin", "TTag", "TReplace", "TFold"}
              \cup (TextOps \ {"Dispatch", "DDispatch"})

TreesAt(H, o) ==
  LET i == Code[o]
  IN  /\ i.op \in {"TPush", "Alt", "Step"} => o \notin H
      /\ i.op = "TEnd" => i.next \in H
      /\ i.op = "TLookup" => i.next + i.jump \in H
      /\ o \in H =>
           /\ i.op \in KeepOps => i.next \in H
           /\ i.op \in {"Jump", "Lookup", "Call"} => i.next + i.jump \in H
           /\ i.op \in {"Dispatch", "DDispatch"} =>
                \A b \in Bytes : i.next + i.table[b] \in H

SavesNoTree(S, H) == Returns(S) \subseteq H /\ \A o \in DOMAIN S : TreesAt(H, o)
=============================================================================
