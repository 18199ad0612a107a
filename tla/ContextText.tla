----------------------------- MODULE ContextText -----------------------------
(***************************************************************************)
(* The functions of cnez-runtime.h through which a parser generated as C   *)
(* moves over the text.  The bytecode interpreter calls none of them.      *)
(*                                                                         *)
(* The caller tests eof before it reads a byte, and back, or a move by a   *)
(* number, takes it to no place outside the text.                          *)
(***************************************************************************)
EXTENDS Integers, Sequences, SequencesExt

CONSTANTS
  Text,    \* the input
  Words,   \* byte strings to match: of two to eight bytes
  Ranges,  \* range strings of _findchar: pairs of bounds
  Block    \* bytes of an SSE register (16 in the code)

\* The bytes that are not 0.
Char == 1..256-1

ASSUME TextAssumption ==
  /\ Text \in Seq(Char)
  /\ \A w \in Words : w \in Seq(Char) /\ Len(w) \in 2..8
  /\ \A r \in Ranges : r \in Seq(0..256-1) /\ Len(r) % 2 = 0
  /\ Block \in Nat \ {0} /\ Block % 2 = 0

VARIABLE pos  \* bytes of Text before ParserContext.pos
-----------------------------------------------------------------------------
(* The text, with the 0 that load_file appends to it.                      *)

\* No byte lies beyond the 0.
Beyond == -1
ByteAt(p) == IF p < Len(Text) THEN Text[p + 1]
             ELSE IF p = Len(Text) THEN 0 ELSE Beyond

eof == ~(pos < Len(Text))

\* ParserContext_read, and prefetch followed by move.
read == ~eof /\ pos' = pos + 1

\* ParserContext_back and ParserContext_move.
back(ppos) == pos' = ppos

\* The bytes of text compared before the first that differs.
Agreed(text) ==
  LET from[i \in 0..Len(text)] ==
        IF i = Len(text) \/ text[i + 1] # ByteAt(pos + i) THEN i
        ELSE from[i + 1]
  IN  from[0]

\* Seeded fault: a word that ends with the text is too long.
MatchesInside(text) == pos + Len(text) < Len(Text) /\ Agreed(text) = Len(text)

\* ParserContext_match: the length is tested first, as eof2 does.
Matches(text) == pos + Len(text) <= Len(Text) /\ Agreed(text) = Len(text)

\* match2 .. match8: && over the bytes, and no test of the length.
MatchesN(text) == Agreed(text) = Len(text)

match(text) == pos' = IF Matches(text) THEN pos + Len(text) ELSE pos

matchN(text) == pos' = IF MatchesN(text) THEN pos + Len(text) ELSE pos

\* range holds byte c.
InRange(range, c) ==
  \E j \in 1..Len(range) \div 2 : range[2*j - 1] <= c /\ c <= range[2*j]

\* _findchar as the build compiles it.
findchar(p, size, range) ==
  LET from[i \in 0..size] ==
        IF i = size \/ InRange(range, ByteAt(p + i)) THEN i ELSE from[i + 1]
  IN  p + from[0]

\* What one register takes of range: the comparison cuts range_size to it.
Loaded(range) == IF Len(range) <= Block THEN range ELSE SubSeq(range, 1, Block)

\* Seeded fault: a block without a hit is taken for the last.
findcharOneBlock(p, size, range) ==
  LET hits == {i \in 0..(IF size < Block THEN size ELSE Block) - 1 :
                 InRange(Loaded(range), ByteAt(p + i))}
  IN  IF hits = {} THEN p + size
      ELSE p + CHOOSE i \in hits : \A j \in hits : i <= j

\* _findchar with CNEZ_SSE: a comparison finds the first hit among Block bytes;
\* "above" is no hit in a whole block, and only then comes the next.
findcharSSE(p, size, range) ==
  LET r == Loaded(range)
      from[i \in 0..size] ==
        LET n == IF size - i < Block THEN size - i ELSE Block
            hits == {k \in 0..n-1 : InRange(r, ByteAt(p + i + k))}
        IN  IF hits # {}
            THEN i + CHOOSE k \in hits : \A j \in hits : k <= j
            ELSE IF n = Block THEN from[i + Block] ELSE size
  IN  p + from[0]

skipRange(range) == pos' = findchar(pos, Len(Text) - pos, range)

checkOneMoreRange(range) ==
  LET p == findchar(pos, Len(Text) - pos, range)
  IN  pos' = IF p > pos THEN p ELSE pos

\* A step of the position.
Move == \/ read
        \/ \E ppos \in 0..Len(Text) : back(ppos)
        \/ \E text \in Words : match(text) \/ matchN(text)
        \/ \E range \in Ranges : skipRange(range) \/ checkOneMoreRange(range)
-----------------------------------------------------------------------------
(* What holds of it.                                                       *)

\* The functions that test no length agree with the one that does and with the
\* text, and read no byte beyond the text's 0: the byte that stops them is one
\* they may read.
MatchesAgree ==
  \A w \in Words :
    /\ Matches(w) = IsPrefix(w, SubSeq(Text, pos + 1, Len(Text)))
    /\ MatchesN(w) = Matches(w)
    /\ ~MatchesN(w) => ByteAt(pos + Agreed(w)) # Beyond

\* The search by bytes stops at the first byte in range, else at the end of the
\* text; the search by blocks stops at the same place when one register takes the
\* whole range, and of a longer range still at a byte in range or at the end, but
\* no earlier.
SearchesAgree ==
  \A r \in Ranges :
    LET p == findchar(pos, Len(Text) - pos, r)
        q == findcharSSE(pos, Len(Text) - pos, r)
    IN  /\ p \in pos..Len(Text) /\ q \in p..Len(Text)
        /\ p < Len(Text) => InRange(r, Text[p + 1])
        /\ q < Len(Text) => InRange(r, Text[q + 1])
        /\ \A k \in pos..p-1 : ~InRange(r, Text[k + 1])
        /\ Len(r) <= Block => q = p
=============================================================================
