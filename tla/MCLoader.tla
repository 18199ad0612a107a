------------------------------ MODULE MCLoader ------------------------------
(***************************************************************************)
(* The loader on the shipped and the synthetic programs with the headers   *)
(* the repository's bytecode files have, with headers that are off by one  *)
(* or use their high halves, and on bodies at the widths of their operands.*)
(***************************************************************************)
EXTENDS Loader

M == INSTANCE MathGrammar
J == INSTANCE JsonGrammar
O == INSTANCE OpsGrammar

Jumping == LookupOps \cup {"Jump", "Call"}

\* An instruction of the model's programs as the file holds it.
Filed(i) ==
  IF i.op \in Jumping
  THEN [is_signed |-> IF i.jump < 0 THEN 0 ELSE 1] @@
       [i EXCEPT !.jump = IF i.jump < 0 THEN -i.jump ELSE i.jump]
  ELSE IF i.op \in SetOps THEN [past |-> {}] @@ i
  ELSE i

\* A field of 64 bits whose high half is 0.
Low(n) == [low |-> n, high |-> 0]

File(w, n, counts, size, body) ==
  [w |-> w, n |-> n, prods |-> counts[1], sets |-> counts[2],
   strs |-> counts[3], tags |-> counts[4], tables |-> counts[5],
   length |-> Low(Len(body)), size |-> Low(size), body |-> body]

Program(prog) == [k \in DOMAIN prog |-> Filed(prog[k])]

\* The headers of sample/bytecode/math.bin and json.bin.
Math == File(64, 4, <<9, 14, 5, 14, 3>>, 340, Program(M!MathProgram))
Json == File(64, 4, <<4, 25, 9, 21, 5>>, 486, Program(J!JsonProgram))
Ops  == File(64, 2, <<4, 3, 9, 7, 2>>, 198, Program(O!OpsProgram))

\* As many tags as a fold can tell apart, its own the last of them.
Wide == File(0, 0, <<0, 0, 0, 256, 0>>, 255 * 3 + 4,
             [i \in 1..255 |-> iTag("TTag", "")] \o <<iTFold(-1, "last")>>)

\* Distances around the last that fits an int16_t, of both signs.
FarJump(is_signed, jump) == [is_signed |-> is_signed] @@ iJump(jump)
FarCall(is_signed, jump) == [is_signed |-> is_signed] @@ iCall(jump, 65535)
Far == File(0, 0, <<0, 0, 0, 0, 0>>, 7 * 3 + 5 + 5,
            <<FarJump(1, 32767), FarJump(0, 32767), FarJump(1, 32768),
              FarJump(0, 32768), FarJump(255, 40000), FarJump(0, 40000),
              FarJump(0, 65535), FarCall(0, 32768),
              [is_signed |-> 0] @@ iLookup("TLookup", 65535, 32768)>>)

\* Two sets of which the first may list a position past the 256.
Sets(past) == File(0, 0, <<0, 2, 0, 0, 0>>, 2 * 3,
                   <<[past |-> past] @@ iSet("Set", {"a"}),
                     [past |-> {}] @@ iSet("OSet", {"b"})>>)

\* A field one too small, one too large.
Off(f) ==
  {[f EXCEPT ![k] = f[k] + d] :
     k \in {"prods", "sets", "strs", "tags", "tables"}, d \in {-1, 1}}
  \cup {[f EXCEPT ![k] = Low(f[k].low + d)] : k \in {"length", "size"}, d \in {-1, 1}}

mcFiles == {Math, Json, Ops, Wide, Far, Sets({}), Sets({256})} \cup Off(Ops)
             \cup {[Ops EXCEPT !.w = 65535, !.n = 65535],
                   [Ops EXCEPT !.w = 65535, !.n = 32768],
                   [Ops EXCEPT !.length = Low(Ops.size.low + 1)],
                   [Ops EXCEPT !.size.high = 1], [Ops EXCEPT !.length.high = 4]}
=============================================================================
