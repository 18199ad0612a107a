------------------------------- MODULE MCCalls -------------------------------
(***************************************************************************)
(* The calls of a generated parser on the text "2 -5b".                   *)
(***************************************************************************)
EXTENDS ContextCalls

mcText   == <<50, 32, 45, 53, 98>>
mcWords  == {<<50, 32>>, <<45, 53, 98>>, <<53, 98, 98>>,
             <<50, 32, 45, 53, 98, 98, 98, 98>>}
\* The last but one is longer than a block and finds "b" in its last pair.
mcRanges == {<<98, 122>>, <<53, 53>>, <<97, 97, 48, 49>>, <<1, 2>>,
             <<97, 97, 48, 49, 98, 98>>, <<>>}
mcMasks  == {<<0, 0>>, <<6, 1>>}
=============================================================================
