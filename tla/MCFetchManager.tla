--------------------------- MODULE MCFetchManager ---------------------------
(* FetchManager on small sets: one key, interchangeable calls, non-zero tags
   and values. *)
EXTENDS FetchManager, TLC

CONSTANTS c1, c2, c3, k1, zero, tA, tB, v1, v2

MCCall == {c1, c2, c3}
MCKeyOne == {k1}
MCTag == {zero, tA, tB}
MCTagZero == {zero}
MCValue == {v1, v2}
MCValueOne == {v1}

Interchangeable ==
    Permutations(MCCall) \cup Permutations({tA, tB}) \cup Permutations(MCValue)
=============================================================================
