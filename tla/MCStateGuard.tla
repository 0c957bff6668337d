---------------------------- MODULE MCStateGuard ----------------------------
(* StateGuard with interchangeable readers. *)
EXTENDS StateGuard, TLC
CONSTANTS r1, r2
MCReader == {r1, r2}
Interchangeable == Permutations(MCReader)
=============================================================================
