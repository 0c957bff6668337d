------------------------------ MODULE MCRexSim ------------------------------
(* RexSim on a chain with a fork at its first block:

       g -- a1 -- a2
        \-- c1

   one account, which both forks change, one slot of it, which a1 changes, and
   the hashes of the heights. *)
EXTENDS RexSim, TLC

CONSTANTS g, a1, a2, c1, acct, slot, r1, r2

MCBlock == {g, a1, a2, c1}
MCAncestors == [b \in MCBlock |->
    CASE b = g -> {g} [] b = a1 -> {g, a1} [] b = a2 -> {g, a1, a2}
      [] b = c1 -> {g, c1}]
MCNumber == [b \in MCBlock |-> Cardinality(MCAncestors[b]) - 1]
MCTouched == [b \in MCBlock |->
    CASE b = g -> {acct, slot} [] b = a1 -> {slot} [] b \in {a2, c1} -> {acct}]
NoneOf == [b \in MCBlock |-> {}]
MCOwner == [k \in {slot} |-> acct]
Readers == {r1, r2}
Interchangeable == Permutations(Readers)
=============================================================================
