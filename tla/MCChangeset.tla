----------------------------- MODULE MCChangeset -----------------------------
(* Changeset on a chain of seven blocks with two forks:

       g -- a1 -- a2 -- a3
       |     \--- b2 -- b3
       \--- c1

   one account, one slot of it and one code. *)
EXTENDS Changeset

CONSTANTS g, a1, a2, a3, b2, b3, c1, acct, slot, code

MCBlock == {g, a1, a2, a3, b2, b3, c1}
MCAncestors == [b \in MCBlock |->
    CASE b = g -> {g} [] b = a1 -> {g, a1} [] b = a2 -> {g, a1, a2}
      [] b = a3 -> {g, a1, a2, a3} [] b = b2 -> {g, a1, b2}
      [] b = b3 -> {g, a1, b2, b3} [] b = c1 -> {g, c1}]
MCNumber == [b \in MCBlock |-> Cardinality(MCAncestors[b]) - 1]
MCTouched == [b \in MCBlock |->
    CASE b \in {g, a1} -> {acct, slot} [] b \in {a2, b3, c1} -> {acct}
      [] b \in {a3, b2} -> {slot}]
NoneDestroyed == [b \in MCBlock |-> {}]
OneDestroyed == [b \in MCBlock |-> IF b = a2 THEN {acct} ELSE {}]
MCDeployed == [b \in MCBlock |-> IF b = a2 THEN {code} ELSE {}]
MCOwner == [k \in {slot} |-> acct]
MCLogging == [b \in MCBlock |-> b \in {a2, b2, b3}]

(* The node answers at the block a read is tagged with, and nothing is read
   before the first notification. *)
ExactReads == [t \in Hash |-> IF t = ZeroHash THEN {} ELSE {t}]
=============================================================================
