------------------------------ MODULE Transport ------------------------------
(***************************************************************************)
(* What the changeset manager relies on between the node and itself: the   *)
(* notifications, numbered as the node sends them, arrive in that order    *)
(* and none arrives twice.  Any of them may be lost, without a word.       *)
(***************************************************************************)
EXTENDS Integers

VARIABLES
    sent,    \* the number of the last notification sent
    last     \* the number of the last one that arrived

vars == <<sent, last>>

Init == sent = 0 /\ last = 0

Send ==
    /\ sent' = sent + 1
    /\ UNCHANGED last

Arrive(n) ==
    /\ last < n
    /\ last' = n
    /\ UNCHANGED sent

Next == Send \/ \E n \in 1..sent : Arrive(n)

Spec == Init /\ [][Next]_vars
=============================================================================
