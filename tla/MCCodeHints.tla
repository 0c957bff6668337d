----------------------------- MODULE MCCodeHints -----------------------------
(* CodeHints with two contracts: `proxy` has the code v1 and later v2, `twin`
   has v1 as well. *)
EXTENDS CodeHints

CONSTANTS c1, c2, k1, k2, v1, v2, proxy, twin, zero

MCCallPair == {c1, c2}
MCKey == {k1, k2}
MCTag == {zero}
MCValue == {v1, v2}
MCAccount == {proxy, twin}
MCHashOf == [v \in MCValue |-> IF v = v1 THEN k1 ELSE k2]
MCCodeOf == [a \in MCAccount |-> IF a = proxy THEN MCValue ELSE {v1}]
=============================================================================
