----------------------------- MODULE Validation -----------------------------
(* The continuity verdicts of validation.rs: whether a notification connects
   to the block the snapshot is at. *)
EXTENDS Chain

(* CurrentState: the block, hash and stale flag of the snapshot. *)
IsInitial(current) == current.block = 0 \/ current.hash = ZeroHash

Contains(seg, current) ==
    \E b \in Blocks(seg) : Number[b] = current.block /\ b = current.hash

(* Mutant: the parent's hash is not compared. *)
ContinuesByNumber(current, seg) == Number[First(seg)] = current.block + 1

Continues(current, seg) ==
    /\ Number[First(seg)] = current.block + 1
    /\ Parent(First(seg)) = current.hash

(* Mutant: a segment that starts at the current block is no overlap. *)
OverlapsBelow(current, seg) == Number[First(seg)] < current.block

OverlapsCurrent(current, seg) == Number[First(seg)] <= current.block

ValidateChainCommitted(current, seg) ==
    LET anchored == ~IsInitial(current) /\ ~current.stale IN
    CASE ~anchored -> "AcceptAny"
      [] anchored /\ Continues(current, seg) -> "Valid"
      [] anchored /\ OverlapsCurrent(current, seg) ->
            IF Contains(seg, current) THEN "Valid" ELSE "OverlapMismatch"
      [] OTHER -> "Gap"

(* run_changeset_manager passes stale = false: the verdict never looks at it. *)
ValidateChainReorged(current, old) ==
    CASE IsInitial(current) -> "AcceptAny"
      [] ~IsInitial(current) /\ (Tip(old) = current.hash \/ Contains(old, current))
            -> "Valid"
      [] OTHER -> "Mismatch"

IsAcceptable(verdict) == verdict \in {"Valid", "AcceptAny"}
=============================================================================
