------------------------------- MODULE Chain -------------------------------
(***************************************************************************)
(* The chain the node follows and what a segment of it carries: the types  *)
(* of reth that rex-sim reads (Chain, ExecutionOutcome, SealedHeader).     *)
(*                                                                         *)
(* A block stands for its own hash.  Blocks form a tree; Ancestors[b] is   *)
(* the chain from Genesis to b.  Every change of an account or a slot      *)
(* gives it a value of its own, named by the block that made it: two reads *)
(* agree only when no block between them touched the entry.                *)
(***************************************************************************)
EXTENDS Integers, Sequences, FiniteSets

CONSTANTS
    Block, Genesis,
    Number,      \* [Block -> Nat]
    Ancestors,   \* [Block -> SUBSET Block], b itself included
    ZeroHash,    \* B256::ZERO: no block has this hash
    Account, Slot,
    Owner,       \* [Slot -> Account]
    Touched,     \* [Block -> SUBSET (Account \cup Slot)]: what a block changes
    Destroyed,   \* [Block -> SUBSET Account]: the accounts it destroys
    Deployed,    \* [Block -> SUBSET Code]: the code it deploys
    Code,
    Gone,        \* the empty account the node answers for a destroyed one
    Unheld       \* no entry

Entry == Account \cup Slot

ASSUME ChainAssumption ==
    /\ Genesis \in Block /\ ZeroHash \notin Block
    /\ Number \in [Block -> Nat] /\ Number[Genesis] = 0
    /\ Ancestors \in [Block -> SUBSET Block]
    /\ \A b \in Block :
          /\ b \in Ancestors[b] /\ Genesis \in Ancestors[b]
          /\ \A n \in 0..Number[b] : \E x \in Ancestors[b] : Number[x] = n
          /\ \A x \in Ancestors[b] :
                /\ Ancestors[x] \subseteq Ancestors[b]
                /\ x # b => Number[x] < Number[b]
                /\ \A y \in Ancestors[b] :
                      Number[y] <= Number[x] => y \in Ancestors[x]

ASSUME ContentAssumption ==
    /\ Account \cap Slot = {}
    /\ Owner \in [Slot -> Account]
    /\ Touched \in [Block -> SUBSET Entry] /\ Touched[Genesis] = Entry
    /\ Destroyed \in [Block -> SUBSET Account]
    /\ \A b \in Block : Destroyed[b] \subseteq Touched[b]
    /\ Deployed \in [Block -> SUBSET Code]
    /\ Gone \notin Block /\ Unheld \notin Block \cup {Gone, ZeroHash}

-----------------------------------------------------------------------------
(* header().parent_hash *)
Parent(b) ==
    IF b = Genesis THEN ZeroHash
    ELSE CHOOSE p \in Ancestors[b] : Number[p] = Number[b] - 1

(* The ancestor of b at height n, which BLOCKHASH(n) names at b. *)
AtHeight(b, n) == CHOOSE x \in Ancestors[b] : Number[x] = n

(* The blocks after a up to b, in order. *)
Path(a, b) == [i \in 1..(Number[b] - Number[a]) |-> AtHeight(b, Number[a] + i)]

Tip(seg) == seg[Len(seg)]
First(seg) == seg[1]
Blocks(seg) == {seg[i] : i \in 1..Len(seg)}

(* The blocks of the chain up to b that changed entry e; the last of them gave
   it the value it has at b. *)
Touching(b, e) == {x \in Ancestors[b] : e \in Touched[x]}

LastTouch(b, e) ==
    CHOOSE x \in Touching(b, e) : \A y \in Touching(b, e) : Number[y] <= Number[x]

(* What the node answers for an entry at block b. *)
InfoAt(b, a) == IF a \in Destroyed[LastTouch(b, a)] THEN Gone ELSE LastTouch(b, a)
WordAt(b, s) == LastTouch(b, s)

(* execution_outcome().state() of a segment: the slots it changed, and the
   accounts changed themselves or through a slot. *)
ChangedSlots(seg) == {s \in Slot : \E b \in Blocks(seg) : s \in Touched[b]}
ChangedAccounts(seg) ==
    {a \in Account : \/ \E b \in Blocks(seg) : a \in Touched[b]
                     \/ \E s \in ChangedSlots(seg) : Owner[s] = a}
Contracts(seg) == UNION {Deployed[b] : b \in Blocks(seg)}

Commit(new) == [kind |-> "commit", old |-> <<>>, new |-> new]
Reorg(old, new) == [kind |-> "reorg", old |-> old, new |-> new]
Revert(old) == [kind |-> "revert", old |-> old, new |-> <<>>]
=============================================================================
