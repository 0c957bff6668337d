---------------------------- MODULE Transitions ----------------------------
(***************************************************************************)
(* The snapshots of rex-sim and how transitions.rs builds the next one.    *)
(* A map of the code is a function that is Unheld where it has no entry; a *)
(* history is the sequence of its entries, oldest first.                   *)
(***************************************************************************)
EXTENDS Chain

CONSTANT Depth       \* RECEIPTS_HISTORY_DEPTH

ASSUME DepthAssumption == Depth \in Nat \ {0}

Height == {Number[b] : b \in Block}
Hash == Block \cup {ZeroHash}

(* header: the block whose header and withdrawals are held.  receipts: the
   block each entry's receipts come from.  changed: height and accounts. *)
Snapshot ==
    [block: Height, hash: Hash, header: Block \cup {Unheld}, stale: BOOLEAN,
     accounts: [Account -> Block \cup {Gone, Unheld}],
     storage: [Slot -> Block \cup {Unheld}],
     code: SUBSET Code,
     hashes: [Height -> Block \cup {Unheld}],
     receipts: Seq(Block),
     changed: Seq([block: Height, accounts: SUBSET Account])]

(* StateSnapshot::default() *)
EmptySnapshot ==
    [block |-> 0, hash |-> ZeroHash, header |-> Unheld, stale |-> FALSE,
     accounts |-> [a \in Account |-> Unheld],
     storage |-> [s \in Slot |-> Unheld],
     code |-> {},
     hashes |-> [n \in Height |-> Unheld],
     receipts |-> <<>>, changed |-> <<>>]

(* push_receipts and push_changed_accounts, for every entry of es in turn:
   the oldest entries leave when the history is full. *)
Pushed(history, es) ==
    LET all == history \o es IN
    IF Len(all) <= Depth THEN all
    ELSE SubSeq(all, Len(all) - Depth + 1, Len(all))

(* The entries of a history at some indices, in their order: the nth index is
   the one with n of them up to it. *)
Nth(indices, n) == CHOOSE i \in indices : Cardinality({j \in indices : j <= i}) = n

Kept(history, indices) ==
    [n \in 1..Cardinality(indices) |-> history[Nth(indices, n)]]

ReceiptsUpTo(receipts, n) ==
    Kept(receipts, {i \in 1..Len(receipts) : Number[receipts[i]] <= n})

ChangedUpTo(changed, n) ==
    Kept(changed, {i \in 1..Len(changed) : changed[i].block <= n})

-----------------------------------------------------------------------------
(* What the fetch managers hand over: [tag, data] for accounts, storage and
   block hashes, and the code. *)
(* Mutant: the tag of a handed-over cache is not looked at. *)
ExtendedAtAnyTag(map, cache, hash) ==
    [k \in DOMAIN map |-> IF cache.data[k] # Unheld THEN cache.data[k] ELSE map[k]]

Extended(map, cache, hash) ==
    [k \in DOMAIN map |->
        IF cache.tag = hash /\ cache.data[k] # Unheld THEN cache.data[k] ELSE map[k]]

MergeCaches(s, caches, hash) ==
    [s EXCEPT !.accounts = Extended(@, caches.accounts, hash),
              !.storage = Extended(@, caches.storage, hash),
              !.hashes = Extended(@, caches.hashes, hash),
              !.code = @ \cup caches.code]

(* The info of an account change is None when the account is gone: such a
   change leaves the entry as it is. *)
ApplyExecutionChanges(s, seg) ==
    [s EXCEPT
        !.accounts = [a \in Account |->
            IF /\ a \in ChangedAccounts(seg) /\ InfoAt(Tip(seg), a) # Gone
               /\ s.accounts[a] # Unheld
            THEN InfoAt(Tip(seg), a) ELSE s.accounts[a]],
        !.storage = [k \in Slot |->
            IF k \in ChangedSlots(seg) /\ s.storage[k] # Unheld
            THEN WordAt(Tip(seg), k) ELSE s.storage[k]],
        !.code = @ \cup Contracts(seg)]

(* block_hashes after one insert per block of the segment. *)
WithHashes(hashes, seg) ==
    [n \in Height |-> IF \E b \in Blocks(seg) : Number[b] = n
                      THEN CHOOSE b \in Blocks(seg) : Number[b] = n
                      ELSE hashes[n]]

(* Mutant: the receipts of the tip only. *)
ApplyTipData(s, seg) ==
    [s EXCEPT !.receipts = Pushed(@, <<Tip(seg)>>),
              !.hashes = WithHashes(@, seg),
              !.header = Tip(seg)]

ApplyBlockData(s, seg) ==
    [s EXCEPT !.receipts = Pushed(@, seg),
              !.hashes = WithHashes(@, seg),
              !.header = Tip(seg)]

(* The end of build_commit_state and build_reorg_state. *)
MovedTo(s, seg) ==
    [s EXCEPT !.changed = Pushed(@, <<[block |-> Number[Tip(seg)],
                                       accounts |-> ChangedAccounts(seg)]>>),
              !.block = Number[Tip(seg)],
              !.hash = Tip(seg)]

BuildCommitState(current, caches, seg) ==
    LET merged == MergeCaches([current EXCEPT !.stale = FALSE], caches, current.hash)
    IN  MovedTo(ApplyBlockData(ApplyExecutionChanges(merged, seg), seg), seg)

(* Mutant: the code is forgotten. *)
CopyHistoryOnly(s, cutoff, new) ==
    [new EXCEPT
        !.receipts = ReceiptsUpTo(s.receipts, cutoff),
        !.changed = ChangedUpTo(s.changed, cutoff),
        !.hashes = [n \in Height |-> IF n <= cutoff THEN s.hashes[n] ELSE Unheld]]

(* copy_history_before, into a snapshot that holds nothing. *)
CopyHistoryBefore(s, cutoff, new) ==
    [new EXCEPT
        !.receipts = ReceiptsUpTo(s.receipts, cutoff),
        !.changed = ChangedUpTo(s.changed, cutoff),
        !.hashes = [n \in Height |-> IF n <= cutoff THEN s.hashes[n] ELSE Unheld],
        !.code = s.code]

(* Mutant: a reorg cuts the history and keeps the accounts and the slots. *)
BuildReorgOnState(current, ancestor, seg) ==
    LET kept == CopyHistoryBefore(current, ancestor, [current EXCEPT !.stale = FALSE])
    IN  MovedTo(ApplyBlockData(ApplyExecutionChanges(kept, seg), seg), seg)

BuildReorgState(current, ancestor, seg) ==
    LET kept == CopyHistoryBefore(current, ancestor, EmptySnapshot)
    IN  MovedTo(ApplyBlockData(ApplyExecutionChanges(kept, seg), seg), seg)

BuildRevertState(current, ancestor) ==
    CopyHistoryBefore(current, ancestor,
                      [EmptySnapshot EXCEPT !.stale = TRUE, !.block = ancestor])

MarkStale(s) == [s EXCEPT !.stale = TRUE]
=============================================================================
