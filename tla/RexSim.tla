------------------------------- MODULE RexSim -------------------------------
(***************************************************************************)
(* rex-sim as a whole (lib.rs): readers on threads of their own, one of    *)
(* the fetch managers that tag their requests, the changeset manager, and  *)
(* a node that is asked by block number.                                   *)
(*                                                                         *)
(* A reader loads the snapshot, finds that it lacks an entry and asks the  *)
(* manager of its kind for it at the snapshot's block, named by its hash.  *)
(* The manager asks the node by number alone, so the node answers from     *)
(* whatever block its own chain has at that height by then.  The changeset *)
(* manager flushes the caches at every notification and merges them into   *)
(* the snapshot at a commit.                                               *)
(***************************************************************************)
EXTENDS Transitions

CONSTANTS
    Call,
    NotFound, Failed,
    Torn,              \* account info put together from two blocks
    Permits, CompletionDepth,
    MaxPending, MaxNotified

VARIABLES
    request, reply, waiting, phase, result, issued, fetchQ, completionQ,
    suspended,         \* where the fetch manager is suspended
    cacheHash, cache, epoch, inflight, flush, flushes, handed

VARIABLES
    canon, notified, pending, pc, handling, snapshot, generation, update,
    ready, sink

VARIABLES
    kind,              \* the FetchSpec of the manager looked at
    loaded,            \* [Call -> Request]: the request made of the snapshot
                       \* the reader loaded, Unheld before
    partial,           \* what the first of get_account's calls was answered
    left               \* the blocks the node's chain ever left

fetchVars == <<request, reply, waiting, phase, result, issued, fetchQ,
               completionQ, suspended, cacheHash, cache, epoch, inflight,
               flush, flushes, handed>>
stateVars == <<canon, notified, pending, pc, handling, snapshot, generation,
               update, ready, sink>>
ownVars == <<kind, loaded, partial, left>>
vars == <<fetchVars, stateVars, ownVars>>

(* What a request asks for: an account, a slot, or the hash of a height. *)
Key == Entry \cup Height
Value == Block \cup {Gone, Torn}

(* The keys of the three managers are of three types; an answer is a value, an
   absence or an error, and what is not there yet is none of them. *)
ASSUME RexSimAssumption ==
    /\ IsFiniteSet(Call)
    /\ Entry \cap Height = {}
    /\ Torn \notin Block \cup {Gone}
    /\ NotFound \notin Value /\ Failed \notin Value /\ NotFound # Failed
    /\ Unheld \notin Value \cup {NotFound, Failed} \cup [key: Key, tag: Hash]
    /\ Permits \in Nat \ {0} /\ CompletionDepth \in Nat \ {0}
    /\ MaxPending \in Nat /\ MaxNotified \in Nat

FM == INSTANCE FetchManager
        WITH Tag <- Hash, Absent <- Unheld, MaxFlushes <- MaxNotified,
             EpochGuarded <- TRUE, Tagged <- TRUE, pc <- suspended

(* Nothing is lost; commits do not overlap; reth-rex sends no reverts; the
   receipts hold no logs. *)
CS == INSTANCE Changeset
        WITH ReadAt <- [t \in Hash |-> {}], Lossy <- FALSE, Overlaps <- FALSE,
             Reverts <- FALSE, Logging <- [b \in Block |-> FALSE],
             SinkDepth <- 1, MaxHashReads <- 0

(* The three FetchSpecs that tag their requests and guard by epoch: what their
   keys are, whether fetch asks the node at the block of the key or at the
   snapshot's, and whether it joins several answers. *)
AccountSpec == [keys |-> Account, atKey |-> FALSE, joins |-> TRUE]
StorageSpec == [keys |-> Slot, atKey |-> FALSE, joins |-> FALSE]
BlockHashSpec == [keys |-> Height, atKey |-> TRUE, joins |-> FALSE]

Managers == {AccountSpec, StorageSpec, BlockHashSpec}

Init ==
    /\ FM!Init /\ CS!Init
    /\ kind \in Managers
    /\ loaded = [c \in Call |-> Unheld]
    /\ partial = [c \in Call |-> Unheld]
    /\ left = {}

-----------------------------------------------------------------------------
(* The readers. *)

Held(k) == CASE k \in Account -> snapshot.accounts[k]
             [] k \in Slot -> snapshot.storage[k]
             [] OTHER -> snapshot.hashes[k]

(* basic_ref, storage_ref and block_hash_ref up to the send: a stale snapshot
   is an error and an entry it holds is returned at once.  BLOCKHASH asks for
   a block below the snapshot's. *)
Load(c, k) ==
    /\ loaded[c] = Unheld /\ k \in kind.keys
    /\ ~snapshot.stale /\ Held(k) = Unheld
    /\ k \in Height => k < snapshot.block
    /\ loaded' = [loaded EXCEPT ![c] = [key |-> k, tag |-> snapshot.hash]]
    /\ UNCHANGED <<fetchVars, stateVars, kind, partial, left>>

(* The snapshot may be another by the time the request is sent. *)
Ask(c) ==
    /\ loaded[c] # Unheld
    /\ FM!Send(c, loaded[c])
    /\ UNCHANGED <<stateVars, ownVars>>

-----------------------------------------------------------------------------
(* The node, asked by number (rpc.rs). *)

HeightOf(t) == IF t = ZeroHash THEN 0 ELSE Number[t]

(* The block number a request is sent with. *)
NumberAsked(c) ==
    IF kind.atKey THEN request[c].key ELSE HeightOf(request[c].tag)

(* What key k is at block b. *)
ValueAt(b, k) == CASE k \in Account -> InfoAt(b, k)
                   [] k \in Slot -> WordAt(b, k)
                   [] OTHER -> AtHeight(b, k)

Known(c) == NumberAsked(c) <= Number[canon]
Latest(c) == ValueAt(AtHeight(canon, NumberAsked(c)), request[c].key)

(* get_account asks for balance, nonce and code in parallel: the first of them
   to be answered. *)
FirstAnswer(c) ==
    /\ kind.joins /\ phase[c] = "rpc" /\ partial[c] = Unheld
    /\ Known(c)
    /\ partial' = [partial EXCEPT ![c] = Latest(c)]
    /\ UNCHANGED <<fetchVars, stateVars, kind, loaded, left>>

Joined(c) == IF kind.joins /\ partial[c] # Latest(c) THEN Torn ELSE Latest(c)

(* An unknown block, a failed or late call is an error. *)
NodeAnswers(c) ==
    /\ phase[c] = "rpc"
    /\ \/ ~Known(c) /\ FM!RpcReturns(c, Failed)
       \/ /\ Known(c) /\ (kind.joins => partial[c] # Unheld)
          /\ FM!RpcReturns(c, Joined(c))
    /\ UNCHANGED <<stateVars, ownVars>>

NodeMoves ==
    /\ notified < MaxNotified
    /\ \E from, to \in Block : CS!NodeCommits(from, to) \/ CS!NodeReorgs(from, to)
    /\ left' = left \cup (Ancestors[canon] \ Ancestors[canon'])
    /\ UNCHANGED <<fetchVars, kind, loaded, partial>>

-----------------------------------------------------------------------------
(* The changeset manager flushes the fetch managers for what it received and
   waits for their caches.  As nothing is lost, nothing is refused. *)

Receive ==
    /\ CS!Receive /\ FM!AskFlush
    /\ UNCHANGED ownVars

Flushed == ~flush /\ suspended # "drain"

Of(domain) == [tag |-> handed.tag, data |-> [k \in domain |-> handed.data[k]]]
Caches == [accounts |-> Of(Account), storage |-> Of(Slot), hashes |-> Of(Height),
           code |-> {}]

Apply ==
    /\ Flushed
    /\ CS!ApplyCommit(Caches) \/ CS!ApplyReorg
    /\ UNCHANGED <<fetchVars, ownVars>>

(* The update and, as no block has logs, the ready signal. *)
Publish ==
    /\ CS!SendUpdate \/ CS!EmitLogs
    /\ UNCHANGED <<fetchVars, ownVars>>

-----------------------------------------------------------------------------
Manager == FM!Manager /\ UNCHANGED <<stateVars, ownVars>>

Task(c) ==
    \/ FM!TaskSends(c) /\ UNCHANGED <<stateVars, ownVars>>
    \/ FirstAnswer(c) \/ NodeAnswers(c)

Next ==
    \/ \E c \in Call : \/ \E k \in Key : Load(c, k)
                       \/ Ask(c)
                       \/ Task(c)
    \/ NodeMoves
    \/ Receive \/ Apply \/ Publish
    \/ Manager

Spec == Init /\ [][Next]_vars
-----------------------------------------------------------------------------
(* What k is for a reader at the block a tag names; before the first
   notification readers are at block 0. *)
TrueAt(t, k) == ValueAt(IF t = ZeroHash THEN Genesis ELSE t, k)

(* Requests made before the first notification carry the zero hash. *)
AskedEarly(k) ==
    \E c \in Call : request[c] # Unheld /\ request[c].key = k
                                        /\ request[c].tag = ZeroHash

Right(k) ==
    Held(k) # Unheld => snapshot.hash # ZeroHash /\ Held(k) = TrueAt(snapshot.hash, k)

(* Although the node is asked by number and a fetch may come back after any
   number of flushes, an entry of the snapshot is wrong only for a reason: the
   node has left the snapshot's block (the reorg that says so is on its way),
   or the entry was asked for before the first notification. *)
WrongHasReason ==
    \A k \in kind.keys : Right(k) \/ snapshot.hash \in left \/ AskedEarly(k)

(* And a wrong entry does not outlive its reason: once the notifications the
   node sent are handled, what was read across its reorgs is gone, and every
   entry, but those asked for before the first notification, is the node's. *)
HealedWhenCaughtUp ==
    pending = <<>> /\ pc = "recv" /\ notified > 0 =>
        /\ snapshot.hash = canon
        /\ \A k \in kind.keys : Right(k) \/ AskedEarly(k)

(* A reader at a block the node never left gets the value at that block, hit
   or miss, whatever the other readers and the flushes do meanwhile. *)
RepliesRightUnlessLeft ==
    \A c \in Call : reply[c] \in Value =>
        \/ reply[c] = TrueAt(request[c].tag, request[c].key)
        \/ request[c].tag \in left

-----------------------------------------------------------------------------
(* What the documents say and the code does not do. *)

(* docs/DESIGN.md: "that caller asked at block *N* and the value is correct
   for it". *)
AnsweredAtTag ==
    \A c \in Call : reply[c] \in Value =>
        reply[c] = TrueAt(request[c].tag, request[c].key)
=============================================================================
