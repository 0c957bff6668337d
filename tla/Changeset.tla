----------------------------- MODULE Changeset -----------------------------
(***************************************************************************)
(* run_changeset_manager (changeset.rs): the one task that moves the       *)
(* snapshot, fed by the node's notifications and by what the fetch         *)
(* managers hand over when it flushes them.                                *)
(*                                                                         *)
(* The node and the transport are the environment: the node extends its    *)
(* chain or leaves it for a fork, and the transport keeps notifications in *)
(* order and may lose some.  The fetch managers are seen through their     *)
(* contract (FetchService): a flush hands over caches that hold, under one *)
(* tag, what the node answered to reads made at that tag.                  *)
(***************************************************************************)
EXTENDS Validation, Transitions

CONSTANTS
    ReadAt,        \* [Hash -> SUBSET Block]: the blocks whose state the node may
                   \* answer a read with that was tagged with the hash
    Lossy,         \* the transport may lose notifications
    Overlaps,      \* a commit may start before the end of the previous one
    Reverts,       \* the node may abandon blocks and name none instead
    Logging,       \* [Block -> BOOLEAN]: whether a block's receipts have logs
    SinkDepth,     \* capacity of the LogSink channel
    MaxPending,    \* bound: notifications on their way
    MaxNotified,   \* bound: notifications the node sends
    MaxHashReads   \* bound: block hashes read between two flushes

ASSUME ChangesetAssumption ==
    /\ ReadAt \in [Hash -> SUBSET Block]
    /\ {Lossy, Overlaps, Reverts} \subseteq BOOLEAN
    /\ Logging \in [Block -> BOOLEAN]
    /\ SinkDepth \in Nat \ {0} /\ MaxPending \in Nat
    /\ MaxNotified \in Nat /\ MaxHashReads \in Nat

VARIABLES
    canon,        \* the node's tip
    notified,     \* how many notifications the node has sent
    pending,      \* the notifications between the node and the manager
    pc,           \* "recv", "flush": a notification is being handled,
                  \* "announce": the snapshot is swapped, the update not sent,
                  \* "emit": the update is sent, the logs are not
    handling,     \* the notification received last
    snapshot,     \* StaticState.inner
    generation,   \* StaticState.generation
    update,       \* the value of the watch channel
    ready,        \* ready_signal was fired
    sink          \* the tips whose logs are in the LogSink

env == <<canon, notified, pending>>
state == <<snapshot, generation>>
outputs == <<update, ready, sink>>
vars == <<env, pc, handling, state, outputs>>

StateUpdate == [block: Height, hash: Hash, generation: Nat]

NoNotification == [kind |-> "none", old |-> <<>>, new |-> <<>>]

Init ==
    /\ canon \in Block
    /\ notified = 0 /\ pending = <<>>
    /\ pc = "recv" /\ handling = NoNotification
    /\ snapshot = EmptySnapshot /\ generation = 0
    /\ update = [block |-> 0, hash |-> ZeroHash, generation |-> 0]
    /\ ready = FALSE /\ sink = <<>>

-----------------------------------------------------------------------------
(* The node and the transport. *)

Deliver(n) ==
    /\ notified < MaxNotified /\ Len(pending) < MaxPending
    /\ notified' = notified + 1
    /\ \/ pending' = Append(pending, n)
       \/ Lossy /\ pending' = pending
    /\ UNCHANGED <<pc, handling, state, outputs>>

(* A commit of the blocks after `from` up to `to`. *)
NodeCommits(from, to) ==
    /\ canon \in Ancestors[to] /\ from \in Ancestors[canon] /\ from # to
    /\ from = canon \/ Overlaps
    /\ canon' = to
    /\ Deliver(Commit(Path(from, to)))

NodeReorgs(from, to) ==
    /\ Ancestors[from] = Ancestors[canon] \cap Ancestors[to]
    /\ from \notin {canon, to}
    /\ canon' = to
    /\ Deliver(Reorg(Path(from, canon), Path(from, to)))

NodeReverts(to) ==
    /\ Reverts
    /\ to \in Ancestors[canon] \ {canon}
    /\ canon' = to
    /\ Deliver(Revert(Path(to, canon)))

-----------------------------------------------------------------------------
(* The manager. *)

(* Mutant: a commit is announced when it is received, before the swap. *)
ReceiveAndAnnounce ==
    /\ pc = "recv" /\ pending # <<>>
    /\ handling' = Head(pending) /\ pending' = Tail(pending)
    /\ pc' = "flush"
    /\ update' = IF handling'.kind # "commit" THEN update
                 ELSE [block |-> Number[Tip(handling'.new)], hash |-> Tip(handling'.new),
                       generation |-> generation + 1]
    /\ UNCHANGED <<canon, notified, state, ready, sink>>

Receive ==
    /\ pc = "recv" /\ pending # <<>>
    /\ handling' = Head(pending) /\ pending' = Tail(pending)
    /\ pc' = "flush"
    /\ UNCHANGED <<canon, notified, state, outputs>>

(* CurrentState of the snapshot. *)
Current == [block |-> snapshot.block, hash |-> snapshot.hash, stale |-> snapshot.stale]

CommitVerdict == ValidateChainCommitted(Current, handling.new)
ReorgVerdict == ValidateChainReorged(Current, handling.old)

(* common_ancestor = old_first_num.saturating_sub(1) *)
CommonAncestor ==
    LET first == Number[First(handling.old)] IN IF first = 0 THEN 0 ELSE first - 1

(* StaticState::swap; its two stores are apart in StateGuard. *)
Swap(s) == snapshot' = s /\ generation' = generation + 1

ApplyCommit(caches) ==
    /\ pc = "flush" /\ handling.kind = "commit"
    /\ IsAcceptable(CommitVerdict)
    /\ Swap(BuildCommitState(snapshot, caches, handling.new))
    /\ pc' = "announce"
    /\ UNCHANGED <<env, handling, outputs>>

ApplyReorg ==
    /\ pc = "flush" /\ handling.kind = "reorg"
    /\ IsAcceptable(ReorgVerdict)
    /\ Swap(BuildReorgState(snapshot, CommonAncestor, handling.new))
    /\ pc' = "announce"
    /\ UNCHANGED <<env, handling, outputs>>

(* The caches are flushed and dropped; no update is sent. *)
Refuse ==
    /\ pc = "flush"
    /\ \/ handling.kind = "commit" /\ ~IsAcceptable(CommitVerdict)
       \/ handling.kind = "reorg" /\ ~IsAcceptable(ReorgVerdict)
    /\ Swap(MarkStale(snapshot))
    /\ pc' = "recv"
    /\ UNCHANGED <<env, handling, outputs>>

ApplyRevert ==
    /\ pc = "flush" /\ handling.kind = "revert"
    /\ Swap(BuildRevertState(snapshot, CommonAncestor))
    /\ pc' = "announce"
    /\ UNCHANGED <<env, handling, outputs>>

(* The block an update names is the notification's, not the snapshot's. *)
Landing ==
    IF handling.kind = "revert" THEN [block |-> CommonAncestor, hash |-> ZeroHash]
    ELSE [block |-> Number[Tip(handling.new)], hash |-> Tip(handling.new)]

(* The send on the watch channel, some time after the swap: readers load the
   new snapshot meanwhile.  The generation is loaded here. *)
SendUpdate ==
    /\ pc = "announce"
    /\ update' = [block |-> Landing.block, hash |-> Landing.hash,
                  generation |-> generation]
    /\ pc' = IF handling.kind = "revert" THEN "recv" ELSE "emit"
    /\ UNCHANGED <<env, handling, state, ready, sink>>

HasLogs == \E b \in Blocks(handling.new) : Logging[b]
EmitsWithin(depth) ==
    IF HasLogs THEN Len(sink) < depth /\ sink' = Append(sink, Tip(handling.new))
    ELSE sink' = sink

(* Mutants: the logs are sent although there is no room; they wait for the
   ready signal. *)
EmitAnyway ==
    /\ pc = "emit" /\ EmitsWithin(SinkDepth + 1)
    /\ ready' = TRUE /\ pc' = "recv"
    /\ UNCHANGED <<env, handling, state, update>>

EmitOnceReady ==
    /\ pc = "emit" /\ EmitsWithin(SinkDepth) /\ ready
    /\ pc' = "recv"
    /\ UNCHANGED <<env, handling, state, update, ready>>

(* The logs, if there are any, and then the ready signal; sink.send blocks
   while the channel is full. *)
EmitLogs ==
    /\ pc = "emit" /\ EmitsWithin(SinkDepth)
    /\ ready' = TRUE /\ pc' = "recv"
    /\ UNCHANGED <<env, handling, state, update>>

(* The user's end of the LogSink. *)
ReadLogs ==
    /\ sink # <<>> /\ sink' = Tail(sink)
    /\ UNCHANGED <<env, pc, handling, state, update, ready>>

-----------------------------------------------------------------------------
(* What a flush may hand over: for some tag and some block the node answered
   from, any part of what was read there.  The three tagged caches share the
   tag: a cache under another tag is dropped whole, as an empty one is. *)
Part(f, part, domain) == [k \in domain |-> IF k \in part THEN f[k] ELSE Unheld]

CachesAt(t, b) ==
    LET infos == [a \in Account |-> InfoAt(b, a)]
        words == [k \in Slot |-> WordAt(b, k)]
        hashes == [n \in {n \in Height : n <= Number[b]} |-> AtHeight(b, n)]
    IN  {[accounts |-> [tag |-> t, data |-> Part(infos, as, Account)],
          storage |-> [tag |-> t, data |-> Part(words, ss, Slot)],
          hashes |-> [tag |-> t, data |-> Part(hashes, ns, Height)],
          code |-> cs] :
            as \in SUBSET Account, ss \in SUBSET Slot,
            ns \in {ns \in SUBSET DOMAIN hashes : Cardinality(ns) <= MaxHashReads},
            cs \in SUBSET Code}

NothingRead ==
    [accounts |-> [tag |-> ZeroHash, data |-> [a \in Account |-> Unheld]],
     storage |-> [tag |-> ZeroHash, data |-> [s \in Slot |-> Unheld]],
     hashes |-> [tag |-> ZeroHash, data |-> [n \in Height |-> Unheld]],
     code |-> {}]

Flushed ==
    {NothingRead} \cup
    UNION {UNION {CachesAt(t, b) : b \in ReadAt[t]} : t \in Hash}

Manager ==
    \/ Receive
    \/ \E caches \in Flushed : ApplyCommit(caches)
    \/ ApplyReorg \/ Refuse \/ ApplyRevert
    \/ SendUpdate \/ EmitLogs

Next ==
    \/ \E from, to \in Block : NodeCommits(from, to) \/ NodeReorgs(from, to)
    \/ \E to \in Block : NodeReverts(to)
    \/ Manager
    \/ ReadLogs

Spec == Init /\ [][Next]_vars

(* The manager's task is polled, a flush always comes back (FetchManager),
   and whoever asked for the logs reads them.  The node owes nothing. *)
FairSpec == Spec /\ WF_vars(Manager) /\ WF_vars(ReadLogs)
-----------------------------------------------------------------------------
(* Type correctness of the manager's state and of what it publishes. *)
TypeOK ==
    /\ canon \in Block /\ notified \in 0..MaxNotified
    /\ Len(pending) <= MaxPending
    /\ pc \in {"recv", "flush", "announce", "emit"}
    /\ handling.kind \in {"none", "commit", "reorg", "revert"}
    /\ [snapshot EXCEPT !.receipts = <<>>, !.changed = <<>>] \in
          [block: Height, hash: Hash, header: Block \cup {Unheld}, stale: BOOLEAN,
           accounts: [Account -> Block \cup {Gone, Unheld}],
           storage: [Slot -> Block \cup {Unheld}], code: SUBSET Code,
           hashes: [Height -> Block \cup {Unheld}],
           receipts: {<<>>}, changed: {<<>>}]
    /\ generation \in Nat
    /\ update \in [block: Height, hash: Hash, generation: 0..generation]
    /\ ready \in BOOLEAN /\ Len(sink) <= SinkDepth

(* Every account and slot the snapshot holds has the value it has at the
   snapshot's block. *)
ExactState(s) ==
    IF s.hash = ZeroHash
    THEN /\ \A a \in Account : s.accounts[a] = Unheld
         /\ \A k \in Slot : s.storage[k] = Unheld
    ELSE /\ \A a \in Account : s.accounts[a] \in {Unheld, InfoAt(s.hash, a)}
         /\ \A k \in Slot : s.storage[k] \in {Unheld, WordAt(s.hash, k)}

(* block, hash and header name one block, and so does every BLOCKHASH. *)
ExactHeader(s) ==
    s.hash # ZeroHash =>
        /\ s.header = s.hash /\ s.block = Number[s.hash]
        /\ \A n \in Height : s.hashes[n] # Unheld =>
                               n <= s.block /\ s.hashes[n] = AtHeight(s.hash, n)

(* The histories end at the snapshot's block, hold at most Depth entries, and
   nothing of a fork that was left: what receipts(n) finds is the receipts of
   the ancestor at height n. *)
ExactHistory(s) ==
    s.hash # ZeroHash =>
        /\ Len(s.receipts) \in 1..Depth /\ Len(s.changed) \in 1..Depth
        /\ s.receipts[Len(s.receipts)] = s.hash
        /\ s.changed[Len(s.changed)].block = s.block
        /\ \A i \in 1..Len(s.receipts) : s.receipts[i] \in Ancestors[s.hash]
        /\ \A i \in 1..Len(s.changed) : s.changed[i].block <= s.block

(* While no notification is lost the snapshot serves only what is true at its
   block, through commits, reorgs of any depth, reverts and overlapping
   commits, and whatever part of what was read the flushes hand over, under
   the present tag or an older one.  Three things are not in it: accounts that
   a block destroys (DestroyedAccount.cfg), reads answered for another block
   than their tag's (RexSim), and reads before the first notification
   (RexSim!AskedEarly). *)
ServesTruth ==
    ~snapshot.stale =>
        ExactState(snapshot) /\ ExactHeader(snapshot) /\ ExactHistory(snapshot)

(* While none is lost, the receipts held have no hole: from the lowest height
   that receipts(n) finds up to the snapshot's block it finds every height,
   also after commits overlapped, a reorg cut the history or a revert was
   followed by a commit. *)
HistoryContiguous ==
    ~snapshot.stale /\ snapshot.hash # ZeroHash =>
        \A b \in Ancestors[snapshot.hash] :
            (\E r \in Blocks(snapshot.receipts) : Number[r] <= Number[b])
                => b \in Blocks(snapshot.receipts)

(* While none is lost, every notification is accepted, and a manager that has
   handled them all is where the node is. *)
InStep ==
    pc # "flush" /\ pending = <<>> /\ notified > 0 =>
        /\ snapshot.block = Number[canon]
        /\ snapshot.hash = IF handling.kind = "revert" THEN ZeroHash ELSE canon
        /\ snapshot.stale = (handling.kind = "revert")

(* A watcher takes the update and loads the snapshot by itself, at any time.
   The update is never ahead of the snapshot; one of the present generation
   names its block and hash, and so does any while no swap is being announced,
   also if the snapshot was made stale; and only a swap being announced or a
   refusal, which sends none, leaves an update of an older generation. *)
UpdateFollows ==
    /\ update.generation <= generation
    /\ update.generation = generation \/ pc # "announce" =>
          update.block = snapshot.block /\ update.hash = snapshot.hash
    /\ update.generation = generation \/ pc = "announce" \/ snapshot.stale

(* Whatever is lost, a snapshot that can be read is only left for another
   along the chain: a commit from a snapshot that was neither stale nor
   initial lands on a descendant of it, a reorg on a block that shares with
   it the chain below the abandoned blocks. *)
Readable(s) == ~s.stale /\ s.hash # ZeroHash /\ s.block # 0

StepsConnect ==
    [][Readable(snapshot) /\ Readable(snapshot') =>
          CASE handling.kind = "commit" -> snapshot.hash \in Ancestors[snapshot'.hash]
            [] handling.kind = "reorg" ->
                  /\ snapshot.hash \in Blocks(handling.old)
                  /\ AtHeight(snapshot.hash, CommonAncestor) \in Ancestors[snapshot'.hash]
            [] OTHER -> FALSE]_snapshot

(* Whatever is lost, no accepted notification makes an exact snapshot wrong,
   unless it is the commit adopted while stale: across a gap nothing tells
   what the lost blocks changed. *)
Adopts == snapshot.stale /\ handling.kind = "commit"

TruthIsKept ==
    [][ExactState(snapshot) /\ ExactHeader(snapshot) =>
          \/ ExactState(snapshot') /\ ExactHeader(snapshot')
          \/ Adopts]_snapshot

(* Code is named by its own hash: no commit, reorg, revert or refusal
   forgets it. *)
CodeKept == [][snapshot.code \subseteq snapshot'.code]_snapshot

(* A reorg forgets all accounts and slots, also those adopted wrongly: the
   state it builds is exact whatever the snapshot held before. *)
ReorgHeals ==
    [][snapshot'.stale \/ handling.kind # "reorg" \/ ExactState(snapshot')]_snapshot

(* Every notification that reaches the manager is handled: neither a flush
   nor a full log sink that is being read stops it. *)
AllHandled == <>[](pending = <<>> /\ pc = "recv")

-----------------------------------------------------------------------------
(* What the documents say and the code does not do. *)

(* README.md:67: "it never serves state it cannot prove". *)
NeverServesUnproven == ~snapshot.stale => ExactState(snapshot)
=============================================================================
