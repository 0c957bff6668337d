-------------------------- MODULE ChangesetProofs --------------------------
(***************************************************************************)
(* Proofs about Changeset, for every tree of blocks, whatever the blocks   *)
(* change, and any losses of the transport.                                *)
(***************************************************************************)
EXTENDS Changeset, TransitionsProofs

-----------------------------------------------------------------------------
(* What reaches the manager. *)

CommitOf(n) ==
    n.kind = "commit" /\ \E t \in Block : \E f \in Ancestors[t] \ {t} : n.new = Path(f, t)

ReorgOf(n) ==
    /\ n.kind = "reorg"
    /\ \E o, t \in Block : \E f \in (Ancestors[o] \cap Ancestors[t]) \ {o, t} :
          n.old = Path(f, o) /\ n.new = Path(f, t)

RevertOf(n) ==
    /\ Reverts
    /\ n.kind = "revert" /\ \E o \in Block : \E f \in Ancestors[o] \ {o} : n.old = Path(f, o)

Note == {n \in [kind: {"commit", "reorg", "revert"}, old: Seq(Block), new: Seq(Block)] :
            CommitOf(n) \/ ReorgOf(n) \/ RevertOf(n)}

(* Whatever the node does, what it sends is a notification of those kinds. *)
LEMMA NodeSends ==
  ASSUME canon \in Block, pending \in Seq(Note), NEW from \in Block, NEW to \in Block,
         NodeCommits(from, to) \/ NodeReorgs(from, to) \/ NodeReverts(to)
  PROVE  canon' \in Block /\ pending' \in Seq(Note)
<1>1. ASSUME NEW n \in Note, Deliver(n) PROVE pending' \in Seq(Note)
  BY <1>1 DEF Deliver
<1>2. CASE NodeCommits(from, to)
  <2>1. from \in Ancestors[to] \ {to}
    BY <1>2, AncestorFacts DEF NodeCommits
  <2>2. Commit(Path(from, to)) \in Note
    BY <2>1, PathFacts DEF Commit, Note, CommitOf
  <2> QED
    BY <1>1, <1>2, <2>2 DEF NodeCommits
<1>3. CASE NodeReorgs(from, to)
  <2>1. from \in (Ancestors[canon] \cap Ancestors[to]) \ {canon, to}
    BY <1>3, ChainAssumption DEF NodeReorgs
  <2>2. Reorg(Path(from, canon), Path(from, to)) \in Note
    BY <2>1, PathFacts DEF Reorg, Note, ReorgOf
  <2> QED
    BY <1>1, <1>3, <2>2 DEF NodeReorgs
<1>4. CASE NodeReverts(to)
  <2>1. Revert(Path(to, canon)) \in Note
    BY <1>4, PathFacts DEF NodeReverts, Revert, Note, RevertOf
  <2> QED
    BY <1>1, <1>4, <2>1 DEF NodeReverts
<1> QED
  BY <1>2, <1>3, <1>4

(* The tip of what a notification adds, and the block it cuts at. *)
LEMMA CommitTip ==
  ASSUME NEW n \in Note, n.kind = "commit"
  PROVE  \E f \in Block : /\ Tip(n.new) \in Block /\ Number[Tip(n.new)] > 0
                          /\ f \in Ancestors[Tip(n.new)] \ {Tip(n.new)}
                          /\ n.new = Path(f, Tip(n.new))
BY PathEnds, AncestorFacts DEF Note, CommitOf, ReorgOf, RevertOf

(* The same for a reorg, whose two segments start from one block. *)
LEMMA ReorgTip ==
  ASSUME NEW n \in Note, n.kind = "reorg"
  PROVE  \E f \in Block : \E o \in Block :
            /\ Tip(n.new) \in Block /\ Number[Tip(n.new)] > 0
            /\ f \in Ancestors[Tip(n.new)] \ {Tip(n.new)}
            /\ n.new = Path(f, Tip(n.new))
            /\ f \in Ancestors[o] \ {o} /\ n.old = Path(f, o)
<1>1. PICK o, t \in Block : \E f \in (Ancestors[o] \cap Ancestors[t]) \ {o, t} :
          n.old = Path(f, o) /\ n.new = Path(f, t)
  BY DEF Note, CommitOf, ReorgOf, RevertOf
<1>2. PICK f \in (Ancestors[o] \cap Ancestors[t]) \ {o, t} :
          n.old = Path(f, o) /\ n.new = Path(f, t)
  BY <1>1
<1>3. Tip(n.new) = t /\ Number[t] > 0 /\ f \in Block
  BY <1>2, PathEnds, AncestorFacts
<1> QED
  BY <1>2, <1>3

(* common_ancestor is the number of the block the old segment starts from. *)
LEMMA AncestorIs ==
  ASSUME NEW o \in Block, NEW f \in Ancestors[o] \ {o}, handling.old = Path(f, o)
  PROVE  CommonAncestor = Number[f] /\ Number[f] \in Nat
<1>1. Number[First(handling.old)] = Number[f] + 1 /\ Number[f] \in Nat
  BY PathEnds, AncestorFacts
<1> QED
  BY <1>1 DEF CommonAncestor

-----------------------------------------------------------------------------
(* The verdicts. *)

(* An accepted commit on a snapshot that is neither stale nor initial carries
   every block from there to its tip, overlap or not. *)
LEMMA AcceptedLeads ==
  ASSUME handling \in Note, handling.kind = "commit", IsAcceptable(CommitVerdict),
         snapshot.hash \in Block, snapshot.block = Number[snapshot.hash],
         Number[snapshot.hash] > 0, snapshot.stale = FALSE
  PROVE  Leads(snapshot.hash, handling.new)
<1> DEFINE t == Tip(handling.new)
           h == snapshot.hash
<1>1. PICK f \in Block : /\ t \in Block /\ f \in Ancestors[t] \ {t}
                         /\ handling.new = Path(f, t)
  BY CommitTip
<1>2. Blocks(handling.new) = Ancestors[t] \ Ancestors[f]
      /\ Parent(First(handling.new)) = f
  BY <1>1, PathFacts, PathEnds
<1>3. ~IsInitial(Current)
  BY ChainAssumption DEF IsInitial, Current
<1>4. Continues(Current, handling.new) \/ Contains(handling.new, Current)
  BY <1>3 DEF IsAcceptable, CommitVerdict, ValidateChainCommitted, Current
<1>5. CASE Continues(Current, handling.new)
  <2>1. h = f
    BY <1>2, <1>5 DEF Continues, Current
  <2> QED
    BY <1>1, <1>2, <2>1 DEF Leads
<1>6. CASE Contains(handling.new, Current)
  <2>1. h \in Ancestors[t] \ Ancestors[f]
    BY <1>2, <1>6 DEF Contains, Current
  <2>2. f \in Ancestors[h]
    BY <1>1, <2>1, AncestorFacts
  <2>3. Ancestors[f] \subseteq Ancestors[h]
    BY <2>2, AncestorFacts
  <2> QED
    BY <1>2, <2>1, <2>3 DEF Leads
<1> QED
  BY <1>4, <1>5, <1>6

(* An accepted reorg leaves a block the snapshot was at. *)
LEMMA AcceptedLeaves ==
  ASSUME handling \in Note, handling.kind = "reorg", IsAcceptable(ReorgVerdict),
         snapshot.hash \in Block, snapshot.block = Number[snapshot.hash],
         Number[snapshot.hash] > 0
  PROVE  snapshot.hash \in Blocks(handling.old)
<1>1. ~IsInitial(Current)
  BY ChainAssumption DEF IsInitial, Current
<1>2. Tip(handling.old) = snapshot.hash \/ Contains(handling.old, Current)
  BY <1>1 DEF IsAcceptable, ReorgVerdict, ValidateChainReorged, Current
<1>3. Tip(handling.old) \in Blocks(handling.old)
  BY ReorgTip, PathEnds
<1> QED
  BY <1>2, <1>3 DEF Contains, Current

-----------------------------------------------------------------------------
(* What a flush hands over. *)

(* The node answers a read from the block the read is tagged with. *)
ReadsAtTag == \A t \in Hash : ReadAt[t] \subseteq {t}

(* Then whatever a handed-over cache holds under a tag is true at the block the
   tag names, and under no block's hash it holds nothing. *)
LEMMA FlushedFacts ==
  ASSUME ReadsAtTag, NEW caches \in Flushed, NEW h \in Hash
  PROVE  /\ \A a \in Account :
               caches.accounts.tag = h /\ caches.accounts.data[a] # Unheld =>
                  h \in Block /\ caches.accounts.data[a] = InfoAt(h, a)
         /\ \A k \in Slot :
               caches.storage.tag = h /\ caches.storage.data[k] # Unheld =>
                  h \in Block /\ caches.storage.data[k] = WordAt(h, k)
         /\ \A n \in Height :
               caches.hashes.tag = h /\ caches.hashes.data[n] # Unheld =>
                  /\ h \in Block /\ n <= Number[h]
                  /\ caches.hashes.data[n] = AtHeight(h, n)
<1>1. CASE caches = NothingRead
  BY <1>1 DEF NothingRead
<1>2. CASE caches # NothingRead
  <2>1. PICK t \in Hash : \E b \in ReadAt[t] : caches \in CachesAt(t, b)
    BY <1>2 DEF Flushed
  <2>2. t \in Block /\ caches \in CachesAt(t, t)
    BY <2>1, ChangesetAssumption DEF ReadsAtTag
  <2> DEFINE low == {n \in Height : n <= Number[t]}
             infos == [a \in Account |-> InfoAt(t, a)]
             words == [k \in Slot |-> WordAt(t, k)]
             hashes == [n \in low |-> AtHeight(t, n)]
             Handed(as, ss, ns, cs) ==
                 [accounts |-> [tag |-> t, data |-> Part(infos, as, Account)],
                  storage |-> [tag |-> t, data |-> Part(words, ss, Slot)],
                  hashes |-> [tag |-> t, data |-> Part(hashes, ns, Height)],
                  code |-> cs]
  <2>3. CachesAt(t, t) =
           {Handed(as, ss, ns, cs) :
               as \in SUBSET Account, ss \in SUBSET Slot,
               ns \in {ns \in SUBSET DOMAIN hashes : Cardinality(ns) <= MaxHashReads},
               cs \in SUBSET Code}
    BY DEF CachesAt
  <2>4. DOMAIN hashes = low
    OBVIOUS
  <2> HIDE DEF Handed, low, infos, words, hashes
  <2>5. PICK as \in SUBSET Account, ss \in SUBSET Slot, ns \in SUBSET low, cs \in SUBSET Code :
           caches = Handed(as, ss, ns, cs)
    BY <2>2, <2>3, <2>4
  <2>6. /\ caches.accounts.tag = t /\ caches.accounts.data = Part(infos, as, Account)
        /\ caches.storage.tag = t /\ caches.storage.data = Part(words, ss, Slot)
        /\ caches.hashes.tag = t /\ caches.hashes.data = Part(hashes, ns, Height)
    BY <2>5 DEF Handed
  <2>7. ASSUME NEW a \in Account, Part(infos, as, Account)[a] # Unheld
        PROVE  Part(infos, as, Account)[a] = InfoAt(t, a)
    <3>1. Part(infos, as, Account)[a] = infos[a]
      BY <2>7 DEF Part
    <3> QED
      BY <3>1 DEF infos
  <2>8. ASSUME NEW k \in Slot, Part(words, ss, Slot)[k] # Unheld
        PROVE  Part(words, ss, Slot)[k] = WordAt(t, k)
    <3>1. Part(words, ss, Slot)[k] = words[k]
      BY <2>8 DEF Part
    <3> QED
      BY <3>1 DEF words
  <2>9. ASSUME NEW n \in Height, Part(hashes, ns, Height)[n] # Unheld
        PROVE  n <= Number[t] /\ Part(hashes, ns, Height)[n] = AtHeight(t, n)
    <3>1. n \in low /\ Part(hashes, ns, Height)[n] = hashes[n]
      BY <2>9 DEF Part
    <3> QED
      BY <3>1 DEF hashes, low
  <2> QED
    BY <2>2, <2>6, <2>7, <2>8, <2>9
<1> QED
  BY <1>1, <1>2

-----------------------------------------------------------------------------
(* The inductive invariant. *)

(* The snapshot names a block by number and hash, or no block at all; unless
   the node reverts, one that names none also names no block hash. *)
SnapshotNames ==
    /\ IsSnapshot(snapshot) /\ snapshot.stale \in BOOLEAN /\ snapshot.hash \in Hash
    /\ snapshot.hash # ZeroHash =>
          snapshot.block = Number[snapshot.hash] /\ Number[snapshot.hash] > 0
    /\ ~Reverts /\ snapshot.hash = ZeroHash => NoHashes(snapshot.hashes)

(* Its maps have the keys of the model. *)
SnapshotMaps ==
    /\ DOMAIN snapshot.accounts = Account /\ DOMAIN snapshot.storage = Slot
    /\ DOMAIN snapshot.hashes = Height

(* Between the swap and the update, the update at hand is of an older
   generation, and the one to be sent names what was swapped in. *)
Announcing ==
    /\ generation \in Nat /\ update.generation \in Nat
    /\ pc = "announce" =>
          /\ update.generation < generation
          /\ Landing = [block |-> snapshot.block, hash |-> snapshot.hash]

IInv ==
    /\ canon \in Block /\ pending \in Seq(Note)
    /\ pc \in {"recv", "flush", "announce", "emit"}
    /\ pc \in {"flush", "announce"} => handling \in Note
    /\ SnapshotNames /\ SnapshotMaps
    /\ UpdateFollows /\ Announcing

(* The empty snapshot satisfies the invariant. *)
LEMMA InitIInv == Init => IInv
<1> SUFFICES ASSUME Init PROVE IInv
  OBVIOUS
<1>1. IsSnapshot(EmptySnapshot) /\ NoHashes(EmptySnapshot.hashes)
  BY DEF IsSnapshot, EmptySnapshot, NoHashes
<1>2. SnapshotNames /\ SnapshotMaps
  BY <1>1 DEF Init, SnapshotNames, SnapshotMaps, EmptySnapshot, Hash
<1>3. pending \in Seq(Note)
  BY DEF Init
<1> QED
  BY <1>2, <1>3 DEF Init, IInv, UpdateFollows, Announcing, EmptySnapshot

(* A swap leaves the update behind, until SendUpdate. *)
LEMMA SwapAnnounces ==
  ASSUME IInv, generation' = generation + 1, pc' = "announce", UNCHANGED <<update, handling>>,
         Landing = [block |-> snapshot'.block, hash |-> snapshot'.hash]
  PROVE  UpdateFollows' /\ Announcing'
<1>1. Landing' = Landing
  BY DEF Landing, CommonAncestor
<1>2. generation \in Nat /\ update.generation \in Nat /\ update.generation <= generation
  BY DEF IInv, Announcing, UpdateFollows
<1> QED
  BY <1>1, <1>2 DEF UpdateFollows, Announcing

(* What a swap for a commit, a reorg or a revert leaves. *)
LEMMA CommitLands ==
  ASSUME IInv, NEW caches, ApplyCommit(caches)
  PROVE  /\ SnapshotNames' /\ SnapshotMaps' /\ UpdateFollows' /\ Announcing'
         /\ snapshot'.hash = Tip(handling.new) /\ snapshot'.stale = FALSE
         /\ pc' = "announce" /\ handling \in Note
         /\ UNCHANGED <<canon, pending, handling>>
<1> DEFINE e == Merged(snapshot, caches)
           seg == handling.new
<1>0. IsSnapshot(snapshot) /\ snapshot' = BuildCommitState(snapshot, caches, seg)
  BY DEF IInv, SnapshotNames, ApplyCommit, Swap
<1>1. MovedBy(seg, e, snapshot') /\ snapshot'.stale = FALSE
  <2> HIDE DEF seg
  <2>1. MovedBy(seg, Merged(snapshot, caches), BuildCommitState(snapshot, caches, seg))
    BY <1>0, CommitFields
  <2>2. BuildCommitState(snapshot, caches, seg).stale = FALSE
    BY <1>0, CommitFresh
  <2> QED
    BY <1>0, <2>1, <2>2
<1>2. handling \in Note /\ handling.kind = "commit"
  BY DEF IInv, ApplyCommit
<1>3. Tip(seg) \in Block /\ Number[Tip(seg)] > 0 /\ Tip(seg) # ZeroHash
  BY <1>2, CommitTip, ChainAssumption
<1>4. SnapshotNames'
  BY <1>1, <1>3 DEF SnapshotNames, MovedBy, Hash
<1>5. SnapshotMaps'
  BY <1>1 DEF SnapshotMaps, MovedBy, WithHashes
<1>6. generation' = generation + 1 /\ pc' = "announce"
      /\ UNCHANGED <<canon, pending, handling, update>>
  BY DEF ApplyCommit, Swap, env, outputs
<1>7. UpdateFollows' /\ Announcing'
  <2>1. Landing = [block |-> snapshot'.block, hash |-> snapshot'.hash]
    BY <1>1, <1>2 DEF Landing, MovedBy
  <2> QED
    BY <1>6, <2>1, SwapAnnounces
<1> QED
  BY <1>1, <1>2, <1>4, <1>5, <1>6, <1>7 DEF MovedBy

(* The same for a reorg. *)
LEMMA ReorgLands ==
  ASSUME IInv, ApplyReorg
  PROVE  /\ SnapshotNames' /\ SnapshotMaps' /\ UpdateFollows' /\ Announcing'
         /\ snapshot'.hash = Tip(handling.new) /\ snapshot'.stale = FALSE
         /\ pc' = "announce" /\ handling \in Note
         /\ UNCHANGED <<canon, pending, handling>>
<1> DEFINE e == CopyHistoryBefore(snapshot, CommonAncestor, EmptySnapshot)
           seg == handling.new
<1>1. handling \in Note /\ handling.kind = "reorg"
  BY DEF IInv, ApplyReorg
<1>2. CommonAncestor \in Nat
  BY <1>1, ReorgTip, AncestorIs
<1>0. IsSnapshot(snapshot) /\ snapshot' = BuildReorgState(snapshot, CommonAncestor, seg)
  BY DEF IInv, SnapshotNames, ApplyReorg, Swap
<1>3. MovedBy(seg, e, snapshot') /\ snapshot'.stale = FALSE
  BY <1>0, <1>2, ReorgFields
<1>4. Tip(seg) \in Block /\ Number[Tip(seg)] > 0 /\ Tip(seg) # ZeroHash
  BY <1>1, ReorgTip, ChainAssumption
<1>5. SnapshotNames'
  BY <1>3, <1>4 DEF SnapshotNames, MovedBy, Hash
<1>6. SnapshotMaps'
  BY <1>3 DEF SnapshotMaps, MovedBy, WithHashes
<1>7. generation' = generation + 1 /\ pc' = "announce"
      /\ UNCHANGED <<canon, pending, handling, update>>
  BY DEF ApplyReorg, Swap, env, outputs
<1>8. UpdateFollows' /\ Announcing'
  <2>1. Landing = [block |-> snapshot'.block, hash |-> snapshot'.hash]
    BY <1>1, <1>3 DEF Landing, MovedBy
  <2> QED
    BY <1>7, <2>1, SwapAnnounces
<1> QED
  BY <1>1, <1>3, <1>5, <1>6, <1>7, <1>8 DEF MovedBy

(* A revert leaves a stale snapshot that names no block, with all its code. *)
LEMMA RevertLands ==
  ASSUME IInv, ApplyRevert
  PROVE  /\ SnapshotNames' /\ SnapshotMaps' /\ UpdateFollows' /\ Announcing'
         /\ snapshot'.stale = TRUE /\ snapshot.code = snapshot'.code /\ Reverts
         /\ pc' = "announce" /\ handling \in Note
         /\ UNCHANGED <<canon, pending, handling>>
<1>1. handling \in Note /\ handling.kind = "revert"
  BY DEF IInv, ApplyRevert
<1>2. PICK o \in Block, f \in Block : f \in Ancestors[o] \ {o} /\ handling.old = Path(f, o)
  BY <1>1, AncestorFacts DEF Note, CommitOf, ReorgOf, RevertOf
<1>3. CommonAncestor \in Nat /\ Reverts
  BY <1>1, <1>2, AncestorIs DEF Note, CommitOf, ReorgOf, RevertOf
<1>4. snapshot' = BuildRevertState(snapshot, CommonAncestor) /\ generation' = generation + 1
      /\ pc' = "announce" /\ UNCHANGED <<canon, pending, handling, update>>
  BY DEF ApplyRevert, Swap, env, outputs
<1>5. /\ IsSnapshot(snapshot') /\ snapshot'.stale = TRUE /\ snapshot'.hash = ZeroHash
      /\ snapshot'.code = snapshot.code
  BY <1>3, <1>4, RevertFields DEF IInv, SnapshotNames
<1>6. SnapshotNames' /\ UpdateFollows' /\ Announcing'
  <2>1. snapshot'.block = CommonAncestor
    BY <1>4 DEF BuildRevertState, CopyHistoryBefore, EmptySnapshot
  <2>2. Landing = [block |-> snapshot'.block, hash |-> snapshot'.hash]
    BY <1>1, <1>5, <2>1 DEF Landing
  <2>3. UpdateFollows' /\ Announcing'
    BY <1>4, <2>2, SwapAnnounces
  <2> QED
    BY <1>3, <1>5, <2>3 DEF SnapshotNames, Hash
<1>7. SnapshotMaps'
  BY <1>4 DEF SnapshotMaps, BuildRevertState, CopyHistoryBefore, EmptySnapshot
<1> QED
  BY <1>1, <1>3, <1>4, <1>5, <1>6, <1>7

(* A refusal leaves the snapshot as it was, but stale. *)
LEMMA RefuseLands ==
  ASSUME IInv, Refuse
  PROVE  /\ SnapshotNames' /\ SnapshotMaps' /\ UpdateFollows' /\ Announcing'
         /\ snapshot' = MarkStale(snapshot) /\ snapshot'.stale = TRUE
         /\ snapshot'.code = snapshot.code
         /\ pc' = "recv" /\ UNCHANGED <<canon, pending, handling>>
<1>1. snapshot' = MarkStale(snapshot) /\ generation' = generation + 1 /\ pc = "flush"
      /\ pc' = "recv" /\ UNCHANGED <<canon, pending, handling, update>>
  BY DEF Refuse, Swap, env, outputs
<1>2. /\ IsSnapshot(snapshot') /\ snapshot'.stale = TRUE
      /\ snapshot'.block = snapshot.block /\ snapshot'.hash = snapshot.hash
      /\ snapshot'.accounts = snapshot.accounts /\ snapshot'.storage = snapshot.storage
      /\ snapshot'.hashes = snapshot.hashes /\ snapshot'.code = snapshot.code
  BY <1>1, StaleFields DEF IInv, SnapshotNames
<1>3. SnapshotNames' /\ SnapshotMaps'
  BY <1>2 DEF IInv, SnapshotNames, SnapshotMaps
<1>4. UpdateFollows' /\ Announcing'
  BY <1>1, <1>2 DEF IInv, UpdateFollows, Announcing
<1> QED
  BY <1>1, <1>2, <1>3, <1>4

(* The update that is sent names the snapshot in place. *)
LEMMA UpdateLands ==
  ASSUME IInv, SendUpdate
  PROVE  /\ UpdateFollows' /\ Announcing' /\ handling \in Note
         /\ update' = [block |-> snapshot.block, hash |-> snapshot.hash,
                       generation |-> generation]
         /\ UNCHANGED <<canon, notified, pending, handling, snapshot, generation, ready, sink>>
         /\ pc = "announce" /\ pc' = IF handling.kind = "revert" THEN "recv" ELSE "emit"
<1>1. /\ pc = "announce" /\ pc' = IF handling.kind = "revert" THEN "recv" ELSE "emit"
      /\ update' = [block |-> Landing.block, hash |-> Landing.hash, generation |-> generation]
      /\ UNCHANGED <<canon, notified, pending, handling, snapshot, generation, ready, sink>>
  BY DEF SendUpdate, env, state
<1>2. /\ Landing = [block |-> snapshot.block, hash |-> snapshot.hash]
      /\ handling \in Note /\ generation \in Nat
  BY <1>1 DEF IInv, Announcing
<1> QED
  BY <1>1, <1>2 DEF UpdateFollows, Announcing

(* The steps of the manager and its environment, whatever a flush hands over. *)
Steps ==
    \/ \E from, to \in Block : NodeCommits(from, to) \/ NodeReorgs(from, to)
    \/ \E to \in Block : NodeReverts(to)
    \/ Receive \/ (\E caches : ApplyCommit(caches))
    \/ ApplyReorg \/ Refuse \/ ApplyRevert
    \/ SendUpdate \/ EmitLogs \/ ReadLogs
    \/ UNCHANGED vars

LEMMA NextSteps == [Next]_vars => Steps
BY DEF Next, Manager, Steps

(* What does not touch the snapshot and the update keeps what is said of them. *)
LEMMA Undisturbed ==
  ASSUME IInv, UNCHANGED <<snapshot, generation, update>>,
         \/ UNCHANGED <<pc, handling>>
         \/ pc # "announce" /\ pc' # "announce"
  PROVE  SnapshotNames' /\ SnapshotMaps' /\ UpdateFollows' /\ Announcing'
<1>1. SnapshotNames' /\ SnapshotMaps'
  BY DEF IInv, SnapshotNames, SnapshotMaps
<1>2. CASE UNCHANGED <<pc, handling>>
  <2>1. Landing' = Landing
    BY <1>2 DEF Landing, CommonAncestor
  <2> QED
    BY <1>1, <1>2, <2>1 DEF IInv, UpdateFollows, Announcing
<1>3. CASE pc # "announce" /\ pc' # "announce"
  BY <1>1, <1>3 DEF IInv, UpdateFollows, Announcing
<1> QED
  BY <1>2, <1>3

(* Every step keeps the invariant. *)
LEMMA StepKeeps == IInv /\ Steps => IInv'
<1> SUFFICES ASSUME IInv, Steps PROVE IInv'
  OBVIOUS
<1>1. ASSUME NEW from \in Block, NEW to \in Block,
             NodeCommits(from, to) \/ NodeReorgs(from, to) \/ NodeReverts(to)
      PROVE  IInv'
  <2>1. canon' \in Block /\ pending' \in Seq(Note)
    BY <1>1, NodeSends DEF IInv
  <2>2. UNCHANGED <<pc, handling, snapshot, generation, update>>
    BY <1>1 DEF NodeCommits, NodeReorgs, NodeReverts, Deliver, state, outputs
  <2> QED
    BY <2>1, <2>2, Undisturbed DEF IInv
<1>2. CASE Receive
  <2>1. handling' \in Note /\ pending' \in Seq(Note) /\ pc' = "flush" /\ pc = "recv"
    BY <1>2 DEF Receive, IInv
  <2>2. UNCHANGED <<canon, snapshot, generation, update>>
    BY <1>2 DEF Receive, state, outputs
  <2> QED
    BY <2>1, <2>2, Undisturbed DEF IInv
<1>3. ASSUME NEW caches, ApplyCommit(caches) PROVE IInv'
  BY <1>3, CommitLands DEF IInv
<1>4. CASE ApplyReorg
  BY <1>4, ReorgLands DEF IInv
<1>5. CASE ApplyRevert
  BY <1>5, RevertLands DEF IInv
<1>6. CASE Refuse
  BY <1>6, RefuseLands DEF IInv
<1>7. CASE EmitLogs \/ ReadLogs
  <2>1. /\ UNCHANGED <<canon, pending, handling, snapshot, generation, update>>
        /\ \/ pc' = pc
           \/ pc = "emit" /\ pc' = "recv"
    BY <1>7 DEF EmitLogs, ReadLogs, env, state
  <2> QED
    BY <2>1, Undisturbed DEF IInv
<1>8. CASE SendUpdate
  BY <1>8, UpdateLands DEF IInv, SnapshotNames, SnapshotMaps
<1>9. CASE UNCHANGED vars
  BY <1>9, Undisturbed DEF vars, env, state, outputs, IInv
<1> QED
  BY <1>1, <1>2, <1>3, <1>4, <1>5, <1>6, <1>7, <1>8, <1>9 DEF Steps

LEMMA StepIInv == IInv /\ [Next]_vars => IInv'
BY NextSteps, StepKeeps

(* The invariant holds at every state of the manager, whatever the node does
   and the transport loses. *)
THEOREM Inductive == Spec => []IInv
BY InitIInv, StepIInv, PTL DEF Spec

(* Whatever is lost or abandoned, and whatever the flushes hand over, the watch
   channel never is ahead of the snapshot, names the block and the hash of the
   generation it names, and is behind only between the swap and the send of
   run_changeset_manager, or after a refusal, which sends nothing. *)
THEOREM UpdateNeverMisleads == Spec => []UpdateFollows
<1>1. IInv => UpdateFollows
  BY DEF IInv
<1> QED
  BY <1>1, Inductive, PTL

-----------------------------------------------------------------------------
(* What a step may do to the snapshot. *)

(* Only the four handlers swap it. *)
LEMMA Swaps ==
  ASSUME [Next]_vars, snapshot' # snapshot
  PROVE  \/ \E caches \in Flushed : ApplyCommit(caches)
         \/ ApplyReorg \/ ApplyRevert \/ Refuse
BY DEF Next, Manager, Receive, SendUpdate, EmitLogs, ReadLogs, NodeCommits, NodeReorgs, NodeReverts,
       Deliver, vars, env, state, outputs

(* No step forgets a code. *)
LEMMA StepCode ==
  ASSUME IInv, [Next]_vars PROVE snapshot.code \subseteq snapshot'.code
<1>1. CASE snapshot' = snapshot
  BY <1>1
<1>2. ASSUME NEW caches \in Flushed, ApplyCommit(caches)
      PROVE  snapshot.code \subseteq snapshot'.code
  <2>1. IsSnapshot(snapshot) /\ snapshot' = BuildCommitState(snapshot, caches, handling.new)
    BY <1>2 DEF IInv, SnapshotNames, ApplyCommit, Swap
  <2> DEFINE e == Merged(snapshot, caches)
  <2>2. e.code = snapshot.code \cup caches.code /\ MovedBy(handling.new, e, snapshot')
    BY <2>1, CommitFields
  <2> HIDE DEF e
  <2> QED
    BY <2>2 DEF MovedBy
<1>3. CASE ApplyReorg
  <2>1. IsSnapshot(snapshot)
        /\ snapshot' = BuildReorgState(snapshot, CommonAncestor, handling.new)
    BY <1>3 DEF IInv, SnapshotNames, ApplyReorg, Swap
  <2>2. CommonAncestor \in Nat
    BY <1>3, ReorgTip, AncestorIs DEF IInv, ApplyReorg
  <2> DEFINE e == CopyHistoryBefore(snapshot, CommonAncestor, EmptySnapshot)
  <2>3. e.code = snapshot.code /\ MovedBy(handling.new, e, snapshot')
    BY <2>1, <2>2, ReorgFields
  <2> HIDE DEF e
  <2> QED
    BY <2>3 DEF MovedBy
<1>4. CASE ApplyRevert
  BY <1>4, RevertLands
<1>5. CASE Refuse
  BY <1>5, RefuseLands
<1> QED
  BY <1>1, <1>2, <1>3, <1>4, <1>5, Swaps

(* No commit, reorg, revert or refusal forgets a code the snapshot holds:
   copy_history_before carries the whole code map into every rebuilt
   snapshot. *)
THEOREM CodeIsKept == Spec => CodeKept
<1>1. IInv /\ [Next]_vars => [snapshot.code \subseteq snapshot'.code]_snapshot
  BY StepCode
<1> QED
  BY <1>1, Inductive, PTL DEF Spec, CodeKept

(* A reorg leaves no entry at all. *)
LEMMA StepHeals ==
  ASSUME IInv, [Next]_vars, snapshot' # snapshot
  PROVE  snapshot'.stale \/ handling.kind # "reorg" \/ ExactState(snapshot')
<1>1. CASE ApplyReorg
  <2>1. IsSnapshot(snapshot)
        /\ snapshot' = BuildReorgState(snapshot, CommonAncestor, handling.new)
    BY <1>1 DEF IInv, SnapshotNames, ApplyReorg, Swap
  <2>2. CommonAncestor \in Nat
    BY <1>1, ReorgTip, AncestorIs DEF IInv, ApplyReorg
  <2> DEFINE e == CopyHistoryBefore(snapshot, CommonAncestor, EmptySnapshot)
  <2>3. NoEntries(e) /\ MovedBy(handling.new, e, snapshot')
    BY <2>1, <2>2, ReorgFields
  <2> HIDE DEF e
  <2>4. NoEntries(snapshot')
    BY <2>3, NothingStaysNothing
  <2> QED
    BY <2>4 DEF NoEntries, ExactState
<1>2. CASE (\E caches \in Flushed : ApplyCommit(caches)) \/ ApplyRevert
  BY <1>2 DEF ApplyCommit, ApplyRevert
<1>3. CASE Refuse
  BY <1>3, RefuseLands
<1> QED
  BY <1>1, <1>2, <1>3, Swaps

(* build_reorg_state starts from an empty snapshot: whatever was adopted
   wrongly across a gap, no account and no slot of it survives a reorg. *)
THEOREM ReorgsHeal == Spec => ReorgHeals
<1>1. IInv /\ [Next]_vars =>
        [snapshot'.stale \/ handling.kind # "reorg" \/ ExactState(snapshot')]_snapshot
  BY StepHeals
<1> QED
  BY <1>1, Inductive, PTL DEF Spec, ReorgHeals

-----------------------------------------------------------------------------
(* Steps between snapshots that can be read. *)

(* A commit applied to a snapshot that can be read leads on from its block. *)
LEMMA CommitConnects ==
  ASSUME IInv, NEW caches \in Flushed, ApplyCommit(caches), Readable(snapshot)
  PROVE  snapshot.hash \in Ancestors[snapshot'.hash]
<1>1. handling \in Note /\ handling.kind = "commit" /\ IsAcceptable(CommitVerdict)
  BY DEF IInv, ApplyCommit
<1>2. /\ snapshot.hash \in Block /\ snapshot.block = Number[snapshot.hash]
      /\ Number[snapshot.hash] > 0 /\ snapshot.stale = FALSE
  BY DEF IInv, SnapshotNames, Readable, Hash
<1>3. Leads(snapshot.hash, handling.new)
  BY <1>1, <1>2, AcceptedLeads
<1> QED
  BY <1>3, CommitLands DEF Leads

(* An applied reorg leaves the snapshot's block for one above the same common
   ancestor. *)
LEMMA ReorgConnects ==
  ASSUME IInv, ApplyReorg, snapshot.hash # ZeroHash
  PROVE  /\ snapshot.hash \in Blocks(handling.old)
         /\ AtHeight(snapshot.hash, CommonAncestor) \in Ancestors[snapshot'.hash]
<1>1. handling \in Note /\ handling.kind = "reorg" /\ IsAcceptable(ReorgVerdict)
  BY DEF IInv, ApplyReorg
<1>2. /\ snapshot.hash \in Block /\ snapshot.block = Number[snapshot.hash]
      /\ Number[snapshot.hash] > 0
  BY DEF IInv, SnapshotNames, Hash
<1>3. snapshot.hash \in Blocks(handling.old)
  BY <1>1, <1>2, AcceptedLeaves
<1>4. PICK f \in Block, o \in Block :
         /\ f \in Ancestors[Tip(handling.new)]
         /\ f \in Ancestors[o] \ {o} /\ handling.old = Path(f, o)
  BY <1>1, ReorgTip
<1>5. snapshot.hash \in Ancestors[o] \ Ancestors[f]
  BY <1>3, <1>4, PathFacts
<1>6. f \in Ancestors[snapshot.hash]
  BY <1>4, <1>5, AncestorFacts
<1>7. AtHeight(snapshot.hash, CommonAncestor) = f
  BY <1>2, <1>4, <1>6, AncestorIs, AtOwnHeight
<1> QED
  BY <1>3, <1>4, <1>7, ReorgLands

(* Whatever is lost, a snapshot that can be read is followed along the chain:
   validate_chain_committed and validate_chain_reorged accept nothing else. *)
THEOREM StepsAlwaysConnect == Spec => StepsConnect
<1> DEFINE Connects ==
        Readable(snapshot) /\ Readable(snapshot') =>
          CASE handling.kind = "commit" -> snapshot.hash \in Ancestors[snapshot'.hash]
            [] handling.kind = "reorg" ->
                  /\ snapshot.hash \in Blocks(handling.old)
                  /\ AtHeight(snapshot.hash, CommonAncestor) \in Ancestors[snapshot'.hash]
            [] OTHER -> FALSE
<1>1. ASSUME IInv, [Next]_vars, snapshot' # snapshot PROVE Connects
  <2>1. ASSUME NEW caches \in Flushed, ApplyCommit(caches) PROVE Connects
    BY <1>1, <2>1, CommitConnects DEF ApplyCommit
  <2>2. CASE ApplyReorg
    BY <1>1, <2>2, ReorgConnects DEF ApplyReorg, Readable
  <2>3. CASE ApplyRevert \/ Refuse
    BY <1>1, <2>3, RevertLands, RefuseLands DEF Readable
  <2> QED
    BY <1>1, <2>1, <2>2, <2>3, Swaps
<1>2. IInv /\ [Next]_vars => [Connects]_snapshot
  BY <1>1
<1> QED
  BY <1>2, Inductive, PTL DEF Spec, StepsConnect

-----------------------------------------------------------------------------
(* Truth is kept. *)

(* A commit on a snapshot that is not stale keeps it exact: what the flush
   handed over is true at the snapshot's block, and the segment carries it on. *)
LEMMA CommitKeeps ==
  ASSUME ~Reverts, ReadsAtTag, NobodyGone, IInv,
         NEW caches \in Flushed, ApplyCommit(caches), ~snapshot.stale,
         ExactState(snapshot), ExactHeader(snapshot)
  PROVE  ExactState(snapshot') /\ ExactHeader(snapshot')
<1> DEFINE e == Merged(snapshot, caches)
           h == snapshot.hash
           seg == handling.new
           t == Tip(seg)
<1>1. handling \in Note /\ handling.kind = "commit" /\ IsAcceptable(CommitVerdict)
  BY DEF IInv, ApplyCommit
<1>2. IsSnapshot(snapshot) /\ snapshot' = BuildCommitState(snapshot, caches, seg)
      /\ h \in Hash
  BY DEF IInv, SnapshotNames, ApplyCommit, Swap
<1>3. /\ MovedBy(seg, e, snapshot')
      /\ e.accounts = Extended(snapshot.accounts, caches.accounts, h)
      /\ e.storage = Extended(snapshot.storage, caches.storage, h)
      /\ e.hashes = Extended(snapshot.hashes, caches.hashes, h)
  BY <1>2, CommitFields
<1> HIDE DEF e
<1>4. PICK f \in Block : t \in Block /\ f \in Ancestors[t] \ {t} /\ seg = Path(f, t)
  BY <1>1, CommitTip
<1>5. t # ZeroHash
  BY <1>4, ChainAssumption
<1>6. ASSUME NEW a \in Account, NEW v, h \in Block => v = InfoAt(h, a),
             h = ZeroHash => v = Unheld, snapshot.accounts[a] \in {Unheld, v}
      PROVE  e.accounts[a] \in {Unheld, v}
  BY <1>2, <1>3, <1>6, FlushedFacts, ChainAssumption DEF Extended, IInv, SnapshotMaps
<1>7. ASSUME NEW k \in Slot, NEW v, h \in Block => v = WordAt(h, k),
             h = ZeroHash => v = Unheld, snapshot.storage[k] \in {Unheld, v}
      PROVE  e.storage[k] \in {Unheld, v}
  BY <1>2, <1>3, <1>7, FlushedFacts, ChainAssumption DEF Extended, IInv, SnapshotMaps
<1>8. CASE h = ZeroHash
  <2>1. NoEntries(e)
    BY <1>6, <1>7, <1>8, ChainAssumption DEF NoEntries, ExactState
  <2>2. NoEntries(snapshot')
    BY <1>3, <2>1, NothingStaysNothing
  <2>3. NoHashes(e.hashes)
    BY <1>2, <1>3, <1>8, FlushedFacts, ChainAssumption
       DEF NoHashes, Extended, IInv, SnapshotNames, SnapshotMaps
  <2>4. HashesAt(snapshot'.hashes, t)
    BY <1>3, <1>4, <2>3, HashesCarried DEF MovedBy
  <2> QED
    BY <1>3, <1>5, <2>2, <2>4 DEF NoEntries, ExactState, ExactHeader, HashesAt, MovedBy
<1>9. CASE h # ZeroHash
  <2>1. h \in Block /\ snapshot.block = Number[h] /\ Number[h] > 0 /\ snapshot.stale = FALSE
    BY <1>2, <1>9 DEF IInv, SnapshotNames, Hash
  <2>2. Leads(h, seg)
    BY <1>1, <2>1, AcceptedLeads
  <2>3. EntriesAt(e, h)
    BY <1>6, <1>7, <1>9 DEF EntriesAt, ExactState
  <2>4. EntriesAt(snapshot', t)
    BY <1>3, <1>4, <2>1, <2>2, <2>3, ExecutionIsExact
  <2>5. HashesAt(e.hashes, h)
    <3> SUFFICES ASSUME NEW n \in Height, e.hashes[n] # Unheld
                 PROVE  n <= Number[h] /\ e.hashes[n] = AtHeight(h, n)
      BY DEF HashesAt
    <3>1. CASE e.hashes[n] = snapshot.hashes[n]
      BY <1>9, <2>1, <3>1 DEF ExactHeader
    <3>2. CASE e.hashes[n] # snapshot.hashes[n]
      <4>1. n \in DOMAIN snapshot.hashes
        BY DEF IInv, SnapshotMaps
      <4>2. /\ caches.hashes.tag = h /\ caches.hashes.data[n] # Unheld
            /\ e.hashes[n] = caches.hashes.data[n]
        BY <1>3, <3>2, <4>1 DEF Extended
      <4> QED
        BY <1>2, <4>2, FlushedFacts
    <3> QED
      BY <3>1, <3>2
  <2>6. HashesAt(snapshot'.hashes, t)
    BY <1>3, <1>4, <2>2, <2>5, HashesCarried DEF MovedBy, Leads
  <2> QED
    BY <1>3, <1>5, <2>4, <2>6, AllLast
       DEF EntriesAt, ExactState, ExactHeader, HashesAt, MovedBy
<1> QED
  BY <1>8, <1>9

(* A reorg makes it exact: no entry survives, and the block hashes that do are
   those of the common ancestor. *)
LEMMA ReorgKeeps ==
  ASSUME ~Reverts, IInv, ApplyReorg, ExactHeader(snapshot)
  PROVE  ExactState(snapshot') /\ ExactHeader(snapshot')
<1> DEFINE e == CopyHistoryBefore(snapshot, CommonAncestor, EmptySnapshot)
           h == snapshot.hash
           seg == handling.new
           t == Tip(seg)
<1>1. handling \in Note /\ handling.kind = "reorg"
  BY DEF IInv, ApplyReorg
<1>2. IsSnapshot(snapshot) /\ snapshot' = BuildReorgState(snapshot, CommonAncestor, seg)
      /\ h \in Hash
  BY DEF IInv, SnapshotNames, ApplyReorg, Swap
<1>3. PICK f \in Block, o \in Block :
         /\ t \in Block /\ f \in Ancestors[t] \ {t} /\ seg = Path(f, t)
         /\ f \in Ancestors[o] \ {o} /\ handling.old = Path(f, o)
  BY <1>1, ReorgTip
<1>4. CommonAncestor = Number[f] /\ Number[f] \in Nat
  BY <1>3, AncestorIs
<1>5. /\ MovedBy(seg, e, snapshot') /\ NoEntries(e)
      /\ e.hashes = [m \in Height |-> IF m <= Number[f] THEN snapshot.hashes[m] ELSE Unheld]
  BY <1>2, <1>4, ReorgFields
<1> HIDE DEF e
<1>6. NoEntries(snapshot')
  BY <1>5, NothingStaysNothing
<1>7. NoHashes(e.hashes) \/ HashesAt(e.hashes, f)
  <2>1. CASE h = ZeroHash
    BY <1>5, <2>1 DEF NoHashes, IInv, SnapshotNames
  <2>2. CASE h # ZeroHash
    <3>1. h \in Block /\ h \in Blocks(handling.old)
      BY <1>2, <2>2, ReorgConnects DEF Hash
    <3>2. f \in Ancestors[h]
      <4>1. h \in Ancestors[o] \ Ancestors[f]
        BY <1>3, <3>1, PathFacts
      <4> QED
        BY <1>3, <3>1, <4>1, AncestorFacts
    <3>3. ASSUME NEW n \in Height, e.hashes[n] # Unheld
          PROVE  n <= Number[f] /\ e.hashes[n] = AtHeight(f, n)
      <4>1. n <= Number[f] /\ e.hashes[n] = snapshot.hashes[n]
        BY <1>5, <3>3
      <4>2. e.hashes[n] = AtHeight(h, n)
        BY <2>2, <3>3, <4>1 DEF ExactHeader
      <4>3. n \in 0..Number[f]
        BY <1>4, <4>1, ChainAssumption DEF Height
      <4> QED
        BY <3>1, <3>2, <4>1, <4>2, <4>3, SameBelow
    <3> QED
      BY <3>3 DEF HashesAt
  <2> QED
    BY <2>1, <2>2
<1>8. HashesAt(snapshot'.hashes, t)
  BY <1>3, <1>5, <1>7, HashesCarried DEF MovedBy
<1>9. t # ZeroHash
  BY <1>3, ChainAssumption
<1> QED
  BY <1>5, <1>6, <1>8, <1>9 DEF NoEntries, ExactState, ExactHeader, HashesAt, MovedBy

(* While the node never abandons blocks without naming others, every read is
   answered at the block it is tagged with, and no account is destroyed, no
   notification the manager accepts makes an exact snapshot wrong, whatever was
   lost before, but the commit adopted while stale. *)
THEOREM TruthStays == ASSUME ~Reverts, ReadsAtTag, NobodyGone PROVE Spec => TruthIsKept
<1> DEFINE Keeps ==
        ExactState(snapshot) /\ ExactHeader(snapshot) =>
          \/ ExactState(snapshot') /\ ExactHeader(snapshot')
          \/ Adopts
<1>1. ASSUME IInv, [Next]_vars, snapshot' # snapshot PROVE Keeps
  <2> SUFFICES ASSUME ExactState(snapshot), ExactHeader(snapshot), ~Adopts
               PROVE  ExactState(snapshot') /\ ExactHeader(snapshot')
    OBVIOUS
  <2>1. ASSUME NEW caches \in Flushed, ApplyCommit(caches)
        PROVE  ExactState(snapshot') /\ ExactHeader(snapshot')
    BY <1>1, <2>1, CommitKeeps DEF ApplyCommit, Adopts
  <2>2. CASE ApplyReorg
    BY <1>1, <2>2, ReorgKeeps
  <2>3. CASE ApplyRevert
    BY <1>1, <2>3, RevertLands
  <2>4. CASE Refuse
    <3>1. IsSnapshot(snapshot) /\ snapshot' = MarkStale(snapshot)
      BY <1>1, <2>4, RefuseLands DEF IInv, SnapshotNames
    <3>2. /\ snapshot'.block = snapshot.block /\ snapshot'.hash = snapshot.hash
          /\ snapshot'.header = snapshot.header /\ snapshot'.hashes = snapshot.hashes
          /\ snapshot'.accounts = snapshot.accounts /\ snapshot'.storage = snapshot.storage
      BY <3>1, StaleFields
    <3> QED
      BY <3>2 DEF ExactState, ExactHeader
  <2> QED
    BY <1>1, <2>1, <2>2, <2>3, <2>4, Swaps
<1>2. IInv /\ [Next]_vars => [Keeps]_snapshot
  BY <1>1
<1> QED
  BY <1>2, Inductive, PTL DEF Spec, TruthIsKept

-----------------------------------------------------------------------------
(* Types. *)

(* The fields of a snapshot that TypeOK speaks of. *)
Typed(s) ==
    /\ IsSnapshot(s)
    /\ s.block \in Height /\ s.hash \in Hash /\ s.header \in Block \cup {Unheld}
    /\ s.stale \in BOOLEAN
    /\ s.accounts \in [Account -> Block \cup {Gone, Unheld}]
    /\ s.storage \in [Slot -> Block \cup {Unheld}]
    /\ s.code \in SUBSET Code
    /\ s.hashes \in [Height -> Block \cup {Unheld}]

(* The same for the maps the segment is applied to. *)
MapsTyped(e) ==
    /\ e.accounts \in [Account -> Block \cup {Gone, Unheld}]
    /\ e.storage \in [Slot -> Block \cup {Unheld}]
    /\ e.code \in SUBSET Code
    /\ e.hashes \in [Height -> Block \cup {Unheld}]

(* The node answers with blocks, or that the account is gone. *)
LEMMA Answers ==
  ASSUME NEW b \in Block
  PROVE  /\ \A a \in Account : InfoAt(b, a) \in Block \cup {Gone}
         /\ \A k \in Slot : WordAt(b, k) \in Block
         /\ \A n \in Height : n <= Number[b] => AtHeight(b, n) \in Block
<1>1. ASSUME NEW n \in Height, n <= Number[b] PROVE AtHeight(b, n) \in Block
  <2>1. n \in 0..Number[b]
    BY <1>1, ChainAssumption DEF Height
  <2> QED
    BY <2>1, AtHeightIn, AncestorFacts
<1>2. \A a \in Account : InfoAt(b, a) \in Block \cup {Gone}
  BY Last DEF InfoAt, Entry
<1>3. \A k \in Slot : WordAt(b, k) \in Block
  BY Last DEF WordAt, Entry
<1> QED
  BY <1>1, <1>2, <1>3

(* So does everything a flush hands over. *)
LEMMA FlushedTypes ==
  ASSUME NEW caches \in Flushed
  PROVE  /\ \A a \in Account : caches.accounts.data[a] \in Block \cup {Gone, Unheld}
         /\ \A k \in Slot : caches.storage.data[k] \in Block \cup {Unheld}
         /\ \A n \in Height : caches.hashes.data[n] \in Block \cup {Unheld}
         /\ caches.code \in SUBSET Code
<1>1. CASE caches = NothingRead
  BY <1>1 DEF NothingRead
<1>2. CASE caches # NothingRead
  <2>1. PICK t \in Hash : \E b \in ReadAt[t] : caches \in CachesAt(t, b)
    BY <1>2 DEF Flushed
  <2>2. PICK b \in Block : caches \in CachesAt(t, b)
    BY <2>1, ChangesetAssumption
  <2> DEFINE low == {n \in Height : n <= Number[b]}
             infos == [a \in Account |-> InfoAt(b, a)]
             words == [k \in Slot |-> WordAt(b, k)]
             hashes == [n \in low |-> AtHeight(b, n)]
             Handed(as, ss, ns, cs) ==
                 [accounts |-> [tag |-> t, data |-> Part(infos, as, Account)],
                  storage |-> [tag |-> t, data |-> Part(words, ss, Slot)],
                  hashes |-> [tag |-> t, data |-> Part(hashes, ns, Height)],
                  code |-> cs]
  <2>3. CachesAt(t, b) =
           {Handed(as, ss, ns, cs) :
               as \in SUBSET Account, ss \in SUBSET Slot,
               ns \in {ns \in SUBSET DOMAIN hashes : Cardinality(ns) <= MaxHashReads},
               cs \in SUBSET Code}
    BY DEF CachesAt
  <2>4. DOMAIN hashes = low
    OBVIOUS
  <2>5. /\ \A a \in Account : infos[a] \in Block \cup {Gone}
        /\ \A k \in Slot : words[k] \in Block
        /\ \A n \in low : hashes[n] \in Block
    BY Answers
  <2> HIDE DEF Handed, low, infos, words, hashes
  <2>6. PICK as \in SUBSET Account, ss \in SUBSET Slot, ns \in SUBSET low, cs \in SUBSET Code :
           caches = Handed(as, ss, ns, cs)
    BY <2>2, <2>3, <2>4
  <2>7. /\ caches.accounts.data = Part(infos, as, Account)
        /\ caches.storage.data = Part(words, ss, Slot)
        /\ caches.hashes.data = Part(hashes, ns, Height)
        /\ caches.code = cs
    BY <2>6 DEF Handed
  <2>8. \A a \in Account : caches.accounts.data[a] \in Block \cup {Gone, Unheld}
    BY <2>5, <2>7 DEF Part
  <2>9. \A k \in Slot : caches.storage.data[k] \in Block \cup {Unheld}
    BY <2>5, <2>7 DEF Part
  <2>10. \A n \in Height : caches.hashes.data[n] \in Block \cup {Unheld}
    BY <2>5, <2>7 DEF Part
  <2> QED
    BY <2>7, <2>8, <2>9, <2>10
<1> QED
  BY <1>1, <1>2

(* A segment applied to typed maps gives a typed snapshot. *)
LEMMA MovedTypes ==
  ASSUME NEW e, NEW s, NEW t \in Block, NEW f \in Ancestors[t], f # t,
         MapsTyped(e), MovedBy(Path(f, t), e, s), s.stale \in BOOLEAN
  PROVE  Typed(s)
<1> DEFINE seg == Path(f, t)
<1>1. Tip(seg) = t /\ Blocks(seg) \subseteq Block
  BY PathEnds, PathFacts, AncestorFacts
<1> HIDE DEF seg
<1>2. MovedBy(seg, e, s)
  BY DEF seg
<1>3. s.block \in Height /\ s.hash \in Hash /\ s.header \in Block
  BY <1>1, <1>2 DEF MovedBy, Height, Hash
<1>4. s.accounts \in [Account -> Block \cup {Gone, Unheld}]
  BY <1>1, <1>2, Answers DEF MovedBy, MapsTyped
<1>5. s.storage \in [Slot -> Block \cup {Unheld}]
  BY <1>1, <1>2, Answers DEF MovedBy, MapsTyped
<1>6. s.code \in SUBSET Code
  BY <1>1, <1>2, ContentAssumption DEF MovedBy, MapsTyped, Contracts
<1>7. s.hashes \in [Height -> Block \cup {Unheld}]
  <2>1. \A n \in Height : WithHashes(e.hashes, seg)[n] \in Block \cup {Unheld}
    BY <1>1 DEF WithHashes, MapsTyped
  <2>2. s.hashes = [n \in Height |-> WithHashes(e.hashes, seg)[n]]
    BY <1>2 DEF MovedBy, WithHashes
  <2> QED
    BY <2>1, <2>2
<1> QED
  BY <1>2, <1>3, <1>4, <1>5, <1>6, <1>7 DEF Typed, MovedBy

(* The type invariant, with what the log sink and the waiting logs need. *)
TInv ==
    /\ Typed(snapshot)
    /\ notified \in 0..MaxNotified /\ Len(pending) <= MaxPending
    /\ handling.kind \in {"none", "commit", "reorg", "revert"}
    /\ update \in [block: Height, hash: Hash, generation: 0..generation]
    /\ ready \in BOOLEAN
    /\ sink \in Seq(Block) /\ Len(sink) <= SinkDepth
    /\ pc = "emit" => Tip(handling.new) \in Block

(* StateSnapshot::default() is typed. *)
LEMMA EmptyTyped == Typed(EmptySnapshot)
<1>1. Genesis \in Block /\ 0 = Number[Genesis]
  BY ChainAssumption
<1>2. 0 \in Height
  BY <1>1 DEF Height
<1> QED
  BY <1>2 DEF Typed, EmptySnapshot, IsSnapshot, Hash

(* The initial state is typed. *)
LEMMA InitTInv == Init => TInv
<1> SUFFICES ASSUME Init PROVE TInv
  OBVIOUS
<1>1. 0 \in Height /\ ZeroHash \in Hash
  BY EmptyTyped DEF Typed, EmptySnapshot
<1>2. update \in [block: Height, hash: Hash, generation: 0..generation]
  BY <1>1 DEF Init
<1>3. notified \in 0..MaxNotified /\ Len(pending) <= MaxPending
  BY ChangesetAssumption DEF Init
<1>4. sink \in Seq(Block) /\ Len(sink) <= SinkDepth
  BY ChangesetAssumption DEF Init
<1>5. handling.kind \in {"none", "commit", "reorg", "revert"}
  BY DEF Init, NoNotification
<1> QED
  BY <1>2, <1>3, <1>4, <1>5, EmptyTyped DEF Init, TInv

(* A swap leaves an update of an earlier generation. *)
LEMMA Outputs ==
  ASSUME IInv, TInv, generation' = generation + 1, UNCHANGED update
  PROVE  update' \in [block: Height, hash: Hash, generation: 0..generation']
BY DEF IInv, Announcing, TInv

(* The update that is sent is typed, and so are the logs that wait for it. *)
LEMMA UpdateTypes ==
  ASSUME IInv, TInv, SendUpdate
  PROVE  TInv'
<1>1. /\ handling \in Note /\ generation \in Nat
      /\ update' = [block |-> snapshot.block, hash |-> snapshot.hash, generation |-> generation]
      /\ UNCHANGED <<notified, pending, handling, snapshot, generation, ready, sink>>
      /\ pc' = IF handling.kind = "revert" THEN "recv" ELSE "emit"
  BY UpdateLands DEF IInv, Announcing
<1>2. update' \in [block: Height, hash: Hash, generation: 0..generation']
  BY <1>1 DEF TInv, Typed
<1>3. pc' = "emit" => Tip(handling.new) \in Block
  <2>1. handling.kind \in {"commit", "reorg", "revert"}
    BY <1>1 DEF Note, CommitOf, ReorgOf, RevertOf
  <2>2. handling.kind = "commit" => Tip(handling.new) \in Block
    BY <1>1, CommitTip
  <2>3. handling.kind = "reorg" => Tip(handling.new) \in Block
    BY <1>1, ReorgTip
  <2> QED
    BY <1>1, <2>1, <2>2, <2>3
<1> QED
  BY <1>1, <1>2, <1>3 DEF TInv

(* A commit keeps the types. *)
LEMMA CommitTypes ==
  ASSUME IInv, TInv, NEW caches \in Flushed, ApplyCommit(caches)
  PROVE  TInv'
<1> DEFINE e == Merged(snapshot, caches)
           seg == handling.new
<1>1. handling \in Note /\ handling.kind = "commit"
  BY DEF IInv, ApplyCommit
<1>2. PICK f \in Block : /\ Tip(seg) \in Block /\ f \in Ancestors[Tip(seg)] \ {Tip(seg)}
                         /\ seg = Path(f, Tip(seg))
  BY <1>1, CommitTip
<1>3. IsSnapshot(snapshot) /\ snapshot' = BuildCommitState(snapshot, caches, seg)
      /\ snapshot'.stale = FALSE
  BY CommitLands DEF IInv, SnapshotNames, ApplyCommit, Swap
<1>4. /\ MovedBy(seg, e, snapshot')
      /\ e.accounts = Extended(snapshot.accounts, caches.accounts, snapshot.hash)
      /\ e.storage = Extended(snapshot.storage, caches.storage, snapshot.hash)
      /\ e.hashes = Extended(snapshot.hashes, caches.hashes, snapshot.hash)
      /\ e.code = snapshot.code \cup caches.code
  BY <1>3, CommitFields
<1> HIDE DEF e
<1>5. MapsTyped(e)
  <2>1. e.accounts \in [Account -> Block \cup {Gone, Unheld}]
    BY <1>4, FlushedTypes DEF Extended, TInv, Typed
  <2>2. e.storage \in [Slot -> Block \cup {Unheld}]
    BY <1>4, FlushedTypes DEF Extended, TInv, Typed
  <2>3. e.hashes \in [Height -> Block \cup {Unheld}]
    BY <1>4, FlushedTypes DEF Extended, TInv, Typed
  <2>4. e.code \in SUBSET Code
    BY <1>4, FlushedTypes DEF TInv, Typed
  <2> QED
    BY <2>1, <2>2, <2>3, <2>4 DEF MapsTyped
<1>6. Typed(snapshot)'
  BY <1>2, <1>3, <1>4, <1>5, MovedTypes
<1>7. /\ generation' = generation + 1 /\ pc' = "announce"
      /\ UNCHANGED <<notified, pending, handling, update, ready, sink>>
  BY DEF ApplyCommit, Swap, env, outputs
<1> QED
  BY <1>6, <1>7, Outputs DEF TInv

(* A reorg keeps the types. *)
LEMMA ReorgTypes ==
  ASSUME IInv, TInv, ApplyReorg
  PROVE  TInv'
<1> DEFINE e == CopyHistoryBefore(snapshot, CommonAncestor, EmptySnapshot)
           seg == handling.new
<1>1. handling \in Note /\ handling.kind = "reorg"
  BY DEF IInv, ApplyReorg
<1>2. PICK f \in Block, o \in Block :
         /\ Tip(seg) \in Block /\ f \in Ancestors[Tip(seg)] \ {Tip(seg)}
         /\ seg = Path(f, Tip(seg))
         /\ f \in Ancestors[o] \ {o} /\ handling.old = Path(f, o)
  BY <1>1, ReorgTip
<1>3. IsSnapshot(snapshot) /\ snapshot' = BuildReorgState(snapshot, CommonAncestor, seg)
      /\ snapshot'.stale = FALSE
  BY ReorgLands DEF IInv, SnapshotNames, ApplyReorg, Swap
<1>4. CommonAncestor \in Nat
  BY <1>2, AncestorIs
<1>5. MovedBy(seg, e, snapshot')
  BY <1>3, <1>4, ReorgFields
<1>6. MapsTyped(e)
  BY DEF MapsTyped, CopyHistoryBefore, EmptySnapshot, TInv, Typed
<1> HIDE DEF e
<1>7. Typed(snapshot)'
  BY <1>2, <1>3, <1>5, <1>6, MovedTypes
<1>8. /\ generation' = generation + 1 /\ pc' = "announce"
      /\ UNCHANGED <<notified, pending, handling, update, ready, sink>>
  BY DEF ApplyReorg, Swap, env, outputs
<1> QED
  BY <1>7, <1>8, Outputs DEF TInv

(* A revert keeps the types. *)
LEMMA RevertTypes ==
  ASSUME IInv, TInv, ApplyRevert
  PROVE  TInv'
<1>1. handling \in Note /\ handling.kind = "revert"
  BY DEF IInv, ApplyRevert
<1>2. PICK o \in Block, f \in Block : f \in Ancestors[o] \ {o} /\ handling.old = Path(f, o)
  BY <1>1, AncestorFacts DEF Note, CommitOf, ReorgOf, RevertOf
<1>3. CommonAncestor \in Height /\ CommonAncestor \in Nat
  BY <1>2, AncestorIs DEF Height
<1>4. snapshot' = BuildRevertState(snapshot, CommonAncestor)
  BY DEF ApplyRevert, Swap
<1>5. Typed(snapshot)'
  <2>1. IsSnapshot(snapshot') /\ snapshot'.stale = TRUE /\ snapshot'.hash = ZeroHash
        /\ snapshot'.code = snapshot.code
    BY <1>3, <1>4, RevertFields DEF IInv, SnapshotNames
  <2>2. snapshot'.block = CommonAncestor /\ snapshot'.header = Unheld
    BY <1>4 DEF BuildRevertState, CopyHistoryBefore, EmptySnapshot
  <2>3. /\ snapshot'.accounts \in [Account -> Block \cup {Gone, Unheld}]
        /\ snapshot'.storage \in [Slot -> Block \cup {Unheld}]
    BY <1>4 DEF BuildRevertState, CopyHistoryBefore, EmptySnapshot
  <2>4. snapshot'.hashes = [n \in Height |-> IF n <= CommonAncestor THEN snapshot.hashes[n]
                                             ELSE Unheld]
    BY <1>4 DEF BuildRevertState, CopyHistoryBefore, EmptySnapshot
  <2>5. snapshot'.hashes \in [Height -> Block \cup {Unheld}]
    BY <2>4 DEF TInv, Typed
  <2> QED
    BY <1>3, <2>1, <2>2, <2>3, <2>5 DEF TInv, Typed, Hash
<1>6. /\ generation' = generation + 1 /\ pc' = "announce"
      /\ UNCHANGED <<notified, pending, handling, update, ready, sink>>
  BY DEF ApplyRevert, Swap, env, outputs
<1> QED
  BY <1>5, <1>6, Outputs DEF TInv

(* A refusal keeps the types. *)
LEMMA RefuseTypes ==
  ASSUME IInv, TInv, Refuse
  PROVE  TInv'
<1>1. /\ snapshot' = MarkStale(snapshot) /\ generation' = generation + 1
      /\ pc' = "recv" /\ UNCHANGED <<notified, pending, handling, update, ready, sink>>
  BY DEF Refuse, Swap, env, outputs
<1>2. Typed(snapshot)'
  BY <1>1, StaleFields DEF TInv, Typed
<1> QED
  BY <1>1, <1>2, Outputs DEF TInv

(* Every step keeps the types. *)
LEMMA StepTInv == IInv /\ TInv /\ [Next]_vars => TInv'
<1> SUFFICES ASSUME IInv, TInv, [Next]_vars PROVE TInv'
  OBVIOUS
<1>1. ASSUME NEW from \in Block, NEW to \in Block,
             NodeCommits(from, to) \/ NodeReorgs(from, to) \/ NodeReverts(to)
      PROVE  TInv'
  <2>1. \E n : Deliver(n)
    BY <1>1 DEF NodeCommits, NodeReorgs, NodeReverts
  <2>2. PICK n : Deliver(n)
    BY <2>1
  <2>3. notified' \in 0..MaxNotified /\ Len(pending') <= MaxPending
    BY <2>2, ChangesetAssumption DEF Deliver, IInv, TInv
  <2>4. UNCHANGED <<pc, handling, snapshot, generation, update, ready, sink>>
    BY <2>2 DEF Deliver, state, outputs
  <2> QED
    BY <2>3, <2>4 DEF TInv
<1>2. CASE Receive
  <2>1. /\ handling' = Head(pending) /\ pending' = Tail(pending) /\ pc' = "flush"
        /\ pending \in Seq(Note) /\ pending # <<>>
        /\ UNCHANGED <<notified, snapshot, generation, update, ready, sink>>
    BY <1>2 DEF Receive, IInv, state, outputs
  <2>2. handling' \in Note /\ Len(pending') <= MaxPending
    BY <2>1, ChangesetAssumption DEF TInv
  <2> QED
    BY <2>1, <2>2 DEF TInv, Note
<1>3. ASSUME NEW caches \in Flushed, ApplyCommit(caches) PROVE TInv'
  BY <1>3, CommitTypes
<1>4. CASE ApplyReorg
  BY <1>4, ReorgTypes
<1>5. CASE ApplyRevert
  BY <1>5, RevertTypes
<1>6. CASE Refuse
  BY <1>6, RefuseTypes
<1>7. CASE EmitLogs
  <2>1. /\ \/ sink' = Append(sink, Tip(handling.new)) /\ Len(sink) < SinkDepth
           \/ sink' = sink
        /\ Tip(handling.new) \in Block /\ sink \in Seq(Block) /\ Len(sink) <= SinkDepth
        /\ ready' = TRUE /\ pc' = "recv"
        /\ UNCHANGED <<notified, pending, handling, snapshot, generation, update>>
    BY <1>7 DEF EmitLogs, EmitsWithin, TInv, env, state
  <2>2. sink' \in Seq(Block) /\ Len(sink') <= SinkDepth
    BY <2>1, ChangesetAssumption
  <2> QED
    BY <2>1, <2>2 DEF TInv
<1>8. CASE ReadLogs
  <2>1. /\ sink' = Tail(sink) /\ sink # <<>>
        /\ UNCHANGED <<notified, pending, pc, handling, snapshot, generation, update, ready>>
    BY <1>8 DEF ReadLogs, env, state
  <2>2. sink' \in Seq(Block) /\ Len(sink') <= SinkDepth
    BY <2>1, ChangesetAssumption DEF TInv
  <2> QED
    BY <2>1, <2>2 DEF TInv
<1>9. CASE SendUpdate
  BY <1>9, UpdateTypes
<1>10. CASE UNCHANGED vars
  BY <1>10 DEF vars, env, state, outputs, TInv
<1> QED
  BY <1>1, <1>2, <1>3, <1>4, <1>5, <1>6, <1>7, <1>8, <1>9, <1>10 DEF Next, Manager

(* Type correctness of the manager's state and of what it publishes: among
   others the log sink never holds more than its capacity, and no update names
   a generation the state has not reached. *)
THEOREM TypeCorrect == Spec => []TypeOK
<1>1. IInv /\ TInv => TypeOK
  <2> SUFFICES ASSUME IInv, TInv PROVE TypeOK
    OBVIOUS
  <2>1. [snapshot EXCEPT !.receipts = <<>>, !.changed = <<>>] \in
          [block: Height, hash: Hash, header: Block \cup {Unheld}, stale: BOOLEAN,
           accounts: [Account -> Block \cup {Gone, Unheld}],
           storage: [Slot -> Block \cup {Unheld}], code: SUBSET Code,
           hashes: [Height -> Block \cup {Unheld}],
           receipts: {<<>>}, changed: {<<>>}]
    BY DEF TInv, Typed, IsSnapshot
  <2> QED
    BY <2>1 DEF TypeOK, IInv, TInv, Announcing, UpdateFollows
<1> QED
  BY <1>1, Inductive, InitTInv, StepTInv, PTL DEF Spec
=============================================================================
