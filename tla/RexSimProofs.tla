---------------------------- MODULE RexSimProofs ----------------------------
(***************************************************************************)
(* Proofs about RexSim, for any number of readers and every tree of        *)
(* blocks: what a reader, a cache and the snapshot may hold although the   *)
(* node is asked by number.  They build on the proofs about the two        *)
(* components.                                                             *)
(***************************************************************************)
EXTENDS RexSim, TransitionsProofs

FMP == INSTANCE FetchManagerProofs
        WITH Tag <- Hash, Absent <- Unheld, MaxFlushes <- MaxNotified,
             EpochGuarded <- TRUE, Tagged <- TRUE, pc <- suspended

CSP == INSTANCE FollowProofs
        WITH ReadAt <- [t \in Hash |-> {}], Lossy <- FALSE, Overlaps <- FALSE,
             Reverts <- FALSE, Logging <- [b \in Block |-> FALSE],
             SinkDepth <- 1, MaxHashReads <- 0

-----------------------------------------------------------------------------
(* The components are what their proofs are about. *)

(* What the fetch manager assumes of its parameters. *)
LEMMA FetchAssumed ==
    /\ ZeroHash \in Hash
    /\ NotFound \notin Value /\ Failed \notin Value /\ NotFound # Failed
    /\ Unheld \notin FMP!Response \cup FMP!Request
    /\ Permits \in Nat \ {0}
    /\ CompletionDepth \in Nat \ {0}
    /\ MaxNotified \in Nat
    /\ TRUE \in BOOLEAN /\ TRUE \in BOOLEAN
    /\ FMP!IsFiniteSet(Call)
BY RexSimAssumption DEF Hash, FMP!Response, FMP!Request, IsFiniteSet, FMP!IsFiniteSet

(* Its requests carry a tag and it guards by epoch: Tagged => EpochGuarded. *)
LEMMA GuardAssumed == TRUE => TRUE
OBVIOUS

(* What the changeset manager assumes of its own, and of the chain. *)
LEMMA ChangesetAssumed ==
    /\ [t \in Hash |-> {}] \in [CSP!Hash -> SUBSET Block]
    /\ {FALSE, FALSE, FALSE} \subseteq BOOLEAN
    /\ [b \in Block |-> FALSE] \in [Block -> BOOLEAN]
    /\ 1 \in Nat \ {0} /\ MaxPending \in Nat
    /\ MaxNotified \in Nat /\ 0 \in Nat
BY RexSimAssumption DEF CSP!Hash, Hash

(* And of what the blocks hold. *)
LEMMA ContentAssumed ==
    /\ Account \cap Slot = {}
    /\ Owner \in [Slot -> Account]
    /\ Touched \in [Block -> SUBSET CSP!Entry] /\ Touched[Genesis] = CSP!Entry
    /\ Destroyed \in [Block -> SUBSET Account]
    /\ \A b \in Block : Destroyed[b] \subseteq Touched[b]
    /\ Deployed \in [Block -> SUBSET Code]
    /\ Gone \notin Block /\ Unheld \notin Block \cup {Gone, ZeroHash}
BY ContentAssumption DEF CSP!Entry, Entry

(* The invariants of the two, as their modules prove them. *)
LEMMA FetchStarts == FMP!Init => FMP!IInv
BY FetchAssumed, GuardAssumed, FMP!InitInv

(* They hold, and each step keeps them. *)
LEMMA FetchKeeps == FMP!IInv /\ [FMP!Next]_FMP!vars => FMP!IInv'
BY FetchAssumed, GuardAssumed, FMP!StepInv

(* Whatever caches a flush hands over, the snapshot follows the node. *)
LEMMA ChangesetFollows == CSP!AnyFlush => []CSP!FollowInv
<1>1. ~FALSE
  OBVIOUS
<1> QED
  BY <1>1, ChainAssumption, ContentAssumed, DepthAssumption, ChangesetAssumed,
     CSP!FollowsWhateverIsFlushed, PTL

-----------------------------------------------------------------------------
(* Chain and Transitions are the same in the two instances of Changeset. *)

(* What a segment says. *)
LEMMA SameSegments ==
    /\ \A seg : /\ CS!Tip(seg) = Tip(seg)
                /\ CSP!Tip(seg) = Tip(seg)
    /\ \A seg : /\ CS!First(seg) = First(seg)
                /\ CSP!First(seg) = First(seg)
    /\ \A seg : /\ CS!Blocks(seg) = Blocks(seg)
                /\ CSP!Blocks(seg) = Blocks(seg)
    /\ \A b, n : /\ CS!AtHeight(b, n) = AtHeight(b, n)
                 /\ CSP!AtHeight(b, n) = AtHeight(b, n)
    /\ \A a, b : /\ CS!Path(a, b) = Path(a, b)
                 /\ CSP!Path(a, b) = Path(a, b)
    /\ \A b : /\ CS!Parent(b) = Parent(b)
              /\ CSP!Parent(b) = Parent(b)
    /\ \A b, a : /\ CS!InfoAt(b, a) = InfoAt(b, a)
                 /\ CSP!InfoAt(b, a) = InfoAt(b, a)
    /\ \A b, k : /\ CS!WordAt(b, k) = WordAt(b, k)
                 /\ CSP!WordAt(b, k) = WordAt(b, k)
BY DEF Tip, CS!Tip, CSP!Tip, First, CS!First, CSP!First, Blocks, CS!Blocks,
       CSP!Blocks, AtHeight, CS!AtHeight, CSP!AtHeight, Path, CS!Path,
       CSP!Path, Parent, CS!Parent, CSP!Parent, InfoAt, CS!InfoAt,
       CSP!InfoAt, WordAt, CS!WordAt, CSP!WordAt, LastTouch, CS!LastTouch,
       CSP!LastTouch, Touching, CS!Touching, CSP!Touching

(* The steps of the builders. *)
LEMMA SameSteps ==
    /\ \A s, c, h : /\ CS!MergeCaches(s, c, h) = MergeCaches(s, c, h)
                    /\ CSP!MergeCaches(s, c, h) = MergeCaches(s, c, h)
    /\ \A s, seg : /\ CS!ApplyExecutionChanges(s, seg) = ApplyExecutionChanges(s, seg)
                   /\ CSP!ApplyExecutionChanges(s, seg) = ApplyExecutionChanges(s, seg)
    /\ \A s, seg : /\ CS!ApplyBlockData(s, seg) = ApplyBlockData(s, seg)
                   /\ CSP!ApplyBlockData(s, seg) = ApplyBlockData(s, seg)
    /\ \A s, seg : /\ CS!MovedTo(s, seg) = MovedTo(s, seg)
                   /\ CSP!MovedTo(s, seg) = MovedTo(s, seg)
    /\ \A s, n, t : /\ CS!CopyHistoryBefore(s, n, t) = CopyHistoryBefore(s, n, t)
                    /\ CSP!CopyHistoryBefore(s, n, t) = CopyHistoryBefore(s, n, t)
    /\ /\ CS!EmptySnapshot = EmptySnapshot
       /\ CSP!EmptySnapshot = EmptySnapshot
<1>1. ASSUME NEW s, NEW c, NEW h
      PROVE  /\ CS!MergeCaches(s, c, h) = MergeCaches(s, c, h)
             /\ CSP!MergeCaches(s, c, h) = MergeCaches(s, c, h)
  BY DEF MergeCaches, CS!MergeCaches, CSP!MergeCaches, Extended, CS!Extended,
         CSP!Extended
<1>2. ASSUME NEW s, NEW seg
      PROVE  /\ CS!ApplyExecutionChanges(s, seg) = ApplyExecutionChanges(s, seg)
             /\ CSP!ApplyExecutionChanges(s, seg) = ApplyExecutionChanges(s, seg)
  BY DEF ApplyExecutionChanges, CS!ApplyExecutionChanges, CSP!ApplyExecutionChanges,
         ChangedAccounts, CS!ChangedAccounts, CSP!ChangedAccounts,
         ChangedSlots, CS!ChangedSlots, CSP!ChangedSlots, Contracts,
         CS!Contracts, CSP!Contracts, Blocks, CS!Blocks, CSP!Blocks, Tip,
         CS!Tip, CSP!Tip, InfoAt, CS!InfoAt, CSP!InfoAt, WordAt, CS!WordAt,
         CSP!WordAt, LastTouch, CS!LastTouch, CSP!LastTouch, Touching,
         CS!Touching, CSP!Touching
<1>3. ASSUME NEW s, NEW seg
      PROVE  /\ CS!ApplyBlockData(s, seg) = ApplyBlockData(s, seg)
             /\ CSP!ApplyBlockData(s, seg) = ApplyBlockData(s, seg)
  BY DEF ApplyBlockData, CS!ApplyBlockData, CSP!ApplyBlockData, Pushed, CS!Pushed,
         CSP!Pushed, WithHashes, CS!WithHashes, CSP!WithHashes, Height,
         CS!Height, CSP!Height, Blocks, CS!Blocks, CSP!Blocks, Tip, CS!Tip,
         CSP!Tip
<1>4. ASSUME NEW s, NEW seg
      PROVE  /\ CS!MovedTo(s, seg) = MovedTo(s, seg)
             /\ CSP!MovedTo(s, seg) = MovedTo(s, seg)
  BY DEF MovedTo, CS!MovedTo, CSP!MovedTo, Pushed, CS!Pushed, CSP!Pushed,
         ChangedAccounts, CS!ChangedAccounts, CSP!ChangedAccounts,
         ChangedSlots, CS!ChangedSlots, CSP!ChangedSlots, Blocks,
         CS!Blocks, CSP!Blocks, Tip, CS!Tip, CSP!Tip
<1>5. ASSUME NEW s, NEW n, NEW t
      PROVE  /\ CS!CopyHistoryBefore(s, n, t) = CopyHistoryBefore(s, n, t)
             /\ CSP!CopyHistoryBefore(s, n, t) = CopyHistoryBefore(s, n, t)
  BY DEF CopyHistoryBefore, CS!CopyHistoryBefore, CSP!CopyHistoryBefore,
         ReceiptsUpTo, CS!ReceiptsUpTo, CSP!ReceiptsUpTo, ChangedUpTo,
         CS!ChangedUpTo, CSP!ChangedUpTo, Kept, CS!Kept, CSP!Kept, Nth,
         CS!Nth, CSP!Nth, Cardinality, CS!Cardinality, CSP!Cardinality, Height,
         CS!Height, CSP!Height
<1>6. CS!EmptySnapshot = EmptySnapshot /\ CSP!EmptySnapshot = EmptySnapshot
  BY DEF EmptySnapshot, CS!EmptySnapshot, CSP!EmptySnapshot, Height, CS!Height,
         CSP!Height
<1> QED
  BY <1>1, <1>2, <1>3, <1>4, <1>5, <1>6

(* So what they build is the same. *)
LEMMA SameBuilders ==
    /\ \A s, c, seg : /\ CS!BuildCommitState(s, c, seg) = BuildCommitState(s, c, seg)
                      /\ CSP!BuildCommitState(s, c, seg) = BuildCommitState(s, c, seg)
    /\ \A s, n, seg : /\ CS!BuildReorgState(s, n, seg) = BuildReorgState(s, n, seg)
                      /\ CSP!BuildReorgState(s, n, seg) = BuildReorgState(s, n, seg)
BY SameSteps DEF BuildCommitState, CS!BuildCommitState, CSP!BuildCommitState, BuildReorgState,
       CS!BuildReorgState, CSP!BuildReorgState

(* And so is the verdict on a notification. *)
LEMMA SameVerdicts ==
    /\ CS!IsAcceptable(CS!CommitVerdict) <=> CSP!IsAcceptable(CSP!CommitVerdict)
    /\ CS!IsAcceptable(CS!ReorgVerdict) <=> CSP!IsAcceptable(CSP!ReorgVerdict)
    /\ CS!CommonAncestor = CSP!CommonAncestor
BY DEF CS!IsAcceptable, CSP!IsAcceptable, CS!CommitVerdict, CSP!CommitVerdict,
       CS!ReorgVerdict, CSP!ReorgVerdict, CS!ValidateChainCommitted,
       CSP!ValidateChainCommitted, CS!ValidateChainReorged,
       CSP!ValidateChainReorged, CS!IsInitial, CSP!IsInitial, CS!Contains,
       CSP!Contains, CS!ContinuesByNumber, CSP!ContinuesByNumber,
       CS!Continues, CSP!Continues, CS!OverlapsBelow, CSP!OverlapsBelow,
       CS!OverlapsCurrent, CSP!OverlapsCurrent, CS!Current, CSP!Current,
       CS!CommonAncestor, CSP!CommonAncestor, CS!First, CSP!First, CS!Tip,
       CSP!Tip, CS!Parent, CSP!Parent, CS!Blocks, CSP!Blocks

-----------------------------------------------------------------------------
(* The changeset manager's part. *)

(* RexSim starts where the changeset manager does. *)
LEMMA ChangesetStarts == Init => CSP!Init
BY DEF Init, CS!Init, CSP!Init, CS!NoNotification, CSP!NoNotification,
       EmptySnapshot, CS!EmptySnapshot, CSP!EmptySnapshot, Height, CS!Height, CSP!Height

(* Each step of RexSim is one of the changeset manager and its environment,
   with the cache its fetch manager handed over, or leaves them alone. *)
LEMMA ChangesetSteps == [Next]_vars => [CSP!Steps]_CSP!vars
<1> SUFFICES ASSUME [Next]_vars PROVE CSP!Steps \/ UNCHANGED CSP!vars
  OBVIOUS
<1>1. CASE UNCHANGED stateVars
  BY <1>1 DEF stateVars, CSP!vars, CSP!env, CSP!state, CSP!outputs
<1>2. CASE NodeMoves
  <2>1. PICK from \in Block, to \in Block :
              CS!NodeCommits(from, to) \/ CS!NodeReorgs(from, to)
    BY <1>2 DEF NodeMoves
  <2>2. CSP!NodeCommits(from, to) \/ CSP!NodeReorgs(from, to)
    BY <2>1 DEF CS!NodeCommits, CSP!NodeCommits, CS!NodeReorgs, CSP!NodeReorgs, CS!Deliver,
                CSP!Deliver, CS!Commit, CSP!Commit, CS!Reorg, CSP!Reorg, CS!Path,
                CSP!Path, CS!AtHeight, CSP!AtHeight, CS!state, CSP!state,
                CS!outputs, CSP!outputs
  <2> QED
    BY <2>2 DEF CSP!Steps
<1>3. CASE Receive
  BY <1>3 DEF Receive, CS!Receive, CSP!Steps, CSP!Receive, CS!state, CS!outputs,
       CSP!state, CSP!outputs
<1>4. CASE Apply
  <2>1. ASSUME CS!ApplyCommit(Caches) PROVE CSP!ApplyCommit(Caches)
    BY <2>1, SameVerdicts, SameBuilders, SameSegments
       DEF CS!ApplyCommit, CSP!ApplyCommit, CS!Swap, CSP!Swap, CS!env, CSP!env,
           CS!outputs, CSP!outputs
  <2>2. ASSUME CS!ApplyReorg PROVE CSP!ApplyReorg
    BY <2>2, SameVerdicts, SameBuilders, SameSegments
       DEF CS!ApplyReorg, CSP!ApplyReorg, CS!Swap, CSP!Swap, CS!env, CSP!env,
           CS!outputs, CSP!outputs
  <2> QED
    BY <1>4, <2>1, <2>2 DEF Apply, CSP!Steps
<1>5. CASE Publish
  <2>1. ASSUME CS!SendUpdate PROVE CSP!SendUpdate
    BY <2>1, SameVerdicts, SameSegments
       DEF CS!SendUpdate, CSP!SendUpdate, CS!Landing, CSP!Landing, CS!env, CSP!env,
           CS!state, CSP!state
  <2>2. ASSUME CS!EmitLogs PROVE CSP!EmitLogs
    BY <2>2, SameSegments
       DEF CS!EmitLogs, CSP!EmitLogs, CS!EmitsWithin, CSP!EmitsWithin, CS!HasLogs,
           CSP!HasLogs, CS!env, CSP!env, CS!state, CSP!state
  <2> QED
    BY <1>5, <2>1, <2>2 DEF Publish, CSP!Steps
<1> QED
  BY <1>1, <1>2, <1>3, <1>4, <1>5 DEF Next, Load, Ask, Task, FirstAnswer, NodeAnswers, Manager, vars

(* So the snapshot follows the node. *)
LEMMA AlwaysFollows == Spec => []CSP!FollowInv
<1>1. Init => CSP!Init
  BY ChangesetStarts
<1>2. [Next]_vars => [CSP!Steps]_CSP!vars
  BY ChangesetSteps
<1> QED
  BY <1>1, <1>2, ChangesetFollows, PTL DEF Spec, CSP!AnyFlush

(* What that says here, where the node sends no reverts: the notifications lead
   from the snapshot's block to the node's tip. *)
Walk(p) ==
    /\ snapshot.hash # ZeroHash => snapshot.hash = p
    /\ IF pc = "flush"
       THEN Leaves(p, handling) /\ Route(After(handling), pending, canon)
       ELSE Route(p, pending, canon)

Notification == [kind: {"commit", "reorg"}, old: Seq(Block), new: Seq(Block)]

Walks ==
    /\ canon \in Block /\ pending \in Seq(Notification)
    /\ pc = "flush" => handling \in Notification
    /\ IsSnapshot(snapshot) /\ snapshot.hash \in Hash
    /\ snapshot.hash # ZeroHash => snapshot.block = Number[snapshot.hash]
    /\ DOMAIN snapshot.accounts = Account /\ DOMAIN snapshot.storage = Slot
    /\ DOMAIN snapshot.hashes = Height
    /\ handling.kind \in {"none", "commit", "reorg", "revert"}
    /\ handling.kind = "none" => Len(pending) = notified
    /\ pc # "flush" =>
          /\ handling.kind \in {"commit", "reorg"} => snapshot.hash # ZeroHash
          /\ handling.kind = "revert" => snapshot.hash = ZeroHash /\ snapshot.stale
    /\ \E p \in Block : Walk(p)

(* The invariant of FollowProofs says it. *)
LEMMA FollowsIsWalks == CSP!FollowInv => Walks
<1> SUFFICES ASSUME CSP!FollowInv PROVE Walks
  OBVIOUS
<1>1. CSP!Note \subseteq Notification
  BY DEF CSP!Note, CSP!CommitOf, CSP!ReorgOf, CSP!RevertOf, Notification
<1>2. canon \in Block /\ pending \in Seq(CSP!Note) /\ (pc = "flush" => handling \in CSP!Note)
  BY DEF CSP!FollowInv, CSP!IInv
<1>3. /\ IsSnapshot(snapshot) /\ snapshot.hash \in Hash
      /\ snapshot.hash # ZeroHash => snapshot.block = Number[snapshot.hash]
      /\ DOMAIN snapshot.accounts = Account /\ DOMAIN snapshot.storage = Slot
      /\ DOMAIN snapshot.hashes = Height
  BY DEF CSP!FollowInv, CSP!IInv, CSP!SnapshotNames, CSP!SnapshotMaps, CSP!IsSnapshot,
         IsSnapshot, CSP!Hash, Hash, CSP!Height, Height
<1>4. /\ handling.kind \in {"none", "commit", "reorg", "revert"}
      /\ handling.kind = "none" => Len(pending) = notified
      /\ pc # "flush" =>
            /\ handling.kind \in {"commit", "reorg"} => snapshot.hash # ZeroHash
            /\ handling.kind = "revert" => snapshot.hash = ZeroHash /\ snapshot.stale
  BY DEF CSP!FollowInv, CSP!HandledLast
<1>5. \A n : CSP!After(n) = After(n)
  BY SameSegments DEF CSP!After, After
<1>6. \A p, n : CSP!Leaves(p, n) <=> Leaves(p, n)
  BY <1>5, SameSegments DEF CSP!Leaves, Leaves, CSP!Takes, Takes, CSP!Commit, Commit,
         CSP!Reorg, Reorg, CSP!Revert, Revert
<1>7. \A p, ns, q : CSP!Route(p, ns, q) <=> Route(p, ns, q)
  BY <1>5, <1>6 DEF CSP!Route, Route
<1>8. PICK p \in Block : CSP!Follows(p)
  BY DEF CSP!FollowInv
<1>9. Walk(p)
  BY <1>5, <1>6, <1>7, <1>8 DEF Walk, CSP!Follows, CSP!At
<1>10. pending \in Seq(Notification)
  BY <1>1, <1>2
<1> QED
  BY <1>1, <1>2, <1>3, <1>4, <1>9, <1>10 DEF Walks

-----------------------------------------------------------------------------
(* What the node answers. *)

(* The three kinds of keys. *)
LEMMA ValueIs ==
  ASSUME NEW b, NEW k \in Key
  PROVE  /\ k \in Account => ValueAt(b, k) = InfoAt(b, k) /\ k \notin Height /\ k \notin Slot
         /\ k \in Slot => ValueAt(b, k) = WordAt(b, k) /\ k \notin Height /\ k \notin Account
         /\ k \in Height => ValueAt(b, k) = AtHeight(b, k) /\ k \notin Entry
         /\ k \in Account \/ k \in Slot \/ k \in Height
BY RexSimAssumption, ContentAssumption DEF ValueAt, Key, Entry

(* Where the snapshot holds each kind. *)
LEMMA HeldIs ==
  ASSUME NEW k \in Key
  PROVE  /\ k \in Account => Held(k) = snapshot.accounts[k]
         /\ k \in Slot => Held(k) = snapshot.storage[k]
         /\ k \in Height => Held(k) = snapshot.hashes[k]
BY RexSimAssumption, ContentAssumption DEF Held, Key, Entry

(* A node that has a block answers with a value. *)
LEMMA ValueThere ==
  ASSUME NEW b \in Block, NEW k \in Key, k \in Height => k <= Number[b]
  PROVE  ValueAt(b, k) \in Block \cup {Gone}
<1>1. CASE k \in Account
  <2>1. LastTouch(b, k) \in Block
    BY <1>1, Last DEF Entry
  <2> QED
    BY <1>1, <2>1, ValueIs DEF InfoAt
<1>2. CASE k \in Slot
  <2>1. LastTouch(b, k) \in Block
    BY <1>2, Last DEF Entry
  <2> QED
    BY <1>2, <2>1, ValueIs DEF WordAt
<1>3. CASE k \in Height
  <2>1. k \in 0..Number[b]
    BY <1>3, ChainAssumption DEF Height
  <2> QED
    BY <1>3, <2>1, ValueIs, AtHeightIn, AncestorFacts
<1> QED
  BY <1>1, <1>2, <1>3, ValueIs

(* The block a value read at t for k depends on: t itself, or its ancestor at
   the height k. *)
Base(t, k) == IF k \in Height THEN AtHeight(t, k) ELSE t

(* What a reader may ask for: BLOCKHASH only below a block. *)
Askable(r) ==
    /\ r \in [key: kind.keys, tag: Hash]
    /\ r.key \in Height => r.tag # ZeroHash /\ r.key <= Number[r.tag]

(* It is an ancestor of the block asked at. *)
LEMMA BaseIn ==
  ASSUME NEW t \in Block, NEW k \in Key, k \in Height => k <= Number[t]
  PROVE  Base(t, k) \in Ancestors[t]
<1>1. CASE k \in Height
  <2>1. k \in 0..Number[t]
    BY <1>1, ChainAssumption DEF Height
  <2> QED
    BY <1>1, <2>1, AtHeightIn DEF Base
<1>2. CASE k \notin Height
  BY <1>2, ChainAssumption DEF Base
<1> QED
  BY <1>1, <1>2

(* What the three managers are asked for, and at which block. *)
LEMMA KindIs ==
  ASSUME kind \in Managers
  PROVE  /\ kind.keys \subseteq Key
         /\ kind.atKey => kind.keys = Height /\ kind = BlockHashSpec
         /\ ~kind.atKey => kind.keys \subseteq Entry
BY DEF Managers, AccountSpec, StorageSpec, BlockHashSpec, Key, Entry

(* Asked by number, the node answers what is true at the tag, unless its chain
   has left the block the value depends on. *)
LEMMA Answered ==
  ASSUME canon \in Block, kind \in Managers, NEW c, Askable(request[c]), Known(c)
  PROVE  /\ Latest(c) \in Block \cup {Gone}
         /\ \/ Latest(c) = TrueAt(request[c].tag, request[c].key)
            \/ /\ request[c].tag # ZeroHash
               /\ Base(request[c].tag, request[c].key) \notin Ancestors[canon]
<1> DEFINE k == request[c].key
           t == request[c].tag
           n == NumberAsked(c)
           b == AtHeight(canon, n)
<1>1. k \in Key /\ t \in Hash /\ k \in kind.keys
  BY KindIs DEF Askable
<1>2. Latest(c) = ValueAt(b, k) /\ n <= Number[canon]
  BY DEF Latest, Known
<1>3. CASE kind.atKey
  <2>1. k \in Height /\ n = k /\ t \in Block /\ k <= Number[t]
    BY <1>1, <1>3, KindIs DEF NumberAsked, Askable, Hash
  <2>2. k \in 0..Number[canon] /\ k \in 0..Number[t]
    BY <1>2, <2>1, ChainAssumption DEF Height
  <2>3. b \in Ancestors[canon] /\ Number[b] = k
    BY <2>1, <2>2, AtHeightIn
  <2>4. b \in Block /\ AtHeight(b, k) = b
    BY <2>3, AncestorFacts, AtOwnHeight, ChainAssumption
  <2>5. Latest(c) = b
    BY <1>1, <1>2, <2>1, <2>4, ValueIs
  <2>6. TrueAt(t, k) = AtHeight(t, k) /\ Base(t, k) = AtHeight(t, k) /\ t # ZeroHash
    BY <1>1, <2>1, ValueIs, ChainAssumption DEF TrueAt, Base
  <2>7. Number[AtHeight(t, k)] = k
    BY <2>1, <2>2, AtHeightIn
  <2>8. AtHeight(t, k) \in Ancestors[canon] => AtHeight(t, k) = b
    BY <2>3, <2>7, Unique
  <2> QED
    BY <2>4, <2>5, <2>6, <2>8
<1>4. CASE ~kind.atKey
  <2>1. k \in Entry /\ k \notin Height /\ n = HeightOf(t)
    BY <1>1, <1>4, KindIs, RexSimAssumption DEF NumberAsked
  <2>2. CASE t = ZeroHash
    <3>1. n = 0 /\ Genesis \in Ancestors[canon] /\ Number[Genesis] = 0
      BY <2>1, <2>2, ChainAssumption DEF HeightOf
    <3>2. b = Genesis
      BY <3>1, AtOwnHeight
    <3>3. Latest(c) = TrueAt(t, k)
      BY <1>2, <2>2, <3>2 DEF TrueAt
    <3>4. Latest(c) \in Block \cup {Gone}
      BY <1>1, <1>2, <2>1, <3>2, ValueThere, ChainAssumption
    <3> QED
      BY <3>3, <3>4
  <2>3. CASE t # ZeroHash
    <3>1. t \in Block /\ n = Number[t] /\ Base(t, k) = t /\ TrueAt(t, k) = ValueAt(t, k)
      BY <1>1, <2>1, <2>3 DEF Hash, HeightOf, Base, TrueAt
    <3>2. n \in 0..Number[canon]
      BY <1>2, <3>1, ChainAssumption
    <3>3. b \in Block
      BY <3>2, AtHeightIn, AncestorFacts
    <3>4. t \in Ancestors[canon] => b = t
      BY <3>1, AtOwnHeight
    <3>5. Latest(c) \in Block \cup {Gone}
      BY <1>1, <1>2, <2>1, <3>3, ValueThere
    <3> QED
      BY <1>2, <2>3, <3>1, <3>4, <3>5
  <2> QED
    BY <2>2, <2>3
<1> QED
  BY <1>3, <1>4

-----------------------------------------------------------------------------
(* The fetch manager's part. *)

(* The requests: each is the one its reader loaded, and the first of several
   answers is there only once the fetch runs. *)
Requests ==
    /\ kind \in Managers
    /\ loaded \in [Call -> [key: Key, tag: Hash] \cup {Unheld}]
    /\ partial \in [Call -> Block \cup {Gone, Unheld}]
    /\ \A c \in Call :
          /\ loaded[c] # Unheld => Askable(loaded[c])
          /\ request[c] # Unheld => request[c] = loaded[c]
          /\ partial[c] # Unheld => phase[c] \notin {"idle", "queued", "permit"}

(* A fetch that runs has a request. *)
LEMMA Asked ==
  ASSUME FMP!IInv, Requests, NEW c \in Call, phase[c] # "idle"
  PROVE  Askable(request[c]) /\ request[c] # Unheld
BY DEF FMP!IInv, FMP!OnePlace, FMP!AtRest, Requests

(* RexSim starts where the fetch manager does. *)
LEMMA FetchInit == Init => FMP!Init
BY DEF Init, FM!Init, FMP!Init, FM!EmptyCache, FMP!EmptyCache

(* Each step of RexSim is one of the fetch manager, its callers and its tasks,
   or leaves them alone. *)
LEMMA FetchSteps ==
  ASSUME FMP!IInv, Requests, canon \in Block, [Next]_vars
  PROVE  [FMP!Next]_FMP!vars
<1> SUFFICES FMP!Next \/ UNCHANGED FMP!vars
  OBVIOUS
<1>1. CASE UNCHANGED fetchVars
  BY <1>1 DEF fetchVars, FMP!vars, FMP!callVars, FMP!taskVars, FMP!cacheVars, FMP!flushVars
<1>2. CASE \E c \in Call : Ask(c)
  <2>1. PICK c \in Call : Ask(c)
    BY <1>2
  <2>2. loaded[c] \in FMP!Request
    BY <2>1 DEF Ask, Requests, FMP!Request
  <2>3. FMP!Send(c, loaded[c])
    BY <2>1 DEF Ask, FM!Send, FMP!Send, FM!cacheVars, FMP!cacheVars, FM!flushVars,
                FMP!flushVars
  <2> QED
    BY <2>2, <2>3 DEF FMP!Next
<1>3. CASE \E c \in Call : FM!TaskSends(c)
  <2>1. PICK c \in Call : FM!TaskSends(c)
    BY <1>3
  <2>2. FMP!TaskSends(c)
    BY <2>1 DEF FM!TaskSends, FMP!TaskSends, FM!callVars, FMP!callVars, FM!cacheVars,
                FMP!cacheVars, FM!flushVars, FMP!flushVars
  <2> QED
    BY <2>2 DEF FMP!Next, FMP!Task
<1>4. CASE \E c \in Call : NodeAnswers(c)
  <2>1. PICK c \in Call : NodeAnswers(c)
    BY <1>4
  <2>2. phase[c] = "rpc"
    BY <2>1 DEF NodeAnswers
  <2>3. \E resp \in FMP!Response : FM!RpcReturns(c, resp)
    <3>1. CASE ~Known(c)
      BY <2>1, <3>1 DEF NodeAnswers, FMP!Response
    <3>2. CASE Known(c)
      <4>1. Latest(c) \in Block \cup {Gone}
        BY <2>2, <3>2, Asked, Answered DEF Requests
      <4>2. Joined(c) \in FMP!Response
        BY <4>1 DEF Joined, Value, FMP!Response
      <4> QED
        BY <2>1, <3>2, <4>2 DEF NodeAnswers
    <3> QED
      BY <3>1, <3>2
  <2>4. PICK resp \in FMP!Response : FM!RpcReturns(c, resp)
    BY <2>3
  <2>5. FMP!RpcReturns(c, resp)
    BY <2>4 DEF FM!RpcReturns, FMP!RpcReturns, FM!callVars, FMP!callVars, FM!cacheVars,
                FMP!cacheVars, FM!flushVars, FMP!flushVars
  <2> QED
    BY <2>5 DEF FMP!Next, FMP!Task
<1>5. CASE Receive
  BY <1>5 DEF Receive, FM!AskFlush, FMP!Next, FMP!AskFlush, FM!callVars, FMP!callVars,
     FM!taskVars, FMP!taskVars, FM!cacheVars, FMP!cacheVars
<1>6. CASE FM!Manager
  <2> USE DEF FM!callVars, FMP!callVars, FM!taskVars, FMP!taskVars, FM!cacheVars,
              FMP!cacheVars, FM!flushVars, FMP!flushVars, FM!EmptyCache, FMP!EmptyCache
  <2>1. ASSUME NEW c \in Call, FM!TakesRequest(c) PROVE FMP!TakesRequest(c)
    BY <2>1 DEF FM!TakesRequest, FMP!TakesRequest, FM!Retag, FMP!Retag, FM!TagChanges,
                FMP!TagChanges, FM!Retained, FMP!Retained
  <2>2. ASSUME NEW c \in Call, FM!ApplyCompletion(c) PROVE FMP!ApplyCompletion(c)
    BY <2>2 DEF FM!ApplyCompletion, FMP!ApplyCompletion, FM!Stores, FMP!Stores,
                FM!MayStore, FMP!MayStore, FM!Respond, FMP!Respond
  <2>3. ASSUME NEW c \in Call, FM!ServeHit(c) PROVE FMP!ServeHit(c)
    BY <2>1, <2>3 DEF FM!ServeHit, FMP!ServeHit, FM!Retained, FMP!Retained,
                FM!TagChanges, FMP!TagChanges, FM!Respond, FMP!Respond
  <2>4. ASSUME NEW c \in Call, FM!TakeMiss(c) PROVE FMP!TakeMiss(c)
    BY <2>1, <2>4 DEF FM!TakeMiss, FMP!TakeMiss, FM!Retained, FMP!Retained,
                FM!TagChanges, FMP!TagChanges
  <2>5. ASSUME NEW c \in Call, FM!Spawn(c) PROVE FMP!Spawn(c)
    BY <2>5 DEF FM!Spawn, FMP!Spawn, FM!HoldingPermit, FMP!HoldingPermit,
                FM!Cardinality, FMP!Cardinality
  <2>6. ASSUME NEW c \in Call, FM!Complete(c) \/ FM!DrainOne(c)
        PROVE  FMP!Complete(c) \/ FMP!DrainOne(c)
    BY <2>2, <2>6 DEF FM!Complete, FMP!Complete, FM!DrainOne, FMP!DrainOne
  <2>7. ASSUME FM!BatchEnds \/ FM!BeginFlush \/ FM!HandOver
        PROVE  FMP!BatchEnds \/ FMP!BeginFlush \/ FMP!HandOver
    BY <2>7 DEF FM!BatchEnds, FMP!BatchEnds, FM!BeginFlush, FMP!BeginFlush, FM!HandOver,
                FMP!HandOver, FM!DrainOver, FMP!DrainOver
  <2> QED
    BY <1>6, <2>3, <2>4, <2>5, <2>6, <2>7 DEF FM!Manager, FMP!Manager, FMP!Next
<1> QED
  BY <1>1, <1>2, <1>3, <1>4, <1>5, <1>6
     DEF Next, Load, Task, FirstAnswer, NodeMoves, Apply, Publish, Manager, vars

(* What the manager does to a call: it takes its request, spawns its fetch under
   the epoch of the moment, or answers it. *)
Advances(c) ==
    \/ phase'[c] = phase[c] /\ issued'[c] = issued[c]
    \/ phase[c] = "queued" /\ phase'[c] \in {"permit", "answered"}
                           /\ issued'[c] = issued[c]
    \/ phase[c] = "permit" /\ phase'[c] = "rpc" /\ issued'[c] = epoch'
    \/ phase[c] = "sent" /\ phase'[c] = "answered" /\ issued'[c] = issued[c]

(* What it does to its cache: it keeps the result of a fetch of this epoch, or
   starts another epoch with nothing, for another tag or after a flush. *)
Keeps ==
    /\ epoch' = epoch /\ cacheHash' = cacheHash /\ handed' = handed
    /\ Flushed' => Flushed
    /\ \A k \in Key : \/ cache'[k] = cache[k]
                      \/ \E c \in Call : /\ phase[c] = "sent" /\ issued[c] = epoch
                                         /\ request[c].tag = cacheHash
                                         /\ request[c].key = k
                                         /\ result[c] \in Value /\ cache'[k] = result[c]

Restarts ==
    /\ epoch' = epoch + 1 /\ \A k \in Key : cache'[k] = Unheld
    /\ \/ handed' = handed /\ (Flushed' => Flushed)
       \/ handed' = [tag |-> cacheHash, data |-> cache] /\ ~Flushed

(* No step of the manager does anything else. *)
LEMMA ManagerDoes ==
  ASSUME FMP!IInv, FM!Manager
  PROVE  /\ UNCHANGED <<request, result>> /\ (Flushed => Flushed')
         /\ \A c \in Call : Advances(c)
         /\ Keeps \/ Restarts
<1>1. /\ phase \in [Call -> FMP!Phase] /\ issued \in [Call -> Nat]
      /\ fetchQ \in Seq(Call) /\ completionQ \in Seq(Call) /\ epoch \in Nat
      /\ cache \in [Key -> Value \cup {Unheld}]
      /\ suspended \in {"select", "batch", "permit", "drain"} /\ flush \in BOOLEAN
  BY DEF FMP!IInv, FMP!TypeOK, FMP!Cache
<1>2. ASSUME fetchQ # <<>> PROVE Head(fetchQ) \in Call /\ phase[Head(fetchQ)] = "queued"
  <2>1. 1 \in 1..Len(fetchQ) /\ Head(fetchQ) = fetchQ[1]
    BY <1>1, <1>2
  <2> QED
    BY <1>1, <2>1 DEF FMP!IInv, FMP!OnePlace, FMP!Holds
<1>3. ASSUME completionQ # <<>>
      PROVE  Head(completionQ) \in Call /\ phase[Head(completionQ)] = "sent"
  <2>1. 1 \in 1..Len(completionQ) /\ Head(completionQ) = completionQ[1]
    BY <1>1, <1>3
  <2> QED
    BY <1>1, <2>1 DEF FMP!IInv, FMP!OnePlace, FMP!Holds
<1> USE DEF FM!callVars, FM!taskVars, FM!cacheVars, FM!flushVars, Flushed
<1>4. ASSUME NEW c \in Call, FM!TakesRequest(c), handed' = handed, flush' = flush,
             suspended' \in {"batch", "permit"}
      PROVE  (Flushed => Flushed') /\ (Keeps \/ Restarts)
  <2>1. CASE FM!TagChanges(c)
    BY <1>4, <2>1 DEF FM!TakesRequest, FM!Retag, FM!Retained, FM!EmptyCache, Restarts
  <2>2. CASE ~FM!TagChanges(c)
    BY <1>4, <2>2 DEF FM!TakesRequest, FM!Retag, FM!Retained, Keeps
  <2> QED
    BY <2>1, <2>2
<1>5. ASSUME NEW c \in Call, FM!ServeHit(c) \/ FM!TakeMiss(c)
      PROVE  /\ UNCHANGED <<request, result>> /\ (Flushed => Flushed')
             /\ \A d \in Call : Advances(d)
             /\ Keeps \/ Restarts
  <2>1. FM!TakesRequest(c) /\ c = Head(fetchQ) /\ fetchQ # <<>>
    BY <1>5 DEF FM!ServeHit, FM!TakeMiss, FM!TakesRequest
  <2>2. phase[c] = "queued"
    BY <1>2, <2>1
  <2>3. /\ UNCHANGED <<request, result, issued>> /\ handed' = handed /\ flush' = flush
        /\ suspended' \in {"batch", "permit"} /\ cache' = FM!Retained(c)
        /\ \E p \in {"permit", "answered"} : phase' = [phase EXCEPT ![c] = p]
    BY <1>5 DEF FM!ServeHit, FM!TakeMiss, FM!TakesRequest
  <2>4. \A d \in Call : Advances(d)
    BY <1>1, <2>2, <2>3 DEF Advances
  <2> QED
    BY <1>4, <2>1, <2>3, <2>4
<1>6. ASSUME NEW c \in Call, FM!Spawn(c)
      PROVE  /\ UNCHANGED <<request, result>> /\ (Flushed => Flushed')
             /\ \A d \in Call : Advances(d)
             /\ Keeps
  <2>1. /\ UNCHANGED <<request, result>> /\ phase[c] = "permit"
        /\ phase' = [phase EXCEPT ![c] = "rpc"] /\ issued' = [issued EXCEPT ![c] = epoch]
        /\ UNCHANGED <<cacheHash, cache, epoch, handed, flush>>
        /\ suspended = "permit" /\ suspended' = "batch"
    BY <1>6 DEF FM!Spawn
  <2>2. \A d \in Call : Advances(d)
    BY <1>1, <2>1 DEF Advances
  <2> QED
    BY <2>1, <2>2 DEF Keeps
<1>7. ASSUME NEW c \in Call, FM!Complete(c) \/ FM!DrainOne(c)
      PROVE  /\ UNCHANGED <<request, result>> /\ (Flushed => Flushed')
             /\ \A d \in Call : Advances(d)
             /\ Keeps
  <2>1. FM!ApplyCompletion(c) /\ c = Head(completionQ) /\ completionQ # <<>>
    BY <1>7 DEF FM!Complete, FM!DrainOne, FM!ApplyCompletion
  <2>2. phase[c] = "sent"
    BY <1>3, <2>1
  <2>3. /\ UNCHANGED <<request, result, issued, suspended, cacheHash, epoch, handed, flush>>
        /\ phase' = [phase EXCEPT ![c] = "answered"]
        /\ cache' = IF result[c] \in Value /\ issued[c] = epoch
                    THEN [cache EXCEPT ![request[c].key] = result[c]]
                    ELSE cache
    BY <2>1 DEF FM!ApplyCompletion, FM!Stores, FM!MayStore
  <2>4. \A d \in Call : Advances(d)
    BY <1>1, <2>2, <2>3 DEF Advances
  <2>5. issued[c] = epoch => request[c].tag = cacheHash
    BY <2>2 DEF FMP!IInv, FMP!IssuedUnderTag, FMP!InFlight
  <2>6. ASSUME NEW k \in Key, cache'[k] # cache[k]
        PROVE  /\ result[c] \in Value /\ issued[c] = epoch
               /\ request[c].key = k /\ cache'[k] = result[c]
    BY <1>1, <2>3, <2>6
  <2>7. Keeps
    BY <2>2, <2>3, <2>5, <2>6 DEF Keeps
  <2> QED
    BY <2>3, <2>4, <2>7
<1>8. ASSUME FM!BatchEnds \/ FM!BeginFlush
      PROVE  /\ UNCHANGED <<request, result>> /\ (Flushed => Flushed')
             /\ \A d \in Call : Advances(d)
             /\ Keeps
  BY <1>8 DEF FM!BatchEnds, FM!BeginFlush, Advances, Keeps
<1>9. ASSUME FM!HandOver
      PROVE  /\ UNCHANGED <<request, result>> /\ (Flushed => Flushed')
             /\ \A d \in Call : Advances(d)
             /\ Restarts
  BY <1>9 DEF FM!HandOver, FM!EmptyCache, Advances, Restarts
<1> QED
  BY <1>5, <1>6, <1>7, <1>8, <1>9 DEF FM!Manager

-----------------------------------------------------------------------------
(* Where the node and the snapshot go. *)

(* The blocks the node is or was at. *)
Visited == Ancestors[canon] \cup left

(* Where the notifications the snapshot does not know of yet lead. *)
Coming == {After(pending[i]) : i \in 1..Len(pending)}
Ahead == Coming \cup (IF pc = "flush" THEN {After(handling)} ELSE {})

(* The node goes somewhere and says so. *)
LEMMA NodeDoes ==
  ASSUME Walks, NodeMoves
  PROVE  /\ UNCHANGED <<pc, handling, snapshot, fetchVars, kind, loaded, partial>>
         /\ canon' \in Block /\ left' = left \cup (Ancestors[canon] \ Ancestors[canon'])
         /\ \E n \in Notification : pending' = Append(pending, n) /\ After(n) = canon'
<1>1. PICK from \in Block, to \in Block : CS!NodeCommits(from, to) \/ CS!NodeReorgs(from, to)
  BY DEF NodeMoves
<1>2. /\ UNCHANGED <<pc, handling, snapshot>> /\ canon' = to
      /\ from \in Ancestors[to] /\ from # to
  <2>1. CASE CS!NodeCommits(from, to)
    BY <2>1 DEF CS!NodeCommits, CS!Deliver, CS!state
  <2>2. CASE CS!NodeReorgs(from, to)
    <3>1. from \in Ancestors[from]
      BY ChainAssumption
    <3> QED
      BY <2>2, <3>1 DEF CS!NodeReorgs, CS!Deliver, CS!state
  <2> QED
    BY <1>1, <2>1, <2>2
<1>3. Path(from, to) \in Seq(Block) /\ Tip(Path(from, to)) = to
  BY <1>2, PathFacts, PathEnds
<1>4. \E n \in Notification : pending' = Append(pending, n) /\ After(n) = to
  <2>1. CASE CS!NodeCommits(from, to)
    <3>1. pending' = Append(pending, Commit(Path(from, to)))
      BY <2>1, SameSegments DEF CS!NodeCommits, CS!Deliver, CS!Commit, Commit
    <3>2. Commit(Path(from, to)) \in Notification
      BY <1>3 DEF Commit, Notification
    <3>3. After(Commit(Path(from, to))) = to
      BY <1>3 DEF Commit, After
    <3> QED
      BY <3>1, <3>2, <3>3
  <2>2. CASE CS!NodeReorgs(from, to)
    <3>1. pending' = Append(pending, Reorg(Path(from, canon), Path(from, to)))
      BY <2>2, SameSegments DEF CS!NodeReorgs, CS!Deliver, CS!Reorg, Reorg
    <3>2. from \in Ancestors[canon]
      BY <2>2, ChainAssumption DEF CS!NodeReorgs
    <3>3. Path(from, canon) \in Seq(Block)
      BY <3>2, PathFacts DEF Walks
    <3>4. Reorg(Path(from, canon), Path(from, to)) \in Notification
      BY <1>3, <3>3 DEF Reorg, Notification
    <3>5. After(Reorg(Path(from, canon), Path(from, to))) = to
      BY <1>3 DEF Reorg, After
    <3> QED
      BY <3>1, <3>4, <3>5
  <2> QED
    BY <1>1, <2>1, <2>2
<1> QED
  BY <1>2, <1>4 DEF NodeMoves

(* The notification it sends leads to where it went. *)
LEMMA NodeGoesAhead ==
  ASSUME Walks, NodeMoves
  PROVE  /\ Ahead' = Ahead \cup {canon'} /\ Visited \subseteq Visited' /\ left \subseteq left'
         /\ canon' \in Visited'
<1>1. PICK n \in Notification : pending' = Append(pending, n) /\ After(n) = canon'
  BY NodeDoes
<1>2. pending \in Seq(Notification)
  BY DEF Walks
<1>3. /\ Len(pending') = Len(pending) + 1 /\ pending'[Len(pending) + 1] = n
      /\ \A i \in 1..Len(pending) : pending'[i] = pending[i]
      /\ Len(pending) \in Nat
  BY <1>1, <1>2
<1>4. Coming' = Coming \cup {canon'}
  BY <1>1, <1>3 DEF Coming
<1>5. Ahead' = Ahead \cup {canon'}
  BY <1>4, NodeDoes DEF Ahead
<1> QED
  BY <1>5, NodeDoes, ChainAssumption DEF Visited

(* Receiving a notification leaves all that where it is. *)
LEMMA ReceiveDoes ==
  ASSUME Walks, Receive
  PROVE  /\ pc = "recv" /\ pc' = "flush" /\ UNCHANGED <<canon, snapshot, ownVars>>
         /\ handling' = pending[1] /\ pending' = Tail(pending) /\ pending # <<>>
         /\ UNCHANGED <<request, phase, result, issued, cacheHash, cache, epoch, handed>>
         /\ ~Flushed' /\ Ahead' = Ahead
<1>1. /\ pc = "recv" /\ pc' = "flush" /\ UNCHANGED <<canon, snapshot, ownVars>>
      /\ handling' = pending[1] /\ pending' = Tail(pending) /\ pending # <<>>
  BY DEF Walks, Receive, CS!Receive, CS!state
<1>2. /\ UNCHANGED <<request, phase, result, issued, cacheHash, cache, epoch, handed>>
      /\ ~Flushed'
  BY DEF Receive, FM!AskFlush, FM!callVars, FM!taskVars, FM!cacheVars, Flushed
<1>3. pending \in Seq(Notification)
  BY DEF Walks
<1>4. /\ Len(pending) \in Nat \ {0} /\ Len(pending') = Len(pending) - 1
      /\ \A i \in 1..Len(pending') : pending'[i] = pending[i + 1]
  BY <1>1, <1>3
<1>5. Coming = Coming' \cup {After(pending[1])}
  <2>1. \A i \in 1..Len(pending) : i = 1 \/ (i - 1 \in 1..Len(pending') /\ i = (i - 1) + 1)
    BY <1>4
  <2>2. \A i \in 1..Len(pending') : i + 1 \in 1..Len(pending)
    BY <1>4
  <2>3. 1 \in 1..Len(pending)
    BY <1>4
  <2> QED
    BY <1>4, <2>1, <2>2, <2>3 DEF Coming
<1>6. After(handling)' = After(pending[1])
  BY <1>1 DEF After
<1> QED
  BY <1>1, <1>2, <1>5, <1>6 DEF Ahead

(* Applying one takes the snapshot to where it leads. *)
LEMMA ApplyDoes ==
  ASSUME Walks, Apply
  PROVE  /\ pc = "flush" /\ Flushed /\ pc' # "flush"
         /\ UNCHANGED <<canon, pending, handling, fetchVars, ownVars>>
         /\ \/ /\ handling.kind = "commit"
               /\ snapshot' = BuildCommitState(snapshot, Caches, handling.new)
            \/ /\ handling.kind = "reorg"
               /\ snapshot' = BuildReorgState(snapshot, CS!CommonAncestor, handling.new)
BY SameBuilders DEF Apply, CS!ApplyCommit, CS!ApplyReorg, CS!Swap, CS!env

(* What is published afterwards leaves the snapshot where it is. *)
LEMMA PublishDoes ==
  ASSUME Publish
  PROVE  /\ pc # "flush" /\ pc' # "flush"
         /\ UNCHANGED <<canon, notified, pending, handling, snapshot, fetchVars, ownVars>>
         /\ UNCHANGED <<Ahead, Visited>>
<1>1. /\ pc # "flush" /\ pc' # "flush"
      /\ UNCHANGED <<canon, notified, pending, handling, snapshot, fetchVars, ownVars>>
  BY DEF Publish, CS!SendUpdate, CS!EmitLogs, CS!env, CS!state
<1>2. left' = left
  BY <1>1 DEF ownVars
<1> QED
  BY <1>1, <1>2 DEF Ahead, Coming, Visited

(* copy_history_before keeps what is below the fork the reorg starts from. *)
LEMMA ReorgCuts ==
  ASSUME NEW p \in Block, Leaves(p, handling), handling.kind = "reorg"
  PROVE  \E f \in Ancestors[p] \cap Ancestors[After(handling)] :
             /\ f \in Block /\ CS!CommonAncestor = Number[f]
             /\ handling.new = Path(f, After(handling))
<1> DEFINE q == After(handling)
<1>1. PICK f \in (Ancestors[p] \cap Ancestors[q]) \ {p, q} :
             handling.old = Path(f, p) /\ handling.new = Path(f, q)
  BY LeavesFacts
<1>2. f \in Block /\ Number[f] \in Nat
  BY <1>1, AncestorFacts
<1>3. Number[First(handling.old)] = Number[f] + 1
  BY <1>1, PathEnds
<1>4. CS!CommonAncestor = Number[f]
  BY <1>2, <1>3, SameSegments DEF CS!CommonAncestor
<1> QED
  BY <1>1, <1>2, <1>4

(* It lands where its notification leads. *)
LEMMA ApplyLands ==
  ASSUME Walks, Apply
  PROVE  /\ snapshot'.hash = After(handling) /\ After(handling) \in Block
         /\ snapshot'.hash # ZeroHash
         /\ Ahead' = Coming /\ Ahead = Coming \cup {snapshot'.hash}
<1>1. PICK p \in Block : Leaves(p, handling)
  BY ApplyDoes DEF Walks, Walk
<1>2. After(handling) \in Block /\ After(handling) = Tip(handling.new)
  BY <1>1, ApplyDoes, LeavesFacts DEF Leaves
<1>3. IsSnapshot(snapshot)
  BY DEF Walks
<1>4. CASE snapshot' = BuildCommitState(snapshot, Caches, handling.new)
  <2> DEFINE t == BuildCommitState(snapshot, Caches, handling.new)
  <2>0. MovedBy(handling.new, Merged(snapshot, Caches), t)
    BY <1>3, CommitFields
  <2>1. snapshot'.hash = Tip(handling.new)
    BY <1>4, <2>0 DEF MovedBy
  <2> QED
    BY <1>2, <2>1, ApplyDoes, ChainAssumption DEF Ahead, Coming
<1>5. CASE /\ handling.kind = "reorg"
           /\ snapshot' = BuildReorgState(snapshot, CS!CommonAncestor, handling.new)
  <2>1. CS!CommonAncestor \in Nat
    BY <1>1, <1>5, ReorgCuts, ChainAssumption
  <2> DEFINE n == CS!CommonAncestor
             t == BuildReorgState(snapshot, n, handling.new)
  <2> HIDE DEF n
  <2>3. MovedBy(handling.new, CopyHistoryBefore(snapshot, n, EmptySnapshot), t)
    BY <1>3, <2>1, ReorgFields DEF n
  <2>2. snapshot'.hash = Tip(handling.new)
    BY <1>5, <2>3 DEF MovedBy, n
  <2> QED
    BY <1>2, <2>2, ApplyDoes, ChainAssumption DEF Ahead, Coming
<1> QED
  BY <1>4, <1>5, ApplyDoes

-----------------------------------------------------------------------------
(* What a reader is told. *)

(* Until the first notification is applied the snapshot is the empty one. *)
Early == snapshot.hash = ZeroHash => snapshot = EmptySnapshot

(* The snapshot and the tags of the requests are, and will be, at blocks the
   node is or was at. *)
Places ==
    /\ Ahead \subseteq Visited /\ snapshot.hash \in Visited \cup {ZeroHash}
    /\ \A c \in Call : loaded[c] # Unheld =>
          /\ loaded[c].tag \in Visited \cup {ZeroHash}
          /\ snapshot.hash = ZeroHash => loaded[c].tag = ZeroHash

(* An answer is right for its tag unless the node left the block. *)
RightUnlessLeft(c, v) ==
    v = TrueAt(request[c].tag, request[c].key) \/ request[c].tag \in left

Answers ==
    \A c \in Call :
        /\ partial[c] # Unheld => RightUnlessLeft(c, partial[c])
        /\ result[c] \in Value => RightUnlessLeft(c, result[c])

(* The inductive invariant behind RepliesRightUnlessLeft. *)
ReaderInv == FMP!IInv /\ Requests /\ Early /\ Places /\ Answers

(* A commit or a reorg leaves the empty snapshot for good. *)
LEMMA EarlyStep == ASSUME Walks, Early, [Next]_vars PROVE Early'
<1>1. CASE Apply
  BY <1>1, ApplyLands DEF Early
<1>2. CASE snapshot' = snapshot
  BY <1>2 DEF Early
<1> QED
  BY <1>1, <1>2, NodeDoes, ReceiveDoes, PublishDoes
     DEF Next, Load, Ask, Task, FirstAnswer, NodeAnswers, Manager, vars, stateVars

(* A request is the one loaded, and its first answer comes while the fetch runs. *)
LEMMA RequestsStep ==
  ASSUME FMP!IInv, Requests, Early, Walks, [Next]_vars
  PROVE  Requests'
<1>0. /\ phase \in [Call -> FMP!Phase] /\ request \in [Call -> FMP!Request \cup {Unheld}]
      /\ result \in [Call -> FMP!Response \cup {Unheld}]
  BY DEF FMP!IInv, FMP!TypeOK
<1>1. CASE UNCHANGED <<kind, loaded, partial, request, phase>>
  BY <1>1 DEF Requests, Askable
<1>2. ASSUME NEW c \in Call, NEW k \in Key, Load(c, k) PROVE Requests'
  <2> DEFINE r == [key |-> k, tag |-> snapshot.hash]
  <2>1. /\ loaded[c] = Unheld /\ k \in kind.keys /\ loaded' = [loaded EXCEPT ![c] = r]
        /\ k \in Height => k < snapshot.block
        /\ UNCHANGED <<kind, partial, request, phase>>
    BY <1>2 DEF Load, fetchVars
  <2>2. r \in [key: kind.keys, tag: Hash] /\ r \in [key: Key, tag: Hash]
    BY <2>1 DEF Walks
  <2>3. k \in Height => snapshot.hash # ZeroHash /\ k <= Number[snapshot.hash]
    <3>1. k \in Height => k \in Nat
      BY ChainAssumption DEF Height
    <3>2. k \in Height => snapshot.hash # ZeroHash
      BY <2>1, <3>1 DEF Early, EmptySnapshot
    <3>3. snapshot.hash # ZeroHash => snapshot.block = Number[snapshot.hash]
                                      /\ Number[snapshot.hash] \in Nat
      BY ChainAssumption DEF Walks, Hash
    <3> QED
      BY <2>1, <3>1, <3>2, <3>3
  <2>4. Askable(r)
    BY <2>2, <2>3 DEF Askable
  <2>5. request[c] = Unheld
    BY <2>1 DEF Requests
  <2> HIDE DEF r
  <2> QED
    BY <2>1, <2>2, <2>4, <2>5 DEF Requests, Askable
<1>3. ASSUME NEW c \in Call, Ask(c) PROVE Requests'
  <2>1. /\ loaded[c] # Unheld /\ phase[c] = "idle"
        /\ request' = [request EXCEPT ![c] = loaded[c]]
        /\ phase' = [phase EXCEPT ![c] = "queued"] /\ UNCHANGED <<kind, loaded, partial>>
    BY <1>3 DEF Ask, FM!Send, ownVars
  <2> QED
    BY <1>0, <2>1 DEF Requests, Askable
<1>4. ASSUME NEW c \in Call, FM!TaskSends(c) \/ NodeAnswers(c), UNCHANGED ownVars
      PROVE  Requests'
  <2>1. /\ UNCHANGED <<kind, loaded, partial, request>>
        /\ \E p \in {"sending", "sent"} : phase' = [phase EXCEPT ![c] = p]
    BY <1>4 DEF FM!TaskSends, NodeAnswers, FM!RpcReturns, ownVars, FM!callVars
  <2> QED
    BY <1>0, <2>1 DEF Requests, Askable
<1>5. ASSUME NEW c \in Call, FirstAnswer(c) PROVE Requests'
  <2>1. /\ partial' = [partial EXCEPT ![c] = Latest(c)] /\ phase[c] = "rpc" /\ Known(c)
        /\ UNCHANGED <<kind, loaded, request, phase>>
    BY <1>5 DEF FirstAnswer, fetchVars
  <2>2. Latest(c) \in Block \cup {Gone}
    BY <2>1, Asked, Answered DEF Requests, Walks
  <2> HIDE DEF Latest
  <2> QED
    BY <2>1, <2>2 DEF Requests, Askable
<1>6. ASSUME FM!Manager, UNCHANGED ownVars PROVE Requests'
  <2>1. request' = request /\ \A c \in Call : Advances(c)
    BY <1>6, ManagerDoes
  <2>2. UNCHANGED <<kind, loaded, partial>>
    BY <1>6 DEF ownVars
  <2>3. \A c \in Call : partial[c] # Unheld => phase'[c] \notin {"idle", "queued", "permit"}
    BY <2>1 DEF Requests, Advances
  <2> QED
    BY <2>1, <2>2, <2>3 DEF Requests, Askable
<1> QED
  BY <1>1, <1>2, <1>3, <1>4, <1>5, <1>6, NodeDoes, ReceiveDoes
     DEF Next, Task, NodeAnswers, Apply, Publish, Manager, vars, ownVars, fetchVars

(* A block once ahead or asked at was visited by the node. *)
LEMMA PlacesStep ==
  ASSUME FMP!IInv, Requests, Places, Walks, [Next]_vars
  PROVE  Places'
<1>1. CASE UNCHANGED <<stateVars, loaded, left>>
  BY <1>1 DEF Places, Ahead, Coming, Visited, stateVars, After
<1>2. ASSUME NEW c \in Call, NEW k \in Key, Load(c, k) PROVE Places'
  <2>1. /\ loaded' = [loaded EXCEPT ![c] = [key |-> k, tag |-> snapshot.hash]]
        /\ UNCHANGED <<snapshot, Ahead, Visited>>
    BY <1>2 DEF Load, stateVars, Ahead, Coming, Visited, After
  <2>2. loaded'[c].tag = snapshot.hash /\ \A d \in Call : d # c => loaded'[d] = loaded[d]
    BY <2>1 DEF Requests
  <2> QED
    BY <2>1, <2>2 DEF Places
<1>3. CASE NodeMoves
  BY <1>3, NodeDoes, NodeGoesAhead DEF Places
<1>4. CASE Receive
  BY <1>4, ReceiveDoes DEF Places, Visited, ownVars
<1>5. CASE Apply
  BY <1>5, ApplyDoes, ApplyLands DEF Places, Visited, ownVars
<1>6. CASE Publish
  BY <1>6, PublishDoes DEF Places, ownVars
<1> QED
  BY <1>1, <1>2, <1>3, <1>4, <1>5, <1>6
     DEF Next, Ask, Task, FirstAnswer, NodeAnswers, Manager, vars, ownVars

(* What the node answers now is right for the tag unless the node has left the
   block it names. *)
LEMMA AnsweredNow ==
  ASSUME Requests, Places, Walks, NEW c \in Call, Askable(request[c]),
         request[c] # Unheld, Known(c)
  PROVE  RightUnlessLeft(c, Latest(c))
<1> DEFINE k == request[c].key
           t == request[c].tag
<1>1. CASE Latest(c) = TrueAt(t, k)
  BY <1>1 DEF RightUnlessLeft
<1>2. CASE t # ZeroHash /\ Base(t, k) \notin Ancestors[canon]
  <2>1. t \in Block /\ k \in Key /\ (k \in Height => k <= Number[t])
    BY <1>2, KindIs DEF Askable, Hash, Requests
  <2>2. Base(t, k) \in Ancestors[t]
    BY <2>1, BaseIn
  <2>3. t \notin Ancestors[canon]
    BY <1>2, <2>2, AncestorFacts DEF Walks
  <2>4. t \in Visited
    BY <1>2 DEF Places, Requests
  <2> QED
    BY <2>3, <2>4 DEF Visited, RightUnlessLeft
<1> QED
  BY <1>1, <1>2, Answered DEF Requests, Walks

(* An answer that was right when given stays so until the node leaves the block. *)
LEMMA AnswersStep ==
  ASSUME FMP!IInv, Requests, Places, Answers, Walks, [Next]_vars
  PROVE  Answers'
<1>0. /\ phase \in [Call -> FMP!Phase] /\ request \in [Call -> FMP!Request \cup {Unheld}]
      /\ result \in [Call -> FMP!Response \cup {Unheld}]
  BY DEF FMP!IInv, FMP!TypeOK
<1>1. CASE UNCHANGED <<partial, request, result, left>>
  BY <1>1 DEF Answers, RightUnlessLeft
<1>2. ASSUME NEW c \in Call, Ask(c) PROVE Answers'
  <2>1. /\ phase[c] = "idle" /\ request' = [request EXCEPT ![c] = loaded[c]]
        /\ UNCHANGED <<partial, result, left>>
    BY <1>2 DEF Ask, FM!Send, ownVars
  <2>2. partial[c] = Unheld /\ result[c] = Unheld
    BY <2>1 DEF Requests, FMP!IInv, FMP!OnePlace, FMP!AtRest
  <2>3. Unheld \notin Value
    BY RexSimAssumption
  <2> QED
    BY <1>0, <2>1, <2>2, <2>3 DEF Answers, RightUnlessLeft
<1>3. ASSUME NEW c \in Call, FirstAnswer(c) PROVE Answers'
  <2>1. /\ partial' = [partial EXCEPT ![c] = Latest(c)] /\ phase[c] = "rpc" /\ Known(c)
        /\ UNCHANGED <<request, result, left>>
    BY <1>3 DEF FirstAnswer, fetchVars
  <2>2. RightUnlessLeft(c, Latest(c))
    BY <2>1, Asked, AnsweredNow
  <2> DEFINE v == Latest(c)
  <2> HIDE DEF v
  <2>3. partial' = [partial EXCEPT ![c] = v] /\ RightUnlessLeft(c, v)
    BY <2>1, <2>2 DEF v
  <2> QED
    BY <2>1, <2>3 DEF Answers, RightUnlessLeft, Requests
<1>4. ASSUME NEW c \in Call, NodeAnswers(c) PROVE Answers'
  <2>1. /\ phase[c] = "rpc" /\ UNCHANGED <<request, partial, left>>
        /\ \E resp : /\ result' = [result EXCEPT ![c] = resp]
                     /\ \/ resp = Failed
                        \/ resp = Joined(c) /\ Known(c) /\ (kind.joins => partial[c] # Unheld)
    BY <1>4 DEF NodeAnswers, FM!RpcReturns, FM!callVars, ownVars
  <2>2. PICK resp : /\ result' = [result EXCEPT ![c] = resp]
                    /\ \/ resp = Failed
                       \/ resp = Joined(c) /\ Known(c) /\ (kind.joins => partial[c] # Unheld)
    BY <2>1
  <2>3. resp \in Value => RightUnlessLeft(c, resp)
    <3>1. CASE resp = Failed
      BY <3>1, RexSimAssumption
    <3>2. CASE resp = Joined(c) /\ Known(c) /\ (kind.joins => partial[c] # Unheld)
      <4>1. RightUnlessLeft(c, Latest(c))
        BY <2>1, <3>2, Asked, AnsweredNow
      <4>2. CASE resp = Latest(c)
        BY <4>1, <4>2
      <4>3. CASE resp # Latest(c)
        <5>1. kind.joins /\ partial[c] # Latest(c) /\ RightUnlessLeft(c, partial[c])
          BY <3>2, <4>3 DEF Joined, Answers
        <5> QED
          BY <4>1, <5>1 DEF RightUnlessLeft
      <4> QED
        BY <4>2, <4>3
    <3> QED
      BY <2>2, <3>1, <3>2
  <2> QED
    BY <1>0, <2>1, <2>2, <2>3 DEF Answers, RightUnlessLeft
<1>5. ASSUME FM!Manager, UNCHANGED ownVars PROVE Answers'
  BY <1>1, <1>5, ManagerDoes DEF ownVars
<1>6. CASE NodeMoves
  <2>1. UNCHANGED <<partial, request, result>> /\ left \subseteq left'
    BY <1>6, NodeDoes, NodeGoesAhead DEF fetchVars
  <2> QED
    BY <2>1 DEF Answers, RightUnlessLeft
<1> QED
  BY <1>1, <1>2, <1>3, <1>4, <1>5, <1>6, ReceiveDoes
     DEF Next, Load, Task, FM!TaskSends, FM!callVars, Apply, Publish, Manager, vars, ownVars,
         fetchVars

(* All of that holds at the start. *)
LEMMA InitReader == Init => ReaderInv
<1> SUFFICES ASSUME Init PROVE ReaderInv
  OBVIOUS
<1>1. FMP!IInv
  BY FetchInit, FetchStarts
<1>2. /\ kind \in Managers /\ loaded = [c \in Call |-> Unheld]
      /\ partial = [c \in Call |-> Unheld]
      /\ request = [c \in Call |-> Unheld] /\ result = [c \in Call |-> Unheld]
  BY DEF Init, FM!Init
<1>3. pending = <<>> /\ pc = "recv" /\ snapshot = EmptySnapshot /\ snapshot.hash = ZeroHash
  BY SameSteps DEF Init, CS!Init, EmptySnapshot
<1>4. Requests
  BY <1>2 DEF Requests
<1>5. Early /\ Places
  BY <1>2, <1>3 DEF Early, Places, Ahead, Coming
<1>6. Answers
  BY <1>2, RexSimAssumption DEF Answers
<1> QED
  BY <1>1, <1>4, <1>5, <1>6 DEF ReaderInv

(* And is kept by every step. *)
LEMMA ReaderStep == ReaderInv /\ Walks /\ [Next]_vars => ReaderInv'
<1> SUFFICES ASSUME ReaderInv, Walks, [Next]_vars PROVE ReaderInv'
  OBVIOUS
<1>1. FMP!IInv'
  BY FetchSteps, FetchKeeps DEF ReaderInv, Walks
<1> QED
  BY <1>1, EarlyStep, RequestsStep, PlacesStep, AnswersStep DEF ReaderInv

(* basic_ref, storage_ref and block_hash_ref ask at blocks the node is or was at,
   and what the node answers by number is right there, unless it left the block. *)
THEOREM ReadersAreTold == Spec => [](ReaderInv /\ Walks)
<1>1. ReaderInv /\ Walks /\ Walks' /\ [Next]_vars => ReaderInv'
  BY ReaderStep
<1> QED
  BY <1>1, InitReader, AlwaysFollows, FollowsIsWalks, PTL DEF Spec

(* The fetch manager in place is FetchManager, asked at what the readers load,
   answered by number and flushed at each notification; the changeset manager is
   Changeset, whatever caches the flush hands over.  So what is proved of each
   holds here. *)
THEOREM ComponentsInPlace == Spec => FMP!Spec /\ CSP!AnyFlush
<1>1. ReaderInv /\ Walks /\ [Next]_vars => [FMP!Next]_FMP!vars
  BY FetchSteps DEF ReaderInv, Walks
<1>2. [Next]_vars => [CSP!Steps]_CSP!vars
  BY ChangesetSteps
<1>3. Init => FMP!Init /\ CSP!Init
  BY FetchInit, ChangesetStarts
<1> QED
  BY <1>1, <1>2, <1>3, ReadersAreTold, PTL DEF Spec, FMP!Spec, CSP!AnyFlush

(* A reader at a block the node never left gets the value at that block: its own
   fetch was answered from there, and so was the one that filled the cache it
   hit. *)
THEOREM RepliesAreRight == Spec => []RepliesRightUnlessLeft
<1>1. ReaderInv => RepliesRightUnlessLeft
  <2> SUFFICES ASSUME ReaderInv, NEW c \in Call, reply[c] \in Value
               PROVE  \/ reply[c] = TrueAt(request[c].tag, request[c].key)
                      \/ request[c].tag \in left
    BY DEF RepliesRightUnlessLeft
  <2>1. reply[c] # Unheld
    BY RexSimAssumption
  <2>2. \/ reply[c] = result[c]
        \/ FMP!Fetched(request[c].key, request[c].tag, reply[c])
    BY <2>1 DEF ReaderInv, FMP!IInv, FMP!AnswersOwnRequest
  <2>3. \E d \in Call : /\ result[d] = reply[c] /\ request[d].key = request[c].key
                        /\ request[d].tag = request[c].tag
    BY <2>2 DEF FMP!Fetched
  <2> QED
    BY <2>3 DEF ReaderInv, Answers, RightUnlessLeft
<1> QED
  BY <1>1, ReadersAreTold, PTL

-----------------------------------------------------------------------------
(* What is left behind. *)

(* The notifications end where the node is. *)
LEMMA WalkEnds ==
  ASSUME Walks
  PROVE  /\ Ahead \subseteq Block
         /\ pending # <<>> => canon = After(pending[Len(pending)]) /\ canon \in Coming
         /\ pending = <<>> /\ pc = "flush" => canon = After(handling)
         /\ pending = <<>> /\ pc # "flush" /\ snapshot.hash # ZeroHash => canon = snapshot.hash
<1>1. PICK p \in Block : Walk(p)
  BY DEF Walks
<1>2. pending \in Seq(Notification)
  BY DEF Walks
<1>3. \E q \in Block : Route(q, pending, canon)
  BY <1>1 DEF Walk, Leaves
<1>4. PICK q \in Block : Route(q, pending, canon)
  BY <1>3
<1>5. ASSUME NEW i \in 1..Len(pending) PROVE After(pending[i]) \in Block
  <2>1. pending # <<>> /\ Len(pending) \in Nat
    BY <1>2, <1>5
  <2>2. CASE i = 1
    BY <1>4, <2>1, <2>2 DEF Route, Leaves
  <2>3. CASE i # 1
    <3>1. i - 1 \in 1..(Len(pending) - 1) /\ (i - 1) + 1 = i
      BY <2>1, <2>3
    <3>2. Leaves(After(pending[i - 1]), pending[(i - 1) + 1])
      BY <1>4, <2>1, <3>1 DEF Route
    <3> QED
      BY <3>1, <3>2 DEF Leaves
  <2> QED
    BY <2>2, <2>3
<1>6. pending # <<>> => Len(pending) \in 1..Len(pending)
  BY <1>2
<1>7. pc = "flush" => After(handling) \in Block
  BY <1>1 DEF Walk, Leaves
<1>8. pending # <<>> => canon = After(pending[Len(pending)])
  BY <1>4 DEF Route
<1>9. /\ pending = <<>> /\ pc = "flush" => canon = After(handling)
      /\ pending = <<>> /\ pc # "flush" /\ snapshot.hash # ZeroHash => canon = snapshot.hash
  BY <1>1 DEF Walk, Route
<1> QED
  BY <1>5, <1>6, <1>7, <1>8, <1>9 DEF Ahead, Coming

(* What y abandons of x is in l. *)
Behind(x, y, l) == Ancestors[x] \ Ancestors[y] \subseteq l

(* The node has left whatever the notifications on their way abandon, of the
   snapshot's block or of one another's; outside of a flush the cache was handed
   over. *)
Order ==
    /\ pc # "flush" => Flushed
    /\ snapshot.hash # ZeroHash => \A C \in Ahead : Behind(snapshot.hash, C, left)
    /\ pc = "flush" => \A C \in Coming : Behind(After(handling), C, left)
    /\ \A i, j \in 1..Len(pending) :
          i < j => Behind(After(pending[i]), After(pending[j]), left)

(* The node says where it goes in the order it goes there. *)
LEMMA OrderStep ==
  ASSUME FMP!IInv, Order, Walks, [Next]_vars
  PROVE  Order'
<1>0. pending \in Seq(Notification)
  BY DEF Walks
<1>1. CASE UNCHANGED <<pc, handling, pending, snapshot, left>> /\ (Flushed => Flushed')
  BY <1>1 DEF Order, Ahead, Coming, Behind, After
<1>2. CASE NodeMoves
  <2>1. PICK n \in Notification : pending' = Append(pending, n) /\ After(n) = canon'
    BY <1>2, NodeDoes
  <2>2. /\ UNCHANGED <<pc, handling, snapshot>> /\ Flushed' = Flushed
        /\ left' = left \cup (Ancestors[canon] \ Ancestors[canon'])
    BY <1>2, NodeDoes DEF fetchVars, Flushed
  <2>3. Ahead' = Ahead \cup {canon'}
    BY <1>2, NodeGoesAhead
  <2>4. /\ Len(pending') = Len(pending) + 1 /\ pending'[Len(pending) + 1] = n
        /\ \A i \in 1..Len(pending) : pending'[i] = pending[i]
        /\ Len(pending) \in Nat
    BY <1>0, <2>1
  <2>5. \A x, y : Behind(x, y, left) => Behind(x, y, left')
    BY <2>2 DEF Behind
  <2>6. \A x : x = canon \/ Behind(x, canon, left) => Behind(x, canon', left')
    BY <2>2 DEF Behind
  <2>7. snapshot.hash # ZeroHash => snapshot.hash = canon \/ Behind(snapshot.hash, canon, left)
    BY WalkEnds DEF Order, Ahead
  <2>8. pc = "flush" => After(handling) = canon \/ Behind(After(handling), canon, left)
    BY WalkEnds DEF Order
  <2>9. ASSUME NEW i \in 1..Len(pending)
        PROVE  After(pending[i]) = canon \/ Behind(After(pending[i]), canon, left)
    <3>1. pending # <<>> /\ Len(pending) \in 1..Len(pending)
          /\ (i = Len(pending) \/ i < Len(pending))
      BY <1>0, <2>9
    <3> QED
      BY <3>1, WalkEnds DEF Order
  <2>10. pc' # "flush" => Flushed'
    BY <2>2 DEF Order
  <2>11. snapshot'.hash # ZeroHash => \A C \in Ahead' : Behind(snapshot'.hash, C, left')
    BY <2>2, <2>3, <2>5, <2>6, <2>7 DEF Order
  <2>12. pc' = "flush" => \A C \in Coming' : Behind(After(handling), C, left')
    <3> SUFFICES ASSUME pc' = "flush", NEW i \in 1..Len(pending')
                 PROVE  Behind(After(handling), After(pending'[i]), left')
      BY <2>2 DEF Coming, After
    <3>1. CASE i \in 1..Len(pending)
      <4>1. After(pending[i]) \in Coming
        BY <3>1 DEF Coming
      <4> QED
        BY <2>2, <2>4, <2>5, <3>1, <4>1 DEF Order
    <3>2. CASE i = Len(pending) + 1
      BY <2>1, <2>2, <2>4, <2>6, <2>8, <3>2
    <3> QED
      BY <2>4, <3>1, <3>2
  <2>13. ASSUME NEW i \in 1..Len(pending'), NEW j \in 1..Len(pending'), i < j
         PROVE  Behind(After(pending'[i]), After(pending'[j]), left')
    <3>1. i \in 1..Len(pending) /\ (j \in 1..Len(pending) \/ j = Len(pending) + 1)
      BY <2>4, <2>13
    <3>2. CASE j \in 1..Len(pending)
      BY <2>4, <2>5, <2>13, <3>1, <3>2 DEF Order
    <3>3. CASE j = Len(pending) + 1
      BY <2>1, <2>4, <2>6, <2>9, <3>1, <3>3
    <3> QED
      BY <3>1, <3>2, <3>3
  <2>14. After(handling)' = After(handling)
    BY <2>2 DEF After
  <2> QED
    BY <2>10, <2>11, <2>12, <2>13, <2>14 DEF Order, Behind, After
<1>3. CASE Receive
  <2>1. /\ pc' = "flush" /\ UNCHANGED <<snapshot, left>> /\ Ahead' = Ahead
        /\ handling' = pending[1] /\ pending' = Tail(pending) /\ pending # <<>>
    BY <1>3, ReceiveDoes DEF ownVars
  <2>2. /\ Len(pending) \in Nat \ {0} /\ Len(pending') = Len(pending) - 1
        /\ \A i \in 1..Len(pending') : pending'[i] = pending[i + 1]
    BY <1>0, <2>1
  <2>3. \A i \in 1..Len(pending') : i + 1 \in 1..Len(pending) /\ 1 < i + 1 /\ 1 \in 1..Len(pending)
    BY <2>2
  <2>4. \A i, j \in 1..Len(pending') : i < j => i + 1 < j + 1
    BY <2>2
  <2>5. \A i \in 1..Len(pending') : Behind(After(pending[1]), After(pending'[i]), left)
    BY <2>2, <2>3 DEF Order
  <2>6. \A i, j \in 1..Len(pending') :
           i < j => Behind(After(pending'[i]), After(pending'[j]), left)
    BY <2>2, <2>3, <2>4 DEF Order
  <2> QED
    BY <2>1, <2>5, <2>6 DEF Order, Behind, Coming, After
<1>4. CASE Apply
  <2>1. /\ pc = "flush" /\ pc' # "flush" /\ Flushed' = Flushed /\ Flushed
        /\ UNCHANGED <<pending, left>> /\ snapshot'.hash = After(handling)
        /\ Ahead' = Coming
    BY <1>4, ApplyDoes, ApplyLands DEF fetchVars, ownVars, Flushed
  <2> QED
    BY <2>1 DEF Order, Behind, After
<1>5. ASSUME FM!Manager PROVE Flushed => Flushed'
  BY <1>5, ManagerDoes
<1>6. CASE Publish
  BY <1>6, PublishDoes DEF Order, Behind, Coming, After, ownVars, fetchVars, Flushed
<1> QED
  BY <1>1, <1>2, <1>3, <1>4, <1>5, <1>6
     DEF Next, Load, Ask, FM!Send, FM!flushVars, Task, FM!TaskSends, FirstAnswer, NodeAnswers,
         FM!RpcReturns, Manager, vars, ownVars, stateVars, fetchVars, Flushed

-----------------------------------------------------------------------------
(* What an answer is worth once the node has moved. *)

(* Among the blocks S is one that the block a value depends on is not below: the
   node was, or will be known to have been, elsewhere. *)
Off(t, k, S) == t # ZeroHash /\ \E C \in S : Base(t, k) \notin Ancestors[C]

(* A value got for k at t is right, or the node had left by then. *)
Good(t, k, v, S) == v = TrueAt(t, k) \/ Off(t, k, S)

(* Where the node may have answered from since the last flush began: the blocks
   the notifications on their way lead to, and the snapshot's until the caches
   are handed over for the next. *)
Since ==
    Ahead \cup (IF pc = "flush" /\ Flushed THEN {} ELSE {snapshot.hash} \cap Block)

(* Knowing of more places excuses no less. *)
LEMMA GoodGrows ==
  ASSUME NEW t, NEW k, NEW v, NEW S, NEW T, S \subseteq T, Good(t, k, v, S)
  PROVE  Good(t, k, v, T)
BY DEF Good, Off

(* Nothing leaves Since but with the cache. *)
LEMMA SinceKept ==
  ASSUME FMP!IInv, Walks, Order, [Next]_vars
  PROVE  Since \subseteq Since' \/ (FM!Manager /\ UNCHANGED <<stateVars, ownVars>> /\ Restarts)
<1>1. CASE UNCHANGED stateVars /\ (Flushed' => Flushed)
  BY <1>1 DEF Since, Ahead, Coming, After, stateVars
<1>2. CASE NodeMoves
  <2>1. UNCHANGED <<pc, snapshot>> /\ Flushed' = Flushed
    BY <1>2, NodeDoes DEF fetchVars, Flushed
  <2> QED
    BY <1>2, <2>1, NodeGoesAhead DEF Since
<1>3. CASE Receive
  BY <1>3, ReceiveDoes DEF Since
<1>4. CASE Apply
  <2>1. /\ pc = "flush" /\ Flushed /\ pc' # "flush"
        /\ Ahead' = Coming /\ Ahead = Coming \cup {snapshot'.hash}
        /\ snapshot'.hash \in Block
    BY <1>4, ApplyDoes, ApplyLands
  <2> QED
    BY <2>1 DEF Since
<1>5. CASE Manager
  BY <1>1, <1>5, ManagerDoes DEF Manager, Keeps
<1>6. CASE Publish
  BY <1>6, PublishDoes DEF Since
<1> QED
  BY <1>1, <1>2, <1>3, <1>4, <1>5, <1>6
     DEF Next, Load, Ask, FM!Send, FM!flushVars, Task, FM!TaskSends, FirstAnswer, NodeAnswers,
         FM!RpcReturns, vars, ownVars, stateVars, fetchVars, Flushed

(* What the node answers now is good for now. *)
LEMMA GoodNow ==
  ASSUME Requests, Places, Walks, NEW c \in Call, Askable(request[c]),
         request[c] # Unheld, Known(c)
  PROVE  Good(request[c].tag, request[c].key, Latest(c), Since)
<1> DEFINE k == request[c].key
           t == request[c].tag
<1>1. CASE Latest(c) = TrueAt(t, k)
  BY <1>1 DEF Good
<1>2. CASE t # ZeroHash /\ Base(t, k) \notin Ancestors[canon]
  <2>1. snapshot.hash # ZeroHash
    BY <1>2 DEF Places, Requests
  <2>2. canon \in Since
    BY <2>1, WalkEnds DEF Since, Ahead, Walks
  <2> QED
    BY <1>2, <2>2 DEF Good, Off
<1> QED
  BY <1>1, <1>2, Answered DEF Requests, Walks

(* The fetches of this epoch brought, or will bring, what is good for now. *)
Fresh ==
    \A c \in Call : issued[c] = epoch =>
        /\ phase[c] = "rpc" /\ partial[c] # Unheld =>
              Good(request[c].tag, request[c].key, partial[c], Since)
        /\ phase[c] \in {"sending", "sent"} /\ result[c] \in Value =>
              Good(request[c].tag, request[c].key, result[c], Since)

(* And so is what the cache holds. *)
Caching ==
    \A k \in Key : cache[k] # Unheld => Good(cacheHash, k, cache[k], Since)

(* What was handed over for the snapshot's block is good for where the snapshot
   goes. *)
Handing ==
    pc = "flush" /\ Flushed /\ handed.tag = snapshot.hash /\ snapshot.hash # ZeroHash =>
        \A k \in Key : handed.data[k] # Unheld =>
            Good(handed.tag, k, handed.data[k], Ahead)

(* A fetch issued in this epoch was answered since the last flush began. *)
LEMMA FreshStep ==
  ASSUME FMP!IInv, Requests, Places, Order, Fresh, Walks, [Next]_vars
  PROVE  Fresh'
<1>1. /\ phase \in [Call -> FMP!Phase] /\ request \in [Call -> FMP!Request \cup {Unheld}]
      /\ result \in [Call -> FMP!Response \cup {Unheld}] /\ issued \in [Call -> Nat]
      /\ epoch \in Nat
  BY DEF FMP!IInv, FMP!TypeOK
<1> DEFINE OK(c, ph, p, r, S) ==
             /\ ph = "rpc" /\ p # Unheld => Good(request[c].tag, request[c].key, p, S)
             /\ ph \in {"sending", "sent"} /\ r \in Value =>
                   Good(request[c].tag, request[c].key, r, S)
<1>2. ASSUME Since \subseteq Since', NEW d \in Call, issued[d] = epoch
      PROVE  OK(d, phase[d], partial[d], result[d], Since')
  <2>1. /\ phase[d] = "rpc" /\ partial[d] # Unheld =>
              Good(request[d].tag, request[d].key, partial[d], Since')
    BY <1>2, GoodGrows DEF Fresh
  <2>2. /\ phase[d] \in {"sending", "sent"} /\ result[d] \in Value =>
              Good(request[d].tag, request[d].key, result[d], Since')
    BY <1>2, GoodGrows DEF Fresh
  <2> QED
    BY <2>1, <2>2
<1>3. ASSUME FM!Manager, UNCHANGED ownVars, Since \subseteq Since' \/ Restarts
      PROVE  Fresh'
  <2> SUFFICES ASSUME NEW c \in Call, issued'[c] = epoch'
               PROVE  OK(c, phase'[c], partial'[c], result'[c], Since')
    BY <1>3, ManagerDoes DEF Fresh
  <2>1. /\ Advances(c) /\ UNCHANGED <<request, result, partial>>
        /\ Keeps \/ Restarts
    BY <1>3, ManagerDoes DEF ownVars
  <2>2. CASE phase[c] = "permit"
    <3>1. partial[c] = Unheld /\ phase'[c] \in {"permit", "rpc"}
      BY <2>1, <2>2 DEF Requests, Advances
    <3> QED
      BY <2>1, <3>1
  <2>3. CASE phase[c] \notin {"permit", "rpc", "sending", "sent"}
    BY <2>1, <2>3 DEF Advances
  <2>4. CASE phase[c] \in {"rpc", "sending", "sent"}
    <3>1. issued'[c] = issued[c] /\ phase'[c] \in {phase[c], "answered"}
      BY <2>1, <2>4 DEF Advances
    <3>2. issued[c] <= epoch
      BY <2>4 DEF FMP!IInv, FMP!IssuedUnderTag, FMP!InFlight
    <3>3. ~Restarts /\ epoch' = epoch
      BY <1>1, <2>1, <3>1, <3>2 DEF Restarts, Keeps
    <3>4. OK(c, phase[c], partial[c], result[c], Since')
      BY <1>2, <1>3, <3>1, <3>3
    <3> QED
      BY <2>1, <3>1, <3>4
  <2> QED
    BY <2>2, <2>3, <2>4
<1>4. ASSUME UNCHANGED <<issued, epoch, result, partial, request, phase>>, Since \subseteq Since'
      PROVE  Fresh'
  BY <1>2, <1>4 DEF Fresh
<1>5. ASSUME NEW c \in Call, Ask(c), Since \subseteq Since' PROVE Fresh'
  <2>1. /\ phase' = [phase EXCEPT ![c] = "queued"]
        /\ request' = [request EXCEPT ![c] = loaded[c]]
        /\ UNCHANGED <<issued, epoch, result, partial>>
    BY <1>5 DEF Ask, FM!Send, FM!cacheVars, ownVars
  <2>2. phase'[c] = "queued"
        /\ \A d \in Call : d # c => phase'[d] = phase[d] /\ request'[d] = request[d]
    BY <1>1, <2>1
  <2> QED
    BY <1>2, <1>5, <2>1, <2>2 DEF Fresh
<1>6. ASSUME NEW c \in Call, FirstAnswer(c), Since \subseteq Since' PROVE Fresh'
  <2> DEFINE v == Latest(c)
  <2>1. /\ partial' = [partial EXCEPT ![c] = v] /\ phase[c] = "rpc" /\ Known(c)
        /\ UNCHANGED <<issued, epoch, result, request, phase>>
    BY <1>6 DEF FirstAnswer, fetchVars
  <2>2. Good(request[c].tag, request[c].key, v, Since)
    BY <2>1, Asked, GoodNow
  <2> HIDE DEF v
  <2>3. partial'[c] = v /\ \A d \in Call : d # c => partial'[d] = partial[d]
    BY <2>1 DEF Requests
  <2>4. Good(request[c].tag, request[c].key, v, Since')
    BY <1>6, <2>2, GoodGrows
  <2>5. \A d \in Call : issued[d] = epoch => OK(d, phase[d], partial[d], result[d], Since')
    BY <1>2, <1>6
  <2> QED
    BY <2>1, <2>3, <2>4, <2>5 DEF Fresh
<1>7. ASSUME NEW c \in Call, NodeAnswers(c), Since \subseteq Since' PROVE Fresh'
  <2>1. /\ phase[c] = "rpc" /\ phase' = [phase EXCEPT ![c] = "sending"]
        /\ UNCHANGED <<issued, epoch, request, partial>>
        /\ \E resp : /\ result' = [result EXCEPT ![c] = resp]
                     /\ \/ resp = Failed
                        \/ resp = Joined(c) /\ Known(c) /\ (kind.joins => partial[c] # Unheld)
    BY <1>7 DEF NodeAnswers, FM!RpcReturns, FM!callVars, FM!cacheVars, ownVars
  <2>2. PICK resp : /\ result' = [result EXCEPT ![c] = resp]
                    /\ \/ resp = Failed
                       \/ resp = Joined(c) /\ Known(c) /\ (kind.joins => partial[c] # Unheld)
    BY <2>1
  <2>3. ASSUME issued[c] = epoch, resp \in Value
        PROVE  Good(request[c].tag, request[c].key, resp, Since)
    <3>1. resp = Joined(c) /\ Known(c) /\ (kind.joins => partial[c] # Unheld)
      BY <2>2, <2>3, RexSimAssumption
    <3>2. Good(request[c].tag, request[c].key, Latest(c), Since)
      BY <2>1, <3>1, Asked, GoodNow
    <3>3. kind.joins => Good(request[c].tag, request[c].key, partial[c], Since)
      BY <2>1, <2>3, <3>1 DEF Fresh
    <3> QED
      BY <3>1, <3>2, <3>3 DEF Joined, Good
  <2>4. /\ phase'[c] = "sending" /\ result'[c] = resp
        /\ \A d \in Call : d # c => phase'[d] = phase[d] /\ result'[d] = result[d]
    BY <1>1, <2>1, <2>2
  <2>5. \A d \in Call : issued[d] = epoch => OK(d, phase[d], partial[d], result[d], Since')
    BY <1>2, <1>7
  <2>6. issued[c] = epoch /\ resp \in Value =>
           Good(request[c].tag, request[c].key, resp, Since')
    BY <1>7, <2>3, GoodGrows
  <2> QED
    BY <2>1, <2>4, <2>5, <2>6 DEF Fresh
<1>8. ASSUME NEW c \in Call, FM!TaskSends(c), UNCHANGED ownVars, Since \subseteq Since'
      PROVE  Fresh'
  <2>1. /\ phase[c] = "sending" /\ phase' = [phase EXCEPT ![c] = "sent"]
        /\ UNCHANGED <<issued, epoch, result, partial, request>>
    BY <1>8 DEF FM!TaskSends, FM!callVars, FM!cacheVars, ownVars
  <2>2. /\ phase'[c] = "sent" /\ \A d \in Call : d # c => phase'[d] = phase[d]
    BY <1>1, <2>1
  <2>3. \A d \in Call : issued[d] = epoch => OK(d, phase[d], partial[d], result[d], Since')
    BY <1>2, <1>8
  <2> QED
    BY <2>1, <2>2, <2>3 DEF Fresh
<1>9. CASE Since \subseteq Since'
  BY <1>3, <1>4, <1>5, <1>6, <1>7, <1>8, <1>9, NodeDoes, ReceiveDoes
     DEF Next, Load, Task, Apply, Publish, Manager, vars, ownVars, fetchVars
<1>10. CASE FM!Manager /\ UNCHANGED <<stateVars, ownVars>> /\ Restarts
  BY <1>3, <1>10
<1> QED
  BY <1>9, <1>10, SinceKept

(* The epoch guard keeps out what an earlier epoch brought. *)
LEMMA CachingStep ==
  ASSUME FMP!IInv, Order, Fresh, Caching, Walks, [Next]_vars
  PROVE  Caching'
<1> SUFFICES ASSUME NEW k \in Key, cache'[k] # Unheld
             PROVE  Good(cacheHash', k, cache'[k], Since')
  BY DEF Caching
<1>1. ASSUME Since \subseteq Since', cacheHash' = cacheHash, cache'[k] = cache[k]
      PROVE  Good(cacheHash', k, cache'[k], Since')
  <2>1. Good(cacheHash, k, cache[k], Since)
    BY <1>1 DEF Caching
  <2>2. Good(cacheHash, k, cache[k], Since')
    BY <1>1, <2>1, GoodGrows
  <2> QED
    BY <1>1, <2>2
<1>2. ASSUME FM!Manager, Since \subseteq Since' \/ Restarts
      PROVE  Good(cacheHash', k, cache'[k], Since')
  <2>1. CASE Restarts
    BY <2>1 DEF Restarts
  <2>2. CASE ~Restarts
    <3>1. Keeps /\ Since \subseteq Since'
      BY <1>2, <2>2, ManagerDoes
    <3>2. CASE cache'[k] = cache[k]
      BY <1>1, <3>1, <3>2 DEF Keeps
    <3>3. CASE cache'[k] # cache[k]
      <4>1. PICK c \in Call : /\ phase[c] = "sent" /\ issued[c] = epoch
                              /\ request[c].tag = cacheHash /\ request[c].key = k
                              /\ result[c] \in Value /\ cache'[k] = result[c]
        BY <3>1, <3>3 DEF Keeps
      <4>2. Good(cacheHash, k, cache'[k], Since)
        BY <4>1 DEF Fresh
      <4>3. Good(cacheHash, k, cache'[k], Since')
        BY <3>1, <4>2, GoodGrows
      <4> QED
        BY <3>1, <4>3 DEF Keeps
    <3> QED
      BY <3>2, <3>3
  <2> QED
    BY <2>1, <2>2
<1>3. CASE Since \subseteq Since'
  BY <1>1, <1>2, <1>3, NodeDoes, ReceiveDoes
     DEF Next, Load, Ask, FM!Send, Task, FM!TaskSends, FirstAnswer, NodeAnswers,
         FM!RpcReturns, FM!cacheVars, Apply, Publish, Manager, vars, fetchVars
<1>4. CASE FM!Manager /\ Restarts
  BY <1>2, <1>4
<1> QED
  BY <1>3, <1>4, SinceKept

(* A block hash is cached only for a block above it. *)
LEMMA CachedBelow ==
  ASSUME FMP!IInv, Requests, NEW k \in Height, NEW t, NEW v, FMP!Fetched(k, t, v)
  PROVE  t \in Block /\ k <= Number[t]
<1>1. PICK c \in Call : phase[c] = "answered" /\ request[c].key = k /\ request[c].tag = t
  BY DEF FMP!Fetched
<1>2. Askable(request[c])
  BY <1>1, Asked
<1> QED
  BY <1>1, <1>2 DEF Askable, Hash

(* The drain hands over the cache as it is, and the snapshot moves after it. *)
LEMMA HandingStep ==
  ASSUME FMP!IInv, Requests, Caching, Handing, Walks, [Next]_vars
  PROVE  Handing'
<1> SUFFICES ASSUME pc' = "flush", Flushed', handed'.tag = snapshot'.hash,
                    snapshot'.hash # ZeroHash, NEW k \in Key, handed'.data[k] # Unheld
             PROVE  Good(handed'.tag, k, handed'.data[k], Ahead')
  BY DEF Handing
<1>1. ASSUME UNCHANGED <<pc, snapshot, handed>>, Flushed, Ahead \subseteq Ahead'
      PROVE  Good(handed'.tag, k, handed'.data[k], Ahead')
  <2>1. Good(handed.tag, k, handed.data[k], Ahead)
    BY <1>1 DEF Handing
  <2>2. Good(handed.tag, k, handed.data[k], Ahead')
    BY <1>1, <2>1, GoodGrows
  <2> QED
    BY <1>1, <2>2
<1>2. ASSUME FM!Manager, UNCHANGED stateVars, handed' = [tag |-> cacheHash, data |-> cache],
             ~Flushed
      PROVE  Good(handed'.tag, k, handed'.data[k], Ahead')
  <2>1. cache[k] # Unheld /\ cacheHash = snapshot.hash /\ snapshot.hash \in Block
    BY <1>2 DEF Walks, Hash, stateVars
  <2>2. Good(cacheHash, k, cache[k], Since)
    BY <2>1 DEF Caching
  <2>3. Base(cacheHash, k) \in Ancestors[snapshot.hash]
    <3>1. k \in Height => k <= Number[cacheHash]
      BY <2>1, CachedBelow DEF FMP!IInv, FMP!CacheUnderTag
    <3> QED
      BY <2>1, <3>1, BaseIn
  <2>4. Since \subseteq Ahead \cup {snapshot.hash}
    BY DEF Since
  <2>5. Good(cacheHash, k, cache[k], Ahead)
    BY <2>2, <2>3, <2>4 DEF Good, Off
  <2>6. Ahead' = Ahead
    BY <1>2 DEF Ahead, Coming, After, stateVars
  <2> QED
    BY <1>2, <2>5, <2>6
<1>3. CASE Manager
  <2>1. FM!Manager /\ UNCHANGED stateVars
    BY <1>3 DEF Manager
  <2>2. Ahead' = Ahead
    BY <2>1 DEF Ahead, Coming, After, stateVars
  <2>3. CASE handed' = handed /\ (Flushed' => Flushed)
    BY <1>1, <2>1, <2>2, <2>3 DEF stateVars
  <2>4. CASE handed' = [tag |-> cacheHash, data |-> cache] /\ ~Flushed
    BY <1>2, <2>1, <2>4
  <2> QED
    BY <2>1, <2>3, <2>4, ManagerDoes DEF Keeps, Restarts
<1>4. CASE UNCHANGED <<stateVars, flush, suspended, handed>>
  BY <1>1, <1>4 DEF stateVars, Ahead, Coming, After, Flushed
<1>5. CASE NodeMoves
  <2>1. Flushed' = Flushed /\ UNCHANGED <<pc, snapshot, handed>>
    BY <1>5, NodeDoes DEF fetchVars, Flushed
  <2> QED
    BY <1>1, <1>5, <2>1, NodeGoesAhead
<1> QED
  BY <1>3, <1>4, <1>5, ReceiveDoes, ApplyDoes, PublishDoes
     DEF Next, Load, Ask, FM!Send, FM!flushVars, Task, FM!TaskSends, FirstAnswer, NodeAnswers,
         FM!RpcReturns, vars, ownVars, fetchVars

-----------------------------------------------------------------------------
(* What the snapshot holds. *)

(* An entry is right at h, or was asked for before the first notification, or
   the notifications on their way leave the block it depends on. *)
Excused(h, k, S) == AskedEarly(k) \/ Off(h, k, S)

(* So is all but the accounts that are destroyed, which a commit leaves as they
   were.  A block hash is held only for a height the snapshot's block has. *)
Holding ==
    \A k \in Key : Lasts(k) =>
        /\ Right(k) \/ Excused(snapshot.hash, k, Ahead)
        /\ k \in Height /\ Held(k) # Unheld =>
              snapshot.hash # ZeroHash /\ k <= Number[snapshot.hash]

(* v may be put at k in the snapshot that leaves block h. *)
Fits(h, k, v) ==
    v # Unheld =>
        /\ \/ h # ZeroHash /\ v = TrueAt(h, k)
           \/ Excused(h, k, Ahead)
        /\ k \in Height => h # ZeroHash /\ k <= Number[h]

(* What the snapshot holds does. *)
LEMMA HeldFits ==
  ASSUME Holding, NEW k \in Key, Lasts(k)
  PROVE  Fits(snapshot.hash, k, Held(k))
BY DEF Holding, Right, Fits

(* So does what the flush handed over for the snapshot's block. *)
LEMMA HandedFits ==
  ASSUME FMP!IInv, Requests, Handing, pc = "flush", Flushed,
         handed.tag = snapshot.hash, NEW k \in Key
  PROVE  Fits(snapshot.hash, k, handed.data[k])
<1> SUFFICES ASSUME handed.data[k] # Unheld
             PROVE  Fits(snapshot.hash, k, handed.data[k])
  BY DEF Fits
<1>1. FMP!Fetched(k, handed.tag, handed.data[k])
  BY DEF FMP!IInv, FMP!HandedUnderTag
<1>2. k \in Height => handed.tag \in Block /\ k <= Number[handed.tag]
  BY <1>1, CachedBelow
<1>3. CASE snapshot.hash = ZeroHash
  <2>1. PICK c \in Call : phase[c] = "answered" /\ request[c].key = k
                          /\ request[c].tag = ZeroHash
    BY <1>1, <1>3 DEF FMP!Fetched
  <2>2. AskedEarly(k)
    BY <2>1, Asked DEF AskedEarly
  <2> QED
    BY <1>2, <1>3, <2>2, ChainAssumption DEF Fits, Excused
<1>4. CASE snapshot.hash # ZeroHash
  <2>1. Good(snapshot.hash, k, handed.data[k], Ahead)
    BY <1>4 DEF Handing
  <2> QED
    BY <1>2, <1>4, <2>1 DEF Fits, Excused, Good
<1> QED
  BY <1>3, <1>4

(* What a commit starts from. *)
LEMMA MergedFits ==
  ASSUME FMP!IInv, Requests, Handing, Holding, Walks, pc = "flush", Flushed,
         NEW k \in Key, Lasts(k)
  PROVE  LET e == Merged(snapshot, Caches)
         IN  /\ k \in Account => Fits(snapshot.hash, k, e.accounts[k])
             /\ k \in Slot => Fits(snapshot.hash, k, e.storage[k])
             /\ k \in Height => Fits(snapshot.hash, k, e.hashes[k])
<1> DEFINE e == Merged(snapshot, Caches)
<1>1. /\ e.accounts = Extended(snapshot.accounts, Caches.accounts, snapshot.hash)
      /\ e.storage = Extended(snapshot.storage, Caches.storage, snapshot.hash)
      /\ e.hashes = Extended(snapshot.hashes, Caches.hashes, snapshot.hash)
  BY CommitFields DEF Walks
<1>2. /\ DOMAIN snapshot.accounts = Account /\ DOMAIN snapshot.storage = Slot
      /\ DOMAIN snapshot.hashes = Height
  BY DEF Walks
<1> HIDE DEF e
<1>3. k \in Account => e.accounts[k] = Held(k)
                       \/ (handed.tag = snapshot.hash /\ e.accounts[k] = handed.data[k])
  BY <1>1, <1>2, HeldIs DEF Extended, Caches, Of
<1>4. k \in Slot => e.storage[k] = Held(k)
                    \/ (handed.tag = snapshot.hash /\ e.storage[k] = handed.data[k])
  BY <1>1, <1>2, HeldIs DEF Extended, Caches, Of
<1>5. k \in Height => e.hashes[k] = Held(k)
                      \/ (handed.tag = snapshot.hash /\ e.hashes[k] = handed.data[k])
  BY <1>1, <1>2, HeldIs DEF Extended, Caches, Of
<1>6. /\ k \in Account => Fits(snapshot.hash, k, e.accounts[k])
      /\ k \in Slot => Fits(snapshot.hash, k, e.storage[k])
      /\ k \in Height => Fits(snapshot.hash, k, e.hashes[k])
  BY <1>3, <1>4, <1>5, HeldFits, HandedFits
<1> QED
  BY <1>6 DEF e

(* What is left behind stays left behind by a block above it. *)
LEMMA StaysOff ==
  ASSUME NEW h \in Block, NEW q \in Block, NEW k \in Key, Off(h, k, Coming \cup {q}),
         k \in Height => k <= Number[h],
         IF k \in Height THEN AtHeight(h, k) \in Ancestors[q] /\ AtHeight(h, k) = AtHeight(q, k)
         ELSE h \in Ancestors[q],
         Coming \subseteq Block
  PROVE  Off(q, k, Coming)
<1>1. PICK C \in Coming \cup {q} : Base(h, k) \notin Ancestors[C]
  BY DEF Off
<1>2. Base(h, k) \in Ancestors[q]
  BY DEF Base
<1>3. C \in Coming /\ C \in Block
  BY <1>1, <1>2
<1>4. Base(q, k) \notin Ancestors[C]
  <2>1. CASE k \in Height
    BY <1>1, <2>1 DEF Base
  <2>2. CASE k \notin Height
    BY <1>1, <1>3, <2>2, AncestorFacts DEF Base
  <2> QED
    BY <2>1, <2>2
<1> QED
  BY <1>3, <1>4, ChainAssumption DEF Off

(* A commit from p to q carries what fitted at p. *)
LEMMA FitsCarried ==
  ASSUME NEW p \in Block, NEW q \in Block, p \in Ancestors[q],
         Ahead = Coming \cup {q}, Ahead \subseteq Block,
         snapshot.hash # ZeroHash => snapshot.hash = p,
         NEW k \in Key, NEW v, Fits(snapshot.hash, k, v)
  PROVE  v \in {Unheld, ValueAt(p, k)} \/ AskedEarly(k) \/ Off(q, k, Coming)
<1>1. CASE v = Unheld \/ AskedEarly(k)
  BY <1>1
<1>2. CASE snapshot.hash # ZeroHash /\ v = TrueAt(snapshot.hash, k)
  BY <1>2 DEF TrueAt
<1>3. CASE v # Unheld /\ Off(snapshot.hash, k, Ahead)
  <2>1. snapshot.hash = p /\ (k \in Height => k <= Number[p])
    BY <1>3 DEF Off, Fits
  <2>2. k \in Height => AtHeight(p, k) \in Ancestors[q] /\ AtHeight(p, k) = AtHeight(q, k)
    <3>1. k \in Height => k \in 0..Number[p]
      BY <2>1, ChainAssumption DEF Height
    <3> QED
      BY <3>1, SameBelow, AtHeightIn, AncestorFacts
  <2> QED
    BY <1>3, <2>1, <2>2, StaysOff
<1> QED
  BY <1>1, <1>2, <1>3 DEF Fits, Excused

(* What the snapshot holds after a commit. *)
LEMMA CommitHolds ==
  ASSUME FMP!IInv, Requests, Handing, Holding, Walks, Apply,
         handling.kind = "commit", NEW k \in Key, Lasts(k)
  PROVE  LET q == After(handling)
             t == BuildCommitState(snapshot, Caches, handling.new)
         IN  /\ k \in Account => t.accounts[k] \in {Unheld, ValueAt(q, k)}
                                 \/ AskedEarly(k) \/ Off(q, k, Coming)
             /\ k \in Slot => t.storage[k] \in {Unheld, ValueAt(q, k)}
                              \/ AskedEarly(k) \/ Off(q, k, Coming)
             /\ k \in Height => /\ \/ t.hashes[k] \in {Unheld, ValueAt(q, k)}
                                   \/ AskedEarly(k) \/ Off(q, k, Coming)
                                /\ t.hashes[k] # Unheld => k <= Number[q]
<1> DEFINE q == After(handling)
           seg == handling.new
           e == Merged(snapshot, Caches)
           t == BuildCommitState(snapshot, Caches, seg)
<1>1. pc = "flush" /\ Flushed /\ IsSnapshot(snapshot)
  BY ApplyDoes DEF Walks
<1>2. PICK p \in Block : Walk(p)
  BY DEF Walks
<1>3. Leaves(p, handling) /\ (snapshot.hash # ZeroHash => snapshot.hash = p)
  BY <1>1, <1>2 DEF Walk
<1>4. q \in Block /\ q = Tip(seg) /\ p \in Ancestors[q]
      /\ \E f \in Ancestors[p] \ {q} : seg = Path(f, q)
  BY <1>3, LeavesFacts DEF Leaves
<1>5. PICK f \in Ancestors[p] : seg = Path(f, q)
  BY <1>4
<1>6. f \in Ancestors[q] /\ Ancestors[f] \subseteq Ancestors[p]
  BY <1>4, <1>5, AncestorFacts
<1>7. Leads(p, seg)
  BY <1>4, <1>5, <1>6, PathFacts DEF Leads
<1>8. Ahead = Coming \cup {q} /\ Ahead \subseteq Block
  BY ApplyLands, WalkEnds
<1>9. MovedBy(seg, e, t)
  BY <1>1, CommitFields
<1>10. /\ k \in Account => Fits(snapshot.hash, k, e.accounts[k])
       /\ k \in Slot => Fits(snapshot.hash, k, e.storage[k])
       /\ k \in Height => Fits(snapshot.hash, k, e.hashes[k])
  BY <1>1, MergedFits
<1> HIDE DEF q, seg, e, t
<1>11. ASSUME NEW v, Fits(snapshot.hash, k, v)
       PROVE  v \in {Unheld, ValueAt(p, k)} \/ AskedEarly(k) \/ Off(q, k, Coming)
  BY <1>3, <1>4, <1>8, <1>11, FitsCarried
<1>12. ASSUME k \in Account
       PROVE  t.accounts[k] \in {Unheld, ValueAt(q, k)} \/ AskedEarly(k) \/ Off(q, k, Coming)
  <2>1. e.accounts[k] \in {Unheld, InfoAt(p, k)} \/ AskedEarly(k) \/ Off(q, k, Coming)
    BY <1>10, <1>11, <1>12, ValueIs
  <2>2. e.accounts[k] \in {Unheld, InfoAt(p, k)} => t.accounts[k] \in {Unheld, InfoAt(q, k)}
    BY <1>4, <1>7, <1>9, <1>12, AccountCarried
  <2> QED
    BY <1>12, <2>1, <2>2, ValueIs
<1>13. ASSUME k \in Slot
       PROVE  t.storage[k] \in {Unheld, ValueAt(q, k)} \/ AskedEarly(k) \/ Off(q, k, Coming)
  <2>1. e.storage[k] \in {Unheld, WordAt(p, k)} \/ AskedEarly(k) \/ Off(q, k, Coming)
    BY <1>10, <1>11, <1>13, ValueIs
  <2>2. e.storage[k] \in {Unheld, WordAt(p, k)} => t.storage[k] \in {Unheld, WordAt(q, k)}
    BY <1>4, <1>7, <1>9, <1>13, SlotCarried
  <2> QED
    BY <1>13, <2>1, <2>2, ValueIs
<1>14. ASSUME k \in Height
       PROVE  /\ \/ t.hashes[k] \in {Unheld, ValueAt(q, k)}
                 \/ AskedEarly(k) \/ Off(q, k, Coming)
              /\ t.hashes[k] # Unheld => k <= Number[q]
  <2>1. \/ k <= Number[q] /\ t.hashes[k] = AtHeight(q, k)
        \/ t.hashes[k] = e.hashes[k]
    <3>1. t.hashes = WithHashes(e.hashes, Path(f, q))
      BY <1>5, <1>9 DEF MovedBy
    <3> QED
      BY <1>4, <1>6, <1>14, <3>1, Inserted
  <2>2. CASE k <= Number[q] /\ t.hashes[k] = AtHeight(q, k)
    BY <1>14, <2>2, ValueIs
  <2>3. CASE t.hashes[k] = Unheld
    BY <2>3
  <2>4. CASE t.hashes[k] = e.hashes[k] /\ t.hashes[k] # Unheld
    <3>1. k <= Number[p]
      BY <1>3, <1>10, <1>14, <2>4 DEF Fits
    <3>2. k \in 0..Number[p] /\ k <= Number[q]
      BY <1>4, <1>14, <3>1, AncestorFacts, ChainAssumption DEF Height
    <3>3. ValueAt(p, k) = ValueAt(q, k)
      BY <1>4, <1>14, <3>2, SameBelow, ValueIs
    <3> QED
      BY <1>10, <1>11, <1>14, <2>4, <3>2, <3>3
  <2> QED
    BY <2>1, <2>2, <2>3, <2>4
<1> QED
  BY <1>12, <1>13, <1>14 DEF q, t, seg

(* And after a reorg. *)
LEMMA ReorgHolds ==
  ASSUME Holding, Walks, Apply, handling.kind = "reorg", NEW k \in Key, Lasts(k)
  PROVE  LET q == After(handling)
             t == BuildReorgState(snapshot, CS!CommonAncestor, handling.new)
         IN  /\ k \in Account => t.accounts[k] = Unheld
             /\ k \in Slot => t.storage[k] = Unheld
             /\ k \in Height => /\ \/ t.hashes[k] \in {Unheld, ValueAt(q, k)}
                                   \/ AskedEarly(k) \/ Off(q, k, Coming)
                                /\ t.hashes[k] # Unheld => k <= Number[q]
<1> DEFINE q == After(handling)
           seg == handling.new
           n == CS!CommonAncestor
           e == CopyHistoryBefore(snapshot, n, EmptySnapshot)
           t == BuildReorgState(snapshot, n, seg)
<1>1. pc = "flush" /\ IsSnapshot(snapshot)
  BY ApplyDoes DEF Walks
<1>2. PICK p \in Block : Walk(p)
  BY DEF Walks
<1>3. Leaves(p, handling) /\ (snapshot.hash # ZeroHash => snapshot.hash = p)
  BY <1>1, <1>2 DEF Walk
<1>4. PICK f \in Ancestors[p] \cap Ancestors[q] :
             f \in Block /\ n = Number[f] /\ seg = Path(f, q)
  BY <1>3, ReorgCuts
<1>5. n \in Nat /\ q \in Block
  BY <1>3, <1>4, ChainAssumption DEF Leaves
<1>6. Ahead = Coming \cup {q} /\ Ahead \subseteq Block
  BY ApplyLands, WalkEnds
<1> HIDE DEF n
<1>7. /\ MovedBy(seg, e, t) /\ NoEntries(e)
      /\ e.hashes = [m \in Height |-> IF m <= n THEN snapshot.hashes[m] ELSE Unheld]
  BY <1>1, <1>5, ReorgFields
<1> HIDE DEF q, seg, e, t
<1>8. NoEntries(t)
  BY <1>7, NothingStaysNothing
<1>9. ASSUME k \in Height
      PROVE  /\ \/ t.hashes[k] \in {Unheld, ValueAt(q, k)}
                \/ AskedEarly(k) \/ Off(q, k, Coming)
             /\ t.hashes[k] # Unheld => k <= Number[q]
  <2>1. \/ k <= Number[q] /\ t.hashes[k] = AtHeight(q, k)
        \/ t.hashes[k] = e.hashes[k]
    <3>1. t.hashes = WithHashes(e.hashes, Path(f, q))
      BY <1>4, <1>7 DEF MovedBy
    <3> QED
      BY <1>4, <1>5, <1>9, <3>1, Inserted
  <2>2. CASE k <= Number[q] /\ t.hashes[k] = AtHeight(q, k)
    BY <1>9, <2>2, ValueIs
  <2>3. CASE t.hashes[k] = Unheld
    BY <2>3
  <2>4. CASE t.hashes[k] = e.hashes[k] /\ t.hashes[k] # Unheld
    <3>1. k <= n /\ t.hashes[k] = Held(k) /\ Held(k) # Unheld
      BY <1>7, <1>9, <2>4, HeldIs
    <3>2. snapshot.hash = p /\ k <= Number[p]
      BY <1>3, <1>9, <3>1 DEF Holding
    <3>3. k \in 0..Number[f] /\ k \in 0..Number[p] /\ k \in 0..Number[q]
      BY <1>4, <1>5, <1>9, <3>1, AncestorFacts, ChainAssumption DEF Height
    <3>4. /\ AtHeight(p, k) = AtHeight(q, k) /\ AtHeight(q, k) \in Ancestors[q]
      BY <1>4, <1>5, <3>3, SameBelow, AtHeightIn
    <3>5. CASE Right(k)
      <4>1. Held(k) = ValueAt(p, k)
        BY <3>1, <3>2, <3>5, ChainAssumption DEF Right, TrueAt
      <4> QED
        BY <1>9, <3>1, <3>3, <3>4, <4>1, ValueIs
    <3>6. CASE AskedEarly(k)
      BY <3>3, <3>6
    <3>7. CASE Off(snapshot.hash, k, Ahead)
      <4>1. Off(q, k, Coming)
        BY <1>5, <1>6, <1>9, <3>2, <3>4, <3>7, StaysOff
      <4> QED
        BY <3>3, <4>1
    <3> QED
      BY <3>5, <3>6, <3>7 DEF Holding, Excused
  <2> QED
    BY <2>1, <2>2, <2>3, <2>4
<1> QED
  BY <1>8, <1>9 DEF NoEntries, q, t, seg, n

(* What was asked for early was. *)
LEMMA EarlyStays ==
  ASSUME FMP!IInv, Walks, [Next]_vars, NEW k, AskedEarly(k)
  PROVE  AskedEarly(k)'
<1>1. CASE request' = request
  BY <1>1 DEF AskedEarly
<1>2. ASSUME NEW c \in Call, Ask(c) PROVE AskedEarly(k)'
  <2>1. request' = [request EXCEPT ![c] = loaded[c]] /\ request[c] = Unheld
    BY <1>2 DEF Ask, FM!Send, FMP!IInv, FMP!OnePlace, FMP!AtRest
  <2>2. PICK d \in Call : request[d] # Unheld /\ request[d].key = k
                          /\ request[d].tag = ZeroHash
    BY DEF AskedEarly
  <2>3. request'[d] = request[d]
    BY <2>1, <2>2 DEF FMP!IInv, FMP!TypeOK
  <2> QED
    BY <2>2, <2>3 DEF AskedEarly
<1> QED
  BY <1>1, <1>2, ManagerDoes, NodeDoes, ReceiveDoes, ApplyDoes, PublishDoes
     DEF Next, Load, Task, FM!TaskSends, FirstAnswer, NodeAnswers, FM!RpcReturns, FM!callVars,
         Manager, vars, fetchVars

(* merge_caches and the reorg leave in the snapshot nothing worse than that. *)
LEMMA HoldingStep ==
  ASSUME FMP!IInv, Requests, Handing, Holding, Walks, [Next]_vars
  PROVE  Holding'
<1> SUFFICES ASSUME NEW k \in Key, Lasts(k)
             PROVE  /\ Right(k)' \/ AskedEarly(k)' \/ Off(snapshot'.hash, k, Ahead')
                    /\ k \in Height /\ Held(k)' # Unheld =>
                          snapshot'.hash # ZeroHash /\ k <= Number[snapshot'.hash]
  BY DEF Holding, Excused, Off, Base, AtHeight, Lasts
<1>1. CASE snapshot' = snapshot /\ Ahead \subseteq Ahead'
  <2>1. Right(k)' = Right(k) /\ Held(k)' = Held(k)
    BY <1>1 DEF Right, Held
  <2>2. Off(snapshot.hash, k, Ahead) => Off(snapshot.hash, k, Ahead')
    BY <1>1 DEF Off
  <2> QED
    BY <1>1, <2>1, <2>2, EarlyStays DEF Holding, Excused
<1>2. CASE Apply
  <2> DEFINE q == After(handling)
             OK(v) == /\ v \in {Unheld, ValueAt(q, k)} \/ AskedEarly(k) \/ Off(q, k, Coming)
                      /\ k \in Height => (v # Unheld => k <= Number[q])
  <2>1. snapshot'.hash = q /\ q \in Block /\ q # ZeroHash /\ Ahead' = Coming
    BY <1>2, ApplyLands
  <2>2. /\ k \in Account => OK(snapshot'.accounts[k])
        /\ k \in Slot => OK(snapshot'.storage[k])
        /\ k \in Height => OK(snapshot'.hashes[k])
    <3>1. CASE handling.kind = "commit"
      BY <1>2, <3>1, ApplyDoes, CommitHolds, ValueIs
    <3>2. CASE handling.kind = "reorg"
      BY <1>2, <3>2, ApplyDoes, ReorgHolds, ValueIs
    <3> QED
      BY <1>2, <3>1, <3>2, ApplyDoes
  <2>3. OK(Held(k)')
    BY <2>2, ValueIs DEF Held
  <2> HIDE DEF q
  <2>4. Right(k)' \/ Held(k)' \notin {Unheld, ValueAt(q, k)}
    <3>1. TrueAt(q, k) = ValueAt(q, k)
      BY <2>1 DEF TrueAt
    <3>2. Right(k)' \/ ~(snapshot'.hash # ZeroHash /\ Held(k)' = TrueAt(snapshot'.hash, k))
      BY DEF Right, TrueAt, ValueAt
    <3>3. Right(k)' \/ Held(k)' # Unheld
      BY DEF Right
    <3> QED
      BY <2>1, <3>1, <3>2, <3>3
  <2> QED
    BY <1>2, <2>1, <2>3, <2>4, EarlyStays
<1>3. CASE UNCHANGED stateVars
  BY <1>1, <1>3 DEF stateVars, Ahead, Coming, After
<1>4. CASE NodeMoves
  BY <1>1, <1>4, NodeDoes, NodeGoesAhead
<1>5. CASE Receive
  BY <1>1, <1>5, ReceiveDoes
<1>6. CASE Publish
  BY <1>1, <1>6, PublishDoes
<1> QED
  BY <1>2, <1>3, <1>4, <1>5, <1>6
     DEF Next, Load, Ask, Task, FirstAnswer, NodeAnswers, Manager, vars, ownVars

(* The inductive invariant behind WrongHasReason and HealedWhenCaughtUp. *)
SnapshotInv == ReaderInv /\ Order /\ Fresh /\ Caching /\ Handing /\ Holding

(* All of that holds at the start. *)
LEMMA InitSnapshot == Init => SnapshotInv
<1> SUFFICES ASSUME Init PROVE SnapshotInv
  OBVIOUS
<1>1. pending = <<>> /\ pc = "recv" /\ snapshot = EmptySnapshot
  BY SameSteps DEF Init, CS!Init
<1>2. /\ phase = [c \in Call |-> "idle"] /\ cache = [k \in Key |-> Unheld]
      /\ ~flush /\ suspended = "select"
  BY DEF Init, FM!Init, FM!EmptyCache
<1>3. Order /\ Handing
  BY <1>1, <1>2 DEF Order, Handing, EmptySnapshot, Flushed
<1>4. Fresh /\ Caching
  BY <1>2 DEF Fresh, Caching
<1>5. ASSUME NEW k \in Key PROVE Held(k) = Unheld
  BY <1>1, <1>5, HeldIs, ValueIs DEF EmptySnapshot
<1>6. Holding
  BY <1>5 DEF Holding, Right
<1> QED
  BY <1>3, <1>4, <1>6, InitReader DEF SnapshotInv

(* And is kept by every step. *)
LEMMA SnapshotStep == SnapshotInv /\ Walks /\ [Next]_vars => SnapshotInv'
<1> SUFFICES ASSUME SnapshotInv, Walks, [Next]_vars PROVE SnapshotInv'
  OBVIOUS
<1>1. /\ FMP!IInv /\ Requests /\ Places /\ ReaderInv
      /\ Order /\ Fresh /\ Caching /\ Handing /\ Holding
  BY DEF SnapshotInv, ReaderInv
<1>2. ReaderInv' /\ Order'
  BY <1>1, ReaderStep, OrderStep
<1>3. Fresh'
  BY <1>1, FreshStep
<1>4. Caching' /\ Handing'
  BY <1>1, CachingStep, HandingStep
<1>5. Holding'
  BY <1>1, HoldingStep
<1> QED
  BY <1>2, <1>3, <1>4, <1>5 DEF SnapshotInv

(* What the snapshot, the caches and the fetches hold follows the node. *)
THEOREM SnapshotFollows == Spec => [](SnapshotInv /\ Walks)
BY SnapshotStep, InitSnapshot, AlwaysFollows, FollowsIsWalks, PTL DEF Spec

(* merge_caches may put into the snapshot what the node answered from a fork, but
   only while the node has left the snapshot's block, or for a request made before
   the first notification. *)
HasReason(k) == Right(k) \/ snapshot.hash \in left \/ AskedEarly(k)

THEOREM WrongOnlyWhenLeft == Spec => [](\A k \in kind.keys : Lasts(k) => HasReason(k))
<1>1. SnapshotInv /\ Walks => \A k \in kind.keys : Lasts(k) => HasReason(k)
  <2> SUFFICES ASSUME SnapshotInv, Walks, NEW k \in kind.keys, Lasts(k),
                      ~Right(k), ~AskedEarly(k)
               PROVE  snapshot.hash \in left
    BY DEF HasReason
  <2>1. k \in Key /\ Holding /\ Order
    BY KindIs DEF SnapshotInv, ReaderInv, Requests
  <2>2. Off(snapshot.hash, k, Ahead) /\ Held(k) # Unheld
    BY <2>1 DEF Holding, Excused, Right
  <2>3. /\ snapshot.hash \in Block /\ snapshot.hash # ZeroHash
        /\ k \in Height => k <= Number[snapshot.hash]
    BY <2>1, <2>2 DEF Holding, Off, Walks, Hash
  <2>4. PICK C \in Ahead : Base(snapshot.hash, k) \notin Ancestors[C]
    BY <2>2 DEF Off
  <2>5. Base(snapshot.hash, k) \in Ancestors[snapshot.hash]
    BY <2>1, <2>3, BaseIn
  <2>6. C \in Block
    BY WalkEnds
  <2>7. snapshot.hash \notin Ancestors[C]
    BY <2>4, <2>5, <2>6, AncestorFacts
  <2>8. snapshot.hash \in Ancestors[snapshot.hash]
    BY <2>3, ChainAssumption
  <2> QED
    BY <2>1, <2>3, <2>7, <2>8 DEF Order, Behind
<1> QED
  BY <1>1, SnapshotFollows, PTL

(* And the reorg it waits for, or the merge after it, takes it out again: once
   the changeset manager has handled what was sent, the snapshot is at the
   node's tip and its entries are the node's. *)
CaughtUp == pending = <<>> /\ pc = "recv" /\ notified > 0

Healed(k) == Right(k) \/ AskedEarly(k)

THEOREM WrongIsHealed ==
    Spec => [](CaughtUp => /\ snapshot.hash = canon
                           /\ \A k \in kind.keys : Lasts(k) => Healed(k))
<1>1. SnapshotInv /\ Walks /\ CaughtUp =>
          snapshot.hash = canon /\ \A k \in kind.keys : Lasts(k) => Healed(k)
  <2> SUFFICES ASSUME SnapshotInv, Walks, CaughtUp
               PROVE  /\ snapshot.hash = canon
                      /\ \A k \in kind.keys : Lasts(k) => Healed(k)
    OBVIOUS
  <2>1. kind.keys \subseteq Key /\ Holding /\ Early
    BY KindIs DEF SnapshotInv, ReaderInv, Requests
  <2>2. Ahead = {}
    BY DEF CaughtUp, Ahead, Coming
  <2>3. handling.kind # "none"
    BY DEF CaughtUp, Walks
  <2>4. handling.kind # "revert"
    BY <2>1 DEF CaughtUp, Walks, Early, EmptySnapshot
  <2>5. snapshot.hash # ZeroHash
    BY <2>3, <2>4 DEF CaughtUp, Walks
  <2>6. snapshot.hash = canon
    BY <2>5, WalkEnds DEF CaughtUp
  <2>7. ASSUME NEW k \in kind.keys, Lasts(k) PROVE Healed(k)
    BY <2>1, <2>2, <2>7 DEF Holding, Excused, Off, Healed
  <2> QED
    BY <2>6, <2>7
<1> QED
  BY <1>1, SnapshotFollows, PTL

(* Where no account is destroyed, that is so of every entry: merge_caches makes
   no entry wrong without a reason. *)
COROLLARY WrongAlwaysHasReason == ASSUME NobodyGone PROVE Spec => []WrongHasReason
<1>1. (\A k \in kind.keys : Lasts(k) => HasReason(k)) => WrongHasReason
  BY DEF NobodyGone, Lasts, HasReason, WrongHasReason
<1> QED
  BY <1>1, WrongOnlyWhenLeft, PTL

(* And nothing stays wrong after the reorg. *)
COROLLARY AllIsHealed == ASSUME NobodyGone PROVE Spec => []HealedWhenCaughtUp
<1>1. (CaughtUp => /\ snapshot.hash = canon
                   /\ \A k \in kind.keys : Lasts(k) => Healed(k)) => HealedWhenCaughtUp
  BY DEF NobodyGone, Lasts, CaughtUp, Healed, HealedWhenCaughtUp
<1> QED
  BY <1>1, WrongIsHealed, PTL
=============================================================================
