# reth-ext in TLA+

reth-ext lets a program simulate transactions against the tip of an Ethereum
chain.  A reth node (`reth-rex`) streams every commit and reorg; a client
(`rex-cons`) receives the stream; a state layer (`rex-sim`) keeps a snapshot of
the chain's state at the tip, fills it lazily from the node's RPC, and serves it
to simulations as a `revm::DatabaseRef`.

These modules model the whole way of a block: the stream from the node to the
client with its reconnects, the changeset manager and its snapshot transitions,
the fetch managers, the readers and the guard.  TLC checks them on small
instances; TLAPS proves their safety for every value of the constants.

## 1. Inventory

| component | state | operations | with whom |
| --- | --- | --- | --- |
| fetch managers (`manager_core.rs`, `managers.rs`), four of them | request queue, tagged cache, epoch, `inflight`, semaphore, completion channel, flush channel | take a request (hit, miss, tag change), spawn a fetch, apply a completion, flush | readers (request, reply channel of one), the node (RPC), the changeset manager (flush oneshot), account manager to code manager (code hints) |
| `StaticState` (`state.rs`) | `ArcSwap` snapshot, generation counter | `swap`, `guard`, `check_guard`, the four `DatabaseRef` reads | reader threads, the changeset manager, the fetch managers |
| transitions (`transitions.rs`) | none (pure) | `build_commit_state`, `build_reorg_state`, `build_revert_state`, `mark_stale`, `merge_caches` | changeset manager |
| validation (`validation.rs`) | none (pure) | `validate_chain_committed`, `validate_chain_reorged` | changeset manager |
| changeset manager (`changeset.rs`) | the loop's position; it is the only writer of the snapshot | one handler per notification: commit, reorg, revert | everything above, the watch channel, the log sink, the ready signal |
| builder (`lib.rs`) | none after `spawn` | clamping, one assertion, wiring | |
| RPC client (`rpc.rs`) | none | `get_account` (three calls), `get_code_by_hash`, `get_storage`, `get_block_hash` | the node |
| `rex-cons` | stream, backoff, channel of 64 | `next`, `connect` | reth-rex, changeset manager |
| `reth-rex` | broadcast channel of 32, one task and channel of 1 per client | `subscribe`, `remote_exex` | the node, rex-cons |
| `provider-ext` | a caller's `RwLock<HashMap>` | `cached_fetch`, `cached_discover` | independent |
| `exex-proto`, `deploy`, `examples`, `artifacts.rs` | none | generated code, scripts, programs, file loading | |

What is hard, and the properties that make each component correct:

* **Fetch managers.** Requests, completions and flushes interleave; fetches come
  back out of order, after the tag changed, after a flush abandoned them; the
  manager stops reading completions while it waits for a permit.  Correct when
  everything in the cache belongs to the cache's tag, every reply answers its own
  request, the count of open fetches is exact, nobody is dropped and nothing gets
  stuck.
* **Guard.** Two atomics written in two steps and read in three.  Correct when
  `Valid` bounds what the simulation can have seen.
* **Transitions, validation and changeset manager.** Notifications are lost or
  overlap, chains fork, caches are flushed under an older tag.  Correct when a
  readable snapshot serves what is true at its block and moves only along the
  chain, and no update names a snapshot that is not in place yet.
* **Code manager.** Its requests race with the registrations that make them
  answerable.  Correct when it never gives code of another hash, whatever the
  hints, and no registration is lost.
* **Reads against the node.** The node is asked by number while its chain moves,
  and answers are shared and merged under a hash.  Correct when a wrong entry has a
  known reason and does not outlive it.
* **Transport.** It may lose notifications, by lag, broken connections, restarts or
  undecodable messages.  Correct when it keeps their order, repeats none, ends the
  stream at a lag, and comes back.

PROJECT.json lists the hazards one by one, at the line where each bites.

## 2. The modules

| module | what it is |
| --- | --- |
| `FetchService` | what a fetch manager promises: no queue, permit or epoch |
| `FetchManager`, `MCFetchManager`, `FetchManagerProofs` | `manager_core.rs` with the calls of `state.rs`, its instance, its theorems |
| `CodeHints`, `MCCodeHints`, `CodeHintsProofs` | the code manager: `FetchManager` with `CodeSpec`, the registrations and `get_code_by_hash` |
| `StateGuard`, `MCStateGuard`, `StateGuardProofs` | `swap`, `guard`, `check_guard` at the grain of atomic accesses |
| `Chain` | the block tree, the contents of blocks, the segments of notifications |
| `Validation` | the verdicts of `validation.rs` |
| `Transitions`, `TransitionsProofs` | snapshots and the builders of `transitions.rs`; lemmas on the tree and on the builders |
| `Changeset`, `MCChangeset`, `ChangesetProofs`, `FollowProofs` | `run_changeset_manager` between a node, a transport and the fetch managers' contract; its theorems over any transport, and over one that loses nothing |
| `Transport` | what the changeset manager relies on: in order, nothing twice, any loss |
| `NotificationBridge`, `MCNotificationBridge`, `BridgeProofs` | `reth-rex` and `rex-cons`, shown to implement `Transport` |
| `RexSim`, `MCRexSim`, `RexSimProofs` | readers, one tagged fetch manager, the changeset manager and a node asked by number |

Who uses whom:

    FetchService <= FetchManager <- CodeHints          Chain <- Validation, Transitions <- Changeset
    Transport    <= NotificationBridge                 RexSim = Transitions + INSTANCE FetchManager
                                                                + INSTANCE Changeset
    TransitionsProofs <- ChangesetProofs <- FollowProofs <- RexSimProofs

(`<=` is implemented by, `<-` is extended by.)  `Changeset` alone does not contain
a fetch manager: a flush hands over any caches that `FetchService` allows, which
`FetchManager` is shown to implement.  Its transport is `Transport`, with or
without losses (`Lossy`), which `NotificationBridge` is shown to implement.

### How they correspond to the code

**FetchManager.** A *call* is one `DatabaseRef` method that missed the snapshot.
`phase[c]` says where its request is: in `fetch_rx`, held by the manager that
waits for a permit, with its RPC, waiting for room in the completion channel, in
that channel, answered.  `pc` is the await the manager is suspended at: `select`
in `select!`, `batch` between two `try_recv`, `permit` in `acquire_owned`, `drain`
in the `timeout_at` loop of a flush.  The code between two awaits is one action.
A tag change is part of taking a request (`Retag`, `Retained`).  The select arms
are taken in any order, as `tokio::select!` does.  A drain is abandoned
(`HandOver` with `inflight > 0`) only while no completion is ready, because
`timeout_at` polls the channel before the deadline; a deadline may pass at any
time.  `EpochGuarded` and `Tagged` make the same module the code manager, which
opts out of both.  `NotFound` is the `Ok(None)` that the account spec would not
store; today's RPC client never returns it.

**StateGuard.** One action per atomic access.  `inner.id` counts stores, so that
one can say *which* snapshot was read.  `guard.id` stands for the guard's
`block_hash`.

**Chain and Transitions.** A block stands for its hash.  The value of an account
or a slot is the block that last changed it, so two reads agree exactly when no
block between them touched the entry.  `Unheld` is a missing map entry and `Gone`
the empty account a node answers for a destroyed one.  The builders translate
`transitions.rs` one to one, with the histories as bounded sequences; what
`copy_history_before` keeps of one is the entries at the kept indices, in order
(`Kept`).

**Changeset.** `pc` is `recv` (awaiting a notification), `flush` (the four flushes
are out), `announce` (the snapshot is swapped, the update not sent) or `emit` (the
update is sent, the logs are not).  `flush` ends with one action per outcome:
`ApplyCommit`, `ApplyReorg`, `ApplyRevert`, which swap, and `Refuse`, which swaps in
a stale snapshot and publishes nothing.  `SendUpdate` and `EmitLogs` follow as steps
of their own, since readers and watchers run on other threads: a new snapshot can
be read before its update is sent, and the update before the logs.  The verdict is taken before the flush in the code and after it here; nothing else
writes the snapshot, so it is the same.  `swap` is one step here and two in
`StateGuard`.  The node's actions build notifications as reth does: a commit extends
the tip, a reorg names the abandoned and the new blocks from the common ancestor, a
revert names the abandoned ones.  `Lossy` lets the transport drop any of them.

**NotificationBridge.** A notification is its number in the broadcast channel.
`task` is the task that `subscribe` of `main.rs` spawns: `recv`, `send` (in
`tx.send`, holding number `cursor - 1`), `ended` (the sender is dropped, so the
stream ends when `wire` is empty), or `none` when nobody can see it any more.
`Lagged` is tokio's rule: a receiver whose next notification has been overwritten
gets an error, and `while let Ok(..)` takes that for the end.  `wire` is the
connection's channel of 1 and what HTTP/2 buffers.  `place` is the `rex-cons`
thread, `out` the channel of 64.  Faults are the network (`Break`), the process
(`Crash`, `Restart`) and the end of the ExEx's own stream (`ExexEnds`), which
leaves the gRPC server running.

**CodeHints.** It extends `FetchManager` with `Tagged` and `EpochGuarded` false, so
every action of the manager is one of `FetchManager` together with what it does to
the hints.  `side` is the unbounded side channel.  `Register` is
`AccountSpec::on_success` in the account manager, which precedes the reply to
whoever asked for the account; `told[c]` remembers that the hash was registered
before the request was sent.  `hint` is read when the permit is there (`Fetches`),
where the code builds the fetch.  `CodeOf[a]` is what the node may answer for an
account at one block or another.

**RexSim.** `kind` is the `FetchSpec` of the manager looked at; the three that tag
their requests differ in their keys, in the number they ask the node for, and in
the calls they join.  Each run looks at one of them, since they share nothing but
the flush.  A read is `Load` (the snapshot is loaded, the entry is missing), `Ask`
(the request is sent, possibly after a swap) and its reply.  The node answers from
its chain at the moment it answers; an account is put together from two such
moments, `Torn` when they differ.  `left` is the set of blocks the node's chain
ever left.  The flush of a notification is `FetchManager!AskFlush`, `Apply`
waits for its hand-over and swaps, and `Publish` is what is sent afterwards: readers
load, ask and are answered between the two.

## 3. What the runs check

All bounds are constants of the configurations.

| run | bounds | shows |
| --- | --- | --- |
| `FetchSafety` | 3 calls, 1 key, 3 tags, 2 values, 2 permits, 2 completions, 1 flush; calls, non-zero tags and values symmetric | type correctness, the tag discipline, own answers, exact count, nobody dropped, the inductive invariant, and that the manager implements `FetchService` |
| `FetchLiveness` | 3 calls, 1 tag, 1 permit, 1 completion, 1 flush | every request and every flush is answered |
| `CodeHints` | 2 calls, 2 hashes, 2 accounts (one changes its code), 2 registrations, 1 permit, 1 completion, 1 flush | only code of the right hash, no registration lost, the waking request is hinted, `FetchService` without tags and epoch, the side channel drains |
| `GuardSafety` | 2 readers, 3 swaps | what each verdict of `check_guard` guarantees |
| `ChangesetFollow` | 7 blocks on 3 forks, 3 notifications, history of 2, a sink of 1; overlaps and reverts, no loss | the snapshot serves the truth and ends where the node is; the history has no hole, also at its limit; code is never forgotten; every notification is handled |
| `ChangesetLoss` | the same tree, 4 notifications, any of them lost | what survives: steps connect, truth is not destroyed except by adoption, reorgs heal, an update is never ahead of the snapshot and lags it only until it is sent or after a refusal |
| `Bridge` | 6 notifications, 2 faults, channels of 2, backoff 1 to 6 | order, no silent hole, the transport's contract; the client comes back; no channel is stuck |
| `RexSim` | 4 blocks on 2 forks, 3 notifications, 2 readers, 1 permit, 1 completion, history of 2; readers symmetric | when an entry or a reply can be wrong, and that a wrong entry goes |
| `AdoptsAfterGap`, `DestroyedAccount`, `LateHint`, `ReadsByNumber` | as above | violations: see section 5 |

Why the bounds are enough.  Three calls are what it takes to have a fetch in
flight, one that changed the tag since, and one that hits or waits; three tags
let a tag return (A, B, A) and make the zero tag of an emptied cache different
from both.  One flush at any point covers the abandoned drain, whose fetches come
back into an emptied cache; the invariants are proved without the bound.  In
`FetchLiveness` one permit and one place in the channel make both limits bite at
once.  Three swaps are one more than the two snapshots that `Valid` may span.
The tree has a fork below, at and above the snapshot's height, so reorgs are
shorter, equal and longer; a history of two is full after two blocks.  In `Bridge`
six notifications are enough for a lag, a reconnect and another lag with every
channel full, and two faults for a crash during a reconnect; a maximum of 6 is not
a power of two times the initial backoff, so the cap bites.  In `CodeHints` two
accounts share a code and one of them changes its own, so a hint can be
overwritten and can name code of another hash.  In `RexSim` the chain reorganises
at and above the snapshot's height, an account changes on both sides of the fork,
and two readers suffice for a hit on what the other fetched, a tag change by the
other, and a fetch that comes back after a flush.  Weakened forms of its
properties, which leave out one of the two reasons for a wrong entry, are
violated: both reasons occur.

Deadlock is not checked where the environment may stop for good: no call left,
or no notification left (`CHECK_DEADLOCK FALSE`).  `GuardSafety` checks it.

**Fairness.** `FetchManager!FairSpec` and `CodeHints!FairHintSpec` assume weak
fairness of the manager's task and of each spawned task: tokio polls every ready
task, and an RPC returns because the HTTP client has a timeout.  Callers, their
timeouts, the flusher and the account manager owe nothing.  `Changeset!FairSpec`
assumes it of the manager (a flush comes back, which `FetchLiveness` checks) and of
the user who reads the log sink; the node owes nothing.
`NotificationBridge!FairSpec` assumes weak fairness of the connection's task, of the
thread's steps, of the subscriber that takes (the changeset manager,
`AllHandled`), and of the restart of a node that is down; it assumes strong
fairness of `Connects`, because an attempt may fail any number of times while the
node is up but not for ever.  Broadcasts and faults owe nothing, and there are
finitely many of them, so `ComesBack` speaks of the time after the last.

## 4. What is proved

`FetchManagerProofs` proves for all constants satisfying `FetchAssumption` and
`GuardAssumption` (only a manager with untagged requests may drop the epoch guard):

* `Inductive`: `Spec => []IInv`.  `TypeOK`, `CacheUnderTag` and `InflightExact` are
  not inductive alone.  `OnePlace` says that a request is in one queue once, which
  makes `inflight' = inflight - 1` count one fetch; `IssuedUnderTag` says that a
  fetch issued under the present epoch was issued under the present tag, which is
  why comparing epochs is as good as comparing tags, also across a flush that
  resets the tag to zero and a tag that comes back.
* `TypeCorrect`, `CacheIsUnderTag`, `HandedIsUnderTag`, `AnswersAreOwn`,
  `NothingForgotten`, `WaitersHaveRequests`: the properties, each a conjunct of
  `IInv`.
* `ImplementsPromise`: `Spec => KeepsPromise`, the refinement of `FetchService` that
  maps what the node gave to the results of the RPCs.

`StateGuardProofs` proves for any number of readers and swaps:

* `Inductive`: what a reader holds was loaded after its generation, hence lies
  between that generation and the snapshot in place (`Ordered`), and the generation
  is at most one behind (`GenerationFollows`).
* `ValidIsBounded`: `Valid` spans one swap at most; `Changed` and `BecameStale` are
  never raised unless a swap happened.
* `TypeCorrect`, `AlarmsAreTrue`: its other parts.
* `ValidIsExact`: if no swap is between its two steps when the generation is
  checked, `Valid` means one snapshot, the one in place.

`ChangesetProofs` proves, for every tree of blocks and contents that satisfy
`ChainAssumption` and `ContentAssumption`, any losses, overlaps and bounds:

* `Inductive`: the snapshot names a block by number, hash and height above 0, or no
  block (`SnapshotNames`), and every notification on its way is a path of the tree
  (`Note`).  Both are needed to read a verdict: `Contains` and `Continues` compare
  numbers and hashes, and only a path lets one conclude that the segment holds every
  block between the snapshot and the tip (`AcceptedLeads`).
* `TypeCorrect`, `CodeIsKept`, `ReorgsHeal`, `StepsAlwaysConnect`: without further
  assumptions.
* `UpdateNeverMisleads`, likewise: `UpdateFollows`.  The update is made of the
  notification (`Landing`) and of the generation loaded when it is sent, not of the
  snapshot, so the invariant has to say of the window before the send that the two
  agree (`Announcing`).
* `TruthStays`: `TruthIsKept`, assuming that the node does not revert, that a read is
  answered at the block of its tag (`ReadsAtTag`) and that no account is destroyed
  (`NobodyGone`).  The last two are the hypotheses that `ReadsByNumber` and
  `DestroyedAccount` show to be needed; after a revert the snapshot names no block
  and keeps hashes, so the exactness of a snapshot without a hash would have to be
  stated differently.  The argument: what a flush hands over under the snapshot's
  hash is true there (`FlushedFacts`); an accepted segment carries every block from
  there to its tip, and an entry none of them touched keeps its value (`Untouched`,
  `ExecutionIsExact`); block hashes of an ancestor are those of the descendant
  (`HashesCarried`).

`BridgeProofs` proves, for any capacities and backoffs that satisfy
`BridgeAssumption`, any number of notifications and any faults:

* `Inductive`: `Spec => []IInv`.  `Ordered` alone is not inductive: that the task's
  next notification is newer than everything on its way (`Upcoming`) is what a send
  needs, that the wire ends just before it (`NoSilentHole`) bounds the wire, and
  `Placed` says that a stream, its task and the thread's place go together, so that
  a new connection begins when nothing of the old one is left.
* `TypeCorrect`, `OrderKept`, `HolesAreNotSilent`: its parts.
* `Implements`: `Spec => InOrder`, the refinement of `Transport`: a broadcast is its
  `Send`, the subscriber's `recv` its `Arrive`, everything else a stutter.

`CodeHintsProofs` proves, for constants satisfying `CodeAssumption` as well:

* `HintInductive`: `HintSpec => []HintInv`, that is `FetchManager`'s invariant, which
  every step of the code manager keeps because it is a step of `FetchManager`, and
  that a result that is on its way has the hash it was asked for (`ResultNamed`).
* `CodeNamed`, `RegistrationsKept`, `WakingRequestIsHinted`: the properties.
  `Greatest`, that a bounded set of numbers has a greatest one, is what makes the
  last registration of a hash exist when the side channel is drained.
* `CodeImplementsPromise`: the refinement of `FetchService`.

`TransitionsProofs` has what these and the following proofs use of `Chain` and
`Transitions`: that ancestors are a chain, what a segment leads from and to, which
entries a segment leaves as they were, what each builder does to each field of a
snapshot.

`FollowProofs` proves of `Changeset` over a transport that loses nothing (`~Lossy`),
with overlapping commits, reorgs of any depth, reverts and any history bound:

* `FollowsTheNode`: `Spec => []FollowInv`.  `InStep` speaks only of a manager that
  has handled everything; the invariant says at every step that the snapshot is
  where the node was when it had sent what is handled (`Follows`), that the pending
  notifications lead one after the other from there to the node's tip (`Route`),
  and that the receipts and the changed accounts end there (`HistoriesTo`).  After a
  revert the snapshot has a number and no hash, so its place is a block of that
  number that the invariant has to name (`\E p`).
  `FollowsWhateverIsFlushed` is the same for flushes that hand over anything at all,
  which `RexSimProofs` needs.
* `StaysInStep`, `HistoryHasNoHole`: the properties.  That the history has no hole
  needs more than its end: two receipts in a row are at most one height apart
  (`Steady`), which both bounding and cutting keep (`CutIsSteady`; `NthSteps`:
  `Nth` lists the kept indices in their order).
* `NothingIsRefused`: `Spec => [][~Refuse]_vars`, no verdict of `validation.rs` is a
  refusal of something a node sends.
* `LastingTruthIsServed`: assuming in addition that a read is answered at the block
  of its tag (`ReadsAtTag`), a snapshot that is not stale holds only what is true at
  its block, but for accounts that some block destroys.  The invariant adds to
  `FollowInv` that what it holds is true at the place it follows (`TrueTo`), the
  block hashes also while it has no hash.
* `TruthIsServed`: with `NobodyGone` that is `ServesTruth`.

`RexSimProofs` proves of the composed system, for any number of readers and
blocks, each of the three managers, and constants that satisfy `RexSimAssumption`
(there, the answers of the node are told from the markers of the model, and the
capacities are not zero):

* `ComponentsInPlace`: `Spec => FMP!Spec /\ CSP!AnyFlush`.  The composition is a
  behaviour of `FetchManager` and of `Changeset` with a transport that loses
  nothing, so that the invariants of both hold in it: they are not proved twice.
* `RepliesAreRight`: `RepliesRightUnlessLeft`, from the invariant `ReaderInv`
  (`ReadersAreTold`): each request is what its reader loaded and is at a block the
  node is or was at (`Requests`, `Places`), and the first of several answers and
  each result are right for the request's tag unless the node left it (`Answers`).
  That the caches are under their tags is `FetchManager`'s invariant.
* `WrongOnlyWhenLeft`, `WrongIsHealed`: of the entries that no block destroys
  (`Lasts`), which is all of them under `NobodyGone`: `WrongAlwaysHasReason` proves
  `WrongHasReason`, `AllIsHealed` proves `HealedWhenCaughtUp`.
  For these, "the node has left the tag" is too weak: the reorg that heals may be
  handled while the value is in a fetch or a cache.  The invariant (`SnapshotInv`,
  theorem `SnapshotFollows`) says of a value that it is right at its tag, or that one
  of the blocks the node is known to lead to does not have the block that the value
  depends on among its ancestors (`Good`, `Off`).  Which blocks those are depends on
  where the value is: for a fetch of this epoch and for the cache, those that the
  pending notifications lead to and the snapshot's own, since the last flush began
  (`Since`, `Fresh`, `Caching`); for what a flush has handed over and for the
  snapshot, those of the pending ones only (`Handing`, `Holding`).  A flush ends an
  epoch, so a fetch from before it never gets into the cache, and this is why a
  wrong value cannot come back after the reorg that removed it.

All the safety properties that the passing runs check are stated by a theorem:
every invariant and every action property of section 3.  Three of the assumptions
restrict what the system meets: `~Lossy`, `ReadsAtTag` and `NobodyGone`.  Each is
named in the theorem that needs it; `AdoptsAfterGap`, `ReadsByNumber` and
`DestroyedAccount` are the runs that show what happens without it.

Only model-checked: liveness (`EveryRequestAnswered`, `EveryFlushAnswered`,
`AllHandled`, `SideDrains`, `ComesBack`, `NothingStuck`).  It rests on the fairness of
actions, hence on `ENABLED`, which the prover has no rules for.  The properties of
the runs that TLC finds violated (section 5) are false and have no theorem.

## 5. Where the code and its documentation part

Each is a run that TLC must find violated.

* `AdoptsAfterGap`: after a gap the next commit is adopted onto the old snapshot;
  entries that the lost blocks changed are served with their old values.  README
  and DESIGN say the state is re-established from scratch.  `ReorgHeals` and
  `TruthIsKept` say how far this goes: it is the only step that makes an exact
  snapshot wrong, and a reorg ends it.
* `DestroyedAccount`: a change whose info is `None` leaves the entry as it was.
* `LateHint`: a code request sent after its hash was registered is fetched without an
  account and fails with `MissingAddressHint`, when it is taken in a batch that
  began before the registration came.  `WakesHinted` and `HintNotLost` say how far
  this goes: a request that wakes the manager is not affected, and asking again
  finds the hint.
* `ReadsByNumber`: a reader at a block that the node has left is answered for another
  block of that height.  DESIGN says the value is correct for the block it asked
  at.  `RepliesRightUnlessLeft` says that this is the only way, and
  `HealedWhenCaughtUp` that nothing of it stays in the snapshot once the reorg is
  handled.

Others have no run of their own:

* Reads made before the first notification are answered at block 0 under the zero
  hash and merged into the first snapshot: `AskedEarly` is the one exception in
  `WrongHasReason` and `HealedWhenCaughtUp`; only a block that changes the entry, or
  a reorg, ends it.
* A reorg makes a stale snapshot readable, while README and DESIGN name commits only;
  `ReorgHeals` shows that this is harmless for accounts and slots.
* `check_guard` may return `Valid` for a simulation that read two snapshots, if it
  ran between the two steps of one `swap`; `ValidSpansOneSwap` and `ValidWhenQuiet`
  say how far this goes.
* DESIGN says that the backoff resets "not on connect"; `connect` resets it
  (`Connects`), so the reset after a decoded notification never changes anything, and
  a server that accepts and closes at once is retried without delay.  No property is
  about it: one could only restate the assignment.
* The watch channel is sent after the swap: for a moment a reader sees a snapshot
  that no update has named.  `UpdateFollows` says what a watcher may rely on.

## 6. Not modelled

* The contents of blocks beyond who changed what; receipts beyond the block they
  belong to; merge statistics and logging; the slots of a destroyed account that
  its change does not list.
* Wall-clock times: which of two timeouts comes first, hence the builder's
  assertion that `wait_timeout_ms` exceeds `rpc_timeout_ms`.  A timeout is a step
  that may happen at any time.
* Panics and shut-down: closed channels between the parts of `rex-sim`, a watch
  channel whose receivers are all gone.
* A flush that an endless stream of cache hits keeps waiting
  (`manager_core.rs:214`): every model has finitely many calls.
* In `RexSim`: callers that time out and RPCs that fail for other reasons than an
  unknown block (they are in `FetchManager`), the log sink, reverts, overlaps and
  losses (they are in `Changeset`), and the code manager (it is `CodeHints`).
* In `NotificationBridge`: what reth's canonical stream drops before the ExEx sees
  it, and the finished height that the ExEx reports to reth.
* `validate_cache` and the truncations that only tests call; `get_block_number`,
  which nothing calls; the plain getters of the snapshot.
* `provider-ext`: no other crate of the repository uses its helpers, which fill a
  cache that belongs to their caller.  `artifacts.rs`, `error.rs`, the examples,
  `exex-proto` and `deploy` keep no state.

## 7. Plan

Done: everything in section 2, and the safety of every module proved.

Next, in this order:

1. `TruthStays` for a node that reverts: the exactness of a snapshot without a hash
   is that of its block hashes, as in `TrueTo`.
2. `RexSim` with losses: which of `ReaderInv` survives a notification that never
   comes, and what `AdoptsAfterGap` does to the entries read by number.
3. `CachedFetch`, the helpers of `provider-ext`, once something in the repository
   uses them.
