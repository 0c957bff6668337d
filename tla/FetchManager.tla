---------------------------- MODULE FetchManager ----------------------------
(***************************************************************************)
(* The generic fetch manager of rex-sim (manager_core.rs).  One async task *)
(* owns a cache tagged with a block hash, answers the calls that missed    *)
(* the snapshot, runs at most Permits RPCs at a time and hands its cache   *)
(* over when the changeset manager flushes it.                             *)
(*                                                                         *)
(* A Call is one invocation of a DatabaseRef method that missed the        *)
(* snapshot: one request, one reply channel of capacity one.  Calls run on *)
(* threads of their own, so they interleave freely with the manager.       *)
(* The manager moves between awaits: every action of it below is the code  *)
(* it runs from one await (or one message of a batch) to the next.         *)
(***************************************************************************)
EXTENDS Integers, Sequences, FiniteSets

CONSTANTS
    Call,             \* calls, each used once
    Key,              \* S::Key
    Tag,              \* block hashes a request can be tagged with
    ZeroHash,         \* B256::ZERO, the tag of an empty cache
    Value,            \* S::Val
    NotFound,         \* Ok(None): a response that store() does not keep
    Failed,           \* Err(_)
    Absent,           \* no value, no result, no reply
    Permits,          \* semaphore permits, clamped to at least 1
    CompletionDepth,  \* COMPLETION_CHANNEL_DEPTH
    MaxFlushes,       \* bound: flushes the changeset manager asks for
    EpochGuarded,     \* S::EPOCH_GUARDED
    Tagged            \* whether S::tag is Some: false for the code manager

Response == Value \cup {NotFound, Failed}
Request == [key: Key, tag: Tag]

ASSUME FetchAssumption ==
    /\ ZeroHash \in Tag
    /\ NotFound \notin Value /\ Failed \notin Value /\ NotFound # Failed
    /\ Absent \notin Response \cup Request
    /\ Permits \in Nat \ {0}
    /\ CompletionDepth \in Nat \ {0}
    /\ MaxFlushes \in Nat
    /\ EpochGuarded \in BOOLEAN /\ Tagged \in BOOLEAN
    /\ IsFiniteSet(Call)

(* The specs of managers.rs: only CodeSpec opts out of the epoch guard, and
   its requests carry no tag. *)
ASSUME GuardAssumption == Tagged => EpochGuarded

VARIABLES
    request,      \* [Call -> Request], Absent until the call is sent
    reply,        \* what the caller got from its reply channel
    waiting,      \* callers parked in recv_timeout
    phase,        \* where the call's request is, see Phase
    result,       \* what the RPC of the call returned
    issued,       \* the epoch its fetch was spawned under
    fetchQ,       \* fetch_rx
    completionQ,  \* completion_rx
    pc,           \* where the manager is suspended
    cacheHash, cache, epoch, inflight,
    flush,        \* whether a flush waits in flush_rx
    flushes,      \* number of flushes asked for so far
    handed        \* the cache handed over by the last flush

callVars == <<request, reply, waiting>>
taskVars == <<phase, result, issued>>
cacheVars == <<cacheHash, cache, epoch>>
flushVars == <<flush, flushes, handed>>
vars == <<callVars, taskVars, fetchQ, completionQ, pc, cacheVars, inflight,
          flushVars>>

Cache == [Key -> Value \cup {Absent}]
EmptyCache == [k \in Key |-> Absent]

(* idle: not sent; queued: in fetch_rx; permit: taken by the manager, which
   waits for a permit; rpc: its task awaits the RPC and holds a permit;
   sending: the permit is dropped and the task awaits room in the completion
   channel; sent: in completion_rx; answered: respond_to was used. *)
Phase == {"idle", "queued", "permit", "rpc", "sending", "sent", "answered"}

(* The calls whose fetch was spawned and has not been applied. *)
InFlight == {c \in Call : phase[c] \in {"rpc", "sending", "sent"}}

(* Mutant: the permit lives until the completion is sent. *)
PermitUntilSent == {c \in Call : phase[c] \in {"rpc", "sending"}}

(* The calls whose task holds a permit: it is dropped before the completion
   is sent. *)
HoldingPermit == {c \in Call : phase[c] = "rpc"}

Init ==
    /\ request = [c \in Call |-> Absent]
    /\ reply = [c \in Call |-> Absent]
    /\ waiting = {}
    /\ phase = [c \in Call |-> "idle"]
    /\ result = [c \in Call |-> Absent]
    /\ issued = [c \in Call |-> 0]
    /\ fetchQ = <<>> /\ completionQ = <<>>
    /\ pc = "select"
    /\ cacheHash = ZeroHash /\ cache = EmptyCache /\ epoch = 0
    /\ inflight = 0
    /\ flush = FALSE /\ flushes = 0
    /\ handed = [tag |-> ZeroHash, data |-> EmptyCache]

-----------------------------------------------------------------------------
(* The callers (DatabaseRef methods of StaticState) and the flusher. *)

Send(c, r) ==
    /\ phase[c] = "idle"
    /\ phase' = [phase EXCEPT ![c] = "queued"]
    /\ request' = [request EXCEPT ![c] = r]
    /\ waiting' = waiting \cup {c}
    /\ fetchQ' = Append(fetchQ, c)
    /\ UNCHANGED <<reply, result, issued, completionQ, pc, cacheVars,
                   inflight, flushVars>>

(* recv_timeout gives up; the request stays wherever it is. *)
TimeOut(c) ==
    /\ c \in waiting
    /\ waiting' = waiting \ {c}
    /\ UNCHANGED <<request, reply, taskVars, fetchQ, completionQ, pc,
                   cacheVars, inflight, flushVars>>

(* The changeset manager sends a oneshot and awaits the cache: it never has
   two flushes outstanding. *)
AskFlush ==
    /\ ~flush /\ pc # "drain"
    /\ flushes < MaxFlushes
    /\ flush' = TRUE /\ flushes' = flushes + 1
    /\ UNCHANGED <<callVars, taskVars, fetchQ, completionQ, pc, cacheVars,
                   inflight, handed>>

-----------------------------------------------------------------------------
(* respond_to.send: a caller that gave up has dropped its receiver. *)
Respond(c, resp) ==
    /\ reply' = IF c \in waiting THEN [reply EXCEPT ![c] = resp] ELSE reply
    /\ waiting' = waiting \ {c}

(* A request under another tag than the cache's empties the cache. *)
TagChanges(c) == Tagged /\ cacheHash # request[c].tag

(* Mutant: a change of tag forgets the epoch. *)
RetagInSameEpoch(c) ==
    /\ cacheHash' = IF TagChanges(c) THEN request[c].tag ELSE cacheHash
    /\ UNCHANGED epoch

Retag(c) ==
    /\ cacheHash' = IF TagChanges(c) THEN request[c].tag ELSE cacheHash
    /\ epoch' = IF TagChanges(c) THEN epoch + 1 ELSE epoch

(* Mutant: a change of tag forgets to clear the cache. *)
RetainedAcrossTags(c) == cache

Retained(c) == IF TagChanges(c) THEN EmptyCache ELSE cache

(* The manager takes a request: from the select loop, or as the next one of
   the batch it is draining with try_recv. *)
TakesRequest(c) ==
    /\ pc \in {"select", "batch"}
    /\ fetchQ # <<>> /\ c = Head(fetchQ)
    /\ fetchQ' = Tail(fetchQ)
    /\ Retag(c)
    /\ cache' = Retained(c)

ServeHit(c) ==
    /\ TakesRequest(c)
    /\ Retained(c)[request[c].key] # Absent
    /\ Respond(c, Retained(c)[request[c].key])
    /\ phase' = [phase EXCEPT ![c] = "answered"]
    /\ pc' = "batch"
    /\ UNCHANGED <<request, result, issued, completionQ, inflight, flushVars>>

TakeMiss(c) ==
    /\ TakesRequest(c)
    /\ Retained(c)[request[c].key] = Absent
    /\ phase' = [phase EXCEPT ![c] = "permit"]
    /\ pc' = "permit"
    /\ UNCHANGED <<callVars, result, issued, completionQ, inflight, flushVars>>

(* acquire_owned returns and the fetch is spawned. *)
Spawn(c) ==
    /\ pc = "permit" /\ phase[c] = "permit"
    /\ Cardinality(HoldingPermit) < Permits
    /\ phase' = [phase EXCEPT ![c] = "rpc"]
    /\ issued' = [issued EXCEPT ![c] = epoch]
    /\ inflight' = inflight + 1
    /\ pc' = "batch"
    /\ UNCHANGED <<callVars, result, fetchQ, completionQ, cacheVars, flushVars>>

BatchEnds ==
    /\ pc = "batch" /\ fetchQ = <<>>
    /\ pc' = "select"
    /\ UNCHANGED <<callVars, taskVars, fetchQ, completionQ, cacheVars,
                   inflight, flushVars>>

-----------------------------------------------------------------------------
(* The spawned tasks. *)

RpcReturns(c, resp) ==
    /\ phase[c] = "rpc"
    /\ phase' = [phase EXCEPT ![c] = "sending"]
    /\ result' = [result EXCEPT ![c] = resp]
    /\ UNCHANGED <<callVars, issued, fetchQ, completionQ, pc, cacheVars,
                   inflight, flushVars>>

TaskSends(c) ==
    /\ phase[c] = "sending"
    /\ Len(completionQ) < CompletionDepth
    /\ phase' = [phase EXCEPT ![c] = "sent"]
    /\ completionQ' = Append(completionQ, c)
    /\ UNCHANGED <<callVars, result, issued, fetchQ, pc, cacheVars, inflight,
                   flushVars>>

-----------------------------------------------------------------------------
(* Mutant: errors are cached as well. *)
StoresErrors(resp) == resp # NotFound

(* Ok(resp), and S::store(resp) is not None: an account that does not exist is
   not kept. *)
Stores(resp) == resp \in Value

(* Mutant: obsolete results are kept. *)
StoresObsolete(c) == TRUE

(* Whether apply_completion may keep the result: a fetch issued under an
   older epoch answers its caller and is not stored. *)
MayStore(c) == ~EpochGuarded \/ issued[c] = epoch

(* Mutant: an obsolete result returns before it is sent to its caller. *)
ApplyOnlyFresh(c) ==
    /\ completionQ # <<>> /\ c = Head(completionQ)
    /\ completionQ' = Tail(completionQ)
    /\ inflight' = inflight - 1
    /\ phase' = [phase EXCEPT ![c] = "answered"]
    /\ cache' = IF Stores(result[c]) /\ MayStore(c)
                THEN [cache EXCEPT ![request[c].key] = result[c]]
                ELSE cache
    /\ IF MayStore(c) THEN Respond(c, result[c]) ELSE UNCHANGED <<reply, waiting>>
    /\ UNCHANGED <<request, result, issued, fetchQ, pc, cacheHash, epoch,
                   flushVars>>

ApplyCompletion(c) ==
    /\ completionQ # <<>> /\ c = Head(completionQ)
    /\ completionQ' = Tail(completionQ)
    /\ inflight' = inflight - 1
    /\ phase' = [phase EXCEPT ![c] = "answered"]
    /\ cache' = IF Stores(result[c]) /\ MayStore(c)
                THEN [cache EXCEPT ![request[c].key] = result[c]]
                ELSE cache
    /\ Respond(c, result[c])
    /\ UNCHANGED <<request, result, issued, fetchQ, pc, cacheHash, epoch,
                   flushVars>>

Complete(c) == pc = "select" /\ ApplyCompletion(c)

BeginFlush ==
    /\ pc = "select" /\ flush
    /\ flush' = FALSE
    /\ pc' = "drain"
    /\ UNCHANGED <<callVars, taskVars, fetchQ, completionQ, cacheVars,
                   inflight, flushes, handed>>

DrainOne(c) == pc = "drain" /\ inflight > 0 /\ ApplyCompletion(c)

(* The drain is over, or its deadline passed: timeout_at polls the channel
   first, so it gives up only when no completion is ready. *)
DrainOver == inflight = 0 \/ completionQ = <<>>

(* Mutant: abandoning a drain also resets the count. *)
HandOverResetsCount ==
    /\ pc = "drain" /\ DrainOver
    /\ handed' = [tag |-> cacheHash, data |-> cache]
    /\ cacheHash' = ZeroHash /\ cache' = EmptyCache
    /\ epoch' = epoch + 1 /\ inflight' = 0
    /\ pc' = "select"
    /\ UNCHANGED <<callVars, taskVars, fetchQ, completionQ, flush, flushes>>

HandOver ==
    /\ pc = "drain" /\ DrainOver
    /\ handed' = [tag |-> cacheHash, data |-> cache]
    /\ cacheHash' = ZeroHash /\ cache' = EmptyCache
    /\ epoch' = epoch + 1
    /\ pc' = "select"
    /\ UNCHANGED <<callVars, taskVars, fetchQ, completionQ, inflight, flush,
                   flushes>>

-----------------------------------------------------------------------------
Manager ==
    \/ \E c \in Call : \/ ServeHit(c) \/ TakeMiss(c) \/ Spawn(c)
                       \/ Complete(c) \/ DrainOne(c)
    \/ BatchEnds \/ BeginFlush \/ HandOver

Task(c) == TaskSends(c) \/ \E resp \in Response : RpcReturns(c, resp)

Next ==
    \/ \E c \in Call, r \in Request : Send(c, r)
    \/ \E c \in Call : TimeOut(c)
    \/ AskFlush
    \/ Manager
    \/ \E c \in Call : Task(c)

Spec == Init /\ [][Next]_vars

(* tokio polls every ready task again, and an RPC returns: the HTTP client
   has a timeout.  Nothing obliges a caller to call, to give up, or a flush
   to be asked for. *)
FairSpec ==
    /\ Spec
    /\ WF_vars(Manager)
    /\ \A c \in Call : WF_vars(Task(c))
-----------------------------------------------------------------------------
(* Type correctness of the manager's state (FetchManager<S> and the calls). *)
TypeOK ==
    /\ request \in [Call -> Request \cup {Absent}]
    /\ reply \in [Call -> Response \cup {Absent}]
    /\ waiting \subseteq Call
    /\ phase \in [Call -> Phase]
    /\ result \in [Call -> Response \cup {Absent}]
    /\ issued \in [Call -> Nat]
    /\ fetchQ \in Seq(Call)
    /\ completionQ \in Seq(Call)
    /\ pc \in {"select", "batch", "permit", "drain"}
    /\ cacheHash \in Tag /\ cache \in Cache
    /\ epoch \in Nat
    /\ inflight \in Nat
    /\ flush \in BOOLEAN /\ flushes \in 0..MaxFlushes
    /\ handed \in [tag: Tag, data: Cache]

(* The node returned value v to a fetch of key k issued under tag t, and the
   manager applied it.  The code manager's requests carry no tag. *)
Fetched(k, t, v) ==
    \E d \in Call : /\ phase[d] = "answered" /\ result[d] = v
                    /\ request[d].key = k
                    /\ Tagged => request[d].tag = t

(* The epoch guard of apply_completion: whatever the order in which fetches
   come back, and however often the tag changes or a flush empties the cache
   meanwhile, every value in the cache was fetched for its key under the tag
   the cache carries now, never under an earlier one. *)
CacheUnderTag ==
    \A k \in Key : cache[k] # Absent => Fetched(k, cacheHash, cache[k])

(* The same for what a flush hands over: merge_caches installs it in the
   snapshot of the block named by the tag. *)
HandedUnderTag ==
    \A k \in Key : handed.data[k] # Absent =>
                       Fetched(k, handed.tag, handed.data[k])

(* A reader is never given the answer to another question: its reply is what
   its own fetch returned or, on a cache hit, a value fetched for the same
   key under the same tag. *)
AnswersOwnRequest ==
    \A c \in Call : reply[c] # Absent =>
        \/ reply[c] = result[c]
        \/ reply[c] \in Value /\ Fetched(request[c].key, request[c].tag, reply[c])

(* inflight counts exactly the spawned fetches not applied yet, across
   batches, drains and abandoned drains: `inflight -= 1` cannot underflow and
   a drain that empties the channel ends with no fetch forgotten. *)
InflightExact == inflight = Cardinality(InFlight)

(* Every request the manager took is answered, on every branch (hit, miss,
   failure, obsolete epoch, drained by a flush): a caller still waiting always
   has its request somewhere on the way, never dropped. *)
WaiterHasRequest == \A c \in waiting : phase[c] \notin {"idle", "answered"}

(* A queued request is answered even if its caller gave up: the permits come
   back, the completion channel drains, and no flush holds the queue up for
   ever. *)
EveryRequestAnswered ==
    \A c \in Call : phase[c] = "queued" ~> phase[c] = "answered"

(* A flush gets its cache: the drain ends, by its count or by its deadline. *)
EveryFlushAnswered == flush ~> (~flush /\ pc # "drain")

(* How the queues and the parked request relate to the phases: a request is
   in one place only, and while the manager waits for a permit nothing moves
   the cache from the tag of the request it holds. *)
Holds(q, p, ph) ==
    \A i, j \in 1..Len(q) : ph[q[i]] = p /\ (q[i] = q[j] => i = j)

AtRest(c) ==
    /\ request[c] = Absent <=> phase[c] = "idle"
    /\ reply[c] # Absent => phase[c] = "answered"
    /\ phase[c] \in {"idle", "queued", "permit", "rpc"} => result[c] = Absent
    /\ phase[c] \in {"sending", "sent"} => result[c] # Absent
    /\ phase[c] = "permit" =>
          pc = "permit" /\ (Tagged => request[c].tag = cacheHash)

OneHeld ==
    \A c, d \in Call : phase[c] = "permit" /\ phase[d] = "permit" => c = d

OnePlace ==
    /\ Holds(fetchQ, "queued", phase)
    /\ Holds(completionQ, "sent", phase)
    /\ \A c \in Call : AtRest(c)
    /\ OneHeld

(* Why the epoch guard is enough: a fetch issued under the present epoch was
   issued under the present tag. *)
IssuedUnderTag ==
    \A c \in InFlight :
        /\ issued[c] <= epoch
        /\ Tagged /\ issued[c] = epoch => request[c].tag = cacheHash

(* The inductive invariant: what the proofs of FetchManagerProofs carry from
   step to step. *)
IInv == /\ TypeOK /\ OnePlace /\ InflightExact /\ IssuedUnderTag
        /\ CacheUnderTag /\ HandedUnderTag /\ AnswersOwnRequest
        /\ WaiterHasRequest

(* The manager implements FetchService: what the node gave for a call is the
   result of its RPC. *)
Promise == INSTANCE FetchService WITH given <- result
KeepsPromise == Promise!Spec
=============================================================================
