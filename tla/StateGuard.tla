----------------------------- MODULE StateGuard -----------------------------
(***************************************************************************)
(* StaticState as its threads see it (state.rs): the changeset manager     *)
(* swaps snapshots, and any number of reader threads run simulations       *)
(* between guard() and check_guard().  Each atomic load or store is a step *)
(* of its own.                                                             *)
(*                                                                         *)
(* Interleaving these steps covers the orderings of the code: a reader     *)
(* whose Acquire load sees an increment of the generation also sees the    *)
(* snapshot stored before it (Release), and one that does not see it yet   *)
(* behaves as if the increment came later.                                 *)
(***************************************************************************)
EXTENDS Integers, FiniteSets

CONSTANTS
    Reader,
    MaxSwaps     \* bound: snapshots stored

ASSUME GuardAssumption == MaxSwaps \in Nat

VARIABLES
    inner,       \* the ArcSwap: which snapshot, counted by stores, and if stale
    generation,  \* the AtomicU64
    writer,      \* "idle", or "stored": between inner.store and fetch_add
    at,          \* where each reader is
    guard,       \* its StateGuard
    seen,        \* the snapshots its reads were answered from
    verdict      \* what check_guard returned

readers == <<at, guard, seen, verdict>>
vars == <<inner, generation, writer, readers>>

Snapshot == [id: 0..MaxSwaps, stale: BOOLEAN]
Guard == [generation: 0..MaxSwaps, id: 0..MaxSwaps, stale: BOOLEAN]
Verdict == {"none", "Valid", "WasStale", "BecameStale", "Changed"}

(* idle: no simulation; generation, id: guard() has done one and two of its
   three loads; run: the guard is taken; checked: check_guard has seen a
   snapshot that is not stale; failed: a read returned StaleState; done. *)
Place == {"idle", "generation", "id", "run", "checked", "failed", "done"}

NoGuard == [generation |-> 0, id |-> 0, stale |-> FALSE]

Init ==
    /\ inner = [id |-> 0, stale |-> FALSE] /\ generation = 0 /\ writer = "idle"
    /\ at = [r \in Reader |-> "idle"]
    /\ guard = [r \in Reader |-> NoGuard]
    /\ seen = [r \in Reader |-> {}]
    /\ verdict = [r \in Reader |-> "none"]

-----------------------------------------------------------------------------
(* Mutant: the store counts the swap too. *)
StoreAndCount(stale) ==
    /\ writer = "idle" /\ inner.id < MaxSwaps
    /\ inner' = [id |-> inner.id + 1, stale |-> stale]
    /\ generation' = generation + 1
    /\ writer' = "stored"
    /\ UNCHANGED readers

(* swap: two steps of the changeset manager, the only writer. *)
Store(stale) ==
    /\ writer = "idle" /\ inner.id < MaxSwaps
    /\ inner' = [id |-> inner.id + 1, stale |-> stale]
    /\ writer' = "stored"
    /\ UNCHANGED <<generation, readers>>

Bump ==
    /\ writer = "stored"
    /\ generation' = generation + 1
    /\ writer' = "idle"
    /\ UNCHANGED <<inner, readers>>

-----------------------------------------------------------------------------
(* guard(): three loads. *)
LoadGeneration(r) ==
    /\ at[r] = "idle"
    /\ at' = [at EXCEPT ![r] = "generation"]
    /\ guard' = [guard EXCEPT ![r].generation = generation]
    /\ UNCHANGED <<inner, generation, writer, seen, verdict>>

LoadHash(r) ==
    /\ at[r] = "generation"
    /\ at' = [at EXCEPT ![r] = "id"]
    /\ guard' = [guard EXCEPT ![r].id = inner.id]
    /\ UNCHANGED <<inner, generation, writer, seen, verdict>>

(* Mutant: the generation is loaded last. *)
LoadGenerationLast(r) ==
    /\ at[r] = "id"
    /\ at' = [at EXCEPT ![r] = "run"]
    /\ guard' = [guard EXCEPT ![r].stale = inner.stale, ![r].generation = generation]
    /\ UNCHANGED <<inner, generation, writer, seen, verdict>>

LoadStale(r) ==
    /\ at[r] = "id"
    /\ at' = [at EXCEPT ![r] = "run"]
    /\ guard' = [guard EXCEPT ![r].stale = inner.stale]
    /\ UNCHANGED <<inner, generation, writer, seen, verdict>>

(* One DatabaseRef read of the simulation: it loads the snapshot anew, and
   fails on a stale one. *)
Read(r) ==
    /\ at[r] = "run"
    /\ IF inner.stale
       THEN at' = [at EXCEPT ![r] = "failed"] /\ UNCHANGED seen
       ELSE seen' = [seen EXCEPT ![r] = @ \cup {inner.id}] /\ UNCHANGED at
    /\ UNCHANGED <<inner, generation, writer, guard, verdict>>

(* Mutant: the flag in place is looked at before the guard's own. *)
CheckPresentFlagFirst(r) ==
    /\ at[r] = "run"
    /\ IF guard[r].stale \/ inner.stale
       THEN /\ at' = [at EXCEPT ![r] = "done"]
            /\ verdict' = [verdict EXCEPT ![r] =
                             IF inner.stale THEN "BecameStale" ELSE "WasStale"]
       ELSE at' = [at EXCEPT ![r] = "checked"] /\ UNCHANGED verdict
    /\ UNCHANGED <<inner, generation, writer, guard, seen>>

(* check_guard(): the stale flags first, then the generation. *)
CheckStale(r) ==
    /\ at[r] = "run"
    /\ IF guard[r].stale \/ inner.stale
       THEN /\ at' = [at EXCEPT ![r] = "done"]
            /\ verdict' = [verdict EXCEPT ![r] =
                             IF guard[r].stale THEN "WasStale" ELSE "BecameStale"]
       ELSE at' = [at EXCEPT ![r] = "checked"] /\ UNCHANGED verdict
    /\ UNCHANGED <<inner, generation, writer, guard, seen>>

(* Mutant: the generations are never compared. *)
CheckFlagsOnly(r) ==
    /\ at[r] = "checked"
    /\ at' = [at EXCEPT ![r] = "done"]
    /\ verdict' = [verdict EXCEPT ![r] = "Valid"]
    /\ UNCHANGED <<inner, generation, writer, guard, seen>>

CheckGeneration(r) ==
    /\ at[r] = "checked"
    /\ at' = [at EXCEPT ![r] = "done"]
    /\ verdict' = [verdict EXCEPT ![r] =
                     IF guard[r].generation # generation THEN "Changed" ELSE "Valid"]
    /\ UNCHANGED <<inner, generation, writer, guard, seen>>

(* The next simulation of the thread. *)
Again(r) ==
    /\ at[r] \in {"failed", "done"}
    /\ at' = [at EXCEPT ![r] = "idle"]
    /\ guard' = [guard EXCEPT ![r] = NoGuard]
    /\ seen' = [seen EXCEPT ![r] = {}]
    /\ verdict' = [verdict EXCEPT ![r] = "none"]
    /\ UNCHANGED <<inner, generation, writer>>

Next ==
    \/ \E stale \in BOOLEAN : Store(stale)
    \/ Bump
    \/ \E r \in Reader :
          \/ LoadGeneration(r) \/ LoadHash(r) \/ LoadStale(r)
          \/ Read(r) \/ CheckStale(r) \/ CheckGeneration(r) \/ Again(r)

Spec == Init /\ [][Next]_vars

-----------------------------------------------------------------------------
(* Type correctness of the shared state and of the readers' own. *)
TypeOK ==
    /\ inner \in Snapshot /\ generation \in 0..MaxSwaps
    /\ writer \in {"idle", "stored"}
    /\ at \in [Reader -> Place] /\ guard \in [Reader -> Guard]
    /\ seen \in [Reader -> SUBSET (0..MaxSwaps)]
    /\ verdict \in [Reader -> Verdict]

(* The generation is the number of the snapshot in place, or one behind it
   while a swap is between its two steps. *)
GenerationFollows ==
    generation = IF writer = "idle" THEN inner.id ELSE inner.id - 1

(* What check_guard is for: on Valid, everything the simulation read came
   from the snapshot of the guard's generation or from the one next to it:
   no second swap can hide behind the window between store and fetch_add. *)
ValidSpansOneSwap ==
    \A r \in Reader : verdict[r] = "Valid" =>
        seen[r] \subseteq {guard[r].generation, guard[r].generation + 1}

(* If no swap is in that window when the generation is checked, Valid means
   what DESIGN.md says: guard and reads are all of one snapshot, the one
   still in place. *)
ValidWhenQuiet ==
    [][\A r \in Reader :
          verdict[r] = "none" /\ verdict'[r] = "Valid" /\ writer = "idle" =>
              seen[r] \cup {guard[r].id} \subseteq {inner.id}]_vars

(* A verdict that sends the result away is never a false alarm about
   nothing: a snapshot was swapped in, or was stale, since the guard was
   taken or while it was. *)
Alarmed ==
    \A r \in Reader :
        /\ verdict[r] = "Changed" => guard[r].generation < inner.id
        /\ verdict[r] = "BecameStale" => guard[r].generation < inner.id

(* Everything a reader holds was loaded after its
   generation, hence lies between that generation and the snapshot in place. *)
Ordered ==
    \A r \in Reader :
        /\ at[r] # "idle" => guard[r].generation <= generation
        /\ at[r] \in {"idle", "generation"} => seen[r] = {}
        /\ at[r] \in {"idle", "generation", "id", "run", "checked"} => verdict[r] = "none"
        /\ at[r] \notin {"idle", "generation"} =>
              /\ guard[r].id \in guard[r].generation .. inner.id
              /\ \A i \in seen[r] : i \in guard[r].generation .. inner.id
        /\ at[r] = "run" /\ inner.stale /\ ~guard[r].stale =>
              guard[r].generation < inner.id

(* What StateGuardProofs carries from step to step. *)
IInv == TypeOK /\ GenerationFollows /\ Ordered /\ ValidSpansOneSwap /\ Alarmed
=============================================================================
