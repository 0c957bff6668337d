-------------------------- MODULE StateGuardProofs --------------------------
(* Proofs about StateGuard, for any number of readers and of swaps. *)
EXTENDS StateGuard, TLAPS

USE GuardAssumption

(* Before the first swap and the first simulation. *)
LEMMA InitInv == Init => IInv
BY DEF Init, IInv, TypeOK, GenerationFollows, Ordered, ValidSpansOneSwap, Alarmed,
       Snapshot, Guard, Place, Verdict, NoGuard

(* The steps of the writer: the snapshot moves first, the generation after. *)
LEMMA WriterStep ==
  ASSUME IInv, (\E stale \in BOOLEAN : Store(stale)) \/ Bump
  PROVE  IInv'
<1> USE DEF IInv, TypeOK, Snapshot
<1>1. inner'.id \in {inner.id, inner.id + 1} /\ generation' >= generation
      /\ UNCHANGED readers
  BY DEF Store, Bump
<1>2. TypeOK'
  BY DEF Store, Bump, GenerationFollows, readers
<1>3. GenerationFollows'
  BY DEF Store, Bump, GenerationFollows
<1>4. Ordered'
  BY <1>1, <1>2 DEF Store, Bump, Ordered, readers, Guard
<1>5. ValidSpansOneSwap'
  BY <1>1 DEF ValidSpansOneSwap, readers
<1>6. Alarmed'
  BY <1>1 DEF Alarmed, readers, Guard
<1> QED
  BY <1>2, <1>3, <1>4, <1>5, <1>6

(* What IInv says of one reader. *)
OrderedOne(q) ==
    /\ at[q] # "idle" => guard[q].generation <= generation
    /\ at[q] \in {"idle", "generation"} => seen[q] = {}
    /\ at[q] \in {"idle", "generation", "id", "run", "checked"} => verdict[q] = "none"
    /\ at[q] \notin {"idle", "generation"} =>
          /\ guard[q].id \in guard[q].generation .. inner.id
          /\ \A i \in seen[q] : i \in guard[q].generation .. inner.id
    /\ at[q] = "run" /\ inner.stale /\ ~guard[q].stale =>
          guard[q].generation < inner.id
    /\ verdict[q] = "Valid" =>
          seen[q] \subseteq {guard[q].generation, guard[q].generation + 1}
    /\ verdict[q] = "Changed" => guard[q].generation < inner.id
    /\ verdict[q] = "BecameStale" => guard[q].generation < inner.id

LEMMA PerReader ==
  Ordered /\ ValidSpansOneSwap /\ Alarmed <=> \A q \in Reader : OrderedOne(q)
BY DEF Ordered, ValidSpansOneSwap, Alarmed, OrderedOne

(* The snapshot in place is never behind the generation, nor more than one
   ahead of it. *)
LEMMA Window ==
  ASSUME IInv
  PROVE  /\ generation \in Nat /\ inner.id \in Nat
         /\ generation <= inner.id /\ inner.id <= generation + 1
BY DEF IInv, TypeOK, GenerationFollows, Snapshot

(* A reader's step touches that reader only. *)
Others(r) == \A q \in Reader \ {r} : /\ at'[q] = at[q] /\ guard'[q] = guard[q]
                                      /\ seen'[q] = seen[q] /\ verdict'[q] = verdict[q]

LEMMA OneReaderStep ==
  ASSUME IInv, NEW r \in Reader, Others(r), UNCHANGED <<inner, generation, writer>>,
         TypeOK', OrderedOne(r)'
  PROVE  IInv'
<1>1. GenerationFollows'
  BY DEF IInv, GenerationFollows
<1>2. \A q \in Reader : OrderedOne(q)
  BY PerReader DEF IInv
<1>3. ASSUME NEW q \in Reader PROVE OrderedOne(q)'
  BY <1>2 DEF Others, OrderedOne
<1>4. (Ordered /\ ValidSpansOneSwap /\ Alarmed)'
  BY <1>3 DEF Ordered, ValidSpansOneSwap, Alarmed, OrderedOne
<1> QED
  BY <1>1, <1>4 DEF IInv

(* guard(): the generation is loaded first, so it is the oldest thing the
   reader holds. *)
LEMMA GuardStep ==
  ASSUME IInv, NEW r \in Reader, LoadGeneration(r) \/ LoadHash(r) \/ LoadStale(r)
  PROVE  IInv'
<1> USE DEF IInv, TypeOK, Snapshot, Guard, Place
<1>1. OrderedOne(r)
  BY PerReader
<1>2. TypeOK'
  BY DEF LoadGeneration, LoadHash, LoadStale
<1>3. Others(r) /\ UNCHANGED <<inner, generation, writer>>
  BY DEF LoadGeneration, LoadHash, LoadStale, Others
<1>4. OrderedOne(r)'
  <2>1. CASE LoadGeneration(r)
    BY <1>1, <2>1 DEF LoadGeneration, OrderedOne
  <2>2. CASE LoadHash(r)
    BY <1>1, <2>2, Window DEF LoadHash, OrderedOne
  <2>3. CASE LoadStale(r)
    BY <1>1, <2>3 DEF LoadStale, OrderedOne
  <2> QED
    BY <2>1, <2>2, <2>3
<1> QED
  BY <1>2, <1>3, <1>4, OneReaderStep

(* A read loads the snapshot in place, newer than anything the reader holds. *)
LEMMA ReadStep ==
  ASSUME IInv, NEW r \in Reader, Read(r)
  PROVE  IInv'
<1> USE DEF IInv, TypeOK, Snapshot, Guard, Place
<1>1. OrderedOne(r)
  BY PerReader
<1>2. TypeOK'
  BY DEF Read
<1>3. Others(r) /\ UNCHANGED <<inner, generation, writer>>
  BY DEF Read, Others
<1>4. guard[r].generation <= inner.id
  BY <1>1, Window DEF Read, OrderedOne
<1>5. /\ at[r] = "run" /\ inner' = inner /\ generation' = generation
      /\ guard'[r] = guard[r] /\ verdict'[r] = verdict[r]
  BY DEF Read
<1>6. OrderedOne(r)'
  <2>1. CASE inner.stale
    <3>1. at'[r] = "failed" /\ seen'[r] = seen[r]
      BY <2>1 DEF Read
    <3> QED
      BY <1>1, <1>5, <3>1 DEF OrderedOne
  <2>2. CASE ~inner.stale
    <3>1. at'[r] = "run" /\ seen'[r] = seen[r] \cup {inner.id}
      BY <2>2 DEF Read
    <3>2. inner.id \in guard[r].generation .. inner.id
      BY <1>4
    <3>3. \A i \in seen'[r] : i \in guard[r].generation .. inner.id
      BY <1>1, <1>5, <3>1, <3>2 DEF OrderedOne
    <3> QED
      BY <1>1, <1>5, <2>2, <3>1, <3>3 DEF OrderedOne
  <2> QED
    BY <2>1, <2>2
<1> QED
  BY <1>2, <1>3, <1>6, OneReaderStep

(* check_guard(): if the generation has not moved, the snapshot in place is
   at most one ahead of it, and so is everything read. *)
LEMMA CheckStep ==
  ASSUME IInv, NEW r \in Reader, CheckStale(r) \/ CheckGeneration(r) \/ Again(r)
  PROVE  IInv'
<1> USE DEF IInv, TypeOK, Snapshot, Guard, Place, Verdict
<1>1. OrderedOne(r)
  BY PerReader
<1>2. TypeOK'
  <2>1. CASE CheckStale(r)
    BY <2>1 DEF CheckStale
  <2>2. CASE CheckGeneration(r)
    BY <2>2 DEF CheckGeneration
  <2>3. CASE Again(r)
    BY <2>3 DEF Again, NoGuard
  <2> QED
    BY <2>1, <2>2, <2>3
<1>3. Others(r) /\ UNCHANGED <<inner, generation, writer>>
  BY DEF CheckStale, CheckGeneration, Again, Others
<1>4. OrderedOne(r)'
  <2>1. CASE CheckStale(r)
    BY <1>1, <2>1 DEF CheckStale, OrderedOne
  <2>2. CASE CheckGeneration(r)
    <3>1. /\ at[r] = "checked" /\ at'[r] = "done" /\ inner' = inner
          /\ generation' = generation /\ guard'[r] = guard[r] /\ seen'[r] = seen[r]
      BY <2>2 DEF CheckGeneration
    <3>2. guard[r].generation \in Nat /\ guard[r].generation <= generation
      BY <1>1, <3>1 DEF OrderedOne
    <3>3. \A i \in seen[r] : i \in guard[r].generation .. inner.id
      BY <1>1, <3>1 DEF OrderedOne
    <3>4. CASE guard[r].generation # generation
      <4>1. verdict'[r] = "Changed"
        BY <2>2, <3>4 DEF CheckGeneration
      <4>2. guard[r].generation < inner.id
        <5> HIDE DEF IInv, TypeOK, Snapshot, Guard
        <5> QED
          BY <3>4, <3>2, Window
      <4> QED
        BY <1>1, <3>1, <4>1, <4>2 DEF OrderedOne
    <3>5. CASE guard[r].generation = generation
      <4>1. seen[r] \subseteq {guard[r].generation, guard[r].generation + 1}
        <5> HIDE DEF IInv, TypeOK, Snapshot, Guard
        <5> QED
          BY <3>5, <3>2, <3>3, Window
      <4>2. verdict'[r] = "Valid"
        BY <2>2, <3>5 DEF CheckGeneration
      <4> QED
        BY <1>1, <3>1, <4>1, <4>2 DEF OrderedOne
    <3> QED
      BY <3>4, <3>5
  <2>3. CASE Again(r)
    BY <1>1, <2>3 DEF Again, OrderedOne, NoGuard
  <2> QED
    BY <2>1, <2>2, <2>3
<1> QED
  BY <1>2, <1>3, <1>4, OneReaderStep

LEMMA Step == IInv /\ [Next]_vars => IInv'
<1> SUFFICES ASSUME IInv, [Next]_vars PROVE IInv'
  OBVIOUS
<1>1. CASE (\E stale \in BOOLEAN : Store(stale)) \/ Bump
  BY <1>1, WriterStep
<1>2. ASSUME NEW r \in Reader, LoadGeneration(r) \/ LoadHash(r) \/ LoadStale(r)
      PROVE  IInv'
  BY <1>2, GuardStep
<1>3. ASSUME NEW r \in Reader, Read(r) PROVE IInv'
  BY <1>3, ReadStep
<1>4. ASSUME NEW r \in Reader, CheckStale(r) \/ CheckGeneration(r) \/ Again(r)
      PROVE  IInv'
  BY <1>4, CheckStep
<1>5. CASE UNCHANGED vars
  BY <1>5 DEF vars, readers, IInv, TypeOK, GenerationFollows, Ordered, ValidSpansOneSwap,
              Alarmed
<1> QED
  BY <1>1, <1>2, <1>3, <1>4, <1>5 DEF Next

(* The invariant holds in every reachable state. *)
THEOREM Inductive == Spec => []IInv
BY InitInv, Step, PTL DEF Spec

(* The atomics of StaticState and the guards keep their types. *)
THEOREM TypeCorrect == Spec => []TypeOK
BY Inductive, PTL DEF IInv

(* A verdict other than Valid is never a false alarm. *)
THEOREM AlarmsAreTrue == Spec => []Alarmed
BY Inductive, PTL DEF IInv

(* A result check_guard calls Valid spans one swap at most, and one it sends
   away was overtaken by a swap. *)
THEOREM ValidIsBounded == Spec => [](ValidSpansOneSwap /\ Alarmed)
BY Inductive, PTL DEF IInv

(* Outside the window between store and fetch_add, Valid means one snapshot:
   the one still in place. *)
THEOREM ValidIsExact == Spec => ValidWhenQuiet
<1>1. ASSUME IInv, [Next]_vars, NEW r \in Reader,
             verdict[r] = "none", verdict'[r] = "Valid", writer = "idle"
      PROVE  seen[r] \cup {guard[r].id} \subseteq {inner.id}
  <2>1. CheckGeneration(r) /\ guard[r].generation = generation
    BY <1>1 DEF Next, vars, readers, Store, Bump, LoadGeneration, LoadHash, LoadStale, Read,
                CheckStale, CheckGeneration, Again, IInv, TypeOK
  <2>2. generation = inner.id
    BY <1>1 DEF IInv, GenerationFollows
  <2>3. /\ guard[r].id \in inner.id .. inner.id
        /\ \A i \in seen[r] : i \in inner.id .. inner.id
    BY <1>1, <2>1, <2>2 DEF CheckGeneration, IInv, Ordered
  <2> QED
    BY <1>1, <2>3, Window
<1>2. IInv /\ [Next]_vars =>
        [\A r \in Reader :
            verdict[r] = "none" /\ verdict'[r] = "Valid" /\ writer = "idle" =>
                seen[r] \cup {guard[r].id} \subseteq {inner.id}]_vars
  BY <1>1
<1> QED
  BY <1>2, Inductive, PTL DEF Spec, ValidWhenQuiet
=============================================================================
