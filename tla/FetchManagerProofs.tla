------------------------- MODULE FetchManagerProofs -------------------------
(* Proofs about FetchManager, for any number of calls, keys, tags, permits
   and flushes. *)
EXTENDS FetchManager, FiniteSetTheorems, TLAPS

USE FetchAssumption

(* The head and the tail of a queue. *)
LEMMA QueueHead ==
  ASSUME NEW q \in Seq(Call), q # <<>>
  PROVE  /\ Len(q) \in Nat /\ 1 \in 1..Len(q)
         /\ Head(q) = q[1] /\ Head(q) \in Call
         /\ Tail(q) \in Seq(Call) /\ Len(Tail(q)) = Len(q) - 1
         /\ \A i \in 1..Len(Tail(q)) : /\ i + 1 \in 1..Len(q) /\ i + 1 # 1
                                      /\ Tail(q)[i] = q[i + 1]
OBVIOUS

(* A call put at the end of a queue. *)
LEMMA QueueAppend ==
  ASSUME NEW q \in Seq(Call), NEW c \in Call
  PROVE  /\ Append(q, c) \in Seq(Call) /\ Len(Append(q, c)) = Len(q) + 1
         /\ Len(q) \in Nat
         /\ \A i \in 1..Len(q) : Append(q, c)[i] = q[i]
         /\ Append(q, c)[Len(q) + 1] = c
OBVIOUS

(* A queue is untouched by a call of another phase that moves to another
   phase. *)
LEMMA QueueKept ==
  ASSUME NEW q \in Seq(Call), NEW p, NEW ph \in [Call -> Phase],
         Holds(q, p, ph), NEW c \in Call, ph[c] # p, NEW n
  PROVE  Holds(q, p, [ph EXCEPT ![c] = n])
BY DEF Holds

(* Taking the head of a queue and moving it to another phase. *)
LEMMA QueueTaken ==
  ASSUME NEW q \in Seq(Call), NEW p, NEW ph \in [Call -> Phase],
         Holds(q, p, ph), q # <<>>, NEW n
  PROVE  Holds(Tail(q), p, [ph EXCEPT ![Head(q)] = n])
<1> SUFFICES ASSUME NEW i \in 1..Len(Tail(q)), NEW j \in 1..Len(Tail(q))
             PROVE  /\ [ph EXCEPT ![Head(q)] = n][Tail(q)[i]] = p
                    /\ Tail(q)[i] = Tail(q)[j] => i = j
  BY DEF Holds
<1>1. /\ Tail(q)[i] = q[i + 1] /\ Tail(q)[j] = q[j + 1]
      /\ 1 \in 1..Len(q) /\ i + 1 \in 1..Len(q) /\ j + 1 \in 1..Len(q)
      /\ i + 1 # 1 /\ Head(q) = q[1]
  BY QueueHead
<1>2. q[i + 1] # q[1] /\ (q[i + 1] = q[j + 1] => i + 1 = j + 1)
      /\ ph[q[i + 1]] = p
  BY <1>1 DEF Holds
<1>3. q[i + 1] \in Call
  BY <1>1
<1> QED
  BY <1>1, <1>2, <1>3

(* A call of another phase that joins the queue. *)
LEMMA QueueJoined ==
  ASSUME NEW q \in Seq(Call), NEW p, NEW ph \in [Call -> Phase],
         Holds(q, p, ph), NEW c \in Call, ph[c] # p
  PROVE  Holds(Append(q, c), p, [ph EXCEPT ![c] = p])
<1> DEFINE r == Append(q, c)
<1>1. /\ Len(q) \in Nat /\ Len(r) = Len(q) + 1 /\ r[Len(q) + 1] = c
      /\ \A i \in 1..Len(q) : r[i] = q[i] /\ q[i] \in Call
  BY QueueAppend
<1>2. \A i \in 1..Len(q) : ph[q[i]] = p /\ q[i] # c
  BY DEF Holds
<1>3. \A i \in 1..Len(r) : [ph EXCEPT ![c] = p][r[i]] = p
  BY <1>1, <1>2
<1>4. ASSUME NEW i \in 1..Len(r), NEW j \in 1..Len(r), r[i] = r[j] PROVE i = j
  <2>1. CASE i \in 1..Len(q) /\ j \in 1..Len(q)
    BY <2>1, <1>1, <1>4 DEF Holds
  <2>2. CASE i = Len(q) + 1 \/ j = Len(q) + 1
    BY <2>2, <1>1, <1>2, <1>4
  <2> QED
    BY <2>1, <2>2, <1>1
<1> QED
  BY <1>3, <1>4 DEF Holds

(* The request the manager takes is a queued one. *)
LEMMA Taken ==
  ASSUME IInv, NEW c \in Call, TakesRequest(c)
  PROVE  /\ phase[c] = "queued" /\ request[c] \in Request
         /\ result[c] = Absent
         /\ fetchQ' \in Seq(Call)
         /\ cacheHash' \in Tag /\ epoch' \in Nat /\ cache' \in Cache
         /\ Tagged => cacheHash' = request[c].tag
<1>1. phase[c] = "queued"
  BY QueueHead DEF IInv, TypeOK, OnePlace, Holds, TakesRequest
<1>2. request[c] \in Request /\ result[c] = Absent
  BY <1>1 DEF IInv, TypeOK, OnePlace, AtRest
<1>3. fetchQ' \in Seq(Call)
  BY QueueHead DEF IInv, TypeOK, TakesRequest
<1>4. /\ cacheHash' \in Tag /\ epoch' \in Nat
      /\ Tagged => cacheHash' = request[c].tag
  BY <1>2 DEF IInv, TypeOK, TakesRequest, Retag, TagChanges, Request
<1>5. cache' \in Cache
  BY DEF IInv, TypeOK, TakesRequest, Retained, Cache, EmptyCache
<1> QED
  BY <1>1, <1>2, <1>3, <1>4, <1>5

(* The completion the manager applies is that of a fetch that is in flight. *)
LEMMA Applied ==
  ASSUME IInv, NEW c \in Call, ApplyCompletion(c)
  PROVE  /\ phase[c] = "sent" /\ request[c] \in Request
         /\ result[c] \in Response
         /\ completionQ' \in Seq(Call)
         /\ cache' \in Cache
<1>1. phase[c] = "sent"
  BY QueueHead DEF IInv, TypeOK, OnePlace, Holds, ApplyCompletion
<1>2. request[c] \in Request /\ result[c] \in Response
  BY <1>1 DEF IInv, TypeOK, OnePlace, AtRest
<1>3. completionQ' \in Seq(Call)
  BY QueueHead DEF IInv, TypeOK, ApplyCompletion
<1>4. cache' \in Cache
  BY <1>2 DEF Stores, IInv, TypeOK, ApplyCompletion, Cache, Request
<1> QED
  BY <1>1, <1>2, <1>3, <1>4

(* No fetch is in flight at first. *)
LEMMA InitInv == Init => IInv
<1> SUFFICES ASSUME Init PROVE IInv
  OBVIOUS
<1>1. TypeOK
  <2>1. EmptyCache \in Cache
    BY DEF EmptyCache, Cache
  <2>2. waiting \subseteq Call /\ flushes \in 0..MaxFlushes /\ inflight \in Nat
    BY DEF Init
  <2>3. phase \in [Call -> Phase] /\ issued \in [Call -> Nat]
    BY DEF Init, Phase
  <2>4. request \in [Call -> Request \cup {Absent}]
    BY DEF Init
  <2>5. /\ reply \in [Call -> Response \cup {Absent}]
        /\ result \in [Call -> Response \cup {Absent}]
    BY DEF Init
  <2>6. fetchQ \in Seq(Call) /\ completionQ \in Seq(Call)
    BY DEF Init
  <2>7. handed \in [tag: Tag, data: Cache] /\ cacheHash \in Tag /\ cache \in Cache
    BY <2>1 DEF Init
  <2> QED
    BY <2>1, <2>2, <2>3, <2>4, <2>5, <2>6, <2>7 DEF Init, TypeOK
<1>2. OnePlace
  BY DEF Init, OnePlace, OneHeld, Holds, AtRest
<1>3. InFlight = {}
  BY DEF Init, InFlight
<1>4. InflightExact
  BY <1>3, FS_EmptySet DEF Init, InflightExact
<1>5. IssuedUnderTag
  BY <1>3 DEF IssuedUnderTag
<1>6. CacheUnderTag /\ HandedUnderTag
  BY DEF Init, CacheUnderTag, HandedUnderTag, EmptyCache
<1>7. AnswersOwnRequest /\ WaiterHasRequest
  BY DEF Init, AnswersOwnRequest, WaiterHasRequest
<1> QED
  BY <1>1, <1>2, <1>4, <1>5, <1>6, <1>7 DEF IInv

(* A finite set of calls gains or loses one spawned fetch. *)
LEMMA InFlightFinite == /\ IsFiniteSet(InFlight)
                        /\ Cardinality(InFlight) \in Nat
<1>1. InFlight \subseteq Call
  BY DEF InFlight
<1> QED
  BY <1>1, FS_Subset, FS_CardinalityType

(* Every step keeps the state well typed: the only subtraction is that of
   inflight, which OnePlace and InflightExact keep above zero. *)
LEMMA TypeStep == IInv /\ [Next]_vars => TypeOK'
<1> SUFFICES ASSUME IInv, [Next]_vars PROVE TypeOK'
  OBVIOUS
<1> USE DEF IInv
<1>1. ASSUME NEW c \in Call, NEW r \in Request, Send(c, r) PROVE TypeOK'
  BY <1>1 DEF TypeOK, Send, Phase, cacheVars, flushVars
<1>2. ASSUME NEW c \in Call, TimeOut(c) PROVE TypeOK'
  BY <1>2 DEF TypeOK, TimeOut, taskVars, cacheVars, flushVars
<1>3. CASE AskFlush
  BY <1>3 DEF TypeOK, AskFlush, callVars, taskVars, cacheVars
<1>4. ASSUME NEW c \in Call, ServeHit(c) PROVE TypeOK'
  <2>1. TakesRequest(c)
    BY <1>4 DEF ServeHit
  <2>2. reply' \in [Call -> Response \cup {Absent}] /\ waiting' \subseteq Call
    <3>1. cache'[request[c].key] \in Response
      BY <1>4, <2>1, Taken DEF ServeHit, TakesRequest, Request, Cache, Response
    <3>2. Respond(c, cache'[request[c].key])
      BY <1>4 DEF ServeHit, TakesRequest
    <3> QED
      BY <3>1, <3>2 DEF Respond, TypeOK
  <2> QED
    BY <1>4, <2>1, <2>2, Taken DEF ServeHit, TypeOK, Phase, flushVars
<1>5. ASSUME NEW c \in Call, TakeMiss(c) PROVE TypeOK'
  <2>1. TakesRequest(c)
    BY <1>5 DEF TakeMiss
  <2> QED
    BY <1>5, <2>1, Taken DEF TakeMiss, TypeOK, Phase, callVars, flushVars
<1>6. ASSUME NEW c \in Call, Spawn(c) PROVE TypeOK'
  BY <1>6 DEF TypeOK, Spawn, Phase, callVars, cacheVars, flushVars
<1>7. ASSUME NEW c \in Call, ApplyCompletion(c) PROVE TypeOK'
  <2>1. c \in InFlight
    BY <1>7, Applied DEF InFlight
  <2>2. inflight # 0
    BY <2>1, InFlightFinite, FS_EmptySet DEF InflightExact
  <2>3. inflight' \in Nat
    BY <1>7, <2>2 DEF ApplyCompletion, TypeOK
  <2>4. reply' \in [Call -> Response \cup {Absent}] /\ waiting' \subseteq Call
    BY <1>7, Applied DEF ApplyCompletion, Respond, TypeOK
  <2> QED
    BY <1>7, <2>3, <2>4, Applied DEF ApplyCompletion, TypeOK, Phase, flushVars
<1>8. CASE BatchEnds
  BY <1>8 DEF TypeOK, BatchEnds, callVars, taskVars, cacheVars, flushVars
<1>9. CASE BeginFlush
  BY <1>9 DEF TypeOK, BeginFlush, callVars, taskVars, cacheVars
<1>10. CASE HandOver
  BY <1>10 DEF TypeOK, HandOver, callVars, taskVars, Cache, EmptyCache
<1>11. ASSUME NEW c \in Call, TaskSends(c) PROVE TypeOK'
  BY <1>11 DEF TypeOK, TaskSends, Phase, callVars, cacheVars, flushVars
<1>12. ASSUME NEW c \in Call, NEW resp \in Response, RpcReturns(c, resp) PROVE TypeOK'
  BY <1>12 DEF TypeOK, RpcReturns, Phase, callVars, cacheVars, flushVars
<1>13. CASE UNCHANGED vars
  BY <1>13 DEF TypeOK, vars, callVars, taskVars, cacheVars, flushVars
<1> QED
  BY <1>1, <1>2, <1>3, <1>4, <1>5, <1>6, <1>7, <1>8, <1>9, <1>10, <1>11, <1>12, <1>13
     DEF Next, Manager, Task, Complete, DrainOne


(* No step puts a request in two places, or moves the cache to another tag
   while the manager holds a request. *)
LEMMA OnePlaceStep == IInv /\ [Next]_vars => OnePlace'
<1> SUFFICES ASSUME IInv, [Next]_vars PROVE OnePlace'
  OBVIOUS
<1> USE DEF IInv, TypeOK
<1>0. /\ Holds(fetchQ, "queued", phase) /\ Holds(completionQ, "sent", phase)
      /\ \A c \in Call : AtRest(c)
      /\ OneHeld
  BY DEF OnePlace
<1>1. ASSUME NEW c \in Call, NEW r \in Request, Send(c, r) PROVE OnePlace'
  <2>1. Holds(fetchQ, "queued", phase)'
    BY <1>0, <1>1, QueueJoined DEF Send
  <2>2. Holds(completionQ, "sent", phase)'
    BY <1>0, <1>1, QueueKept DEF Send
  <2>3. r # Absent
    BY FetchAssumption
  <2>4. ASSUME NEW d \in Call PROVE AtRest(d)'
    BY <1>0, <1>1, <2>3 DEF Send, AtRest, cacheVars
  <2>5. OneHeld'
    BY <1>0, <1>1 DEF Send, OneHeld
  <2> QED
    BY <2>1, <2>2, <2>4, <2>5 DEF OnePlace
<1>2. ASSUME NEW c \in Call, TimeOut(c) PROVE OnePlace'
  BY <1>0, <1>2 DEF OnePlace, OneHeld, Holds, AtRest, TimeOut, taskVars, cacheVars
<1>3. CASE AskFlush
  BY <1>0, <1>3 DEF OnePlace, OneHeld, Holds, AtRest, AskFlush, callVars, taskVars, cacheVars
<1>4. ASSUME NEW c \in Call, ServeHit(c) PROVE OnePlace'
  <2>1. TakesRequest(c) /\ phase[c] = "queued" /\ request[c] # Absent
    BY <1>4, Taken DEF ServeHit
  <2>2. Holds(fetchQ, "queued", phase)'
    BY <1>0, <1>4, QueueTaken DEF ServeHit, TakesRequest
  <2>3. Holds(completionQ, "sent", phase)'
    BY <1>0, <1>4, <2>1, QueueKept DEF ServeHit
  <2>4. ASSUME NEW d \in Call PROVE AtRest(d)'
    <3>1. phase'[d] = (IF d = c THEN "answered" ELSE phase[d])
      BY <1>4 DEF ServeHit
    <3>2. phase[d] # "permit"
      BY <1>0, <2>1 DEF TakesRequest, AtRest
    <3> QED
      BY <1>0, <1>4, <2>1, <3>1, <3>2 DEF ServeHit, Respond, AtRest
  <2>5. OneHeld'
    BY <1>0, <1>4 DEF ServeHit, OneHeld
  <2> QED
    BY <2>2, <2>3, <2>4, <2>5 DEF OnePlace
<1>5. ASSUME NEW c \in Call, TakeMiss(c) PROVE OnePlace'
  <2>1. /\ TakesRequest(c) /\ phase[c] = "queued" /\ request[c] # Absent
        /\ result[c] = Absent
        /\ Tagged => cacheHash' = request[c].tag
    BY <1>5, Taken DEF TakeMiss
  <2>2. Holds(fetchQ, "queued", phase)'
    BY <1>0, <1>5, QueueTaken DEF TakeMiss, TakesRequest
  <2>3. Holds(completionQ, "sent", phase)'
    BY <1>0, <1>5, <2>1, QueueKept DEF TakeMiss
  <2>4. ASSUME NEW d \in Call PROVE AtRest(d)'
    BY <1>0, <1>5, <2>1 DEF TakeMiss, TakesRequest, AtRest, callVars
  <2>5. OneHeld'
    BY <1>0, <1>5, <2>1 DEF TakeMiss, TakesRequest, AtRest, OneHeld
  <2> QED
    BY <2>2, <2>3, <2>4, <2>5 DEF OnePlace
<1>6. ASSUME NEW c \in Call, Spawn(c) PROVE OnePlace'
  <2>1. Holds(fetchQ, "queued", phase)' /\ Holds(completionQ, "sent", phase)'
    BY <1>0, <1>6, QueueKept DEF Spawn
  <2>2. ASSUME NEW d \in Call PROVE AtRest(d)'
    <3>1. CASE d = c
      BY <1>0, <1>6, <3>1 DEF Spawn, AtRest, callVars, cacheVars
    <3>2. CASE d # c
      <4>1. phase'[d] = phase[d] /\ phase[d] # "permit"
        BY <1>0, <1>6, <3>2 DEF Spawn, OneHeld
      <4> QED
        BY <1>0, <1>6, <4>1 DEF Spawn, AtRest, callVars, cacheVars
    <3> QED
      BY <3>1, <3>2
  <2>3. OneHeld'
    BY <1>0, <1>6 DEF Spawn, OneHeld
  <2> QED
    BY <2>1, <2>2, <2>3 DEF OnePlace
<1>7. ASSUME NEW c \in Call, ApplyCompletion(c) PROVE OnePlace'
  <2>1. phase[c] = "sent" /\ request[c] # Absent
    BY <1>7, Applied
  <2>2. Holds(completionQ, "sent", phase)'
    BY <1>0, <1>7, QueueTaken DEF ApplyCompletion
  <2>3. Holds(fetchQ, "queued", phase)'
    BY <1>0, <1>7, <2>1, QueueKept DEF ApplyCompletion
  <2>4. ASSUME NEW d \in Call PROVE AtRest(d)'
    BY <1>0, <1>7, <2>1 DEF ApplyCompletion, Respond, AtRest
  <2>5. OneHeld'
    BY <1>0, <1>7 DEF ApplyCompletion, OneHeld
  <2> QED
    BY <2>2, <2>3, <2>4, <2>5 DEF OnePlace
<1>8. CASE BatchEnds
  BY <1>0, <1>8 DEF OnePlace, OneHeld, Holds, AtRest, BatchEnds, callVars, taskVars, cacheVars
<1>9. CASE BeginFlush
  BY <1>0, <1>9 DEF OnePlace, OneHeld, Holds, AtRest, BeginFlush, callVars, taskVars, cacheVars
<1>10. CASE HandOver
  BY <1>0, <1>10 DEF OnePlace, OneHeld, Holds, AtRest, HandOver, callVars, taskVars
<1>11. ASSUME NEW c \in Call, TaskSends(c) PROVE OnePlace'
  <2>1. Holds(fetchQ, "queued", phase)'
    BY <1>0, <1>11, QueueKept DEF TaskSends
  <2>2. Holds(completionQ, "sent", phase)'
    BY <1>0, <1>11, QueueJoined DEF TaskSends
  <2>3. ASSUME NEW d \in Call PROVE AtRest(d)'
    BY <1>0, <1>11 DEF TaskSends, AtRest, callVars, cacheVars
  <2>4. OneHeld'
    BY <1>0, <1>11 DEF TaskSends, OneHeld
  <2> QED
    BY <2>1, <2>2, <2>3, <2>4 DEF OnePlace
<1>12. ASSUME NEW c \in Call, NEW resp \in Response, RpcReturns(c, resp)
       PROVE OnePlace'
  <2>1. Holds(fetchQ, "queued", phase)' /\ Holds(completionQ, "sent", phase)'
    BY <1>0, <1>12, QueueKept DEF RpcReturns
  <2>2. resp # Absent
    BY FetchAssumption
  <2>3. ASSUME NEW d \in Call PROVE AtRest(d)'
    BY <1>0, <1>12, <2>2 DEF RpcReturns, AtRest, callVars, cacheVars
  <2>4. OneHeld'
    BY <1>0, <1>12 DEF RpcReturns, OneHeld
  <2> QED
    BY <2>1, <2>3, <2>4 DEF OnePlace
<1>13. CASE UNCHANGED vars
  BY <1>0, <1>13 DEF OnePlace, OneHeld, Holds, AtRest, vars, callVars, taskVars, cacheVars
<1> QED
  BY <1>1, <1>2, <1>3, <1>4, <1>5, <1>6, <1>7, <1>8, <1>9, <1>10, <1>11, <1>12, <1>13
     DEF Next, Manager, Task, Complete, DrainOne

(* inflight follows the set of spawned fetches: one more when a task is
   spawned, one less when its completion is applied. *)
LEMMA CountStep == IInv /\ [Next]_vars => InflightExact'
<1> SUFFICES ASSUME IInv, [Next]_vars PROVE InflightExact'
  OBVIOUS
<1> USE DEF IInv, TypeOK
<1>0. IsFiniteSet(InFlight)
  BY InFlightFinite
<1>1. ASSUME NEW c \in Call, Spawn(c) PROVE InflightExact'
  <2>1. c \notin InFlight /\ InFlight' = InFlight \cup {c}
    BY <1>1 DEF Spawn, InFlight
  <2>2. Cardinality(InFlight') = Cardinality(InFlight) + 1
    BY <1>0, <2>1, FS_AddElement
  <2> QED
    BY <1>1, <2>2 DEF Spawn, InflightExact
<1>2. ASSUME NEW c \in Call, ApplyCompletion(c) PROVE InflightExact'
  <2>1. c \in InFlight /\ InFlight' = InFlight \ {c}
    BY <1>2, Applied DEF ApplyCompletion, InFlight
  <2>2. Cardinality(InFlight') = Cardinality(InFlight) - 1
    BY <1>0, <2>1, FS_RemoveElement
  <2> QED
    BY <1>2, <2>2 DEF ApplyCompletion, InflightExact
<1>3. ASSUME InFlight' = InFlight, inflight' = inflight PROVE InflightExact'
  BY <1>3 DEF InflightExact
<1>4. ASSUME NEW c \in Call, NEW r \in Request, Send(c, r) PROVE InflightExact'
  BY <1>3, <1>4 DEF Send, InFlight
<1>5. ASSUME NEW c \in Call, ServeHit(c) \/ TakeMiss(c) PROVE InflightExact'
  <2>1. phase[c] = "queued"
    BY <1>5, Taken DEF ServeHit, TakeMiss
  <2> QED
    BY <1>3, <1>5, <2>1 DEF ServeHit, TakeMiss, InFlight
<1>6. ASSUME NEW c \in Call, Task(c) PROVE InflightExact'
  BY <1>3, <1>6 DEF Task, TaskSends, RpcReturns, InFlight
<1>7. ASSUME NEW c \in Call, TimeOut(c) PROVE InflightExact'
  BY <1>3, <1>7 DEF TimeOut, taskVars, InFlight
<1>8. CASE AskFlush \/ BatchEnds \/ BeginFlush \/ HandOver \/ UNCHANGED vars
  BY <1>3, <1>8 DEF AskFlush, BatchEnds, BeginFlush, HandOver, vars, taskVars, InFlight
<1> QED
  BY <1>1, <1>2, <1>4, <1>5, <1>6, <1>7, <1>8
     DEF Next, Manager, Complete, DrainOne

(* An applied fetch is history: nothing changes it any more. *)
LEMMA AnsweredStays ==
  ASSUME IInv, [Next]_vars, NEW d \in Call, phase[d] = "answered"
  PROVE  phase'[d] = "answered" /\ result'[d] = result[d] /\ request'[d] = request[d]
<1> USE DEF IInv, TypeOK
<1> DEFINE Kept == /\ phase'[d] = "answered"
                   /\ result'[d] = result[d] /\ request'[d] = request[d]
<1>1. ASSUME NEW c \in Call, NEW r \in Request, Send(c, r)
      PROVE  Kept
  BY <1>1 DEF Send
<1>2. ASSUME NEW c \in Call, ServeHit(c) \/ TakeMiss(c)
      PROVE  Kept
  <2>1. phase[c] = "queued"
    BY <1>2, Taken DEF ServeHit, TakeMiss
  <2> QED
    BY <1>2, <2>1 DEF ServeHit, TakeMiss, callVars
<1>3. ASSUME NEW c \in Call, Spawn(c) \/ Task(c)
      PROVE  Kept
  BY <1>3 DEF Spawn, Task, TaskSends, RpcReturns, callVars
<1>4. ASSUME NEW c \in Call, ApplyCompletion(c)
      PROVE  Kept
  BY <1>4 DEF ApplyCompletion
<1>5. ASSUME NEW c \in Call, TimeOut(c)
      PROVE  Kept
  BY <1>5 DEF TimeOut, taskVars
<1>6. CASE AskFlush \/ BatchEnds \/ BeginFlush \/ HandOver \/ UNCHANGED vars
  BY <1>6 DEF AskFlush, BatchEnds, BeginFlush, HandOver, vars, callVars, taskVars
<1> QED
  BY <1>1, <1>2, <1>3, <1>4, <1>5, <1>6 DEF Next, Manager, Complete, DrainOne

(* The epoch grows whenever the tag moves, so a fetch of the present epoch
   was issued under the present tag. *)
LEMMA IssuedStep == IInv /\ [Next]_vars => IssuedUnderTag'
<1> SUFFICES ASSUME IInv, [Next]_vars, NEW d \in Call, d \in InFlight'
             PROVE  /\ issued'[d] <= epoch'
                    /\ Tagged /\ issued'[d] = epoch' => request'[d].tag = cacheHash'
  BY DEF IssuedUnderTag, InFlight
<1> DEFINE Goal == /\ issued'[d] <= epoch'
                   /\ Tagged /\ issued'[d] = epoch' => request'[d].tag = cacheHash'
<1> USE DEF IInv, TypeOK
<1>0. d \in InFlight => /\ issued[d] <= epoch
                        /\ Tagged /\ issued[d] = epoch => request[d].tag = cacheHash
  BY DEF IssuedUnderTag
<1>1. ASSUME NEW c \in Call, NEW r \in Request, Send(c, r) PROVE Goal
  BY <1>0, <1>1 DEF Send, InFlight, cacheVars
<1>2. ASSUME NEW c \in Call, ServeHit(c) \/ TakeMiss(c) PROVE Goal
  <2>1. TakesRequest(c) /\ phase[c] = "queued"
    BY <1>2, Taken DEF ServeHit, TakeMiss
  <2>2. d \in InFlight /\ issued' = issued /\ request' = request
    BY <1>2, <2>1 DEF ServeHit, TakeMiss, InFlight, callVars
  <2>3. \/ epoch' = epoch + 1
        \/ epoch' = epoch /\ cacheHash' = cacheHash
    BY <2>1 DEF TakesRequest, Retag
  <2> QED
    BY <1>0, <2>2, <2>3
<1>3. ASSUME NEW c \in Call, Spawn(c) PROVE Goal
  <2>1. Tagged => request[c].tag = cacheHash
    BY <1>3 DEF Spawn, OnePlace, AtRest
  <2>2. CASE d = c
    BY <1>3, <2>1, <2>2 DEF Spawn, callVars, cacheVars
  <2>3. CASE d # c
    BY <1>0, <1>3, <2>3 DEF Spawn, InFlight, callVars, cacheVars
  <2> QED
    BY <2>2, <2>3
<1>4. ASSUME NEW c \in Call, ApplyCompletion(c) \/ Task(c) \/ TimeOut(c) PROVE Goal
  BY <1>0, <1>4 DEF ApplyCompletion, Task, TaskSends, RpcReturns, TimeOut,
                    InFlight, callVars, taskVars, cacheVars
<1>5. CASE HandOver
  BY <1>0, <1>5 DEF HandOver, InFlight, callVars, taskVars
<1>6. CASE AskFlush \/ BatchEnds \/ BeginFlush \/ UNCHANGED vars
  BY <1>0, <1>6 DEF AskFlush, BatchEnds, BeginFlush, vars, InFlight, callVars, taskVars, cacheVars
<1> QED
  BY <1>1, <1>2, <1>3, <1>4, <1>5, <1>6 DEF Next, Manager, Complete, DrainOne

(* So what was fetched stays fetched. *)
StillFetched(k, t, v) ==
    \E d \in Call : /\ phase'[d] = "answered" /\ result'[d] = v
                    /\ request'[d].key = k
                    /\ Tagged => request'[d].tag = t

LEMMA FetchedStays ==
  ASSUME IInv, [Next]_vars, NEW k, NEW t, NEW v, Fetched(k, t, v)
  PROVE  StillFetched(k, t, v)
BY AnsweredStays DEF Fetched, StillFetched

(* A completion that is stored was issued under the present epoch, hence
   under the present tag; every other step keeps cache and tag together or
   empties the cache. *)
LEMMA CacheStep == IInv /\ [Next]_vars => CacheUnderTag'
<1> SUFFICES ASSUME IInv, [Next]_vars, NEW k \in Key, cache'[k] # Absent
             PROVE  Fetched(k, cacheHash, cache[k])'
  BY DEF CacheUnderTag
<1> USE DEF IInv, TypeOK
<1>1. ASSUME cache[k] = cache'[k], cacheHash' = cacheHash
      PROVE  Fetched(k, cacheHash, cache[k])'
  <2>1. Fetched(k, cacheHash, cache[k])
    BY <1>1 DEF CacheUnderTag
  <2>2. StillFetched(k, cacheHash, cache[k])
    BY <2>1, FetchedStays
  <2> QED
    BY <1>1, <2>2 DEF Fetched, StillFetched
<1>2. ASSUME NEW c \in Call, ServeHit(c) \/ TakeMiss(c)
      PROVE  Fetched(k, cacheHash, cache[k])'
  <2>1. TakesRequest(c)
    BY <1>2 DEF ServeHit, TakeMiss
  <2>2. ~TagChanges(c)
    BY <2>1 DEF TakesRequest, Retained, EmptyCache
  <2> QED
    BY <1>1, <2>1, <2>2 DEF TakesRequest, Retained, Retag
<1>3. ASSUME NEW c \in Call, ApplyCompletion(c)
      PROVE  Fetched(k, cacheHash, cache[k])'
  <2>1. /\ phase[c] = "sent" /\ request[c].key \in Key
        /\ phase'[c] = "answered" /\ result'[c] = result[c] /\ request' = request
        /\ cacheHash' = cacheHash
    BY <1>3, Applied DEF ApplyCompletion, Request
  <2>2. CASE k = request[c].key /\ Stores(result[c]) /\ MayStore(c)
    <3>1. Tagged => request[c].tag = cacheHash
      BY <2>1, <2>2, GuardAssumption DEF MayStore, IssuedUnderTag, InFlight
    <3>2. cache'[k] = result[c]
      BY <1>3, <2>1, <2>2 DEF ApplyCompletion, Cache
    <3> QED
      BY <2>1, <2>2, <3>1, <3>2 DEF Fetched
  <2>3. CASE ~(k = request[c].key /\ Stores(result[c]) /\ MayStore(c))
    <3>1. cache[k] = cache'[k]
      BY <1>3, <2>3 DEF ApplyCompletion, Cache
    <3> QED
      BY <1>1, <2>1, <3>1
  <2> QED
    BY <2>2, <2>3
<1>4. ASSUME HandOver PROVE FALSE
  BY <1>4 DEF HandOver, EmptyCache
<1>5. ASSUME NEW c \in Call,
             \/ \E r \in Request : Send(c, r)
             \/ TimeOut(c) \/ Spawn(c) \/ Task(c)
      PROVE  Fetched(k, cacheHash, cache[k])'
  BY <1>1, <1>5 DEF Send, TimeOut, Spawn, Task, TaskSends, RpcReturns, cacheVars
<1>6. CASE AskFlush \/ BatchEnds \/ BeginFlush \/ UNCHANGED vars
  BY <1>1, <1>6 DEF AskFlush, BatchEnds, BeginFlush, vars, cacheVars
<1> QED
  BY <1>2, <1>3, <1>4, <1>5, <1>6 DEF Next, Manager, Complete, DrainOne

(* HandOver hands over the cache with its tag. *)
LEMMA HandedStep == IInv /\ [Next]_vars => HandedUnderTag'
<1> SUFFICES ASSUME IInv, [Next]_vars, NEW k \in Key, handed'.data[k] # Absent
             PROVE  Fetched(k, handed.tag, handed.data[k])'
  BY DEF HandedUnderTag
<1> USE DEF IInv, TypeOK
<1>1. CASE HandOver
  <2>1. handed'.data[k] = cache[k] /\ handed'.tag = cacheHash
    BY <1>1 DEF HandOver
  <2>2. Fetched(k, cacheHash, cache[k])
    BY <2>1 DEF CacheUnderTag
  <2>3. StillFetched(k, cacheHash, cache[k])
    BY <2>2, FetchedStays
  <2> QED
    BY <2>1, <2>3 DEF Fetched, StillFetched
<1>2. CASE handed' = handed
  <2>1. Fetched(k, handed.tag, handed.data[k])
    BY <1>2 DEF HandedUnderTag
  <2>2. StillFetched(k, handed.tag, handed.data[k])
    BY <2>1, FetchedStays
  <2> QED
    BY <1>2, <2>2 DEF Fetched, StillFetched
<1>3. handed' = handed \/ HandOver
  BY DEF Next, Manager, Complete, DrainOne, Task, Send, TimeOut, AskFlush, ServeHit,
         TakeMiss, Spawn, BatchEnds, RpcReturns, TaskSends, ApplyCompletion, BeginFlush,
         vars, flushVars
<1> QED
  BY <1>1, <1>2, <1>3

(* A hit is served from a cache that carries the tag of the request. *)
LEMMA AnswerStep == IInv /\ [Next]_vars => AnswersOwnRequest'
<1> SUFFICES ASSUME IInv, [Next]_vars, NEW d \in Call, reply'[d] # Absent
             PROVE  \/ reply'[d] = result'[d]
                    \/ /\ reply'[d] \in Value
                       /\ Fetched(request[d].key, request[d].tag, reply[d])'
  BY DEF AnswersOwnRequest
<1> DEFINE Goal == \/ reply'[d] = result'[d]
                   \/ /\ reply'[d] \in Value
                      /\ Fetched(request[d].key, request[d].tag, reply[d])'
<1> USE DEF IInv, TypeOK
<1>1. ASSUME reply'[d] = reply[d], request'[d] = request[d],
             result[d] # Absent => result'[d] = result[d]
      PROVE  Goal
  <2>1. CASE reply[d] = result[d]
    BY <1>1, <2>1
  <2>2. CASE reply[d] # result[d]
    <3>1. reply[d] \in Value /\ Fetched(request[d].key, request[d].tag, reply[d])
      BY <1>1, <2>2 DEF AnswersOwnRequest
    <3>2. StillFetched(request[d].key, request[d].tag, reply[d])
      BY <3>1, FetchedStays
    <3> QED
      BY <1>1, <3>1, <3>2 DEF Fetched, StillFetched
  <2> QED
    BY <2>1, <2>2
<1>2. ASSUME NEW c \in Call, ServeHit(c) PROVE Goal
  <2>1. CASE d = c /\ c \in waiting
    <3>1. TakesRequest(c) /\ request[c] \in Request /\ cache' \in Cache
          /\ (Tagged => cacheHash' = request[c].tag)
      BY <1>2, Taken DEF ServeHit
    <3>2. reply'[c] = cache'[request[c].key] /\ cache'[request[c].key] # Absent
      BY <1>2, <2>1, <3>1 DEF ServeHit, TakesRequest, Respond
    <3>3. request' = request /\ request[c].key \in Key
      BY <1>2, <3>1 DEF ServeHit, Request
    <3>4. Fetched(request[c].key, cacheHash, cache[request[c].key])'
      BY <3>2, <3>3, CacheStep DEF CacheUnderTag
    <3>5. reply'[c] \in Value
      BY <3>1, <3>2, <3>3 DEF Cache
    <3> QED
      BY <2>1, <3>1, <3>2, <3>3, <3>4, <3>5 DEF Fetched
  <2>2. CASE ~(d = c /\ c \in waiting)
    BY <1>1, <1>2, <2>2 DEF ServeHit, Respond
  <2> QED
    BY <2>1, <2>2
<1>3. ASSUME NEW c \in Call, ApplyCompletion(c) PROVE Goal
  BY <1>1, <1>3 DEF ApplyCompletion, Respond
<1>4. ASSUME NEW c \in Call, NEW r \in Request, Send(c, r) PROVE Goal
  <2>1. CASE d = c
    <3>1. reply[c] = Absent
      BY <1>4 DEF Send, OnePlace, AtRest
    <3> QED
      BY <1>4, <2>1, <3>1 DEF Send
  <2>2. CASE d # c
    BY <1>1, <1>4, <2>2 DEF Send
  <2> QED
    BY <2>1, <2>2
<1>5. ASSUME NEW c \in Call, NEW resp \in Response, RpcReturns(c, resp) PROVE Goal
  BY <1>1, <1>5 DEF RpcReturns, callVars, OnePlace, AtRest
<1>6. ASSUME NEW c \in Call, TimeOut(c) \/ TakeMiss(c) \/ Spawn(c) \/ TaskSends(c)
      PROVE  Goal
  BY <1>1, <1>6 DEF TimeOut, TakeMiss, Spawn, TaskSends, callVars, taskVars
<1>7. CASE AskFlush \/ BatchEnds \/ BeginFlush \/ HandOver \/ UNCHANGED vars
  BY <1>1, <1>7 DEF AskFlush, BatchEnds, BeginFlush, HandOver, vars, callVars, taskVars
<1> QED
  BY <1>2, <1>3, <1>4, <1>5, <1>6, <1>7 DEF Next, Manager, Complete, DrainOne, Task

(* A waiting caller's request is never idle and never done. *)
LEMMA WaiterStep == IInv /\ [Next]_vars => WaiterHasRequest'
<1> SUFFICES ASSUME IInv, [Next]_vars, NEW d \in Call, d \in waiting'
             PROVE  phase'[d] \notin {"idle", "answered"}
  BY TypeStep DEF WaiterHasRequest, TypeOK
<1> USE DEF IInv, TypeOK, WaiterHasRequest
<1>1. ASSUME NEW c \in Call, NEW r \in Request, Send(c, r)
      PROVE  phase'[d] \notin {"idle", "answered"}
  BY <1>1 DEF Send
<1>2. ASSUME NEW c \in Call, ServeHit(c) \/ TakeMiss(c) \/ ApplyCompletion(c)
      PROVE  phase'[d] \notin {"idle", "answered"}
  BY <1>2 DEF ServeHit, TakeMiss, ApplyCompletion, Respond, callVars
<1>3. ASSUME NEW c \in Call, TimeOut(c) \/ Spawn(c) \/ Task(c)
      PROVE  phase'[d] \notin {"idle", "answered"}
  BY <1>3 DEF TimeOut, Spawn, Task, TaskSends, RpcReturns, callVars, taskVars
<1>4. CASE AskFlush \/ BatchEnds \/ BeginFlush \/ HandOver \/ UNCHANGED vars
  BY <1>4 DEF AskFlush, BatchEnds, BeginFlush, HandOver, vars, callVars, taskVars
<1> QED
  BY <1>1, <1>2, <1>3, <1>4 DEF Next, Manager, Complete, DrainOne

-----------------------------------------------------------------------------
(* Each completion, tag change, flush and abandoned drain keeps the invariant. *)
LEMMA StepInv == IInv /\ [Next]_vars => IInv'
BY TypeStep, OnePlaceStep, CountStep, IssuedStep, CacheStep, HandedStep,
   AnswerStep, WaiterStep DEF IInv

(* The inductive invariant holds in every reachable state, whatever the order of
   the steps. *)
THEOREM Inductive == Spec => []IInv
BY InitInv, StepInv, PTL DEF Spec

(* The state of the manager is well typed; `inflight -= 1` never takes the
   usize below zero. *)
THEOREM TypeCorrect == Spec => []TypeOK
BY Inductive, PTL DEF IInv

(* The cache and what a flush hands over hold only values fetched under the
   tag they carry: the epoch guard of apply_completion is enough. *)
THEOREM CacheIsUnderTag == Spec => [](CacheUnderTag /\ HandedUnderTag)
BY Inductive, PTL DEF IInv

(* What merge_caches gets from a flush was fetched under the flush's tag. *)
THEOREM HandedIsUnderTag == Spec => []HandedUnderTag
BY CacheIsUnderTag, PTL

(* No reader gets the answer to another question, hit or miss. *)
THEOREM AnswersAreOwn == Spec => []AnswersOwnRequest
BY Inductive, PTL DEF IInv

(* inflight counts the spawned fetches, and a waiting caller's request is
   always on its way. *)
THEOREM NothingForgotten == Spec => [](InflightExact /\ WaiterHasRequest)
BY Inductive, PTL DEF IInv

(* A caller still waiting has its request on the way: no branch of the manager
   drops one. *)
THEOREM WaitersHaveRequests == Spec => []WaiterHasRequest
BY NothingForgotten, PTL

-----------------------------------------------------------------------------
(* A step of the manager is a step of FetchService or changes nothing a
   reader or the flusher can see. *)
LEMMA PromiseStep == IInv /\ [Next]_vars => [Promise!Next]_Promise!vars
<1> SUFFICES ASSUME IInv, [Next]_vars PROVE [Promise!Next]_Promise!vars
  OBVIOUS
<1> USE DEF IInv, TypeOK
<1>1. ASSUME NEW c \in Call, NEW r \in Request, Send(c, r) PROVE Promise!Next
  <2>1. Promise!Ask(c, r)
    BY <1>1 DEF Send, OnePlace, AtRest, flushVars, Promise!Ask
  <2> QED
    BY <2>1 DEF Promise!Next, Promise!Request, Request
<1>2. ASSUME NEW c \in Call, TimeOut(c) PROVE Promise!Next
  <2>1. Promise!GiveUp(c)
    BY <1>2 DEF TimeOut, taskVars, flushVars, Promise!GiveUp
  <2> QED
    BY <2>1 DEF Promise!Next
<1>3. ASSUME NEW c \in Call, ServeHit(c) PROVE [Promise!Next]_Promise!vars
  <2> DEFINE v == cache'[request[c].key]
  <2>1. /\ TakesRequest(c) /\ request[c] \in Request /\ cache' \in Cache
        /\ Tagged => cacheHash' = request[c].tag
    BY <1>3, Taken DEF ServeHit
  <2>2. v # Absent /\ Respond(c, v) /\ request[c].key \in Key
        /\ UNCHANGED <<request, result, handed>>
    BY <1>3, <2>1 DEF ServeHit, TakesRequest, Request, flushVars
  <2>3. v \in Value
    BY <2>1, <2>2 DEF Cache
  <2>4. CASE c \notin waiting
    BY <2>2, <2>4 DEF Respond, Promise!vars
  <2>5. CASE c \in waiting
    <3>1. Fetched(request[c].key, cacheHash, cache[request[c].key])'
      BY <2>2, CacheStep DEF CacheUnderTag
    <3>2. request[c] # Absent
      BY <2>1, FetchAssumption
    <3>3. Promise!Answered(request[c].key, request[c].tag, v)
      <4>1. PICK d \in Call : /\ phase'[d] = "answered" /\ result'[d] = v
                              /\ request'[d].key = request[c].key
                              /\ Tagged => request'[d].tag = cacheHash'
        BY <2>2, <3>1 DEF Fetched
      <4>2. OnePlace'
        BY OnePlaceStep
      <4>3. request'[d] # Absent
        BY <4>1, <4>2 DEF OnePlace, AtRest
      <4> QED
        BY <2>1, <2>2, <4>1, <4>3 DEF Promise!Answered
    <3>4. Promise!Reply(c, v)
      BY <2>2, <2>3, <2>5, <3>3 DEF Respond, Promise!Reply
    <3> QED
      BY <2>3, <3>4 DEF Promise!Next, Promise!Response
  <2> QED
    BY <2>4, <2>5
<1>4. ASSUME NEW c \in Call, NEW resp \in Response, RpcReturns(c, resp)
      PROVE  Promise!Next
  <2>1. Promise!NodeAnswers(c, resp)
    BY <1>4 DEF RpcReturns, OnePlace, AtRest, callVars, flushVars, Promise!NodeAnswers
  <2> QED
    BY <2>1 DEF Promise!Next, Promise!Response, Response
<1>5. ASSUME NEW c \in Call, ApplyCompletion(c) PROVE [Promise!Next]_Promise!vars
  <2>1. result[c] \in Response
    BY <1>5, Applied
  <2>2. CASE c \notin waiting
    BY <1>5, <2>2 DEF ApplyCompletion, Respond, flushVars, Promise!vars
  <2>3. CASE c \in waiting
    <3>1. Promise!Reply(c, result[c])
      BY <1>5, <2>3 DEF ApplyCompletion, Respond, flushVars, Promise!Reply
    <3> QED
      BY <2>1, <3>1 DEF Promise!Next, Promise!Response, Response
  <2> QED
    BY <2>2, <2>3
<1>6. CASE HandOver
  <2>1. ASSUME NEW k \in Key, cache[k] # Absent
        PROVE  cache[k] \in Value /\ Promise!Answered(k, cacheHash, cache[k])
    <3>1. PICK d \in Call : /\ phase[d] = "answered" /\ result[d] = cache[k]
                            /\ request[d].key = k
                            /\ Tagged => request[d].tag = cacheHash
      BY <2>1 DEF CacheUnderTag, Fetched
    <3>2. request[d] # Absent
      BY <3>1 DEF OnePlace, AtRest
    <3> QED
      BY <2>1, <3>1, <3>2 DEF Cache, Promise!Answered
  <2>2. Promise!Flush(cacheHash, cache)
    BY <1>6, <2>1 DEF HandOver, callVars, taskVars, Promise!Flush
  <2> QED
    BY <2>2 DEF Promise!Next, Cache
<1>7. ASSUME NEW c \in Call, TakeMiss(c) \/ Spawn(c) \/ TaskSends(c)
      PROVE  UNCHANGED Promise!vars
  BY <1>7 DEF TakeMiss, Spawn, TaskSends, callVars, flushVars, Promise!vars
<1>8. CASE AskFlush \/ BatchEnds \/ BeginFlush \/ UNCHANGED vars
  BY <1>8 DEF AskFlush, BatchEnds, BeginFlush, vars, callVars, taskVars, flushVars,
              Promise!vars
<1> QED
  BY <1>1, <1>2, <1>3, <1>4, <1>5, <1>6, <1>7, <1>8
     DEF Next, Manager, Complete, DrainOne, Task

(* Refinement: the manager, with its queues, permits, epochs and flushes,
   implements the service that only asks, answers and hands over. *)
THEOREM ImplementsPromise == Spec => KeepsPromise
<1>1. Init => Promise!Init
  BY DEF Init, EmptyCache, Promise!Init, Promise!EmptyCache
<1>2. IInv /\ [Next]_vars => [Promise!Next]_Promise!vars
  BY PromiseStep
<1> QED
  BY <1>1, <1>2, Inductive, PTL DEF Spec, KeepsPromise, Promise!Spec
=============================================================================
