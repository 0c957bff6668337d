--------------------------- MODULE CodeHintsProofs ---------------------------
(* Proofs about CodeHints, on top of those about FetchManager: the code
   manager is a FetchManager, so the invariants of FetchManager hold of it. *)
EXTENDS CodeHints, FetchManagerProofs, WellFoundedInduction

USE CodeAssumption

(* A bounded set of numbers has a greatest one. *)
LEMMA Greatest ==
  ASSUME NEW n \in Nat, NEW S \in SUBSET (0..n), S # {}
  PROVE  \E x \in S : \A y \in S : y <= x
<1> DEFINE R == OpToRel(<, Nat)
           T == {n - x : x \in S}
<1>1. IsWellFoundedOn(R, Nat)
  BY NatLessThanWellFounded, Zenon
<1>2. ASSUME NEW x \in Nat, NEW y \in Nat, y < x PROVE <<y, x>> \in R
  BY <1>2 DEF OpToRel
<1>3. T # {} /\ T \subseteq Nat
  <2>1. PICK x \in S : TRUE
    OBVIOUS
  <2>2. n - x \in T
    OBVIOUS
  <2>3. ASSUME NEW t \in T PROVE t \in Nat
    <3>1. PICK y \in S : t = n - y
      OBVIOUS
    <3>2. y \in 0..n
      OBVIOUS
    <3> QED
      BY <3>1, <3>2
  <2> QED
    BY <2>2, <2>3
<1> HIDE DEF R
<1>4. PICK d \in T : \A c \in T : ~(<<c, d>> \in R)
  BY <1>1, <1>3, WFMin
<1>5. PICK x \in S : d = n - x
  OBVIOUS
<1>6. ASSUME NEW y \in S PROVE y <= x
  <2>1. n - y \in T /\ n - y \in Nat /\ d \in Nat
    BY <1>3
  <2>2. ~(n - y < d)
    BY <1>2, <1>4, <2>1
  <2> QED
    BY <1>5, <2>2
<1> QED
  BY <1>6

(* The hints after a drain: those of the channel, or the former ones. *)
LEMMA DrainedHints ==
  ASSUME HintTypeOK
  PROVE  /\ Drained \in [Key -> Account \cup {NoHint}]
         /\ \A k \in Key : hint[k] # NoHint \/ Registers(k) => Drained[k] # NoHint
<1>1. ASSUME NEW k \in Key
      PROVE  /\ Drained[k] \in Account \cup {NoHint}
             /\ hint[k] # NoHint \/ Registers(k) => Drained[k] # NoHint
  <2> DEFINE at == {i \in 1..Len(side) : side[i].key = k}
  <2>1. CASE at = {}
    <3>1. Drained[k] = hint[k] /\ ~Registers(k)
      BY <2>1 DEF Drained, Registers
    <3> QED
      BY <3>1 DEF HintTypeOK
  <2>2. CASE at # {}
    <3>1. Len(side) \in Nat /\ at \in SUBSET (0..Len(side))
      BY DEF HintTypeOK
    <3>2. \E i \in at : \A j \in at : j <= i
      <4> HIDE DEF at
      <4> QED
        BY <2>2, <3>1, Greatest
    <3>3. PICK i \in at : Drained[k] = side[i].account
      BY <2>2, <3>2 DEF Drained
    <3>4. side[i] \in Registration
      BY <3>3 DEF HintTypeOK
    <3> QED
      BY <3>3, <3>4, CodeAssumption DEF Registration
  <2> QED
    BY <2>1, <2>2
<1> QED
  BY <1>1 DEF Drained

(* Every step of the code manager is a step of the fetch manager, or one that
   concerns only the registrations. *)
LEMMA StepIsFetch ==
  ASSUME HintTypeOK, [HintNext]_allVars
  PROVE  [Next]_vars
<1>1. ASSUME NEW a \in Account, NEW v \in CodeOf[a], Register(v, a)
      PROVE  UNCHANGED vars
  BY <1>1 DEF Register
<1>2. ASSUME NEW c \in Call, NEW r \in Request, Ask(c, r)
      PROVE  Next
  BY <1>2 DEF Ask, Next
<1>3. ASSUME NEW c \in Call, TimeOut(c)
      PROVE  Next
  BY <1>3 DEF Next
<1>4. CASE AskFlush
  BY <1>4 DEF Next
<1>5. CASE CodeManager
  BY <1>5 DEF CodeManager, Takes, Fetches, SideArrives, Next, Manager
<1>6. ASSUME NEW c \in Call, CodeTask(c)
      PROVE  Next
  <2>1. CASE TaskSends(c)
    BY <2>1 DEF Next, Task
  <2>2. CASE Answers(c)
    <3>1. \E resp \in Response : RpcReturns(c, resp)
      <4>1. CASE RpcReturns(c, Failed)
        BY <4>1 DEF Response
      <4>2. CASE address[c] # NoHint /\ \E v \in CodeOf[address[c]] :
                    HashOf[v] = request[c].key /\ RpcReturns(c, v)
        <5>1. PICK v \in CodeOf[address[c]] : RpcReturns(c, v)
          BY <4>2
        <5>2. v \in Value
          BY <4>2 DEF HintTypeOK
        <5> QED
          BY <5>1, <5>2 DEF Response
      <4> QED
        BY <2>2, <4>1, <4>2 DEF Answers
    <3> QED
      BY <3>1 DEF Next, Task
  <2> QED
    BY <1>6, <2>1, <2>2 DEF CodeTask
<1> QED
  BY <1>1, <1>2, <1>3, <1>4, <1>5, <1>6 DEF HintNext, allVars

-----------------------------------------------------------------------------
LEMMA HintInitInv == HintInit => HintInv
<1> SUFFICES ASSUME HintInit PROVE HintInv
  OBVIOUS
<1>1. IInv
  BY InitInv DEF HintInit
<1>2. HintTypeOK /\ HintNotLost
  BY DEF HintInit, HintTypeOK, HintNotLost
<1>3. ResultNamed
  BY DEF HintInit, Init, ResultNamed
<1> QED
  BY <1>1, <1>2, <1>3 DEF HintInv

(* The key of a sent request. *)
LEMMA KeyOfSent ==
  ASSUME IInv, NEW c \in Call, phase[c] # "idle"
  PROVE  request[c] \in Request /\ request[c].key \in Key
<1>1. request[c] \in Request
  BY DEF IInv, TypeOK, OnePlace, AtRest
<1> QED
  BY <1>1 DEF Request

LEMMA HintTypeStep ==
  ASSUME HintInv, [HintNext]_allVars
  PROVE  HintTypeOK'
<1> USE DEF HintInv
<1>1. ASSUME NEW a \in Account, NEW v \in CodeOf[a], Register(v, a)
      PROVE  HintTypeOK'
  <2>1. v \in Value /\ HashOf[v] \in Key
    OBVIOUS
  <2>2. [key |-> HashOf[v], account |-> a] \in Registration
    BY <2>1 DEF Registration
  <2>3. side' \in Seq(Registration)
    BY <1>1, <2>2 DEF Register, HintTypeOK
  <2> QED
    BY <1>1, <2>1, <2>3 DEF Register, HintTypeOK
<1>2. ASSUME NEW c \in Call, NEW r \in Request, Ask(c, r)
      PROVE  HintTypeOK'
  BY <1>2 DEF Ask, HintTypeOK
<1>3. ASSUME DrainSide, UNCHANGED <<address, registered, told, resolved>>
      PROVE  HintTypeOK'
  BY <1>3, DrainedHints DEF DrainSide, HintTypeOK
<1>4. ASSUME NEW c \in Call, Takes(c)
      PROVE  HintTypeOK'
  <2>1. CASE DrainSide
    BY <1>3, <1>4, <2>1 DEF Takes
  <2>2. CASE UNCHANGED <<hint, side>>
    BY <1>4, <2>2 DEF Takes, HintTypeOK
  <2> QED
    BY <1>4, <2>1, <2>2 DEF Takes, DrainsOnWake
<1>5. ASSUME NEW c \in Call, Fetches(c)
      PROVE  HintTypeOK'
  <2>1. request[c].key \in Key
    BY <1>5, KeyOfSent DEF Fetches, Spawn
  <2> QED
    BY <1>5, <2>1 DEF Fetches, HintTypeOK
<1>6. CASE UNCHANGED hintVars
  BY <1>6 DEF hintVars, HintTypeOK
<1> QED
  BY <1>1, <1>2, <1>3, <1>4, <1>5, <1>6
     DEF HintNext, CodeManager, CodeTask, SideArrives, allVars

(* A drain keeps what was registered within reach. *)
LEMMA DrainKeeps ==
  ASSUME HintInv, DrainSide, NEW k \in registered
  PROVE  hint'[k] # NoHint
BY DrainedHints DEF DrainSide, HintInv, HintTypeOK, HintNotLost

LEMMA NotLostStep ==
  ASSUME HintInv, [HintNext]_allVars
  PROVE  HintNotLost'
<1> USE DEF HintInv
<1>1. ASSUME NEW c \in Call, request[c] # Absent
      PROVE  request'[c] = request[c]
  <2>1. phase[c] # "idle"
    BY <1>1 DEF IInv, OnePlace, AtRest
  <2>2. [Next]_vars
    BY StepIsFetch
  <2>3. ASSUME NEW d \in Call, NEW r \in Request, Send(d, r)
        PROVE  request'[c] = request[c]
    BY <2>1, <2>3 DEF Send, IInv, TypeOK
  <2>4. (\A d \in Call, r \in Request : ~Send(d, r)) => UNCHANGED request
    <3> SUFFICES ASSUME \A d \in Call, r \in Request : ~Send(d, r)
                 PROVE  UNCHANGED request
      OBVIOUS
    <3>1. CASE Manager
      BY <3>1 DEF Manager, ServeHit, TakeMiss, Spawn, Complete, DrainOne, ApplyCompletion,
         BatchEnds, BeginFlush, HandOver, callVars
    <3>2. CASE \E d \in Call : TimeOut(d) \/ Task(d)
      BY <3>2 DEF TimeOut, Task, TaskSends, RpcReturns, callVars
    <3>3. CASE AskFlush \/ UNCHANGED vars
      BY <3>3 DEF AskFlush, vars, callVars
    <3> QED
      BY <2>2, <3>1, <3>2, <3>3 DEF Next
  <2> QED
    BY <2>3, <2>4
<1>2. ASSUME registered' = registered, told' = told,
             UNCHANGED <<hint, side>> \/ DrainSide
      PROVE  HintNotLost'
  <2>1. \A c \in told : request'[c] = request[c]
    BY <1>1 DEF HintNotLost, HintTypeOK
  <2>2. CASE UNCHANGED <<hint, side>>
    BY <1>2, <2>1, <2>2 DEF HintNotLost, Registers
  <2>3. CASE DrainSide
    BY <1>2, <2>1, <2>3, DrainKeeps DEF HintNotLost
  <2> QED
    BY <1>2, <2>2, <2>3
<1>3. ASSUME NEW a \in Account, NEW v \in CodeOf[a], Register(v, a)
      PROVE  HintNotLost'
  <2> DEFINE r == [key |-> HashOf[v], account |-> a]
  <2>1. r \in Registration /\ side \in Seq(Registration) /\ side' = Append(side, r)
    BY <1>3 DEF Register, Registration, HintTypeOK
  <2>2. /\ Len(side) + 1 \in 1..Len(side') /\ side'[Len(side) + 1].key = HashOf[v]
        /\ \A i \in 1..Len(side) : i \in 1..Len(side') /\ side'[i] = side[i]
    BY <2>1
  <2>3. \A k : k = HashOf[v] \/ Registers(k) => Registers(k)'
    BY <2>2 DEF Registers
  <2> QED
    BY <1>3, <2>3 DEF Register, HintNotLost, vars, callVars
<1>4. ASSUME NEW c \in Call, NEW r \in Request, Ask(c, r)
      PROVE  HintNotLost'
  <2>1. /\ UNCHANGED <<side, hint, registered>>
        /\ told' = told \/ (told' = told \cup {c} /\ r.key \in registered)
    BY <1>4 DEF Ask
  <2>2. request[c] = Absent /\ request' = [request EXCEPT ![c] = r] /\ r # Absent
    BY <1>4, FetchAssumption DEF Ask, Send, IInv, OnePlace, AtRest
  <2>3. request'[c] = r /\ \A d \in told : request'[d] = request[d]
    BY <1>1, <2>2 DEF IInv, TypeOK, HintNotLost, HintTypeOK
  <2> QED
    BY <2>1, <2>2, <2>3 DEF HintNotLost, Registers
<1>5. ASSUME NEW c \in Call, Takes(c) \/ Fetches(c)
      PROVE  HintNotLost'
  BY <1>2, <1>5 DEF Takes, Fetches, DrainsOnWake
<1>6. CASE SideArrives
  BY <1>2, <1>6 DEF SideArrives
<1>7. CASE UNCHANGED hintVars
  BY <1>2, <1>7 DEF hintVars
<1> QED
  BY <1>3, <1>4, <1>5, <1>6, <1>7 DEF HintNext, CodeManager, CodeTask, allVars

(* A fetch returns code of the hash it was asked for: get_code_by_hash checks
   it, whatever account the hint named. *)
LEMMA ResultNamedStep ==
  ASSUME HintInv, [HintNext]_allVars
  PROVE  ResultNamed'
<1> USE DEF HintInv, ResultNamed
<1> SUFFICES ASSUME NEW d \in Call, request'[d] # Absent
             PROVE  Named(request'[d].key, result'[d])
  BY DEF Named
<1>1. ASSUME NEW c \in Call, NEW r \in Request, Ask(c, r)
      PROVE  Named(request'[d].key, result'[d])
  <2>1. Send(c, r) /\ result' = result /\ result[c] = Absent
    BY <1>1 DEF Ask, Send, IInv, OnePlace, AtRest
  <2>2. CASE d = c
    BY <2>1, <2>2, FetchAssumption DEF Named, Response
  <2>3. CASE d # c
    BY <2>1, <2>3 DEF Send, Named, IInv, TypeOK
  <2> QED
    BY <2>2, <2>3
<1>2. ASSUME request' = request, result' = result
      PROVE  Named(request'[d].key, result'[d])
  BY <1>2 DEF Named
<1>3. ASSUME NEW c \in Call, Answers(c)
      PROVE  Named(request'[d].key, result'[d])
  <2>1. PICK resp : /\ RpcReturns(c, resp)
                    /\ resp = Failed \/ HashOf[resp] = request[c].key
    BY <1>3 DEF Answers
  <2>2. request' = request /\ result' = [result EXCEPT ![c] = resp]
    BY <2>1 DEF RpcReturns, callVars
  <2>3. CASE d = c
    BY <2>1, <2>2, <2>3, FetchAssumption DEF Named, IInv, TypeOK
  <2>4. CASE d # c
    BY <2>2, <2>4 DEF Named, IInv, TypeOK
  <2> QED
    BY <2>3, <2>4
<1>4. CASE CodeManager
  BY <1>2, <1>4
     DEF CodeManager, Takes, Fetches, SideArrives, ServeHit, TakeMiss, Spawn, Complete,
         DrainOne, ApplyCompletion, BatchEnds, BeginFlush, HandOver, vars, callVars, taskVars
<1>5. ASSUME NEW c \in Call, TimeOut(c) \/ TaskSends(c)
      PROVE  Named(request'[d].key, result'[d])
  BY <1>2, <1>5 DEF TimeOut, TaskSends, callVars, taskVars
<1>6. ASSUME UNCHANGED vars \/ AskFlush
      PROVE  Named(request'[d].key, result'[d])
  BY <1>2, <1>6 DEF vars, AskFlush, callVars, taskVars
<1> QED
  BY <1>1, <1>3, <1>4, <1>5, <1>6 DEF HintNext, CodeTask, Register, allVars

-----------------------------------------------------------------------------
(* The inductive invariant of the code manager: FetchManager's, the type of
   the hints, no registration lost, and results of the asked hash. *)
THEOREM HintInductive == HintSpec => []HintInv
<1>1. HintInit => HintInv
  BY HintInitInv
<1>2. HintInv /\ [HintNext]_allVars => HintInv'
  <2> SUFFICES ASSUME HintInv, [HintNext]_allVars PROVE HintInv'
    OBVIOUS
  <2>1. [Next]_vars
    BY StepIsFetch DEF HintInv
  <2>2. IInv'
    BY <2>1, TypeStep, OnePlaceStep, CountStep, IssuedStep, CacheStep, HandedStep,
       AnswerStep, WaiterStep DEF IInv, HintInv
  <2> QED
    BY <2>2, HintTypeStep, NotLostStep, ResultNamedStep DEF HintInv
<1> QED
  BY <1>1, <1>2, PTL DEF HintSpec

(* What was fetched for a hash has that hash. *)
LEMMA FetchedIsNamed ==
  ASSUME IInv, ResultNamed, NEW k, NEW t, NEW v, Fetched(k, t, v)
  PROVE  Named(k, v)
<1>1. PICK d \in Call : phase[d] = "answered" /\ result[d] = v /\ request[d].key = k
  BY DEF Fetched
<1>2. request[d] # Absent
  BY <1>1 DEF IInv, OnePlace, AtRest
<1> QED
  BY <1>1, <1>2 DEF ResultNamed

(* The code a reader gets, the code in the cache and the code a flush hands
   over for a hash have that hash: never a silent wrong answer, although
   nothing guards the cache but the check of the hash. *)
THEOREM CodeNamed == HintSpec => []CodeIsNamed
<1>1. HintInv => CodeIsNamed
  <2> SUFFICES ASSUME HintInv PROVE CodeIsNamed
    OBVIOUS
  <2> USE DEF HintInv
  <2>1. ASSUME NEW k \in Key PROVE Named(k, cache[k])
    <3>1. CASE cache[k] = Absent
      BY <3>1, FetchAssumption DEF Named, Response
    <3>2. CASE cache[k] # Absent
      BY <3>2, FetchedIsNamed DEF IInv, CacheUnderTag
    <3> QED
      BY <3>1, <3>2
  <2>2. ASSUME NEW k \in Key PROVE Named(k, handed.data[k])
    <3>1. CASE handed.data[k] = Absent
      BY <3>1, FetchAssumption DEF Named, Response
    <3>2. CASE handed.data[k] # Absent
      BY <3>2, FetchedIsNamed DEF IInv, HandedUnderTag
    <3> QED
      BY <3>1, <3>2
  <2>3. ASSUME NEW c \in Call, request[c] # Absent PROVE Named(request[c].key, reply[c])
    <3>1. CASE reply[c] = Absent
      BY <3>1, FetchAssumption DEF Named, Response
    <3>2. CASE reply[c] = result[c]
      BY <2>3, <3>2 DEF ResultNamed
    <3>3. CASE reply[c] # Absent /\ reply[c] # result[c]
      BY <3>3, FetchedIsNamed DEF IInv, AnswersOwnRequest
    <3> QED
      BY <3>1, <3>2, <3>3
  <2> QED
    BY <2>1, <2>2, <2>3 DEF CodeIsNamed
<1> QED
  BY <1>1, HintInductive, PTL

(* No registration is lost between the account manager and the hints. *)
THEOREM RegistrationsKept == HintSpec => []HintNotLost
BY HintInductive, PTL DEF HintInv

(* A request that wakes the manager finds all that was registered before it
   was sent. *)
THEOREM WakingRequestIsHinted == HintSpec => WakesHinted
<1>1. ASSUME HintInv, [HintNext]_allVars, NEW c \in told,
             pc = "select", phase[c] = "queued", phase'[c] = "permit"
      PROVE  hint'[request[c].key] # NoHint
  <2> USE DEF HintInv
  <2>1. c \in Call /\ request[c].key \in registered /\ phase \in [Call -> Phase]
    BY <1>1 DEF HintTypeOK, HintNotLost, IInv, TypeOK
  <2>2. PICK d \in Call : Takes(d)
    <3>1. ASSUME NEW d \in Call, NEW r \in Request, Ask(d, r) PROVE FALSE
      BY <1>1, <2>1, <3>1 DEF Ask, Send
    <3>2. ASSUME NEW d \in Call, \/ Fetches(d) \/ Complete(d) \/ DrainOne(d)
                                \/ CodeTask(d) \/ TimeOut(d)
          PROVE  FALSE
      BY <1>1, <2>1, <3>2
         DEF Fetches, Spawn, Complete, DrainOne, ApplyCompletion, CodeTask, TaskSends,
             Answers, RpcReturns, TimeOut, taskVars
    <3>3. CASE AskFlush \/ BatchEnds \/ BeginFlush \/ HandOver \/ UNCHANGED vars
      BY <1>1, <3>3 DEF AskFlush, BatchEnds, BeginFlush, HandOver, vars, taskVars
    <3> QED
      BY <1>1, <3>1, <3>2, <3>3 DEF HintNext, CodeManager, SideArrives, Register, allVars
  <2>3. DrainSide
    BY <1>1, <2>2 DEF Takes, DrainsOnWake
  <2> QED
    BY <1>1, <2>1, <2>3, DrainKeeps
<1>2. HintInv /\ [HintNext]_allVars =>
        [\A c \in told : pc = "select" /\ phase[c] = "queued" /\ phase'[c] = "permit"
                         => hint'[request[c].key] # NoHint]_allVars
  BY <1>1
<1> QED
  BY <1>2, HintInductive, PTL DEF HintSpec, WakesHinted

(* The code manager is a fetch manager, and keeps its promise. *)
THEOREM CodeImplementsPromise == HintSpec => KeepsPromise
<1>1. HintInit => Init
  BY DEF HintInit
<1>2. HintInv /\ [HintNext]_allVars => [Next]_vars
  BY StepIsFetch DEF HintInv
<1>3. HintSpec => Spec
  BY <1>1, <1>2, HintInductive, PTL DEF HintSpec, Spec
<1> QED
  BY <1>3, ImplementsPromise
=============================================================================
