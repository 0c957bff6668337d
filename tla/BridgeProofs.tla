---------------------------- MODULE BridgeProofs ----------------------------
(* Proofs about NotificationBridge, for any capacities, any backoff and any
   number of notifications and faults. *)
EXTENDS NotificationBridge, TLAPS

USE BridgeAssumption

(* The head and the tail of a channel. *)
LEMMA Taken ==
  ASSUME NEW S, NEW q \in Seq(S), q # <<>>
  PROVE  /\ Len(q) \in Nat /\ 1 \in 1..Len(q)
         /\ Head(q) = q[1] /\ q[1] \in S
         /\ Tail(q) \in Seq(S) /\ Len(Tail(q)) = Len(q) - 1
         /\ \A i \in 1..Len(Tail(q)) : i + 1 \in 1..Len(q) /\ Tail(q)[i] = q[i + 1]
OBVIOUS

(* A notification put at the end of a channel. *)
LEMMA Joined ==
  ASSUME NEW S, NEW q \in Seq(S), NEW n \in S
  PROVE  /\ Append(q, n) \in Seq(S) /\ Len(Append(q, n)) = Len(q) + 1
         /\ Len(q) \in Nat
         /\ \A i \in 1..Len(q) : Append(q, n)[i] = q[i]
         /\ \A i \in 1..Len(Append(q, n)) : i \in 1..Len(q) \/ i = Len(q) + 1
         /\ Append(q, n)[Len(q) + 1] = n
OBVIOUS

(* The constants bound the channels and the backoff. *)
LEMMA Bounds ==
  /\ BroadcastDepth \in Nat /\ WireDepth \in Nat /\ OutDepth \in Nat
  /\ WireDepth > 0 /\ OutDepth > 0 /\ BroadcastDepth > 0
  /\ InitialBackoff \in InitialBackoff..MaxBackoff
  /\ InitialBackoff \in Nat /\ MaxBackoff \in Nat
  /\ \A b \in InitialBackoff..MaxBackoff : Doubled(b) \in InitialBackoff..MaxBackoff
BY DEF Doubled

LEMMA TypeInit == Init => TypeOK
BY Bounds DEF Init, TypeOK, NodeOK, ConnectionOK, ClientOK, SubscriberOK, Place

(* A step keeps the types of the parts it leaves alone. *)
LEMMA Kept ==
  ASSUME TypeOK
  PROVE  /\ UNCHANGED node => NodeOK'
         /\ UNCHANGED connection => ConnectionOK'
         /\ UNCHANGED client => ClientOK'
         /\ UNCHANGED subscriber => SubscriberOK'
         /\ UNCHANGED faults => (faults \in 0..MaxFaults)'
         /\ Fault => (faults \in 0..MaxFaults)'
<1>1. UNCHANGED node => NodeOK'
  BY DEF TypeOK, NodeOK, node
<1>2. UNCHANGED connection => ConnectionOK'
  BY DEF TypeOK, ConnectionOK, connection
<1>3. UNCHANGED client => ClientOK'
  BY DEF TypeOK, ClientOK, client, Place
<1>4. UNCHANGED subscriber => SubscriberOK'
  BY DEF TypeOK, SubscriberOK, subscriber
<1>5. /\ UNCHANGED faults => (faults \in 0..MaxFaults)'
      /\ Fault => (faults \in 0..MaxFaults)'
  BY DEF TypeOK, Fault
<1> QED
  BY <1>1, <1>2, <1>3, <1>4, <1>5

LEMMA NodeTyped ==
  ASSUME TypeOK, Broadcast \/ ExexEnds \/ Crash \/ Restart \/ Break
  PROVE  TypeOK'
<1>1. CASE Broadcast
  <2>1. NodeOK'
    BY <1>1 DEF Broadcast, TypeOK, NodeOK
  <2> QED
    BY <1>1, <2>1, Kept DEF Broadcast, TypeOK
<1>2. CASE ExexEnds
  <2>1. NodeOK'
    BY <1>2 DEF ExexEnds, TypeOK, NodeOK
  <2> QED
    BY <1>2, <2>1, Kept DEF ExexEnds, TypeOK
<1>3. CASE Crash
  <2>1. NodeOK' /\ ConnectionOK'
    BY <1>3 DEF Crash, TypeOK, NodeOK, ConnectionOK
  <2> QED
    BY <1>3, <2>1, Kept DEF Crash, TypeOK
<1>4. CASE Restart
  <2>1. NodeOK'
    BY <1>4 DEF Restart, TypeOK, NodeOK
  <2> QED
    BY <1>4, <2>1, Kept DEF Restart, TypeOK
<1>5. CASE Break
  <2>1. ConnectionOK'
    BY <1>5 DEF Break, TypeOK, ConnectionOK
  <2> QED
    BY <1>5, <2>1, Kept DEF Break, TypeOK
<1> QED
  BY <1>1, <1>2, <1>3, <1>4, <1>5

LEMMA TaskTyped ==
  ASSUME IInv, Task
  PROVE  TypeOK'
<1>1. CASE TaskReceives \/ TaskLags
  <2>1. ConnectionOK'
    BY <1>1 DEF TaskReceives, TaskLags, IInv, TypeOK, ConnectionOK, NodeOK
  <2> QED
    BY <1>1, <2>1, Kept DEF TaskReceives, TaskLags, IInv, TypeOK
<1>2. CASE TaskSends
  <2>1. ConnectionOK'
    <3>1. CASE link = "open"
      <4>1. cursor - 1 \in 1..MaxSent
        BY <1>2 DEF TaskSends, IInv, TypeOK, ConnectionOK, ClientOK, SubscriberOK,
                    Ordered, Alive, Upcoming, Passed
      <4>2. wire' = Append(wire, cursor - 1) /\ Len(wire) < WireDepth
        BY <1>2, <3>1 DEF TaskSends
      <4>3. wire' \in Seq(1..MaxSent) /\ Len(wire') <= WireDepth
        BY <4>1, <4>2, Bounds, Joined DEF IInv, TypeOK, ConnectionOK
      <4> QED
        BY <1>2, <3>1, <4>3 DEF TaskSends, IInv, TypeOK, ConnectionOK
    <3>2. CASE link # "open"
      BY <1>2, <3>2 DEF TaskSends, IInv, TypeOK, ConnectionOK
    <3> QED
      BY <3>1, <3>2
  <2> QED
    BY <1>2, <2>1, Kept DEF TaskSends, IInv, TypeOK
<1> QED
  BY <1>1, <1>2 DEF Task

LEMMA ClientTyped ==
  ASSUME IInv, Connects \/ ConnectFails \/ Wakes \/ Reads
  PROVE  TypeOK'
<1>1. CASE Connects
  <2>1. ConnectionOK' /\ ClientOK'
    BY <1>1, Bounds
    DEF Connects, IInv, TypeOK, NodeOK, ConnectionOK, ClientOK, Place
  <2> QED
    BY <1>1, <2>1, Kept DEF Connects, IInv, TypeOK
<1>2. CASE ConnectFails
  <2>1. ClientOK'
    BY <1>2 DEF ConnectFails, IInv, TypeOK, ClientOK, Place
  <2> QED
    BY <1>2, <2>1, Kept DEF ConnectFails, IInv, TypeOK
<1>3. CASE Wakes
  <2>1. ClientOK'
    BY <1>3, Bounds DEF Wakes, IInv, TypeOK, ClientOK, Place
  <2> QED
    BY <1>3, <2>1, Kept DEF Wakes, IInv, TypeOK
<1>4. CASE ReadsNotification \/ SkipsMessage
  <2>1. wire # <<>> /\ wire' = Tail(wire)
    BY <1>4 DEF ReadsNotification, SkipsMessage
  <2>2. wire' \in Seq(1..MaxSent) /\ Len(wire') <= WireDepth /\ Head(wire) \in 1..MaxSent
    BY <2>1, Bounds, Taken DEF IInv, TypeOK, ConnectionOK
  <2>3. ConnectionOK'
    BY <1>4, <2>2 DEF ReadsNotification, SkipsMessage, IInv, TypeOK, ConnectionOK
  <2>4. ClientOK'
    <3>1. CASE ReadsNotification
      BY <3>1, <2>2, Bounds DEF ReadsNotification, IInv, TypeOK, ClientOK, Place
    <3>2. CASE SkipsMessage
      BY <3>2, Kept DEF SkipsMessage, IInv
    <3> QED
      BY <1>4, <3>1, <3>2
  <2> QED
    BY <1>4, <2>3, <2>4, Kept DEF ReadsNotification, SkipsMessage, IInv, TypeOK
<1>5. CASE StreamEnds
  <2>1. ConnectionOK'
    BY <1>5, Bounds DEF StreamEnds, HangsUp, IInv, TypeOK, ConnectionOK
  <2>2. ClientOK'
    BY <1>5 DEF StreamEnds, IInv, TypeOK, ClientOK, Place
  <2> QED
    BY <1>5, <2>1, <2>2, Kept DEF StreamEnds, IInv, TypeOK
<1> QED
  BY <1>1, <1>2, <1>3, <1>4, <1>5 DEF Reads

LEMMA SubscriberTyped ==
  ASSUME IInv, HandsOver \/ Takes \/ Unsubscribes
  PROVE  TypeOK'
<1>1. CASE HandsOver
  <2>1. ClientOK'
    BY <1>1 DEF HandsOver, IInv, TypeOK, ClientOK, Place
  <2>2. held \in 1..MaxSent
    BY <1>1 DEF HandsOver, IInv, TypeOK, ClientOK, Placed
  <2>3. SubscriberOK' /\ ConnectionOK'
    <3>1. CASE subscribed
      <4>1. out' \in Seq(1..MaxSent) /\ Len(out') <= OutDepth
        <5>1. out' = Append(out, held) /\ Len(out) < OutDepth
          BY <1>1, <3>1 DEF HandsOver
        <5>2. out \in Seq(1..MaxSent)
          BY DEF IInv, TypeOK, SubscriberOK
        <5> QED
          BY <2>2, <5>1, <5>2, Bounds, Joined
      <4>2. UNCHANGED connection /\ UNCHANGED <<subscribed, last>>
        BY <1>1, <3>1 DEF HandsOver
      <4> QED
        BY <4>1, <4>2, Kept DEF IInv, TypeOK, SubscriberOK
    <3>2. CASE ~subscribed
      <4>1. UNCHANGED subscriber
        BY <1>1, <3>2 DEF HandsOver, subscriber
      <4>2. HangsUp /\ UNCHANGED cursor
        BY <1>1, <3>2 DEF HandsOver
      <4>3. ConnectionOK'
        BY <4>2, Bounds DEF HangsUp, IInv, TypeOK, ConnectionOK
      <4> QED
        BY <4>1, <4>3, Kept DEF IInv
    <3> QED
      BY <3>1, <3>2
  <2> QED
    BY <1>1, <2>1, <2>3, Kept DEF HandsOver, IInv, TypeOK
<1>2. CASE Takes
  <2>1. out' \in Seq(1..MaxSent) /\ Len(out') <= OutDepth /\ last' \in 1..MaxSent
    BY <1>2, Bounds, Taken DEF Takes, IInv, TypeOK, SubscriberOK
  <2>2. SubscriberOK'
    BY <1>2, <2>1 DEF Takes, IInv, TypeOK, SubscriberOK
  <2> QED
    BY <1>2, <2>2, Kept DEF Takes, IInv, TypeOK
<1>3. CASE Unsubscribes
  <2>1. out' = <<>> /\ subscribed' = FALSE /\ last' = last
    BY <1>3 DEF Unsubscribes
  <2>2. SubscriberOK'
    <3>1. out' \in Seq(1..MaxSent) /\ Len(out') <= OutDepth
      BY <2>1, Bounds
    <3> QED
      BY <2>1, <3>1 DEF IInv, TypeOK, SubscriberOK
  <2> QED
    BY <1>3, <2>2, Kept DEF Unsubscribes, IInv, TypeOK
<1> QED
  BY <1>1, <1>2, <1>3

(* The types are preserved by every step. *)
LEMMA TypeStep == IInv /\ [Next]_vars => TypeOK'
<1> SUFFICES ASSUME IInv, [Next]_vars PROVE TypeOK'
  OBVIOUS
<1>1. CASE UNCHANGED vars
  BY <1>1, Kept DEF IInv, TypeOK, vars
<1> QED
  BY <1>1, NodeTyped, TaskTyped, ClientTyped, SubscriberTyped DEF Next, IInv

-----------------------------------------------------------------------------
LEMMA RestInit == Init => Placed /\ Ordered /\ NoSilentHole
BY DEF Init, Placed, Ordered, NoSilentHole, Increasing, Passed, Alive

(* The thread's place and its stream go together. *)
LEMMA PlacedStep == IInv /\ [Next]_vars => Placed'
<1> SUFFICES ASSUME IInv, [Next]_vars PROVE Placed'
  OBVIOUS
<1> USE DEF IInv, Placed, Alive
<1>1. CASE Broadcast \/ ExexEnds \/ Restart \/ UNCHANGED vars
  BY <1>1 DEF Broadcast, ExexEnds, Restart, vars, connection, client
<1>2. CASE Crash \/ Break
  BY <1>2 DEF Crash, Break, client
<1>3. CASE Task
  BY <1>3 DEF Task, TaskReceives, TaskLags, TaskSends, client
<1>4. CASE Connects \/ StreamEnds
  BY <1>4 DEF Connects, StreamEnds, HangsUp
<1>5. CASE ConnectFails \/ Wakes
  BY <1>5 DEF ConnectFails, Wakes, connection
<1>6. CASE ReadsNotification
  <2>1. Head(wire) # 0
    BY <1>6, Taken DEF ReadsNotification, TypeOK, ConnectionOK
  <2> QED
    BY <1>6, <2>1 DEF ReadsNotification
<1>7. CASE SkipsMessage
  BY <1>7 DEF SkipsMessage, client
<1>8. CASE HandsOver
  BY <1>8 DEF HandsOver, HangsUp, connection
<1>9. CASE Takes \/ Unsubscribes
  BY <1>9 DEF Takes, Unsubscribes, connection, client
<1> QED
  BY <1>1, <1>2, <1>3, <1>4, <1>5, <1>6, <1>7, <1>8, <1>9 DEF Next, Reads

(* What the node, the task and the thread do to the order of what is on its
   way. *)
LEMMA OrderedNode ==
  ASSUME IInv, Broadcast \/ ExexEnds \/ Crash \/ Restart \/ Break \/ UNCHANGED vars
  PROVE  Ordered' /\ NoSilentHole'
<1>1. /\ UNCHANGED <<cursor, wire, held, out, last>>
      /\ UNCHANGED task \/ task' = "none"
      /\ UNCHANGED sent \/ sent' = sent + 1
  <2>1. CASE Broadcast
    BY <2>1 DEF Broadcast, connection, client, subscriber
  <2>2. CASE ExexEnds \/ Restart
    BY <2>2 DEF ExexEnds, Restart, connection, client, subscriber
  <2>3. CASE Crash \/ Break
    BY <2>3 DEF Crash, Break, node, client, subscriber
  <2>4. CASE UNCHANGED vars
    BY <2>4 DEF vars, node, connection, client, subscriber
  <2> QED
    BY <2>1, <2>2, <2>3, <2>4
<1>2. NoSilentHole'
  BY <1>1 DEF IInv, NoSilentHole, Upcoming, Alive
<1>3. /\ sent \in Nat /\ sent' \in Nat /\ sent <= sent' /\ cursor \in Nat
      /\ last \in Nat /\ held \in Nat
  BY <1>1 DEF IInv, TypeOK, NodeOK, ConnectionOK, ClientOK, SubscriberOK
<1>4. /\ \A i \in 1..Len(out) : out[i] \in Nat
      /\ \A i \in 1..Len(wire) : wire[i] \in Nat
  BY DEF IInv, TypeOK, ConnectionOK, SubscriberOK
<1>5. Increasing(out)' /\ Increasing(wire)'
  BY <1>1 DEF IInv, Ordered, Increasing
<1>6. cursor <= sent + 1
  BY DEF IInv, Ordered
<1>7. last < sent + 1 /\ held < sent + 1 /\ \A i \in 1..Len(out) : out[i] < sent + 1
  BY DEF IInv, Ordered, Passed
<1>8. /\ last < sent' + 1 /\ held < sent' + 1
      /\ \A i \in 1..Len(out) : out[i] < sent' + 1
  <2>1. CASE UNCHANGED sent
    BY <2>1, <1>7
  <2>2. CASE sent' = sent + 1
    BY <2>2, <1>3, <1>4, <1>7
  <2> QED
    BY <1>1, <2>1, <2>2
<1>9. Passed(sent + 1)'
  BY <1>1, <1>8 DEF Passed
<1>10. Alive' => Alive /\ UNCHANGED Upcoming
  BY <1>1 DEF Alive, Upcoming
<1>11. \A i \in 1..Len(wire') : /\ Passed(wire[i])' /\ wire'[i] <= sent'
                                /\ Alive' => wire'[i] < Upcoming'
  BY <1>1, <1>3, <1>10, <1>4 DEF IInv, Ordered, Passed
<1>12. Alive' => Passed(Upcoming)'
  BY <1>1, <1>10 DEF IInv, Ordered, Passed
<1>13. cursor' <= sent' + 1
  <2>1. CASE UNCHANGED sent
    BY <2>1, <1>1, <1>6
  <2>2. CASE sent' = sent + 1
    BY <2>2, <1>1, <1>3, <1>6
  <2> QED
    BY <1>1, <2>1, <2>2
<1>14. /\ \A i \in 1..Len(out') : last' < out'[i] /\ (held' # 0 => out'[i] < held')
       /\ held' # 0 => last' < held'
  BY <1>1 DEF IInv, Ordered
<1>15. Ordered'
  BY <1>5, <1>9, <1>11, <1>12, <1>13, <1>14 DEF Ordered
<1> QED
  BY <1>2, <1>15

LEMMA OrderedTask ==
  ASSUME IInv, Task
  PROVE  Ordered' /\ NoSilentHole'
<1>1. UNCHANGED <<sent, held, out, last>>
  BY DEF Task, TaskReceives, TaskLags, TaskSends, node, client, subscriber
<1>2. CASE TaskReceives \/ TaskLags
  <2>1. /\ UNCHANGED wire
        /\ Alive' => Alive /\ UNCHANGED Upcoming
        /\ cursor' <= sent + 1
    BY <1>2 DEF TaskReceives, TaskLags, Alive, Upcoming, IInv, TypeOK, NodeOK,
                ConnectionOK, Ordered
  <2> QED
    BY <1>1, <2>1 DEF IInv, Ordered, NoSilentHole, Increasing, Passed
<1>3. CASE TaskSends
  <2>1. CASE link = "open"
    <3> DEFINE n == cursor - 1
    <3>1. /\ wire' = Append(wire, n) /\ UNCHANGED cursor
          /\ Alive /\ Upcoming = n /\ Alive' /\ Upcoming' = n + 1
      BY <1>3, <2>1 DEF TaskSends, Alive, Upcoming, IInv, TypeOK, ConnectionOK
    <3>2. n \in 1..MaxSent /\ n <= sent /\ Passed(n)
      BY <3>1 DEF IInv, TypeOK, ConnectionOK, ClientOK, SubscriberOK, NodeOK, Ordered, Passed
    <3>3. wire \in Seq(1..MaxSent) /\ sent \in Nat
      BY DEF IInv, TypeOK, ConnectionOK, NodeOK
    <3>4. /\ Len(wire') = Len(wire) + 1 /\ Len(wire) \in Nat
          /\ \A i \in 1..Len(wire) : wire'[i] = wire[i]
          /\ \A i \in 1..Len(wire') : i \in 1..Len(wire) \/ i = Len(wire) + 1
          /\ wire'[Len(wire) + 1] = n
      <4>1. wire' = Append(wire, n) /\ n \in 1..MaxSent
        BY <3>1, <3>2
      <4> HIDE DEF n
      <4> QED
        BY <4>1, <3>3, Joined
    <3>5. \A i \in 1..Len(wire) :
             /\ Passed(wire[i]) /\ wire[i] <= sent /\ wire[i] < n
             /\ wire[i] = n - Len(wire) + i - 1
             /\ i > 1 => wire[i] = wire[i - 1] + 1
      BY <3>1 DEF IInv, Ordered, NoSilentHole
    <3> HIDE DEF n
    <3>6. ASSUME NEW i \in 1..Len(wire')
          PROVE  /\ Passed(wire'[i]) /\ wire'[i] <= sent /\ wire'[i] < n + 1
                 /\ wire'[i] = n + 1 - Len(wire') + i - 1
      <4>1. CASE i \in 1..Len(wire)
        BY <4>1, <3>2, <3>3, <3>4, <3>5
      <4>2. CASE i = Len(wire) + 1
        BY <4>2, <3>2, <3>3, <3>4
      <4> QED
        BY <4>1, <4>2, <3>4
    <3>7. NoSilentHole'
      <4> SUFFICES ASSUME NEW i \in 1..Len(wire')
                   PROVE  /\ i > 1 => wire'[i] = wire'[i - 1] + 1
                          /\ wire'[i] = Upcoming' - Len(wire') + i - 1
        BY DEF NoSilentHole
      <4>1. wire'[i] = n + 1 - Len(wire') + i - 1
        BY <3>6
      <4>2. i > 1 => wire'[i - 1] = n + 1 - Len(wire') + (i - 1) - 1
        <5> SUFFICES ASSUME i > 1 PROVE wire'[i - 1] = n + 1 - Len(wire') + (i - 1) - 1
          OBVIOUS
        <5>1. i - 1 \in 1..Len(wire')
          BY <3>4
        <5> QED
          BY <5>1, <3>6
      <4> QED
        BY <3>1, <3>2, <3>4, <4>1, <4>2
    <3>8. Increasing(wire)'
      BY <3>2, <3>4, <3>6 DEF Increasing
    <3>9. \A i \in 1..Len(wire') :
             Passed(wire[i])' /\ wire'[i] <= sent' /\ wire'[i] < Upcoming'
      BY <1>1, <3>1, <3>6 DEF Passed
    <3>10. /\ last \in Nat /\ held \in Nat /\ \A i \in 1..Len(out) : out[i] \in Nat
      BY DEF IInv, TypeOK, ClientOK, SubscriberOK
    <3>11. Passed(sent + 1)' /\ Passed(Upcoming)'
      BY <1>1, <3>1, <3>2, <3>10 DEF Passed, IInv, Ordered
    <3>12. cursor' <= sent' + 1
      BY <1>1, <3>1 DEF IInv, Ordered
    <3>13. /\ Increasing(out)'
           /\ \A i \in 1..Len(out') : last' < out'[i] /\ (held' # 0 => out'[i] < held')
           /\ held' # 0 => last' < held'
      BY <1>1 DEF IInv, Ordered, Increasing
    <3> QED
      BY <3>7, <3>8, <3>9, <3>11, <3>12, <3>13 DEF Ordered
  <2>2. CASE link # "open"
    <3>1. UNCHANGED <<wire, cursor>> /\ ~Alive'
      BY <1>3, <2>2 DEF TaskSends, Alive
    <3> QED
      BY <1>1, <3>1 DEF IInv, Ordered, NoSilentHole, Increasing, Passed
  <2> QED
    BY <2>1, <2>2
<1> QED
  BY <1>2, <1>3 DEF Task

(* The types of what is compared. *)
LEMMA Numbers ==
  ASSUME TypeOK
  PROVE  /\ sent \in Nat /\ cursor \in Nat /\ last \in Nat /\ held \in Nat
         /\ out \in Seq(1..MaxSent) /\ wire \in Seq(1..MaxSent)
         /\ \A i \in 1..Len(out) : out[i] \in Nat
         /\ \A i \in 1..Len(wire) : wire[i] \in Nat /\ wire[i] > 0
<1>1. out \in Seq(1..MaxSent) /\ wire \in Seq(1..MaxSent)
  BY DEF TypeOK, ConnectionOK, SubscriberOK
<1>2. ASSUME NEW q \in Seq(1..MaxSent), NEW i \in 1..Len(q)
      PROVE  q[i] \in Nat /\ q[i] > 0
  OBVIOUS
<1>3. sent \in Nat /\ cursor \in Nat /\ last \in Nat /\ held \in Nat
  BY DEF TypeOK, NodeOK, ConnectionOK, ClientOK, SubscriberOK
<1> QED
  BY <1>1, <1>2, <1>3

LEMMA OrderedClient ==
  ASSUME IInv, Connects \/ ConnectFails \/ Wakes \/ Reads
  PROVE  Ordered' /\ NoSilentHole'
<1>1. UNCHANGED <<sent, out, last>>
  BY DEF Connects, ConnectFails, Wakes, Reads, ReadsNotification, SkipsMessage,
         StreamEnds, node, subscriber
<1>2. TypeOK /\ Placed /\ Ordered /\ NoSilentHole
  BY DEF IInv
<1>3. CASE Connects
  <2>1. /\ wire' = <<>> /\ cursor' = sent + 1 /\ task' = "recv" /\ UNCHANGED held
    BY <1>3 DEF Connects
  <2>2. Alive' /\ Upcoming' = sent + 1 /\ Len(wire') = 0
    BY <2>1 DEF Alive, Upcoming
  <2> QED
    BY <1>1, <1>2, <2>1, <2>2, Numbers DEF Ordered, NoSilentHole, Increasing, Passed
<1>4. CASE ConnectFails \/ Wakes
  <2>1. UNCHANGED <<wire, cursor, task, held>>
    BY <1>4 DEF ConnectFails, Wakes, connection
  <2> QED
    BY <1>1, <1>2, <2>1 DEF Ordered, NoSilentHole, Increasing, Passed, Alive, Upcoming
<1>5. CASE ReadsNotification \/ SkipsMessage
  <2>1. /\ wire # <<>> /\ wire' = Tail(wire) /\ UNCHANGED <<cursor, task>>
        /\ held = 0 /\ (held' = wire[1] \/ held' = 0)
    BY <1>2, <1>5, Taken, Numbers DEF ReadsNotification, SkipsMessage, Placed, client
  <2>2. /\ Len(wire) \in Nat /\ 1 \in 1..Len(wire) /\ Len(wire') = Len(wire) - 1
        /\ \A i \in 1..Len(wire') : i + 1 \in 1..Len(wire) /\ wire'[i] = wire[i + 1]
    BY <1>2, <2>1, Taken, Numbers
  <2>3. \A i, j \in 1..Len(wire) : i < j => wire[i] < wire[j]
    BY <1>2 DEF Ordered, Increasing
  <2>4. UNCHANGED <<Alive, Upcoming>>
    BY <2>1 DEF Alive, Upcoming
  <2>5. NoSilentHole'
    <3> SUFFICES ASSUME NEW i \in 1..Len(wire')
                 PROVE  /\ i > 1 => wire'[i] = wire'[i - 1] + 1
                        /\ Alive' => wire'[i] = Upcoming' - Len(wire') + i - 1
      BY DEF NoSilentHole
    <3>1. /\ i + 1 \in 1..Len(wire) /\ wire'[i] = wire[i + 1]
          /\ wire[i + 1] = wire[i + 1 - 1] + 1
          /\ Alive => wire[i + 1] = Upcoming - Len(wire) + (i + 1) - 1
      BY <1>2, <2>2 DEF NoSilentHole
    <3>2. i > 1 => wire'[i - 1] = wire[i]
      BY <2>2
    <3>3. i + 1 - 1 = i
      OBVIOUS
    <3>4. Upcoming \in Int
      BY <1>2, Numbers DEF Upcoming
    <3> QED
      BY <2>2, <2>4, <3>1, <3>2, <3>3, <3>4
  <2>6. Increasing(wire)'
    <3> SUFFICES ASSUME NEW i \in 1..Len(wire'), NEW j \in 1..Len(wire'), i < j
                 PROVE  wire'[i] < wire'[j]
      BY DEF Increasing
    <3>1. /\ i + 1 \in 1..Len(wire) /\ wire'[i] = wire[i + 1]
          /\ j + 1 \in 1..Len(wire) /\ wire'[j] = wire[j + 1]
          /\ i + 1 < j + 1
      BY <2>2
    <3> QED
      BY <2>3, <3>1
  <2>7. /\ last < wire[1] /\ \A i \in 1..Len(out) : out[i] < wire[1]
        /\ wire[1] <= sent /\ (Alive => wire[1] < Upcoming)
    BY <1>2, <2>2 DEF Ordered, Passed
  <2>8. ASSUME NEW i \in 1..Len(wire')
        PROVE  Passed(wire[i])' /\ wire'[i] <= sent' /\ (Alive' => wire'[i] < Upcoming')
    <3>1. /\ i + 1 \in 1..Len(wire) /\ wire'[i] = wire[i + 1] /\ wire[1] < wire[i + 1]
          /\ Passed(wire[i + 1]) /\ wire[i + 1] <= sent
          /\ Alive => wire[i + 1] < Upcoming
      BY <1>2, <2>2, <2>3 DEF Ordered
    <3> QED
      BY <1>1, <1>2, <2>1, <2>4, <3>1 DEF Passed
  <2>9. /\ Passed(sent + 1)' /\ cursor' <= sent' + 1
        /\ Alive' => Passed(Upcoming)'
    BY <1>1, <1>2, <2>1, <2>4, <2>7, Numbers DEF Ordered, Passed
  <2>10. /\ \A i \in 1..Len(out') : last' < out'[i] /\ (held' # 0 => out'[i] < held')
         /\ held' # 0 => last' < held'
         /\ Increasing(out)'
    BY <1>1, <1>2, <2>1, <2>7 DEF Ordered, Increasing
  <2> QED
    BY <2>5, <2>6, <2>8, <2>9, <2>10 DEF Ordered
<1>6. CASE StreamEnds
  <2>1. wire' = <<>> /\ ~Alive' /\ UNCHANGED <<cursor, held>> /\ Len(wire') = 0
    BY <1>6 DEF StreamEnds, HangsUp, Alive
  <2> QED
    BY <1>1, <1>2, <2>1 DEF Ordered, NoSilentHole, Increasing, Passed
<1> QED
  BY <1>3, <1>4, <1>5, <1>6 DEF Reads

LEMMA OrderedSubscriber ==
  ASSUME IInv, HandsOver \/ Takes \/ Unsubscribes
  PROVE  Ordered' /\ NoSilentHole'
<1>1. TypeOK /\ Placed /\ Ordered /\ NoSilentHole
  BY DEF IInv
<1>2. CASE HandsOver
  <2>1. held # 0 /\ held' = 0 /\ UNCHANGED <<sent, last, cursor>>
    BY <1>1, <1>2 DEF HandsOver, HangsUp, node, Placed, connection
  <2>2. CASE subscribed
    <3>1. out' = Append(out, held) /\ UNCHANGED <<wire, task>>
      BY <1>2, <2>2 DEF HandsOver, connection
    <3>2. held \in 1..MaxSent
      BY <1>1, <2>1 DEF TypeOK, ClientOK
    <3>3. /\ Len(out') = Len(out) + 1 /\ Len(out) \in Nat
          /\ \A i \in 1..Len(out) : out'[i] = out[i]
          /\ \A i \in 1..Len(out') : i \in 1..Len(out) \/ i = Len(out) + 1
          /\ out'[Len(out) + 1] = held
      BY <1>1, <3>1, <3>2, Joined, Numbers
    <3>4. \A i \in 1..Len(out) : last < out[i] /\ out[i] < held
      BY <1>1, <2>1 DEF Ordered
    <3>5. last < held /\ \A i, j \in 1..Len(out) : i < j => out[i] < out[j]
      BY <1>1, <2>1 DEF Ordered, Increasing
    <3>6. Increasing(out)' /\ \A i \in 1..Len(out') : last' < out'[i]
      BY <2>1, <3>3, <3>4, <3>5 DEF Increasing
    <3>7. ASSUME NEW n \in Nat, Passed(n)
          PROVE  last' < n /\ held' < n /\ \A i \in 1..Len(out') : out'[i] < n
      <4>1. last < n /\ held < n /\ \A i \in 1..Len(out) : out[i] < n
        BY <3>7 DEF Passed
      <4>2. 0 < n
        BY <3>2, <4>1
      <4> QED
        BY <2>1, <3>3, <4>1, <4>2
    <3>8. UNCHANGED <<Alive, Upcoming>>
      BY <2>1, <3>1 DEF Alive, Upcoming
    <3>9. \A i \in 1..Len(wire') : Passed(wire[i])'
      BY <1>1, <3>1, <3>7, Numbers DEF Ordered, Passed
    <3>10. Passed(sent + 1)'
      <4>1. sent + 1 \in Nat /\ Passed(sent + 1)
        BY <1>1, Numbers DEF Ordered
      <4>2. last' < sent + 1 /\ held' < sent + 1 /\ \A i \in 1..Len(out') : out'[i] < sent + 1
        BY <3>7, <4>1
      <4> QED
        BY <2>1, <4>2 DEF Passed
    <3>11. Alive' => Passed(Upcoming)'
      <4>1. Alive => Upcoming \in Nat
        BY <1>1, Numbers DEF Upcoming, TypeOK, ConnectionOK
      <4> QED
        BY <1>1, <3>7, <3>8, <4>1 DEF Ordered, Passed
    <3>12. NoSilentHole'
      BY <1>1, <3>1, <3>8 DEF NoSilentHole
    <3>13. /\ \A i \in 1..Len(wire') : wire'[i] <= sent' /\ (Alive' => wire'[i] < Upcoming')
           /\ Increasing(wire)' /\ cursor' <= sent' + 1
      BY <1>1, <2>1, <3>1, <3>8 DEF Ordered, Increasing
    <3> QED
      BY <2>1, <3>6, <3>9, <3>10, <3>11, <3>12, <3>13 DEF Ordered
  <2>3. CASE ~subscribed
    <3>1. UNCHANGED out /\ wire' = <<>> /\ Len(wire') = 0 /\ ~Alive'
      BY <1>2, <2>3 DEF HandsOver, HangsUp, Alive
    <3> QED
      BY <1>1, <2>1, <3>1, Numbers DEF Ordered, NoSilentHole, Increasing, Passed
  <2> QED
    BY <2>2, <2>3
<1>3. CASE Takes \/ Unsubscribes
  <2>1. UNCHANGED <<sent, wire, task, cursor, held>>
    BY <1>3 DEF Takes, Unsubscribes, node, connection, client
  <2>2. NoSilentHole' /\ UNCHANGED <<Alive, Upcoming>>
    BY <1>1, <2>1 DEF NoSilentHole, Alive, Upcoming
  <2>3. CASE Takes
    <3>1. out # <<>> /\ last' = out[1] /\ out' = Tail(out)
      BY <1>1, <2>3, Taken, Numbers DEF Takes
    <3>2. /\ Len(out) \in Nat /\ 1 \in 1..Len(out) /\ Len(out') = Len(out) - 1
          /\ \A i \in 1..Len(out') : i + 1 \in 1..Len(out) /\ out'[i] = out[i + 1]
      BY <1>1, <3>1, Taken, Numbers
    <3>3. \A i, j \in 1..Len(out) : i < j => out[i] < out[j]
      BY <1>1 DEF Ordered, Increasing
    <3>4. Increasing(out)' /\ \A i \in 1..Len(out') : last' < out'[i]
      BY <3>1, <3>2, <3>3 DEF Increasing
    <3>5. \A n : Passed(n) => last' < n /\ held' < n /\ \A i \in 1..Len(out') : out'[i] < n
      BY <2>1, <3>1, <3>2 DEF Passed
    <3>6. /\ held' # 0 => last' < held' /\ \A i \in 1..Len(out') : out'[i] < held'
      BY <1>1, <2>1, <3>1, <3>2 DEF Ordered
    <3>7. \A i \in 1..Len(wire') : Passed(wire[i])'
      BY <1>1, <2>1, <3>5 DEF Ordered, Passed
    <3>8. Passed(sent + 1)' /\ (Alive' => Passed(Upcoming)')
      BY <1>1, <2>1, <2>2, <3>5 DEF Ordered, Passed
    <3>9. /\ \A i \in 1..Len(wire') : wire'[i] <= sent' /\ (Alive' => wire'[i] < Upcoming')
          /\ Increasing(wire)' /\ cursor' <= sent' + 1
      BY <1>1, <2>1, <2>2 DEF Ordered, Increasing
    <3> QED
      BY <2>2, <3>4, <3>6, <3>7, <3>8, <3>9 DEF Ordered
  <2>4. CASE Unsubscribes
    <3>1. out' = <<>> /\ Len(out') = 0 /\ UNCHANGED last
      BY <2>4 DEF Unsubscribes
    <3> QED
      BY <1>1, <2>1, <2>2, <3>1 DEF Ordered, Increasing, Passed
  <2> QED
    BY <1>3, <2>3, <2>4
<1> QED
  BY <1>2, <1>3

LEMMA IInvInit == Init => IInv
BY TypeInit, RestInit DEF IInv

LEMMA IInvStep == IInv /\ [Next]_vars => IInv'
<1> SUFFICES ASSUME IInv, [Next]_vars PROVE IInv'
  OBVIOUS
<1>1. Ordered' /\ NoSilentHole'
  BY OrderedNode, OrderedTask, OrderedClient, OrderedSubscriber DEF Next
<1> QED
  BY <1>1, TypeStep, PlacedStep DEF IInv

(* The invariants of the bridge, of which the next properties are parts. *)
THEOREM Inductive == Spec => []IInv
BY IInvInit, IInvStep, PTL DEF Spec

(* Every channel keeps its capacity and every variable its type. *)
THEOREM TypeCorrect == Spec => []TypeOK
BY Inductive, PTL DEF IInv

(* No connection resends what an earlier one gave. *)
THEOREM OrderKept == Spec => []Ordered
BY Inductive, PTL DEF IInv

(* No connection skips a notification it has received a newer one after. *)
THEOREM HolesAreNotSilent == Spec => []NoSilentHole
BY Inductive, PTL DEF IInv

(* A notification the subscriber takes is newer than those it took before. *)
LEMMA TakesArrive ==
  ASSUME IInv, Takes
  PROVE  \E n \in 1..sent : Abstract!Arrive(n)
<1>1. TypeOK /\ Ordered /\ out # <<>> /\ last' = Head(out) /\ UNCHANGED sent
  BY DEF IInv, Takes, node
<1>2. 1 \in 1..Len(out) /\ Head(out) = out[1] /\ out[1] \in 1..MaxSent
  BY <1>1, Taken, Numbers
<1>3. last < out[1] /\ out[1] < sent + 1
  BY <1>1, <1>2 DEF Ordered, Passed
<1>4. out[1] \in 1..sent
  BY <1>1, <1>2, <1>3, Numbers
<1> QED
  BY <1>1, <1>2, <1>3, <1>4 DEF Abstract!Arrive

(* The bridge implements the transport the changeset manager relies on. *)
THEOREM Implements == Spec => InOrder
<1>1. Init => Abstract!Init
  BY DEF Init, Abstract!Init
<1>2. IInv /\ [Next]_vars => [Abstract!Next]_<<sent, last>>
  <2> SUFFICES ASSUME IInv, [Next]_vars
               PROVE  [Abstract!Next]_<<sent, last>>
    OBVIOUS
  <2>1. CASE Broadcast
    BY <2>1 DEF Broadcast, subscriber, Abstract!Next, Abstract!Send
  <2>2. CASE Takes
    BY <2>2, TakesArrive DEF Abstract!Next
  <2>3. CASE ExexEnds \/ Crash \/ Restart \/ Task \/ Break
    BY <2>3 DEF ExexEnds, Crash, Restart, Task, TaskReceives, TaskLags, TaskSends,
                Break, node, subscriber
  <2>4. CASE Connects \/ ConnectFails \/ Wakes \/ Reads
    BY <2>4 DEF Connects, ConnectFails, Wakes, Reads, ReadsNotification,
                SkipsMessage, StreamEnds, node, subscriber
  <2>5. CASE HandsOver \/ Unsubscribes
    BY <2>5 DEF HandsOver, Unsubscribes, node
  <2>6. CASE UNCHANGED vars
    BY <2>6 DEF vars, node, subscriber
  <2> QED
    BY <2>1, <2>2, <2>3, <2>4, <2>5, <2>6 DEF Next
<1> QED
  BY <1>1, <1>2, Inductive, PTL DEF Spec, InOrder, Abstract!Spec, Abstract!vars
=============================================================================
