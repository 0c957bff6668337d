------------------------- MODULE NotificationBridge -------------------------
(***************************************************************************)
(* The way of a notification from the node to the changeset manager: the   *)
(* ExEx of reth-rex (main.rs) puts it on a broadcast channel, a task per   *)
(* connection copies it to the connection's stream, and the thread of      *)
(* rex-cons (lib.rs) reads the stream, reconnects when it ends, and hands  *)
(* the notification to its subscriber through a bounded channel.           *)
(*                                                                         *)
(* A notification is its number in the broadcast channel.  There is one    *)
(* client: the tasks of other connections only read the broadcast channel, *)
(* and so does the task of a connection that broke, until its next send.   *)
(* What the node's canonical stream skips before the ExEx sees it gets no  *)
(* number.                                                                 *)
(***************************************************************************)
EXTENDS Integers, Sequences

CONSTANTS
    BroadcastDepth,   \* capacity of the broadcast channel (32)
    WireDepth,        \* a connection's channel (1) and what HTTP/2 buffers
    OutDepth,         \* capacity of the subscriber's channel (64)
    InitialBackoff,   \* INITIAL_BACKOFF, in seconds
    MaxBackoff,       \* MAX_BACKOFF
    MaxSent,          \* bound: notifications sent
    MaxFaults         \* bound: broken connections, crashes, ends of the ExEx

ASSUME BridgeAssumption ==
    /\ {BroadcastDepth, WireDepth, OutDepth} \subseteq Nat \ {0}
    /\ {InitialBackoff, MaxBackoff} \subseteq Nat \ {0}
    /\ InitialBackoff <= MaxBackoff
    /\ MaxSent \in Nat /\ MaxFaults \in Nat

VARIABLES
    server,      \* whether the node's process and its gRPC server run
    exex,        \* whether the loop of remote_exex runs
    sent,        \* notifications put on the broadcast channel so far
    task,        \* the connection's task: "none", "recv", "send", "ended"
    cursor,      \* the number it receives next; in "send", one more than it holds
    wire,        \* from its channel to the client
    link,        \* the client's stream: "none", "open", or "broken" unnoticed
    place,       \* where the rex-cons thread is
    backoff,
    held,        \* the notification it hands over
    out,         \* the subscriber's channel
    subscribed,  \* the subscriber still has its receiver
    last,        \* the last notification the subscriber took, 0 before
    faults

node == <<server, exex, sent>>
connection == <<task, cursor, wire, link>>
client == <<place, backoff, held>>
subscriber == <<out, subscribed, last>>
vars == <<node, connection, client, subscriber, faults>>

(* connecting: about to call try_connect; sleeping: in sleep(backoff);
   reading: in stream.message(); handing: in tx.send; stopped: the thread
   ended. *)
Place == {"connecting", "sleeping", "reading", "handing", "stopped"}

Doubled(b) == IF 2 * b < MaxBackoff THEN 2 * b ELSE MaxBackoff

Init ==
    /\ server \in BOOLEAN /\ exex = server /\ sent = 0
    /\ task = "none" /\ cursor = 1 /\ wire = <<>> /\ link = "none"
    /\ place = "connecting" /\ backoff = InitialBackoff /\ held = 0
    /\ out = <<>> /\ subscribed = TRUE /\ last = 0
    /\ faults = 0

-----------------------------------------------------------------------------
(* The node and its ExEx. *)

(* A commit or a reorg of the canonical stream.  Without a receiver the send
   fails and the notification is gone. *)
Broadcast ==
    /\ server /\ exex /\ sent < MaxSent
    /\ sent' = sent + 1
    /\ UNCHANGED <<server, exex, connection, client, subscriber, faults>>

Fault == faults < MaxFaults /\ faults' = faults + 1

(* The ExEx's own stream ends or fails, or a finished height cannot be sent:
   nothing is forwarded any more, while the server keeps its connections until
   the node ends (Crash), if it does. *)
ExexEnds ==
    /\ Fault
    /\ server /\ exex /\ exex' = FALSE
    /\ UNCHANGED <<server, sent, connection, client, subscriber>>

Crash ==
    /\ Fault
    /\ server /\ server' = FALSE /\ exex' = FALSE
    /\ task' = "none"
    /\ link' = IF link = "open" THEN "broken" ELSE link
    /\ UNCHANGED <<sent, cursor, wire, client, subscriber>>

Restart ==
    /\ ~server /\ server' = TRUE /\ exex' = TRUE
    /\ UNCHANGED <<sent, connection, client, subscriber, faults>>

-----------------------------------------------------------------------------
(* The task of the connection. *)

Lagged == cursor + BroadcastDepth <= sent

TaskReceives ==
    /\ task = "recv" /\ cursor <= sent /\ ~Lagged
    /\ task' = "send" /\ cursor' = cursor + 1
    /\ UNCHANGED <<node, wire, link, client, subscriber, faults>>

(* Mutant: a task that lagged goes on with the oldest notification left. *)
SkipsWhatItMissed ==
    /\ task = "recv" /\ Lagged
    /\ task' = "send" /\ cursor' = sent - BroadcastDepth + 2
    /\ UNCHANGED <<node, wire, link, client, subscriber, faults>>

(* recv returns Lagged: the loop ends and drops the channel's sender. *)
TaskLags ==
    /\ task = "recv" /\ Lagged
    /\ task' = "ended"
    /\ UNCHANGED <<node, cursor, wire, link, client, subscriber, faults>>

(* tx.send waits for room; it fails when the client is gone. *)
TaskSends ==
    /\ task = "send"
    /\ \/ /\ link = "open" /\ Len(wire) < WireDepth
          /\ wire' = Append(wire, cursor - 1)
          /\ task' = "recv"
       \/ /\ link # "open"
          /\ task' = "ended" /\ UNCHANGED wire
    /\ UNCHANGED <<node, cursor, link, client, subscriber, faults>>

(* The network drops the connection; the client learns it later. *)
Break ==
    /\ Fault
    /\ link = "open" /\ link' = "broken"
    /\ UNCHANGED <<node, task, cursor, wire, client, subscriber>>

-----------------------------------------------------------------------------
(* The rex-cons thread. *)

(* Mutant: a new connection is served what the broadcast channel still holds. *)
SubscribesToThePast ==
    /\ place = "connecting" /\ server
    /\ task' = "recv" /\ wire' = <<>> /\ link' = "open"
    /\ cursor' = IF sent < BroadcastDepth THEN 1 ELSE sent - BroadcastDepth + 1
    /\ backoff' = InitialBackoff /\ place' = "reading"
    /\ UNCHANGED <<node, held, subscriber, faults>>

(* The server subscribes the new connection to what comes next.  The backoff is
   reset here, where docs/DESIGN.md:38 says "not on connect". *)
Connects ==
    /\ place = "connecting" /\ server
    /\ task' = "recv" /\ cursor' = sent + 1 /\ wire' = <<>> /\ link' = "open"
    /\ backoff' = InitialBackoff /\ place' = "reading"
    /\ UNCHANGED <<node, held, subscriber, faults>>

ConnectFails ==
    /\ place = "connecting"
    /\ place' = "sleeping"
    /\ UNCHANGED <<node, connection, backoff, held, subscriber, faults>>

Wakes ==
    /\ place = "sleeping"
    /\ backoff' = Doubled(backoff) /\ place' = "connecting"
    /\ UNCHANGED <<node, connection, held, subscriber, faults>>

ReadsNotification ==
    /\ place = "reading" /\ wire # <<>>
    /\ wire' = Tail(wire) /\ held' = Head(wire)
    /\ backoff' = InitialBackoff /\ place' = "handing"
    /\ UNCHANGED <<node, task, cursor, link, subscriber, faults>>

(* A message that does not decode is skipped. *)
SkipsMessage ==
    /\ place = "reading" /\ wire # <<>>
    /\ wire' = Tail(wire)
    /\ UNCHANGED <<node, task, cursor, link, client, subscriber, faults>>

(* The client drops its stream; the task, if it still runs, ends at its next
   send. *)
HangsUp == link' = "none" /\ task' = "none" /\ wire' = <<>>

(* Mutant: a stream that the server ended is kept. *)
KeepsEndedStream ==
    /\ place = "reading" /\ link = "broken"
    /\ HangsUp
    /\ place' = "connecting"
    /\ UNCHANGED <<node, cursor, backoff, held, subscriber, faults>>

(* The stream is at its end, or fails, with or without what was on the wire. *)
StreamEnds ==
    /\ place = "reading"
    /\ \/ task = "ended" /\ wire = <<>>
       \/ link = "broken"
    /\ HangsUp
    /\ place' = "connecting"
    /\ UNCHANGED <<node, cursor, backoff, held, subscriber, faults>>

(* Mutant: a notification overtakes those that wait in the channel. *)
HandsOverReversed ==
    /\ place = "handing" /\ held' = 0
    /\ \/ /\ subscribed /\ Len(out) < OutDepth
          /\ out' = <<held>> \o out /\ place' = "reading"
          /\ UNCHANGED connection
       \/ /\ ~subscribed
          /\ place' = "stopped" /\ HangsUp /\ UNCHANGED <<cursor, out>>
    /\ UNCHANGED <<node, backoff, subscribed, last, faults>>

(* Mutant: the channel has no capacity. *)
HandsOverUnbounded ==
    /\ place = "handing" /\ held' = 0
    /\ \/ /\ subscribed
          /\ out' = Append(out, held) /\ place' = "reading"
          /\ UNCHANGED connection
       \/ /\ ~subscribed
          /\ place' = "stopped" /\ HangsUp /\ UNCHANGED <<cursor, out>>
    /\ UNCHANGED <<node, backoff, subscribed, last, faults>>

(* Mutant: the thread does not notice that its subscriber left. *)
HandsOverToNobody ==
    /\ place = "handing" /\ held' = 0
    /\ subscribed /\ Len(out) < OutDepth
    /\ out' = Append(out, held) /\ place' = "reading"
    /\ UNCHANGED <<node, connection, backoff, subscribed, last, faults>>

(* tx.send waits for room; it fails when the subscriber is gone, and the
   thread ends. *)
HandsOver ==
    /\ place = "handing" /\ held' = 0
    /\ \/ /\ subscribed /\ Len(out) < OutDepth
          /\ out' = Append(out, held) /\ place' = "reading"
          /\ UNCHANGED connection
       \/ /\ ~subscribed
          /\ place' = "stopped" /\ HangsUp /\ UNCHANGED <<cursor, out>>
    /\ UNCHANGED <<node, backoff, subscribed, last, faults>>

-----------------------------------------------------------------------------
(* The subscriber: the changeset manager's loop. *)

Takes ==
    /\ subscribed /\ out # <<>>
    /\ last' = Head(out) /\ out' = Tail(out)
    /\ UNCHANGED <<node, connection, client, subscribed, faults>>

Unsubscribes ==
    /\ subscribed /\ subscribed' = FALSE
    /\ out' = <<>>
    /\ UNCHANGED <<node, connection, client, last, faults>>

-----------------------------------------------------------------------------
Task == TaskReceives \/ TaskLags \/ TaskSends
Reads == ReadsNotification \/ SkipsMessage \/ StreamEnds

Next ==
    \/ Broadcast \/ ExexEnds \/ Crash \/ Restart
    \/ Task \/ Break
    \/ Connects \/ ConnectFails \/ Wakes \/ Reads \/ HandsOver
    \/ Takes \/ Unsubscribes

Spec == Init /\ [][Next]_vars

(* Tasks and threads that can run do; a node that is down is started again,
   and one that is up can be reached now and then; the changeset manager goes
   on taking notifications. *)
FairSpec ==
    /\ Spec
    /\ WF_vars(Restart) /\ WF_vars(Task)
    /\ SF_vars(Connects) /\ WF_vars(ConnectFails \/ Connects) /\ WF_vars(Wakes)
    /\ WF_vars(Reads) /\ WF_vars(HandsOver) /\ WF_vars(Takes)
-----------------------------------------------------------------------------
(* Type correctness of the node, the connection, the client and its
   subscriber; each channel keeps its capacity. *)
NodeOK == server \in BOOLEAN /\ exex \in BOOLEAN /\ sent \in 0..MaxSent
ConnectionOK ==
    /\ task \in {"none", "recv", "send", "ended"} /\ cursor \in 1..(MaxSent + 1)
    /\ wire \in Seq(1..MaxSent) /\ Len(wire) <= WireDepth
    /\ link \in {"none", "open", "broken"}
ClientOK ==
    place \in Place /\ held \in 0..MaxSent /\ backoff \in InitialBackoff..MaxBackoff
SubscriberOK ==
    /\ out \in Seq(1..MaxSent) /\ Len(out) <= OutDepth
    /\ subscribed \in BOOLEAN /\ last \in 0..MaxSent
TypeOK ==
    NodeOK /\ ConnectionOK /\ ClientOK /\ SubscriberOK /\ faults \in 0..MaxFaults

(* What the task puts on the wire next. *)
Upcoming == IF task = "send" THEN cursor - 1 ELSE cursor
Alive == task \in {"recv", "send"}

(* A lag is never silent within a connection: what is on the wire is a run of
   the broadcast channel without a hole, up to the task's cursor while it
   runs.  A client that fell behind loses its stream instead of a part of it. *)
NoSilentHole ==
    \A i \in 1..Len(wire) :
        /\ i > 1 => wire[i] = wire[i - 1] + 1
        /\ Alive => wire[i] = Upcoming - Len(wire) + i - 1

(* Everything on its way from the broadcast channel to the subscriber is older
   the nearer it is to the subscriber, and nothing there is older than what
   the subscriber has taken: no connection resends what an earlier one gave. *)
Increasing(q) == \A i, j \in 1..Len(q) : i < j => q[i] < q[j]
Passed(n) == last < n /\ held < n /\ \A i \in 1..Len(out) : out[i] < n
Ordered ==
    /\ Increasing(out) /\ Increasing(wire)
    /\ \A i \in 1..Len(out) : last < out[i] /\ (held # 0 => out[i] < held)
    /\ held # 0 => last < held
    /\ \A i \in 1..Len(wire) : /\ Passed(wire[i]) /\ wire[i] <= sent
                               /\ Alive => wire[i] < Upcoming
    /\ Passed(sent + 1) /\ cursor <= sent + 1
    /\ Alive => Passed(Upcoming)

(* The subscriber gets the notifications in the order sent and none twice,
   across lags, broken connections, crashes and restarts: the bridge is the
   transport the changeset manager relies on. *)
Abstract == INSTANCE Transport
InOrder == Abstract!Spec

(* A stream is held exactly while it is read or a notification of it handed
   over, and a task runs only for a stream that is held. *)
Placed == /\ link # "none" <=> place \in {"reading", "handing"}
          /\ held # 0 <=> place = "handing"
          /\ Alive => link # "none"

(* The inductive invariant. *)
IInv == TypeOK /\ Placed /\ Ordered /\ NoSilentHole

(* After the last fault and the last lag the client has a connection whose
   task still serves it, for good, whatever was lost meanwhile; or its thread
   ended, which needs a subscriber that left. *)
Served == link = "open" /\ Alive
ComesBack == <>[](Served \/ place = "stopped")

(* The stream, the thread and the subscriber's channel are a chain of bounded
   buffers, each waiting for the next: nothing in it waits for ever. *)
OnItsWay(n) == n = held \/ \E i \in 1..Len(wire) : wire[i] = n
NothingStuck ==
    \A n \in 1..MaxSent : OnItsWay(n) ~> ~OnItsWay(n)
=============================================================================
