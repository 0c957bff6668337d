---------------------------- MODULE FetchService ----------------------------
(***************************************************************************)
(* What a fetch manager promises, and nothing of how it works: the readers *)
(* ask, the node is asked at most once on behalf of each question, a reply *)
(* is something the node answered to the very same question, and a cache   *)
(* handed over to a flush holds, under one tag, only what the node         *)
(* answered to questions carrying that tag.  No queue, no permit, no       *)
(* epoch.                                                                  *)
(***************************************************************************)
CONSTANTS
    Call, Key, Tag, ZeroHash, Value, NotFound, Failed, Absent,
    Tagged       \* FALSE for the code manager: its answers hold at any tag

VARIABLES
    request,     \* [Call -> question asked], Absent before
    reply,       \* [Call -> Response], Absent before
    waiting,     \* calls still listening for a reply
    given,       \* [Call -> what the node answered on its behalf]
    handed       \* the cache of the last flush

vars == <<request, reply, waiting, given, handed>>

Response == Value \cup {NotFound, Failed}
Request == [key: Key, tag: Tag]
EmptyCache == [k \in Key |-> Absent]

(* The node answered resp to a question about key k, asked under tag t. *)
Answered(k, t, resp) ==
    \E d \in Call : /\ given[d] = resp
                    /\ request[d] # Absent
                    /\ request[d].key = k
                    /\ Tagged => request[d].tag = t

Init ==
    /\ request = [c \in Call |-> Absent]
    /\ reply = [c \in Call |-> Absent]
    /\ waiting = {}
    /\ given = [c \in Call |-> Absent]
    /\ handed = [tag |-> ZeroHash, data |-> EmptyCache]

Ask(c, r) ==
    /\ request[c] = Absent
    /\ request' = [request EXCEPT ![c] = r]
    /\ waiting' = waiting \cup {c}
    /\ UNCHANGED <<reply, given, handed>>

GiveUp(c) ==
    /\ c \in waiting
    /\ waiting' = waiting \ {c}
    /\ UNCHANGED <<request, reply, given, handed>>

NodeAnswers(c, resp) ==
    /\ request[c] # Absent /\ given[c] = Absent
    /\ given' = [given EXCEPT ![c] = resp]
    /\ UNCHANGED <<request, reply, waiting, handed>>

(* A reader hears what the node answered: to its own question, or a value
   the node gave to the same question asked by another. *)
Reply(c, resp) ==
    /\ c \in waiting
    /\ \/ given[c] = resp
       \/ resp \in Value /\ Answered(request[c].key, request[c].tag, resp)
    /\ reply' = [reply EXCEPT ![c] = resp]
    /\ waiting' = waiting \ {c}
    /\ UNCHANGED <<request, given, handed>>

Flush(t, data) ==
    /\ \A k \in Key : data[k] # Absent => /\ data[k] \in Value
                                          /\ Answered(k, t, data[k])
    /\ handed' = [tag |-> t, data |-> data]
    /\ UNCHANGED <<request, reply, waiting, given>>

Next ==
    \/ \E c \in Call : \/ \E r \in Request : Ask(c, r)
                       \/ GiveUp(c)
                       \/ \E resp \in Response : NodeAnswers(c, resp)
                       \/ \E resp \in Response : Reply(c, resp)
    \/ \E t \in Tag, data \in [Key -> Value \cup {Absent}] : Flush(t, data)

Spec == Init /\ [][Next]_vars
=============================================================================
