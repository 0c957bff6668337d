------------------------------ MODULE CodeHints ------------------------------
(***************************************************************************)
(* The code manager: FetchManager with CodeSpec (managers.rs).  The node   *)
(* gives code by account, so the manager must know an account that has the *)
(* code of a hash.  The account manager tells it, over a channel of its    *)
(* own, for every account it resolves, before it answers whoever asked for *)
(* the account; the manager keeps one account per hash, the last.          *)
(*                                                                         *)
(* A value is a bytecode, a key its hash; the empty code is one of them.   *)
(* The requests of code_by_hash_ref carry no hint of their own and no tag. *)
(***************************************************************************)
EXTENDS FetchManager

CONSTANTS
    Account,
    HashOf,            \* [Value -> Key]: keccak256
    CodeOf,            \* [Account -> SUBSET Value]: what the node may answer,
                       \* at one block or another, for the code of an account
    NoHint,
    MaxRegistrations   \* bound: accounts resolved

Registration == [key: Key, account: Account]

ASSUME CodeAssumption ==
    /\ ~Tagged /\ ~EpochGuarded
    /\ HashOf \in [Value -> Key]
    /\ CodeOf \in [Account -> SUBSET Value]
    /\ NoHint \notin Account
    /\ MaxRegistrations \in Nat

VARIABLES
    side,         \* side_rx: registrations on their way
    hint,         \* CodeHints: the account known for a hash
    address,      \* the account a call's fetch was given when spawned
    registered,   \* the hashes registered so far
    told,         \* the calls whose hash was registered before they were sent
    resolved      \* accounts resolved so far

hintVars == <<side, hint, address, registered, told, resolved>>
allVars == <<vars, hintVars>>

HintInit ==
    /\ Init
    /\ side = <<>> /\ hint = [k \in Key |-> NoHint]
    /\ address = [c \in Call |-> NoHint]
    /\ registered = {} /\ told = {} /\ resolved = 0

-----------------------------------------------------------------------------
(* AccountSpec::on_success, in the account manager: it runs whatever the
   epoch of the account's fetch, before the reply is sent. *)
Register(v, a) ==
    /\ resolved < MaxRegistrations /\ resolved' = resolved + 1
    /\ v \in CodeOf[a]
    /\ side' = Append(side, [key |-> HashOf[v], account |-> a])
    /\ registered' = registered \cup {HashOf[v]}
    /\ UNCHANGED <<vars, hint, address, told>>

(* code_by_hash_ref, after its own basic_ref returned or without any. *)
Ask(c, r) ==
    /\ Send(c, r)
    /\ told' = IF r.key \in registered THEN told \cup {c} ELSE told
    /\ UNCHANGED <<side, hint, address, registered, resolved>>

-----------------------------------------------------------------------------
(* Mutant: only the first registration in the channel is kept. *)
DrainedToFirst ==
    [k \in Key |-> IF side # <<>> /\ Head(side).key = k THEN Head(side).account
                   ELSE hint[k]]

(* on_side for everything in the channel: the last registration wins. *)
Drained ==
    [k \in Key |->
        LET at == {i \in 1..Len(side) : side[i].key = k} IN
        IF at = {} THEN hint[k]
        ELSE side[CHOOSE i \in at : \A j \in at : j <= i].account]

DrainSide == hint' = Drained /\ side' = <<>>

(* Mutant: registrations are taken with a request only. *)
SideWaits ==
    /\ pc = "select" /\ side # <<>> /\ fetchQ # <<>>
    /\ DrainSide
    /\ UNCHANGED <<vars, address, registered, told, resolved>>

SideArrives ==
    /\ pc = "select" /\ side # <<>>
    /\ DrainSide
    /\ UNCHANGED <<vars, address, registered, told, resolved>>

(* Mutant: a request that wakes the manager leaves the registrations where
   they are. *)
DrainsNothing ==
    UNCHANGED <<hint, side>>

(* The request that wakes the manager drains the channel of registrations,
   the others of its batch do not. *)
DrainsOnWake ==
    IF pc = "select" THEN DrainSide ELSE UNCHANGED <<hint, side>>

Takes(c) ==
    /\ ServeHit(c) \/ TakeMiss(c)
    /\ DrainsOnWake
    /\ UNCHANGED <<address, registered, told, resolved>>

(* CodeSpec::fetch reads the hint once, when the permit is there. *)
Fetches(c) ==
    /\ Spawn(c)
    /\ address' = [address EXCEPT ![c] = hint[request[c].key]]
    /\ UNCHANGED <<side, hint, registered, told, resolved>>

-----------------------------------------------------------------------------
(* Mutant: the code is not hashed. *)
AnswersAnyCode(c) ==
    \/ RpcReturns(c, Failed)
    \/ address[c] # NoHint /\ \E v \in CodeOf[address[c]] : RpcReturns(c, v)

(* get_code_by_hash: no hint, a failed call, and code of another hash are
   errors. *)
Answers(c) ==
    \/ RpcReturns(c, Failed)
    \/ /\ address[c] # NoHint
       /\ \E v \in CodeOf[address[c]] :
             HashOf[v] = request[c].key /\ RpcReturns(c, v)

CodeManager ==
    \/ \E c \in Call : \/ Takes(c) \/ Fetches(c)
                       \/ (Complete(c) \/ DrainOne(c)) /\ UNCHANGED hintVars
    \/ (BatchEnds \/ BeginFlush \/ HandOver) /\ UNCHANGED hintVars
    \/ SideArrives

CodeTask(c) == (TaskSends(c) \/ Answers(c)) /\ UNCHANGED hintVars

HintNext ==
    \/ \E a \in Account : \E v \in CodeOf[a] : Register(v, a)
    \/ \E c \in Call, r \in Request : Ask(c, r)
    \/ \E c \in Call : TimeOut(c) /\ UNCHANGED hintVars
    \/ AskFlush /\ UNCHANGED hintVars
    \/ CodeManager
    \/ \E c \in Call : CodeTask(c)

HintSpec == HintInit /\ [][HintNext]_allVars

FairHintSpec ==
    /\ HintSpec
    /\ WF_allVars(CodeManager)
    /\ \A c \in Call : WF_allVars(CodeTask(c))
-----------------------------------------------------------------------------
(* Type correctness of what the code manager adds (CodeHints, side_rx). *)
HintTypeOK ==
    /\ side \in Seq(Registration) /\ hint \in [Key -> Account \cup {NoHint}]
    /\ address \in [Call -> Account \cup {NoHint}]
    /\ registered \subseteq Key /\ told \subseteq Call
    /\ resolved \in 0..MaxRegistrations

(* Whatever account the hint of a hash names, however often other accounts
   overwrote it, and although code is cached at no tag and under no epoch:
   the code a reader gets, the code in the cache and the code a flush hands
   over for a hash have that hash. *)
Named(k, v) == v \in Value => HashOf[v] = k
CodeIsNamed ==
    /\ \A k \in Key : Named(k, cache[k]) /\ Named(k, handed.data[k])
    /\ \A c \in Call : request[c] # Absent => Named(request[c].key, reply[c])

(* A registration is never lost: its hash has a hint, or will have one when
   the channel is drained next.  A reader that was told the hash and got no
   code for lack of a hint finds one when it asks again. *)
Registers(k) == \E i \in 1..Len(side) : side[i].key = k
HintNotLost ==
    /\ \A k \in registered : hint[k] # NoHint \/ Registers(k)
    /\ \A c \in told : request[c] # Absent /\ request[c].key \in registered

(* The inductive invariant, with FetchManager's: a fetch returns code of the
   hash it was asked for. *)
ResultNamed ==
    \A c \in Call : request[c] # Absent => Named(request[c].key, result[c])

HintInv == IInv /\ HintTypeOK /\ HintNotLost /\ ResultNamed

(* A request that wakes the manager finds every registration made before it
   was sent: only a request taken in a batch may miss its own. *)
WakesHinted ==
    [][\A c \in told : pc = "select" /\ phase[c] = "queued" /\ phase'[c] = "permit"
                         => hint'[request[c].key] # NoHint]_allVars

(* Registrations do not pile up for ever while nobody asks for code. *)
SideDrains == side # <<>> ~> side = <<>>

-----------------------------------------------------------------------------
(* What the documents say and the code does not do. *)

(* docs/DESIGN.md:90: "When the account manager resolves an account it
   forwards `(code_hash -> address)` to the code manager over a side channel,
   which the code manager accumulates": a hash that was forwarded before it
   was asked for is not "a hash with no hint". *)
ToldIsHinted == \A c \in told : phase[c] = "rpc" => address[c] # NoHint
=============================================================================
