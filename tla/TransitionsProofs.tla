-------------------------- MODULE TransitionsProofs --------------------------
(***************************************************************************)
(* Lemmas about the operators of Chain and Transitions: the chain, what a  *)
(* segment of it says, what the builders of transitions.rs give, and how   *)
(* notifications follow one another.  For every tree of blocks.            *)
(***************************************************************************)
EXTENDS Transitions, WellFoundedInduction, TLAPS

-----------------------------------------------------------------------------
(* The chain. *)

(* A chain has one block at each height. *)
LEMMA Unique ==
  ASSUME NEW b \in Block, NEW x \in Ancestors[b], NEW y \in Ancestors[b],
         Number[x] = Number[y]
  PROVE  x = y
BY ChainAssumption

(* Numbers fall along a chain, and the ancestors of a block are those of its
   descendants that are not above it. *)
LEMMA AncestorFacts ==
  ASSUME NEW b \in Block, NEW x \in Ancestors[b]
  PROVE  /\ x \in Block /\ Number[x] \in Nat /\ Number[b] \in Nat
         /\ Number[x] <= Number[b] /\ Ancestors[x] \subseteq Ancestors[b]
         /\ \A y \in Ancestors[b] : y \in Ancestors[x] <=> Number[y] <= Number[x]
<1>1. x \in Block /\ b \in Ancestors[b] /\ x \in Ancestors[x]
  BY ChainAssumption
<1>2. Number[x] \in Nat /\ Number[b] \in Nat
  BY <1>1, ChainAssumption
<1>3. Ancestors[x] \subseteq Ancestors[b] /\ (x # b => Number[x] < Number[b])
  BY <1>1, ChainAssumption
<1>4. ASSUME NEW y \in Ancestors[b] PROVE y \in Ancestors[x] <=> Number[y] <= Number[x]
  <2>1. Number[y] <= Number[x] => y \in Ancestors[x]
    BY ChainAssumption
  <2>2. y \in Ancestors[x] => y = x \/ Number[y] < Number[x]
    BY <1>1, ChainAssumption
  <2>3. Number[y] \in Nat
    BY ChainAssumption
  <2> QED
    BY <1>2, <2>1, <2>2, <2>3
<1> QED
  BY <1>1, <1>2, <1>3, <1>4

(* An ancestor is found at its own height. *)
LEMMA AtOwnHeight ==
  ASSUME NEW b \in Block, NEW x \in Ancestors[b]
  PROVE  AtHeight(b, Number[x]) = x
BY Unique DEF AtHeight

(* Something is found at each height up to a block's own. *)
LEMMA AtHeightIn ==
  ASSUME NEW b \in Block, NEW n \in 0..Number[b]
  PROVE  AtHeight(b, n) \in Ancestors[b] /\ Number[AtHeight(b, n)] = n
BY ChainAssumption DEF AtHeight

(* A block and an ancestor of it agree on everything below the ancestor. *)
LEMMA SameBelow ==
  ASSUME NEW b \in Block, NEW a \in Ancestors[b], NEW n \in 0..Number[a]
  PROVE  AtHeight(a, n) = AtHeight(b, n)
<1>1. a \in Block /\ Ancestors[a] \subseteq Ancestors[b]
  BY AncestorFacts
<1>2. AtHeight(a, n) \in Ancestors[b] /\ Number[AtHeight(a, n)] = n
  BY <1>1, AtHeightIn
<1> QED
  BY <1>2, AtOwnHeight

(* The segment of a notification holds exactly the blocks it says. *)
LEMMA PathFacts ==
  ASSUME NEW b \in Block, NEW a \in Ancestors[b]
  PROVE  /\ Path(a, b) \in Seq(Block) /\ Len(Path(a, b)) = Number[b] - Number[a]
         /\ Blocks(Path(a, b)) = Ancestors[b] \ Ancestors[a]
<1> DEFINE N == Number[b] - Number[a]
<1>1. a \in Block /\ Number[a] \in Nat /\ Number[b] \in Nat /\ N \in Nat
  BY AncestorFacts
<1>2. \A i \in 1..N : /\ Path(a, b)[i] \in Ancestors[b]
                      /\ Number[Path(a, b)[i]] = Number[a] + i
  <2>1. ASSUME NEW i \in 1..N PROVE Number[a] + i \in 0..Number[b]
    BY <1>1
  <2> QED
    BY <2>1, AtHeightIn DEF Path
<1>3. Path(a, b) \in Seq(Block) /\ Len(Path(a, b)) = N
  <2>1. Path(a, b) \in [1..N -> Block]
    BY <1>2, AncestorFacts DEF Path
  <2> QED
    BY <1>1, <2>1
<1>4. ASSUME NEW i \in 1..N PROVE Path(a, b)[i] \in Ancestors[b] \ Ancestors[a]
  <2>1. ~(Number[a] + i <= Number[a])
    BY <1>1
  <2> QED
    BY <1>2, <2>1, AncestorFacts
<1>5. ASSUME NEW x \in Ancestors[b] \ Ancestors[a] PROVE \E i \in 1..N : x = Path(a, b)[i]
  <2>1. Number[x] \in Nat /\ Number[x] <= Number[b] /\ ~(Number[x] <= Number[a])
    BY AncestorFacts
  <2>2. Number[x] - Number[a] \in 1..N /\ Number[a] + (Number[x] - Number[a]) = Number[x]
    BY <1>1, <2>1
  <2>3. Path(a, b)[Number[x] - Number[a]] = x
    BY <2>2, AtOwnHeight DEF Path
  <2> QED
    BY <2>2, <2>3
<1> QED
  BY <1>3, <1>4, <1>5 DEF Blocks

(* Its ends: the last block is the new tip, the first one follows the block it
   starts from. *)
LEMMA PathEnds ==
  ASSUME NEW b \in Block, NEW a \in Ancestors[b], a # b
  PROVE  /\ Tip(Path(a, b)) = b /\ b \in Blocks(Path(a, b))
         /\ Number[b] > 0
         /\ First(Path(a, b)) \in Block
         /\ Number[First(Path(a, b))] = Number[a] + 1
         /\ Parent(First(Path(a, b))) = a
<1> DEFINE N == Number[b] - Number[a]
           f == First(Path(a, b))
<1>1. a \in Block /\ Number[a] \in Nat /\ Number[b] \in Nat /\ b \in Ancestors[b]
  BY AncestorFacts, ChainAssumption
<1>2. Number[a] < Number[b]
  BY ChainAssumption
<1>3. N \in Nat /\ N >= 1 /\ 1 \in 1..N /\ N \in 1..N /\ Number[a] + N = Number[b]
      /\ Number[a] + 1 \in 0..Number[b]
  BY <1>1, <1>2
<1>4. Tip(Path(a, b)) = b
  BY <1>1, <1>3, PathFacts, AtOwnHeight DEF Tip, Path
<1>5. b \in Blocks(Path(a, b))
  BY <1>1, <1>2, PathFacts, AncestorFacts
<1>6. f \in Ancestors[b] /\ Number[f] = Number[a] + 1
  BY <1>3, AtHeightIn DEF First, Path
<1>7. f \in Block /\ f # Genesis /\ a \in Ancestors[f]
  BY <1>1, <1>6, AncestorFacts, ChainAssumption
<1>8. Parent(f) = a
  <2>1. Number[f] - 1 = Number[a]
    BY <1>1, <1>6
  <2> QED
    BY <1>7, <2>1, AtOwnHeight DEF Parent, AtHeight
<1> QED
  BY <1>1, <1>2, <1>4, <1>5, <1>6, <1>7, <1>8

-----------------------------------------------------------------------------
(* What a segment says about the state. *)

(* The segment carries every block that leads from h to its tip. *)
Leads(h, seg) ==
    /\ h \in Ancestors[Tip(seg)]
    /\ Ancestors[Tip(seg)] \ Ancestors[h] \subseteq Blocks(seg)

(* An entry none of those blocks touched has the value it had. *)
LEMMA Untouched ==
  ASSUME NEW b \in Block, NEW h \in Ancestors[b], NEW e \in Entry,
         \A x \in Ancestors[b] \ Ancestors[h] : e \notin Touched[x]
  PROVE  LastTouch(h, e) = LastTouch(b, e)
<1>1. Touching(h, e) = Touching(b, e)
  BY AncestorFacts DEF Touching
<1> QED
  BY <1>1 DEF LastTouch

(* A set of numbers has a least one. *)
LEMMA Least ==
  ASSUME NEW T \in SUBSET Nat, T # {}
  PROVE  \E x \in T : \A y \in T : x <= y
<1> DEFINE R == OpToRel(<, Nat)
<1>1. IsWellFoundedOn(R, Nat)
  BY NatLessThanWellFounded, Zenon
<1>2. ASSUME NEW x \in Nat, NEW y \in Nat, y < x PROVE <<y, x>> \in R
  BY <1>2 DEF OpToRel
<1> HIDE DEF R
<1>3. PICK x \in T : \A y \in T : ~(<<y, x>> \in R)
  BY <1>1, WFMin
<1>4. ASSUME NEW y \in T PROVE x <= y
  <2>1. ~(y < x)
    BY <1>2, <1>3
  <2> QED
    BY <2>1
<1> QED
  BY <1>4

(* Genesis touched every entry, so some block touched it last. *)
LEMMA Last ==
  ASSUME NEW b \in Block, NEW e \in Entry
  PROVE  LastTouch(b, e) \in Touching(b, e) /\ LastTouch(b, e) \in Block
<1> DEFINE D == {Number[b] - Number[x] : x \in Touching(b, e)}
<1>1. Genesis \in Touching(b, e) /\ Touching(b, e) \subseteq Ancestors[b]
  BY ChainAssumption, ContentAssumption DEF Touching
<1>2. \A x \in Touching(b, e) : /\ x \in Block /\ Number[x] \in Nat /\ Number[b] \in Nat
                                /\ Number[x] <= Number[b]
  BY <1>1, AncestorFacts
<1>3. D \in SUBSET Nat /\ D # {}
  BY <1>1, <1>2
<1>4. PICK d \in D : \A c \in D : d <= c
  BY <1>3, Least
<1>5. PICK x \in Touching(b, e) : d = Number[b] - Number[x]
  BY <1>4
<1>6. \A y \in Touching(b, e) : Number[b] - Number[x] <= Number[b] - Number[y]
  BY <1>4, <1>5
<1>7. \A y \in Touching(b, e) : Number[y] <= Number[x]
  BY <1>2, <1>6
<1>8. LastTouch(b, e) \in Touching(b, e)
  BY <1>7 DEF LastTouch
<1> QED
  BY <1>2, <1>8

(* No block destroys a, or any account. *)
Lasts(a) == \A b \in Block : a \notin Destroyed[b]
NobodyGone == \A b \in Block : Destroyed[b] = {}

(* If none is destroyed, each lasts. *)
LEMMA AllLast == NobodyGone => \A a : Lasts(a)
BY DEF NobodyGone, Lasts

(* Then the node never answers that the account is gone. *)
LEMMA NeverGone ==
  ASSUME NEW b \in Block, NEW a \in Account, Lasts(a)
  PROVE  InfoAt(b, a) # Gone
BY Last, ContentAssumption DEF Lasts, InfoAt, Entry

-----------------------------------------------------------------------------
(* The builders, field by field. *)

(* s is a record with the fields of StateSnapshot. *)
IsSnapshot(s) ==
    /\ DOMAIN s = {"block", "hash", "header", "stale", "accounts", "storage", "code",
                   "hashes", "receipts", "changed"}
    /\ s = [x \in DOMAIN s |-> s[x]]

(* The fields build_commit_state and build_reorg_state give to the snapshot of
   a segment, from the entries e and the block hashes kept. *)
MovedBy(seg, e, t) ==
    /\ IsSnapshot(t)
    /\ t.block = Number[Tip(seg)] /\ t.hash = Tip(seg) /\ t.header = Tip(seg)
    /\ t.hashes = WithHashes(e.hashes, seg)
    /\ t.code = e.code \cup Contracts(seg)
    /\ t.accounts = [a \in Account |->
            IF /\ a \in ChangedAccounts(seg) /\ InfoAt(Tip(seg), a) # Gone
               /\ e.accounts[a] # Unheld
            THEN InfoAt(Tip(seg), a) ELSE e.accounts[a]]
    /\ t.storage = [k \in Slot |->
            IF k \in ChangedSlots(seg) /\ e.storage[k] # Unheld
            THEN WordAt(Tip(seg), k) ELSE e.storage[k]]

(* build_commit_state and build_reorg_state end alike: what they give, and that
   they leave the stale flag of what they start from. *)
LEMMA Moved ==
  ASSUME NEW e, IsSnapshot(e), NEW seg
  PROVE  LET t == MovedTo(ApplyBlockData(ApplyExecutionChanges(e, seg), seg), seg)
         IN  MovedBy(seg, e, t) /\ t.stale = e.stale
<1> DEFINE x == ApplyExecutionChanges(e, seg)
           y == ApplyBlockData(x, seg)
           t == MovedTo(y, seg)
<1>1. /\ IsSnapshot(x) /\ x.stale = e.stale /\ x.hashes = e.hashes
      /\ x.code = e.code \cup Contracts(seg)
      /\ x.accounts = [a \in Account |->
            IF /\ a \in ChangedAccounts(seg) /\ InfoAt(Tip(seg), a) # Gone
               /\ e.accounts[a] # Unheld
            THEN InfoAt(Tip(seg), a) ELSE e.accounts[a]]
      /\ x.storage = [k \in Slot |->
            IF k \in ChangedSlots(seg) /\ e.storage[k] # Unheld
            THEN WordAt(Tip(seg), k) ELSE e.storage[k]]
  BY DEF ApplyExecutionChanges, IsSnapshot
<1> HIDE DEF x
<1>2. /\ IsSnapshot(y) /\ y.stale = x.stale /\ y.hashes = WithHashes(x.hashes, seg)
      /\ y.code = x.code /\ y.accounts = x.accounts /\ y.storage = x.storage
      /\ y.header = Tip(seg)
  BY <1>1 DEF ApplyBlockData, IsSnapshot
<1> HIDE DEF y
<1>3. /\ IsSnapshot(t) /\ t.stale = y.stale /\ t.hashes = y.hashes
      /\ t.code = y.code /\ t.accounts = y.accounts /\ t.storage = y.storage
      /\ t.header = y.header /\ t.block = Number[Tip(seg)] /\ t.hash = Tip(seg)
  BY <1>2 DEF MovedTo, IsSnapshot
<1> HIDE DEF t
<1>4. MovedBy(seg, e, t) /\ t.stale = e.stale
  BY <1>1, <1>2, <1>3 DEF MovedBy
<1> QED
  BY <1>4 DEF x, y, t

(* The entries of s have the values they have at block h: all but the accounts
   that are destroyed, which a commit leaves as they were. *)
EntriesAt(s, h) ==
    /\ \A a \in Account : Lasts(a) => s.accounts[a] \in {Unheld, InfoAt(h, a)}
    /\ \A k \in Slot : s.storage[k] \in {Unheld, WordAt(h, k)}

NoEntries(s) ==
    /\ \A a \in Account : s.accounts[a] = Unheld
    /\ \A k \in Slot : s.storage[k] = Unheld

(* apply_execution_changes carries an exact account or slot along the segment. *)
LEMMA AccountCarried ==
  ASSUME NEW e, NEW t, NEW seg, NEW h \in Block, MovedBy(seg, e, t),
         Tip(seg) \in Block, Leads(h, seg), NEW a \in Account, Lasts(a),
         e.accounts[a] \in {Unheld, InfoAt(h, a)}
  PROVE  t.accounts[a] \in {Unheld, InfoAt(Tip(seg), a)}
<1>1. CASE a \in ChangedAccounts(seg)
  BY <1>1, NeverGone DEF MovedBy
<1>2. CASE a \notin ChangedAccounts(seg)
  <2>1. \A x \in Blocks(seg) : a \notin Touched[x]
    BY <1>2 DEF ChangedAccounts
  <2>2. LastTouch(h, a) = LastTouch(Tip(seg), a)
    BY <2>1, Untouched DEF Leads, Entry
  <2> QED
    BY <1>2, <2>2 DEF InfoAt, MovedBy
<1> QED
  BY <1>1, <1>2

LEMMA SlotCarried ==
  ASSUME NEW e, NEW t, NEW seg, NEW h \in Block, MovedBy(seg, e, t),
         Tip(seg) \in Block, Leads(h, seg), NEW k \in Slot,
         e.storage[k] \in {Unheld, WordAt(h, k)}
  PROVE  t.storage[k] \in {Unheld, WordAt(Tip(seg), k)}
<1>1. CASE k \in ChangedSlots(seg)
  BY <1>1 DEF MovedBy
<1>2. CASE k \notin ChangedSlots(seg)
  <2>1. \A x \in Blocks(seg) : k \notin Touched[x]
    BY <1>2 DEF ChangedSlots
  <2>2. LastTouch(h, k) = LastTouch(Tip(seg), k)
    BY <2>1, Untouched DEF Leads, Entry
  <2> QED
    BY <1>2, <2>2 DEF WordAt, MovedBy
<1> QED
  BY <1>1, <1>2

(* So it carries exact entries along, and holds nothing where nothing was
   held. *)
LEMMA ExecutionIsExact ==
  ASSUME NEW e, NEW t, NEW seg, NEW h \in Block, MovedBy(seg, e, t),
         Tip(seg) \in Block, Leads(h, seg), EntriesAt(e, h)
  PROVE  EntriesAt(t, Tip(seg))
<1>1. ASSUME NEW a \in Account, Lasts(a)
      PROVE  t.accounts[a] \in {Unheld, InfoAt(Tip(seg), a)}
  BY <1>1, AccountCarried DEF EntriesAt
<1>2. ASSUME NEW k \in Slot PROVE t.storage[k] \in {Unheld, WordAt(Tip(seg), k)}
  BY SlotCarried DEF EntriesAt
<1> QED
  BY <1>1, <1>2 DEF EntriesAt

(* Applied to no entries, a segment leaves none. *)
LEMMA NothingStaysNothing ==
  ASSUME NEW e, NEW t, NEW seg, MovedBy(seg, e, t), NoEntries(e)
  PROVE  NoEntries(t)
BY DEF MovedBy, NoEntries

(* The entries build_commit_state applies the segment to. *)
Merged(s, caches) == MergeCaches([s EXCEPT !.stale = FALSE], caches, s.hash)

(* build_commit_state, field by field. *)
LEMMA CommitFields ==
  ASSUME NEW s, IsSnapshot(s), NEW caches, NEW seg
  PROVE  LET e == Merged(s, caches)
             t == BuildCommitState(s, caches, seg)
         IN  /\ MovedBy(seg, e, t)
             /\ e.accounts = Extended(s.accounts, caches.accounts, s.hash)
             /\ e.storage = Extended(s.storage, caches.storage, s.hash)
             /\ e.hashes = Extended(s.hashes, caches.hashes, s.hash)
             /\ e.code = s.code \cup caches.code
<1> DEFINE e == Merged(s, caches)
<1>1. /\ IsSnapshot(e)
      /\ e.accounts = Extended(s.accounts, caches.accounts, s.hash)
      /\ e.storage = Extended(s.storage, caches.storage, s.hash)
      /\ e.hashes = Extended(s.hashes, caches.hashes, s.hash)
      /\ e.code = s.code \cup caches.code
  BY DEF Merged, MergeCaches, IsSnapshot
<1>2. MovedBy(seg, e, BuildCommitState(s, caches, seg))
  BY <1>1, Moved DEF BuildCommitState, Merged
<1> QED
  BY <1>1, <1>2

(* It clears the stale flag. *)
LEMMA CommitFresh ==
  ASSUME NEW s, IsSnapshot(s), NEW caches, NEW seg
  PROVE  BuildCommitState(s, caches, seg).stale = FALSE
<1> DEFINE e == Merged(s, caches)
<1>1. IsSnapshot(e) /\ e.stale = FALSE
  BY DEF Merged, MergeCaches, IsSnapshot
<1>2. BuildCommitState(s, caches, seg).stale = e.stale
  BY <1>1, Moved DEF BuildCommitState, Merged
<1> QED
  BY <1>1, <1>2

(* build_reorg_state, field by field: no entry is kept, the code is, and the
   block hashes up to the common ancestor are. *)
LEMMA ReorgFields ==
  ASSUME NEW s, IsSnapshot(s), NEW n \in Nat, NEW seg
  PROVE  LET e == CopyHistoryBefore(s, n, EmptySnapshot)
             t == BuildReorgState(s, n, seg)
         IN  /\ MovedBy(seg, e, t) /\ t.stale = FALSE
             /\ NoEntries(e) /\ e.code = s.code
             /\ e.hashes = [m \in Height |-> IF m <= n THEN s.hashes[m] ELSE Unheld]
<1> DEFINE e == CopyHistoryBefore(s, n, EmptySnapshot)
<1>1. /\ IsSnapshot(e) /\ e.stale = FALSE /\ NoEntries(e) /\ e.code = s.code
      /\ e.hashes = [m \in Height |-> IF m <= n THEN s.hashes[m] ELSE Unheld]
  BY DEF CopyHistoryBefore, EmptySnapshot, IsSnapshot, NoEntries
<1>2. MovedBy(seg, e, BuildReorgState(s, n, seg))
      /\ BuildReorgState(s, n, seg).stale = e.stale
  BY <1>1, Moved DEF BuildReorgState
<1> QED
  BY <1>1, <1>2

(* build_revert_state, field by field. *)
LEMMA RevertFields ==
  ASSUME NEW s, IsSnapshot(s), NEW n \in Nat
  PROVE  LET t == BuildRevertState(s, n)
         IN  /\ IsSnapshot(t) /\ t.stale = TRUE /\ t.hash = ZeroHash /\ t.code = s.code
             /\ NoEntries(t)
BY DEF BuildRevertState, CopyHistoryBefore, EmptySnapshot, IsSnapshot, NoEntries

(* mark_stale changes nothing but the flag. *)
LEMMA StaleFields ==
  ASSUME NEW s, IsSnapshot(s)
  PROVE  LET t == MarkStale(s)
         IN  /\ IsSnapshot(t) /\ t.stale = TRUE /\ t.block = s.block /\ t.hash = s.hash
             /\ t.header = s.header /\ t.accounts = s.accounts /\ t.storage = s.storage
             /\ t.code = s.code /\ t.hashes = s.hashes
BY DEF MarkStale, IsSnapshot

-----------------------------------------------------------------------------
(* The block hashes. *)

(* The hashes m names are those of the chain to h. *)
HashesAt(m, h) ==
    \A n \in Height : m[n] # Unheld => n <= Number[h] /\ m[n] = AtHeight(h, n)

NoHashes(m) == \A n \in Height : m[n] = Unheld

(* One insert per block of a segment names the blocks of the chain to its tip,
   and leaves the other heights alone. *)
LEMMA Inserted ==
  ASSUME NEW t \in Block, NEW f \in Ancestors[t], NEW m, NEW n \in Height
  PROVE  \/ n <= Number[t] /\ WithHashes(m, Path(f, t))[n] = AtHeight(t, n)
         \/ WithHashes(m, Path(f, t))[n] = m[n]
<1> DEFINE B == Blocks(Path(f, t))
<1>1. CASE \E b \in B : Number[b] = n
  <2>1. PICK b \in B : b = WithHashes(m, Path(f, t))[n] /\ Number[b] = n
    BY <1>1 DEF WithHashes
  <2>2. b \in Ancestors[t]
    BY <2>1, PathFacts
  <2> QED
    BY <2>1, <2>2, AncestorFacts, AtOwnHeight
<1>2. CASE ~\E b \in B : Number[b] = n
  BY <1>2 DEF WithHashes
<1> QED
  BY <1>1, <1>2

(* So they are kept those of the chain, from any ancestor on. *)
LEMMA HashesCarried ==
  ASSUME NEW t \in Block, NEW f \in Ancestors[t], NEW m,
         NoHashes(m) \/ \E h \in Ancestors[t] : HashesAt(m, h)
  PROVE  HashesAt(WithHashes(m, Path(f, t)), t)
<1> SUFFICES ASSUME NEW n \in Height, WithHashes(m, Path(f, t))[n] # Unheld,
                    WithHashes(m, Path(f, t))[n] = m[n]
             PROVE  n <= Number[t] /\ m[n] = AtHeight(t, n)
  BY Inserted DEF HashesAt
<1>0. n \in Nat
  BY ChainAssumption DEF Height
<1>1. PICK h \in Ancestors[t] : HashesAt(m, h)
  BY DEF NoHashes
<1>2. n <= Number[h] /\ m[n] = AtHeight(h, n)
  BY <1>1 DEF HashesAt
<1>3. Number[h] \in Nat /\ Number[t] \in Nat /\ Number[h] <= Number[t]
  BY AncestorFacts
<1>4. n \in 0..Number[h] /\ n <= Number[t]
  BY <1>0, <1>2, <1>3
<1> QED
  BY <1>2, <1>4, SameBelow

-----------------------------------------------------------------------------
(* Where the node was. *)

(* The block a notification leaves the node at. *)
After(n) == IF n.kind = "revert" THEN Parent(First(n.old)) ELSE Tip(n.new)

(* n takes the node from block p to block q. *)
Takes(p, n, q) ==
    \/ p \in Ancestors[q] /\ \E f \in Ancestors[p] \ {q} : n = Commit(Path(f, q))
    \/ \E f \in (Ancestors[p] \cap Ancestors[q]) \ {p, q} :
          n = Reorg(Path(f, p), Path(f, q))
    \/ q \in Ancestors[p] \ {p} /\ n = Revert(Path(q, p))

Leaves(p, n) == After(n) \in Block /\ Takes(p, n, After(n))

(* The notifications of ns, one after the other, take the node from p to q. *)
Route(p, ns, q) ==
    IF ns = <<>> THEN p = q
    ELSE /\ Leaves(p, ns[1])
         /\ \A i \in 1..(Len(ns) - 1) : Leaves(After(ns[i]), ns[i + 1])
         /\ After(ns[Len(ns)]) = q

(* What the three kinds say. *)
LEMMA LeavesFacts ==
  ASSUME NEW p \in Block, NEW n, Leaves(p, n)
  PROVE  LET q == After(n)
         IN  /\ n.kind = "commit" =>
                   /\ q = Tip(n.new) /\ p \in Ancestors[q]
                   /\ \E f \in Ancestors[p] \ {q} : n.new = Path(f, q)
             /\ n.kind = "reorg" =>
                   /\ q = Tip(n.new)
                   /\ \E f \in (Ancestors[p] \cap Ancestors[q]) \ {p, q} :
                         n.old = Path(f, p) /\ n.new = Path(f, q)
             /\ n.kind = "revert" => q \in Ancestors[p] \ {p} /\ n.old = Path(q, p)
             /\ n.kind \in {"commit", "reorg", "revert"}
BY DEF Leaves, Takes, Commit, Reorg, Revert, After
=============================================================================
