---------------------------- MODULE FollowProofs ----------------------------
(***************************************************************************)
(* More proofs about Changeset: what holds while no notification is lost,  *)
(* with reverts, overlapping commits and reorgs of any depth.              *)
(***************************************************************************)
EXTENDS ChangesetProofs, FiniteSetTheorems

-----------------------------------------------------------------------------
(* The entries a history keeps. *)

(* How many of the indices are not above i. *)
Rank(K, i) == Cardinality({j \in K : j <= i})

(* The rank grows by one at each index and nowhere else. *)
LEMMA RankSteps ==
  ASSUME NEW N \in Nat, NEW K \in SUBSET (1..N)
  PROVE  /\ IsFiniteSet(K) /\ Cardinality(K) \in 0..N
         /\ \A i \in 0..N : Rank(K, i) \in Nat
         /\ Rank(K, 0) = 0 /\ Rank(K, N) = Cardinality(K)
         /\ \A i \in 1..N : Rank(K, i) = Rank(K, i - 1) + (IF i \in K THEN 1 ELSE 0)
         /\ \A i, j \in 0..N : i <= j => Rank(K, i) <= Rank(K, j)
<1> DEFINE Upto(i) == {j \in K : j <= i}
<1>0. \A j \in K : j \in Nat /\ 1 <= j /\ j <= N
  OBVIOUS
<1>1. IsFiniteSet(K) /\ Cardinality(K) <= N /\ Cardinality(K) \in Nat
  <2>1. IsFiniteSet(1..N) /\ Cardinality(1..N) = N
    BY FS_Interval
  <2> QED
    BY <2>1, FS_Subset, FS_CardinalityType
<1>2. ASSUME NEW i \in 0..N PROVE IsFiniteSet(Upto(i)) /\ Cardinality(Upto(i)) \in Nat
  <2>1. Upto(i) \subseteq K
    OBVIOUS
  <2> QED
    BY <1>1, <2>1, FS_Subset, FS_CardinalityType
<1>3. Rank(K, 0) = 0
  <2>1. \A j \in K : ~(j <= 0)
    BY <1>0
  <2>2. Upto(0) = {}
    BY <2>1
  <2> QED
    BY <2>2, FS_EmptySet DEF Rank
<1>4. Rank(K, N) = Cardinality(K)
  <2>1. Upto(N) = K
    BY <1>0
  <2> QED
    BY <2>1 DEF Rank
<1>5. ASSUME NEW i \in 1..N
      PROVE  Rank(K, i) = Rank(K, i - 1) + (IF i \in K THEN 1 ELSE 0)
  <2>1. i - 1 \in 0..N
    OBVIOUS
  <2>2. CASE i \in K
    <3>1. \A j \in K : j <= i <=> j <= i - 1 \/ j = i
      BY <1>0
    <3>2. ~(i <= i - 1) /\ i <= i
      OBVIOUS
    <3>3. Upto(i) = Upto(i - 1) \cup {i}
      BY <2>2, <3>1, <3>2, Zenon
    <3>4. i \notin Upto(i - 1)
      BY <3>2
    <3> QED
      BY <1>2, <2>1, <2>2, <3>3, <3>4, FS_AddElement DEF Rank
  <2>3. CASE i \notin K
    <3>1. \A j \in K : j <= i <=> j <= i - 1
      BY <1>0, <2>3
    <3>2. Upto(i) = Upto(i - 1)
      BY <3>1
    <3> QED
      BY <1>2, <2>1, <2>3, <3>2 DEF Rank
  <2> QED
    BY <2>2, <2>3
<1>6. ASSUME NEW i \in 0..N, NEW j \in 0..N, i <= j PROVE Rank(K, i) <= Rank(K, j)
  <2>1. \A k \in K : k <= i => k <= j
    BY <1>0, <1>6
  <2>2. Upto(i) \subseteq Upto(j)
    BY <2>1
  <2> QED
    BY <1>2, <2>2, FS_Subset DEF Rank
<1> QED
  BY <1>1, <1>2, <1>3, <1>4, <1>5, <1>6 DEF Rank

(* Nth finds the nth index. *)
LEMMA NthFacts ==
  ASSUME NEW N \in Nat, NEW K \in SUBSET (1..N), NEW n \in 1..Cardinality(K)
  PROVE  Nth(K, n) \in K /\ Rank(K, Nth(K, n)) = n
<1> DEFINE T == {i \in 0..N : n <= Rank(K, i)}
<1>0. /\ Cardinality(K) \in Nat /\ Rank(K, 0) = 0 /\ Rank(K, N) = Cardinality(K)
      /\ \A i \in 0..N : Rank(K, i) \in Nat
      /\ \A i \in 1..N : Rank(K, i) = Rank(K, i - 1) + (IF i \in K THEN 1 ELSE 0)
  BY RankSteps
<1>1. n \in Nat /\ 1 <= n /\ n <= Cardinality(K)
  BY <1>0
<1>2. T \in SUBSET Nat /\ N \in T
  BY <1>0, <1>1
<1>3. PICK i \in T : \A j \in T : i <= j
  BY <1>2, Least
<1>4. i \in 0..N /\ i # 0 /\ n <= Rank(K, i)
  BY <1>0, <1>1
<1>5. i \in 1..N /\ i - 1 \in 0..N /\ ~(n <= Rank(K, i - 1))
  BY <1>3, <1>4
<1>6. Rank(K, i - 1) \in Nat /\ Rank(K, i) = Rank(K, i - 1) + (IF i \in K THEN 1 ELSE 0)
  BY <1>0, <1>5
<1>7. i \in K /\ Rank(K, i) = n
  BY <1>1, <1>4, <1>5, <1>6
<1> QED
  BY <1>7 DEF Nth, Rank

(* Between the nth index and the next there is none, and none is after the
   last. *)
LEMMA NthSteps ==
  ASSUME NEW N \in Nat, NEW K \in SUBSET (1..N)
  PROVE  /\ \A n \in 1..(Cardinality(K) - 1) :
               /\ Nth(K, n) \in K /\ Nth(K, n + 1) \in K
               /\ Nth(K, n) < Nth(K, n + 1)
               /\ \A k \in K : k <= Nth(K, n) \/ Nth(K, n + 1) <= k
         /\ Cardinality(K) # 0 => \A k \in K : k <= Nth(K, Cardinality(K))
<1> DEFINE C == Cardinality(K)
<1>1. C \in Nat
  BY RankSteps
<1>2. ASSUME NEW k \in K, NEW i \in K, i < k PROVE Rank(K, i) < Rank(K, k)
  <2>1. k \in 1..N /\ i \in 0..N /\ k - 1 \in 0..N /\ i <= k - 1 /\ k \in 0..N
    BY <1>2
  <2>2. Rank(K, i) <= Rank(K, k - 1) /\ Rank(K, k) = Rank(K, k - 1) + 1
    BY <2>1, RankSteps
  <2>3. Rank(K, i) \in Nat /\ Rank(K, k - 1) \in Nat
    BY <2>1, RankSteps
  <2> QED
    BY <2>2, <2>3
<1>3. ASSUME NEW k \in K PROVE Rank(K, k) \in Nat /\ Rank(K, k) <= C /\ k \in Nat
  <2>1. k \in 0..N /\ N \in 0..N /\ k <= N /\ k \in Nat
    OBVIOUS
  <2>2. Rank(K, k) \in Nat /\ Rank(K, k) <= Rank(K, N) /\ Rank(K, N) = C
    BY <2>1, RankSteps
  <2> QED
    BY <2>1, <2>2
<1>4. ASSUME NEW n \in 1..(C - 1)
      PROVE  /\ Nth(K, n) \in K /\ Nth(K, n + 1) \in K
             /\ Nth(K, n) < Nth(K, n + 1)
             /\ \A k \in K : k <= Nth(K, n) \/ Nth(K, n + 1) <= k
  <2> DEFINE x == Nth(K, n)
             y == Nth(K, n + 1)
  <2>1. n \in 1..C /\ n + 1 \in 1..C
    BY <1>1
  <2>2. x \in K /\ Rank(K, x) = n /\ y \in K /\ Rank(K, y) = n + 1
    BY <2>1, NthFacts
  <2> HIDE DEF x, y
  <2>3. x < y
    <3>1. x = y \/ y < x \/ x < y
      BY <1>3, <2>2
    <3> QED
      BY <1>2, <2>1, <2>2, <3>1
  <2>4. ASSUME NEW k \in K PROVE k <= x \/ y <= k
    <3>1. (x < k => n < Rank(K, k)) /\ (k < y => Rank(K, k) < n + 1)
      BY <1>2, <2>2
    <3> QED
      BY <1>3, <2>1, <2>2, <3>1
  <2> QED
    BY <2>2, <2>3, <2>4 DEF x, y
<1>5. ASSUME C # 0, NEW k \in K PROVE k <= Nth(K, C)
  <2>1. C \in 1..C
    BY <1>1, <1>5
  <2> DEFINE last == Nth(K, C)
  <2>2. last \in K /\ Rank(K, last) = C
    BY <2>1, NthFacts
  <2>3. k \in Nat /\ last \in Nat /\ Rank(K, k) \in Nat /\ Rank(K, k) <= C
    BY <1>3, <2>2
  <2> HIDE DEF last, C
  <2>4. last < k => C < Rank(K, k)
    BY <1>2, <2>2
  <2>5. k <= last
    BY <1>1, <2>3, <2>4
  <2> QED
    BY <2>5 DEF last, C
<1> QED
  BY <1>4, <1>5

(* What is kept of a history is a history of entries of it. *)
LEMMA KeptFacts ==
  ASSUME NEW S, NEW h \in Seq(S), NEW K \in SUBSET (1..Len(h))
  PROVE  /\ Kept(h, K) \in Seq(S)
         /\ Len(Kept(h, K)) = Cardinality(K) /\ Cardinality(K) \in 0..Len(h)
         /\ \A n \in 1..Cardinality(K) : Nth(K, n) \in K /\ Kept(h, K)[n] = h[Nth(K, n)]
<1>1. Len(h) \in Nat /\ Cardinality(K) \in 0..Len(h) /\ Cardinality(K) \in Nat
  BY RankSteps
<1>2. ASSUME NEW n \in 1..Cardinality(K) PROVE Nth(K, n) \in K /\ h[Nth(K, n)] \in S
  <2>1. Nth(K, n) \in K
    BY <1>1, NthFacts
  <2>2. \A i \in 1..Len(h) : h[i] \in S
    OBVIOUS
  <2> QED
    BY <2>1, <2>2
<1>3. Kept(h, K) \in [1..Cardinality(K) -> S]
  BY <1>2 DEF Kept
<1>4. Kept(h, K) \in Seq(S) /\ Len(Kept(h, K)) = Cardinality(K)
  BY <1>1, <1>3
<1> QED
  BY <1>1, <1>2, <1>4 DEF Kept

(* What is pushed on a history: its end is what was pushed last, and it is the
   end of both together. *)
LEMMA PushedFacts ==
  ASSUME NEW S, NEW h \in Seq(S), NEW es \in Seq(S), es # <<>>
  PROVE  LET P == Pushed(h, es)
         IN  /\ P \in Seq(S) /\ Len(P) \in 1..Depth /\ P[Len(P)] = es[Len(es)]
             /\ Len(P) <= Len(h) + Len(es)
             /\ \A i \in 1..Len(P) : P[i] = (h \o es)[Len(h) + Len(es) - Len(P) + i]
<1> DEFINE all == h \o es
           P == Pushed(h, es)
<1>1. /\ all \in Seq(S) /\ Len(all) = Len(h) + Len(es) /\ Len(es) \in Nat /\ Len(h) \in Nat
      /\ Len(es) # 0
  OBVIOUS
<1>2. Depth \in Nat /\ Depth # 0
  BY DepthAssumption
<1>3. all[Len(all)] = es[Len(es)]
  OBVIOUS
<1>4. CASE Len(all) <= Depth
  <2>1. P = all
    BY <1>4 DEF Pushed
  <2>2. /\ Len(P) <= Len(h) + Len(es)
        /\ \A i \in 1..Len(P) : P[i] = (h \o es)[Len(h) + Len(es) - Len(P) + i]
    BY <1>1, <2>1
  <2>3. Len(P) \in 1..Depth
    BY <1>1, <1>2, <1>4, <2>1
  <2> HIDE DEF P
  <2> QED
    BY <1>1, <1>3, <2>1, <2>2, <2>3 DEF P
<1>5. CASE ~(Len(all) <= Depth)
  <2> DEFINE k == Len(all) - Depth
  <2>1. P = SubSeq(all, k + 1, Len(all))
    BY <1>5 DEF Pushed
  <2>2. k \in Nat /\ k + Depth = Len(all)
    BY <1>1, <1>2, <1>5
  <2> HIDE DEF k, all
  <2>3. P \in Seq(S) /\ Len(P) = Depth /\ \A i \in 1..Depth : P[i] = all[k + i]
    <3> HIDE DEF P
    <3>1. k + 1 \in 1..(Len(all) + 1) /\ Len(all) \in 0..Len(all)
      BY <1>1, <1>2, <2>2
    <3>2. P \in Seq(S)
      BY <1>1, <2>1, <2>2, <1>2
    <3>3. Len(P) = Depth
      BY <1>1, <2>1, <2>2, <1>2
    <3>4. ASSUME NEW i \in 1..Depth PROVE P[i] = all[k + i]
      BY <1>1, <2>1, <2>2, <1>2
    <3> QED
      BY <3>2, <3>3, <3>4
  <2> HIDE DEF P
  <2>4. P[Len(P)] = es[Len(es)]
    <3>1. Depth \in 1..Depth
      BY <1>2
    <3>2. P[Depth] = all[k + Depth]
      BY <2>3, <3>1
    <3> QED
      BY <1>3, <2>2, <2>3, <3>2
  <2>5. Len(P) <= Len(h) + Len(es) /\ k = Len(h) + Len(es) - Len(P)
    BY <1>1, <1>2, <2>2, <2>3 DEF k
  <2>6. \A i \in 1..Len(P) : P[i] = all[Len(h) + Len(es) - Len(P) + i]
    BY <2>3, <2>5
  <2>7. Len(P) \in 1..Depth
    BY <1>2, <2>3
  <2> QED
    BY <2>3, <2>4, <2>5, <2>6, <2>7 DEF P, all
<1> QED
  BY <1>4, <1>5

-----------------------------------------------------------------------------
(* Histories without holes. *)

(* No block of a history is more than one above the block before it. *)
Steady(r) == \A i \in 1..(Len(r) - 1) : Number[r[i + 1]] <= Number[r[i]] + 1

(* Neither what copy_history_before keeps of it has a hole, and what it keeps
   ends at the cut. *)
LEMMA CutIsSteady ==
  ASSUME NEW S \in SUBSET Block, NEW r \in Seq(S), Steady(r), NEW c \in Nat
  PROVE  LET R == ReceiptsUpTo(r, c)
         IN  /\ R \in Seq({b \in S : Number[b] <= c}) /\ Len(R) <= Len(r)
             /\ Steady(R)
             /\ R # <<>> /\ c <= Number[Tip(r)] => Number[Tip(R)] = c
<1> DEFINE K == {i \in 1..Len(r) : Number[r[i]] <= c}
           R == Kept(r, K)
           C == Cardinality(K)
<1>1. R = ReceiptsUpTo(r, c)
  BY DEF ReceiptsUpTo
<1>2. K \in SUBSET (1..Len(r)) /\ Len(r) \in Nat
  OBVIOUS
<1>3. R \in Seq(S) /\ Len(R) = C /\ C \in 0..Len(r) /\ C \in Nat
  BY <1>2, KeptFacts
<1>4. \A n \in 1..C : Nth(K, n) \in K /\ R[n] = r[Nth(K, n)]
  BY <1>2, KeptFacts
<1>5. \A i \in 1..Len(r) : r[i] \in S /\ Number[r[i]] \in Nat
  BY ChainAssumption
<1>6. \A i \in 1..Len(r) : i \in K <=> Number[r[i]] <= c
  OBVIOUS
<1>7. /\ \A n \in 1..(C - 1) : /\ Nth(K, n) \in K /\ Nth(K, n + 1) \in K
                               /\ Nth(K, n) < Nth(K, n + 1)
                               /\ \A k \in K : k <= Nth(K, n) \/ Nth(K, n + 1) <= k
      /\ C # 0 => \A k \in K : k <= Nth(K, C)
  BY <1>2, NthSteps
<1>8. \A i \in 1..(Len(r) - 1) : Number[r[i + 1]] <= Number[r[i]] + 1
  BY DEF Steady
<1> HIDE DEF K, R, C
(* An index that is not the last and whose successor is not kept. *)
<1>9. ASSUME NEW i \in K, i + 1 \in 1..Len(r), i + 1 \notin K
      PROVE  Number[r[i]] = c
  <2>1. i \in 1..(Len(r) - 1) /\ i \in 1..Len(r)
    BY <1>2, <1>9
  <2>2. Number[r[i]] <= c /\ ~(Number[r[i + 1]] <= c) /\ Number[r[i + 1]] <= Number[r[i]] + 1
    BY <1>6, <1>8, <1>9, <2>1
  <2> QED
    BY <1>5, <1>9, <2>1, <2>2
<1>10. R \in Seq({b \in S : Number[b] <= c})
  <2>1. \A n \in 1..Len(R) : R[n] \in {b \in S : Number[b] <= c}
    BY <1>2, <1>3, <1>4, <1>5, <1>6
  <2> QED
    BY <1>3, <2>1
<1>11. Steady(R)
  <2> SUFFICES ASSUME NEW n \in 1..(C - 1) PROVE Number[R[n + 1]] <= Number[R[n]] + 1
    BY <1>3 DEF Steady
  <2> DEFINE i == Nth(K, n)
             j == Nth(K, n + 1)
  <2>1. i \in K /\ j \in K /\ i < j /\ \A k \in K : k <= i \/ j <= k
    BY <1>7
  <2>2. R[n] = r[i] /\ R[n + 1] = r[j]
    <3>1. n \in 1..C /\ n + 1 \in 1..C
      BY <1>3
    <3> QED
      BY <1>4, <3>1
  <2> HIDE DEF i, j
  <2>3. i \in 1..Len(r) /\ j \in 1..Len(r) /\ i + 1 \in 1..Len(r)
    BY <1>2, <2>1
  <2>4. CASE j = i + 1
    <3>1. i \in 1..(Len(r) - 1)
      BY <2>3
    <3> QED
      BY <1>8, <2>2, <2>4, <3>1
  <2>5. CASE j # i + 1
    <3>1. i + 1 \notin K
      BY <2>1, <2>3, <2>5
    <3>2. Number[r[i]] = c /\ Number[r[j]] <= c
      BY <1>6, <1>9, <2>1, <2>3, <3>1
    <3> QED
      BY <1>5, <2>2, <2>3, <3>2
  <2> QED
    BY <2>4, <2>5
<1>12. ASSUME R # <<>>, c <= Number[Tip(r)] PROVE Number[Tip(R)] = c
  <2>1. C # 0 /\ C \in 1..C
    BY <1>3, <1>12
  <2> DEFINE i == Nth(K, C)
  <2>2. i \in K /\ Tip(R) = r[i] /\ \A k \in K : k <= i
    BY <1>3, <1>4, <1>7, <2>1 DEF Tip
  <2> HIDE DEF i
  <2>3. i \in 1..Len(r) /\ Number[r[i]] <= c
    BY <1>2, <1>6, <2>2
  <2>4. CASE i = Len(r)
    BY <1>5, <1>12, <2>2, <2>3, <2>4 DEF Tip
  <2>5. CASE i # Len(r)
    <3>1. i + 1 \in 1..Len(r) /\ ~(i + 1 <= i)
      BY <1>2, <2>3, <2>5
    <3> QED
      BY <1>9, <2>2, <3>1
  <2> QED
    BY <2>4, <2>5
<1> QED
  BY <1>1, <1>3, <1>10, <1>11, <1>12

(* Nor has one that is pushed on with a segment that starts at or below its
   end. *)
LEMMA PushIsSteady ==
  ASSUME NEW t \in Block, NEW f \in Ancestors[t] \ {t}, NEW r \in Seq(Ancestors[t]), Steady(r),
         r # <<>> => Number[f] <= Number[Tip(r)]
  PROVE  LET P == Pushed(r, Path(f, t))
         IN  /\ P \in Seq(Ancestors[t]) /\ Len(P) \in 1..Depth
             /\ Steady(P) /\ Tip(P) = t
<1> DEFINE es == Path(f, t)
           all == r \o es
           P == Pushed(r, es)
<1>1. /\ f \in Block /\ Number[f] \in Nat /\ Number[t] \in Nat /\ Number[f] < Number[t]
  BY AncestorFacts, ChainAssumption
<1>2. Len(es) = Number[t] - Number[f] /\ Len(es) \in Nat /\ Len(es) # 0
  BY <1>1, PathFacts
<1>3. \A i \in 1..Len(es) : es[i] \in Ancestors[t] /\ Number[es[i]] = Number[f] + i
  <2>1. ASSUME NEW i \in 1..(Number[t] - Number[f]) PROVE Number[f] + i \in 0..Number[t]
    BY <1>1
  <2> QED
    BY <1>2, <2>1, AtHeightIn DEF Path
<1>4. es \in Seq(Ancestors[t]) /\ es # <<>>
  <2>1. es \in Seq(Block)
    BY PathFacts
  <2> QED
    BY <1>2, <1>3, <2>1
<1>5. P \in Seq(Ancestors[t]) /\ Len(P) \in 1..Depth /\ P[Len(P)] = es[Len(es)]
  BY <1>4, PushedFacts
<1> DEFINE k == Len(r) + Len(es) - Len(P)
<1>6. /\ k \in Nat /\ k + Len(P) = Len(r) + Len(es)
      /\ \A i \in 1..Len(P) : P[i] = all[k + i]
  <2>1. /\ Len(P) <= Len(r) + Len(es)
        /\ \A i \in 1..Len(P) : P[i] = (r \o es)[Len(r) + Len(es) - Len(P) + i]
    BY <1>4, PushedFacts
  <2> HIDE DEF P, es
  <2>2. Len(P) \in Nat /\ Len(r) \in Nat
    BY <1>5
  <2> QED
    BY <1>2, <2>1, <2>2
<1>7. Tip(P) = t
  BY <1>5, PathEnds DEF Tip
<1>8. Len(r) \in Nat /\ Len(P) \in Nat /\ \A i \in 1..Len(r) : all[i] = r[i] /\ r[i] \in Ancestors[t]
  BY <1>4, <1>5
<1>9. \A i \in 1..Len(es) : all[Len(r) + i] = es[i]
  BY <1>4
<1>10. \A i \in 1..Len(r) : Number[r[i]] \in Nat
  BY <1>8, AncestorFacts
<1> HIDE DEF es, all, P, k
<1>11. ASSUME NEW j \in 1..(Len(r) + Len(es) - 1)
       PROVE  Number[all[j + 1]] <= Number[all[j]] + 1
  <2>1. CASE j < Len(r)
    <3>1. j \in 1..(Len(r) - 1) /\ j \in 1..Len(r) /\ j + 1 \in 1..Len(r)
      BY <1>8, <2>1
    <3> QED
      BY <1>8, <3>1 DEF Steady
  <2>2. CASE j = Len(r)
    <3>1. /\ Len(r) \in 1..Len(r) /\ 1 \in 1..Len(es) /\ j + 1 = Len(r) + 1 /\ r # <<>>
      BY <1>2, <1>8, <2>2
    <3>2. all[j] = Tip(r) /\ all[j + 1] = es[1] /\ Number[es[1]] = Number[f] + 1
      BY <1>3, <1>8, <1>9, <2>2, <3>1 DEF Tip
    <3>3. Number[Tip(r)] \in Nat
      BY <1>10, <3>1 DEF Tip
    <3> QED
      BY <1>1, <3>1, <3>2, <3>3
  <2>3. CASE j > Len(r)
    <3> DEFINE i == j - Len(r)
    <3>1. i \in 1..Len(es) /\ i + 1 \in 1..Len(es) /\ j = Len(r) + i /\ j + 1 = Len(r) + (i + 1)
      BY <1>2, <1>8, <2>3
    <3> HIDE DEF i
    <3>2. all[j] = es[i] /\ all[j + 1] = es[i + 1]
      BY <1>9, <3>1
    <3>3. Number[es[i]] = Number[f] + i /\ Number[es[i + 1]] = Number[f] + (i + 1)
      BY <1>3, <3>1
    <3> QED
      BY <1>1, <3>1, <3>2, <3>3
  <2> QED
    BY <1>8, <2>1, <2>2, <2>3
<1>12. Steady(P)
  <2> SUFFICES ASSUME NEW i \in 1..(Len(P) - 1) PROVE Number[P[i + 1]] <= Number[P[i]] + 1
    BY DEF Steady
  <2>1. /\ i \in 1..Len(P) /\ i + 1 \in 1..Len(P) /\ k + i \in 1..(Len(r) + Len(es) - 1)
        /\ k + (i + 1) = (k + i) + 1
    BY <1>2, <1>6, <1>8
  <2> QED
    BY <1>6, <1>11, <2>1
<1> QED
  BY <1>5, <1>7, <1>12 DEF P, es

(* So it holds every block from its lowest one up to its end. *)
LEMMA SteadyHasNoHole ==
  ASSUME NEW p \in Block, NEW r \in Seq(Ancestors[p]), Steady(r), r # <<>>, Tip(r) = p,
         NEW b \in Ancestors[p], NEW x \in Blocks(r), Number[x] <= Number[b]
  PROVE  b \in Blocks(r)
<1> DEFINE N == Len(r)
           T == {d \in 0..N : N - d \in 1..N /\ Number[r[N - d]] <= Number[b]}
<1>1. N \in Nat /\ N # 0 /\ \A i \in 1..N : r[i] \in Ancestors[p] /\ Number[r[i]] \in Nat
  <2>1. N \in Nat /\ N # 0 /\ \A i \in 1..N : r[i] \in Ancestors[p]
    OBVIOUS
  <2> QED
    BY <2>1, AncestorFacts
<1>2. Number[b] \in Nat /\ Number[b] <= Number[p] /\ Number[p] \in Nat
  BY AncestorFacts
<1>3. PICK m \in 1..N : x = r[m]
  BY DEF Blocks
<1>4. T \in SUBSET Nat /\ N - m \in T
  <2>1. N - m \in 0..N /\ N - (N - m) = m
    BY <1>1
  <2> QED
    BY <1>1, <1>3, <2>1
<1>5. PICK d \in T : \A y \in T : d <= y
  BY <1>4, Least
<1> DEFINE i == N - d
<1>6. i \in 1..N /\ Number[r[i]] <= Number[b] /\ d \in 0..N /\ d = N - i
  BY <1>1, <1>5
<1>7. Number[r[i]] = Number[b]
  <2>1. CASE d = 0
    BY <1>1, <1>2, <1>6, <2>1 DEF Tip
  <2>2. CASE d # 0
    <3>1. d - 1 \in 0..N /\ N - (d - 1) = i + 1 /\ i + 1 \in 1..N /\ i \in 1..(N - 1) /\ ~(d <= d - 1)
      BY <1>1, <1>6, <2>2
    <3>2. ~(Number[r[i + 1]] <= Number[b])
      BY <1>5, <3>1
    <3>3. Number[r[i + 1]] <= Number[r[i]] + 1
      BY <3>1 DEF Steady
    <3> HIDE DEF i
    <3> QED
      BY <1>1, <1>2, <1>6, <3>1, <3>2, <3>3
  <2> QED
    BY <2>1, <2>2
<1>8. r[i] = b
  BY <1>1, <1>6, <1>7, Unique
<1> QED
  BY <1>6, <1>8 DEF Blocks

-----------------------------------------------------------------------------
(* The histories of a snapshot. *)

(* The receipts of s end at block p and come from its chain. *)
ReceiptsTo(s, p) ==
    /\ s.receipts \in Seq(Ancestors[p]) /\ Len(s.receipts) <= Depth
    /\ Steady(s.receipts)
    /\ s.receipts # <<>> => Tip(s.receipts) = p
    /\ s.hash # ZeroHash => s.receipts # <<>>

Change(n) == [block: 0..n, accounts: SUBSET Account]

(* The changed accounts of s end at block p as well. *)
ChangedTo(s, p) ==
    /\ s.changed \in Seq(Change(Number[p])) /\ Len(s.changed) <= Depth
    /\ s.hash # ZeroHash =>
          s.changed # <<>> /\ s.changed[Len(s.changed)].block = Number[p]

HistoriesTo(s, p) == ReceiptsTo(s, p) /\ ChangedTo(s, p)

(* The histories build_commit_state and build_reorg_state give. *)
PushedBy(seg, e, t) ==
    /\ t.receipts = Pushed(e.receipts, seg)
    /\ t.changed = Pushed(e.changed, <<[block |-> Number[Tip(seg)],
                                        accounts |-> ChangedAccounts(seg)]>>)

(* The histories copy_history_before keeps. *)
CutAt(n, s, t) ==
    /\ t.receipts = ReceiptsUpTo(s.receipts, n)
    /\ t.changed = ChangedUpTo(s.changed, n)

(* What the end of both builders gives the histories. *)
LEMMA MovedHistories ==
  ASSUME NEW e, IsSnapshot(e), NEW seg
  PROVE  PushedBy(seg, e, MovedTo(ApplyBlockData(ApplyExecutionChanges(e, seg), seg), seg))
<1> DEFINE x == ApplyExecutionChanges(e, seg)
           y == ApplyBlockData(x, seg)
           t == MovedTo(y, seg)
<1>1. IsSnapshot(x) /\ x.receipts = e.receipts /\ x.changed = e.changed
  BY DEF ApplyExecutionChanges, IsSnapshot
<1> HIDE DEF x
<1>2. IsSnapshot(y) /\ y.receipts = Pushed(x.receipts, seg) /\ y.changed = x.changed
  BY <1>1 DEF ApplyBlockData, IsSnapshot
<1> HIDE DEF y
<1>3. /\ t.receipts = y.receipts
      /\ t.changed = Pushed(y.changed, <<[block |-> Number[Tip(seg)],
                                          accounts |-> ChangedAccounts(seg)]>>)
  BY <1>2 DEF MovedTo, IsSnapshot
<1> HIDE DEF t
<1>4. PushedBy(seg, e, t)
  BY <1>1, <1>2, <1>3 DEF PushedBy
<1> QED
  BY <1>4 DEF x, y, t

(* A commit pushes on the histories of the snapshot. *)
LEMMA CommitHistories ==
  ASSUME NEW s, IsSnapshot(s), NEW caches, NEW seg
  PROVE  PushedBy(seg, s, BuildCommitState(s, caches, seg))
<1> DEFINE e == Merged(s, caches)
<1>1. IsSnapshot(e) /\ e.receipts = s.receipts /\ e.changed = s.changed
  BY DEF Merged, MergeCaches, IsSnapshot
<1>2. PushedBy(seg, e, BuildCommitState(s, caches, seg))
  BY <1>1, MovedHistories DEF BuildCommitState, Merged
<1> QED
  BY <1>1, <1>2 DEF PushedBy

(* A reorg pushes on what it keeps of them. *)
LEMMA ReorgHistories ==
  ASSUME NEW s, IsSnapshot(s), NEW n, NEW seg
  PROVE  LET e == CopyHistoryBefore(s, n, EmptySnapshot)
         IN  /\ PushedBy(seg, e, BuildReorgState(s, n, seg))
             /\ CutAt(n, s, e) /\ e.hash = ZeroHash
<1> DEFINE e == CopyHistoryBefore(s, n, EmptySnapshot)
<1>1. IsSnapshot(e) /\ CutAt(n, s, e) /\ e.hash = ZeroHash
  BY DEF CopyHistoryBefore, EmptySnapshot, IsSnapshot, CutAt
<1> HIDE DEF e
<1>2. PushedBy(seg, e, BuildReorgState(s, n, seg))
  BY <1>1, MovedHistories DEF BuildReorgState, e
<1> QED
  BY <1>1, <1>2 DEF e

(* A revert only cuts them. *)
LEMMA RevertHistories ==
  ASSUME NEW s, NEW n
  PROVE  LET t == BuildRevertState(s, n)
         IN  /\ CutAt(n, s, t) /\ t.block = n
             /\ t.hashes = [m \in Height |-> IF m <= n THEN s.hashes[m] ELSE Unheld]
BY DEF BuildRevertState, CopyHistoryBefore, EmptySnapshot, CutAt

(* A change below one height is one below a higher. *)
LEMMA ChangeGrows ==
  ASSUME NEW m \in Nat, NEW n \in Nat, m <= n
  PROVE  Change(m) \subseteq Change(n)
<1>1. 0..m \subseteq 0..n
  OBVIOUS
<1> QED
  BY <1>1 DEF Change

(* A sequence over a set is one over a larger set. *)
LEMMA SeqGrows ==
  ASSUME NEW S, NEW T, S \subseteq T, NEW q \in Seq(S)
  PROVE  q \in Seq(T)
<1>1. Len(q) \in Nat /\ \A i \in 1..Len(q) : q[i] \in T
  OBVIOUS
<1>2. q = [i \in 1..Len(q) |-> q[i]]
  OBVIOUS
<1> QED
  BY <1>1, <1>2

(* What a segment does to histories that end at or above the block it starts
   from. *)
LEMMA PushKeepsHistories ==
  ASSUME NEW t \in Block, NEW p \in Ancestors[t], NEW f \in Ancestors[p] \ {t},
         NEW e, NEW s, HistoriesTo(e, p), PushedBy(Path(f, t), e, s)
  PROVE  HistoriesTo(s, t)
<1> DEFINE seg == Path(f, t)
           c == [block |-> Number[Tip(seg)], accounts |-> ChangedAccounts(seg)]
<1>1. /\ p \in Block /\ f \in Ancestors[t] \ {t} /\ Ancestors[p] \subseteq Ancestors[t]
      /\ Number[f] <= Number[p] /\ Number[p] <= Number[t]
      /\ Number[p] \in Nat /\ Number[t] \in Nat
  BY AncestorFacts
<1>2. /\ s.receipts \in Seq(Ancestors[t]) /\ Len(s.receipts) \in 1..Depth
      /\ Steady(s.receipts) /\ Tip(s.receipts) = t
  <2>1. e.receipts \in Seq(Ancestors[t])
    BY <1>1, SeqGrows DEF HistoriesTo, ReceiptsTo
  <2>2. e.receipts # <<>> => Number[f] <= Number[Tip(e.receipts)]
    BY <1>1 DEF HistoriesTo, ReceiptsTo
  <2>3. Steady(e.receipts) /\ s.receipts = Pushed(e.receipts, seg)
    BY DEF HistoriesTo, ReceiptsTo, PushedBy
  <2> HIDE DEF seg
  <2> QED
    BY <1>1, <2>1, <2>2, <2>3, PushIsSteady DEF seg
<1>3. Depth \in Nat
  BY DepthAssumption
<1>4. ReceiptsTo(s, t)
  BY <1>2, <1>3 DEF ReceiptsTo
<1>5. Tip(seg) = t
  BY <1>1, PathEnds
<1>6. c \in Change(Number[t])
  BY <1>1, <1>5 DEF Change, ChangedAccounts
<1> HIDE DEF seg
<1>7. ChangedTo(s, t)
  <2> DEFINE S == Change(Number[t])
             es == <<c>>
  <2>1. e.changed \in Seq(S)
    BY <1>1, ChangeGrows, SeqGrows DEF HistoriesTo, ChangedTo
  <2>2. es \in Seq(S) /\ es # <<>> /\ Len(es) = 1 /\ es[1] = c
    BY <1>6
  <2>3. s.changed = Pushed(e.changed, es)
    BY DEF PushedBy, seg
  <2> HIDE DEF S, es, c
  <2>4. s.changed \in Seq(S) /\ Len(s.changed) \in 1..Depth /\ s.changed[Len(s.changed)] = es[Len(es)]
    BY <2>1, <2>2, <2>3, PushedFacts
  <2>5. c.block = Number[t]
    BY <1>5 DEF c
  <2> QED
    BY <1>3, <2>2, <2>4, <2>5 DEF ChangedTo, S
<1> QED
  BY <1>4, <1>7 DEF HistoriesTo

(* What a cut at an ancestor does to them. *)
LEMMA CutKeepsHistories ==
  ASSUME NEW p \in Block, NEW f \in Ancestors[p], NEW s, NEW e, HistoriesTo(s, p),
         CutAt(Number[f], s, e), e.hash = ZeroHash
  PROVE  HistoriesTo(e, f)
<1> DEFINE n == Number[f]
           A == {b \in Ancestors[p] : Number[b] <= n}
<1>1. f \in Block /\ n \in Nat /\ Number[p] \in Nat /\ n <= Number[p]
      /\ Ancestors[p] \subseteq Block /\ A \subseteq Ancestors[f]
  BY AncestorFacts
<1>2. ReceiptsTo(e, f)
  <2>1. /\ e.receipts \in Seq(A) /\ Len(e.receipts) <= Len(s.receipts) /\ Steady(e.receipts)
        /\ e.receipts # <<>> /\ n <= Number[Tip(s.receipts)] => Number[Tip(e.receipts)] = n
    <3> DEFINE r == s.receipts
    <3>1. r \in Seq(Ancestors[p]) /\ Steady(r) /\ Ancestors[p] \in SUBSET Block
          /\ e.receipts = ReceiptsUpTo(r, n)
      BY <1>1 DEF CutAt, HistoriesTo, ReceiptsTo
    <3> HIDE DEF r, n
    <3>2. LET R == ReceiptsUpTo(r, n)
          IN  /\ R \in Seq({b \in Ancestors[p] : Number[b] <= n}) /\ Len(R) <= Len(r)
              /\ Steady(R)
              /\ R # <<>> /\ n <= Number[Tip(r)] => Number[Tip(R)] = n
      BY <1>1, <3>1, CutIsSteady
    <3> QED
      BY <3>1, <3>2 DEF r
  <2>2. /\ s.receipts \in Seq(Ancestors[p]) /\ Len(s.receipts) <= Depth
        /\ s.receipts # <<>> => Tip(s.receipts) = p
    BY DEF HistoriesTo, ReceiptsTo
  <2> HIDE DEF n, A
  <2>3. e.receipts \in Seq(Ancestors[f])
    BY <1>1, <2>1, SeqGrows
  <2>4. ASSUME e.receipts # <<>> PROVE Tip(e.receipts) = f
    <3>1. Len(e.receipts) \in Nat /\ Len(s.receipts) \in Nat /\ Len(e.receipts) # 0
      BY <2>1, <2>2, <2>4
    <3>2. s.receipts # <<>>
      BY <2>1, <3>1
    <3>3. Number[Tip(e.receipts)] = n
      BY <1>1, <2>1, <2>2, <2>4, <3>2
    <3>4. Tip(e.receipts) \in Ancestors[f]
      BY <2>3, <3>1 DEF Tip
    <3>5. f \in Ancestors[f]
      BY <1>1, ChainAssumption
    <3> QED
      BY <1>1, <3>3, <3>4, <3>5, Unique DEF n
  <2>5. Len(e.receipts) <= Depth
    BY <2>1, <2>2, <2>3, DepthAssumption
  <2> QED
    BY <2>1, <2>3, <2>4, <2>5 DEF ReceiptsTo
<1>3. ChangedTo(e, f)
  <2> DEFINE h == s.changed
             K == {i \in 1..Len(h) : h[i].block <= n}
             S == Change(Number[p])
  <2>1. h \in Seq(S) /\ Len(h) <= Depth /\ e.changed = Kept(h, K)
    BY DEF HistoriesTo, ChangedTo, CutAt, ChangedUpTo
  <2>2. K \in SUBSET (1..Len(h)) /\ \A i \in K : h[i].block <= n
    OBVIOUS
  <2> HIDE DEF K
  <2>3. /\ e.changed \in Seq(S) /\ Len(e.changed) \in 0..Len(h)
        /\ \A i \in 1..Len(e.changed) : Nth(K, i) \in K /\ e.changed[i] = h[Nth(K, i)]
    BY <2>1, <2>2, KeptFacts
  <2>4. ASSUME NEW i \in 1..Len(e.changed) PROVE e.changed[i] \in Change(n)
    <3>1. e.changed[i] \in S
      BY <2>3
    <3>2. e.changed[i].block <= n
      BY <2>2, <2>3
    <3> QED
      BY <1>1, <3>1, <3>2 DEF Change
  <2>5. e.changed \in Seq(Change(n))
    <3>1. e.changed = [i \in 1..Len(e.changed) |-> e.changed[i]] /\ Len(e.changed) \in Nat
      BY <2>3
    <3> QED
      BY <2>4, <3>1
  <2>6. Len(e.changed) <= Depth
    BY <2>1, <2>3, DepthAssumption
  <2> QED
    BY <2>5, <2>6 DEF ChangedTo
<1> QED
  BY <1>2, <1>3 DEF HistoriesTo

-----------------------------------------------------------------------------
(* How one notification follows another. *)

(* Whatever the node does, the notification it sends says where it went. *)
LEMMA NodeLeaves ==
  ASSUME canon \in Block, NEW from \in Block, NEW to \in Block,
         NodeCommits(from, to) \/ NodeReorgs(from, to) \/ NodeReverts(to)
  PROVE  \E n \in Note : Deliver(n) /\ Leaves(canon, n) /\ After(n) = canon'
<1>1. CASE NodeCommits(from, to)
  <2> DEFINE n == Commit(Path(from, to))
  <2>1. from \in Ancestors[canon] \ {to} /\ canon \in Ancestors[to] /\ canon' = to /\ Deliver(n)
    BY <1>1 DEF NodeCommits
  <2>2. from \in Ancestors[to] \ {to}
    BY <2>1, AncestorFacts
  <2>3. n \in Note
    BY <2>2, PathFacts DEF Commit, Note, CommitOf
  <2>4. After(n) = to
    BY <2>2, PathEnds DEF After, Commit
  <2>5. Leaves(canon, n)
    BY <2>1, <2>4 DEF Leaves, Takes
  <2> QED
    BY <2>1, <2>3, <2>4, <2>5
<1>2. CASE NodeReorgs(from, to)
  <2> DEFINE n == Reorg(Path(from, canon), Path(from, to))
  <2>1. from \in (Ancestors[canon] \cap Ancestors[to]) \ {canon, to} /\ canon' = to /\ Deliver(n)
    BY <1>2, ChainAssumption DEF NodeReorgs
  <2>2. n \in Note
    BY <2>1, PathFacts DEF Reorg, Note, ReorgOf
  <2>3. After(n) = to
    BY <2>1, PathEnds DEF After, Reorg
  <2>4. Leaves(canon, n)
    BY <2>1, <2>3 DEF Leaves, Takes
  <2> QED
    BY <2>1, <2>2, <2>3, <2>4
<1>3. CASE NodeReverts(to)
  <2> DEFINE n == Revert(Path(to, canon))
  <2>1. to \in Ancestors[canon] \ {canon} /\ canon' = to /\ Deliver(n) /\ Reverts
    BY <1>3 DEF NodeReverts
  <2>2. n \in Note
    BY <2>1, PathFacts DEF Revert, Note, RevertOf
  <2>3. After(n) = to
    BY <2>1, PathEnds DEF After, Revert
  <2>4. Leaves(canon, n)
    BY <2>1, <2>3 DEF Leaves, Takes
  <2> QED
    BY <2>1, <2>2, <2>3, <2>4
<1> QED
  BY <1>1, <1>2, <1>3

(* A route goes on with what is sent at its end, and without what is received
   at its beginning. *)
LEMMA RouteGrows ==
  ASSUME NEW p, NEW ns \in Seq(Note), NEW q, Route(p, ns, q), NEW n \in Note, Leaves(q, n)
  PROVE  Route(p, Append(ns, n), After(n))
<1> DEFINE ms == Append(ns, n)
<1>1. /\ Len(ms) = Len(ns) + 1 /\ Len(ns) \in Nat /\ ms # <<>> /\ ms[Len(ms)] = n
      /\ \A i \in 1..Len(ns) : ms[i] = ns[i]
  OBVIOUS
<1> HIDE DEF ms
<1>2. CASE ns = <<>>
  BY <1>1, <1>2 DEF Route, ms
<1>3. CASE ns # <<>>
  <2>1. /\ Leaves(p, ns[1]) /\ After(ns[Len(ns)]) = q
        /\ \A i \in 1..(Len(ns) - 1) : Leaves(After(ns[i]), ns[i + 1])
    BY <1>3 DEF Route
  <2>2. Len(ns) # 0
    BY <1>3
  <2>3. ASSUME NEW i \in 1..(Len(ms) - 1) PROVE Leaves(After(ms[i]), ms[i + 1])
    <3>1. CASE i = Len(ns)
      BY <1>1, <2>1, <3>1
    <3>2. CASE i # Len(ns)
      <4>1. i \in 1..(Len(ns) - 1) /\ i \in 1..Len(ns) /\ i + 1 \in 1..Len(ns)
        BY <1>1, <3>2
      <4> QED
        BY <1>1, <2>1, <4>1
    <3> QED
      BY <3>1, <3>2
  <2>4. Leaves(p, ms[1])
    BY <1>1, <2>1, <2>2
  <2> QED
    BY <1>1, <2>3, <2>4 DEF Route, ms
<1> QED
  BY <1>2, <1>3

(* Receiving the first notification of a route leaves the rest of it. *)
LEMMA RouteShrinks ==
  ASSUME NEW p, NEW ns \in Seq(Note), NEW q, Route(p, ns, q), ns # <<>>
  PROVE  Leaves(p, Head(ns)) /\ Route(After(Head(ns)), Tail(ns), q)
<1> DEFINE ms == Tail(ns)
<1>1. /\ Head(ns) = ns[1] /\ ms \in Seq(Note) /\ Len(ms) = Len(ns) - 1 /\ Len(ns) \in Nat
      /\ \A i \in 1..Len(ms) : ms[i] = ns[i + 1]
      /\ Len(ns) # 0
  OBVIOUS
<1>2. /\ Leaves(p, ns[1]) /\ After(ns[Len(ns)]) = q
      /\ \A i \in 1..(Len(ns) - 1) : Leaves(After(ns[i]), ns[i + 1])
  BY DEF Route
<1> HIDE DEF ms
<1>3. CASE ms = <<>>
  <2>1. Len(ns) = 1
    BY <1>1, <1>3
  <2> QED
    BY <1>1, <1>2, <1>3, <2>1 DEF Route, ms
<1>4. CASE ms # <<>>
  <2>1. Len(ms) # 0 /\ Len(ms) \in Nat
    BY <1>1, <1>4
  <2>2. Leaves(After(ns[1]), ms[1])
    BY <1>1, <1>2, <2>1
  <2>3. ASSUME NEW i \in 1..(Len(ms) - 1) PROVE Leaves(After(ms[i]), ms[i + 1])
    <3>1. i + 1 \in 1..(Len(ns) - 1) /\ i \in 1..Len(ms) /\ i + 1 \in 1..Len(ms)
      BY <1>1
    <3> QED
      BY <1>1, <1>2, <3>1
  <2>4. After(ms[Len(ms)]) = q
    BY <1>1, <1>2, <2>1
  <2> QED
    BY <1>1, <1>4, <2>2, <2>3, <2>4 DEF Route, ms
<1> QED
  BY <1>3, <1>4

-----------------------------------------------------------------------------
(* The snapshot follows the node. *)

(* s is a snapshot for a node at p. *)
At(s, p) ==
    /\ s.hash # ZeroHash => s.hash = p /\ s.stale = FALSE
    /\ s.stale => s.block = Number[p]
    /\ HistoriesTo(s, p)

(* The snapshot is where the node was when it had sent what the manager has
   handled, and what it has not handled leads from there to the node's tip. *)
Follows(p) ==
    /\ At(snapshot, p)
    /\ IF pc = "flush"
       THEN Leaves(p, handling) /\ Route(After(handling), pending, canon)
       ELSE Route(p, pending, canon)

(* What the notification handled last has left. *)
HandledLast ==
    /\ handling.kind \in {"none", "commit", "reorg", "revert"}
    /\ handling.kind = "none" => Len(pending) = notified
    /\ pc # "flush" =>
          /\ handling.kind \in {"commit", "reorg"} => snapshot.hash # ZeroHash
          /\ handling.kind = "revert" => snapshot.hash = ZeroHash /\ snapshot.stale

(* Of a snapshot that is where the node was, no notification is refused. *)
LEMMA Accepts ==
  ASSUME IInv, NEW p \in Block, Follows(p), pc = "flush"
  PROVE  /\ handling.kind = "commit" => IsAcceptable(CommitVerdict)
         /\ handling.kind = "reorg" => IsAcceptable(ReorgVerdict)
<1> DEFINE h == snapshot.hash
<1>1. Leaves(p, handling) /\ At(snapshot, p) /\ (h # ZeroHash => snapshot.block = Number[h])
      /\ snapshot.stale \in BOOLEAN
  BY DEF Follows, IInv, SnapshotNames
<1>2. ASSUME handling.kind = "commit" PROVE IsAcceptable(CommitVerdict)
  <2>1. CASE h = ZeroHash \/ snapshot.stale
    BY <2>1 DEF IsAcceptable, CommitVerdict, ValidateChainCommitted, IsInitial, Current
  <2>2. CASE h # ZeroHash /\ ~snapshot.stale
    <3>1. h = p /\ snapshot.block = Number[p]
      BY <1>1, <2>2 DEF At
    <3> DEFINE q == After(handling)
               seg == handling.new
    <3>2. q \in Block /\ p \in Ancestors[q]
      BY <1>1, <1>2, LeavesFacts DEF Leaves
    <3>3. PICK f \in Ancestors[p] \ {q} : seg = Path(f, q)
      BY <1>1, <1>2, LeavesFacts
    <3> HIDE DEF q, seg
    <3>4. /\ f \in Ancestors[q] \ {q} /\ Number[f] \in Nat /\ Number[p] \in Nat
          /\ Number[f] <= Number[p] /\ f \in Block
      BY <3>2, <3>3, AncestorFacts
    <3>5. Number[First(seg)] = Number[f] + 1 /\ Parent(First(seg)) = f
      BY <3>2, <3>3, <3>4, PathEnds
    <3>6. CASE f = p
      <4>1. Continues(Current, seg)
        BY <3>1, <3>5, <3>6 DEF Continues, Current
      <4>2. ~OverlapsCurrent(Current, seg)
        BY <3>1, <3>4, <3>5, <3>6 DEF OverlapsCurrent, Current
      <4>3. CommitVerdict = ValidateChainCommitted(Current, seg)
        BY DEF CommitVerdict, seg
      <4>4. CommitVerdict \in {"AcceptAny", "Valid"}
        BY <4>1, <4>2, <4>3 DEF ValidateChainCommitted
      <4> QED
        BY <4>4 DEF IsAcceptable
    <3>7. CASE f # p
      <4>1. Number[f] < Number[p]
        BY <3>3, <3>7, ChainAssumption
      <4>2. p \in Ancestors[q] \ Ancestors[f]
        BY <3>2, <3>4, <4>1, AncestorFacts
      <4>3. Contains(seg, Current)
        BY <3>1, <3>2, <3>3, <3>4, <4>2, PathFacts DEF Contains, Current
      <4>4. OverlapsCurrent(Current, seg)
        BY <3>1, <3>4, <3>5, <4>1 DEF OverlapsCurrent, Current
      <4> QED
        BY <4>3, <4>4
           DEF IsAcceptable, CommitVerdict, ValidateChainCommitted, Current, seg
    <3> QED
      BY <3>6, <3>7
  <2> QED
    BY <2>1, <2>2
<1>3. ASSUME handling.kind = "reorg" PROVE IsAcceptable(ReorgVerdict)
  <2>1. CASE h = ZeroHash
    BY <2>1 DEF IsAcceptable, ReorgVerdict, ValidateChainReorged, IsInitial, Current
  <2>2. CASE h # ZeroHash
    <3>1. h = p
      BY <1>1, <2>2 DEF At
    <3>2. PICK f \in Ancestors[p] \ {p} : handling.old = Path(f, p)
      BY <1>1, <1>3, LeavesFacts
    <3>3. Tip(handling.old) = p
      BY <3>2, PathEnds
    <3> QED
      BY <3>1, <3>3 DEF IsAcceptable, ReorgVerdict, ValidateChainReorged, Current
  <2> QED
    BY <2>1, <2>2
<1> QED
  BY <1>2, <1>3

(* Handled, it leaves a snapshot that is where the node went. *)
LEMMA CommitFollows ==
  ASSUME IInv, NEW p \in Block, Follows(p), NEW caches, ApplyCommit(caches)
  PROVE  /\ After(handling) \in Block /\ At(snapshot', After(handling))
         /\ snapshot'.hash # ZeroHash
<1> DEFINE q == After(handling)
           seg == handling.new
<1>1. pc = "flush" /\ handling.kind = "commit" /\ IsSnapshot(snapshot)
      /\ snapshot' = BuildCommitState(snapshot, caches, seg)
  BY DEF ApplyCommit, Swap, IInv, SnapshotNames
<1>2. Leaves(p, handling) /\ HistoriesTo(snapshot, p)
  BY <1>1 DEF Follows, At
<1>3. q \in Block /\ q = Tip(seg) /\ p \in Ancestors[q]
      /\ \E f \in Ancestors[p] \ {q} : seg = Path(f, q)
  BY <1>1, <1>2, LeavesFacts DEF Leaves
<1>4. PICK f \in Ancestors[p] \ {q} : seg = Path(f, q)
  BY <1>3
<1>5. PushedBy(seg, snapshot, snapshot')
  BY <1>1, CommitHistories
<1>6. snapshot'.hash = Tip(seg) /\ snapshot'.stale = FALSE
  BY CommitLands
<1> HIDE DEF q, seg
<1>7. HistoriesTo(snapshot', q)
  BY <1>2, <1>3, <1>4, <1>5, PushKeepsHistories
<1>8. snapshot'.hash # ZeroHash /\ snapshot'.hash = q
  BY <1>3, <1>6, ChainAssumption
<1> QED
  BY <1>3, <1>6, <1>7, <1>8 DEF At, q

(* An accepted reorg takes the snapshot to where it leads. *)
LEMMA ReorgFollows ==
  ASSUME IInv, NEW p \in Block, Follows(p), ApplyReorg
  PROVE  /\ After(handling) \in Block /\ At(snapshot', After(handling))
         /\ snapshot'.hash # ZeroHash
<1> DEFINE q == After(handling)
           seg == handling.new
           n == CommonAncestor
           e == CopyHistoryBefore(snapshot, n, EmptySnapshot)
<1>1. pc = "flush" /\ handling.kind = "reorg" /\ IsSnapshot(snapshot)
      /\ snapshot' = BuildReorgState(snapshot, n, seg)
  BY DEF ApplyReorg, Swap, IInv, SnapshotNames
<1>2. Leaves(p, handling) /\ HistoriesTo(snapshot, p)
  BY <1>1 DEF Follows, At
<1>3. q \in Block /\ q = Tip(seg)
      /\ \E f \in (Ancestors[p] \cap Ancestors[q]) \ {p, q} :
            handling.old = Path(f, p) /\ seg = Path(f, q)
  BY <1>1, <1>2, LeavesFacts DEF Leaves
<1>4. PICK f \in (Ancestors[p] \cap Ancestors[q]) \ {p, q} :
         handling.old = Path(f, p) /\ seg = Path(f, q)
  BY <1>3
<1>5. n = Number[f]
  BY <1>4, AncestorIs
<1>6. PushedBy(seg, e, snapshot') /\ CutAt(n, snapshot, e) /\ e.hash = ZeroHash
  BY <1>1, ReorgHistories
<1>7. snapshot'.hash = Tip(seg) /\ snapshot'.stale = FALSE
  BY ReorgLands
<1> HIDE DEF q, seg, n, e
<1>8. HistoriesTo(e, f)
  BY <1>2, <1>4, <1>5, <1>6, CutKeepsHistories
<1>9. f \in Ancestors[q] /\ f \in Ancestors[f] \ {q}
  BY <1>3, <1>4, ChainAssumption
<1>10. HistoriesTo(snapshot', q)
  BY <1>3, <1>4, <1>6, <1>8, <1>9, PushKeepsHistories
<1>11. snapshot'.hash # ZeroHash /\ snapshot'.hash = q
  BY <1>3, <1>7, ChainAssumption
<1> QED
  BY <1>3, <1>7, <1>10, <1>11 DEF At, q

(* A revert forgets where the snapshot is, and says that it is stale. *)
LEMMA RevertFollows ==
  ASSUME IInv, NEW p \in Block, Follows(p), ApplyRevert
  PROVE  /\ After(handling) \in Block /\ At(snapshot', After(handling))
         /\ snapshot'.hash = ZeroHash /\ snapshot'.stale
<1> DEFINE q == After(handling)
           n == CommonAncestor
<1>1. pc = "flush" /\ handling.kind = "revert" /\ IsSnapshot(snapshot)
      /\ snapshot' = BuildRevertState(snapshot, n)
  BY DEF ApplyRevert, Swap, IInv, SnapshotNames
<1>2. Leaves(p, handling) /\ HistoriesTo(snapshot, p)
  BY <1>1 DEF Follows, At
<1>3. q \in Block /\ q \in Ancestors[p] \ {p} /\ handling.old = Path(q, p)
  BY <1>1, <1>2, LeavesFacts DEF Leaves
<1> HIDE DEF q
<1>4. n = Number[q] /\ n \in Nat
  BY <1>3, AncestorIs
<1>5. CutAt(n, snapshot, snapshot') /\ snapshot'.block = n
  BY <1>1, RevertHistories
<1>6. snapshot'.stale = TRUE /\ snapshot'.hash = ZeroHash
  BY <1>1, <1>4, RevertFields
<1> HIDE DEF n
<1>7. HistoriesTo(snapshot', q)
  BY <1>2, <1>3, <1>4, <1>5, <1>6, CutKeepsHistories
<1> QED
  BY <1>3, <1>4, <1>5, <1>6, <1>7 DEF At, q

(* A step moves the block the snapshot follows only when it handles a
   notification, to the block the notification led to. *)
LEMMA StepFollows ==
  ASSUME ~Lossy, IInv, HandledLast, NEW p \in Block, Follows(p), Steps
  PROVE  /\ HandledLast' /\ ~Refuse
         /\ \E q \in Block : /\ Follows(q)'
                             /\ \/ q = p /\ snapshot' = snapshot
                                \/ q = After(handling) /\ pc = "flush" /\ pc' # "flush"
<1>0. canon \in Block /\ pending \in Seq(Note)
  BY DEF IInv
<1>1. ~Refuse
  BY Accepts DEF Refuse
<1>2. ASSUME NEW from \in Block, NEW to \in Block,
             NodeCommits(from, to) \/ NodeReorgs(from, to) \/ NodeReverts(to)
      PROVE  HandledLast' /\ Follows(p)' /\ snapshot' = snapshot
  <2>1. PICK n \in Note : Deliver(n) /\ Leaves(canon, n) /\ After(n) = canon'
    BY <1>0, <1>2, NodeLeaves
  <2>2. /\ pending' = Append(pending, n) /\ notified' = notified + 1
        /\ UNCHANGED <<pc, handling, snapshot>>
    BY <2>1 DEF Deliver, state
  <2>3. \A x : Route(x, pending, canon) => Route(x, pending', canon')
    BY <1>0, <2>1, <2>2, RouteGrows
  <2>4. Len(pending') = Len(pending) + 1
    BY <1>0, <2>2
  <2>5. HandledLast'
    BY <2>2, <2>4 DEF HandledLast
  <2>6. Follows(p)'
    BY <2>2, <2>3 DEF Follows
  <2> QED
    BY <2>2, <2>5, <2>6
<1>3. ASSUME Receive PROVE HandledLast' /\ Follows(p)' /\ snapshot' = snapshot
  <2>1. /\ pc # "flush" /\ pc' = "flush" /\ pending # <<>>
        /\ handling' = Head(pending) /\ pending' = Tail(pending)
        /\ UNCHANGED <<canon, notified, snapshot>>
    BY <1>3 DEF Receive, state
  <2>2. At(snapshot, p) /\ Route(p, pending, canon)
    BY <2>1 DEF Follows
  <2>3. Leaves(p, handling') /\ Route(After(handling'), pending', canon')
    BY <1>0, <2>1, <2>2, RouteShrinks
  <2>4. handling'.kind \in {"commit", "reorg", "revert"}
    BY <2>3, LeavesFacts
  <2>5. HandledLast'
    BY <2>1, <2>4 DEF HandledLast
  <2>6. Follows(p)'
    BY <2>1, <2>2, <2>3 DEF Follows
  <2> QED
    BY <2>1, <2>5, <2>6
<1>4. ASSUME pc = "flush", pc' # "flush", UNCHANGED <<handling, pending, canon>>,
             After(handling) \in Block, At(snapshot', After(handling)),
             handling.kind \in {"commit", "reorg"} => snapshot'.hash # ZeroHash,
             handling.kind = "revert" => snapshot'.hash = ZeroHash /\ snapshot'.stale
      PROVE  HandledLast' /\ \E q \in Block : q = After(handling) /\ Follows(q)'
  <2>1. Leaves(p, handling) /\ Route(After(handling), pending, canon)
    BY <1>4 DEF Follows
  <2>2. handling.kind \in {"commit", "reorg", "revert"}
    BY <2>1, LeavesFacts
  <2>3. HandledLast'
    BY <1>4, <2>2 DEF HandledLast
  <2>4. ASSUME NEW x, At(snapshot', x), Route(x, pending, canon) PROVE Follows(x)'
    BY <1>4, <2>4 DEF Follows
  <2>5. PICK q \in Block : q = After(handling)
    BY <1>4
  <2>6. Follows(q)'
    BY <1>4, <2>1, <2>4, <2>5
  <2> QED
    BY <2>3, <2>5, <2>6
<1>5. ASSUME NEW caches, ApplyCommit(caches)
      PROVE  /\ HandledLast' /\ pc = "flush" /\ pc' # "flush"
             /\ \E q \in Block : q = After(handling) /\ Follows(q)'
  <2>1. handling.kind = "commit" /\ pc = "flush" /\ pc' # "flush"
        /\ UNCHANGED <<handling, pending, canon>>
    BY <1>5, CommitLands DEF ApplyCommit
  <2>2. After(handling) \in Block /\ At(snapshot', After(handling)) /\ snapshot'.hash # ZeroHash
    BY <1>5, CommitFollows
  <2> QED
    BY <1>4, <2>1, <2>2
<1>6. ASSUME ApplyReorg
      PROVE  /\ HandledLast' /\ pc = "flush" /\ pc' # "flush"
             /\ \E q \in Block : q = After(handling) /\ Follows(q)'
  <2>1. handling.kind = "reorg" /\ pc = "flush" /\ pc' # "flush"
        /\ UNCHANGED <<handling, pending, canon>>
    BY <1>6, ReorgLands DEF ApplyReorg
  <2>2. After(handling) \in Block /\ At(snapshot', After(handling)) /\ snapshot'.hash # ZeroHash
    BY <1>6, ReorgFollows
  <2> QED
    BY <1>4, <2>1, <2>2
<1>7. ASSUME ApplyRevert
      PROVE  /\ HandledLast' /\ pc = "flush" /\ pc' # "flush"
             /\ \E q \in Block : q = After(handling) /\ Follows(q)'
  <2>1. handling.kind = "revert" /\ pc = "flush" /\ pc' # "flush"
        /\ UNCHANGED <<handling, pending, canon>>
    BY <1>7, RevertLands DEF ApplyRevert
  <2>2. /\ After(handling) \in Block /\ At(snapshot', After(handling))
        /\ snapshot'.hash = ZeroHash /\ snapshot'.stale
    BY <1>7, RevertFollows
  <2> QED
    BY <1>4, <2>1, <2>2
<1>8. ASSUME SendUpdate \/ EmitLogs \/ ReadLogs \/ UNCHANGED vars
      PROVE  HandledLast' /\ Follows(p)' /\ snapshot' = snapshot
  <2>1. /\ UNCHANGED <<canon, notified, pending, handling, snapshot>>
        /\ pc' = "flush" <=> pc = "flush"
    BY <1>8 DEF SendUpdate, EmitLogs, ReadLogs, vars, env, state
  <2>2. HandledLast' /\ Follows(p)'
    BY <2>1 DEF HandledLast, Follows
  <2> QED
    BY <2>1, <2>2
<1> QED
  BY <1>1, <1>2, <1>3, <1>5, <1>6, <1>7, <1>8 DEF Steps

(* The snapshot follows the node: with IInv, an inductive invariant as long as
   nothing is lost. *)
FollowInv == IInv /\ HandledLast /\ \E p \in Block : Follows(p)

(* Nothing sent, nothing handled: the initial snapshot follows the node. *)
LEMMA InitFollows == Init => HandledLast /\ canon \in Block /\ Follows(canon)
<1> SUFFICES ASSUME Init PROVE HandledLast /\ canon \in Block /\ Follows(canon)
  OBVIOUS
<1>1. /\ canon \in Block /\ pc = "recv" /\ handling.kind = "none" /\ notified = 0
      /\ pending = <<>> /\ snapshot = EmptySnapshot
  BY DEF Init, NoNotification
<1>2. /\ snapshot.hash = ZeroHash /\ snapshot.stale = FALSE
      /\ snapshot.receipts = <<>> /\ snapshot.changed = <<>>
  BY <1>1 DEF EmptySnapshot
<1>3. HistoriesTo(snapshot, canon)
  BY <1>2, DepthAssumption DEF HistoriesTo, ReceiptsTo, ChangedTo, Steady
<1> QED
  BY <1>1, <1>2, <1>3 DEF HandledLast, Follows, At, Route

(* The manager and its environment, whatever a flush hands over. *)
AnyFlush == Init /\ [][Steps]_vars

(* While no notification is lost the snapshot is, at every step of the manager,
   where the node was when it had sent what is handled, and the notifications
   on their way lead from there to the node's tip; what the fetch managers hand
   over has no say in it. *)
THEOREM FollowsWhateverIsFlushed == ASSUME ~Lossy PROVE AnyFlush => []FollowInv
<1>1. Init => FollowInv
  BY InitIInv, InitFollows DEF FollowInv
<1>2. FollowInv /\ [Steps]_vars => FollowInv'
  <2> SUFFICES ASSUME FollowInv, Steps PROVE FollowInv'
    BY DEF Steps
  <2>1. PICK p \in Block : Follows(p)
    BY DEF FollowInv
  <2>2. HandledLast' /\ \E q \in Block : Follows(q)'
    BY <2>1, StepFollows DEF FollowInv
  <2>3. IInv'
    BY StepKeeps DEF FollowInv
  <2> QED
    BY <2>2, <2>3 DEF FollowInv
<1> QED
  BY <1>1, <1>2, PTL DEF AnyFlush

(* The same for the caches the flushes do hand over. *)
THEOREM FollowsTheNode == ASSUME ~Lossy PROVE Spec => []FollowInv
<1>1. [Next]_vars => [Steps]_vars
  BY NextSteps
<1> QED
  BY <1>1, FollowsWhateverIsFlushed, PTL DEF Spec, AnyFlush

(* A manager that has handled every notification is where the node is: at its
   tip by number and hash and not stale, or, after a revert, at its height
   without a hash and stale. *)
THEOREM StaysInStep == ASSUME ~Lossy PROVE Spec => []InStep
<1>1. FollowInv => InStep
  <2> SUFFICES ASSUME FollowInv, pc # "flush", pending = <<>>, notified > 0
               PROVE  /\ snapshot.block = Number[canon]
                      /\ snapshot.hash = IF handling.kind = "revert" THEN ZeroHash ELSE canon
                      /\ snapshot.stale = (handling.kind = "revert")
    BY DEF InStep
  <2>1. PICK p \in Block : Follows(p)
    BY DEF FollowInv
  <2>2. At(snapshot, p) /\ p = canon
    BY <2>1 DEF Follows, Route
  <2>3. snapshot.stale \in BOOLEAN
        /\ (snapshot.hash # ZeroHash => snapshot.block = Number[snapshot.hash])
    BY DEF FollowInv, IInv, SnapshotNames
  <2>4. handling.kind \in {"commit", "reorg", "revert"}
    BY DEF FollowInv, HandledLast
  <2>5. /\ handling.kind \in {"commit", "reorg"} => snapshot.hash # ZeroHash
        /\ handling.kind = "revert" => snapshot.hash = ZeroHash /\ snapshot.stale
    BY DEF FollowInv, HandledLast
  <2> QED
    BY <2>2, <2>3, <2>4, <2>5 DEF At
<1> QED
  BY <1>1, FollowsTheNode, PTL

(* The receipts the snapshot holds have no hole: what receipts(n) does not
   find is below everything it finds. *)
THEOREM HistoryHasNoHole == ASSUME ~Lossy PROVE Spec => []HistoryContiguous
<1>1. FollowInv => HistoryContiguous
  <2> SUFFICES ASSUME FollowInv, snapshot.hash # ZeroHash,
                      NEW b \in Ancestors[snapshot.hash], NEW x \in Blocks(snapshot.receipts),
                      Number[x] <= Number[b]
               PROVE  b \in Blocks(snapshot.receipts)
    BY DEF HistoryContiguous
  <2>1. PICK p \in Block : Follows(p)
    BY DEF FollowInv
  <2>2. p = snapshot.hash /\ ReceiptsTo(snapshot, p)
    BY <2>1 DEF Follows, At, HistoriesTo
  <2>3. /\ snapshot.receipts \in Seq(Ancestors[p]) /\ Steady(snapshot.receipts)
        /\ snapshot.receipts # <<>> /\ Tip(snapshot.receipts) = p
    BY <2>2 DEF ReceiptsTo
  <2> QED
    BY <2>1, <2>2, <2>3, SteadyHasNoHole
<1> QED
  BY <1>1, FollowsTheNode, PTL

(* No notification is refused: the verdicts of validation.rs are Valid or
   AcceptAny for whatever a node sends and nothing loses, also after reverts
   and for commits that overlap. *)
THEOREM NothingIsRefused == ASSUME ~Lossy PROVE Spec => [][~Refuse]_vars
<1>1. ASSUME FollowInv, [Next]_vars PROVE ~Refuse
  BY <1>1, NextSteps, StepFollows DEF FollowInv
<1>2. FollowInv /\ [Next]_vars => [~Refuse]_vars
  BY <1>1
<1> QED
  BY <1>2, FollowsTheNode, PTL DEF Spec

-----------------------------------------------------------------------------
(* What the snapshot says is true. *)

(* What s holds is true at block p; the block hashes also when s names no
   block. *)
TrueTo(s, p) ==
    /\ HashesAt(s.hashes, p)
    /\ IF s.hash = ZeroHash THEN NoEntries(s) ELSE s.header = s.hash /\ EntriesAt(s, p)

(* What build_commit_state applies the segment to is true where the snapshot
   is. *)
LEMMA MergedTrue ==
  ASSUME ReadsAtTag, IInv, NEW p \in Block, At(snapshot, p), TrueTo(snapshot, p),
         NEW caches \in Flushed
  PROVE  LET e == Merged(snapshot, caches)
         IN  /\ HashesAt(e.hashes, p)
             /\ IF snapshot.hash = ZeroHash THEN NoEntries(e) ELSE EntriesAt(e, p)
<1> DEFINE e == Merged(snapshot, caches)
           h == snapshot.hash
<1>1. /\ e.accounts = Extended(snapshot.accounts, caches.accounts, h)
      /\ e.storage = Extended(snapshot.storage, caches.storage, h)
      /\ e.hashes = Extended(snapshot.hashes, caches.hashes, h)
  <2>1. IsSnapshot(snapshot)
    BY DEF IInv, SnapshotNames
  <2> HIDE DEF h
  <2>2. /\ e.accounts = Extended(snapshot.accounts, caches.accounts, snapshot.hash)
        /\ e.storage = Extended(snapshot.storage, caches.storage, snapshot.hash)
        /\ e.hashes = Extended(snapshot.hashes, caches.hashes, snapshot.hash)
    BY <2>1, CommitFields
  <2> QED
    BY <2>2 DEF h
<1> HIDE DEF e
<1>2. /\ h \in Hash /\ (h # ZeroHash => h = p)
      /\ DOMAIN snapshot.accounts = Account /\ DOMAIN snapshot.storage = Slot
      /\ DOMAIN snapshot.hashes = Height
  BY DEF IInv, SnapshotNames, SnapshotMaps, At
<1>3. h \in Block => h = p
  BY <1>2, ChainAssumption
<1>4. HashesAt(e.hashes, p)
  <2> SUFFICES ASSUME NEW n \in Height, e.hashes[n] # Unheld
               PROVE  n <= Number[p] /\ e.hashes[n] = AtHeight(p, n)
    BY DEF HashesAt
  <2>1. CASE caches.hashes.tag = h /\ caches.hashes.data[n] # Unheld
    BY <1>1, <1>2, <1>3, <2>1, FlushedFacts DEF Extended
  <2>2. CASE ~(caches.hashes.tag = h /\ caches.hashes.data[n] # Unheld)
    BY <1>1, <1>2, <2>2 DEF Extended, TrueTo, HashesAt
  <2> QED
    BY <2>1, <2>2
<1>5. ASSUME NEW a \in Account
      PROVE  \/ e.accounts[a] = snapshot.accounts[a]
             \/ h = p /\ h \in Block /\ e.accounts[a] = InfoAt(p, a)
  BY <1>1, <1>2, <1>3, FlushedFacts DEF Extended
<1>6. ASSUME NEW k \in Slot
      PROVE  \/ e.storage[k] = snapshot.storage[k]
             \/ h = p /\ h \in Block /\ e.storage[k] = WordAt(p, k)
  BY <1>1, <1>2, <1>3, FlushedFacts DEF Extended
<1>7. CASE h = ZeroHash
  <2>1. NoEntries(e)
    BY <1>5, <1>6, <1>7, ChainAssumption DEF NoEntries, TrueTo
  <2> QED
    BY <1>4, <1>7, <2>1 DEF e
<1>8. CASE h # ZeroHash
  <2>1. EntriesAt(e, p)
    BY <1>5, <1>6, <1>8 DEF EntriesAt, TrueTo
  <2> QED
    BY <1>4, <1>8, <2>1 DEF e
<1> QED
  BY <1>7, <1>8

(* A commit keeps the snapshot true. *)
LEMMA CommitTrue ==
  ASSUME ReadsAtTag, IInv, NEW p \in Block, Follows(p), TrueTo(snapshot, p),
         NEW caches \in Flushed, ApplyCommit(caches)
  PROVE  TrueTo(snapshot', After(handling))
<1> DEFINE q == After(handling)
           seg == handling.new
           e == Merged(snapshot, caches)
<1>1. pc = "flush" /\ handling.kind = "commit" /\ IsSnapshot(snapshot)
      /\ snapshot' = BuildCommitState(snapshot, caches, seg)
  BY DEF ApplyCommit, Swap, IInv, SnapshotNames
<1>2. Leaves(p, handling) /\ At(snapshot, p)
  BY <1>1 DEF Follows
<1>3. q \in Block /\ q = Tip(seg) /\ p \in Ancestors[q]
      /\ \E f \in Ancestors[p] \ {q} : seg = Path(f, q)
  BY <1>1, <1>2, LeavesFacts DEF Leaves
<1>4. PICK f \in Ancestors[p] \ {q} : seg = Path(f, q)
  BY <1>3
<1>5. /\ HashesAt(e.hashes, p)
      /\ IF snapshot.hash = ZeroHash THEN NoEntries(e) ELSE EntriesAt(e, p)
  BY <1>2, MergedTrue
<1> HIDE DEF q, seg, e
<1>6. MovedBy(seg, e, snapshot')
  BY <1>1, CommitFields DEF e
<1>7. f \in Ancestors[q] /\ Ancestors[f] \subseteq Ancestors[p]
  BY <1>3, <1>4, AncestorFacts
<1>8. Leads(p, seg)
  BY <1>3, <1>4, <1>7, PathFacts DEF Leads
<1>9. HashesAt(snapshot'.hashes, q)
  <2>1. snapshot'.hashes = WithHashes(e.hashes, Path(f, q))
    BY <1>4, <1>6 DEF MovedBy
  <2> QED
    BY <1>3, <1>5, <1>7, <2>1, HashesCarried
<1>10. EntriesAt(snapshot', q)
  <2>1. CASE snapshot.hash = ZeroHash
    BY <1>5, <1>6, <2>1, NothingStaysNothing DEF NoEntries, EntriesAt
  <2>2. CASE snapshot.hash # ZeroHash
    BY <1>3, <1>5, <1>6, <1>8, <2>2, ExecutionIsExact
  <2> QED
    BY <2>1, <2>2
<1>11. snapshot'.hash = q /\ snapshot'.header = q /\ q # ZeroHash
  BY <1>3, <1>6, ChainAssumption DEF MovedBy
<1> QED
  BY <1>9, <1>10, <1>11 DEF TrueTo, q

(* What copy_history_before keeps of the block hashes is true at the block it
   cuts at. *)
LEMMA CutTrue ==
  ASSUME NEW p \in Block, NEW f \in Ancestors[p], NEW m, HashesAt(m, p)
  PROVE  HashesAt([n \in Height |-> IF n <= Number[f] THEN m[n] ELSE Unheld], f)
<1> DEFINE k == [n \in Height |-> IF n <= Number[f] THEN m[n] ELSE Unheld]
<1> SUFFICES ASSUME NEW n \in Height, k[n] # Unheld
             PROVE  n <= Number[f] /\ k[n] = AtHeight(f, n)
  BY DEF HashesAt
<1>1. n <= Number[f] /\ k[n] = m[n]
  OBVIOUS
<1>2. m[n] = AtHeight(p, n)
  BY <1>1 DEF HashesAt
<1>3. n \in 0..Number[f]
  BY <1>1, AncestorFacts, ChainAssumption DEF Height
<1> QED
  BY <1>1, <1>2, <1>3, SameBelow

(* So does a reorg. *)
LEMMA ReorgTrue ==
  ASSUME IInv, NEW p \in Block, Follows(p), TrueTo(snapshot, p), ApplyReorg
  PROVE  TrueTo(snapshot', After(handling))
<1> DEFINE q == After(handling)
           seg == handling.new
           n == CommonAncestor
           e == CopyHistoryBefore(snapshot, n, EmptySnapshot)
<1>1. pc = "flush" /\ handling.kind = "reorg" /\ IsSnapshot(snapshot)
      /\ snapshot' = BuildReorgState(snapshot, n, seg)
  BY DEF ApplyReorg, Swap, IInv, SnapshotNames
<1>2. Leaves(p, handling)
  BY <1>1 DEF Follows
<1>3. q \in Block /\ q = Tip(seg)
      /\ \E f \in (Ancestors[p] \cap Ancestors[q]) \ {p, q} :
            handling.old = Path(f, p) /\ seg = Path(f, q)
  BY <1>1, <1>2, LeavesFacts DEF Leaves
<1>4. PICK f \in (Ancestors[p] \cap Ancestors[q]) \ {p, q} :
         handling.old = Path(f, p) /\ seg = Path(f, q)
  BY <1>3
<1>5. n = Number[f] /\ n \in Nat
  BY <1>4, AncestorIs
<1>6. /\ MovedBy(seg, e, snapshot') /\ NoEntries(e)
      /\ e.hashes = [m \in Height |-> IF m <= n THEN snapshot.hashes[m] ELSE Unheld]
  BY <1>1, <1>5, ReorgFields
<1> HIDE DEF q, seg, n, e
<1>7. HashesAt(e.hashes, f)
  BY <1>4, <1>5, <1>6, CutTrue DEF TrueTo
<1>8. HashesAt(snapshot'.hashes, q)
  <2>1. snapshot'.hashes = WithHashes(e.hashes, Path(f, q))
    BY <1>4, <1>6 DEF MovedBy
  <2>2. q \in Block /\ f \in Ancestors[q]
    BY <1>3, <1>4
  <2>3. \E h \in Ancestors[q] : HashesAt(e.hashes, h)
    BY <1>7, <2>2
  <2> QED
    BY <2>1, <2>2, <2>3, HashesCarried
<1>9. EntriesAt(snapshot', q)
  BY <1>6, NothingStaysNothing DEF NoEntries, EntriesAt
<1>10. snapshot'.hash = q /\ snapshot'.header = q /\ q # ZeroHash
  BY <1>3, <1>6, ChainAssumption DEF MovedBy
<1> QED
  BY <1>8, <1>9, <1>10 DEF TrueTo, q

(* And a revert. *)
LEMMA RevertTrue ==
  ASSUME IInv, NEW p \in Block, Follows(p), TrueTo(snapshot, p), ApplyRevert
  PROVE  TrueTo(snapshot', After(handling))
<1> DEFINE q == After(handling)
           n == CommonAncestor
<1>1. pc = "flush" /\ handling.kind = "revert" /\ IsSnapshot(snapshot)
      /\ snapshot' = BuildRevertState(snapshot, n)
  BY DEF ApplyRevert, Swap, IInv, SnapshotNames
<1>2. Leaves(p, handling)
  BY <1>1 DEF Follows
<1>3. q \in Block /\ q \in Ancestors[p] \ {p} /\ handling.old = Path(q, p)
  BY <1>1, <1>2, LeavesFacts DEF Leaves
<1> HIDE DEF q
<1>4. n = Number[q] /\ n \in Nat
  BY <1>3, AncestorIs
<1>5. snapshot'.hash = ZeroHash /\ NoEntries(snapshot')
  BY <1>1, <1>4, RevertFields
<1>6. snapshot'.hashes = [m \in Height |-> IF m <= n THEN snapshot.hashes[m] ELSE Unheld]
  BY <1>1, RevertHistories
<1> HIDE DEF n
<1>7. HashesAt(snapshot'.hashes, q)
  BY <1>3, <1>4, <1>6, CutTrue DEF TrueTo
<1> QED
  BY <1>5, <1>7 DEF TrueTo, q

(* With FollowInv, what the snapshot holds is true where it is. *)
TruthInv == IInv /\ HandledLast /\ \E p \in Block : Follows(p) /\ TrueTo(snapshot, p)

(* ServesTruth of all but the accounts that are destroyed. *)
ServesLasting ==
    ~snapshot.stale =>
        /\ IF snapshot.hash = ZeroHash THEN NoEntries(snapshot)
           ELSE EntriesAt(snapshot, snapshot.hash)
        /\ ExactHeader(snapshot) /\ ExactHistory(snapshot)

(* While no notification is lost and every read is answered at the block it is
   tagged with, a snapshot that is not stale holds only accounts, slots, block
   hashes, header, receipts and changed accounts of its own block and chain:
   through commits that overlap, reorgs of any depth, reverts, and whatever the
   flushes hand over.  Only an account that a block destroys may be stale. *)
THEOREM LastingTruthIsServed == ASSUME ~Lossy, ReadsAtTag PROVE Spec => []ServesLasting
<1>1. Init => TruthInv
  <2> SUFFICES ASSUME Init PROVE TruthInv
    OBVIOUS
  <2>1. TrueTo(snapshot, canon)
    BY DEF Init, EmptySnapshot, TrueTo, HashesAt, NoEntries
  <2> QED
    BY <2>1, InitIInv, InitFollows DEF TruthInv
<1>2. TruthInv /\ [Next]_vars => TruthInv'
  <2> SUFFICES ASSUME TruthInv, [Next]_vars PROVE TruthInv'
    OBVIOUS
  <2>1. PICK p \in Block : Follows(p) /\ TrueTo(snapshot, p)
    BY DEF TruthInv
  <2>2. IInv /\ HandledLast
    BY DEF TruthInv
  <2>3. HandledLast'
    BY <2>1, <2>2, NextSteps, StepFollows
  <2>4. PICK q \in Block : /\ Follows(q)'
                           /\ \/ q = p /\ snapshot' = snapshot
                              \/ q = After(handling) /\ pc = "flush" /\ pc' # "flush"
    BY <2>1, <2>2, NextSteps, StepFollows
  <2>5. ~Refuse
    BY <2>1, <2>2, NextSteps, StepFollows
  <2>6. ASSUME pc = "flush", pc' # "flush"
        PROVE  (\E caches \in Flushed : ApplyCommit(caches)) \/ ApplyReorg \/ ApplyRevert
    BY <2>5, <2>6 DEF Next, Manager, Receive, SendUpdate, EmitLogs, ReadLogs, NodeCommits,
                      NodeReorgs, NodeReverts, Deliver, vars
  <2>7. TrueTo(snapshot', q)
    BY <2>1, <2>2, <2>4, <2>6, CommitTrue, ReorgTrue, RevertTrue
  <2> QED
    BY <2>2, <2>3, <2>4, <2>7, StepIInv DEF TruthInv
<1>3. TruthInv => ServesLasting
  <2> SUFFICES ASSUME TruthInv, ~snapshot.stale
               PROVE  /\ IF snapshot.hash = ZeroHash THEN NoEntries(snapshot)
                         ELSE EntriesAt(snapshot, snapshot.hash)
                      /\ ExactHeader(snapshot) /\ ExactHistory(snapshot)
    BY DEF ServesLasting
  <2>1. PICK p \in Block : Follows(p) /\ TrueTo(snapshot, p)
    BY DEF TruthInv
  <2>2. At(snapshot, p)
    BY <2>1 DEF Follows
  <2>3. CASE snapshot.hash = ZeroHash
    BY <2>1, <2>3 DEF TrueTo, ExactHeader, ExactHistory
  <2>4. CASE snapshot.hash # ZeroHash
    <3>1. snapshot.hash = p /\ snapshot.block = Number[p]
      BY <2>2, <2>4 DEF At, TruthInv, IInv, SnapshotNames
    <3>2. EntriesAt(snapshot, snapshot.hash)
      BY <2>1, <2>4, <3>1 DEF TrueTo
    <3>3. ExactHeader(snapshot)
      BY <2>1, <2>4, <3>1 DEF TrueTo, HashesAt, ExactHeader
    <3>4. ReceiptsTo(snapshot, p) /\ ChangedTo(snapshot, p)
      BY <2>2 DEF At, HistoriesTo
    <3>5. /\ Len(snapshot.receipts) \in 1..Depth
          /\ snapshot.receipts[Len(snapshot.receipts)] = p
          /\ \A i \in 1..Len(snapshot.receipts) : snapshot.receipts[i] \in Ancestors[p]
      <4>1. /\ snapshot.receipts \in Seq(Ancestors[p]) /\ Len(snapshot.receipts) <= Depth
            /\ snapshot.receipts # <<>> /\ Tip(snapshot.receipts) = p
        BY <2>4, <3>4 DEF ReceiptsTo
      <4> QED
        BY <4>1, DepthAssumption DEF Tip
    <3>6. /\ Len(snapshot.changed) \in 1..Depth
          /\ snapshot.changed[Len(snapshot.changed)].block = Number[p]
          /\ \A i \in 1..Len(snapshot.changed) : snapshot.changed[i].block <= Number[p]
      <4>1. /\ snapshot.changed \in Seq(Change(Number[p])) /\ Len(snapshot.changed) <= Depth
            /\ snapshot.changed # <<>>
            /\ snapshot.changed[Len(snapshot.changed)].block = Number[p]
        BY <2>4, <3>4 DEF ChangedTo
      <4>2. \A c \in Change(Number[p]) : c.block <= Number[p]
        BY DEF Change
      <4>3. Number[p] \in Nat
        BY ChainAssumption
      <4> QED
        BY <4>1, <4>2, DepthAssumption
    <3>7. ExactHistory(snapshot)
      BY <3>1, <3>5, <3>6 DEF ExactHistory
    <3> QED
      BY <2>4, <3>2, <3>3, <3>7
  <2> QED
    BY <2>3, <2>4
<1> QED
  BY <1>1, <1>2, <1>3, PTL DEF Spec

(* Where no account is destroyed, all it serves is true. *)
COROLLARY TruthIsServed == ASSUME ~Lossy, ReadsAtTag, NobodyGone PROVE Spec => []ServesTruth
<1>1. ServesLasting => ServesTruth
  BY AllLast DEF ServesLasting, ServesTruth, EntriesAt, NoEntries, ExactState
<1> QED
  BY <1>1, LastingTruthIsServed, PTL
=============================================================================
