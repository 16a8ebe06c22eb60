-------------------------- MODULE HistoryDB_proofs --------------------------
(***************************************************************************)
(* What ORDER BY timestamp DESC returns, for any finite set of timestamps: *)
(* facts that the proofs about the commands cite.                          *)
(***************************************************************************)
EXTENDS HistoryDB, FiniteSetTheorems, TLAPS

\* How many timestamps of S are not older than t.
Rank(S, t) == Cardinality({u \in S : u >= t})

\* A newer timestamp has a lower rank.
LEMMA NewerLower ==
  ASSUME NEW S, \A s \in S : s \in Nat, IsFiniteSet(S),
         NEW t \in S, NEW u \in S, u > t
  PROVE  Rank(S, u) < Rank(S, t)
<1> DEFINE Of(v) == {w \in S : w >= v}
<1>1. IsFiniteSet(Of(t)) /\ Of(u) \subseteq Of(t) /\ t \in Of(t) \ Of(u)
  BY FS_Subset
<1>2. /\ Cardinality(Of(u)) <= Cardinality(Of(t))
      /\ Cardinality(Of(u)) # Cardinality(Of(t))
  BY <1>1, FS_Subset
<1>3. Cardinality(Of(u)) \in Nat /\ Cardinality(Of(t)) \in Nat
  BY <1>1, FS_Subset, FS_CardinalityType
<1> QED
  BY <1>2, <1>3 DEF Rank

\* The ranks are the numbers from 1 to the size of S, each once.
LEMMA RankBijection ==
  ASSUME NEW S, \A s \in S : s \in Nat, IsFiniteSet(S)
  PROVE  /\ Cardinality(S) \in Nat
         /\ \A t \in S : Rank(S, t) \in 1..Cardinality(S)
         /\ \A k \in 1..Cardinality(S) : \E t \in S : Rank(S, t) = k
<1> DEFINE n == Cardinality(S)
           r == [t \in S |-> Rank(S, t)]
<1>1. n \in Nat
  BY FS_CardinalityType
<1>2. ASSUME NEW t \in S PROVE Rank(S, t) \in 1..n
  <2> DEFINE newer == {u \in S : u >= t}
  <2>1. newer \in SUBSET S /\ t \in newer
    OBVIOUS
  <2>2. /\ IsFiniteSet(newer) /\ Cardinality(newer) <= n
        /\ Cardinality(newer) \in Nat /\ Cardinality(newer) # 0
    BY <2>1, FS_Subset, FS_CardinalityType, FS_EmptySet
  <2> QED
    BY <1>1, <2>2 DEF Rank
<1>3. r \in Injection(S, 1..n)
  <2>1. r \in [S -> 1..n]
    BY <1>2
  <2>2. ASSUME NEW t \in S, NEW u \in S, t # u PROVE r[t] # r[u]
    <3>1. t > u \/ u > t
      BY <2>2
    <3> QED
      BY <1>2, <3>1, NewerLower
  <2> QED
    BY <2>1, <2>2 DEF Injection, IsInjective
<1>4. IsFiniteSet(1..n) /\ Cardinality(1..n) = n
  BY <1>1, FS_Interval
<1>5. r \in Surjection(S, 1..n)
  BY <1>3, <1>4, FS_Injection
<1> QED
  BY <1>1, <1>2, <1>5 DEF Surjection

\* A query returns each of its names once, the newest first.
LEMMA QueryResult ==
  ASSUME NEW S, \A s \in S : s \in Nat, IsFiniteSet(S)
  PROVE  LET list == OrderByTimestampDesc(S)
         IN  /\ list \in Seq(S)
             /\ Len(list) = Cardinality(S) /\ DOMAIN list = 1..Len(list)
             /\ \A t \in S : \E k \in DOMAIN list : list[k] = t
             /\ \A j, k \in DOMAIN list : j < k => list[j] > list[k]
<1> DEFINE n == Cardinality(S)
           list == OrderByTimestampDesc(S)
<1>1. /\ n \in Nat
      /\ \A t \in S : Rank(S, t) \in 1..n
      /\ \A k \in 1..n : \E t \in S : Rank(S, t) = k
  BY RankBijection
<1>2. list = [k \in 1..n |-> CHOOSE t \in S : Rank(S, t) = k]
  BY DEF OrderByTimestampDesc, Rank
<1>3. \A k \in 1..n : list[k] \in S /\ Rank(S, list[k]) = k
  BY <1>1, <1>2
<1>4. list \in Seq(S) /\ Len(list) = n /\ DOMAIN list = 1..n
  <2>1. list \in [1..n -> S]
    BY <1>2, <1>3
  <2> QED
    BY <1>1, <2>1
<1>5. ASSUME NEW t \in S PROVE list[Rank(S, t)] = t
  <2> DEFINE u == list[Rank(S, t)]
  <2>1. u \in S /\ Rank(S, u) = Rank(S, t) /\ Rank(S, t) \in 1..n
    BY <1>1, <1>3
  <2>2. u = t \/ u > t \/ t > u
    BY <2>1
  <2> QED
    BY <1>1, <2>1, <2>2, NewerLower
<1>6. ASSUME NEW j \in 1..n, NEW k \in 1..n, j < k PROVE list[j] > list[k]
  <2>1. /\ list[j] \in S /\ Rank(S, list[j]) = j
        /\ list[k] \in S /\ Rank(S, list[k]) = k
    BY <1>3
  <2>2. list[j] > list[k] \/ list[j] = list[k] \/ list[k] > list[j]
    BY <2>1
  <2> QED
    BY <1>1, <1>6, <2>1, <2>2, NewerLower
<1> QED
  BY <1>1, <1>4, <1>5, <1>6
=============================================================================
