-------------------------- MODULE LocalCacheProofs --------------------------
(***************************************************************************)
(* Theorems about LocalCache, for any number of shards and tokens, any size *)
(* cap and any TTL.                                                         *)
(***************************************************************************)
EXTENDS LocalCache, FiniteSetTheorems, SequenceTheorems, TLAPS

(* The maps agree with the history of the calls: a token is only in its own  *)
(* shard, with the entry of its last Put, and expires TTL after its last     *)
(* use.                                                                      *)
MapMatchesHistory ==
    \A s \in Shards, t \in Tokens : items[s][t] # None =>
        /\ shardOf[t] = s
        /\ granted[t] # None
        /\ items[s][t].entry = granted[t].entry
        /\ items[s][t].expiresAt = granted[t].at + TTL

Inv == TypeOK /\ MapMatchesHistory

-----------------------------------------------------------------------------
(* Lists: what Removed, MoveToFront and DropFromBack leave.                  *)

\* The positions of a list that a removal leaves, and how many up to one.
Staying(list, D) == {i \in 1..Len(list) : list[i] \notin D}
Rank(P, i) == Cardinality({j \in P : j <= i})

\* Ranks count up by one at each position that stays.
LEMMA RankSteps ==
    ASSUME NEW n \in Nat, NEW P \in SUBSET (1..n)
    PROVE  /\ IsFiniteSet(P)
           /\ Rank(P, 0) = 0 /\ Rank(P, n) = Cardinality(P)
           /\ \A i \in 0..n : Rank(P, i) \in Nat
           /\ \A i \in 1..n : Rank(P, i) = IF i \in P THEN Rank(P, i - 1) + 1 ELSE Rank(P, i - 1)
           /\ \A i, j \in 0..n : i <= j => Rank(P, i) <= Rank(P, j)
  <1>0. \A j \in P : j \in 1..n /\ j \in Nat
    OBVIOUS
  <1>1. IsFiniteSet(P) /\ \A Q \in SUBSET P : IsFiniteSet(Q) /\ Cardinality(Q) \in Nat
    <2>1. IsFiniteSet(1..n)
      BY FS_Interval
    <2>2. IsFiniteSet(P)
      BY <2>1, FS_Subset
    <2> QED
      BY <2>2, FS_Subset, FS_CardinalityType
  <1> DEFINE Upto(i) == {j \in P : j <= i}
  <1>2. Upto(0) = {} /\ Upto(n) = P
    <2>1. \A j \in P : ~(j <= 0) /\ j <= n
      BY <1>0
    <2> QED
      BY <2>1, Zenon
  <1>3. Rank(P, 0) = 0 /\ Rank(P, n) = Cardinality(P)
    BY <1>2, FS_EmptySet DEF Rank
  <1>4. ASSUME NEW i \in 1..n
        PROVE  Rank(P, i) = IF i \in P THEN Rank(P, i - 1) + 1 ELSE Rank(P, i - 1)
    <2>1. CASE i \in P
      <3>1. Upto(i) = Upto(i - 1) \cup {i} /\ i \notin Upto(i - 1)
        <4>1. /\ \A j \in P : j <= i <=> j <= i - 1 \/ j = i
              /\ ~(i <= i - 1) /\ i <= i
          BY <1>0
        <4> QED
          BY <2>1, <4>1, Zenon
      <3>2. IsFiniteSet(Upto(i - 1))
        BY <1>1
      <3> HIDE DEF Upto
      <3>3. Cardinality(Upto(i)) = Cardinality(Upto(i - 1)) + 1
        BY <3>1, <3>2, FS_AddElement
      <3> QED
        BY <2>1, <3>3 DEF Upto, Rank
    <2>2. CASE i \notin P
      <3>1. Upto(i) = Upto(i - 1)
        <4>1. \A j \in P : j <= i <=> j <= i - 1
          BY <1>0, <2>2
        <4> QED
          BY <4>1, Zenon
      <3> QED
        BY <2>2, <3>1 DEF Rank
    <2> QED
      BY <2>1, <2>2
  <1>5. ASSUME NEW i \in 0..n, NEW j \in 0..n, i <= j PROVE Rank(P, i) <= Rank(P, j)
    <2>1. Upto(i) \subseteq Upto(j) /\ IsFiniteSet(Upto(j))
      <3>1. \A k \in P : k <= i => k <= j
        BY <1>0, <1>5
      <3>2. Upto(j) \in SUBSET P
        OBVIOUS
      <3> QED
        BY <1>1, <3>1, <3>2, Zenon
    <2> HIDE DEF Upto
    <2>2. Cardinality(Upto(i)) <= Cardinality(Upto(j))
      BY <2>1, FS_Subset
    <2> QED
      BY <2>2 DEF Upto, Rank
  <1>6. \A i \in 0..n : Rank(P, i) \in Nat
    BY <1>1 DEF Rank
  <1> QED
    BY <1>1, <1>3, <1>4, <1>5, <1>6

\* Every count up to the number of staying positions is the rank of exactly one.
LEMMA RankBijects ==
    ASSUME NEW n \in Nat, NEW P \in SUBSET (1..n)
    PROVE  /\ Cardinality(P) \in Nat
           /\ \A i \in P : Rank(P, i) \in 1..Cardinality(P)
           /\ \A i, j \in P : i < j => Rank(P, i) < Rank(P, j)
           /\ \A k \in 1..Cardinality(P) : \E i \in P : Rank(P, i) = k
  <1>0. \A j \in P : j \in 1..n /\ j \in Nat
    OBVIOUS
  <1>1. Cardinality(P) \in Nat
    BY RankSteps, FS_CardinalityType
  <1>2. ASSUME NEW i \in P, NEW j \in P, i < j PROVE Rank(P, i) < Rank(P, j)
    <2>1. j - 1 \in 0..n /\ i <= j - 1 /\ i \in 0..n /\ j \in 1..n
      BY <1>0, <1>2
    <2>2. Rank(P, i) <= Rank(P, j - 1) /\ Rank(P, j) = Rank(P, j - 1) + 1
      BY <2>1, RankSteps
    <2>3. Rank(P, i) \in Nat /\ Rank(P, j - 1) \in Nat
      BY <2>1, RankSteps
    <2> QED
      BY <2>2, <2>3
  <1>3. ASSUME NEW i \in P PROVE Rank(P, i) \in 1..Cardinality(P)
    <2>1. i \in 1..n /\ i \in 0..n /\ n \in 0..n /\ i - 1 \in 0..n /\ i <= n
      BY <1>0
    <2>2. Rank(P, i) = Rank(P, i - 1) + 1 /\ Rank(P, i - 1) \in Nat
      BY <2>1, RankSteps
    <2>3. Rank(P, i) <= Rank(P, n) /\ Rank(P, n) = Cardinality(P)
      BY <2>1, RankSteps
    <2> QED
      BY <2>2, <2>3, <1>1
  <1>4. ASSUME NEW k \in 1..Cardinality(P) PROVE \E i \in P : Rank(P, i) = k
    <2> DEFINE r == [i \in P |-> Rank(P, i)]
    <2>1. r \in Injection(P, 1..Cardinality(P))
      <3>1. r \in [P -> 1..Cardinality(P)]
        BY <1>3
      <3>2. ASSUME NEW i \in P, NEW j \in P, r[i] = r[j] PROVE i = j
        BY <1>0, <1>1, <1>2, <1>3, <3>2
      <3> QED
        BY <3>1, <3>2 DEF Injection, IsInjective
    <2>2. IsFiniteSet(1..Cardinality(P)) /\ Cardinality(1..Cardinality(P)) = Cardinality(P)
      BY <1>1, FS_Interval
    <2>3. r \in Surjection(P, 1..Cardinality(P))
      BY <2>1, <2>2, FS_Injection
    <2> QED
      BY <2>3 DEF Surjection
  <1> QED
    BY <1>1, <1>2, <1>3, <1>4

\* Removed keeps the other tokens, in their order.
LEMMA RemovedProperties ==
    ASSUME NEW S, NEW list \in Seq(S), NEW D
    PROVE  /\ Removed(list, D) \in Seq(S)
           /\ Len(Removed(list, D)) <= Len(list)
           /\ Elements(list) \cap D # {} => Len(Removed(list, D)) < Len(list)
           /\ Elements(Removed(list, D)) = Elements(list) \ D
           /\ \E f \in [1..Len(Removed(list, D)) -> 1..Len(list)] :
                 /\ \A k \in 1..Len(Removed(list, D)) : Removed(list, D)[k] = list[f[k]]
                 /\ \A k, m \in 1..Len(Removed(list, D)) : k < m => f[k] < f[m]
  <1> DEFINE n == Len(list)
             P == Staying(list, D)
             f == [k \in 1..Cardinality(P) |-> CHOOSE i \in P : Rank(P, i) = k]
             R == Removed(list, D)
  <1>1. n \in Nat /\ P \in SUBSET (1..n) /\ list \in [1..n -> S]
    BY LenProperties DEF Staying
  <1>2. R = [k \in 1..Cardinality(P) |-> list[CHOOSE i \in P : Rank(P, i) = k]]
    BY DEF Removed, Staying, Rank
  <1> HIDE DEF n, P, R
  <1>3. Cardinality(P) \in Nat
    BY <1>1, RankBijects
  <1>4. \A k \in 1..Cardinality(P) : f[k] \in P /\ Rank(P, f[k]) = k
    BY <1>1, RankBijects
  <1>5. \A k \in 1..Cardinality(P) : R[k] = list[f[k]]
    BY <1>2
  <1> HIDE DEF f
  <1>6. \A k \in 1..Cardinality(P) : f[k] \in 1..n
    BY <1>1, <1>4
  <1>7. R \in [1..Cardinality(P) -> S]
    BY <1>1, <1>2, <1>5, <1>6
  <1>8. R \in Seq(S) /\ Len(R) = Cardinality(P)
    BY <1>3, <1>7
  <1>9. Cardinality(P) <= n /\ (Elements(list) \cap D # {} => Cardinality(P) < n)
    <2>1. IsFiniteSet(1..n) /\ Cardinality(1..n) = n
      BY <1>1, FS_Interval
    <2>2. /\ Cardinality(P) <= Cardinality(1..n)
          /\ Cardinality(1..n) = Cardinality(P) => P = 1..n
      BY <1>1, <2>1, FS_Subset
    <2>3. Elements(list) \cap D # {} => P # 1..n
      BY DEF Elements, P, Staying, n
    <2> QED
      BY <1>1, <1>3, <2>1, <2>2, <2>3
  <1>10. ASSUME NEW k \in 1..Cardinality(P), NEW m \in 1..Cardinality(P), k < m
         PROVE  f[k] < f[m]
    <2>1. f[k] \in P /\ f[m] \in P /\ Rank(P, f[k]) = k /\ Rank(P, f[m]) = m
      BY <1>4
    <2>2. f[m] < f[k] => m < k
      BY <1>1, <2>1, RankBijects
    <2>3. f[k] # f[m] /\ f[k] \in Nat /\ f[m] \in Nat
      BY <2>1, <1>10, <1>6, <1>1
    <2> QED
      BY <1>3, <1>10, <2>2, <2>3
  <1>11. Elements(R) = Elements(list) \ D
    <2>1. ASSUME NEW x \in Elements(R) PROVE x \in Elements(list) \ D
      <3>1. PICK k \in 1..Cardinality(P) : x = R[k]
        BY <1>8, <2>1 DEF Elements
      <3> QED
        BY <1>4, <1>5, <1>6, <3>1 DEF Elements, P, Staying, n
    <2>2. ASSUME NEW x \in Elements(list) \ D PROVE x \in Elements(R)
      <3>1. PICK i \in P : x = list[i]
        BY <2>2 DEF Elements, P, Staying
      <3>2. Rank(P, i) \in 1..Cardinality(P)
        BY <1>1, RankBijects
      <3>3. PICK k \in 1..Cardinality(P) : k = Rank(P, i)
        BY <3>2
      <3>4. /\ f[k] \in P /\ Rank(P, f[k]) = Rank(P, i) /\ f[k] \in Nat
            /\ i \in P /\ i \in Nat
        BY <1>1, <1>4, <1>6, <3>3 DEF P, Staying
      <3>5. /\ f[k] < i => Rank(P, f[k]) < Rank(P, i)
            /\ i < f[k] => Rank(P, i) < Rank(P, f[k])
        BY <1>1, <3>4, RankBijects
      <3>6. f[k] = i
        BY <1>3, <3>2, <3>4, <3>5
      <3> QED
        BY <1>5, <1>8, <3>1, <3>6 DEF Elements
    <2> QED
      BY <2>1, <2>2
  <1>12. f \in [1..Cardinality(P) -> 1..n]
    BY <1>6 DEF f
  <1>13. /\ R \in Seq(S) /\ Len(R) <= n
         /\ Elements(list) \cap D # {} => Len(R) < n
         /\ Elements(R) = Elements(list) \ D
         /\ \E g \in [1..Len(R) -> 1..n] :
               /\ \A k \in 1..Len(R) : R[k] = list[g[k]]
               /\ \A k, m \in 1..Len(R) : k < m => g[k] < g[m]
    BY <1>5, <1>8, <1>9, <1>10, <1>11, <1>12
  <1> QED
    BY <1>13 DEF R, n

\* Every token of the list was used after the ones behind it.
Ordered(list, used) == \A i, j \in 1..Len(list) : i < j => list[i] \in used[list[j]]

Distinct(list) == \A i, j \in 1..Len(list) : list[i] = list[j] => i = j

\* A list without repetitions is as long as it has tokens.
LEMMA DistinctLength ==
    ASSUME NEW S, NEW list \in Seq(S), Distinct(list)
    PROVE  IsFiniteSet(Elements(list)) /\ Cardinality(Elements(list)) = Len(list)
  <1>1. Len(list) \in Nat /\ list \in [1..Len(list) -> S]
    BY LenProperties
  <1>2. list \in [1..Len(list) -> Elements(list)]
    BY <1>1 DEF Elements
  <1>3. list \in Bijection(1..Len(list), Elements(list))
    BY <1>2 DEF Bijection, Injection, Surjection, IsInjective, Distinct, Elements
  <1>4. ExistsBijection(1..Len(list), Elements(list))
    BY <1>3 DEF ExistsBijection
  <1>5. IsFiniteSet(1..Len(list)) /\ Cardinality(1..Len(list)) = Len(list)
    BY <1>1, FS_Interval
  <1> QED
    BY <1>4, <1>5, FS_Bijection

\* Removing tokens keeps the rest distinct and ordered.
LEMMA RemovedOrdered ==
    ASSUME NEW S, NEW list \in Seq(S), NEW D, NEW used, Distinct(list), Ordered(list, used)
    PROVE  Distinct(Removed(list, D)) /\ Ordered(Removed(list, D), used)
  <1> DEFINE R == Removed(list, D)
  <1>1. PICK f \in [1..Len(R) -> 1..Len(list)] :
          /\ \A k \in 1..Len(R) : R[k] = list[f[k]]
          /\ \A k, m \in 1..Len(R) : k < m => f[k] < f[m]
    BY RemovedProperties
  <1>2. Len(R) \in Nat /\ Len(list) \in Nat
    BY RemovedProperties, LenProperties
  <1> HIDE DEF R
  <1>3. ASSUME NEW k \in 1..Len(R), NEW m \in 1..Len(R), k < m
        PROVE  R[k] \in used[R[m]] /\ R[k] # R[m]
    <2>1. f[k] \in 1..Len(list) /\ f[m] \in 1..Len(list) /\ f[k] < f[m]
      BY <1>1, <1>3
    <2>2. list[f[k]] \in used[list[f[m]]] /\ list[f[k]] # list[f[m]]
      BY <1>2, <2>1 DEF Ordered, Distinct
    <2> QED
      BY <1>1, <2>2
  <1>4. Ordered(R, used)
    BY <1>3 DEF Ordered
  <1>5. Distinct(R)
    <2>1. ASSUME NEW k \in 1..Len(R), NEW m \in 1..Len(R), R[k] = R[m] PROVE k = m
      <3>1. ~(k < m) /\ ~(m < k)
        BY <1>3, <2>1
      <3> QED
        BY <1>2, <3>1
    <2> QED
      BY <2>1 DEF Distinct
  <1> QED
    BY <1>4, <1>5 DEF R

\* What a token's use does to the history.
Touched(t, used) == [u \in Tokens |-> IF u = t THEN {} ELSE used[u] \cup {t}]

\* A list without the token stays ordered when the token is used.
LEMMA TouchedOrdered ==
    ASSUME NEW list \in Seq(Tokens), NEW t \in Tokens, t \notin Elements(list),
           NEW used, Ordered(list, used)
    PROVE  Ordered(list, Touched(t, used))
  <1>1. \A j \in 1..Len(list) : list[j] \in Tokens /\ list[j] # t
    BY LenProperties DEF Elements
  <1> QED
    BY <1>1 DEF Ordered, Touched

\* A new token at the front.
LEMMA PushedFront ==
    ASSUME NEW list \in Seq(Tokens), NEW t \in Tokens, t \notin Elements(list),
           NEW used, Distinct(list), Ordered(list, used)
    PROVE  /\ <<t>> \o list \in Seq(Tokens)
           /\ Len(<<t>> \o list) = Len(list) + 1
           /\ (<<t>> \o list)[1] = t
           /\ \A i \in 1..Len(list) : (<<t>> \o list)[i + 1] = list[i]
           /\ Elements(<<t>> \o list) = Elements(list) \cup {t}
           /\ Distinct(<<t>> \o list)
           /\ Ordered(<<t>> \o list, Touched(t, used))
  <1> DEFINE R == <<t>> \o list
  <1>1. /\ R \in Seq(Tokens) /\ Len(R) = Len(list) + 1 /\ R[1] = t /\ Len(list) \in Nat
        /\ \A i \in 1..Len(list) : R[i + 1] = list[i]
    BY LenProperties
  <1>2. \A i \in 1..Len(list) : list[i] \in Tokens /\ list[i] # t
    BY LenProperties DEF Elements
  <1> HIDE DEF R
  <1>3. \A i \in 1..Len(R) : i = 1 \/ (i - 1 \in 1..Len(list) /\ R[i] = list[i - 1])
    <2>1. ASSUME NEW i \in 1..Len(R), i # 1 PROVE i - 1 \in 1..Len(list) /\ R[i] = list[i - 1]
      <3>1. i - 1 \in 1..Len(list) /\ (i - 1) + 1 = i
        BY <1>1, <2>1
      <3> QED
        BY <1>1, <3>1
    <2> QED
      BY <2>1
  <1>4. Elements(R) = Elements(list) \cup {t}
    <2>1. ASSUME NEW x \in Elements(R) PROVE x \in Elements(list) \cup {t}
      BY <1>1, <1>3, <2>1 DEF Elements
    <2>2. t \in Elements(R)
      BY <1>1 DEF Elements
    <2>3. ASSUME NEW i \in 1..Len(list) PROVE list[i] \in Elements(R)
      <3>1. i + 1 \in 1..Len(R) /\ R[i + 1] = list[i]
        BY <1>1
      <3> QED
        BY <3>1 DEF Elements
    <2> QED
      BY <2>1, <2>2, <2>3 DEF Elements
  <1>5. ASSUME NEW i \in 1..Len(R), NEW j \in 1..Len(R), i < j
        PROVE  R[i] # R[j] /\ R[i] \in Touched(t, used)[R[j]]
    <2>1. j - 1 \in 1..Len(list) /\ R[j] = list[j - 1]
      BY <1>1, <1>3, <1>5
    <2>2. R[j] \in Tokens /\ R[j] # t /\ Touched(t, used)[R[j]] = used[R[j]] \cup {t}
      BY <1>2, <2>1 DEF Touched
    <2>3. CASE i = 1
      BY <1>1, <2>2, <2>3
    <2>4. CASE i # 1
      <3>1. i - 1 \in 1..Len(list) /\ R[i] = list[i - 1]
        BY <1>3, <2>4
      <3>2. i - 1 < j - 1 /\ i - 1 # j - 1
        BY <1>1, <1>5
      <3>3. list[i - 1] \in used[list[j - 1]] /\ list[i - 1] # list[j - 1]
        BY <2>1, <3>1, <3>2 DEF Ordered, Distinct
      <3> QED
        BY <2>1, <2>2, <3>1, <3>3
    <2> QED
      BY <2>3, <2>4
  <1>6. Ordered(R, Touched(t, used))
    BY <1>5 DEF Ordered
  <1>7. Distinct(R)
    <2>1. ASSUME NEW i \in 1..Len(R), NEW j \in 1..Len(R), R[i] = R[j] PROVE i = j
      <3>1. ~(i < j) /\ ~(j < i)
        BY <1>5, <2>1
      <3> QED
        BY <1>1, <3>1
    <2> QED
      BY <2>1 DEF Distinct
  <1> QED
    BY <1>1, <1>4, <1>6, <1>7 DEF R

\* A token moved to the front.
LEMMA MovedToFront ==
    ASSUME NEW list \in Seq(Tokens), NEW t \in Elements(list), t \in Tokens,
           NEW used, Distinct(list), Ordered(list, used)
    PROVE  /\ MoveToFront(t, list) \in Seq(Tokens)
           /\ Len(MoveToFront(t, list)) <= Len(list)
           /\ Elements(MoveToFront(t, list)) = Elements(list)
           /\ Distinct(MoveToFront(t, list))
           /\ Ordered(MoveToFront(t, list), Touched(t, used))
  <1> DEFINE R == Removed(list, {t})
  <1>1. /\ R \in Seq(Tokens) /\ Len(R) < Len(list) /\ Elements(R) = Elements(list) \ {t}
    BY RemovedProperties
  <1>2. Distinct(R) /\ Ordered(R, used)
    BY RemovedOrdered
  <1>3. Len(R) \in Nat /\ Len(list) \in Nat
    BY <1>1, LenProperties
  <1> HIDE DEF R
  <1>4. /\ <<t>> \o R \in Seq(Tokens) /\ Len(<<t>> \o R) = Len(R) + 1
        /\ Elements(<<t>> \o R) = Elements(R) \cup {t}
        /\ Distinct(<<t>> \o R) /\ Ordered(<<t>> \o R, Touched(t, used))
    BY <1>1, <1>2, PushedFront
  <1>5. MoveToFront(t, list) = <<t>> \o R
    BY DEF MoveToFront, R
  <1>6. Elements(<<t>> \o R) = Elements(list)
    BY <1>1, <1>4, Zenon
  <1>7. Len(<<t>> \o R) <= Len(list)
    BY <1>1, <1>3, <1>4
  <1> QED
    BY <1>4, <1>5, <1>6, <1>7

\* The shard's size cap is at least one.
LEMMA PerShardType == PerShard \in Nat /\ PerShard >= 1
  <1>1. MaxSize \div NumShards \in Int
    BY SizeAssumption
  <1> QED
    BY <1>1 DEF PerShard

\* What is left when a list is cut at the cap.
LEMMA Dropped ==
    ASSUME NEW S, NEW list \in Seq(S), NEW used, Distinct(list), Ordered(list, used)
    PROVE  /\ DropFromBack(list) \in Seq(S)
           /\ Len(DropFromBack(list)) = IF Len(list) > PerShard THEN PerShard ELSE Len(list)
           /\ \A i \in 1..Len(DropFromBack(list)) : i \in 1..Len(list) /\ DropFromBack(list)[i] = list[i]
           /\ Distinct(DropFromBack(list)) /\ Ordered(DropFromBack(list), used)
  <1> DEFINE R == DropFromBack(list)
  <1>0. Len(list) \in Nat /\ PerShard \in Nat /\ PerShard >= 1
    BY LenProperties, PerShardType
  <1>1. /\ R \in Seq(S) /\ Len(R) = IF Len(list) > PerShard THEN PerShard ELSE Len(list)
        /\ \A i \in 1..Len(R) : R[i] = list[i]
    BY <1>0 DEF DropFromBack
  <1> HIDE DEF R
  <1>2. \A i \in 1..Len(R) : i \in 1..Len(list)
    BY <1>0, <1>1
  <1>3. Distinct(R) /\ Ordered(R, used)
    BY <1>1, <1>2 DEF Distinct, Ordered
  <1> QED
    BY <1>1, <1>2, <1>3 DEF R

-----------------------------------------------------------------------------
\* Every step keeps the lists lists of tokens.
LEMMA ListTypes ==
    ASSUME TypeOK, [Next]_vars
    PROVE  ll' \in [Shards -> Seq(Tokens)] /\ since' \in [Tokens -> SUBSET Tokens]
  <1>0. /\ ll \in [Shards -> Seq(Tokens)] /\ since \in [Tokens -> SUBSET Tokens]
        /\ shardOf \in [Tokens -> Shards] /\ janitor \in JanitorStates
    BY DEF TypeOK
  <1>1. ASSUME NEW s \in Shards, NEW D PROVE Removed(ll[s], D) \in Seq(Tokens)
    BY <1>0, RemovedProperties
  <1>2. ASSUME NEW t \in Tokens, NEW e, NEW time, Touch(t, e, time)
        PROVE  since' \in [Tokens -> SUBSET Tokens]
    BY <1>0, <1>2 DEF Touch
  <1>3. ASSUME NEW s \in Shards, NEW D, RemoveElements(s, D)
        PROVE  ll' \in [Shards -> Seq(Tokens)]
    BY <1>0, <1>1, <1>3 DEF RemoveElements
  <1>4. ASSUME NEW t \in Tokens PROVE MoveToFront(t, ll[shardOf[t]]) \in Seq(Tokens)
    <2>1. Removed(ll[shardOf[t]], {t}) \in Seq(Tokens)
      BY <1>0, <1>1
    <2> QED
      BY <2>1 DEF MoveToFront
  <1>5. ASSUME NEW t \in Tokens PROVE DropFromBack(<<t>> \o ll[shardOf[t]]) \in Seq(Tokens)
    <2>1. <<t>> \o ll[shardOf[t]] \in Seq(Tokens)
      BY <1>0
    <2> QED
      BY <2>1, PerShardType DEF DropFromBack
  <1>6. ASSUME NEW t \in Tokens, NEW e \in Entries, PutExisting(t, e)
        PROVE  ll' \in [Shards -> Seq(Tokens)] /\ since' \in [Tokens -> SUBSET Tokens]
    BY <1>0, <1>2, <1>4, <1>6 DEF PutExisting
  <1>7. ASSUME NEW t \in Tokens, NEW e \in Entries, PutNew(t, e)
        PROVE  ll' \in [Shards -> Seq(Tokens)] /\ since' \in [Tokens -> SUBSET Tokens]
    BY <1>0, <1>2, <1>5, <1>7 DEF PutNew
  <1>8. ASSUME NEW t \in Tokens, GetHit(t)
        PROVE  ll' \in [Shards -> Seq(Tokens)] /\ since' \in [Tokens -> SUBSET Tokens]
    <2>1. since' \in [Tokens -> SUBSET Tokens]
      BY <1>2, <1>8 DEF GetHit
    <2>2. ll' = [ll EXCEPT ![shardOf[t]] = MoveToFront(t, ll[shardOf[t]])]
      BY <1>8 DEF GetHit
    <2> QED
      BY <1>0, <1>4, <2>1, <2>2
  <1>9. ASSUME NEW t \in Tokens, GetExpired(t) \/ Delete(t)
        PROVE  ll' \in [Shards -> Seq(Tokens)] /\ since' \in [Tokens -> SUBSET Tokens]
    BY <1>0, <1>3, <1>9 DEF GetExpired, Delete
  <1>10. CASE JanitorSweeps
    <2>1. janitor.shard \in Shards
      BY <1>0, <1>10 DEF JanitorSweeps, JanitorStates
    <2> QED
      BY <1>0, <1>3, <1>10, <2>1 DEF JanitorSweeps
  <1>11. CASE \/ \E t \in Tokens : GetAbsent(t)
              \/ ClockAdvances \/ TickerFires \/ Close \/ JanitorWakes \/ JanitorStops
              \/ UNCHANGED vars
    BY <1>0, <1>11
    DEF GetAbsent, ClockAdvances, TickerFires, Close, JanitorWakes, JanitorStops, vars
  <1> QED
    BY <1>6, <1>7, <1>8, <1>9, <1>10, <1>11 DEF Next, Put, Get, Janitor

LEMMA InitInv == Init => Inv
  <1> SUFFICES ASSUME Init PROVE Inv
    OBVIOUS
  <1>1. Select \in JanitorStates
    BY DEF Select, JanitorStates
  <1>2. now \in Times /\ tick \in Times \cup {None}
    BY TimeAssumption DEF Init, Times
  <1>8. closed \in BOOLEAN
    BY Zenon DEF Init
  <1>3. items \in [Shards -> [Tokens -> Items \cup {None}]]
    BY DEF Init
  <1>4. event \in Events
    BY DEF Init, NoEvent, Event, Events
  <1>5. granted \in [Tokens -> Grants \cup {None}] /\ shardOf \in [Tokens -> Shards]
    BY DEF Init
  <1>9. ll \in [Shards -> Seq(Tokens)] /\ since \in [Tokens -> SUBSET Tokens]
    BY DEF Init
  <1>6. TypeOK
    BY <1>1, <1>2, <1>3, <1>4, <1>5, <1>8, <1>9, Zenon DEF Init, TypeOK
  <1>7. MapMatchesHistory
    BY DEF Init, MapMatchesHistory
  <1> QED
    BY <1>6, <1>7 DEF Inv

\* Taking tokens out of a map keeps it typed and in step with the history.
LEMMA RemovalKeepsInv ==
    ASSUME Inv, NEW s \in Shards, NEW D \in SUBSET Tokens, RemoveElements(s, D),
           UNCHANGED <<shardOf, granted>>
    PROVE  /\ items' \in [Shards -> [Tokens -> Items \cup {None}]]
           /\ MapMatchesHistory'
  <1>1. items' = [items EXCEPT ![s] = [t \in Tokens |-> IF t \in D THEN None ELSE items[s][t]]]
    BY DEF RemoveElements
  <1>2. items \in [Shards -> [Tokens -> Items \cup {None}]]
    BY DEF Inv, TypeOK
  <1>3. items' \in [Shards -> [Tokens -> Items \cup {None}]]
    BY <1>1, <1>2
  <1>4. \A r \in Shards, t \in Tokens : items'[r][t] # None => items'[r][t] = items[r][t]
    BY <1>1, <1>2
  <1> QED
    BY <1>3, <1>4 DEF Inv, MapMatchesHistory

\* One token gets an item for e that lives TTL from the given time.
LEMMA StoringKeepsInv ==
    ASSUME Inv, NEW t \in Tokens, NEW e \in Entries, NEW time \in Times,
           items' \in [Shards -> [Tokens -> Items \cup {None}]],
           items'[shardOf[t]][t] = Item(e, time + TTL),
           \A r \in Shards, u \in Tokens : r # shardOf[t] \/ u # t =>
               items'[r][u] = items[r][u] \/ items'[r][u] = None,
           granted' = [granted EXCEPT ![t] = [entry |-> e, at |-> time]],
           UNCHANGED shardOf
    PROVE  MapMatchesHistory' /\ granted' \in [Tokens -> Grants \cup {None}]
  <1>1. granted \in [Tokens -> Grants \cup {None}] /\ shardOf \in [Tokens -> Shards]
    BY DEF Inv, TypeOK
  <1>2. [entry |-> e, at |-> time] \in Grants
    BY DEF Grants
  <1>3. granted' \in [Tokens -> Grants \cup {None}]
    BY <1>1, <1>2
  <1>4. ASSUME NEW r \in Shards, NEW u \in Tokens, items'[r][u] # None
        PROVE  /\ shardOf'[u] = r /\ granted'[u] # None
               /\ items'[r][u].entry = granted'[u].entry
               /\ items'[r][u].expiresAt = granted'[u].at + TTL
    <2>1. CASE r = shardOf[t] /\ u = t
      BY <2>1, <1>1, <1>2, NoneAssumption DEF Item
    <2>2. CASE u = t /\ r # shardOf[t]
      BY <2>2, <1>1, <1>4 DEF Inv, MapMatchesHistory
    <2>3. CASE u # t
      BY <2>3, <1>1, <1>4 DEF Inv, MapMatchesHistory
    <2> QED
      BY <2>1, <2>2, <2>3
  <1> QED
    BY <1>3, <1>4 DEF MapMatchesHistory

\* Every item the cache stores has the type of an item.
LEMMA ItemType ==
    ASSUME NEW e \in Entries, NEW time \in Times
    PROVE  Item(e, time + TTL) \in Items
  BY TimeAssumption DEF Item, Items, Times

\* Every step of the cache keeps the invariant.
LEMMA StepInv == Inv /\ [Next]_vars => Inv'
  <1> SUFFICES ASSUME Inv, [Next]_vars PROVE Inv'
    OBVIOUS
  <1> USE DEF Inv
  <1>0. /\ now \in Times /\ shardOf \in [Tokens -> Shards]
        /\ items \in [Shards -> [Tokens -> Items \cup {None}]]
        /\ granted \in [Tokens -> Grants \cup {None}]
        /\ janitor \in JanitorStates /\ tick \in Times \cup {None}
    BY DEF TypeOK
  <1>r. /\ NoEvent \in Events
        /\ \A t \in Tokens, e \in Entries \cup {None} :
              \A op \in {"put", "get", "delete"} : Event(op, t, e) \in Events
    BY DEF NoEvent, Event, Events
  <1>l. ll' \in [Shards -> Seq(Tokens)] /\ since' \in [Tokens -> SUBSET Tokens]
    BY ListTypes
  <1>1. ASSUME NEW t \in Tokens, NEW e \in Entries, PutExisting(t, e) PROVE Inv'
    <2>1. items' = [items EXCEPT ![shardOf[t]][t] = Item(e, now + TTL)]
      BY <1>1 DEF PutExisting, Renewed
    <2>2. items' \in [Shards -> [Tokens -> Items \cup {None}]]
      BY <2>1, <1>0, ItemType
    <2>3. granted' = [granted EXCEPT ![t] = [entry |-> e, at |-> now]] /\ UNCHANGED shardOf
      BY <1>1 DEF PutExisting, Touch
    <2>4. MapMatchesHistory' /\ granted' \in [Tokens -> Grants \cup {None}]
      BY <2>1, <2>2, <2>3, <1>0, StoringKeepsInv
    <2> QED
      BY <2>2, <2>4, <1>1, <1>r, <1>l DEF PutExisting, TypeOK
  <1>2. ASSUME NEW t \in Tokens, NEW e \in Entries, PutNew(t, e) PROVE Inv'
    <2>1. PICK K : items' = [items EXCEPT ![shardOf[t]] =
                      [u \in Tokens |-> IF u = t THEN Item(e, now + TTL)
                          ELSE IF u \in K THEN items[shardOf[t]][u] ELSE None]]
      BY <1>2 DEF PutNew
    <2>2. items' \in [Shards -> [Tokens -> Items \cup {None}]]
      BY <2>1, <1>0, ItemType
    <2>3. granted' = [granted EXCEPT ![t] = [entry |-> e, at |-> now]] /\ UNCHANGED shardOf
      BY <1>2 DEF PutNew, Touch
    <2>4. /\ items'[shardOf[t]][t] = Item(e, now + TTL)
          /\ \A r \in Shards, u \in Tokens : r # shardOf[t] \/ u # t =>
                items'[r][u] = items[r][u] \/ items'[r][u] = None
      BY <2>1, <1>0
    <2>5. MapMatchesHistory' /\ granted' \in [Tokens -> Grants \cup {None}]
      BY <2>2, <2>3, <2>4, <1>0, StoringKeepsInv
    <2> QED
      BY <2>2, <2>5, <1>2, <1>r, <1>l DEF PutNew, TypeOK
  <1>3. ASSUME NEW t \in Tokens, GetHit(t) PROVE Inv'
    <2> DEFINE s == shardOf[t]
               e == items[s][t].entry
    <2>1. s \in Shards /\ items[s][t] \in Items /\ e \in Entries
      BY <1>3, <1>0 DEF GetHit, Keys, Items
    <2>2. PICK later \in now..MaxTime :
            /\ now' = later
            /\ items' = [items EXCEPT ![s][t] = Item(e, later + TTL)]
            /\ granted' = [granted EXCEPT ![t] = [entry |-> e, at |-> later]]
      BY <1>3 DEF GetHit, Touch
    <2>3. later \in Times
      BY <1>0, TimeAssumption DEF Times
    <2>4. /\ items'[s][t] = Item(e, later + TTL)
          /\ \A r \in Shards, u \in Tokens : r # s \/ u # t => items'[r][u] = items[r][u]
      BY <2>1, <2>2, <1>0
    <2>5. items' \in [Shards -> [Tokens -> Items \cup {None}]]
      BY <2>1, <2>2, <2>3, <1>0, ItemType
    <2>6. UNCHANGED <<shardOf, tick, janitor, closed>> /\ event' = Event("get", t, e)
      BY <1>3 DEF GetHit
    <2>7. MapMatchesHistory' /\ granted' \in [Tokens -> Grants \cup {None}]
      BY <2>1, <2>2, <2>3, <2>4, <2>5, <2>6, <1>0, StoringKeepsInv
    <2>8. event' \in Events
      BY <2>1, <2>6, <1>r
    <2> QED
      BY <2>2, <2>3, <2>5, <2>6, <2>7, <2>8, <1>l DEF TypeOK
  <1>4. ASSUME NEW t \in Tokens, GetExpired(t) PROVE Inv'
    BY <1>4, <1>0, <1>r, RemovalKeepsInv, <1>l DEF GetExpired, TypeOK
  <1>5. ASSUME NEW t \in Tokens, GetAbsent(t) PROVE Inv'
    BY <1>5, <1>r, <1>l DEF GetAbsent, TypeOK, MapMatchesHistory
  <1>6. ASSUME NEW t \in Tokens, Delete(t) PROVE Inv'
    <2> DEFINE s == shardOf[t]
    <2>1. items' = [items EXCEPT ![s] = [u \in Tokens |->
                      IF u \in {t} \cap Keys(s) THEN None ELSE items[s][u]]]
      BY <1>6 DEF Delete, RemoveElements
    <2>2. items' \in [Shards -> [Tokens -> Items \cup {None}]]
      BY <2>1, <1>0
    <2>3. granted' = [granted EXCEPT ![t] = None] /\ UNCHANGED <<now, shardOf, tick, janitor, closed>>
      BY <1>6 DEF Delete
    <2>4. items'[s][t] = None
      BY <2>1, <1>0 DEF Keys
    <2>5. \A r \in Shards, u \in Tokens : items'[r][u] # None => items'[r][u] = items[r][u] /\ u # t
      BY <2>1, <2>4, <1>0 DEF MapMatchesHistory
    <2>6. MapMatchesHistory'
      BY <2>3, <2>5, <1>0 DEF MapMatchesHistory
    <2> QED
      BY <2>2, <2>3, <2>6, <1>6, <1>0, <1>r, <1>l DEF Delete, TypeOK
  <1>7. CASE ClockAdvances
    BY <1>7, <1>0, <1>r, TimeAssumption, <1>l DEF ClockAdvances, TypeOK, Times, MapMatchesHistory
  <1>8. CASE TickerFires
    BY <1>8, <1>0, <1>r, <1>l DEF TickerFires, TypeOK, MapMatchesHistory
  <1>9. CASE JanitorWakes
    <2>1. janitor' \in JanitorStates
      BY <1>9, <1>0, SizeAssumption DEF JanitorWakes, JanitorStates, Shards
    <2> QED
      BY <2>1, <1>9, <1>0, <1>r, <1>l DEF JanitorWakes, TypeOK, MapMatchesHistory
  <1>10. CASE JanitorSweeps
    <2>1. janitor.shard \in Shards /\ janitor.time \in Times
      BY <1>10, <1>0 DEF JanitorSweeps, JanitorStates
    <2>2. janitor' \in JanitorStates
      BY <1>10, <1>0, <2>1, SizeAssumption
      DEF JanitorSweeps, JanitorStates, AfterSweep, Select, Shards
    <2>3. /\ items' \in [Shards -> [Tokens -> Items \cup {None}]]
          /\ MapMatchesHistory'
      <3> DEFINE D == {t \in Keys(janitor.shard) :
                          Expired(items[janitor.shard][t], janitor.time)}
      <3>1. D \in SUBSET Tokens
        BY DEF Keys
      <3>2. RemoveElements(janitor.shard, D) /\ UNCHANGED <<shardOf, granted>>
        BY <1>10 DEF JanitorSweeps
      <3> QED
        BY <3>1, <3>2, <2>1, RemovalKeepsInv
    <2> QED
      BY <2>2, <2>3, <1>10, <1>r, <1>l DEF JanitorSweeps, TypeOK
  <1>11. CASE Close
    <2>1. closed' \in BOOLEAN
      BY <1>11, Zenon DEF Close
    <2> QED
      BY <2>1, <1>11, <1>0, <1>r, <1>l DEF Close, TypeOK, MapMatchesHistory
  <1>12. CASE JanitorStops
    <2>1. janitor' \in JanitorStates
      BY <1>12, <1>0 DEF JanitorStops, JanitorStates
    <2> QED
      BY <2>1, <1>12, <1>0, <1>r, <1>l DEF JanitorStops, TypeOK, MapMatchesHistory
  <1>13. CASE UNCHANGED vars
    BY <1>13, <1>l DEF vars, TypeOK, MapMatchesHistory
  <1> QED
    BY <1>1, <1>2, <1>3, <1>4, <1>5, <1>6, <1>7, <1>8, <1>9, <1>10, <1>11, <1>12, <1>13
    DEF Next, Put, Get, Janitor

\* The invariant holds throughout.
LEMMA Invariance == Spec => []Inv
  <1>1. Init => Inv
    BY InitInv
  <1>2. Inv /\ [Next]_vars => Inv'
    BY StepInv
  <1> QED
    BY <1>1, <1>2, PTL DEF Spec
-----------------------------------------------------------------------------
(* The cache is type correct: maps hold well-formed items, the janitor's     *)
(* sweep stays within the shards, replies name known tokens and entries.     *)
THEOREM TypeCorrect == Spec => []TypeOK
  <1>1. Inv => TypeOK
    BY DEF Inv
  <1> QED
    BY <1>1, Invariance, PTL

(* No Get of cache.go ever answers with a deleted token, an outdated entry   *)
(* or a token unused for more than TTL.                                      *)
THEOREM HitsCurrent == Spec => HitsAreCurrent
  <1> DEFINE P == \A t \in Tokens, e \in Entries : event' = Event("get", t, e) =>
                     /\ granted[t] # None
                     /\ granted[t].entry = e
                     /\ now <= granted[t].at + TTL
  <1>1. Inv /\ Next => P
    <2> SUFFICES ASSUME Inv, Next, NEW t \in Tokens, NEW e \in Entries, event' = Event("get", t, e)
                 PROVE  granted[t] # None /\ granted[t].entry = e /\ now <= granted[t].at + TTL
      OBVIOUS
    <2>1. /\ e # None /\ event' # NoEvent
          /\ \A u \in Tokens : /\ event' # Event("get", u, None)
                              /\ event' # Event("delete", u, None)
                              /\ \A f \in Entries : event' # Event("put", u, f)
      BY NoneAssumption DEF Event, NoEvent
    <2>2. PICK u \in Tokens : GetHit(u)
      BY <2>1 DEF Next, Put, PutExisting, PutNew, Get, GetExpired, GetAbsent, Delete,
         ClockAdvances, TickerFires, Close, Janitor, JanitorWakes, JanitorSweeps, JanitorStops
    <2> DEFINE s == shardOf[u]
    <2>3. event' = Event("get", u, items[s][u].entry) /\ items[s][u] # None /\ ~(now > items[s][u].expiresAt)
      BY <2>2 DEF GetHit, Keys, Expired
    <2>4. u = t /\ items[s][u].entry = e
      BY <2>3 DEF Event
    <2>5. s \in Shards /\ items[s][u] \in Items /\ now \in Times
      BY <2>3 DEF Inv, TypeOK
    <2>6. /\ granted[u] # None /\ items[s][u].entry = granted[u].entry
          /\ items[s][u].expiresAt = granted[u].at + TTL
      BY <2>3, <2>5 DEF Inv, MapMatchesHistory
    <2>7. items[s][u].expiresAt \in Int /\ now \in Int
      BY <2>5, TimeAssumption DEF Items, Times
    <2> QED
      BY <2>3, <2>4, <2>6, <2>7
  <1>2. Inv /\ [Next]_vars => [P]_vars
    BY <1>1
  <1> QED
    BY <1>2, Invariance, PTL DEF Spec, HitsAreCurrent
-----------------------------------------------------------------------------
\* What callers see after one token was stored and others may have been evicted.
LEMMA StoringRefines ==
    ASSUME Inv, NEW t \in Tokens, NEW e \in Entries, NEW time \in Times,
           items'[shardOf[t]][t] = Item(e, time + TTL),
           \A u \in Tokens : u # t =>
               \/ items'[shardOf[u]][u] = items[shardOf[u]][u]
               \/ items'[shardOf[u]][u] = None,
           UNCHANGED shardOf
    PROVE  \E D \in SUBSET (Tokens \ {t}) :
               Visible' = Store!Without(Store!With(Visible, t, e), D)
  <1> DEFINE D == {u \in Tokens \ {t} : items'[shardOf[u]][u] = None}
             W == Store!With(Visible, t, e)
  <1>1. Item(e, time + TTL) # None /\ Item(e, time + TTL).entry = e
    BY ItemType, NoneAssumption DEF Item
  <1>2. Visible' = [u \in Tokens |-> IF items'[shardOf[u]][u] = None THEN None
                                    ELSE items'[shardOf[u]][u].entry]
    BY DEF Visible
  <1>3. W = [u \in Tokens |-> IF u = t THEN e ELSE Visible[u]]
    BY DEF Store!With, Visible
  <1>4. Store!Without(W, D) = [u \in Tokens |-> IF u \in D THEN None ELSE W[u]]
    BY DEF Store!Without
  <1>5. ASSUME NEW u \in Tokens PROVE Visible'[u] = Store!Without(W, D)[u]
    <2>1. CASE u = t
      BY <2>1, <1>1, <1>2, <1>3, <1>4
    <2>2. CASE u \in D
      BY <2>2, <1>2, <1>4
    <2>3. CASE u # t /\ u \notin D
      <3>1. items'[shardOf[u]][u] = items[shardOf[u]][u] /\ items'[shardOf[u]][u] # None
        BY <2>3
      <3>2. W[u] = Visible[u]
        BY <1>3, <2>3
      <3> QED
        BY <3>1, <3>2, <2>3, <1>2, <1>4 DEF Visible
    <2> QED
      BY <2>1, <2>2, <2>3
  <1>6. Visible' = Store!Without(W, D)
    BY <1>2, <1>4, <1>5
  <1> QED
    BY <1>6

\* What callers see after tokens were taken out of one shard.
LEMMA RemovalRefines ==
    ASSUME Inv, NEW s \in Shards, NEW D \in SUBSET Tokens, RemoveElements(s, D),
           \A t \in D : shardOf[t] = s, UNCHANGED shardOf
    PROVE  Visible' = Store!Without(Visible, D)
  <1>1. items' = [items EXCEPT ![s] = [t \in Tokens |-> IF t \in D THEN None ELSE items[s][t]]]
    BY DEF RemoveElements
  <1>2. items \in [Shards -> [Tokens -> Items \cup {None}]] /\ shardOf \in [Tokens -> Shards]
    BY DEF Inv, TypeOK
  <1>3. ASSUME NEW u \in Tokens
        PROVE  items'[shardOf[u]][u] = IF u \in D THEN None ELSE items[shardOf[u]][u]
    BY <1>1, <1>2
  <1> QED
    BY <1>3 DEF Visible, Store!Without

\* Every step of the cache is a step the contract allows.
LEMMA StepRefines == Inv /\ [Next]_vars => [Store!Next]_<<Visible, event>>
  <1> SUFFICES ASSUME Inv, [Next]_vars PROVE [Store!Next]_<<Visible, event>>
    OBVIOUS
  <1>0. /\ now \in Times /\ shardOf \in [Tokens -> Shards]
        /\ items \in [Shards -> [Tokens -> Items \cup {None}]]
        /\ janitor \in JanitorStates
    BY DEF Inv, TypeOK
  <1>r. NoEvent = Store!NoEvent /\ \A op, t, e : Event(op, t, e) = Store!Event(op, t, e)
    BY DEF NoEvent, Event, Store!NoEvent, Store!Event
  <1>n. Visible = Store!Without(Visible, {})
    BY DEF Visible, Store!Without
  <1>1. ASSUME NEW t \in Tokens, NEW e \in Entries, PutExisting(t, e) PROVE Store!Put(t, e)
    <2>1. items' = [items EXCEPT ![shardOf[t]][t] = Item(e, now + TTL)] /\ UNCHANGED shardOf
      BY <1>1 DEF PutExisting, Renewed
    <2>2. /\ items'[shardOf[t]][t] = Item(e, now + TTL)
          /\ \A u \in Tokens : u # t =>
                \/ items'[shardOf[u]][u] = items[shardOf[u]][u]
                \/ items'[shardOf[u]][u] = None
      BY <2>1, <1>0
    <2>3. event' = Store!Event("put", t, e)
      BY <1>1, <1>r DEF PutExisting
    <2>4. \E D \in SUBSET (Tokens \ {t}) :
            Visible' = Store!Without(Store!With(Visible, t, e), D)
      BY <2>1, <2>2, <1>0, StoringRefines
    <2> QED
      BY <2>3, <2>4 DEF Store!Put
  <1>2. ASSUME NEW t \in Tokens, NEW e \in Entries, PutNew(t, e) PROVE Store!Put(t, e)
    <2>1. PICK K : items' = [items EXCEPT ![shardOf[t]] =
                      [u \in Tokens |-> IF u = t THEN Item(e, now + TTL)
                          ELSE IF u \in K THEN items[shardOf[t]][u] ELSE None]]
      BY <1>2 DEF PutNew
    <2>2. /\ items'[shardOf[t]][t] = Item(e, now + TTL)
          /\ \A u \in Tokens : u # t =>
                \/ items'[shardOf[u]][u] = items[shardOf[u]][u]
                \/ items'[shardOf[u]][u] = None
      BY <2>1, <1>0
    <2>3. event' = Store!Event("put", t, e) /\ UNCHANGED shardOf
      BY <1>2, <1>r DEF PutNew
    <2> QED
      BY <2>2, <2>3, <1>0, StoringRefines DEF Store!Put
  <1>3. ASSUME NEW t \in Tokens, GetHit(t) PROVE Store!Hit(t)
    <2> DEFINE s == shardOf[t]
               e == items[s][t].entry
    <2>1. s \in Shards /\ items[s][t] \in Items /\ e \in Entries
      BY <1>3, <1>0 DEF GetHit, Keys, Items
    <2>2. PICK later \in now..MaxTime : items' = [items EXCEPT ![s][t] = Item(e, later + TTL)]
      BY <1>3 DEF GetHit
    <2>3. later \in Times
      BY <1>0, TimeAssumption DEF Times
    <2>4. Item(e, later + TTL) # None /\ Item(e, later + TTL).entry = e
      BY <2>1, <2>3, ItemType, NoneAssumption DEF Item
    <2>5. items[s][t] # None /\ e # None /\ Visible[t] = e
      BY <2>1, NoneAssumption DEF Visible
    <2>6. UNCHANGED shardOf /\ event' = Store!Event("get", t, e)
      BY <1>3, <1>r DEF GetHit
    <2>7. ASSUME NEW u \in Tokens
          PROVE  (IF items'[shardOf[u]][u] = None THEN None ELSE items'[shardOf[u]][u].entry)
                 = (IF items[shardOf[u]][u] = None THEN None ELSE items[shardOf[u]][u].entry)
      <3>1. CASE u = t
        BY <3>1, <2>1, <2>2, <2>4, <2>5, <1>0
      <3>2. CASE u # t
        BY <3>2, <2>2, <1>0
      <3> QED
        BY <3>1, <3>2
    <2>8. Visible' = Visible
      BY <2>6, <2>7 DEF Visible
    <2> QED
      BY <2>5, <2>6, <2>8 DEF Store!Hit
  <1>4. ASSUME NEW t \in Tokens, GetExpired(t) PROVE Store!Miss(t)
    <2>1. RemoveElements(shardOf[t], {t}) /\ UNCHANGED shardOf /\ event' = Store!Event("get", t, None)
      BY <1>4, <1>r DEF GetExpired
    <2> QED
      BY <2>1, <1>0, RemovalRefines DEF Store!Miss
  <1>5. ASSUME NEW t \in Tokens, GetAbsent(t) PROVE Store!Miss(t)
    <2>1. UNCHANGED <<items, shardOf>> /\ event' = Store!Event("get", t, None) /\ items[shardOf[t]][t] = None
      BY <1>5, <1>r DEF GetAbsent, Keys
    <2>2. Visible' = Store!Without(Visible, {t})
      BY <2>1 DEF Visible, Store!Without
    <2> QED
      BY <2>1, <2>2 DEF Store!Miss
  <1>6. ASSUME NEW t \in Tokens, Delete(t) PROVE Store!Delete(t)
    <2> DEFINE D == {t} \cap Keys(shardOf[t])
    <2>1. /\ RemoveElements(shardOf[t], D) /\ UNCHANGED shardOf
          /\ event' = Store!Event("delete", t, None)
      BY <1>6, <1>r DEF Delete
    <2>0. shardOf[t] \in Shards /\ D \in SUBSET Tokens /\ \A u \in D : shardOf[u] = shardOf[t]
      BY <1>0
    <2>2. Visible' = Store!Without(Visible, D)
      BY <2>0, <2>1, RemovalRefines
    <2>3. Store!Without(Visible, D) = Store!Without(Visible, {t})
      BY DEF Visible, Store!Without, Keys
    <2> QED
      BY <2>1, <2>2, <2>3 DEF Store!Delete
  <1>7. CASE JanitorSweeps
    <2> DEFINE s == janitor.shard
               D == {t \in Keys(s) : Expired(items[s][t], janitor.time)}
    <2>1. s \in Shards /\ D \in SUBSET Tokens
      BY <1>7, <1>0 DEF JanitorSweeps, JanitorStates, Keys
    <2>2. \A t \in D : shardOf[t] = s
      BY <2>1 DEF Inv, MapMatchesHistory, Keys
    <2>3. RemoveElements(s, D) /\ UNCHANGED shardOf /\ event' = Store!NoEvent
      BY <1>7, <1>r DEF JanitorSweeps
    <2>4. Visible' = Store!Without(Visible, D)
      BY <2>1, <2>2, <2>3, RemovalRefines
    <2>5. Store!Forget
      BY <2>1, <2>3, <2>4 DEF Store!Forget
    <2> QED
      BY <2>5 DEF Store!Next
  <1>8. CASE ClockAdvances \/ TickerFires \/ Close \/ JanitorWakes \/ JanitorStops
    <2>1. UNCHANGED <<items, shardOf>> /\ event' = Store!NoEvent
      BY <1>8, <1>r DEF ClockAdvances, TickerFires, Close, JanitorWakes, JanitorStops
    <2>2. Visible' = Store!Without(Visible, {})
      BY <2>1, <1>n DEF Visible
    <2>3. Store!Forget
      BY <2>1, <2>2 DEF Store!Forget
    <2> QED
      BY <2>3 DEF Store!Next
  <1>9. CASE UNCHANGED vars
    BY <1>9 DEF vars, Visible
  <1> QED
    BY <1>1, <1>2, <1>3, <1>4, <1>5, <1>6, <1>7, <1>8, <1>9
    DEF Next, Put, Get, Janitor, Store!Next

(* The sharded cache implements the contract of TokenStore: through hashing, *)
(* expiry, LRU eviction and sweeping, a caller sees the last entry put or    *)
(* nothing.                                                                  *)
THEOREM Implementation == Spec => ImplementsStore
  <1>1. Init => Store!Init
    BY DEF Init, Store!Init, Visible, Store!EmptyStore, NoEvent, Event, Store!NoEvent, Store!Event
  <1>2. Inv /\ [Next]_vars => [Store!Next]_<<Visible, event>>
    BY StepRefines
  <1> QED
    BY <1>1, <1>2, Invariance, PTL DEF Spec, ImplementsStore, Store!Spec
-----------------------------------------------------------------------------
(* The clock never runs behind a time the janitor holds.                     *)
TicksArePast == janitor.time <= now /\ (tick # None => tick <= now)

(* A shard's list holds the tokens of its map, each once and at most         *)
(* PerShard, the ones nearer to the front used after those behind them.      *)
ListOK(s) ==
    /\ Distinct(ll[s])
    /\ Elements(ll[s]) = Keys(s)
    /\ Len(ll[s]) <= PerShard
    /\ Ordered(ll[s], since)

(* A token that was put, not deleted and is gone has expired, or PerShard    *)
(* others of its shard have been used since.                                 *)
GoneForCause(t) ==
    granted[t] # None /\ items[shardOf[t]][t] = None =>
        \/ now > granted[t].at + TTL
        \/ Cardinality(SinceInShard(t)) >= PerShard

Retention ==
    /\ TicksArePast
    /\ \A s \in Shards : ListOK(s)
    /\ \A t \in Tokens : IsFiniteSet(since[t]) /\ GoneForCause(t)

LEMMA InitRetention == Init => Retention
  <1> SUFFICES ASSUME Init PROVE Retention
    OBVIOUS
  <1>1. TicksArePast
    BY DEF Init, TicksArePast, Select
  <1>2. ASSUME NEW s \in Shards PROVE ListOK(s)
    <2>1. ll[s] = <<>> /\ Keys(s) = {}
      BY DEF Init, Keys
    <2>2. Len(<<>>) = 0 /\ Elements(<<>>) = {}
      BY DEF Elements
    <2> QED
      BY <2>1, <2>2, PerShardType DEF ListOK, Distinct, Ordered
  <1>3. ASSUME NEW t \in Tokens PROVE IsFiniteSet(since[t]) /\ GoneForCause(t)
    BY FS_EmptySet DEF Init, GoneForCause
  <1> QED
    BY <1>1, <1>2, <1>3 DEF Retention

\* Removing tokens keeps the lists in order and in step with the maps.
LEMMA RemovalLists ==
    ASSUME Inv, Retention, NEW s \in Shards, NEW D, RemoveElements(s, D), UNCHANGED since
    PROVE  \A r \in Shards : ListOK(r)'
  <1>0. /\ ll \in [Shards -> Seq(Tokens)]
        /\ items \in [Shards -> [Tokens -> Items \cup {None}]]
    BY DEF Inv, TypeOK
  <1>1. /\ ll' = [ll EXCEPT ![s] = Removed(ll[s], D)]
        /\ items' = [items EXCEPT ![s] = [t \in Tokens |-> IF t \in D THEN None ELSE items[s][t]]]
    BY DEF RemoveElements
  <1>2. ASSUME NEW r \in Shards, r # s PROVE ListOK(r)'
    <2>1. ll'[r] = ll[r] /\ items'[r] = items[r]
      BY <1>0, <1>1, <1>2
    <2> QED
      BY <2>1 DEF Retention, ListOK, Keys
  <1>3. ListOK(s)'
    <2>1. ll'[s] = Removed(ll[s], D) /\ Keys(s)' = Keys(s) \ D
      BY <1>0, <1>1 DEF Keys
    <2>2. /\ ll[s] \in Seq(Tokens) /\ Distinct(ll[s]) /\ Elements(ll[s]) = Keys(s)
          /\ Len(ll[s]) <= PerShard /\ Ordered(ll[s], since)
      BY <1>0 DEF Retention, ListOK
    <2>3. Distinct(ll'[s]) /\ Ordered(ll'[s], since)
      BY <2>1, <2>2, RemovedOrdered
    <2>4. /\ Elements(ll'[s]) = Elements(ll[s]) \ D /\ Len(ll'[s]) <= Len(ll[s])
          /\ ll'[s] \in Seq(Tokens)
      BY <2>1, <2>2, RemovedProperties
    <2>5. Len(ll'[s]) <= PerShard
      BY <2>2, <2>4, LenProperties, PerShardType
    <2>6. Elements(ll'[s]) = Keys(s)'
      BY <2>1, <2>2, <2>4
    <2> QED
      BY <2>3, <2>5, <2>6 DEF ListOK
  <1> QED
    BY <1>2, <1>3

\* The use of a token changes the order of its own shard's list only.
LEMMA UseLists ==
    ASSUME Inv, Retention, NEW t \in Tokens, NEW s \in Shards, s = shardOf[t],
           since' = Touched(t, since), NEW new,
           ll' = [ll EXCEPT ![s] = new],
           \A r \in Shards : r # s => Keys(r)' = Keys(r),
           Distinct(new), Elements(new) = Keys(s)', Len(new) <= PerShard,
           Ordered(new, Touched(t, since))
    PROVE  \A r \in Shards : ListOK(r)'
  <1>0. ll \in [Shards -> Seq(Tokens)]
    BY DEF Inv, TypeOK
  <1>1. ListOK(s)'
    BY <1>0 DEF ListOK
  <1>2. ASSUME NEW r \in Shards, r # s PROVE ListOK(r)'
    <2>1. ll'[r] = ll[r] /\ Keys(r)' = Keys(r) /\ ll[r] \in Seq(Tokens)
      BY <1>0, <1>2
    <2>2. t \notin Elements(ll[r])
      BY <1>2 DEF Retention, ListOK, Inv, MapMatchesHistory, Keys
    <2>3. Ordered(ll[r], Touched(t, since))
      BY <2>1, <2>2, TouchedOrdered DEF Retention, ListOK
    <2> QED
      BY <2>1, <2>3 DEF Retention, ListOK
  <1> QED
    BY <1>1, <1>2

\* A token's use leaves the history of each token finite.
LEMMA UseFinite ==
    ASSUME Retention, NEW t \in Tokens, since' = Touched(t, since), NEW u \in Tokens
    PROVE  IsFiniteSet(since'[u]) /\ (u # t => since[u] \subseteq since'[u] /\ t \in since'[u])
  <1>1. since'[u] = IF u = t THEN {} ELSE since[u] \cup {t}
    BY DEF Touched
  <1>2. IsFiniteSet({}) /\ IsFiniteSet(since[u]) /\ IsFiniteSet(since[u] \cup {t})
    BY FS_EmptySet, FS_AddElement DEF Retention
  <1> QED
    BY <1>1, <1>2

\* A token gone for cause stays so until it is put again.
LEMMA StaysGone ==
    ASSUME Inv, Inv', NEW u \in Tokens, GoneForCause(u), IsFiniteSet(since'[u]),
           since[u] \subseteq since'[u], UNCHANGED shardOf, now <= now',
           granted'[u] = granted[u],
           items'[shardOf[u]][u] = None => items[shardOf[u]][u] = None
    PROVE  GoneForCause(u)'
  <1>1. SUFFICES ASSUME granted'[u] # None, items'[shardOf[u]][u] = None
                 PROVE  \/ now' > granted[u].at + TTL
                        \/ Cardinality(SinceInShard(u)') >= PerShard
    BY DEF GoneForCause
  <1>2. CASE now > granted[u].at + TTL
    <2>1. now \in Nat /\ now' \in Nat /\ granted[u].at + TTL \in Int
      <3>1. granted[u].at \in Times /\ now \in Times /\ now' \in Times
        BY <1>1 DEF Inv, TypeOK, Grants
      <3> QED
        BY <3>1, TimeAssumption DEF Times
    <2> QED
      BY <1>2, <2>1
  <1>3. CASE Cardinality(SinceInShard(u)) >= PerShard
    <2>1. SinceInShard(u) \subseteq SinceInShard(u)' /\ SinceInShard(u)' \subseteq since'[u]
      BY DEF SinceInShard
    <2>2. IsFiniteSet(SinceInShard(u)')
      BY <2>1, FS_Subset
    <2>3. /\ IsFiniteSet(SinceInShard(u))
          /\ Cardinality(SinceInShard(u)) <= Cardinality(SinceInShard(u)')
      BY <2>1, <2>2, FS_Subset
    <2>4. Cardinality(SinceInShard(u)) \in Nat /\ Cardinality(SinceInShard(u)') \in Nat
      BY <2>2, <2>3, FS_CardinalityType
    <2> QED
      BY <1>3, <2>3, <2>4, PerShardType
  <1> QED
    BY <1>1, <1>2, <1>3 DEF GoneForCause

\* Where nothing is used, put or deleted, a token goes only when it has expired.
LEMMA QuietGone ==
    ASSUME Inv, Inv', Retention, UNCHANGED <<shardOf, since, granted>>, now <= now',
           \A u \in Tokens : items'[shardOf[u]][u] # items[shardOf[u]][u] =>
               now > items[shardOf[u]][u].expiresAt
    PROVE  \A u \in Tokens : IsFiniteSet(since[u])' /\ GoneForCause(u)'
  <1> SUFFICES ASSUME NEW u \in Tokens PROVE IsFiniteSet(since[u])' /\ GoneForCause(u)'
    OBVIOUS
  <1>1. CASE items'[shardOf[u]][u] = items[shardOf[u]][u] \/ items[shardOf[u]][u] = None
    BY <1>1, StaysGone DEF Retention
  <1>2. CASE items'[shardOf[u]][u] # items[shardOf[u]][u] /\ items[shardOf[u]][u] # None
    <2>1. shardOf[u] \in Shards
      BY DEF Inv, TypeOK
    <2>2. items[shardOf[u]][u].expiresAt = granted[u].at + TTL /\ granted[u] # None
      BY <1>2, <2>1 DEF Inv, MapMatchesHistory
    <2>3. granted[u].at \in Times /\ now \in Times /\ now' \in Times
      BY <2>2 DEF Inv, TypeOK, Grants
    <2>4. now > granted[u].at + TTL
      BY <1>2, <2>2
    <2>5. now' > granted[u].at + TTL
      BY <2>3, <2>4, TimeAssumption DEF Times
    <2> QED
      BY <2>5 DEF Retention, GoneForCause
  <1> QED
    BY <1>1, <1>2

\* Every step keeps the clock ahead of the janitor.
LEMMA TicksStep ==
    ASSUME Inv, TicksArePast, [Next]_vars
    PROVE  TicksArePast' /\ now <= now'
  <1>0. /\ now \in Times /\ tick \in Times \cup {None} /\ janitor \in JanitorStates
    BY DEF Inv, TypeOK
  <1>1. /\ now \in Nat /\ (tick # None => tick \in Nat) /\ janitor.time \in Nat
    BY <1>0, TimeAssumption DEF Times, JanitorStates
  <1>2. ASSUME UNCHANGED <<tick, janitor>>, now' \in Nat, now <= now'
        PROVE  TicksArePast' /\ now <= now'
    BY <1>1, <1>2 DEF TicksArePast
  <1>3. ASSUME NEW t \in Tokens, GetHit(t) PROVE TicksArePast' /\ now <= now'
    <2>1. now' \in now..MaxTime /\ UNCHANGED <<tick, janitor>>
      BY <1>3 DEF GetHit
    <2> QED
      BY <1>1, <1>2, <2>1, TimeAssumption
  <1>4. CASE ClockAdvances
    BY <1>1, <1>2, <1>4 DEF ClockAdvances
  <1>5. CASE \/ \E t \in Tokens, e \in Entries : Put(t, e)
             \/ \E t \in Tokens : GetExpired(t) \/ GetAbsent(t) \/ Delete(t)
             \/ Close \/ UNCHANGED vars
    <2>1. UNCHANGED <<now, tick, janitor>>
      BY <1>5 DEF Put, PutExisting, PutNew, GetExpired, GetAbsent, Delete, Close, vars
    <2> QED
      BY <1>1, <1>2, <2>1
  <1>6. CASE TickerFires
    BY <1>1, <1>6 DEF TickerFires, TicksArePast
  <1>7. CASE JanitorWakes
    BY <1>1, <1>7 DEF JanitorWakes, TicksArePast
  <1>8. CASE JanitorSweeps
    <2>1. janitor'.time = 0 \/ janitor'.time = janitor.time
      BY <1>0, <1>8 DEF JanitorSweeps, AfterSweep, Select, JanitorStates
    <2> QED
      BY <1>1, <1>8, <2>1 DEF JanitorSweeps, TicksArePast
  <1>9. CASE JanitorStops
    <2>1. janitor'.time = janitor.time
      BY <1>0, <1>9 DEF JanitorStops, JanitorStates
    <2> QED
      BY <1>1, <1>9, <2>1 DEF JanitorStops, TicksArePast
  <1> QED
    BY <1>3, <1>4, <1>5, <1>6, <1>7, <1>8, <1>9 DEF Next, Get, Janitor

\* A Put of a held token, or a hit.
LEMMA MovedRetention ==
    ASSUME Inv, Inv', Retention, TicksArePast', now <= now',
           NEW t \in Tokens, NEW s \in Shards, s = shardOf[t], t \in Keys(s),
           ll' = [ll EXCEPT ![s] = MoveToFront(t, ll[s])],
           NEW it \in Items, items' = [items EXCEPT ![s][t] = it],
           since' = Touched(t, since), UNCHANGED shardOf,
           \A u \in Tokens : u # t => granted'[u] = granted[u]
    PROVE  Retention'
  <1>0. /\ ll \in [Shards -> Seq(Tokens)]
        /\ items \in [Shards -> [Tokens -> Items \cup {None}]]
        /\ shardOf \in [Tokens -> Shards]
    BY DEF Inv, TypeOK
  <1>1. /\ items'[s][t] = it /\ it # None
        /\ \A r \in Shards, u \in Tokens : r # s \/ u # t => items'[r][u] = items[r][u]
    BY <1>0, NoneAssumption
  <1>2. \A r \in Shards : Keys(r)' = Keys(r)
    BY <1>1 DEF Keys
  <1>3. /\ ll[s] \in Seq(Tokens) /\ Distinct(ll[s]) /\ Elements(ll[s]) = Keys(s)
        /\ Len(ll[s]) <= PerShard /\ Ordered(ll[s], since)
    BY <1>0 DEF Retention, ListOK
  <1>4. PICK new : new = MoveToFront(t, ll[s])
    OBVIOUS
  <1>5. /\ new \in Seq(Tokens) /\ Len(new) <= Len(ll[s]) /\ Elements(new) = Elements(ll[s])
        /\ Distinct(new) /\ Ordered(new, Touched(t, since))
    BY <1>3, <1>4, MovedToFront
  <1>6. Len(new) <= PerShard
    BY <1>3, <1>5, LenProperties, PerShardType
  <1>7. \A r \in Shards : ListOK(r)'
    BY <1>2, <1>3, <1>4, <1>5, <1>6, UseLists
  <1>8. ASSUME NEW u \in Tokens PROVE IsFiniteSet(since[u])' /\ GoneForCause(u)'
    <2>1. IsFiniteSet(since'[u]) /\ (u # t => since[u] \subseteq since'[u])
      BY UseFinite
    <2>2. CASE u = t
      BY <1>1, <2>1, <2>2 DEF GoneForCause
    <2>3. CASE u # t
      <3>1. items'[shardOf[u]][u] = items[shardOf[u]][u]
        BY <1>0, <1>1, <2>3
      <3> QED
        BY <2>1, <2>3, <3>1, StaysGone DEF Retention
    <2> QED
      BY <2>2, <2>3
  <1> QED
    BY <1>7, <1>8 DEF Retention

\* What the list of a shard becomes when a new token is put.
Kept(t, s) == DropFromBack(<<t>> \o ll[s])

LEMMA NewList ==
    ASSUME Inv, Retention, NEW t \in Tokens, NEW s \in Shards, t \notin Keys(s)
    PROVE  /\ Kept(t, s) \in Seq(Tokens) /\ Distinct(Kept(t, s)) /\ Len(Kept(t, s)) <= PerShard
           /\ Ordered(Kept(t, s), Touched(t, since))
           /\ t \in Elements(Kept(t, s)) /\ Elements(Kept(t, s)) \subseteq Keys(s) \cup {t}
           /\ \A u \in Keys(s) \ Elements(Kept(t, s)) :
                 /\ Len(Kept(t, s)) = PerShard /\ Elements(Kept(t, s)) \subseteq Touched(t, since)[u]
                 /\ Len(ll[s]) = PerShard /\ ll[s][PerShard] = u
  <1> DEFINE full == <<t>> \o ll[s]
             kept == Kept(t, s)
  <1>1. /\ ll[s] \in Seq(Tokens) /\ Distinct(ll[s]) /\ Elements(ll[s]) = Keys(s)
        /\ Len(ll[s]) <= PerShard /\ Ordered(ll[s], since)
    BY DEF Retention, ListOK, Inv, TypeOK
  <1>2. Len(ll[s]) \in Nat /\ PerShard \in Nat /\ PerShard >= 1
    BY <1>1, LenProperties, PerShardType
  <1>3. /\ full \in Seq(Tokens) /\ Len(full) = Len(ll[s]) + 1 /\ full[1] = t
        /\ \A i \in 1..Len(ll[s]) : full[i + 1] = ll[s][i]
        /\ Elements(full) = Elements(ll[s]) \cup {t}
        /\ Distinct(full) /\ Ordered(full, Touched(t, since))
    BY <1>1, PushedFront
  <1> HIDE DEF full
  <1>4. /\ kept \in Seq(Tokens)
        /\ Len(kept) = IF Len(full) > PerShard THEN PerShard ELSE Len(full)
        /\ \A i \in 1..Len(kept) : i \in 1..Len(full) /\ kept[i] = full[i]
        /\ Distinct(kept) /\ Ordered(kept, Touched(t, since))
    <2>1. kept = DropFromBack(full)
      BY DEF Kept, full
    <2> QED
      BY <1>3, <2>1, Dropped
  <1> HIDE DEF kept
  <1>5. Len(kept) \in Nat /\ Len(kept) <= PerShard /\ Len(kept) >= 1
    BY <1>2, <1>3, <1>4
  <1>6. t \in Elements(kept)
    BY <1>3, <1>4, <1>5 DEF Elements
  <1>7. Elements(kept) \subseteq Keys(s) \cup {t}
    <2>1. Elements(kept) \subseteq Elements(full)
      BY <1>4 DEF Elements
    <2> QED
      BY <1>1, <1>3, <2>1
  <1>8. ASSUME NEW u \in Keys(s), u \notin Elements(kept)
        PROVE  /\ Len(kept) = PerShard /\ Elements(kept) \subseteq Touched(t, since)[u]
               /\ Len(ll[s]) = PerShard /\ ll[s][PerShard] = u
    <2>1. PICK i \in 1..Len(ll[s]) : u = ll[s][i]
      BY <1>1 DEF Elements
    <2>2. i + 1 \in 1..Len(full) /\ full[i + 1] = u
      BY <1>2, <1>3, <2>1
    <2>3. i + 1 \notin 1..Len(kept)
      BY <1>4, <1>8, <2>2 DEF Elements
    <2>4. Len(kept) = PerShard /\ i = PerShard /\ Len(ll[s]) = PerShard
      BY <1>1, <1>2, <1>3, <1>4, <2>2, <2>3
    <2>5. ASSUME NEW k \in 1..Len(kept) PROVE kept[k] \in Touched(t, since)[u]
      <3>1. k \in 1..Len(full) /\ k < i + 1 /\ kept[k] = full[k]
        BY <1>2, <1>4, <2>4
      <3> QED
        BY <1>3, <2>2, <3>1 DEF Ordered
    <2> QED
      BY <2>1, <2>4, <2>5 DEF Elements
  <1> QED
    BY <1>4, <1>5, <1>6, <1>7, <1>8 DEF kept

\* A Put of a token that the shard does not hold.
LEMMA PutNewRetention ==
    ASSUME Inv, Inv', Retention, TicksArePast', now <= now',
           NEW t \in Tokens, NEW e \in Entries, PutNew(t, e)
    PROVE  Retention'
  <1>0. /\ ll \in [Shards -> Seq(Tokens)]
        /\ items \in [Shards -> [Tokens -> Items \cup {None}]]
        /\ shardOf \in [Tokens -> Shards] /\ granted \in [Tokens -> Grants \cup {None}]
        /\ now \in Times
    BY DEF Inv, TypeOK
  <1>1. PICK s \in Shards : s = shardOf[t]
    BY <1>0
  <1>2. PICK kept : kept = Kept(t, s)
    OBVIOUS
  <1>4. /\ t \notin Keys(s) /\ UNCHANGED shardOf
        /\ ll' = [ll EXCEPT ![s] = kept]
        /\ items' = [items EXCEPT ![s] =
              [u \in Tokens |-> IF u = t THEN Item(e, now + TTL)
                                ELSE IF u \in Elements(kept) THEN items[s][u] ELSE None]]
        /\ granted' = [granted EXCEPT ![t] = [entry |-> e, at |-> now]]
        /\ since' = Touched(t, since)
    BY <1>1, <1>2 DEF PutNew, Touch, Touched, Kept
  <1>5. /\ kept \in Seq(Tokens) /\ Distinct(kept) /\ Len(kept) <= PerShard
        /\ Ordered(kept, Touched(t, since))
        /\ t \in Elements(kept) /\ Elements(kept) \subseteq Keys(s) \cup {t}
        /\ \A u \in Keys(s) \ Elements(kept) :
              /\ Len(kept) = PerShard /\ Elements(kept) \subseteq Touched(t, since)[u]
              /\ Len(ll[s]) = PerShard /\ ll[s][PerShard] = u
    <2>1. t \notin Keys(s)
      BY <1>4
    <2> QED
      BY <1>2, <2>1, NewList
  <1>6. Item(e, now + TTL) # None
    BY <1>0, ItemType, NoneAssumption
  <1>7. \A u \in Tokens : items'[s][u] = IF u = t THEN Item(e, now + TTL)
                             ELSE IF u \in Elements(kept) THEN items[s][u] ELSE None
    BY <1>0, <1>4
  <1>8. Keys(s)' = Elements(kept)
    <2>1. Keys(s)' = {u \in Tokens : items'[s][u] # None}
      BY DEF Keys
    <2>2. ASSUME NEW u \in Tokens PROVE items'[s][u] # None <=> u \in Elements(kept)
      BY <1>5, <1>6, <1>7 DEF Keys
    <2>3. Elements(kept) \subseteq Tokens
      BY <1>5 DEF Keys
    <2> QED
      BY <2>1, <2>2, <2>3
  <1>9. \A r \in Shards : r # s => items'[r] = items[r] /\ Keys(r)' = Keys(r)
    BY <1>0, <1>4 DEF Keys
  <1>10. \A r \in Shards : ListOK(r)'
    BY <1>1, <1>4, <1>5, <1>8, <1>9, UseLists
  <1>11. ASSUME NEW u \in Tokens PROVE IsFiniteSet(since[u])' /\ GoneForCause(u)'
    <2>1. IsFiniteSet(since'[u]) /\ (u # t => since[u] \subseteq since'[u])
      BY <1>4, UseFinite
    <2>2. CASE u = t
      BY <1>1, <1>4, <1>6, <1>7, <2>1, <2>2 DEF GoneForCause
    <2>3. CASE u # t /\ (shardOf[u] # s \/ u \notin Keys(s) \/ u \in Elements(kept))
      <3>1. items'[shardOf[u]][u] = None => items[shardOf[u]][u] = None
        BY <1>0, <1>7, <1>9, <2>3 DEF Keys
      <3>2. granted'[u] = granted[u]
        BY <1>0, <1>4, <2>3
      <3> QED
        BY <1>4, <2>1, <2>3, <3>1, <3>2, StaysGone DEF Retention
    <2>4. CASE u # t /\ shardOf[u] = s /\ u \in Keys(s) \ Elements(kept)
      <3>1. Len(kept) = PerShard /\ Elements(kept) \subseteq since'[u]
        BY <1>4, <1>5, <2>4
      <3>2. \A v \in Elements(kept) : shardOf[v] = s
        BY <1>1, <1>5 DEF Inv, MapMatchesHistory, Keys
      <3>3. Elements(kept) \subseteq SinceInShard(u)' /\ SinceInShard(u)' \subseteq since'[u]
        BY <1>4, <2>4, <3>1, <3>2 DEF SinceInShard
      <3>4. IsFiniteSet(SinceInShard(u)')
        BY <2>1, <3>3, FS_Subset
      <3>5. Cardinality(Elements(kept)) = PerShard
        BY <1>5, <3>1, DistinctLength
      <3>6. Cardinality(Elements(kept)) <= Cardinality(SinceInShard(u)')
        BY <3>3, <3>4, FS_Subset
      <3>7. Cardinality(SinceInShard(u)') \in Nat
        BY <3>4, FS_CardinalityType
      <3>8. Cardinality(SinceInShard(u)') >= PerShard
        BY <3>5, <3>6, <3>7, PerShardType
      <3> QED
        BY <2>1, <3>8 DEF GoneForCause
    <2> QED
      BY <2>2, <2>3, <2>4
  <1> QED
    BY <1>10, <1>11 DEF Retention

\* Every step keeps what retention rests on.
LEMMA StepRetention == Inv /\ Inv' /\ Retention /\ [Next]_vars => Retention'
  <1> SUFFICES ASSUME Inv, Inv', Retention, [Next]_vars PROVE Retention'
    OBVIOUS
  <1>0. /\ shardOf \in [Tokens -> Shards] /\ now \in Times
        /\ items \in [Shards -> [Tokens -> Items \cup {None}]]
        /\ granted \in [Tokens -> Grants \cup {None}] /\ janitor \in JanitorStates
    BY DEF Inv, TypeOK
  <1>1. TicksArePast' /\ now <= now'
    BY TicksStep DEF Retention
  <1>2. ASSUME NEW s \in Shards, NEW D, RemoveElements(s, D),
               UNCHANGED <<since, shardOf, granted>>,
               \A u \in Tokens \cap D : items[s][u] # None => now > items[s][u].expiresAt
        PROVE  Retention'
    <2>1. \A r \in Shards : ListOK(r)'
      BY <1>2, RemovalLists
    <2>2. items' = [items EXCEPT ![s] = [t \in Tokens |-> IF t \in D THEN None ELSE items[s][t]]]
      BY <1>2 DEF RemoveElements
    <2>3. ASSUME NEW u \in Tokens, items'[shardOf[u]][u] # items[shardOf[u]][u]
          PROVE  now > items[shardOf[u]][u].expiresAt
      <3>1. shardOf[u] = s /\ u \in D /\ items[s][u] # None
        BY <1>0, <2>2, <2>3
      <3> QED
        BY <1>2, <3>1
    <2> QED
      BY <1>1, <1>2, <2>1, <2>3, QuietGone DEF Retention
  <1>3. ASSUME NEW t \in Tokens, NEW e \in Entries, PutExisting(t, e) PROVE Retention'
    <2>1. PICK s \in Shards : s = shardOf[t]
      BY <1>0
    <2>2. PICK it \in Items : it = Item(e, now + TTL)
      BY <1>0, ItemType
    <2>3. /\ t \in Keys(s) /\ UNCHANGED shardOf
          /\ items' = [items EXCEPT ![s][t] = it]
          /\ ll' = [ll EXCEPT ![s] = MoveToFront(t, ll[s])]
          /\ since' = Touched(t, since)
          /\ granted' = [granted EXCEPT ![t] = [entry |-> e, at |-> now]]
      BY <1>3, <2>1, <2>2 DEF PutExisting, Renewed, Touch, Touched
    <2>4. \A u \in Tokens : u # t => granted'[u] = granted[u]
      BY <1>0, <2>3
    <2> QED
      BY <1>1, <2>1, <2>3, <2>4, MovedRetention
  <1>4. ASSUME NEW t \in Tokens, NEW e \in Entries, PutNew(t, e) PROVE Retention'
    BY <1>1, <1>4, PutNewRetention
  <1>5. ASSUME NEW t \in Tokens, GetHit(t) PROVE Retention'
    <2>1. PICK s \in Shards : s = shardOf[t]
      BY <1>0
    <2>2. t \in Keys(s)
      BY <1>5, <2>1 DEF GetHit
    <2>3. PICK later \in now..MaxTime :
            /\ items' = [items EXCEPT ![s][t] = Item(items[s][t].entry, later + TTL)]
            /\ Touch(t, items[s][t].entry, later)
      BY <1>5, <2>1 DEF GetHit
    <2>4. later \in Times /\ items[s][t].entry \in Entries
      BY <1>0, <2>2, TimeAssumption DEF Times, Keys, Items
    <2>5. PICK it \in Items : it = Item(items[s][t].entry, later + TTL)
      BY <2>4, ItemType
    <2>6. /\ UNCHANGED shardOf
          /\ ll' = [ll EXCEPT ![s] = MoveToFront(t, ll[s])]
      BY <1>5, <2>1 DEF GetHit
    <2>7. since' = Touched(t, since) /\ \A u \in Tokens : u # t => granted'[u] = granted[u]
      BY <1>0, <2>3 DEF Touch, Touched
    <2> QED
      BY <1>1, <2>1, <2>2, <2>3, <2>5, <2>6, <2>7, MovedRetention
  <1>6. ASSUME NEW t \in Tokens, GetExpired(t) PROVE Retention'
    <2>1. PICK s \in Shards : s = shardOf[t]
      BY <1>0
    <2>2. /\ RemoveElements(s, {t}) /\ UNCHANGED <<since, shardOf, granted>>
          /\ now > items[s][t].expiresAt
      BY <1>6, <2>1 DEF GetExpired, Expired
    <2> QED
      BY <1>2, <2>1, <2>2
  <1>7. ASSUME NEW t \in Tokens, Delete(t) PROVE Retention'
    <2>1. PICK s \in Shards : s = shardOf[t]
      BY <1>0
    <2>2. PICK D : D = {t} \cap Keys(s)
      OBVIOUS
    <2>3. /\ RemoveElements(s, D) /\ UNCHANGED <<since, shardOf>>
          /\ granted' = [granted EXCEPT ![t] = None]
      BY <1>7, <2>1, <2>2 DEF Delete
    <2>4. \A r \in Shards : ListOK(r)'
      BY <2>3, RemovalLists
    <2>5. ASSUME NEW u \in Tokens PROVE IsFiniteSet(since[u])' /\ GoneForCause(u)'
      <3>1. CASE u = t
        BY <1>0, <2>3, <3>1 DEF Retention, GoneForCause
      <3>2. CASE u # t
        <4>1. items'[shardOf[u]][u] = items[shardOf[u]][u] /\ granted'[u] = granted[u]
          BY <1>0, <2>2, <2>3, <3>2 DEF RemoveElements
        <4> QED
          BY <1>1, <2>3, <4>1, StaysGone DEF Retention
      <3> QED
        BY <3>1, <3>2
    <2> QED
      BY <1>1, <2>4, <2>5 DEF Retention
  <1>8. CASE JanitorSweeps
    <2>1. PICK s \in Shards : s = janitor.shard
      BY <1>0, <1>8 DEF JanitorSweeps, JanitorStates
    <2>2. PICK D : D = {t \in Keys(s) : Expired(items[s][t], janitor.time)}
      OBVIOUS
    <2>3. RemoveElements(s, D) /\ UNCHANGED <<since, shardOf, granted>>
      BY <1>8, <2>1, <2>2 DEF JanitorSweeps
    <2>4. ASSUME NEW u \in Tokens \cap D, items[s][u] # None
          PROVE  now > items[s][u].expiresAt
      <3>1. janitor.time > items[s][u].expiresAt /\ janitor.time <= now
        BY <2>2, <2>4 DEF Expired, Retention, TicksArePast
      <3>2. items[s][u].expiresAt \in Int /\ now \in Int /\ janitor.time \in Int
        BY <1>0, <1>8, <2>4, TimeAssumption DEF Items, Times, JanitorStates, JanitorSweeps
      <3> QED
        BY <3>1, <3>2
    <2> QED
      BY <1>2, <2>3, <2>4
  <1>9. CASE \/ \E t \in Tokens : GetAbsent(t)
             \/ ClockAdvances \/ TickerFires \/ Close \/ JanitorWakes \/ JanitorStops
             \/ UNCHANGED vars
    <2>1. UNCHANGED <<items, ll, shardOf, since, granted>>
      BY <1>9 DEF GetAbsent, ClockAdvances, TickerFires, Close, JanitorWakes, JanitorStops, vars
    <2>2. \A r \in Shards : ListOK(r)'
      BY <2>1 DEF Retention, ListOK, Keys
    <2>3. \A u \in Tokens : IsFiniteSet(since[u])' /\ GoneForCause(u)'
      BY <1>1, <2>1, QuietGone
    <2> QED
      BY <1>1, <2>2, <2>3 DEF Retention
  <1> QED
    BY <1>3, <1>4, <1>5, <1>6, <1>7, <1>8, <1>9 DEF Next, Put, Get, Janitor

(* The maps and lists of the shards agree with the history of the calls, and *)
(* what is gone is gone for cause, in every reachable state.                 *)
THEOREM RetentionInvariance == Spec => [](Inv /\ Retention)
  <1>1. Inv /\ Retention /\ [Next]_vars => (Inv /\ Retention)'
    BY StepInv, StepRetention
  <1> QED
    BY <1>1, InitInv, InitRetention, PTL DEF Spec

(* put, get, delete and evictExpired keep a shard's map and recency list in  *)
(* step: the same tokens, each once, in the shard they hash to and within    *)
(* the cap.                                                                  *)
THEOREM ListInStep == Spec => []ListMatchesMap
  <1>1. Inv /\ Retention => ListMatchesMap
    <2> SUFFICES ASSUME Inv, Retention, NEW s \in Shards
                 PROVE  /\ Elements(ll[s]) = Keys(s)
                        /\ Len(ll[s]) = Cardinality(Keys(s))
                        /\ Keys(s) \subseteq {t \in Tokens : shardOf[t] = s}
                        /\ Len(ll[s]) <= PerShard
      BY DEF ListMatchesMap
    <2>1. /\ ll[s] \in Seq(Tokens) /\ Distinct(ll[s]) /\ Elements(ll[s]) = Keys(s)
          /\ Len(ll[s]) <= PerShard
      BY DEF Retention, ListOK, Inv, TypeOK
    <2>2. Cardinality(Elements(ll[s])) = Len(ll[s])
      BY <2>1, DistinctLength
    <2>3. Keys(s) \subseteq {t \in Tokens : shardOf[t] = s}
      BY DEF Inv, MapMatchesHistory, Keys
    <2> QED
      BY <2>1, <2>2, <2>3
  <1> QED
    BY <1>1, RetentionInvariance, PTL

(* A token used within the TTL and among the most recently used of its shard *)
(* is in the cache, whatever the janitor sweeps with a stale tick and        *)
(* whatever other tokens come and go.                                        *)
THEOREM Retained == Spec => []LiveTokensRetained
  <1>1. Inv /\ Retention => LiveTokensRetained
    <2> SUFFICES ASSUME Inv, Retention, NEW t \in Tokens, Owed(t, PerShard)
                 PROVE  /\ t \in Keys(shardOf[t])
                        /\ items[shardOf[t]][t].entry = granted[t].entry
      BY DEF LiveTokensRetained, RetainedUpTo
    <2>1. granted[t] # None /\ now <= granted[t].at + TTL /\ Cardinality(SinceInShard(t)) < PerShard
      BY DEF Owed
    <2>2. granted[t].at \in Times /\ now \in Times /\ shardOf[t] \in Shards
      BY <2>1 DEF Inv, TypeOK, Grants
    <2>3. ~(now > granted[t].at + TTL)
      BY <2>1, <2>2, TimeAssumption DEF Times
    <2>4. SinceInShard(t) \subseteq since[t] /\ IsFiniteSet(since[t])
      BY DEF SinceInShard, Retention
    <2>5. Cardinality(SinceInShard(t)) \in Nat
      BY <2>4, FS_Subset, FS_CardinalityType
    <2>6. ~(Cardinality(SinceInShard(t)) >= PerShard)
      BY <2>1, <2>5, PerShardType
    <2>7. items[shardOf[t]][t] # None
      BY <2>1, <2>3, <2>6 DEF Retention, GoneForCause
    <2> QED
      BY <2>2, <2>7 DEF Inv, MapMatchesHistory, Keys
  <1> QED
    BY <1>1, RetentionInvariance, PTL

(* A token leaves the cache only because it was deleted, because its TTL has *)
(* run out by the real clock, or because its shard was full and the token    *)
(* was its least recently used.                                              *)
THEOREM Justified == Spec => RemovalsAreJustified
  <1> DEFINE J == \A t \in Tokens :
                    LET s == shardOf[t] IN
                    t \in Keys(s) /\ items'[s][t] = None =>
                        \/ granted'[t] = None
                        \/ now > items[s][t].expiresAt
                        \/ /\ Len(ll[s]) = PerShard
                           /\ ll[s][PerShard] = t
  <1>1. ASSUME Inv, Retention, [Next]_vars, NEW t \in Tokens, NEW s \in Shards, s = shardOf[t],
               t \in Keys(s), items'[s][t] = None
        PROVE  \/ granted'[t] = None
               \/ now > items[s][t].expiresAt
               \/ Len(ll[s]) = PerShard /\ ll[s][PerShard] = t
    <2>0. /\ items \in [Shards -> [Tokens -> Items \cup {None}]]
          /\ items' \in [Shards -> [Tokens -> Items \cup {None}]]
          /\ shardOf \in [Tokens -> Shards] /\ janitor \in JanitorStates
          /\ granted \in [Tokens -> Grants \cup {None}] /\ now \in Times
      BY <1>1, StepInv DEF Inv, TypeOK
    <2>1. items[s][t] # None /\ items'[s][t] # items[s][t]
      BY <1>1 DEF Keys
    <2>2. ASSUME NEW u \in Tokens, NEW it \in Items, items' = [items EXCEPT ![shardOf[u]][u] = it]
          PROVE  FALSE
      BY <1>1, <2>0, <2>1, <2>2, NoneAssumption
    <2>3. ASSUME NEW u \in Tokens, NEW e \in Entries, PutExisting(u, e) PROVE FALSE
      <3>1. Item(e, now + TTL) \in Items
        BY <2>0, ItemType
      <3> QED
        BY <2>2, <2>3, <3>1 DEF PutExisting, Renewed
    <2>4. ASSUME NEW u \in Tokens, NEW e \in Entries, PutNew(u, e)
          PROVE  Len(ll[s]) = PerShard /\ ll[s][PerShard] = t
      <3>2. PICK kept : kept = Kept(u, shardOf[u])
        OBVIOUS
      <3>3. /\ u \notin Keys(shardOf[u])
            /\ items' = [items EXCEPT ![shardOf[u]] =
                  [v \in Tokens |-> IF v = u THEN Item(e, now + TTL)
                                    ELSE IF v \in Elements(kept) THEN items[shardOf[u]][v] ELSE None]]
        BY <2>4, <3>2 DEF PutNew, Kept
      <3>4. shardOf[u] = s /\ u # t /\ t \notin Elements(kept)
        <4>1. shardOf[u] = s
          BY <2>0, <2>1, <3>3
        <4>2. u # t
          BY <1>1, <3>3, <4>1
        <4> QED
          BY <1>1, <2>0, <2>1, <3>3, <4>1, <4>2
      <3>5. u \notin Keys(s) /\ kept = Kept(u, s)
        BY <3>2, <3>3, <3>4
      <3>6. \A v \in Keys(s) \ Elements(kept) :
               /\ Len(kept) = PerShard /\ Elements(kept) \subseteq Touched(u, since)[v]
               /\ Len(ll[s]) = PerShard /\ ll[s][PerShard] = v
        BY <1>1, <3>5, NewList
      <3> QED
        BY <1>1, <3>4, <3>6
    <2>5. ASSUME NEW u \in Tokens, GetHit(u) PROVE FALSE
      <3>1. PICK later \in now..MaxTime :
              items' = [items EXCEPT ![shardOf[u]][u] = Item(items[shardOf[u]][u].entry, later + TTL)]
        BY <2>5 DEF GetHit
      <3>2. later \in Times /\ items[shardOf[u]][u].entry \in Entries
        BY <2>0, <2>5, TimeAssumption DEF GetHit, Times, Keys, Items
      <3>3. Item(items[shardOf[u]][u].entry, later + TTL) \in Items
        BY <3>2, ItemType
      <3> QED
        BY <2>2, <3>1, <3>3
    <2>6. ASSUME NEW u \in Tokens, GetExpired(u) PROVE now > items[s][t].expiresAt
      <3>1. u = t
        BY <1>1, <2>0, <2>1, <2>6 DEF GetExpired, RemoveElements
      <3> QED
        BY <1>1, <2>6, <3>1 DEF GetExpired, Expired
    <2>7. ASSUME NEW u \in Tokens, Delete(u) PROVE granted'[t] = None
      <3>1. u = t
        BY <1>1, <2>0, <2>1, <2>7 DEF Delete, RemoveElements
      <3> QED
        BY <2>0, <2>7, <3>1 DEF Delete
    <2>8. ASSUME JanitorSweeps PROVE now > items[s][t].expiresAt
      <3>1. janitor.shard \in Shards /\ janitor.time \in Times
        BY <2>0, <2>8 DEF JanitorSweeps, JanitorStates
      <3>2. s = janitor.shard /\ Expired(items[s][t], janitor.time)
        BY <1>1, <2>0, <2>1, <2>8, <3>1 DEF JanitorSweeps, RemoveElements
      <3>3. janitor.time <= now /\ items[s][t].expiresAt \in Int
        BY <1>1, <2>0, <2>1, TimeAssumption DEF Retention, TicksArePast, Items
      <3> QED
        BY <2>0, <3>1, <3>2, <3>3, TimeAssumption DEF Expired, Times
    <2>9. CASE \/ \E u \in Tokens : GetAbsent(u)
               \/ ClockAdvances \/ TickerFires \/ Close \/ JanitorWakes \/ JanitorStops
               \/ UNCHANGED vars
      <3>1. items' = items
        BY <2>9 DEF GetAbsent, ClockAdvances, TickerFires, Close, JanitorWakes, JanitorStops, vars
      <3> QED
        BY <2>1, <3>1
    <2> QED
      BY <1>1, <2>3, <2>4, <2>5, <2>6, <2>7, <2>8, <2>9 DEF Next, Put, Get, Janitor
  <1>2. Inv /\ Retention /\ [Next]_vars => [J]_vars
    <2>1. ASSUME Inv, Retention, [Next]_vars PROVE J
      <3>1. \A t \in Tokens : shardOf[t] \in Shards
        BY <2>1 DEF Inv, TypeOK
      <3> QED
        BY <1>1, <2>1, <3>1
    <2> QED
      BY <2>1
  <1> QED
    BY <1>2, RetentionInvariance, PTL DEF Spec, RemovalsAreJustified
=============================================================================
