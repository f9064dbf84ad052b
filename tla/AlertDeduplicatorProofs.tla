------------------------ MODULE AlertDeduplicatorProofs ------------------------
(***************************************************************************)
(* Facts about the items a sequence keeps, then what every action of       *)
(* AlertDeduplicator does to its groups, proved for any window, any        *)
(* max_groups and any alerts, finitely many or not.  EventPipelineProofs   *)
(* draws the invariants of the specification from it.                      *)
(***************************************************************************)
EXTENDS AlertDeduplicator, SequenceTheorems, FunctionTheorems, FiniteSetTheorems, TLAPS

---------------------------------------------------------------------------
(* Finite sets, and the items of a sequence kept by Subsequence, that the  *)
(* alerting stage keeps groups, matches and ids with.                      *)

(* A function that is one-to-one on a finite set of n elements, with no    *)
(* more than n values, takes every one of them: how the proofs count ranks *)
(* without induction.                                                      *)
LEMMA InjectionIsOnto ==
    \A S, T : \A f \in [S -> T] :
        /\ IsFiniteSet(S) /\ IsFiniteSet(T) /\ Cardinality(S) = Cardinality(T)
        /\ \A x, y \in S : f[x] = f[y] => x = y
        => \A t \in T : \E x \in S : f[x] = t
  <1> SUFFICES ASSUME NEW S, IsFiniteSet(S), NEW T, IsFiniteSet(T),
                      Cardinality(S) = Cardinality(T),
                      NEW f \in [S -> T], \A x, y \in S : f[x] = f[y] => x = y
               PROVE  \A t \in T : \E x \in S : f[x] = t
    OBVIOUS
  <1>1. f \in Injection(S, T)
    BY Fun_IsInj
  <1>2. f \in Surjection(S, T)
    BY <1>1, FS_Injection
  <1> QED
    BY <1>2, Fun_SurjectionProperties

(* A finite set has no more elements than a set it maps into one-to-one.   *)
LEMMA InjectionBounds ==
    ASSUME NEW S, NEW T, IsFiniteSet(T),
           NEW f \in [S -> T], \A x, y \in S : f[x] = f[y] => x = y
    PROVE  IsFiniteSet(S) /\ Cardinality(S) <= Cardinality(T)
  <1>1. f \in Injection(S, T)
    BY Fun_IsInj
  <1> QED
    BY <1>1, FS_Injection

(* A proper subset of a finite set has fewer elements.                     *)
LEMMA ProperSubsetIsSmaller ==
    ASSUME NEW T, IsFiniteSet(T), NEW S \in SUBSET T, NEW x \in T, x \notin S
    PROVE  Cardinality(S) < Cardinality(T)
  <1>1. /\ Cardinality(S) \in Nat
        /\ Cardinality(T) \in Nat
        /\ Cardinality(S) <= Cardinality(T)
        /\ Cardinality(S) # Cardinality(T)
    BY FS_Subset, FS_CardinalityType
  <1> QED
    BY <1>1

(* Every non-empty finite set with a strict total order has a first        *)
(* element: the group sorted() puts first, the match max() returns.        *)
LEMMA FirstExists ==
    ASSUME NEW S, IsFiniteSet(S), S # {}, NEW R,
           \A x \in S : <<x, x>> \notin R,
           \A x, y, z \in S : <<x, y>> \in R /\ <<y, z>> \in R => <<x, z>> \in R,
           \A x, y \in S : x # y => <<x, y>> \in R \/ <<y, x>> \in R
    PROVE  \E x \in S : \A y \in S \ {x} : <<x, y>> \in R
  <1> DEFINE Below(x) == {y \in S : <<y, x>> \in R}
             rank == [x \in S |-> Cardinality(Below(x))]
             n == Cardinality(S)
  <1>1. n \in Nat \ {0}
    BY FS_CardinalityType, FS_EmptySet
  <1>2. \A x \in S : rank[x] \in 0..(n - 1)
    <2> SUFFICES ASSUME NEW x \in S PROVE Cardinality(Below(x)) \in 0..(n - 1)
      OBVIOUS
    <2>1. Below(x) \in SUBSET S /\ x \notin Below(x)
      OBVIOUS
    <2>2. Cardinality(Below(x)) < n
      BY <2>1, ProperSubsetIsSmaller
    <2>3. Cardinality(Below(x)) \in Nat
      BY <2>1, FS_Subset, FS_CardinalityType
    <2> HIDE DEF Below
    <2> QED
      BY <2>2, <2>3, <1>1
  <1>3. \A x, y \in S : <<x, y>> \in R => rank[x] < rank[y]
    <2> SUFFICES ASSUME NEW x \in S, NEW y \in S, <<x, y>> \in R
                 PROVE  Cardinality(Below(x)) < Cardinality(Below(y))
      OBVIOUS
    <2>1. Below(x) \in SUBSET Below(y) /\ x \in Below(y) /\ x \notin Below(x)
      OBVIOUS
    <2>2. IsFiniteSet(Below(y))
      BY FS_Subset
    <2> HIDE DEF Below
    <2> QED
      BY <2>1, <2>2, ProperSubsetIsSmaller
  <1>4. rank \in [S -> 0..(n - 1)]
    BY <1>2
  <1>5. \A x, y \in S : rank[x] = rank[y] => x = y
    <2> SUFFICES ASSUME NEW x \in S, NEW y \in S, x # y PROVE rank[x] # rank[y]
      OBVIOUS
    <2>1. rank[x] \in Int /\ rank[y] \in Int
      BY <1>2
    <2>2. rank[x] < rank[y] \/ rank[y] < rank[x]
      BY <1>3
    <2> HIDE DEF rank
    <2> QED
      BY <2>1, <2>2
  <1>6. IsFiniteSet(0..(n - 1)) /\ Cardinality(0..(n - 1)) = n
    <2> HIDE DEF n
    <2> QED
      BY <1>1, FS_Interval
  <1>7. PICK x \in S : rank[x] = 0
    <2> DEFINE T == 0..(n - 1)
    <2>1. rank \in [S -> T] /\ IsFiniteSet(T) /\ Cardinality(S) = Cardinality(T)
      BY <1>4, <1>6
    <2>2. 0 \in T
      <3> HIDE DEF n
      <3> QED
        BY <1>1
    <2> HIDE DEF rank, T
    <2>3. \A t \in T : \E x \in S : rank[x] = t
      BY <2>1, <1>5, InjectionIsOnto
    <2> QED
      BY <2>2, <2>3
  <1>8. Below(x) = {}
    BY <1>7, FS_Subset, FS_EmptySet
  <1> QED
    BY <1>8

----------------------------------------------------------------------------
(* The ranks of a finite set of indices are 1 to the number of them, each  *)
(* the rank of one index, in the order of the indices.                     *)
LEMMA RankProperties ==
    ASSUME NEW I, \A i \in I : i \in Int, IsFiniteSet(I)
    PROVE  /\ \A i \in I : Rank(i, I) \in 1..Cardinality(I)
           /\ \A i, j \in I : i < j => Rank(i, I) < Rank(j, I)
           /\ \A n \in 1..Cardinality(I) : \E i \in I : Rank(i, I) = n
  <1> DEFINE UpTo(i) == {j \in I : j <= i}
  <1>0. Cardinality(I) \in Nat
    BY FS_CardinalityType
  <1>1. \A i \in I : /\ IsFiniteSet(UpTo(i))
                     /\ Cardinality(UpTo(i)) \in Nat
                     /\ Cardinality(UpTo(i)) <= Cardinality(I)
    BY FS_Subset, FS_CardinalityType
  <1>2. \A i \in I : Cardinality(UpTo(i)) # 0
    <2> TAKE i \in I
    <2>1. i \in UpTo(i)
      OBVIOUS
    <2> QED
      BY <2>1, <1>1, FS_EmptySet
  <1>3. \A i \in I : Rank(i, I) \in 1..Cardinality(I)
    BY <1>0, <1>1, <1>2 DEF Rank
  <1>4. ASSUME NEW i \in I, NEW j \in I, i < j
        PROVE  Rank(i, I) < Rank(j, I)
    <2>0. i \in Int /\ j \in Int
      OBVIOUS
    <2>1. UpTo(i) \in SUBSET UpTo(j) /\ j \in UpTo(j) /\ j \notin UpTo(i)
      <3>1. \A k \in I : k <= i => k <= j
        BY <2>0, <1>4
      <3>2. j <= j /\ ~(j <= i)
        BY <2>0, <1>4
      <3> QED
        BY <3>1, <3>2
    <2> QED
      BY <2>1, <1>1, ProperSubsetIsSmaller DEF Rank
  <1>5. \A n \in 1..Cardinality(I) : \E i \in I : Rank(i, I) = n
    <2> DEFINE rank == [i \in I |-> Rank(i, I)]
               T == 1..Cardinality(I)
    <2>1. rank \in [I -> T]
      BY <1>3
    <2>2. \A i, j \in I : rank[i] = rank[j] => i = j
      <3> SUFFICES ASSUME NEW i \in I, NEW j \in I, Rank(i, I) = Rank(j, I)
                   PROVE  i = j
        OBVIOUS
      <3>1. i \in Int /\ j \in Int /\ Rank(i, I) \in Int
        BY <1>3
      <3>2. ~(i < j) /\ ~(j < i)
        BY <3>1, <1>4
      <3> QED
        BY <3>1, <3>2
    <2>3. IsFiniteSet(T) /\ Cardinality(I) = Cardinality(T)
      BY <1>0, FS_Interval
    <2>4. \A n \in T : \E i \in I : rank[i] = n
      <3> HIDE DEF rank, T, UpTo
      <3> QED
        BY <2>1, <2>2, <2>3, InjectionIsOnto
    <2> QED
      BY <2>4
  <1> QED
    BY <1>3, <1>4, <1>5

(* IndexOfRank is the inverse of Rank.                                     *)
LEMMA IndexOfRankProperties ==
    ASSUME NEW I, \A i \in I : i \in Int, IsFiniteSet(I)
    PROVE  /\ \A n \in 1..Cardinality(I) : /\ IndexOfRank(n, I) \in I
                                           /\ Rank(IndexOfRank(n, I), I) = n
           /\ \A m, n \in 1..Cardinality(I) :
                 m < n => IndexOfRank(m, I) < IndexOfRank(n, I)
           /\ \A i \in I : \E n \in 1..Cardinality(I) : IndexOfRank(n, I) = i
  <1>1. ASSUME NEW n \in 1..Cardinality(I)
        PROVE  IndexOfRank(n, I) \in I /\ Rank(IndexOfRank(n, I), I) = n
    <2>1. PICK i \in I : Rank(i, I) = n
      BY RankProperties
    <2> QED
      BY <2>1 DEF IndexOfRank
  <1>2. \A i, j \in I : i < j => Rank(i, I) < Rank(j, I)
    BY RankProperties
  <1>3. \A i \in I : Rank(i, I) \in 1..Cardinality(I)
    BY RankProperties
  <1>4. ASSUME NEW m \in 1..Cardinality(I), NEW n \in 1..Cardinality(I), m < n
        PROVE  IndexOfRank(m, I) < IndexOfRank(n, I)
    <2> DEFINE i == IndexOfRank(m, I)
               j == IndexOfRank(n, I)
    <2>1. i \in I /\ j \in I /\ Rank(i, I) = m /\ Rank(j, I) = n
      BY <1>1
    <2>2. i \in Int /\ j \in Int
      BY <2>1
    <2> HIDE DEF i, j
    <2>3. ~(j < i) /\ i # j
      BY <2>1, <1>2, <1>4
    <2>4. i < j
      BY <2>2, <2>3
    <2> QED
      BY <2>4 DEF i, j
  <1>5. ASSUME NEW i \in I
        PROVE  \E n \in 1..Cardinality(I) : IndexOfRank(n, I) = i
    <2> DEFINE n == Rank(i, I)
               j == IndexOfRank(n, I)
    <2>1. n \in 1..Cardinality(I)
      BY <1>3
    <2>2. j \in I /\ Rank(j, I) = Rank(i, I)
      BY <1>1, <2>1
    <2> HIDE DEF j
    <2>3. i \in Int /\ j \in Int /\ Rank(i, I) \in Int
      BY <2>1, <2>2
    <2>4. j = i
      <3>1. ~(j < i) /\ ~(i < j)
        BY <2>2, <2>3, <1>2
      <3> QED
        BY <2>3, <3>1
    <2> USE DEF j
    <2> QED
      BY <2>1, <2>4
  <1> QED
    BY <1>1, <1>4, <1>5

(* The items of a subsequence are those of the sequence at the indices it  *)
(* keeps, every one of them once and in the same order.                    *)
LEMMA SubsequenceProperties ==
    ASSUME NEW T, NEW s \in Seq(T), NEW I \in SUBSET (DOMAIN s)
    PROVE  LET kept == Subsequence(s, I) IN
           /\ kept \in Seq(T)
           /\ IsFiniteSet(I)
           /\ Len(kept) = Cardinality(I)
           /\ Len(kept) <= Len(s)
           /\ \E at \in [DOMAIN kept -> I] :
                 /\ \A n \in DOMAIN kept : kept[n] = s[at[n]]
                 /\ \A m, n \in DOMAIN kept : m < n => at[m] < at[n]
                 /\ \A i \in I : \E n \in DOMAIN kept : at[n] = i
  <1> DEFINE kept == Subsequence(s, I)
             at == [n \in 1..Cardinality(I) |-> IndexOfRank(n, I)]
  <1>0. DOMAIN s = 1..Len(s) /\ Len(s) \in Nat
    BY LenProperties
  <1>1. IsFiniteSet(I) /\ (\A i \in I : i \in Int) /\ Cardinality(I) <= Len(s)
    <2> DEFINE n == Len(s)
               D == 1..n
    <2>0. n \in Nat
      BY <1>0
    <2>1. IsFiniteSet(D) /\ Cardinality(D) = n
      <3> HIDE DEF n
      <3> QED
        BY <2>0, FS_Interval
    <2>2. I \in SUBSET D /\ D \in SUBSET Int
      BY <1>0
    <2>3. IsFiniteSet(I) /\ Cardinality(I) <= Cardinality(D)
      <3> HIDE DEF D
      <3> QED
        BY <2>1, <2>2, FS_Subset
    <2> QED
      BY <2>1, <2>2, <2>3
  <1>2. Cardinality(I) \in Nat
    BY <1>1, FS_CardinalityType
  <1>3. /\ \A n \in 1..Cardinality(I) : IndexOfRank(n, I) \in I
        /\ \A m, n \in 1..Cardinality(I) :
              m < n => IndexOfRank(m, I) < IndexOfRank(n, I)
        /\ \A i \in I : \E n \in 1..Cardinality(I) : IndexOfRank(n, I) = i
    BY <1>1, IndexOfRankProperties
  <1>4. kept \in [1..Cardinality(I) -> T]
    <2> SUFFICES ASSUME NEW n \in 1..Cardinality(I)
                 PROVE  s[IndexOfRank(n, I)] \in T
      BY DEF Subsequence
    <2> QED
      BY <1>3, <1>0, ElementOfSeq
  <1>5. kept \in Seq(T)
    BY <1>4, <1>2, SeqDef
  <1>6. Len(kept) = Cardinality(I) /\ DOMAIN kept = 1..Cardinality(I)
    BY <1>2, <1>4, <1>5, LenProperties
  <1>7. /\ at \in [DOMAIN kept -> I]
        /\ \A n \in DOMAIN kept : kept[n] = s[at[n]]
        /\ \A m, n \in DOMAIN kept : m < n => at[m] < at[n]
        /\ \A i \in I : \E n \in DOMAIN kept : at[n] = i
    BY <1>3, <1>6 DEF Subsequence
  <1> HIDE DEF kept, at
  <1>8. QED
    BY <1>1, <1>5, <1>6, <1>7 DEF kept

(* The strictly increasing map of the places of what is kept to the places *)
(* it had.                                                                 *)
LEMMA SubsequenceEmbedding ==
    ASSUME NEW T, NEW s \in Seq(T), NEW I \in SUBSET (DOMAIN s),
           NEW kept, kept = Subsequence(s, I)
    PROVE  \E at \in [DOMAIN kept -> I] :
               /\ \A n \in DOMAIN kept : kept[n] = s[at[n]]
               /\ \A m, n \in DOMAIN kept : m < n => at[m] < at[n]
               /\ \A i \in I : \E n \in DOMAIN kept : at[n] = i
  BY SubsequenceProperties

---------------------------------------------------------------------------
(* The groups.                                                             *)

(* The groups of the dict, whatever their order.                           *)
Items(gs) == {gs[i] : i \in DOMAIN gs}

DistinctKeys(gs) == \A i, j \in DOMAIN gs : gs[i].key = gs[j].key => i = j

LiveIn(gs) == {g.key : g \in {h \in Items(gs) : h.expires > 0}}

SeenRecord == [age : 0..DedupWindow, burst : Nat]

RecentIn(sn) == {k \in Keys : sn[k].age < DedupWindow}
AsRecentIn(key, sn) == {k \in Keys \ {key} : sn[k].age <= sn[key].age}

(* The inductive invariant, of the groups gs and the history sn.  Its last *)
(* three parts say why the limit evicts the right group: the live groups   *)
(* are an initial segment of the keys by recency, only finitely many keys  *)
(* are recent, and a recent key without a group has been overtaken by      *)
(* max_groups others.                                                      *)
DedupInv(gs, sn) ==
    /\ gs \in Seq(Group)
    /\ sn \in [Keys -> SeenRecord]
    /\ DistinctKeys(gs)
    /\ Len(gs) <= MaxGroups
    /\ \A g \in Items(gs) : g.expires > 0 =>
          /\ g.expires = DedupWindow - sn[g.key].age
          /\ g.count <= sn[g.key].burst
    /\ \A g \in Items(gs) : g.expires > 0 =>
          \A k \in Keys : sn[k].age < sn[g.key].age => k \in LiveIn(gs)
    /\ IsFiniteSet(RecentIn(sn))
    /\ \A k \in RecentIn(sn) \ LiveIn(gs) :
          Cardinality(AsRecentIn(k, sn)) >= MaxGroups

(* The fields of a group.                                                  *)
LEMMA GroupFields ==
    \A g \in Group : /\ g.key \in Keys
                     /\ g.expires \in 0..DedupWindow
                     /\ g.count \in Nat \ {0}
                     /\ g.ips \in SUBSET Ips
  BY DEF Group

(* The elements of a sequence of groups are groups.                        *)
LEMMA ItemsAreGroups ==
    ASSUME NEW gs \in Seq(Group)
    PROVE  Items(gs) \subseteq Group
  BY LenProperties DEF Items

(* The items a Subsequence keeps.                                          *)
LEMMA SubsequenceItems ==
    ASSUME NEW gs \in Seq(Group), NEW I \in SUBSET (DOMAIN gs)
    PROVE  Items(Subsequence(gs, I)) = {gs[i] : i \in I}
  <1> DEFINE kept == Subsequence(gs, I)
  <1>1. PICK at \in [DOMAIN kept -> I] :
           /\ \A n \in DOMAIN kept : kept[n] = gs[at[n]]
           /\ \A i \in I : \E n \in DOMAIN kept : at[n] = i
    BY SubsequenceProperties
  <1> HIDE DEF kept
  <1>2. {kept[n] : n \in DOMAIN kept} = {gs[i] : i \in I}
    <2>1. ASSUME NEW n \in DOMAIN kept PROVE \E i \in I : kept[n] = gs[i]
      BY <1>1
    <2>2. ASSUME NEW i \in I PROVE \E n \in DOMAIN kept : kept[n] = gs[i]
      BY <1>1
    <2> QED
      BY <2>1, <2>2
  <1> QED
    BY <1>2 DEF kept, Items

(* A Subsequence of groups with distinct keys has distinct keys.           *)
LEMMA SubsequenceDistinct ==
    ASSUME NEW gs \in Seq(Group), DistinctKeys(gs), NEW I \in SUBSET (DOMAIN gs)
    PROVE  DistinctKeys(Subsequence(gs, I))
  <1> DEFINE kept == Subsequence(gs, I)
  <1>1. PICK at \in [DOMAIN kept -> I] :
           /\ \A n \in DOMAIN kept : kept[n] = gs[at[n]]
           /\ \A m, n \in DOMAIN kept : m < n => at[m] < at[n]
    BY SubsequenceProperties
  <1>2. kept \in Seq(Group)
    BY SubsequenceProperties
  <1> HIDE DEF kept
  <1>3. \A n \in DOMAIN kept : n \in Int
    BY <1>2, LenProperties
  <1>4. \A i \in I : i \in DOMAIN gs /\ i \in Int
    BY LenProperties
  <1>5. ASSUME NEW m \in DOMAIN kept, NEW n \in DOMAIN kept,
               kept[m].key = kept[n].key
        PROVE  m = n
    <2>1. at[m] = at[n]
      BY <1>1, <1>4, <1>5 DEF DistinctKeys
    <2>2. at[m] \in Int /\ at[n] \in Int
      BY <1>4
    <2>3. ~(m < n) /\ ~(n < m)
      BY <1>1, <2>1, <2>2
    <2> QED
      BY <1>3, <2>3
  <1>6. DistinctKeys(kept)
    BY <1>5 DEF DistinctKeys
  <1> QED
    BY <1>6 DEF kept

(* _cleanup_expired keeps exactly the groups that have not expired.        *)
LEMMA CleanupProperties ==
    ASSUME NEW gs \in Seq(Group), DistinctKeys(gs)
    PROVE  LET live == CleanupExpired(gs) IN
           /\ live \in Seq(Group)
           /\ DistinctKeys(live)
           /\ Len(live) <= Len(gs)
           /\ Items(live) = {g \in Items(gs) : g.expires > 0}
  <1> DEFINE I == {i \in DOMAIN gs : gs[i].expires > 0}
  <1>1. CleanupExpired(gs) = Subsequence(gs, I)
    BY DEF CleanupExpired
  <1>2. I \in SUBSET (DOMAIN gs)
    OBVIOUS
  <1>3. {gs[i] : i \in I} = {g \in Items(gs) : g.expires > 0}
    BY DEF Items
  <1> HIDE DEF I
  <1> QED
    BY <1>1, <1>2, <1>3, SubsequenceProperties, SubsequenceItems, SubsequenceDistinct

(* Making room needs the first group in the order of (expires_at, place in *)
(* the dict): there is one.                                                *)
LEMMA FirstGroupExists ==
    ASSUME NEW gs \in Seq(Group), Len(gs) > 0
    PROVE  \E i \in DOMAIN gs : SortedBefore(i, gs) = {}
  <1> DEFINE D == DOMAIN gs
             R == {p \in D \X D : p[1] \in SortedBefore(p[2], gs)}
  <1>1. D = 1..Len(gs) /\ Len(gs) \in Nat
    BY LenProperties
  <1>2. IsFiniteSet(D) /\ D # {}
    <2> DEFINE n == Len(gs)
    <2>1. n \in Nat /\ n > 0
      BY <1>1
    <2>2. IsFiniteSet(1..n) /\ 1 \in 1..n
      <3> HIDE DEF n
      <3> QED
        BY <2>1, FS_Interval
    <2> QED
      BY <1>1, <2>2
  <1>3. \A i \in D : i \in Int /\ gs[i].expires \in Int
    BY <1>1, ElementOfSeq, GroupFields
  <1>4. \A i, j \in D : <<i, j>> \in R <=>
           \/ gs[i].expires < gs[j].expires
           \/ gs[i].expires = gs[j].expires /\ i < j
    BY DEF SortedBefore
  <1>5. \A i \in D : SortedBefore(i, gs) = {j \in D : <<j, i>> \in R}
    BY DEF SortedBefore
  <1> HIDE DEF D, R
  <1>6. \A i \in D : <<i, i>> \notin R
    BY <1>3, <1>4
  <1>7. \A i, j, k \in D : <<i, j>> \in R /\ <<j, k>> \in R => <<i, k>> \in R
    BY <1>3, <1>4
  <1>8. \A i, j \in D : i # j => <<i, j>> \in R \/ <<j, i>> \in R
    BY <1>3, <1>4
  <1>9. PICK i \in D : \A j \in D \ {i} : <<i, j>> \in R
    BY <1>2, <1>6, <1>7, <1>8, FirstExists
  <1>10. \A j \in D : <<j, i>> \notin R
    BY <1>6, <1>7, <1>9
  <1>11. SortedBefore(i, gs) = {}
    BY <1>5, <1>10
  <1> QED
    BY <1>11 DEF D

(* _enforce_max_groups, when at most one group is too many: it removes     *)
(* nothing, or the one group that sorts first.                             *)
LEMMA EnforceProperties ==
    ASSUME NEW gs \in Seq(Group), DistinctKeys(gs), Len(gs) <= MaxGroups + 1
    PROVE  LET room == EnforceMaxGroups(gs) IN
           /\ room \in Seq(Group)
           /\ DistinctKeys(room)
           /\ Len(room) <= MaxGroups
           /\ \/ Items(room) = Items(gs)
              \/ /\ Len(room) = MaxGroups
                 /\ Len(gs) = MaxGroups + 1
                 /\ \E first \in DOMAIN gs :
                       /\ Items(room) = Items(gs) \ {gs[first]}
                       /\ \A i \in DOMAIN gs :
                             \/ gs[first].expires < gs[i].expires
                             \/ gs[first].expires = gs[i].expires /\ first <= i
  <1> DEFINE D == DOMAIN gs
             over == Len(gs) - MaxGroups
             oldest == OldestGroups(over, gs)
             I == {i \in D : gs[i].key \notin oldest}
             room == EnforceMaxGroups(gs)
  <1>1. D = 1..Len(gs) /\ Len(gs) \in Nat
    BY LenProperties
  <1>2. IsFiniteSet(D) /\ Cardinality(D) = Len(gs)
    <2> DEFINE n == Len(gs)
    <2>1. n \in Nat
      BY <1>1
    <2>2. IsFiniteSet(1..n) /\ Cardinality(1..n) = n
      <3> HIDE DEF n
      <3> QED
        BY <2>1, FS_Interval
    <2> QED
      BY <1>1, <2>2
  <1>3. \A i \in D : /\ IsFiniteSet(SortedBefore(i, gs))
                     /\ Cardinality(SortedBefore(i, gs)) \in Nat
    BY <1>2, FS_Subset, FS_CardinalityType DEF SortedBefore
  <1>4. room = Subsequence(gs, I) /\ I \in SUBSET D
    BY DEF EnforceMaxGroups
  <1>5. /\ room \in Seq(Group)
        /\ DistinctKeys(room)
        /\ Len(room) = Cardinality(I)
        /\ Items(room) = {gs[i] : i \in I}
    <2> HIDE DEF I, room
    <2> QED
      BY <1>4, SubsequenceProperties, SubsequenceItems, SubsequenceDistinct
  <1>6. MaxGroups \in Nat /\ over \in Int /\ over <= 1
    BY <1>1, DedupAssumption
  <1>7. CASE over <= 0
    <2>1. oldest = {}
      <3> SUFFICES ASSUME NEW j \in D, Cardinality(SortedBefore(j, gs)) < over
                   PROVE  FALSE
        BY DEF OldestGroups
      <3> QED
        BY <1>3, <1>6, <1>7
    <2>2. I = D
      BY <2>1
    <2> HIDE DEF room, I, oldest
    <2>3. Items(room) = Items(gs)
      BY <1>5, <2>2 DEF Items
    <2> QED
      BY <1>2, <1>5, <1>6, <1>7, <2>2, <2>3, <1>1 DEF room
  <1>8. CASE over = 1
    <2>0. Len(gs) > 0
      BY <1>1, <1>6, <1>8
    <2>1. PICK first \in D : SortedBefore(first, gs) = {}
      BY <2>0, FirstGroupExists
    <2>2. \A i \in D : /\ i \in Int
                       /\ gs[i].expires \in Int
      BY <1>1, ElementOfSeq, GroupFields
    <2>3. \A i \in D : \/ gs[first].expires < gs[i].expires
                       \/ gs[first].expires = gs[i].expires /\ first <= i
      <3> SUFFICES ASSUME NEW i \in D
                   PROVE  \/ gs[first].expires < gs[i].expires
                          \/ gs[first].expires = gs[i].expires /\ first <= i
        OBVIOUS
      <3>1. i \notin SortedBefore(first, gs)
        BY <2>1
      <3>2. ~(gs[i].expires < gs[first].expires)
        BY <3>1 DEF SortedBefore
      <3>3. gs[i].expires = gs[first].expires => ~(i < first)
        BY <3>1 DEF SortedBefore
      <3> QED
        BY <2>2, <3>2, <3>3
    <2>4. ASSUME NEW j \in D, Cardinality(SortedBefore(j, gs)) < 1
          PROVE  j = first
      <3>1. SortedBefore(j, gs) = {}
        BY <1>3, <2>4, FS_EmptySet
      <3>2. first \notin SortedBefore(j, gs)
        BY <3>1
      <3>3. ~(gs[first].expires < gs[j].expires)
        BY <3>2 DEF SortedBefore
      <3>4. gs[first].expires = gs[j].expires => ~(first < j)
        BY <3>2 DEF SortedBefore
      <3> QED
        BY <2>2, <2>3, <3>3, <3>4
    <2>5. Cardinality(SortedBefore(first, gs)) < 1
      BY <2>1, FS_EmptySet
    <2>6. oldest = {gs[first].key}
      BY <1>8, <2>4, <2>5 DEF OldestGroups
    <2>7. I = D \ {first}
      BY <2>6 DEF DistinctKeys
    <2>8. Cardinality(I) = MaxGroups
      <3>1. Cardinality(D \ {first}) = Cardinality(D) - 1
        BY <1>2, FS_RemoveElement
      <3> HIDE DEF D, I
      <3> QED
        BY <2>7, <3>1, <1>2, <1>8, <1>6, <1>1 DEF over
    <2>9. Items(room) = Items(gs) \ {gs[first]}
      <3>1. {gs[i] : i \in D \ {first}} = {gs[i] : i \in D} \ {gs[first]}
        BY DEF DistinctKeys
      <3> HIDE DEF room, I
      <3> QED
        BY <1>5, <2>7, <3>1 DEF Items
    <2>10. Len(gs) = MaxGroups + 1
      <3>1. Len(gs) \in Int /\ MaxGroups \in Int
        BY <1>1, <1>6
      <3> QED
        BY <3>1, <1>8
    <2> HIDE DEF room, I, oldest
    <2> QED
      BY <1>5, <1>6, <2>3, <2>8, <2>9, <2>10 DEF room
  <1> QED
    BY <1>6, <1>7, <1>8

----------------------------------------------------------------------------
(* Groups with distinct keys are as many as their keys.                    *)
LEMMA KeysCount ==
    ASSUME NEW gs \in Seq(Group), DistinctKeys(gs)
    PROVE  IsFiniteSet(KeysOf(gs)) /\ Cardinality(KeysOf(gs)) = Len(gs)
  <1> DEFINE n == Len(gs)
             key == [i \in 1..n |-> gs[i].key]
             K == KeysOf(gs)
  <1>1. n \in Nat /\ DOMAIN gs = 1..n
    BY LenProperties
  <1>2. key \in [1..n -> K] /\ \A i, j \in 1..n : key[i] = key[j] => i = j
    BY <1>1 DEF KeysOf, DistinctKeys
  <1>3. \A k \in K : \E i \in 1..n : key[i] = k
    BY <1>1 DEF KeysOf
  <1>4. IsFiniteSet(1..n) /\ Cardinality(1..n) = n
    <2> HIDE DEF n
    <2> QED
      BY <1>1, FS_Interval
  <1> HIDE DEF n, key, K
  <1>5. key \in Bijection(1..n, K)
    BY <1>2, <1>3, Fun_IsBij
  <1>6. ExistsBijection(1..n, K)
    BY <1>5 DEF ExistsBijection
  <1>7. IsFiniteSet(K) /\ Cardinality(K) = n
    BY <1>4, <1>6, FS_Bijection
  <1> QED
    BY <1>7 DEF K, n

(* The keys of the dict and its live keys, by its items.                   *)
LEMMA KeysAndItems ==
    ASSUME NEW gs
    PROVE  /\ KeysOf(gs) = {g.key : g \in Items(gs)}
           /\ LiveIn(gs) \subseteq KeysOf(gs)
           /\ (\A g \in Items(gs) : g.expires > 0) => LiveIn(gs) = KeysOf(gs)
  BY DEF KeysOf, LiveIn, Items

(* Among groups with distinct keys a key has one group.                    *)
LEMMA OneGroupPerKey ==
    ASSUME NEW gs \in Seq(Group), DistinctKeys(gs)
    PROVE  \A g, h \in Items(gs) : g.key = h.key => g = h
  BY DEF DistinctKeys, Items

(* The keys as recent as a recent key are finitely many.                   *)
LEMMA AsRecentIsFinite ==
    ASSUME NEW sn \in [Keys -> SeenRecord], IsFiniteSet(RecentIn(sn)),
           NEW k \in RecentIn(sn), NEW S, S \subseteq AsRecentIn(k, sn)
    PROVE  /\ IsFiniteSet(AsRecentIn(k, sn))
           /\ Cardinality(S) <= Cardinality(AsRecentIn(k, sn))
           /\ Cardinality(S) \in Int
           /\ Cardinality(AsRecentIn(k, sn)) \in Int
  <1>1. \A j \in Keys : sn[j].age \in Int
    BY DEF SeenRecord
  <1>2. AsRecentIn(k, sn) \in SUBSET RecentIn(sn)
    BY <1>1, DedupAssumption DEF AsRecentIn, RecentIn
  <1>3. IsFiniteSet(AsRecentIn(k, sn))
    BY <1>2, FS_Subset
  <1>4. IsFiniteSet(S) /\ Cardinality(S) <= Cardinality(AsRecentIn(k, sn))
    BY <1>3, FS_Subset
  <1> QED
    BY <1>3, <1>4, FS_CardinalityType

(* _cleanup_expired preserves the invariant and leaves only live groups.   *)
LEMMA CleanupPreserves ==
    ASSUME NEW gs, NEW sn, DedupInv(gs, sn)
    PROVE  LET live == CleanupExpired(gs) IN
           /\ DedupInv(live, sn)
           /\ LiveIn(live) = LiveIn(gs)
           /\ \A g \in Items(live) : g.expires > 0
  <1> DEFINE live == CleanupExpired(gs)
  <1>1. gs \in Seq(Group) /\ DistinctKeys(gs) /\ Len(gs) <= MaxGroups
    BY DEF DedupInv
  <1>2. /\ live \in Seq(Group)
        /\ DistinctKeys(live)
        /\ Len(live) <= Len(gs)
        /\ Items(live) = {g \in Items(gs) : g.expires > 0}
    BY <1>1, CleanupProperties
  <1> HIDE DEF live
  <1>3. LiveIn(live) = LiveIn(gs)
    BY <1>2 DEF LiveIn
  <1>4. Len(live) <= MaxGroups
    <2>1. Len(live) \in Int /\ Len(gs) \in Int /\ MaxGroups \in Int
      BY <1>1, <1>2, LenProperties, DedupAssumption
    <2> QED
      BY <2>1, <1>1, <1>2
  <1>5. DedupInv(live, sn)
    BY <1>2, <1>3, <1>4 DEF DedupInv
  <1> QED
    BY <1>2, <1>3, <1>5 DEF live

----------------------------------------------------------------------------
(* The history of a key after an alert with it (Witnessed).                *)
Witness(key, sn, sn2) ==
    /\ sn2 \in [Keys -> SeenRecord]
    /\ sn2[key].age = 0
    /\ sn2[key].burst = sn[key].burst + 1
    /\ \A k \in Keys \ {key} : sn2[k] = sn[k]

(* An alert makes its key the most recent: the recent keys stay finitely   *)
(* many, and no key stops being as recent as another one.                  *)
LEMMA WitnessRecency ==
    ASSUME NEW sn \in [Keys -> SeenRecord], IsFiniteSet(RecentIn(sn)),
           NEW key \in Keys, NEW sn2, Witness(key, sn, sn2)
    PROVE  /\ IsFiniteSet(RecentIn(sn2))
           /\ \A k \in RecentIn(sn2) \ {key} :
                 k \in RecentIn(sn) /\ AsRecentIn(k, sn) \subseteq AsRecentIn(k, sn2)
  <1>1. \A k \in Keys : sn[k].age \in 0..DedupWindow
    BY DEF SeenRecord
  <1>2. RecentIn(sn2) \in SUBSET (RecentIn(sn) \cup {key})
    BY DEF RecentIn, Witness
  <1>3. IsFiniteSet(RecentIn(sn2))
    BY <1>2, FS_AddElement, FS_Subset
  <1>4. ASSUME NEW k \in RecentIn(sn2) \ {key}
        PROVE  k \in RecentIn(sn) /\ AsRecentIn(k, sn) \subseteq AsRecentIn(k, sn2)
    <2>1. k \in Keys /\ sn2[k] = sn[k]
      BY DEF RecentIn, Witness
    <2>2. \A j \in Keys : sn[j].age <= sn[k].age => sn2[j].age <= sn2[k].age
      <3> SUFFICES ASSUME NEW j \in Keys, sn[j].age <= sn[k].age
                   PROVE  sn2[j].age <= sn2[k].age
        OBVIOUS
      <3>1. CASE j = key
        BY <3>1, <2>1, <1>1 DEF Witness
      <3>2. CASE j # key
        BY <3>2, <2>1 DEF Witness
      <3> QED
        BY <3>1, <3>2
    <2> QED
      BY <2>1, <2>2 DEF RecentIn, AsRecentIn
  <1> QED
    BY <1>3, <1>4

(* Opening a group, and evicting the oldest one if there are too many,     *)
(* preserves the invariant and leaves the new group in the dict: what it   *)
(* evicts is another one.  _new_group, _enforce_max_groups.                *)
LEMMA OpenPreserves ==
    ASSUME NEW gs, NEW sn, DedupInv(gs, sn),
           \A g \in Items(gs) : g.expires > 0,
           NEW new \in Group, new.key \notin KeysOf(gs),
           new.expires = DedupWindow, new.count = 1,
           NEW sn2, Witness(new.key, sn, sn2)
    PROVE  LET room == EnforceMaxGroups(Append(gs, new)) IN
           /\ DedupInv(room, sn2)
           /\ new.key \in LiveIn(room)
           /\ LiveIn(room) \subseteq LiveIn(gs) \cup {new.key}
  <1> DEFINE app == Append(gs, new)
             room == EnforceMaxGroups(app)
             key == new.key
  <1>1. /\ gs \in Seq(Group) /\ DistinctKeys(gs) /\ Len(gs) <= MaxGroups
        /\ sn \in [Keys -> SeenRecord] /\ IsFiniteSet(RecentIn(sn))
    BY DEF DedupInv
  <1>2. /\ app \in Seq(Group)
        /\ Len(app) = Len(gs) + 1
        /\ \A i \in 1..Len(gs) : app[i] = gs[i]
        /\ app[Len(gs) + 1] = new
    BY <1>1, AppendProperties
  <1>3. /\ Len(gs) \in Nat /\ DOMAIN gs = 1..Len(gs)
        /\ DOMAIN app = 1..(Len(gs) + 1)
    BY <1>1, <1>2, LenProperties
  <1> HIDE DEF app
  <1>4. \A i \in DOMAIN app :
           \/ i \in DOMAIN gs /\ app[i] = gs[i]
           \/ i = Len(gs) + 1 /\ app[i] = new
    BY <1>2, <1>3
  <1>5. DOMAIN gs \subseteq DOMAIN app /\ Len(gs) + 1 \in DOMAIN app
    BY <1>3
  <1>6. Items(app) = Items(gs) \cup {new}
    BY <1>2, <1>3, <1>4, <1>5 DEF Items
  <1>7. DistinctKeys(app)
    <2> SUFFICES ASSUME NEW i \in DOMAIN app, NEW j \in DOMAIN app,
                        app[i].key = app[j].key
                 PROVE  i = j
      BY DEF DistinctKeys
    <2>1. \A m \in DOMAIN gs : gs[m].key # key
      BY DEF KeysOf
    <2> QED
      BY <1>1, <1>4, <2>1 DEF DistinctKeys
  <1>8. /\ room \in Seq(Group)
        /\ DistinctKeys(room)
        /\ Len(room) <= MaxGroups
        /\ \/ Items(room) = Items(app)
           \/ /\ Len(room) = MaxGroups
              /\ Len(app) = MaxGroups + 1
              /\ \E first \in DOMAIN app :
                    /\ Items(room) = Items(app) \ {app[first]}
                    /\ \A i \in DOMAIN app :
                          \/ app[first].expires < app[i].expires
                          \/ app[first].expires = app[i].expires /\ first <= i
    <2>1. Len(app) <= MaxGroups + 1
      BY <1>1, <1>2, <1>3, DedupAssumption
    <2> QED
      BY <1>2, <1>7, <2>1, EnforceProperties
  <1> HIDE DEF room
  <1>9. key \in Keys /\ \A g \in Items(gs) : g.key \in Keys /\ g.key # key
    BY <1>1, ItemsAreGroups, GroupFields, KeysAndItems
  <1>10. /\ sn2 \in [Keys -> SeenRecord]
         /\ IsFiniteSet(RecentIn(sn2))
         /\ \A k \in RecentIn(sn2) \ {key} :
               k \in RecentIn(sn) /\ AsRecentIn(k, sn) \subseteq AsRecentIn(k, sn2)
    BY <1>1, <1>9, WitnessRecency DEF Witness
  <1>11. \A g \in Items(app) : g.expires > 0
    BY <1>6, DedupAssumption
  <1>12. \A k \in Keys : sn[k].age \in 0..DedupWindow /\ sn[k].burst \in Nat
    BY <1>1 DEF SeenRecord
  <1>13. \A g \in Items(app) : /\ g.expires = DedupWindow - sn2[g.key].age
                               /\ g.count <= sn2[g.key].burst
    <2>1. new.expires = DedupWindow - sn2[key].age /\ new.count <= sn2[key].burst
      BY <1>9, <1>12, DedupAssumption DEF Witness
    <2>2. \A g \in Items(gs) : /\ g.expires = DedupWindow - sn2[g.key].age
                               /\ g.count <= sn2[g.key].burst
      BY <1>9 DEF DedupInv, Witness
    <2> QED
      BY <1>6, <2>1, <2>2
  <1>14. \A g \in Items(app) : \A k \in Keys :
            sn2[k].age < sn2[g.key].age => k \in LiveIn(app)
    <2> SUFFICES ASSUME NEW g \in Items(app), NEW k \in Keys,
                        sn2[k].age < sn2[g.key].age
                 PROVE  k \in LiveIn(app)
      OBVIOUS
    <2>1. new \in Items(app) /\ LiveIn(gs) \subseteq LiveIn(app)
      BY <1>6, <1>11 DEF LiveIn
    <2>2. CASE k = key
      BY <2>1, <2>2, <1>11 DEF LiveIn
    <2>3. CASE g = new
      <3>1. sn2[k].age < 0 /\ sn2[k].age \in 0..DedupWindow
        BY <2>3, <1>10 DEF Witness, SeenRecord
      <3> QED
        BY <3>1, DedupAssumption
    <2>4. CASE k # key /\ g # new
      <3>1. g \in Items(gs) /\ sn[k].age < sn[g.key].age
        BY <2>4, <1>6, <1>9 DEF Witness
      <3>2. k \in LiveIn(gs)
        BY <3>1 DEF DedupInv
      <3> QED
        BY <3>2, <2>1
    <2> QED
      BY <2>2, <2>3, <2>4
  <1>15. CASE Items(room) = Items(app)
    <2>1. LiveIn(room) = LiveIn(gs) \cup {key} /\ LiveIn(room) = LiveIn(app)
      BY <1>6, <1>11, <1>15 DEF LiveIn
    <2>2. \A k \in RecentIn(sn2) \ LiveIn(room) :
             Cardinality(AsRecentIn(k, sn2)) >= MaxGroups
      <3> SUFFICES ASSUME NEW k \in RecentIn(sn2) \ LiveIn(room)
                   PROVE  Cardinality(AsRecentIn(k, sn2)) >= MaxGroups
        OBVIOUS
      <3>1. k # key /\ k \notin LiveIn(gs)
        BY <2>1
      <3>2. k \in RecentIn(sn) /\ AsRecentIn(k, sn) \subseteq AsRecentIn(k, sn2)
        BY <3>1, <1>10
      <3>3. Cardinality(AsRecentIn(k, sn)) >= MaxGroups
        BY <3>1, <3>2 DEF DedupInv
      <3>4. /\ Cardinality(AsRecentIn(k, sn)) <= Cardinality(AsRecentIn(k, sn2))
            /\ Cardinality(AsRecentIn(k, sn)) \in Int
            /\ Cardinality(AsRecentIn(k, sn2)) \in Int
        BY <1>10, <3>2, AsRecentIsFinite
      <3> QED
        BY <3>3, <3>4, DedupAssumption
    <2>3. DedupInv(room, sn2)
      BY <1>8, <1>10, <1>13, <1>14, <1>15, <2>1, <2>2 DEF DedupInv
    <2> QED
      BY <2>1, <2>3 DEF room, app
  <1>16. ASSUME NEW first \in DOMAIN app,
                Len(room) = MaxGroups,
                Len(app) = MaxGroups + 1,
                Items(room) = Items(app) \ {app[first]},
                \A i \in DOMAIN app :
                   \/ app[first].expires < app[i].expires
                   \/ app[first].expires = app[i].expires /\ first <= i
         PROVE  DedupInv(room, sn2) /\ key \in LiveIn(room)
                   /\ LiveIn(room) \subseteq LiveIn(gs) \cup {key}
    <2> DEFINE evicted == app[first]
    <2>1. evicted # new
      <3> SUFFICES ASSUME evicted = new PROVE FALSE
        OBVIOUS
      <3>1. first = Len(gs) + 1
        BY <1>4, <1>9 DEF Items
      <3>2. 1 \in DOMAIN gs
        BY <1>2, <1>3, <1>16, DedupAssumption
      <3>3. app[1] \in Group
        BY <1>2, <1>3, <3>2, ElementOfSeq
      <3>4. app[1].expires \in 0..DedupWindow
        BY <3>3, GroupFields
      <3>5. \/ DedupWindow < app[1].expires
            \/ first <= 1
        BY <1>5, <1>16, <3>2
      <3> QED
        BY <1>3, <3>1, <3>2, <3>4, <3>5, DedupAssumption
    <2>2. evicted \in Items(gs) /\ new \in Items(room)
      BY <1>4, <1>6, <1>16, <2>1 DEF Items
    <2>3. \A g \in Items(app) : evicted.expires <= g.expires
      <3> SUFFICES ASSUME NEW i \in DOMAIN app PROVE evicted.expires <= app[i].expires
        BY DEF Items
      <3>1. app[i] \in Group /\ evicted \in Group
        BY <1>2, LenProperties, ElementOfSeq
      <3>2. app[i].expires \in Int /\ evicted.expires \in Int
        BY <3>1, GroupFields
      <3> QED
        BY <1>16, <3>2
    <2> HIDE DEF evicted
    <2>4. LiveIn(room) = (LiveIn(gs) \cup {key}) \ {evicted.key}
      <3>1. \A g \in Items(app) : g.key = evicted.key => g = evicted
        BY <1>2, <1>6, <1>7, <2>2, OneGroupPerKey
      <3> QED
        BY <1>6, <1>11, <1>16, <2>2, <3>1 DEF LiveIn, evicted
    <2>5. LiveIn(app) = LiveIn(gs) \cup {key}
      BY <1>6, <1>11 DEF LiveIn
    <2>6. key \in LiveIn(room)
      BY <2>2, <2>4, <1>9
    <2>7. evicted.key \in Keys
      BY <1>9, <2>2
    <2>8. \A g \in Items(app) : g.key \in Keys /\ sn2[g.key].age \in 0..DedupWindow
      BY <1>6, <1>9, <1>10 DEF SeenRecord
    <2>9. \A g \in Items(app) : sn2[g.key].age <= sn2[evicted.key].age
      <3> SUFFICES ASSUME NEW g \in Items(app)
                   PROVE  sn2[g.key].age <= sn2[evicted.key].age
        OBVIOUS
      <3>1. /\ g.expires = DedupWindow - sn2[g.key].age
            /\ evicted.expires = DedupWindow - sn2[evicted.key].age
            /\ evicted.expires <= g.expires
        BY <1>6, <1>13, <2>2, <2>3
      <3>2. sn2[g.key].age \in Int /\ sn2[evicted.key].age \in Int
        BY <1>6, <2>2, <2>8
      <3> QED
        BY <3>1, <3>2, DedupAssumption
    <2>10. \A g \in Items(room) : \A k \in Keys :
             sn2[k].age < sn2[g.key].age => k \in LiveIn(room)
      <3> SUFFICES ASSUME NEW g \in Items(room), NEW k \in Keys,
                          sn2[k].age < sn2[g.key].age
                   PROVE  k \in LiveIn(room)
        OBVIOUS
      <3>1. g \in Items(app)
        BY <1>16
      <3>2. k \in LiveIn(app)
        BY <1>14, <3>1
      <3>3. sn2[g.key].age <= sn2[evicted.key].age
        BY <2>9, <3>1
      <3>4. sn2[g.key].age \in Int /\ sn2[k].age \in Int /\ sn2[evicted.key].age \in Int
        BY <1>10, <2>7, <2>8, <3>1 DEF SeenRecord
      <3>5. k # evicted.key
        BY <3>3, <3>4
      <3> QED
        BY <2>4, <2>5, <3>2, <3>5
    <2>11. \A k \in RecentIn(sn2) \ LiveIn(room) :
             Cardinality(AsRecentIn(k, sn2)) >= MaxGroups
      <3> SUFFICES ASSUME NEW k \in RecentIn(sn2) \ LiveIn(room)
                   PROVE  Cardinality(AsRecentIn(k, sn2)) >= MaxGroups
        OBVIOUS
      <3>1. k # key
        BY <2>6
      <3>2. k \in RecentIn(sn) /\ AsRecentIn(k, sn) \subseteq AsRecentIn(k, sn2)
        BY <3>1, <1>10
      <3>3. CASE k = evicted.key
        <4>1. \A g \in Items(room) : g.expires > 0
          BY <1>11, <1>16
        <4>2. LiveIn(room) = KeysOf(room)
          BY <4>1, KeysAndItems
        <4>3. Cardinality(LiveIn(room)) = MaxGroups
          BY <1>8, <1>16, <4>2, KeysCount
        <4>4. LiveIn(room) \subseteq AsRecentIn(k, sn2)
          <5> SUFFICES ASSUME NEW g \in Items(room)
                       PROVE  g.key \in AsRecentIn(k, sn2)
            BY DEF LiveIn
          <5>1. g.key \in Keys /\ g.key # k
            <6>1. g \in Items(app) /\ g # evicted
              BY <1>16 DEF evicted
            <6> QED
              BY <6>1, <2>2, <2>8, <3>3, <1>2, <1>6, <1>7, OneGroupPerKey
          <5>2. sn2[g.key].age <= sn2[k].age
            BY <2>9, <3>3, <1>16
          <5> QED
            BY <5>1, <5>2 DEF AsRecentIn
        <4>5. /\ MaxGroups <= Cardinality(AsRecentIn(k, sn2))
              /\ Cardinality(AsRecentIn(k, sn2)) \in Int
          BY <1>10, <4>3, <4>4, AsRecentIsFinite
        <4> QED
          BY <4>5, DedupAssumption
      <3>4. CASE k # evicted.key
        <4>1. k \notin LiveIn(gs)
          BY <2>4, <3>4
        <4>2. Cardinality(AsRecentIn(k, sn)) >= MaxGroups
          BY <3>2, <4>1 DEF DedupInv
        <4>3. /\ Cardinality(AsRecentIn(k, sn)) <= Cardinality(AsRecentIn(k, sn2))
              /\ Cardinality(AsRecentIn(k, sn)) \in Int
              /\ Cardinality(AsRecentIn(k, sn2)) \in Int
          BY <1>10, <3>2, AsRecentIsFinite
        <4> QED
          BY <4>2, <4>3, DedupAssumption
      <3> QED
        BY <3>3, <3>4
    <2>12. DedupInv(room, sn2)
      BY <1>8, <1>10, <1>13, <1>16, <2>10, <2>11 DEF DedupInv
    <2> QED
      BY <2>4, <2>6, <2>12
  <1> QED
    BY <1>8, <1>15, <1>16 DEF room, app

(* Joining a group starts its window again and preserves the invariant.    *)
LEMMA JoinPreserves ==
    ASSUME NEW gs, NEW sn, DedupInv(gs, sn),
           \A g \in Items(gs) : g.expires > 0,
           NEW old \in Items(gs), NEW joined \in Group,
           joined.key = old.key, joined.expires = DedupWindow,
           joined.count = old.count + 1,
           NEW gs2, gs2 = [i \in DOMAIN gs |->
                             IF gs[i].key = old.key THEN joined ELSE gs[i]],
           NEW sn2, Witness(old.key, sn, sn2)
    PROVE  DedupInv(gs2, sn2) /\ LiveIn(gs2) = LiveIn(gs)
  <1> DEFINE key == old.key
  <1>1. /\ gs \in Seq(Group) /\ DistinctKeys(gs) /\ Len(gs) <= MaxGroups
        /\ sn \in [Keys -> SeenRecord] /\ IsFiniteSet(RecentIn(sn))
    BY DEF DedupInv
  <1>2. Len(gs) \in Nat /\ DOMAIN gs = 1..Len(gs) /\ gs \in [1..Len(gs) -> Group]
    BY <1>1, LenProperties
  <1>3. gs2 \in [1..Len(gs) -> Group]
    BY <1>2
  <1>4. gs2 \in Seq(Group)
    BY <1>2, <1>3, SeqDef
  <1>5. DOMAIN gs2 = DOMAIN gs /\ Len(gs2) = Len(gs)
    BY <1>2, <1>3, <1>4, LenProperties
  <1>6. \A i \in DOMAIN gs : gs2[i].key = gs[i].key
    OBVIOUS
  <1>7. DistinctKeys(gs2)
    BY <1>1, <1>5, <1>6 DEF DistinctKeys
  <1>8. Items(gs2) = {g \in Items(gs) : g.key # key} \cup {joined}
    <2>1. \A i \in DOMAIN gs : gs2[i] \in {g \in Items(gs) : g.key # key} \cup {joined}
      BY DEF Items
    <2>2. \A i \in DOMAIN gs : gs[i].key # key => gs2[i] = gs[i]
      OBVIOUS
    <2>3. \E i \in DOMAIN gs : gs2[i] = joined
      BY DEF Items
    <2> QED
      BY <1>5, <2>1, <2>2, <2>3 DEF Items
  <1>9. \A g \in Items(gs2) : g.expires > 0
    BY <1>8, DedupAssumption
  <1>10. LiveIn(gs2) = LiveIn(gs)
    <2>1. KeysOf(gs2) = KeysOf(gs)
      BY <1>5, <1>6 DEF KeysOf
    <2> QED
      BY <1>9, <2>1, KeysAndItems
  <1>11. key \in Keys /\ \A g \in Items(gs) : g.key \in Keys /\ g.count \in Nat
    BY <1>1, ItemsAreGroups, GroupFields
  <1>12. key \in LiveIn(gs)
    BY DEF LiveIn
  <1>13. /\ sn2 \in [Keys -> SeenRecord]
         /\ IsFiniteSet(RecentIn(sn2))
         /\ \A k \in RecentIn(sn2) \ {key} :
               k \in RecentIn(sn) /\ AsRecentIn(k, sn) \subseteq AsRecentIn(k, sn2)
    BY <1>1, <1>11, WitnessRecency DEF Witness
  <1>14. \A k \in Keys : sn[k].age \in 0..DedupWindow /\ sn[k].burst \in Nat
    BY <1>1 DEF SeenRecord
  <1>15. \A g \in Items(gs2) : /\ g.expires = DedupWindow - sn2[g.key].age
                               /\ g.count <= sn2[g.key].burst
    <2>1. /\ joined.expires = DedupWindow - sn2[key].age
          /\ joined.count <= sn2[key].burst
      <3>1. old.count <= sn[key].burst
        BY DEF DedupInv
      <3> QED
        BY <1>11, <1>14, <3>1, DedupAssumption DEF Witness
    <2>2. \A g \in Items(gs) : g.key # key => /\ g.expires = DedupWindow - sn2[g.key].age
                                              /\ g.count <= sn2[g.key].burst
      BY <1>11 DEF DedupInv, Witness
    <2> QED
      BY <1>8, <2>1, <2>2
  <1>16. \A g \in Items(gs2) : \A k \in Keys :
            sn2[k].age < sn2[g.key].age => k \in LiveIn(gs2)
    <2> SUFFICES ASSUME NEW g \in Items(gs2), NEW k \in Keys,
                        sn2[k].age < sn2[g.key].age
                 PROVE  k \in LiveIn(gs)
      BY <1>10
    <2>1. CASE k = key
      BY <1>12, <2>1
    <2>2. CASE g = joined
      <3>1. sn2[k].age < 0 /\ sn2[k].age \in 0..DedupWindow
        BY <2>2, <1>13 DEF Witness, SeenRecord
      <3> QED
        BY <3>1, DedupAssumption
    <2>3. CASE k # key /\ g # joined
      <3>1. g \in Items(gs) /\ sn[k].age < sn[g.key].age
        BY <2>3, <1>8, <1>11 DEF Witness
      <3> QED
        BY <3>1 DEF DedupInv
    <2> QED
      BY <2>1, <2>2, <2>3
  <1>17. \A k \in RecentIn(sn2) \ LiveIn(gs2) :
             Cardinality(AsRecentIn(k, sn2)) >= MaxGroups
    <2> SUFFICES ASSUME NEW k \in RecentIn(sn2) \ LiveIn(gs)
                 PROVE  Cardinality(AsRecentIn(k, sn2)) >= MaxGroups
      BY <1>10
    <2>1. k \in RecentIn(sn) /\ AsRecentIn(k, sn) \subseteq AsRecentIn(k, sn2)
      BY <1>12, <1>13
    <2>2. Cardinality(AsRecentIn(k, sn)) >= MaxGroups
      BY <2>1 DEF DedupInv
    <2>3. /\ Cardinality(AsRecentIn(k, sn)) <= Cardinality(AsRecentIn(k, sn2))
          /\ Cardinality(AsRecentIn(k, sn)) \in Int
          /\ Cardinality(AsRecentIn(k, sn2)) \in Int
      BY <1>13, <2>1, AsRecentIsFinite
    <2> QED
      BY <2>2, <2>3, DedupAssumption
  <1> QED
    BY <1>1, <1>4, <1>5, <1>7, <1>10, <1>13, <1>15, <1>16, <1>17 DEF DedupInv

(* A tick of the clock preserves the invariant: a group and the memory of  *)
(* its last alert expire together.                                         *)
LEMMA ElapsePreserves ==
    ASSUME NEW gs, NEW sn, DedupInv(gs, sn),
           NEW gs2 \in Seq(Group), Len(gs2) = Len(gs),
           \A i \in DOMAIN gs :
               /\ gs2[i].key = gs[i].key
               /\ gs2[i].count = gs[i].count
               /\ gs2[i].expires = IF gs[i].expires > 0 THEN gs[i].expires - 1 ELSE 0,
           NEW sn2 \in [Keys -> SeenRecord],
           \A k \in Keys :
               IF sn[k].age + 1 < DedupWindow
                 THEN sn2[k].age = sn[k].age + 1 /\ sn2[k].burst = sn[k].burst
                 ELSE sn2[k].age = DedupWindow
    PROVE  DedupInv(gs2, sn2) /\ LiveIn(gs2) \subseteq LiveIn(gs)
  <1>1. /\ gs \in Seq(Group) /\ DistinctKeys(gs) /\ Len(gs) <= MaxGroups
        /\ sn \in [Keys -> SeenRecord] /\ IsFiniteSet(RecentIn(sn))
    BY DEF DedupInv
  <1>2. DOMAIN gs2 = DOMAIN gs
    BY <1>1, LenProperties
  <1>3. DistinctKeys(gs2)
    BY <1>1, <1>2 DEF DistinctKeys
  <1>4. \A i \in DOMAIN gs : /\ gs[i] \in Items(gs)
                             /\ gs[i].key \in Keys
                             /\ gs[i].expires \in 0..DedupWindow
    BY <1>1, ItemsAreGroups, GroupFields DEF Items
  <1>5. \A k \in Keys : sn[k].age \in 0..DedupWindow
    BY <1>1 DEF SeenRecord
  <1>6. \A i \in DOMAIN gs : gs2[i].expires > 0 =>
           /\ gs[i].expires > 0
           /\ gs2[i].expires = gs[i].expires - 1
           /\ gs[i].expires = DedupWindow - sn[gs[i].key].age
           /\ gs[i].count <= sn[gs[i].key].burst
           /\ sn[gs[i].key].age + 1 < DedupWindow
    <2> SUFFICES ASSUME NEW i \in DOMAIN gs, gs2[i].expires > 0
                 PROVE  /\ gs[i].expires > 0
                        /\ gs2[i].expires = gs[i].expires - 1
                        /\ gs[i].expires = DedupWindow - sn[gs[i].key].age
                        /\ gs[i].count <= sn[gs[i].key].burst
                        /\ sn[gs[i].key].age + 1 < DedupWindow
      OBVIOUS
    <2>1. gs[i].expires > 0 /\ gs2[i].expires = gs[i].expires - 1
      OBVIOUS
    <2>2. /\ gs[i].expires = DedupWindow - sn[gs[i].key].age
          /\ gs[i].count <= sn[gs[i].key].burst
      BY <1>4, <2>1 DEF DedupInv
    <2>3. sn[gs[i].key].age + 1 < DedupWindow
      BY <1>4, <1>5, <2>1, <2>2, DedupAssumption
    <2> QED
      BY <2>1, <2>2, <2>3
  <1>7. \A g \in Items(gs2) : g.expires > 0 =>
          /\ g.expires = DedupWindow - sn2[g.key].age
          /\ g.count <= sn2[g.key].burst
    <2> SUFFICES ASSUME NEW i \in DOMAIN gs, gs2[i].expires > 0
                 PROVE  /\ gs2[i].expires = DedupWindow - sn2[gs2[i].key].age
                        /\ gs2[i].count <= sn2[gs2[i].key].burst
      BY <1>2 DEF Items
    <2>1. /\ sn2[gs[i].key].age = sn[gs[i].key].age + 1
          /\ sn2[gs[i].key].burst = sn[gs[i].key].burst
      BY <1>4, <1>6
    <2>2. gs2[i].key = gs[i].key /\ gs2[i].count = gs[i].count
      OBVIOUS
    <2>3. gs2[i].count <= sn2[gs2[i].key].burst
      BY <1>6, <2>1, <2>2
    <2>4. /\ gs2[i].expires = gs[i].expires - 1
          /\ gs[i].expires = DedupWindow - sn[gs[i].key].age
      BY <1>6
    <2>5. DedupWindow \in Int /\ sn[gs[i].key].age \in Int
      BY <1>4, <1>5, DedupAssumption
    <2>6. gs2[i].expires = DedupWindow - sn2[gs2[i].key].age
      BY <2>1, <2>2, <2>4, <2>5
    <2> QED
      BY <2>3, <2>6
  <1>8. \A k \in Keys, j \in Keys :
           /\ sn[j].age <= sn[k].age => sn2[j].age <= sn2[k].age
           /\ sn2[j].age < sn2[k].age => sn[j].age < sn[k].age
    BY <1>5, DedupAssumption
  <1>9. LiveIn(gs2) \subseteq LiveIn(gs)
    <2> SUFFICES ASSUME NEW i \in DOMAIN gs, gs2[i].expires > 0
                 PROVE  gs2[i].key \in LiveIn(gs)
      BY <1>2 DEF LiveIn, Items
    <2> QED
      BY <1>4, <1>6 DEF LiveIn
  <1>10. \A k \in LiveIn(gs) : sn2[k].age < DedupWindow => k \in LiveIn(gs2)
    <2> SUFFICES ASSUME NEW i \in DOMAIN gs, gs[i].expires > 0,
                        sn2[gs[i].key].age < DedupWindow
                 PROVE  gs[i].key \in LiveIn(gs2)
      BY DEF LiveIn, Items
    <2>1. gs[i].expires = DedupWindow - sn[gs[i].key].age
      BY <1>4 DEF DedupInv
    <2>2. sn[gs[i].key].age + 1 < DedupWindow
      BY <1>4, DedupAssumption
    <2>3. gs2[i].expires > 0
      BY <1>4, <1>5, <2>1, <2>2, DedupAssumption
    <2>4. gs2[i] \in Items(gs2) /\ gs2[i].key = gs[i].key
      BY <1>2 DEF Items
    <2> QED
      BY <2>3, <2>4 DEF LiveIn
  <1>11. \A g \in Items(gs2) : g.expires > 0 =>
            \A k \in Keys : sn2[k].age < sn2[g.key].age => k \in LiveIn(gs2)
    <2> SUFFICES ASSUME NEW i \in DOMAIN gs, gs2[i].expires > 0, NEW k \in Keys,
                        sn2[k].age < sn2[gs2[i].key].age
                 PROVE  k \in LiveIn(gs2)
      BY <1>2 DEF Items
    <2>1. sn[k].age < sn[gs[i].key].age
      BY <1>4, <1>8
    <2>2. k \in LiveIn(gs)
      BY <1>4, <1>6, <2>1 DEF DedupInv
    <2>3. sn2[k].age < DedupWindow
      <3>1. sn2[gs[i].key].age \in 0..DedupWindow /\ sn2[k].age \in 0..DedupWindow
        BY <1>4 DEF SeenRecord
      <3> QED
        BY <3>1, DedupAssumption
    <2> QED
      BY <1>10, <2>2, <2>3
  <1>12. RecentIn(sn2) \subseteq RecentIn(sn)
    BY <1>5, DedupAssumption DEF RecentIn
  <1>13. IsFiniteSet(RecentIn(sn2))
    BY <1>1, <1>12, FS_Subset
  <1>14. \A k \in RecentIn(sn2) \ LiveIn(gs2) :
             Cardinality(AsRecentIn(k, sn2)) >= MaxGroups
    <2> SUFFICES ASSUME NEW k \in RecentIn(sn2) \ LiveIn(gs2)
                 PROVE  Cardinality(AsRecentIn(k, sn2)) >= MaxGroups
      OBVIOUS
    <2>1. k \in RecentIn(sn) /\ k \notin LiveIn(gs)
      BY <1>10, <1>12 DEF RecentIn
    <2>2. AsRecentIn(k, sn) \subseteq AsRecentIn(k, sn2)
      BY <1>8, <2>1 DEF AsRecentIn, RecentIn
    <2>3. Cardinality(AsRecentIn(k, sn)) >= MaxGroups
      BY <2>1 DEF DedupInv
    <2>4. /\ Cardinality(AsRecentIn(k, sn)) <= Cardinality(AsRecentIn(k, sn2))
          /\ Cardinality(AsRecentIn(k, sn)) \in Int
          /\ Cardinality(AsRecentIn(k, sn2)) \in Int
      BY <1>13, <2>2, AsRecentIsFinite
    <2> QED
      BY <2>3, <2>4, DedupAssumption
  <1> QED
    BY <1>1, <1>3, <1>7, <1>9, <1>11, <1>13, <1>14 DEF DedupInv

----------------------------------------------------------------------------
DedupNodes ==
    [is_duplicate : BOOLEAN, count : Nat \ {0}, ips : SUBSET Ips] \cup {NoNode}

(* The inductive invariant of the deduplicator's variables.                *)
DedupInvariant == DedupInv(groups, seen) /\ dedup \in DedupNodes

(* LiveKeys is LiveIn of the variable.                                     *)
LEMMA LiveKeysAreLive == LiveKeys = LiveIn(groups)
  BY DEF LiveKeys, LiveIn, Items

(* The key and the destinations of an alert.                               *)
LEMMA AlertKey ==
    ASSUME NEW alert \in Alerts
    PROVE  DedupKey(alert) \in Keys /\ Destinations(alert) \in SUBSET Ips
  BY DEF Keys, Destinations, Ips

(* _new_group makes a group of one alert.                                  *)
LEMMA NewGroupProperties ==
    ASSUME NEW alert \in Alerts
    PROVE  /\ NewGroup(alert) \in Group
           /\ NewGroup(alert).key = DedupKey(alert)
           /\ NewGroup(alert).expires = DedupWindow
           /\ NewGroup(alert).count = 1
           /\ NewGroup(alert).ips \in SUBSET Ips
  <1> HIDE DEF Keys, Ips, DedupKey, Destinations
  <1>1. DedupWindow \in 0..DedupWindow /\ 1 \in Nat \ {0}
    BY DedupAssumption
  <1> QED
    BY <1>1, AlertKey DEF NewGroup, Group

(* What evaluate() changes in the group of a duplicate.                    *)
LEMMA ExtendProperties ==
    ASSUME NEW alert \in Alerts, NEW g \in Group
    PROVE  /\ Extend(g, alert) \in Group
           /\ Extend(g, alert).key = g.key
           /\ Extend(g, alert).expires = DedupWindow
           /\ Extend(g, alert).count = g.count + 1
           /\ Extend(g, alert).ips \in SUBSET Ips
  <1>1. /\ DedupWindow \in 0..DedupWindow
        /\ g.count + 1 \in Nat \ {0}
        /\ g.ips \cup Destinations(alert) \in SUBSET Ips
    BY GroupFields, AlertKey, DedupAssumption
  <1> QED
    BY <1>1 DEF Extend, Group

(* The node of a group.                                                    *)
LEMMA DedupNodeProperties ==
    ASSUME NEW g \in Group, NEW is_duplicate \in BOOLEAN
    PROVE  /\ DedupNode(g, is_duplicate) \in DedupNodes
           /\ DedupNode(g, is_duplicate).is_duplicate = is_duplicate
  BY GroupFields DEF DedupNode, DedupNodes

(* The history after an alert with a key.                                  *)
LEMMA WitnessedProperties ==
    ASSUME seen \in [Keys -> SeenRecord], NEW key \in Keys
    PROVE  Witness(key, seen, Witnessed(key))
  <1> DEFINE new == [age |-> 0, burst |-> seen[key].burst + 1]
  <1>1. new \in SeenRecord /\ new.age = 0 /\ new.burst = seen[key].burst + 1
    BY DedupAssumption DEF SeenRecord
  <1>2. Witnessed(key) = [seen EXCEPT ![key] = new]
    BY DEF Witnessed
  <1> HIDE DEF new
  <1> QED
    BY <1>1, <1>2 DEF Witness

(* The deduplicator starts with the invariant.                             *)
LEMMA InitDedupInvariant == InitDedup => DedupInvariant
  <1> SUFFICES ASSUME InitDedup PROVE DedupInvariant
    OBVIOUS
  <1>1. groups = <<>> /\ groups \in Seq(Group) /\ Len(groups) = 0
    BY EmptySeq DEF InitDedup
  <1>2. Items(groups) = {} /\ DistinctKeys(groups)
    BY <1>1, LenProperties DEF Items, DistinctKeys
  <1>3. seen \in [Keys -> SeenRecord] /\ \A k \in Keys : seen[k].age = DedupWindow
    BY DedupAssumption DEF InitDedup, SeenRecord
  <1>4. RecentIn(seen) = {}
    BY <1>3, DedupAssumption DEF RecentIn
  <1>5. dedup \in DedupNodes
    BY DEF InitDedup, DedupNodes
  <1> QED
    BY <1>1, <1>2, <1>3, <1>4, <1>5, FS_EmptySet, DedupAssumption
       DEF DedupInvariant, DedupInv

(* Any other document only cleans up.                                      *)
LEMMA EvaluateOtherPreserves ==
    ASSUME DedupInvariant, EvaluateOther
    PROVE  DedupInvariant' /\ LiveKeys' = LiveKeys /\ seen' = seen
  <1>1. DedupInv(groups', seen) /\ LiveIn(groups') = LiveIn(groups)
    BY CleanupPreserves DEF EvaluateOther, DedupInvariant
  <1>2. seen' = seen /\ dedup' \in DedupNodes
    BY DEF EvaluateOther, DedupNodes
  <1>3. LiveKeys' = LiveIn(groups')
    BY DEF LiveKeys, LiveIn, Items
  <1> QED
    BY <1>1, <1>2, <1>3, LiveKeysAreLive DEF DedupInvariant

(* The first alert of a burst opens a group, which is there afterwards.    *)
LEMMA OpenGroupPreserves ==
    ASSUME DedupInvariant, NEW alert \in Alerts, OpenGroup(alert)
    PROVE  /\ DedupInvariant'
           /\ DedupKey(alert) \in LiveKeys'
           /\ LiveKeys' \subseteq LiveKeys \cup {DedupKey(alert)}
           /\ \A k \in Keys \ {DedupKey(alert)} : seen'[k] = seen[k]
           /\ dedup'.is_duplicate = FALSE
  <1> DEFINE live == CleanupExpired(groups)
             new == NewGroup(alert)
  <1>1. /\ DedupInv(live, seen)
        /\ LiveIn(live) = LiveIn(groups)
        /\ \A g \in Items(live) : g.expires > 0
    BY CleanupPreserves DEF DedupInvariant
  <1>2. /\ new.key \notin KeysOf(live)
        /\ groups' = EnforceMaxGroups(Append(live, new))
        /\ dedup' = DedupNode(new, FALSE)
        /\ seen' = Witnessed(new.key)
    BY NewGroupProperties DEF OpenGroup
  <1>3. /\ new \in Group
        /\ new.key = DedupKey(alert)
        /\ new.expires = DedupWindow
        /\ new.count = 1
        /\ new.key \in Keys
    BY NewGroupProperties, AlertKey
  <1> HIDE DEF live, new
  <1>4. Witness(new.key, seen, seen')
    BY <1>2, <1>3, WitnessedProperties DEF DedupInvariant, DedupInv
  <1>5. /\ DedupInv(groups', seen')
        /\ new.key \in LiveIn(groups')
        /\ LiveIn(groups') \subseteq LiveIn(live) \cup {new.key}
    BY <1>1, <1>2, <1>3, <1>4, OpenPreserves
  <1>6. dedup' \in DedupNodes /\ dedup'.is_duplicate = FALSE
    BY <1>2, <1>3, DedupNodeProperties
  <1>7. LiveKeys' = LiveIn(groups')
    BY DEF LiveKeys, LiveIn, Items
  <1>8. DedupInvariant'
    BY <1>5, <1>6 DEF DedupInvariant, DedupNodes
  <1> QED
    BY <1>1, <1>3, <1>4, <1>5, <1>6, <1>7, <1>8, LiveKeysAreLive DEF Witness

(* A duplicate changes no set of live keys, and is one of a burst.         *)
LEMMA JoinGroupPreserves ==
    ASSUME DedupInvariant, NEW alert \in Alerts, JoinGroup(alert)
    PROVE  /\ DedupInvariant'
           /\ DedupKey(alert) \in LiveKeys
           /\ LiveKeys' = LiveKeys
           /\ \A k \in Keys \ {DedupKey(alert)} : seen'[k] = seen[k]
           /\ seen[DedupKey(alert)].burst > 0
           /\ dedup'.is_duplicate = TRUE
  <1> DEFINE live == CleanupExpired(groups)
             key == DedupKey(alert)
             old == GroupOf(key, live)
             joined == Extend(old, alert)
  <1>1. /\ DedupInv(live, seen)
        /\ LiveIn(live) = LiveIn(groups)
        /\ \A g \in Items(live) : g.expires > 0
    BY CleanupPreserves DEF DedupInvariant
  <1>2. /\ key \in KeysOf(live)
        /\ groups' = [i \in DOMAIN live |->
                        IF live[i].key = key THEN joined ELSE live[i]]
        /\ dedup' = DedupNode(joined, TRUE)
        /\ seen' = Witnessed(key)
    BY DEF JoinGroup
  <1> HIDE DEF live, key
  <1>3. old \in Items(live) /\ old.key = key
    <2>1. \E i \in DOMAIN live : live[i].key = key
      BY <1>2 DEF KeysOf
    <2> QED
      BY <2>1 DEF GroupOf, Items
  <1>4. live \in Seq(Group) /\ old \in Group
    BY <1>1, <1>3, ItemsAreGroups DEF DedupInv
  <1>5. /\ joined \in Group
        /\ joined.key = key
        /\ joined.expires = DedupWindow
        /\ joined.count = old.count + 1
    BY <1>3, <1>4, ExtendProperties
  <1>6. key \in Keys
    BY AlertKey DEF key
  <1> HIDE DEF old, joined
  <1>7. Witness(key, seen, seen')
    BY <1>2, <1>6, WitnessedProperties DEF DedupInvariant, DedupInv
  <1>8. DedupInv(groups', seen') /\ LiveIn(groups') = LiveIn(live)
    BY <1>1, <1>2, <1>3, <1>5, <1>7, JoinPreserves
  <1>9. dedup' \in DedupNodes /\ dedup'.is_duplicate = TRUE
    BY <1>2, <1>5, DedupNodeProperties
  <1>10. LiveKeys' = LiveIn(groups')
    BY DEF LiveKeys, LiveIn, Items
  <1>11. DedupInvariant'
    BY <1>8, <1>9 DEF DedupInvariant, DedupNodes
  <1>12. key \in LiveIn(live)
    BY <1>1, <1>2, KeysAndItems
  <1>13. seen[key].burst > 0
    <2>1. old.count <= seen[key].burst /\ old.count \in Nat \ {0}
      BY <1>1, <1>3, <1>4, GroupFields DEF DedupInv
    <2>2. seen[key].burst \in Nat
      BY <1>1, <1>6 DEF DedupInv, SeenRecord
    <2> QED
      BY <2>1, <2>2
  <1> QED
    BY <1>1, <1>7, <1>8, <1>9, <1>10, <1>11, <1>12, <1>13, LiveKeysAreLive
       DEF Witness, key

(* A tick opens no group, and lets no key seem to have alerted again.      *)
LEMMA DedupElapsePreserves ==
    ASSUME DedupInvariant, DedupElapse
    PROVE  /\ DedupInvariant'
           /\ LiveKeys' \subseteq LiveKeys
           /\ \A k \in Keys : seen'[k].burst <= seen[k].burst
  <1>1. groups \in Seq(Group) /\ seen \in [Keys -> SeenRecord]
    BY DEF DedupInvariant, DedupInv
  <1>2. groups \in [1..Len(groups) -> Group] /\ Len(groups) \in Nat
    BY <1>1, LenProperties
  <1>3. \A i \in DOMAIN groups :
           /\ groups'[i] \in Group
           /\ groups'[i].key = groups[i].key
           /\ groups'[i].count = groups[i].count
           /\ groups'[i].expires =
                 IF groups[i].expires > 0 THEN groups[i].expires - 1 ELSE 0
    <2> SUFFICES ASSUME NEW i \in DOMAIN groups
                 PROVE  /\ groups'[i] \in Group
                        /\ groups'[i].key = groups[i].key
                        /\ groups'[i].count = groups[i].count
                        /\ groups'[i].expires =
                              IF groups[i].expires > 0
                                THEN groups[i].expires - 1 ELSE 0
      OBVIOUS
    <2> DEFINE g == groups[i]
               left == IF g.expires > 0 THEN g.expires - 1 ELSE 0
    <2>1. g \in Group
      BY <1>2
    <2>2. groups'[i] = [g EXCEPT !.expires = left]
      BY DEF DedupElapse
    <2>3. left \in 0..DedupWindow
      BY <2>1, GroupFields, DedupAssumption
    <2> HIDE DEF g, left
    <2>4. /\ [g EXCEPT !.expires = left] \in Group
          /\ [g EXCEPT !.expires = left].key = g.key
          /\ [g EXCEPT !.expires = left].count = g.count
          /\ [g EXCEPT !.expires = left].expires = left
      BY <2>1, <2>3 DEF Group
    <2> QED
      BY <2>2, <2>4 DEF g, left
  <1>4. DOMAIN groups' = 1..Len(groups)
    BY <1>2 DEF DedupElapse
  <1>5. groups' \in [1..Len(groups) -> Group]
    BY <1>2, <1>3, <1>4 DEF DedupElapse
  <1>6. groups' \in Seq(Group) /\ Len(groups') = Len(groups)
    BY <1>2, <1>5, SeqDef, LenProperties
  <1>7. \A k \in Keys : /\ Aged(k) \in SeenRecord
                        /\ IF seen[k].age + 1 < DedupWindow
                             THEN /\ Aged(k).age = seen[k].age + 1
                                  /\ Aged(k).burst = seen[k].burst
                             ELSE Aged(k).age = DedupWindow /\ Aged(k).burst = 0
    <2> SUFFICES ASSUME NEW k \in Keys
                 PROVE  /\ Aged(k) \in SeenRecord
                        /\ IF seen[k].age + 1 < DedupWindow
                             THEN /\ Aged(k).age = seen[k].age + 1
                                  /\ Aged(k).burst = seen[k].burst
                             ELSE Aged(k).age = DedupWindow /\ Aged(k).burst = 0
      OBVIOUS
    <2> DEFINE r == seen[k]
    <2>1. r \in SeenRecord
      BY <1>1
    <2>2. CASE r.age + 1 < DedupWindow
      <3>1. Aged(k) = [r EXCEPT !.age = @ + 1]
        BY <2>2 DEF Aged
      <3>2. r.age + 1 \in 0..DedupWindow
        BY <2>1, <2>2, DedupAssumption DEF SeenRecord
      <3> HIDE DEF r
      <3>3. /\ [r EXCEPT !.age = @ + 1] \in SeenRecord
            /\ [r EXCEPT !.age = @ + 1].age = r.age + 1
            /\ [r EXCEPT !.age = @ + 1].burst = r.burst
        BY <2>1, <3>2 DEF SeenRecord
      <3> QED
        BY <2>2, <3>1, <3>3 DEF r
    <2>3. CASE ~(r.age + 1 < DedupWindow)
      <3>1. Aged(k) = [age |-> DedupWindow, burst |-> 0]
        BY <2>3 DEF Aged
      <3> QED
        BY <2>3, <3>1, DedupAssumption DEF SeenRecord
    <2> QED
      BY <2>2, <2>3
  <1>8. seen' = [k \in Keys |-> Aged(k)] /\ dedup' = dedup
    BY DEF DedupElapse
  <1> HIDE DEF Aged
  <1>9. /\ seen' \in [Keys -> SeenRecord]
        /\ \A k \in Keys : IF seen[k].age + 1 < DedupWindow
                             THEN /\ seen'[k].age = seen[k].age + 1
                                  /\ seen'[k].burst = seen[k].burst
                             ELSE seen'[k].age = DedupWindow
    BY <1>7, <1>8
  <1>10. DedupInv(groups', seen') /\ LiveIn(groups') \subseteq LiveIn(groups)
    BY <1>3, <1>6, <1>9, ElapsePreserves DEF DedupInvariant
  <1>11. \A k \in Keys : seen'[k].burst <= seen[k].burst
    <2>1. \A k \in Keys : seen[k].burst \in Nat
      BY <1>1 DEF SeenRecord
    <2> QED
      BY <1>7, <1>8, <2>1
  <1>12. LiveKeys' = LiveIn(groups')
    BY DEF LiveKeys, LiveIn, Items
  <1>13. DedupInvariant'
    BY <1>8, <1>10 DEF DedupInvariant, DedupNodes
  <1> QED
    BY <1>10, <1>11, <1>12, <1>13, LiveKeysAreLive

----------------------------------------------------------------------------
(* GroupOf finds the one group of a live key.                              *)
LEMMA GroupOfLiveKey ==
    ASSUME NEW gs \in Seq(Group), DistinctKeys(gs), NEW k \in LiveIn(gs)
    PROVE  /\ GroupOf(k, gs) \in Items(gs)
           /\ GroupOf(k, gs).key = k
           /\ GroupOf(k, gs).expires > 0
  <1>1. PICK g \in Items(gs) : g.key = k /\ g.expires > 0
    BY DEF LiveIn
  <1>2. \E i \in DOMAIN gs : gs[i].key = k
    BY <1>1 DEF Items
  <1>3. GroupOf(k, gs) \in Items(gs) /\ GroupOf(k, gs).key = k
    BY <1>2 DEF GroupOf, Items
  <1>4. GroupOf(k, gs) = g
    BY <1>1, <1>3, OneGroupPerKey
  <1> QED
    BY <1>1, <1>3, <1>4

(* The types of the deduplicator's variables.                              *)
LEMMA DedupTypeCorrect == DedupInvariant => DedupTypeOK
  BY DEF DedupInvariant, DedupInv, DedupTypeOK, DedupNodes, SeenRecord

(* The dict is within max_groups, with one group per key.                  *)
LEMMA DedupLimit == DedupInvariant => GroupLimit
  BY KeysCount DEF DedupInvariant, DedupInv, GroupLimit

(* No group counts an alert from before a silence of window_seconds.       *)
LEMMA DedupCounts == DedupInvariant => CountsOneBurst
  <1> SUFFICES ASSUME DedupInvariant, NEW k \in LiveKeys
               PROVE  GroupOf(k, groups).count <= seen[k].burst
    BY DEF CountsOneBurst
  <1>1. k \in LiveIn(groups)
    BY LiveKeysAreLive
  <1>2. /\ GroupOf(k, groups) \in Items(groups)
        /\ GroupOf(k, groups).key = k
        /\ GroupOf(k, groups).expires > 0
    BY <1>1, GroupOfLiveKey DEF DedupInvariant, DedupInv
  <1> QED
    BY <1>2 DEF DedupInvariant, DedupInv

(* The live groups are those of the max_groups latest keys, with the rest  *)
(* of their window.                                                        *)
LEMMA DedupLatest == DedupInvariant => GroupsAreTheLatest
  <1> SUFFICES ASSUME DedupInvariant PROVE GroupsAreTheLatest
    OBVIOUS
  <1>1. /\ groups \in Seq(Group) /\ DistinctKeys(groups) /\ Len(groups) <= MaxGroups
        /\ seen \in [Keys -> SeenRecord] /\ IsFiniteSet(RecentIn(seen))
    BY DEF DedupInvariant, DedupInv
  <1>2. \A k \in Keys : seen[k].age \in 0..DedupWindow
    BY <1>1 DEF SeenRecord
  <1>3. ASSUME NEW k \in LiveKeys
        PROVE  /\ GroupOf(k, groups).expires = DedupWindow - seen[k].age
               /\ Cardinality(MoreRecent(k)) < MaxGroups
    <2> DEFINE g == GroupOf(k, groups)
    <2>1. k \in LiveIn(groups)
      BY LiveKeysAreLive
    <2>2. g \in Items(groups) /\ g.key = k /\ g.expires > 0
      BY <1>1, <2>1, GroupOfLiveKey
    <2> HIDE DEF g
    <2>3. g.expires = DedupWindow - seen[k].age
      BY <2>2 DEF DedupInvariant, DedupInv
    <2>4. k \in Keys
      BY <1>1, <2>2, ItemsAreGroups, GroupFields
    <2>5. MoreRecent(k) \subseteq LiveIn(groups)
      BY <2>2 DEF MoreRecent, DedupInvariant, DedupInv
    <2>6. k \notin MoreRecent(k)
      BY <1>2, <2>4 DEF MoreRecent
    <2>7. IsFiniteSet(KeysOf(groups)) /\ Cardinality(KeysOf(groups)) = Len(groups)
      BY <1>1, KeysCount
    <2>8. MoreRecent(k) \in SUBSET KeysOf(groups) /\ k \in KeysOf(groups)
      BY <2>1, <2>5, KeysAndItems
    <2>9. Cardinality(MoreRecent(k)) < Len(groups)
      BY <2>6, <2>7, <2>8, ProperSubsetIsSmaller
    <2>10. Cardinality(MoreRecent(k)) \in Int /\ Len(groups) \in Int
      BY <1>1, <2>7, <2>8, FS_Subset, FS_CardinalityType, LenProperties
    <2> QED
      BY <1>1, <2>3, <2>9, <2>10, DedupAssumption DEF g
  <1>4. ASSUME NEW k \in Keys, seen[k].age < DedupWindow,
               Cardinality(AsRecent(k)) < MaxGroups
        PROVE  k \in LiveKeys
    <2>1. k \in RecentIn(seen) /\ AsRecent(k) = AsRecentIn(k, seen)
      BY <1>4 DEF RecentIn, AsRecent, AsRecentIn
    <2>2. Cardinality(AsRecentIn(k, seen)) \in Int
      BY <1>1, <2>1, AsRecentIsFinite
    <2>3. k \notin LiveIn(groups) => Cardinality(AsRecentIn(k, seen)) >= MaxGroups
      BY <2>1 DEF DedupInvariant, DedupInv
    <2>4. k \in LiveIn(groups)
      BY <1>4, <2>1, <2>2, <2>3, DedupAssumption
    <2> QED
      BY <2>4, LiveKeysAreLive
  <1> QED
    BY <1>3, <1>4 DEF GroupsAreTheLatest

(* What EveryAlertHasItsGroup says of a step.                              *)
AlertHasItsGroup ==
    \A k \in Keys : seen'[k].burst > seen[k].burst =>
        /\ k \in LiveKeys'
        /\ dedup'.is_duplicate => seen[k].burst > 0

(* evaluate() on an alert leaves its key with a group, and takes the alert *)
(* for a duplicate only in a burst.                                        *)
LEMMA EvaluateHasItsGroup ==
    ASSUME DedupInvariant, NEW alert \in Alerts, Evaluate(alert)
    PROVE  AlertHasItsGroup
  <1>1. \A k \in Keys : seen[k].burst \in Nat
    BY DEF DedupInvariant, DedupInv, SeenRecord
  <1>2. CASE OpenGroup(alert)
    <2> SUFFICES ASSUME NEW k \in Keys, seen'[k].burst > seen[k].burst
                 PROVE  k \in LiveKeys' /\ (dedup'.is_duplicate => seen[k].burst > 0)
      BY DEF AlertHasItsGroup
    <2>1. k = DedupKey(alert)
      <3>1. \A j \in Keys \ {DedupKey(alert)} : seen'[j] = seen[j]
        BY <1>2, OpenGroupPreserves
      <3>2. seen'[k] # seen[k]
        BY <1>1
      <3> QED
        BY <3>1, <3>2
    <2> QED
      BY <1>2, <2>1, OpenGroupPreserves
  <1>3. CASE JoinGroup(alert)
    <2> SUFFICES ASSUME NEW k \in Keys, seen'[k].burst > seen[k].burst
                 PROVE  k \in LiveKeys' /\ (dedup'.is_duplicate => seen[k].burst > 0)
      BY DEF AlertHasItsGroup
    <2>1. k = DedupKey(alert)
      <3>1. \A j \in Keys \ {DedupKey(alert)} : seen'[j] = seen[j]
        BY <1>3, JoinGroupPreserves
      <3>2. seen'[k] # seen[k]
        BY <1>1
      <3> QED
        BY <3>1, <3>2
    <2> QED
      BY <1>3, <2>1, JoinGroupPreserves
  <1> QED
    BY <1>2, <1>3 DEF Evaluate

(* The other steps: no key seems to have alerted.                          *)
LEMMA QuietStepHasNoAlert ==
    ASSUME DedupInvariant, EvaluateOther \/ DedupElapse
    PROVE  AlertHasItsGroup
  <1>1. \A k \in Keys : seen[k].burst \in Nat
    BY DEF DedupInvariant, DedupInv, SeenRecord
  <1>2. \A k \in Keys : seen'[k].burst <= seen[k].burst
    <2>1. CASE EvaluateOther
      BY <1>1, <2>1 DEF EvaluateOther
    <2>2. CASE DedupElapse
      BY <2>2, DedupElapsePreserves
    <2> QED
      BY <2>1, <2>2
  <1>3. \A k \in Keys : seen'[k].burst \in Nat
    <2>1. DedupInvariant'
      BY EvaluateOtherPreserves, DedupElapsePreserves
    <2> QED
      BY <2>1 DEF DedupInvariant, DedupInv, SeenRecord
  <1> QED
    BY <1>1, <1>2, <1>3 DEF AlertHasItsGroup
=============================================================================
