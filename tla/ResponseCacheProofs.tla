------------------------ MODULE ResponseCacheProofs ------------------------
(***************************************************************************)
(* Proofs about ResponseCache: its bounds, what a hit returns, and what a  *)
(* fresh answer may be dropped for.                                        *)
(***************************************************************************)
EXTENDS ResponseCache, FiniteSetTheorems, TLAPS

MaybeItem == Item \cup {NoItem}

\* What is cached under a key is the answer last put under it, and its age is
\* the time since.
ItemsLatest == \A k \in Stored(items) : latest[k] = <<items[k].answer, items[k].created>>

CInv == TypeOK /\ CapsKept /\ ItemsLatest /\ HitIsLatest

-----------------------------------------------------------------------------
(* The least recently used *)

LEMMA LeastNumber ==
  ASSUME NEW T \in SUBSET Nat, T # {}
  PROVE  \E m \in T : \A n \in T : m <= n
<1>1. PICK m \in T : \A n \in T : ~(<<n, m>> \in OpToRel(<, Nat))
  BY NatLessThanWellFounded, WFMin
<1>2. \A n \in T : ~(n < m)
  BY <1>1 DEF OpToRel
<1> QED
  BY <1>2

\* Of a set of stored keys exactly one is the oldest, since ranks break ties:
\* it is the one with the fewest keys before it.
LEMMA OldestIs ==
  ASSUME NEW map \in [Keys -> MaybeItem], NEW K \in SUBSET Stored(map), K # {}
  PROVE  \E m \in K : Oldest(map, K) = {m} /\ \A l \in K : map[m].last <= map[l].last
<1> DEFINE age(k)   == map[k].last
           first(k, l) == age(k) < age(l) \/ (age(k) = age(l) /\ Rank[k] < Rank[l])
           before(k) == {l \in K : first(l, k)}
           T == {Cardinality(before(k)) : k \in K}
<1>1. \A k \in K : k \in Keys /\ age(k) \in Nat /\ Rank[k] \in Int
  BY CacheAssumption DEF Stored, MaybeItem, Item
<1>2. \A k, l \in K : Rank[k] = Rank[l] => k = l
  BY <1>1, CacheAssumption
<1>3. IsFiniteSet(K)
  BY CacheAssumption, FS_Subset DEF Stored
<1>4. \A k \in K : IsFiniteSet(before(k)) /\ Cardinality(before(k)) \in Nat
  BY <1>3, FS_Subset, FS_CardinalityType
<1>5. PICK m \in K : \A k \in K : Cardinality(before(m)) <= Cardinality(before(k))
  <2>1. T \in SUBSET Nat /\ T # {}
    BY <1>4
  <2>2. PICK n \in T : \A k \in T : n <= k
    <3> HIDE DEF T
    <3> QED
      BY <2>1, LeastNumber
  <2>3. PICK m \in K : n = Cardinality(before(m))
    OBVIOUS
  <2>4. \A k \in K : Cardinality(before(k)) \in T
    OBVIOUS
  <2> QED
    BY <2>2, <2>3, <2>4
<1>6. ASSUME NEW l \in K PROVE ~first(l, m)
  <2> SUFFICES ASSUME first(l, m) PROVE FALSE
    OBVIOUS
  <2>1. before(l) \subseteq before(m) /\ l \in before(m) /\ l \notin before(l)
    <3>1. \A k \in K : first(k, l) => first(k, m)
      BY <1>1
    <3>2. ~first(l, l)
      BY <1>1
    <3> QED
      BY <3>1, <3>2
  <2> HIDE DEF before
  <2>2. Cardinality(before(l)) <= Cardinality(before(m)) /\ Cardinality(before(l)) # Cardinality(before(m))
    BY <1>4, <2>1, FS_Subset
  <2>3. Cardinality(before(m)) <= Cardinality(before(l))
    BY <1>5
  <2> QED
    BY <1>4, <2>2, <2>3
<1>7. \A l \in K : age(m) < age(l) \/ (age(m) = age(l) /\ Rank[m] <= Rank[l])
  BY <1>1, <1>6
<1>8. ASSUME NEW k \in Oldest(map, K) PROVE k = m
  <2>1. k \in K /\ (age(k) < age(m) \/ (age(k) = age(m) /\ Rank[k] <= Rank[m]))
    BY DEF Oldest
  <2>2. Rank[k] = Rank[m]
    BY <1>1, <1>7, <2>1
  <2> QED
    BY <1>2, <2>1, <2>2
<1>9. m \in Oldest(map, K)
  BY <1>7 DEF Oldest
<1>10. \A l \in K : map[m].last <= map[l].last
  BY <1>1, <1>7
<1> QED
  BY <1>8, <1>9, <1>10

-----------------------------------------------------------------------------
(* Removing entries *)

LEMMA WithoutIs ==
  ASSUME NEW map \in [Keys -> MaybeItem], NEW K
  PROVE  /\ Without(map, K) \in [Keys -> MaybeItem]
         /\ \A k \in Keys : Without(map, K)[k] = IF k \in K THEN NoItem ELSE map[k]
         /\ Stored(Without(map, K)) = Stored(map) \ K
         /\ \A k : Crowd(Without(map, K), k) = Crowd(map, k) \ K
<1>1. /\ Without(map, K) \in [Keys -> MaybeItem]
      /\ \A k \in Keys : Without(map, K)[k] = IF k \in K THEN NoItem ELSE map[k]
  BY DEF Without, MaybeItem
<1>2. Stored(Without(map, K)) = Stored(map) \ K
  BY <1>1 DEF Stored
<1> QED
  BY <1>1, <1>2 DEF Crowd

LEMMA StoredFinite ==
  ASSUME NEW map, NEW K \in SUBSET Stored(map)
  PROVE  IsFiniteSet(K) /\ Cardinality(K) \in Nat
<1>1. K \in SUBSET Keys
  BY DEF Stored
<1> QED
  BY <1>1, CacheAssumption, FS_Subset, FS_CardinalityType

\* At the limit one entry of the set goes, the least recently used.
LEMMA TrimmedIs ==
  ASSUME NEW map \in [Keys -> MaybeItem], NEW K \in SUBSET Stored(map), NEW limit \in Nat \ {0},
         Cardinality(K) <= limit
  PROVE  \/ Cardinality(K) < limit /\ Trimmed(map, K, limit) = map
         \/ /\ Cardinality(K) = limit
            /\ \E m \in K : /\ Trimmed(map, K, limit) = Without(map, {m})
                            /\ \A l \in K : map[m].last <= map[l].last
<1>1. IsFiniteSet(K) /\ Cardinality(K) \in Nat
  BY StoredFinite
<1>2. CASE Cardinality(K) < limit
  BY <1>1, <1>2 DEF Trimmed
<1>3. CASE Cardinality(K) = limit
  <2>1. K # {}
    BY <1>3, FS_EmptySet
  <2>2. PICK m \in K : Oldest(map, K) = {m} /\ \A l \in K : map[m].last <= map[l].last
    BY <2>1, OldestIs
  <2>3. Trimmed(map, K, limit) = Without(map, {m})
    BY <1>3, <2>2 DEF Trimmed
  <2> QED
    BY <1>3, <2>2, <2>3
<1>4. Cardinality(K) < limit \/ Cardinality(K) = limit
  BY <1>1
<1> QED
  BY <1>2, <1>3, <1>4

-----------------------------------------------------------------------------
(* A put makes room *)

\* The map without what has expired.
LEMMA PurgedIs ==
  ASSUME TypeOK, CapsKept
  PROVE  /\ now \in Nat /\ Purged \in [Keys -> MaybeItem]
         /\ \A k \in Keys : Purged[k] = IF Stale(k) THEN NoItem ELSE items[k]
         /\ Stored(Purged) = {k \in Stored(items) : ~Stale(k)}
         /\ Cardinality(Stored(Purged)) <= MaxItems
         /\ \A k \in Stored(Purged) : Cardinality(Crowd(Purged, k)) <= MaxPerSession
<1>1. now \in Nat /\ items \in [Keys -> MaybeItem]
  BY CacheAssumption DEF TypeOK, MaybeItem
<1> DEFINE old == {k \in Keys : Stale(k)}
<1>2. /\ Purged \in [Keys -> MaybeItem]
      /\ \A k \in Keys : Purged[k] = IF k \in old THEN NoItem ELSE items[k]
      /\ Stored(Purged) = Stored(items) \ old
      /\ \A k : Crowd(Purged, k) = Crowd(items, k) \ old
  <2> HIDE DEF old
  <2> QED
    BY <1>1, WithoutIs DEF Purged, old
<1>3. Stored(Purged) = {k \in Stored(items) : ~Stale(k)}
  BY <1>2 DEF Stored
<1>4. Cardinality(Stored(Purged)) <= MaxItems
  <2>1. IsFiniteSet(Stored(items)) /\ Stored(Purged) \in SUBSET Stored(items)
    BY <1>3, StoredFinite
  <2>2. Cardinality(Stored(Purged)) <= Cardinality(Stored(items))
        /\ Cardinality(Stored(Purged)) \in Nat /\ Cardinality(Stored(items)) \in Nat
    BY <2>1, FS_Subset, StoredFinite
  <2> QED
    BY <2>2, CacheAssumption DEF CapsKept
<1>5. ASSUME NEW k \in Stored(Purged)
      PROVE  Cardinality(Crowd(Purged, k)) <= MaxPerSession
  <2>1. Crowd(items, k) \in SUBSET Stored(items) /\ Crowd(Purged, k) \in SUBSET Crowd(items, k)
    BY <1>2 DEF Crowd
  <2>2. IsFiniteSet(Crowd(items, k)) /\ Cardinality(Crowd(items, k)) \in Nat
    BY <2>1, StoredFinite
  <2>3. Cardinality(Crowd(Purged, k)) <= Cardinality(Crowd(items, k))
        /\ Cardinality(Crowd(Purged, k)) \in Nat
    BY <2>1, <2>2, FS_Subset, FS_CardinalityType
  <2>4. k \in Stored(items)
    BY <1>3
  <2> QED
    BY <2>2, <2>3, <2>4, CacheAssumption DEF CapsKept
<1> QED
  BY <1>1, <1>2, <1>3, <1>4, <1>5

\* What is left to a session without key k is within its share, and below it if
\* k had an entry; and so for the whole cache.
LEMMA OthersIs ==
  ASSUME TypeOK, CapsKept, NEW k \in Keys, NEW own, own = Without(Purged, {k})
  PROVE  /\ own \in [Keys -> MaybeItem]
         /\ \A l \in Keys : own[l] = IF l = k THEN NoItem ELSE Purged[l]
         /\ Stored(own) = Stored(Purged) \ {k}
         /\ Cardinality(Stored(own)) <= MaxItems
         /\ Cardinality(Crowd(own, k)) <= MaxPerSession
         /\ k \in Stored(Purged) => /\ Cardinality(Stored(own)) < MaxItems
                                    /\ Cardinality(Crowd(own, k)) < MaxPerSession
<1>1. /\ Purged \in [Keys -> MaybeItem]
      /\ Cardinality(Stored(Purged)) <= MaxItems
      /\ \A l \in Stored(Purged) : Cardinality(Crowd(Purged, l)) <= MaxPerSession
  BY PurgedIs
<1>2. /\ own \in [Keys -> MaybeItem]
      /\ \A l \in Keys : own[l] = IF l = k THEN NoItem ELSE Purged[l]
      /\ Stored(own) = Stored(Purged) \ {k}
      /\ Crowd(own, k) = Crowd(Purged, k) \ {k}
  BY <1>1, WithoutIs
<1>3. MaxItems \in Nat /\ MaxPerSession \in Nat
  BY CacheAssumption
<1>4. /\ Cardinality(Stored(own)) <= MaxItems
      /\ k \in Stored(Purged) => Cardinality(Stored(own)) < MaxItems
  <2>1. IsFiniteSet(Stored(Purged)) /\ Cardinality(Stored(Purged)) \in Nat
    BY StoredFinite
  <2>2. Cardinality(Stored(own)) = IF k \in Stored(Purged) THEN Cardinality(Stored(Purged)) - 1
                                   ELSE Cardinality(Stored(Purged))
    <3>1. Stored(own) = Stored(Purged) \ {k}
      BY <1>2
    <3> QED
      BY <2>1, <3>1, FS_RemoveElement
  <2> QED
    BY <1>1, <1>3, <2>1, <2>2
<1>5. /\ Cardinality(Crowd(own, k)) <= MaxPerSession
      /\ k \in Stored(Purged) => Cardinality(Crowd(own, k)) < MaxPerSession
  <2>1. Crowd(Purged, k) \in SUBSET Stored(Purged)
    BY DEF Crowd
  <2>2. IsFiniteSet(Crowd(Purged, k)) /\ Cardinality(Crowd(Purged, k)) \in Nat
    BY <2>1, StoredFinite
  <2>3. Cardinality(Crowd(own, k)) = IF k \in Crowd(Purged, k) THEN Cardinality(Crowd(Purged, k)) - 1
                                     ELSE Cardinality(Crowd(Purged, k))
    <3>1. Crowd(own, k) = Crowd(Purged, k) \ {k}
      BY <1>2
    <3> QED
      BY <2>2, <3>1, FS_RemoveElement
  <2>4. k \in Crowd(Purged, k) <=> k \in Stored(Purged)
    BY DEF Crowd
  <2>5. Cardinality(Crowd(Purged, k)) <= MaxPerSession
    <3>1. CASE Crowd(Purged, k) = {}
      BY <1>3, <3>1, FS_EmptySet
    <3>2. CASE Crowd(Purged, k) # {}
      <4>1. PICK l \in Crowd(Purged, k) : TRUE
        BY <3>2
      <4>2. l \in Stored(Purged) /\ Crowd(Purged, l) = Crowd(Purged, k)
        BY <4>1 DEF Crowd
      <4> QED
        BY <1>1, <4>2
    <3> QED
      BY <3>1, <3>2
  <2> QED
    BY <1>3, <2>2, <2>3, <2>4, <2>5
<1> QED
  BY <1>2, <1>4, <1>5

\* What a put may do to make room: nothing, or drop the least recently used
\* entry of a session that has its share, or of a cache that is full.
Spared(own, k) ==
  /\ Cardinality(Crowd(own, k)) < MaxPerSession /\ Cardinality(Stored(own)) < MaxItems
  /\ Admitted(k) = own

SessionMakesRoom(own, k, m) ==
  /\ m \in Crowd(own, k) /\ Cardinality(Crowd(own, k)) = MaxPerSession
  /\ \A l \in Crowd(own, k) : own[m].last <= own[l].last
  /\ Admitted(k) = Without(own, {m})

CacheMakesRoom(own, k, m) ==
  /\ m \in Stored(own) /\ Cardinality(Stored(own)) = MaxItems
  /\ Cardinality(Crowd(own, k)) < MaxPerSession
  /\ \A l \in Stored(own) : own[m].last <= own[l].last
  /\ Admitted(k) = Without(own, {m})

LEMMA AdmittedIs ==
  ASSUME TypeOK, CapsKept, NEW k \in Keys, NEW own, own = Without(Purged, {k})
  PROVE  \/ Spared(own, k)
         \/ \E m \in Keys : SessionMakesRoom(own, k, m) \/ CacheMakesRoom(own, k, m)
<1> DEFINE crowd == Crowd(own, k)
           mine  == Trimmed(own, crowd, MaxPerSession)
<1>1. /\ own \in [Keys -> MaybeItem]
      /\ Cardinality(Stored(own)) <= MaxItems
      /\ Cardinality(crowd) <= MaxPerSession
  BY OthersIs
<1>2. /\ MaxItems \in Nat \ {0} /\ MaxPerSession \in Nat \ {0}
      /\ crowd \in SUBSET Stored(own) /\ Stored(own) \in SUBSET Keys
  BY CacheAssumption DEF Crowd, Stored
<1>3. Admitted(k) = Trimmed(mine, Stored(mine), MaxItems)
  BY DEF Admitted
<1> HIDE DEF crowd, mine
<1>4. CASE Cardinality(crowd) < MaxPerSession /\ mine = own
  <2>1. \/ Cardinality(Stored(own)) < MaxItems /\ Admitted(k) = own
        \/ /\ Cardinality(Stored(own)) = MaxItems
           /\ \E m \in Stored(own) : /\ Admitted(k) = Without(own, {m})
                                     /\ \A l \in Stored(own) : own[m].last <= own[l].last
    <3> DEFINE K == Stored(own)
    <3>1. K \in SUBSET Stored(own) /\ Cardinality(K) <= MaxItems
      BY <1>1
    <3>2. Admitted(k) = Trimmed(own, K, MaxItems)
      BY <1>3, <1>4
    <3> HIDE DEF K
    <3>3. \/ Cardinality(K) < MaxItems /\ Trimmed(own, K, MaxItems) = own
          \/ /\ Cardinality(K) = MaxItems
             /\ \E m \in K : /\ Trimmed(own, K, MaxItems) = Without(own, {m})
                            /\ \A l \in K : own[m].last <= own[l].last
      BY <1>1, <1>2, <3>1, TrimmedIs
    <3> QED
      BY <3>2, <3>3 DEF K
  <2> QED
    BY <1>2, <1>4, <2>1 DEF Spared, CacheMakesRoom, crowd
<1>5. ASSUME Cardinality(crowd) = MaxPerSession, NEW m \in crowd, mine = Without(own, {m}),
             \A l \in crowd : own[m].last <= own[l].last
      PROVE  SessionMakesRoom(own, k, m)
  <2>1. Stored(mine) = Stored(own) \ {m} /\ mine \in [Keys -> MaybeItem] /\ m \in Stored(own)
    BY <1>1, <1>2, <1>5, WithoutIs
  <2>2. IsFiniteSet(Stored(own)) /\ Cardinality(Stored(own)) \in Nat
    BY StoredFinite
  <2>3. Cardinality(Stored(mine)) = Cardinality(Stored(own)) - 1
    BY <2>1, <2>2, FS_RemoveElement
  <2>4. ~(Cardinality(Stored(mine)) >= MaxItems)
    BY <1>1, <1>2, <2>2, <2>3
  <2>5. Admitted(k) = mine
    BY <1>3, <2>4 DEF Trimmed
  <2> QED
    BY <1>5, <2>5 DEF SessionMakesRoom, crowd
<1>6. \/ Cardinality(crowd) < MaxPerSession /\ mine = own
      \/ /\ Cardinality(crowd) = MaxPerSession
         /\ \E m \in crowd : /\ mine = Without(own, {m})
                             /\ \A l \in crowd : own[m].last <= own[l].last
  BY <1>1, <1>2, TrimmedIs DEF mine
<1> QED
  BY <1>2, <1>4, <1>5, <1>6

\* Either way there is room for one more entry.
LEMMA AdmittedBounds ==
  ASSUME TypeOK, CapsKept, NEW k \in Keys
  PROVE  /\ Admitted(k) \in [Keys -> MaybeItem]
         /\ k \notin Stored(Admitted(k))
         /\ \A l \in Keys : Admitted(k)[l] = NoItem \/ Admitted(k)[l] = Purged[l]
         /\ Cardinality(Stored(Admitted(k))) < MaxItems
         /\ Cardinality(Crowd(Admitted(k), k)) < MaxPerSession
<1> DEFINE own == Without(Purged, {k})
           map == Admitted(k)
<1>1. /\ own \in [Keys -> MaybeItem]
      /\ \A l \in Keys : own[l] = IF l = k THEN NoItem ELSE Purged[l]
      /\ Stored(own) = Stored(Purged) \ {k}
      /\ Cardinality(Stored(own)) <= MaxItems
      /\ Cardinality(Crowd(own, k)) <= MaxPerSession
  BY OthersIs
<1>2. MaxItems \in Nat /\ MaxPerSession \in Nat /\ Crowd(own, k) \in SUBSET Stored(own)
  BY CacheAssumption DEF Crowd
<1>3. Spared(own, k) \/ \E m \in Keys : SessionMakesRoom(own, k, m) \/ CacheMakesRoom(own, k, m)
  BY AdmittedIs
<1> HIDE DEF own, map
<1>4. CASE Spared(own, k)
  BY <1>1, <1>4 DEF Spared, map
<1>5. ASSUME NEW m \in Keys, SessionMakesRoom(own, k, m) \/ CacheMakesRoom(own, k, m)
      PROVE  /\ map \in [Keys -> MaybeItem]
             /\ k \notin Stored(map)
             /\ \A l \in Keys : map[l] = NoItem \/ map[l] = Purged[l]
             /\ Cardinality(Stored(map)) < MaxItems
             /\ Cardinality(Crowd(map, k)) < MaxPerSession
  <2>1. m \in Stored(own) /\ map = Without(own, {m})
    BY <1>2, <1>5 DEF SessionMakesRoom, CacheMakesRoom, map
  <2>2. /\ map \in [Keys -> MaybeItem]
        /\ \A l \in Keys : map[l] = IF l \in {m} THEN NoItem ELSE own[l]
        /\ Stored(map) = Stored(own) \ {m}
        /\ Crowd(map, k) = Crowd(own, k) \ {m}
    BY <1>1, <2>1, WithoutIs
  <2>3. Cardinality(Stored(map)) < MaxItems
    <3>1. IsFiniteSet(Stored(own)) /\ Cardinality(Stored(own)) \in Nat
      BY StoredFinite
    <3>2. Cardinality(Stored(map)) = Cardinality(Stored(own)) - 1
      BY <2>1, <2>2, <3>1, FS_RemoveElement
    <3> QED
      BY <1>1, <1>2, <3>1, <3>2
  <2>4. Cardinality(Crowd(map, k)) < MaxPerSession
    <3>1. IsFiniteSet(Crowd(own, k)) /\ Cardinality(Crowd(own, k)) \in Nat
      BY <1>2, StoredFinite
    <3>2. Cardinality(Crowd(map, k)) = IF m \in Crowd(own, k) THEN Cardinality(Crowd(own, k)) - 1
                                       ELSE Cardinality(Crowd(own, k))
      BY <2>2, <3>1, FS_RemoveElement
    <3>3. m \in Crowd(own, k) \/ Cardinality(Crowd(own, k)) < MaxPerSession
      BY <1>5 DEF SessionMakesRoom, CacheMakesRoom
    <3> QED
      BY <1>1, <1>2, <3>1, <3>2, <3>3
  <2> QED
    BY <1>1, <2>2, <2>3, <2>4
<1> QED
  BY <1>3, <1>4, <1>5 DEF map

-----------------------------------------------------------------------------
(* The operations *)

\* A map all of whose entries come from the purged one, ages and answers
\* unchanged, keeps the bounds and agrees with what was put.
LEMMA FewerKeep ==
  ASSUME CInv, now' = now, latest' = latest, items' \in [Keys -> MaybeItem],
         \A k \in Keys : items'[k] # NoItem =>
           /\ Purged[k] # NoItem /\ items'[k].answer = Purged[k].answer
           /\ items'[k].created = Purged[k].created
           /\ items'[k].last \in {Purged[k].last, now}
  PROVE  CapsKept' /\ ItemsLatest' /\ (\A k \in Stored(items') :
           items'[k].created <= items'[k].last /\ items'[k].last <= now')
<1>1. /\ now \in Nat /\ Purged \in [Keys -> MaybeItem]
      /\ \A k \in Keys : Purged[k] = IF Stale(k) THEN NoItem ELSE items[k]
      /\ Cardinality(Stored(Purged)) <= MaxItems
      /\ \A k \in Stored(Purged) : Cardinality(Crowd(Purged, k)) <= MaxPerSession
  BY PurgedIs DEF CInv
<1>2. \A k \in Stored(items') : k \in Stored(Purged) /\ k \in Stored(items) /\ Purged[k] = items[k]
  BY <1>1 DEF Stored
<1>3. Cardinality(Stored(items')) <= MaxItems
  <2>1. IsFiniteSet(Stored(Purged)) /\ Stored(items') \in SUBSET Stored(Purged)
    BY <1>2, StoredFinite
  <2>2. /\ Cardinality(Stored(items')) <= Cardinality(Stored(Purged))
        /\ Cardinality(Stored(items')) \in Nat /\ Cardinality(Stored(Purged)) \in Nat
    BY <2>1, FS_Subset, FS_CardinalityType
  <2> QED
    BY <1>1, <2>2, CacheAssumption
<1>4. ASSUME NEW k \in Stored(items')
      PROVE  Cardinality(Crowd(items', k)) <= MaxPerSession
  <2>1. Crowd(items', k) \in SUBSET Crowd(Purged, k) /\ Crowd(Purged, k) \in SUBSET Stored(Purged)
    BY <1>2 DEF Crowd
  <2>2. IsFiniteSet(Crowd(Purged, k)) /\ Cardinality(Crowd(Purged, k)) \in Nat
    BY <2>1, StoredFinite
  <2>3. Cardinality(Crowd(items', k)) <= Cardinality(Crowd(Purged, k))
        /\ Cardinality(Crowd(items', k)) \in Nat
    BY <2>1, <2>2, FS_Subset, FS_CardinalityType
  <2>4. Cardinality(Crowd(Purged, k)) <= MaxPerSession
    BY <1>1, <1>2
  <2> QED
    BY <2>2, <2>3, <2>4, CacheAssumption
<1>5. CapsKept'
  BY <1>3, <1>4 DEF CapsKept
<1>6. ItemsLatest'
  BY <1>2 DEF CInv, ItemsLatest, Stored
<1>7. ASSUME NEW k \in Stored(items')
      PROVE  items'[k].created <= items'[k].last /\ items'[k].last <= now'
  <2>1. items[k].created <= items[k].last /\ items[k].last <= now /\ items[k] \in Item
    BY <1>2 DEF CInv, TypeOK, Stored
  <2>2. items[k].created \in Nat /\ items[k].last \in Nat
    BY <2>1 DEF Item
  <2>3. items'[k].created = items[k].created /\ items'[k].last \in {items[k].last, now}
    BY <1>2 DEF Stored
  <2> QED
    BY <1>1, <2>1, <2>2, <2>3
<1> QED
  BY <1>5, <1>6, <1>7

\* A lookup touches what it finds.
LEMMA TouchedIs ==
  ASSUME CInv, NEW k \in Keys
  PROVE  /\ Touched(k) \in [Keys -> MaybeItem]
         /\ \A l \in Keys :
              /\ Touched(k)[l] = NoItem <=> Purged[l] = NoItem
              /\ Touched(k)[l] # NoItem =>
                   /\ Touched(k)[l].answer = Purged[l].answer
                   /\ Touched(k)[l].created = Purged[l].created
                   /\ Touched(k)[l].last \in {Purged[l].last, now}
<1>1. now \in Nat /\ Purged \in [Keys -> MaybeItem]
  BY PurgedIs DEF CInv
<1>2. NoItem \notin Item
  BY CacheAssumption DEF Item
<1>3. ASSUME NEW x \in Item
      PROVE  LET y == [x EXCEPT !.last = now]
             IN  y \in Item /\ y.answer = x.answer /\ y.created = x.created /\ y.last = now
  BY <1>1 DEF Item
<1>4. ASSUME NEW l \in Keys
      PROVE  /\ Touched(k)[l] \in MaybeItem
             /\ Touched(k)[l] = NoItem <=> Purged[l] = NoItem
             /\ Touched(k)[l] # NoItem =>
                  /\ Touched(k)[l].answer = Purged[l].answer
                  /\ Touched(k)[l].created = Purged[l].created
                  /\ Touched(k)[l].last \in {Purged[l].last, now}
  <2>1. CASE l = k /\ Purged[l] # NoItem
    <3>1. Purged[l] \in Item /\ Touched(k)[l] = [Purged[l] EXCEPT !.last = now]
      BY <1>1, <2>1 DEF Touched, MaybeItem
    <3> QED
      BY <1>2, <1>3, <2>1, <3>1 DEF MaybeItem
  <2>2. CASE ~(l = k /\ Purged[l] # NoItem)
    <3>1. Touched(k)[l] = Purged[l]
      BY <2>2 DEF Touched
    <3> QED
      BY <1>1, <3>1
  <2> QED
    BY <2>1, <2>2
<1>5. Touched(k) \in [Keys -> MaybeItem]
  BY <1>4 DEF Touched
<1> QED
  BY <1>4, <1>5

LEMMA GetKeeps ==
  ASSUME CInv, NEW k \in Keys, Get(k)
  PROVE  CInv' /\ ForCause
<1>1. /\ now \in Nat /\ Purged \in [Keys -> MaybeItem] /\ TypeOK
      /\ \A l \in Keys : Purged[l] = IF Stale(l) THEN NoItem ELSE items[l]
  BY PurgedIs DEF CInv
<1>2. /\ items' = Touched(k) /\ now' = now /\ latest' = latest
      /\ found' = IF Purged[k] = NoItem THEN Nothing ELSE <<k, Purged[k].answer>>
  BY DEF Get
<1>3. /\ items' \in [Keys -> MaybeItem]
      /\ \A l \in Keys :
           /\ items'[l] = NoItem <=> Purged[l] = NoItem
           /\ items'[l] # NoItem =>
                /\ items'[l].answer = Purged[l].answer
                /\ items'[l].created = Purged[l].created
                /\ items'[l].last \in {Purged[l].last, now}
  BY <1>2, TouchedIs
<1>4. CapsKept' /\ ItemsLatest' /\ (\A l \in Stored(items') :
        items'[l].created <= items'[l].last /\ items'[l].last <= now')
  BY <1>2, <1>3, FewerKeep
<1>5. found' \in (Keys \X Answers) \cup {Nothing}
  <2>1. Purged[k] # NoItem => Purged[k].answer \in Answers
    BY <1>1 DEF MaybeItem, Item
  <2> QED
    BY <1>2, <2>1
<1>6. TypeOK'
  BY <1>1, <1>2, <1>3, <1>4, <1>5 DEF TypeOK, MaybeItem
<1>7. HitIsLatest'
  <2>1. CASE Purged[k] = NoItem
    BY <1>2, <2>1 DEF HitIsLatest
  <2>2. CASE Purged[k] # NoItem
    <3>1. ~Stale(k) /\ Purged[k] = items[k] /\ k \in Stored(items)
      BY <1>1, <2>2 DEF Stored
    <3>2. latest[k] = <<items[k].answer, items[k].created>> /\ items[k] \in Item
      BY <1>1, <3>1 DEF CInv, ItemsLatest, TypeOK, Stored
    <3>3. found' = <<k, items[k].answer>> /\ latest' = latest /\ now' = now
      BY <1>2, <2>2, <3>1
    <3>4. items[k].created \in Nat /\ now - items[k].created < CacheTtl
      BY <1>1, <3>1, <3>2, CacheAssumption DEF Stale, Item, Stored
    <3>5. latest[k] # Nothing /\ latest[k][1] = items[k].answer /\ latest[k][2] = items[k].created
      BY <3>2, CacheAssumption DEF Item
    <3> QED
      BY <3>3, <3>4, <3>5 DEF HitIsLatest
  <2> QED
    BY <2>1, <2>2
<1>8. Dropped = {}
  BY <1>1, <1>3 DEF Dropped, Stored
<1> QED
  BY <1>4, <1>6, <1>7, <1>8 DEF CInv, ForCause

LEMMA SizeKeeps ==
  ASSUME CInv, Size
  PROVE  CInv' /\ ForCause
<1>1. /\ now \in Nat /\ Purged \in [Keys -> MaybeItem] /\ TypeOK
      /\ \A l \in Keys : Purged[l] = IF Stale(l) THEN NoItem ELSE items[l]
  BY PurgedIs DEF CInv
<1>2. items' = Purged /\ now' = now /\ latest' = latest /\ found' = Nothing
  BY DEF Size
<1>3. CapsKept' /\ ItemsLatest' /\ (\A l \in Stored(items') :
        items'[l].created <= items'[l].last /\ items'[l].last <= now')
  BY <1>1, <1>2, FewerKeep
<1>4. TypeOK' /\ HitIsLatest'
  BY <1>1, <1>2, <1>3 DEF TypeOK, MaybeItem, HitIsLatest
<1>5. Dropped = {}
  BY <1>1, <1>2 DEF Dropped, Stored
<1> QED
  BY <1>3, <1>4, <1>5 DEF CInv, ForCause

LEMMA TickKeeps ==
  ASSUME CInv, Tick
  PROVE  CInv' /\ ForCause
<1>1. now \in Nat /\ now' = now + 1 /\ now' \in 0..MaxClock /\ UNCHANGED <<items, latest>> /\ found' = Nothing
  BY CacheAssumption DEF CInv, TypeOK, Tick
<1>2. TypeOK'
  <2>1. ASSUME NEW k \in Stored(items)
        PROVE  items[k].created <= items[k].last /\ items[k].last <= now + 1
    <3>1. items[k] \in Item /\ items[k].created <= items[k].last /\ items[k].last <= now
      BY DEF CInv, TypeOK, Stored
    <3>2. items[k].last \in Nat
      BY <3>1 DEF Item
    <3> QED
      BY <1>1, <3>1, <3>2
  <2> QED
    BY <1>1, <2>1 DEF CInv, TypeOK
<1>3. CapsKept' /\ ItemsLatest' /\ HitIsLatest'
  BY <1>1 DEF CInv, CapsKept, ItemsLatest, HitIsLatest
<1>4. Dropped = {}
  BY <1>1 DEF Dropped, Stored
<1> QED
  BY <1>2, <1>3, <1>4 DEF CInv, ForCause

LEMMA StutterKeeps ==
  ASSUME CInv, UNCHANGED vars
  PROVE  CInv'
BY DEF CInv, vars, TypeOK, CapsKept, ItemsLatest, HitIsLatest

\* A put adds one entry to what was let stay.
LEMMA PlacedIs ==
  ASSUME CInv, NEW k \in Keys, NEW a \in Answers, Put(k, a)
  PROVE  /\ items' \in [Keys -> MaybeItem]
         /\ items'[k] = [answer |-> a, created |-> now, last |-> now]
         /\ \A l \in Keys : l # k => items'[l] = Admitted(k)[l]
         /\ Stored(items') = Stored(Admitted(k)) \cup {k}
<1>1. /\ now \in Nat /\ Admitted(k) \in [Keys -> MaybeItem]
  BY PurgedIs, AdmittedBounds DEF CInv
<1> DEFINE new == [answer |-> a, created |-> now, last |-> now]
<1>2. new \in Item /\ new # NoItem
  BY <1>1, CacheAssumption DEF Item
<1> HIDE DEF new
<1>3. \A l \in Keys : items'[l] = IF l = k THEN new ELSE Admitted(k)[l]
  BY DEF Put, Placed, new
<1>4. items' \in [Keys -> MaybeItem]
  BY <1>1, <1>2, <1>3 DEF Put, Placed, MaybeItem
<1>5. Stored(items') = Stored(Admitted(k)) \cup {k}
  BY <1>2, <1>3 DEF Stored
<1> QED
  BY <1>3, <1>4, <1>5 DEF new

LEMMA PutBounds ==
  ASSUME CInv, NEW k \in Keys, NEW a \in Answers, Put(k, a)
  PROVE  CapsKept'
<1>1. /\ Admitted(k) \in [Keys -> MaybeItem]
      /\ \A l \in Keys : Admitted(k)[l] = NoItem \/ Admitted(k)[l] = Purged[l]
      /\ Cardinality(Stored(Admitted(k))) < MaxItems
      /\ Cardinality(Crowd(Admitted(k), k)) < MaxPerSession
      /\ \A l \in Stored(Purged) : Cardinality(Crowd(Purged, l)) <= MaxPerSession
  BY AdmittedBounds, PurgedIs DEF CInv
<1>2. Stored(items') = Stored(Admitted(k)) \cup {k}
  BY PlacedIs
<1>3. MaxItems \in Nat /\ MaxPerSession \in Nat
  BY CacheAssumption
<1>4. Cardinality(Stored(items')) <= MaxItems
  <2>1. IsFiniteSet(Stored(Admitted(k))) /\ Cardinality(Stored(Admitted(k))) \in Nat
    BY StoredFinite
  <2>2. \/ Cardinality(Stored(items')) = Cardinality(Stored(Admitted(k)))
        \/ Cardinality(Stored(items')) = Cardinality(Stored(Admitted(k))) + 1
    BY <1>2, <2>1, FS_AddElement
  <2> QED
    BY <1>1, <1>3, <2>1, <2>2
<1>5. ASSUME NEW l \in Stored(items')
      PROVE  Cardinality(Crowd(items', l)) <= MaxPerSession
  <2>1. CASE SessionOf[l] = SessionOf[k]
    <3>1. Crowd(items', l) = Crowd(Admitted(k), k) \cup {k}
      BY <1>2, <2>1 DEF Crowd
    <3>2. Crowd(Admitted(k), k) \in SUBSET Stored(Admitted(k))
      BY DEF Crowd
    <3>3. IsFiniteSet(Crowd(Admitted(k), k)) /\ Cardinality(Crowd(Admitted(k), k)) \in Nat
      BY <3>2, StoredFinite
    <3>4. \/ Cardinality(Crowd(items', l)) = Cardinality(Crowd(Admitted(k), k))
          \/ Cardinality(Crowd(items', l)) = Cardinality(Crowd(Admitted(k), k)) + 1
      BY <3>1, <3>3, FS_AddElement
    <3> QED
      BY <1>1, <1>3, <3>3, <3>4
  <2>2. CASE SessionOf[l] # SessionOf[k]
    <3>1. Stored(Admitted(k)) \subseteq Stored(Purged)
      BY <1>1 DEF Stored
    <3>2. l \in Stored(Purged) /\ Crowd(items', l) \in SUBSET Crowd(Purged, l)
      BY <1>2, <2>2, <3>1 DEF Crowd
    <3>3. Crowd(Purged, l) \in SUBSET Stored(Purged)
      BY DEF Crowd
    <3>4. IsFiniteSet(Crowd(Purged, l)) /\ Cardinality(Crowd(Purged, l)) \in Nat
      BY <3>3, StoredFinite
    <3>5. Cardinality(Crowd(items', l)) <= Cardinality(Crowd(Purged, l))
          /\ Cardinality(Crowd(items', l)) \in Nat
      BY <3>2, <3>4, FS_Subset, FS_CardinalityType
    <3> QED
      BY <1>1, <1>3, <3>2, <3>4, <3>5
  <2> QED
    BY <2>1, <2>2
<1> QED
  BY <1>4, <1>5 DEF CapsKept

\* What a put drops: if it drops a fresh answer, its own key had none.
LEMMA PutForCause ==
  ASSUME CInv, NEW k \in Keys, NEW a \in Answers, Put(k, a)
  PROVE  ForCause
<1> DEFINE own   == Without(Purged, {k})
           live  == {l \in Stored(items) : ~Stale(l)}
           added == {l \in Keys : items'[l] # items[l] /\ items'[l] # NoItem}
<1>1. /\ TypeOK /\ CapsKept /\ now \in Nat
      /\ \A l \in Keys : Purged[l] = IF Stale(l) THEN NoItem ELSE items[l]
      /\ Stored(Purged) = live
  BY PurgedIs DEF CInv
<1>2. /\ own \in [Keys -> MaybeItem]
      /\ \A l \in Keys : own[l] = IF l = k THEN NoItem ELSE Purged[l]
      /\ Stored(own) = Stored(Purged) \ {k}
      /\ k \in Stored(Purged) => /\ Cardinality(Stored(own)) < MaxItems
                                 /\ Cardinality(Crowd(own, k)) < MaxPerSession
      /\ Cardinality(Stored(own)) \in Nat /\ Cardinality(Crowd(own, k)) \in Nat
  <2>1. Stored(own) \in SUBSET Stored(own) /\ Crowd(own, k) \in SUBSET Stored(own)
    BY DEF Crowd
  <2> QED
    BY <1>1, <2>1, OthersIs, StoredFinite
<1>3. Spared(own, k) \/ \E m \in Keys : SessionMakesRoom(own, k, m) \/ CacheMakesRoom(own, k, m)
  BY <1>1, AdmittedIs
<1>4. /\ items'[k] = [answer |-> a, created |-> now, last |-> now]
      /\ \A l \in Keys : l # k => items'[l] = Admitted(k)[l]
      /\ k \in Stored(items')
  BY PlacedIs
<1>5. Dropped = {d \in live : items'[d] = NoItem} /\ k \notin Dropped
  BY <1>4 DEF Dropped, Stored
<1>6. \A l \in Keys : l # k => own[l] = Purged[l]
  BY <1>2
<1> HIDE DEF own
<1>7. CASE Spared(own, k)
  <2>1. ASSUME NEW d \in Dropped PROVE FALSE
    <3>1. d \in Keys /\ d # k /\ d \in live /\ items'[d] = NoItem
      BY <1>5 DEF Stored
    <3>2. items'[d] = Purged[d]
      BY <1>4, <1>6, <1>7, <3>1 DEF Spared
    <3> QED
      BY <1>1, <3>1, <3>2 DEF Stored
  <2> QED
    BY <2>1 DEF ForCause
<1>8. ASSUME NEW m \in Keys, SessionMakesRoom(own, k, m) \/ CacheMakesRoom(own, k, m)
      PROVE  ForCause
  <2>1. m \in Stored(own) /\ m # k /\ m \in live /\ Admitted(k) = Without(own, {m})
    BY <1>1, <1>2, <1>8 DEF SessionMakesRoom, CacheMakesRoom, Crowd
  <2>2. \A l \in Keys : Admitted(k)[l] = IF l = m THEN NoItem ELSE own[l]
    BY <1>2, <2>1, WithoutIs
  <2>3. k \notin Stored(Purged)
    <3>1. MaxItems \in Nat /\ MaxPerSession \in Nat
      BY CacheAssumption
    <3> QED
      BY <1>2, <1>8, <3>1 DEF SessionMakesRoom, CacheMakesRoom
  <2>4. Dropped = {m}
    <3>1. items'[m] = NoItem
      BY <1>4, <2>1, <2>2
    <3>2. ASSUME NEW d \in Dropped PROVE d = m
      <4>1. d \in Keys /\ d # k /\ d \in live /\ items'[d] = NoItem
        BY <1>5 DEF Stored
      <4>2. Purged[d] # NoItem
        BY <1>1, <4>1 DEF Stored
      <4>3. d # m => items'[d] = Purged[d]
        BY <1>4, <1>6, <2>2, <4>1
      <4> QED
        BY <4>1, <4>2, <4>3
    <3> QED
      BY <1>5, <2>1, <3>1, <3>2
  <2>5. added = {k}
    <3>1. items'[k] # items[k] /\ items'[k] # NoItem
      <4>1. CASE items[k] = NoItem
        BY <1>4, <4>1 DEF Stored
      <4>2. CASE items[k] # NoItem
        <5>1. Stale(k)
          BY <1>1, <2>3, <4>2 DEF Stored
        <5>2. now - items[k].created >= CacheTtl /\ items[k].created \in Nat
          BY <4>2, <5>1 DEF Stale, CInv, TypeOK, Item
        <5>3. items[k].created # now
          BY <1>1, <5>2, CacheAssumption
        <5>4. items'[k].created = now
          BY <1>4
        <5> QED
          BY <1>4, <5>3, <5>4 DEF Stored
      <4> QED
        BY <4>1, <4>2
    <3>2. ASSUME NEW l \in Keys, l # k, items'[l] # NoItem PROVE items'[l] = items[l]
      <4>1. items'[l] = Purged[l]
        BY <1>4, <1>6, <2>2, <3>2
      <4> QED
        BY <1>1, <3>2, <4>1
    <3> QED
      BY <3>1, <3>2
  <2>6. live \ added = Stored(own)
    BY <1>1, <1>2, <2>5
  <2>7. \A l \in Stored(own) : own[l] = items[l]
    BY <1>1, <1>2 DEF Stored
  <2> HIDE DEF live, added
  <2>8. CASE SessionMakesRoom(own, k, m)
    <3> DEFINE rivals == {l \in live \ added : SessionOf[l] = SessionOf[m]}
    <3>1. SessionOf[m] = SessionOf[k]
      BY <2>8 DEF SessionMakesRoom, Crowd
    <3>2. rivals = Crowd(own, k) /\ rivals \subseteq Stored(own)
      BY <2>6, <3>1 DEF Crowd
    <3>3. Cardinality(rivals) = MaxPerSession /\ \A l \in rivals : items[m].last <= items[l].last
      <4> HIDE DEF rivals
      <4> QED
        BY <2>1, <2>7, <2>8, <3>2 DEF SessionMakesRoom
    <3> QED
      BY <2>4, <2>5, <3>1, <3>3 DEF ForCause, live, added
  <2>9. CASE CacheMakesRoom(own, k, m)
    <3>1. Cardinality(live \ added) = MaxItems
      BY <2>6, <2>9 DEF CacheMakesRoom
    <3>2. \A l \in live \ added : items[m].last <= items[l].last
      BY <2>1, <2>6, <2>7, <2>9 DEF CacheMakesRoom
    <3> QED
      BY <2>4, <2>5, <3>1, <3>2 DEF ForCause, live, added
  <2> QED
    BY <1>8, <2>8, <2>9
<1> QED
  BY <1>3, <1>7, <1>8

LEMMA PutKeeps ==
  ASSUME CInv, NEW k \in Keys, NEW a \in Answers, Put(k, a)
  PROVE  CInv' /\ ForCause
<1>1. /\ now \in Nat /\ TypeOK
      /\ \A l \in Keys : Purged[l] = IF Stale(l) THEN NoItem ELSE items[l]
      /\ \A l \in Keys : Admitted(k)[l] = NoItem \/ Admitted(k)[l] = Purged[l]
      /\ k \notin Stored(Admitted(k))
  BY PurgedIs, AdmittedBounds DEF CInv
<1>2. /\ items' \in [Keys -> MaybeItem]
      /\ items'[k] = [answer |-> a, created |-> now, last |-> now]
      /\ \A l \in Keys : l # k => items'[l] = Admitted(k)[l]
      /\ Stored(items') = Stored(Admitted(k)) \cup {k}
  BY PlacedIs
<1>3. found' = Nothing /\ latest' = [latest EXCEPT ![k] = <<a, now>>] /\ now' = now
  BY DEF Put
<1>4. \A l \in Stored(items') : l # k => l \in Stored(items) /\ items'[l] = items[l]
  BY <1>1, <1>2 DEF Stored
<1>5. /\ items'[k].answer = a /\ items'[k].created = now /\ items'[k].last = now
  BY <1>2
<1>6. \A l \in Stored(items') : items'[l].created <= items'[l].last /\ items'[l].last <= now
  BY <1>1, <1>4, <1>5 DEF TypeOK
<1>7. TypeOK'
  BY <1>1, <1>2, <1>3, <1>6 DEF TypeOK, MaybeItem
<1>8. ASSUME NEW l \in Stored(items')
      PROVE  latest'[l] = <<items'[l].answer, items'[l].created>>
  <2>1. CASE l = k
    BY <1>1, <1>3, <1>5, <2>1 DEF TypeOK
  <2>2. CASE l # k
    BY <1>1, <1>3, <1>4, <2>2 DEF TypeOK, CInv, ItemsLatest, Stored
  <2> QED
    BY <2>1, <2>2
<1>9. ItemsLatest' /\ HitIsLatest'
  BY <1>3, <1>8 DEF ItemsLatest, HitIsLatest
<1> QED
  BY <1>7, <1>9, PutBounds, PutForCause DEF CInv

-----------------------------------------------------------------------------
(* The theorems *)

LEMMA InitCInv == Init => CInv
<1> SUFFICES ASSUME Init PROVE CInv
  OBVIOUS
<1>1. Stored(items) = {}
  BY DEF Init, Stored
<1>2. Cardinality(Stored(items)) = 0
  BY <1>1, FS_EmptySet
<1>3. TypeOK /\ CapsKept
  BY <1>1, <1>2, CacheAssumption DEF Init, TypeOK, CapsKept
<1> QED
  BY <1>1, <1>3 DEF Init, CInv, ItemsLatest, HitIsLatest

LEMMA StepCInv == CInv /\ [Next]_vars => CInv' /\ [ForCause]_vars
<1> SUFFICES ASSUME CInv, [Next]_vars PROVE CInv' /\ [ForCause]_vars
  OBVIOUS
<1> QED
  BY GetKeeps, PutKeeps, SizeKeeps, TickKeeps, StutterKeeps DEF Next

\* The invariant the theorems below read off.
THEOREM Inductive == Spec => []CInv
<1>1. CInv /\ [Next]_vars => CInv'
  BY StepCInv
<1> QED
  BY <1>1, InitCInv, PTL DEF Spec

\* The cache keeps its types, and no entry was used before it was made or in the
\* future.
THEOREM TypeCorrect == Spec => []TypeOK
<1>1. CInv => TypeOK
  BY DEF CInv
<1> QED
  BY <1>1, Inductive, PTL

\* A hit returns the answer last put under that very key, less than the time to
\* live ago, however often it was read since and whatever was dropped and put
\* again in between.
THEOREM HitsCurrent == Spec => []HitIsLatest
<1>1. CInv => HitIsLatest
  BY DEF CInv
<1> QED
  BY <1>1, Inductive, PTL

\* No session ever has more than its share of the cache, and the cache is never
\* overfull, for any number of keys, sessions and answers.
THEOREM CapsHold == Spec => []CapsKept
<1>1. CInv => CapsKept
  BY DEF CInv
<1> QED
  BY <1>1, Inductive, PTL

\* A fresh answer is dropped only by a put that found its session's share or the
\* whole cache used up: one answer at a time, and the least recently used of
\* those it was chosen among.
THEOREM DropsHaveCause == Spec => DroppedForCause
<1>1. CInv /\ [Next]_vars => [ForCause]_vars
  BY StepCInv
<1> QED
  BY <1>1, Inductive, PTL DEF Spec, DroppedForCause
=============================================================================
