------------------------- MODULE SnapshotFilesProofs -------------------------
(***************************************************************************)
(* Proofs about SnapshotFiles: what a start of the service serves is one   *)
(* build's, however the scripts that write its files and the start itself  *)
(* interleave, overwrite each other or stop; and it is sound, whatever the *)
(* searches found and the broker answered, because every file comes about  *)
(* as the scripts make it.                                                 *)
(***************************************************************************)
EXTENDS SnapshotFiles, FiniteSetTheorems, SequenceTheorems, TLAPS

-----------------------------------------------------------------------------
(* Lists *)

\* Sequences, without saying of what.
List(s) == Len(s) \in Nat /\ DOMAIN s = 1..Len(s) /\ s = [i \in DOMAIN s |-> s[i]]

\* A list is a sequence of its items.
LEMMA ListSeq == ASSUME NEW s, List(s) PROVE s \in Seq(ToSet(s))
BY DEF List, ToSet

\* A sequence, of whatever items, is a list.
LEMMA SeqList == ASSUME NEW S, NEW s \in Seq(S) PROVE List(s)
BY DEF List

LEMMA SeqItems == ASSUME NEW S, NEW s \in Seq(S) PROVE \A i \in DOMAIN s : s[i] \in S
OBVIOUS

\* What a function on the first n numbers is.
LEMMA ListIs ==
  ASSUME NEW n \in Nat, NEW s, s = [i \in 1..n |-> s[i]]
  PROVE  List(s) /\ Len(s) = n /\ DOMAIN s = 1..n
<1> DEFINE T == {s[i] : i \in DOMAIN s}
<1>1. DOMAIN s = 1..n
  OBVIOUS
<1>2. \A i \in 1..n : s[i] \in T
  BY <1>1
<1> HIDE DEF T
<1>3. s \in Seq(T)
  BY <1>2
<1>4. Len(s) = n
  BY <1>1, <1>3
<1> QED
  BY <1>1, <1>4 DEF List

\* The first items of a list.
LEMMA ListPrefix ==
  ASSUME NEW s, List(s), NEW m \in 0..Len(s)
  PROVE  /\ List(SubSeq(s, 1, m)) /\ Len(SubSeq(s, 1, m)) = m
         /\ \A i \in 1..m : SubSeq(s, 1, m)[i] = s[i]
         /\ ToSet(SubSeq(s, 1, m)) \subseteq ToSet(s)
<1>1. s \in Seq(ToSet(s))
  BY ListSeq
<1>2. /\ SubSeq(s, 1, m) \in Seq(ToSet(s))
      /\ Len(SubSeq(s, 1, m)) = m
      /\ \A i \in 1..m : SubSeq(s, 1, m)[i] = s[i]
  BY <1>1, SubSeqProperties DEF List
<1>3. List(SubSeq(s, 1, m))
  BY <1>2, SeqList
<1> QED
  BY <1>2, <1>3 DEF List, ToSet

\* A set of numbers has a least one.
LEMMA NatMinimum ==
  ASSUME NEW T \in SUBSET Nat, T # {}
  PROVE  \E m \in T : \A k \in T : m <= k
<1>1. PICK m \in T : \A k \in T : ~(<<k, m>> \in OpToRel(<, Nat))
  BY NatLessThanWellFounded, WFMin
<1>2. \A k \in T : ~(k < m)
  BY <1>1 DEF OpToRel
<1> QED
  BY <1>2

\* Min of the community modules is the least.
LEMMA MinIs ==
  ASSUME NEW I \in SUBSET Nat, I # {}
  PROVE  Min(I) \in I /\ \A i \in I : Min(I) <= i
<1>1. PICK m \in I : \A k \in I : m <= k
  BY NatMinimum
<1> QED
  BY <1>1 DEF Min

\* How many of S come before x, in an order R.
Rank(S, R, x) == Cardinality({y \in S : <<y, x>> \in R})

\* R puts the items of S in one order.
StrictOrder(S, R) ==
  /\ \A x \in S : <<x, x>> \notin R
  /\ \A x, y \in S : x = y \/ <<x, y>> \in R \/ <<y, x>> \in R
  /\ \A x, y, z \in S : <<x, y>> \in R /\ <<y, z>> \in R => <<x, z>> \in R

\* What comes later has more before it.
LEMMA RankGrows ==
  ASSUME NEW S, IsFiniteSet(S), NEW R, StrictOrder(S, R), NEW x \in S, NEW y \in S, <<x, y>> \in R
  PROVE  Rank(S, R, x) < Rank(S, R, y)
<1> DEFINE X == {z \in S : <<z, x>> \in R}
           Y == {z \in S : <<z, y>> \in R}
<1>1. X \subseteq Y /\ x \in Y /\ x \notin X
  BY DEF StrictOrder
<1>2. IsFiniteSet(Y)
  BY FS_Subset, Y \in SUBSET S
<1>3. Cardinality(X) \in Nat /\ Cardinality(Y) \in Nat
  BY <1>1, <1>2, FS_Subset, FS_CardinalityType
<1>4. Cardinality(X) <= Cardinality(Y) /\ Cardinality(X) # Cardinality(Y)
  <2>1. X \in SUBSET Y
    BY <1>1
  <2>2. Cardinality(X) <= Cardinality(Y) /\ (Cardinality(Y) = Cardinality(X) => Y = X)
    BY <1>2, <2>1, FS_Subset
  <2> QED
    BY <1>1, <2>2
<1> QED
  BY <1>3, <1>4 DEF Rank

\* Each rank is taken.
LEMMA RankOnto ==
  ASSUME NEW S, IsFiniteSet(S), NEW R, StrictOrder(S, R), NEW k \in 1..Cardinality(S)
  PROVE  \E x \in S : Rank(S, R, x) = k - 1
<1> DEFINE n == Cardinality(S)
           r == [x \in S |-> Rank(S, R, x)]
           T == 0..(n - 1)
<1>1. n \in Nat
  BY FS_CardinalityType
<1>2. ASSUME NEW x \in S PROVE Rank(S, R, x) \in T
  <2> DEFINE X == {y \in S : <<y, x>> \in R}
  <2>1. X \subseteq S /\ x \notin X
    BY DEF StrictOrder
  <2>2. IsFiniteSet(X) /\ Cardinality(X) <= n /\ (Cardinality(S) = Cardinality(X) => S = X)
    BY <2>1, FS_Subset
  <2>3. Cardinality(X) \in Nat
    BY <2>2, FS_CardinalityType
  <2> QED
    BY <1>1, <2>1, <2>2, <2>3 DEF Rank
<1>3. r \in [S -> T]
  BY <1>2
<1>4. ASSUME NEW x \in S, NEW y \in S, r[x] = r[y] PROVE x = y
  <2>1. Rank(S, R, x) \in Nat /\ Rank(S, R, x) = Rank(S, R, y)
    BY <1>1, <1>2, <1>4
  <2>2. <<x, y>> \notin R /\ <<y, x>> \notin R
    BY <2>1, RankGrows
  <2> QED
    BY <2>2 DEF StrictOrder
<1>5. r \in Injection(S, T)
  BY <1>3, <1>4 DEF Injection, IsInjective
<1>6. IsFiniteSet(T) /\ Cardinality(T) = n
  <2>1. 0 \in Int /\ n - 1 \in Int
    BY <1>1
  <2>2. IsFiniteSet(T) /\ Cardinality(T) = IF 0 > n - 1 THEN 0 ELSE (n - 1) - 0 + 1
    BY <2>1, FS_Interval
  <2> QED
    BY <1>1, <2>2
<1>7. r \in Surjection(S, T)
  BY <1>5, <1>6, FS_Injection
<1>8. k - 1 \in T
  BY <1>1
<1> QED
  BY <1>7, <1>8 DEF Surjection

\* The k-th of a set of positions is one of them, with k - 1 before it.
LEMMA NthIn ==
  ASSUME NEW n \in Nat, NEW I \in SUBSET (1..n), NEW k \in 1..Cardinality(I)
  PROVE  /\ Nth(I, LAMBDA i, j : i < j, k) \in I
         /\ Cardinality({y \in I : y < Nth(I, LAMBDA i, j : i < j, k)}) = k - 1
<1> DEFINE R == {p \in I \X I : p[1] < p[2]}
<1>1. IsFiniteSet(I)
  BY FS_Interval, FS_Subset, 1 \in Int, n \in Int
<1>2. StrictOrder(I, R)
  BY DEF StrictOrder
<1>3. PICK x \in I : Rank(I, R, x) = k - 1
  BY <1>1, <1>2, RankOnto
<1>4. {y \in I : <<y, x>> \in R} = {y \in I : y < x}
  OBVIOUS
<1>5. Cardinality({y \in I : y < x}) = k - 1
  BY <1>3, <1>4 DEF Rank
<1> QED
  BY <1>5 DEF Nth

\* f gives the positions picked, one after the other.
Positions(f, s, I, n) ==
  /\ f \in [1..n -> I]
  /\ \A k \in 1..n : ItemsAt(s, I)[k] = s[f[k]]
  /\ \A k, l \in 1..n : k < l => f[k] < f[l]
  /\ \A i \in I : \E k \in 1..n : f[k] = i

\* What is at the positions picked, in order, and nothing else.
LEMMA ItemsAtFacts ==
  ASSUME NEW s, List(s), NEW I \in SUBSET DOMAIN s
  PROVE  /\ List(ItemsAt(s, I)) /\ Len(ItemsAt(s, I)) = Cardinality(I) /\ Cardinality(I) \in 0..Len(s)
         /\ ToSet(ItemsAt(s, I)) = {s[i] : i \in I}
         /\ \E f : Positions(f, s, I, Len(ItemsAt(s, I)))
<1> DEFINE n == Len(s)
           c == Cardinality(I)
           nth(k) == Nth(I, LAMBDA i, j : i < j, k)
           f == [k \in 1..c |-> nth(k)]
           below(x) == {i \in I : i < x}
<1>1. n \in Nat /\ I \in SUBSET (1..n)
  BY DEF List
<1>2. IsFiniteSet(I) /\ c \in 0..n
  <2>1. IsFiniteSet(1..n) /\ Cardinality(1..n) = n
    <3>1. 1 \in Int /\ n \in Int
      BY <1>1
    <3>2. IsFiniteSet(1..n) /\ Cardinality(1..n) = IF 1 > n THEN 0 ELSE n - 1 + 1
      BY <3>1, FS_Interval
    <3> QED
      BY <1>1, <3>2
  <2>2. IsFiniteSet(I) /\ Cardinality(I) <= n
    BY <1>1, <2>1, FS_Subset
  <2> QED
    BY <1>1, <2>2, FS_CardinalityType
<1>3. ASSUME NEW k \in 1..c PROVE nth(k) \in I /\ Cardinality(below(nth(k))) = k - 1
  BY <1>1, NthIn
<1> HIDE DEF nth
<1>4. ItemsAt(s, I) = [k \in 1..c |-> s[nth(k)]]
  BY DEF ItemsAt, nth
<1> HIDE DEF c
<1>5. List(ItemsAt(s, I)) /\ Len(ItemsAt(s, I)) = c
  BY <1>2, <1>4 DEF List
<1>6. ASSUME NEW x \in I, NEW y \in I, x < y PROVE Cardinality(below(x)) < Cardinality(below(y))
  <2>1. below(x) \in SUBSET below(y) /\ x \in below(y) /\ x \notin below(x)
    BY <1>1, <1>6
  <2>2. IsFiniteSet(below(x)) /\ IsFiniteSet(below(y))
    BY <1>2, FS_Subset, below(x) \in SUBSET I, below(y) \in SUBSET I
  <2>3. Cardinality(below(x)) <= Cardinality(below(y))
          /\ (Cardinality(below(y)) = Cardinality(below(x)) => below(y) = below(x))
    BY <2>1, <2>2, FS_Subset
  <2>4. Cardinality(below(x)) \in Nat /\ Cardinality(below(y)) \in Nat
    BY <2>2, FS_CardinalityType
  <2> QED
    BY <2>1, <2>3, <2>4
<1>7. ASSUME NEW k \in 1..c, NEW l \in 1..c, k < l PROVE nth(k) < nth(l)
  <2>0. nth(k) \in I /\ nth(l) \in I
    BY <1>3
  <2>1. nth(k) \in I /\ nth(l) \in I /\ nth(k) \in Nat /\ nth(l) \in Nat
    BY <1>1, <2>0
  <2>2. Cardinality(below(nth(k))) = k - 1 /\ Cardinality(below(nth(l))) = l - 1
    BY <1>3
  <2>3. CASE nth(l) < nth(k)
    <3>1. Cardinality(below(nth(l))) < Cardinality(below(nth(k)))
      BY <2>1, <2>3, <1>6
    <3> QED
      BY <3>1, <2>2, <1>7, <1>2
  <2>4. CASE nth(l) = nth(k)
    BY <2>4, <2>2, <1>7, <1>2
  <2> QED
    BY <2>1, <2>3, <2>4
<1>8. ASSUME NEW i \in I PROVE \E k \in 1..c : nth(k) = i
  <2> DEFINE k == Cardinality(below(i)) + 1
  <2>1. below(i) \in SUBSET I /\ i \notin below(i)
    BY <1>1
  <2>2. IsFiniteSet(below(i)) /\ Cardinality(below(i)) <= c /\ (c = Cardinality(below(i)) => I = below(i))
    BY <1>2, <2>1, FS_Subset DEF c
  <2>3. Cardinality(below(i)) \in Nat
    BY <2>2, FS_CardinalityType
  <2>4. k \in 1..c
    BY <1>2, <2>1, <2>2, <2>3
  <2>5. nth(k) \in I /\ Cardinality(below(nth(k))) = Cardinality(below(i))
    BY <2>3, <2>4, <1>3
  <2>6. ~(nth(k) < i) /\ ~(i < nth(k))
    <3>1. nth(k) < i => Cardinality(below(nth(k))) < Cardinality(below(i))
      BY <1>6, <2>5
    <3>2. i < nth(k) => Cardinality(below(i)) < Cardinality(below(nth(k)))
      BY <1>6, <2>5
    <3> QED
      BY <3>1, <3>2, <2>5, <2>3
  <2>7. nth(k) = i
    BY <2>5, <2>6, <1>1
  <2> QED
    BY <2>4, <2>7
<1>9. f \in [1..c -> I]
  BY <1>3
<1>10. ToSet(ItemsAt(s, I)) = {s[i] : i \in I}
  <2>1. ToSet(ItemsAt(s, I)) = {s[nth(k)] : k \in 1..c}
    BY <1>4 DEF ToSet
  <2>2. ASSUME NEW e \in ToSet(ItemsAt(s, I)) PROVE e \in {s[i] : i \in I}
    <3>1. PICK k \in 1..c : e = s[nth(k)]
      BY <2>1
    <3> QED
      BY <3>1, <1>3
  <2>3. ASSUME NEW i \in I PROVE s[i] \in ToSet(ItemsAt(s, I))
    <3>1. PICK k \in 1..c : nth(k) = i
      BY <1>8
    <3> QED
      BY <3>1, <2>1
  <2> QED
    BY <2>2, <2>3
<1> QED
  <2>1. /\ \A k \in 1..c : ItemsAt(s, I)[k] = s[f[k]]
        /\ \A k, l \in 1..c : k < l => f[k] < f[l]
        /\ \A i \in I : \E k \in 1..c : f[k] = i
    BY <1>4, <1>7, <1>8
  <2>2. Positions(f, s, I, c)
    BY <1>9, <2>1 DEF Positions
  <2> HIDE DEF f
  <2>3. Len(ItemsAt(s, I)) = Cardinality(I) /\ Cardinality(I) \in 0..Len(s)
    BY <1>2, <1>5 DEF c
  <2> QED
    BY <1>5, <1>10, <2>2, <2>3

LEMMA ListType ==
  ASSUME NEW s, List(s)
  PROVE  \E T : s \in Seq(T)
BY ListSeq

LEMMA AppendIs ==
  ASSUME NEW s, List(s), NEW c
  PROVE  /\ List(Append(s, c))
         /\ Append(s, c)[1] = IF Len(s) = 0 THEN c ELSE s[1]
<1>1. PICK T : s \in Seq(T)
  BY ListType
<1> DEFINE a == Append(s, c)
<1>2. a \in Seq(T \cup {c}) /\ Len(a) = Len(s) + 1 /\ Len(s) \in Nat
      /\ a[1] = IF Len(s) = 0 THEN c ELSE s[1]
  <2>1. s \in Seq(T \cup {c})
    BY <1>1
  <2> QED
    BY <2>1
<1> HIDE DEF a
<1>3. a = [i \in 1..Len(a) |-> a[i]] /\ Len(a) \in Nat
  BY <1>2
<1>4. List(a)
  BY <1>3, ListIs
<1> QED
  BY <1>2, <1>4 DEF a

LEMMA TailIs ==
  ASSUME NEW s, List(s), Len(s) > 0
  PROVE  /\ Head(s) = s[1]
         /\ List(Tail(s)) /\ Len(Tail(s)) = Len(s) - 1
         /\ \A i \in 1..Len(Tail(s)) : Tail(s)[i] = s[i + 1]
         /\ Tail(s) = << >> <=> Len(Tail(s)) = 0
<1>1. PICK T : s \in Seq(T)
  BY ListType
<1>2. s # << >>
  BY <1>1
<1> DEFINE t == Tail(s)
<1>3. /\ t \in Seq(T) /\ Len(t) = Len(s) - 1 /\ Len(s) \in Nat
      /\ \A i \in 1..Len(t) : t[i] = s[i + 1]
  BY <1>1, <1>2
<1>4. t = << >> <=> Len(t) = 0
  BY <1>3, EmptySeq
<1>5. Head(s) = s[1]
  BY <1>1, <1>2
<1> HIDE DEF t
<1>6. t = [i \in 1..Len(t) |-> t[i]] /\ Len(t) \in Nat
  BY <1>3
<1>7. List(t)
  BY <1>6, ListIs
<1> QED
  BY <1>3, <1>4, <1>5, <1>7 DEF t

\* The item of a rank, of a set in an order.
OfRank(S, R, k) == CHOOSE x \in S : Rank(S, R, x) = k - 1

\* Ordering a set lists its items, each once.
LEMMA RanksAre ==
  ASSUME NEW S, IsFiniteSet(S), NEW R, StrictOrder(S, R)
  PROVE  /\ Cardinality(S) \in Nat
         /\ \A k \in 1..Cardinality(S) : OfRank(S, R, k) \in S
         /\ \A x \in S : \E k \in 1..Cardinality(S) : OfRank(S, R, k) = x
<1> DEFINE n == Cardinality(S)
<1>1. n \in Nat
  BY FS_CardinalityType
<1>2. ASSUME NEW k \in 1..n PROVE OfRank(S, R, k) \in S /\ Rank(S, R, OfRank(S, R, k)) = k - 1
  <2>1. \E x \in S : Rank(S, R, x) = k - 1
    BY RankOnto
  <2> QED
    BY <2>1 DEF OfRank
<1>3. ASSUME NEW x \in S PROVE \E k \in 1..n : OfRank(S, R, k) = x
  <2> DEFINE X == {y \in S : <<y, x>> \in R}
             k == Cardinality(X) + 1
  <2>1. X \in SUBSET S /\ x \notin X
    BY DEF StrictOrder
  <2>2. IsFiniteSet(X) /\ Cardinality(X) <= n /\ (n = Cardinality(X) => S = X)
    BY <2>1, FS_Subset
  <2>3. Cardinality(X) \in Nat
    BY <2>2, FS_CardinalityType
  <2>4. k \in 1..n
    BY <1>1, <2>1, <2>2, <2>3
  <2>5. Rank(S, R, x) = k - 1
    BY <2>3 DEF Rank
  <2> HIDE DEF k
  <2>6. OfRank(S, R, k) \in S /\ Rank(S, R, OfRank(S, R, k)) = Rank(S, R, x)
    BY <1>2, <2>4, <2>5
  <2> DEFINE y == OfRank(S, R, k)
  <2>7. Rank(S, R, x) \in Nat
    BY <2>3 DEF Rank
  <2>8. <<x, y>> \notin R /\ <<y, x>> \notin R
    <3> HIDE DEF X
    <3>1. y \in S /\ Rank(S, R, y) = Rank(S, R, x)
      BY <2>6
    <3> HIDE DEF y
    <3> QED
      BY <2>7, <3>1, RankGrows
  <2>9. x = y
    BY <2>6, <2>8 DEF StrictOrder
  <2> QED
    BY <2>4, <2>9
<1> QED
  BY <1>1, <1>2, <1>3

\* The values of a function on a finite set are finitely many.
LEMMA ImageFinite ==
  ASSUME NEW f, IsFiniteSet(DOMAIN f), f = [x \in DOMAIN f |-> f[x]]
  PROVE  IsFiniteSet({f[x] : x \in DOMAIN f})
<1> DEFINE D == DOMAIN f
           T == {f[x] : x \in D}
<1>1. f \in [D -> T]
  OBVIOUS
<1>2. \A t \in T : \E x \in D : f[x] = t
  OBVIOUS
<1>3. f \in Surjection(D, T)
  BY <1>1, <1>2 DEF Surjection
<1> QED
  BY <1>3, FS_Surjection

\* One list after the other: all their items and no others.
LEMMA FlatFacts ==
  ASSUME NEW lists, List(lists), \A i \in DOMAIN lists : List(lists[i])
  PROVE  /\ List(Flat(lists))
         /\ \A k \in DOMAIN Flat(lists) :
              \E i \in DOMAIN lists : \E j \in DOMAIN lists[i] : Flat(lists)[k] = lists[i][j]
         /\ \A i \in DOMAIN lists : \A j \in DOMAIN lists[i] :
              \E k \in DOMAIN Flat(lists) : Flat(lists)[k] = lists[i][j]
<1> DEFINE of(i) == {<<i, j, lists[i][j]>> : j \in DOMAIN lists[i]}
           S == UNION {of(i) : i \in DOMAIN lists}
           R == {p \in S \X S : p[1][1] < p[2][1] \/ (p[1][1] = p[2][1] /\ p[1][2] < p[2][2])}
           c == Cardinality(S)
           nth(k) == OfRank(S, R, k)
<1>1. ASSUME NEW x \in S
      PROVE  \E i \in DOMAIN lists : \E j \in DOMAIN lists[i] : x = <<i, j, lists[i][j]>>
  OBVIOUS
<1>2. ASSUME NEW i \in DOMAIN lists, NEW j \in DOMAIN lists[i] PROVE <<i, j, lists[i][j]>> \in S
  OBVIOUS
<1>3. DOMAIN lists \subseteq Nat /\ \A i \in DOMAIN lists : DOMAIN lists[i] \subseteq Nat
  BY DEF List
<1>4. IsFiniteSet(S)
  <2>1. ASSUME NEW i \in DOMAIN lists PROVE IsFiniteSet(of(i))
    <3> DEFINE f == [j \in DOMAIN lists[i] |-> <<i, j, lists[i][j]>>]
    <3>1. IsFiniteSet(DOMAIN lists[i])
      BY FS_Interval, 1 \in Int, Len(lists[i]) \in Int DEF List
    <3>2. DOMAIN f = DOMAIN lists[i] /\ f = [j \in DOMAIN f |-> f[j]] /\ of(i) = {f[j] : j \in DOMAIN f}
      OBVIOUS
    <3> HIDE DEF f, of
    <3> QED
      BY <3>1, <3>2, ImageFinite
  <2>2. IsFiniteSet({of(i) : i \in DOMAIN lists})
    <3>1. IsFiniteSet(DOMAIN lists)
      BY FS_Interval, 1 \in Int, Len(lists) \in Int DEF List
    <3> HIDE DEF of
    <3> DEFINE f == [i \in DOMAIN lists |-> of(i)]
    <3>2. DOMAIN f = DOMAIN lists /\ f = [i \in DOMAIN f |-> f[i]]
          /\ {of(i) : i \in DOMAIN lists} = {f[i] : i \in DOMAIN f}
      OBVIOUS
    <3> HIDE DEF f
    <3> QED
      BY <3>1, <3>2, ImageFinite
  <2>3. \A T \in {of(i) : i \in DOMAIN lists} : IsFiniteSet(T)
    <3> HIDE DEF of
    <3> QED
      BY <2>1
  <2> HIDE DEF of
  <2> QED
    BY <2>2, <2>3, FS_UNION
<1>5. \A x \in S : x[1] \in Nat /\ x[2] \in Nat
  BY <1>1, <1>3
<1>6. \A x, y \in S : x[1] = y[1] /\ x[2] = y[2] => x = y
  BY <1>1
<1> HIDE DEF S
<1>7. StrictOrder(S, R)
  <2>1. \A x, y \in S : <<x, y>> \in R <=> x[1] < y[1] \/ (x[1] = y[1] /\ x[2] < y[2])
    OBVIOUS
  <2> HIDE DEF R
  <2> QED
    BY <1>5, <1>6, <2>1 DEF StrictOrder
<1>8. /\ c \in Nat
      /\ \A k \in 1..c : nth(k) \in S
      /\ \A x \in S : \E k \in 1..c : nth(k) = x
  <2> HIDE DEF R
  <2> QED
    BY <1>4, <1>7, RanksAre
<1>9. ASSUME NEW k \in 1..c
      PROVE  Nth(S, LAMBDA x, y : x[1] < y[1] \/ (x[1] = y[1] /\ x[2] < y[2]), k) = nth(k)
  <2>1. ASSUME NEW x \in S
        PROVE  {y \in S : y[1] < x[1] \/ (y[1] = x[1] /\ y[2] < x[2])} = {y \in S : <<y, x>> \in R}
    OBVIOUS
  <2> HIDE DEF R
  <2>2. \A x \in S : Cardinality({y \in S : y[1] < x[1] \/ (y[1] = x[1] /\ y[2] < x[2])}) = Rank(S, R, x)
    BY <2>1 DEF Rank
  <2> QED
    BY <2>2 DEF Nth, OfRank
<1>10. Flat(lists) = [k \in 1..c |-> nth(k)[3]]
  <2>1. Flat(lists) =
          [k \in 1..c |->
             [l \in 1..c |-> Nth(S, LAMBDA x, y : x[1] < y[1] \/ (x[1] = y[1] /\ x[2] < y[2]), l)][k][3]]
    BY DEF Flat, Ordered, S
  <2> HIDE DEF nth, c
  <2>2. \A k \in 1..c : [l \in 1..c |-> Nth(S, LAMBDA x, y : x[1] < y[1] \/ (x[1] = y[1] /\ x[2] < y[2]), l)][k][3] = nth(k)[3]
    BY <1>9
  <2> QED
    BY <2>1, <2>2
<1> HIDE DEF nth, c
<1>11. List(Flat(lists)) /\ DOMAIN Flat(lists) = 1..c
  BY <1>8, <1>10 DEF List
<1>12. ASSUME NEW k \in 1..c
       PROVE  \E i \in DOMAIN lists : \E j \in DOMAIN lists[i] : Flat(lists)[k] = lists[i][j]
  <2>1. PICK i \in DOMAIN lists : \E j \in DOMAIN lists[i] : nth(k) = <<i, j, lists[i][j]>>
    BY <1>1, <1>8
  <2>2. PICK j \in DOMAIN lists[i] : nth(k) = <<i, j, lists[i][j]>>
    BY <2>1
  <2>3. Flat(lists)[k] = lists[i][j]
    BY <1>10, <2>2
  <2> QED
    BY <2>3
<1>13. ASSUME NEW i \in DOMAIN lists, NEW j \in DOMAIN lists[i]
       PROVE  \E k \in 1..c : Flat(lists)[k] = lists[i][j]
  <2>1. PICK k \in 1..c : nth(k) = <<i, j, lists[i][j]>>
    BY <1>2, <1>8
  <2>2. Flat(lists)[k] = lists[i][j]
    BY <1>10, <2>1
  <2> QED
    BY <2>2
<1> QED
  BY <1>11, <1>12, <1>13

\* The order in which the items of a list come, given which come before which.
Arranged(s, R) ==
  {p \in (DOMAIN s) \X (DOMAIN s) : p \in R \/ (<<p[2], p[1]>> \notin R /\ p[1] < p[2])}

\* The order of the positions is strict if that of what stands there is weak.
LEMMA ArrangedStrict ==
  ASSUME NEW s, List(s), NEW R,
         \A i \in DOMAIN s : <<i, i>> \notin R,
         \A i, j, k \in DOMAIN s : <<i, k>> \in R => <<i, j>> \in R \/ <<j, k>> \in R,
         \A i, j, k \in DOMAIN s : <<i, j>> \in R /\ <<j, k>> \in R => <<i, k>> \in R
  PROVE  StrictOrder(DOMAIN s, Arranged(s, R))
<1>1. ASSUME NEW i \in DOMAIN s, NEW j \in DOMAIN s
      PROVE  <<i, j>> \in Arranged(s, R) <=> (<<i, j>> \in R \/ (<<j, i>> \notin R /\ i < j))
  <2>1. <<i, j>> \in (DOMAIN s) \X (DOMAIN s) /\ <<i, j>>[1] = i /\ <<i, j>>[2] = j
    OBVIOUS
  <2> QED
    BY <2>1 DEF Arranged
<1>2. DOMAIN s \subseteq Nat
  BY DEF List
<1>3. ASSUME NEW x \in DOMAIN s PROVE <<x, x>> \notin Arranged(s, R)
  <2>1. ~(x < x) /\ <<x, x>> \notin R
    BY <1>2
  <2> QED
    BY <1>1, <2>1
<1>4. ASSUME NEW x \in DOMAIN s, NEW y \in DOMAIN s
      PROVE  x = y \/ <<x, y>> \in Arranged(s, R) \/ <<y, x>> \in Arranged(s, R)
  <2>1. x = y \/ x < y \/ y < x
    BY <1>2
  <2> QED
    BY <1>1, <2>1
<1>5. ASSUME NEW x \in DOMAIN s, NEW y \in DOMAIN s, NEW z \in DOMAIN s,
             <<x, y>> \in Arranged(s, R), <<y, z>> \in Arranged(s, R)
      PROVE  <<x, z>> \in Arranged(s, R)
  <2>1. x \in Nat /\ y \in Nat /\ z \in Nat
    BY <1>2
  <2>2. /\ <<x, y>> \in R \/ (<<y, x>> \notin R /\ x < y)
        /\ <<y, z>> \in R \/ (<<z, y>> \notin R /\ y < z)
    BY <1>1, <1>5
  <2>3. <<x, z>> \in R \/ (<<z, x>> \notin R /\ x < z)
    BY <2>1, <2>2
  <2> QED
    BY <1>1, <2>3
<1> QED
  BY <1>3, <1>4, <1>5 DEF StrictOrder

\* A list in that order has its items.
LEMMA ArrangedFacts ==
  ASSUME NEW s, List(s), NEW R, StrictOrder(DOMAIN s, R), NEW t,
         t = [k \in 1..Cardinality(DOMAIN s) |-> s[OfRank(DOMAIN s, R, k)]]
  PROVE  List(t) /\ ToSet(t) = ToSet(s)
<1> DEFINE D == DOMAIN s
           c == Cardinality(D)
           nth(k) == OfRank(D, R, k)
<1>1. IsFiniteSet(D)
  BY FS_Interval, 1 \in Int, Len(s) \in Int DEF List
<1>2. c \in Nat /\ (\A k \in 1..c : nth(k) \in D) /\ \A x \in D : \E k \in 1..c : nth(k) = x
  BY <1>1, RanksAre
<1> HIDE DEF nth
<1>3. t = [k \in 1..c |-> s[nth(k)]]
  BY DEF nth
<1> HIDE DEF c
<1>4. List(t) /\ DOMAIN t = 1..c
  <2>1. t = [k \in 1..c |-> t[k]]
    BY <1>3
  <2> QED
    BY <1>2, <2>1, ListIs
<1>5. ToSet(t) = ToSet(s)
  <2>1. ASSUME NEW k \in 1..c PROVE t[k] \in ToSet(s)
    BY <1>2, <1>3 DEF ToSet
  <2>2. ASSUME NEW x \in D PROVE s[x] \in ToSet(t)
    <3>1. PICK k \in 1..c : nth(k) = x
      BY <1>2
    <3> QED
      BY <1>3, <1>4, <3>1 DEF ToSet
  <2>3. ToSet(t) = {t[k] : k \in 1..c} /\ ToSet(s) = {s[x] : x \in D}
    BY <1>4 DEF ToSet
  <2> QED
    BY <2>1, <2>2, <2>3
<1> QED
  BY <1>4, <1>5

LEMMA SortedNewest ==
  ASSUME NEW s, List(s), \A i \in DOMAIN s : s[i].at \in Int /\ s[i].url \in Int
  PROVE  List(Sorted(s, Newest)) /\ ToSet(Sorted(s, Newest)) = ToSet(s)
<1> DEFINE D == DOMAIN s
           R == {p \in D \X D : Newest(s[p[1]], s[p[2]])}
           A == Arranged(s, R)
           first(i, j) == Newest(s[i], s[j]) \/ (~Newest(s[j], s[i]) /\ i < j)
<1>1. \A i, j \in D : <<i, j>> \in R <=> Newest(s[i], s[j])
  <2>1. ASSUME NEW i \in D, NEW j \in D PROVE <<i, j>> \in R <=> Newest(s[i], s[j])
    <3>1. <<i, j>> \in D \X D /\ <<i, j>>[1] = i /\ <<i, j>>[2] = j
      OBVIOUS
    <3> QED
      BY <3>1
  <2> QED
    BY <2>1
<1> HIDE DEF R
<1>2. StrictOrder(D, A)
  <2>1. ASSUME NEW i \in D, NEW j \in D, NEW k \in D
        PROVE  /\ <<i, i>> \notin R
               /\ <<i, k>> \in R => <<i, j>> \in R \/ <<j, k>> \in R
               /\ <<i, j>> \in R /\ <<j, k>> \in R => <<i, k>> \in R
    <3>1. /\ s[i].at \in Int /\ s[i].url \in Int /\ s[j].at \in Int /\ s[j].url \in Int
          /\ s[k].at \in Int /\ s[k].url \in Int
      OBVIOUS
    <3>2. /\ ~Newest(s[i], s[i])
          /\ Newest(s[i], s[k]) => Newest(s[i], s[j]) \/ Newest(s[j], s[k])
          /\ Newest(s[i], s[j]) /\ Newest(s[j], s[k]) => Newest(s[i], s[k])
      BY <3>1 DEF Newest
    <3> QED
      BY <1>1, <3>2
  <2> QED
    BY <2>1, ArrangedStrict
<1>3. ASSUME NEW i \in D, NEW j \in D PROVE <<i, j>> \in A <=> first(i, j)
  <2>1. <<i, j>> \in D \X D /\ <<i, j>>[1] = i /\ <<i, j>>[2] = j
    OBVIOUS
  <2>2. <<i, j>> \in A <=> (<<i, j>> \in R \/ (<<j, i>> \notin R /\ i < j))
    BY <2>1 DEF Arranged
  <2> QED
    BY <1>1, <2>2
<1> HIDE DEF A
<1>4. ASSUME NEW k PROVE Nth(D, LAMBDA i, j : first(i, j), k) = OfRank(D, A, k)
  <2>1. ASSUME NEW x \in D PROVE {y \in D : first(y, x)} = {y \in D : <<y, x>> \in A}
    <3> HIDE DEF first
    <3> QED
      BY <1>3
  <2> HIDE DEF first
  <2>2. \A x \in D : Cardinality({y \in D : first(y, x)}) = Rank(D, A, x)
    BY <2>1 DEF Rank
  <2> QED
    BY <2>2 DEF Nth, OfRank
<1>5. Sorted(s, Newest) = [k \in 1..Cardinality(D) |-> s[OfRank(D, A, k)]]
  <2> HIDE DEF D
  <2>1. Sorted(s, Newest) =
          [k \in 1..Cardinality(D) |->
             s[[l \in 1..Cardinality(D) |-> Nth(D, LAMBDA i, j : first(i, j), l)][k]]]
    BY DEF Sorted, Ordered, D
  <2> HIDE DEF first
  <2> DEFINE c == Cardinality(D)
  <2> HIDE DEF c
  <2>2. \A k \in 1..c : [l \in 1..c |-> Nth(D, LAMBDA i, j : first(i, j), l)][k] = OfRank(D, A, k)
    BY <1>4
  <2> QED
    BY <2>1, <2>2 DEF c
<1> QED
  BY <1>2, <1>5, ArrangedFacts

\* What the pages of a search hold is what it found.
LEMMA CollectedIs ==
  ASSUME NEW S, NEW found \in Seq(S), NEW calls \in Nat
  PROVE  List(Collected(found, calls)) /\ ToSet(Collected(found, calls)) \subseteq S
<1> DEFINE pages == {n \in 1 .. calls : 1 + (n - 1) * Display <= LastStart}
           T == {Len(found), Cardinality(pages) * Display}
<1>1. IsFiniteSet(pages) /\ Cardinality(pages) \in Nat
  BY FS_Interval, FS_Subset, FS_CardinalityType, 1 \in Int, calls \in Int, pages \in SUBSET (1..calls)
<1> HIDE DEF pages
<1>2. T \in SUBSET Nat /\ T # {}
  <2>1. Display \in Nat /\ Len(found) \in Nat
    BY NewsAssumption
  <2>2. Cardinality(pages) * Display \in Nat
    BY <1>1, <2>1
  <2> QED
    BY <2>1, <2>2
<1>3. Min(T) \in Nat /\ Min(T) <= Len(found)
  <2>1. Min(T) \in T /\ \A i \in T : Min(T) <= i
    BY <1>2, MinIs
  <2> QED
    BY <1>2, <2>1
<1>4. List(found) /\ ToSet(found) \subseteq S
  BY SeqList DEF ToSet
<1>5. Min(T) \in 0..Len(found)
  BY <1>3
<1> HIDE DEF T
<1>6. Collected(found, calls) = SubSeq(found, 1, Min(T))
  BY DEF Collected, T, pages
<1> QED
  BY <1>4, <1>5, <1>6, ListPrefix

\* What is mapped.
LEMMA SeqMapIs ==
  ASSUME NEW s, List(s), NEW t, DOMAIN t = DOMAIN s, t = [i \in DOMAIN t |-> t[i]]
  PROVE  List(t) /\ Len(t) = Len(s)
BY ListIs DEF List

-----------------------------------------------------------------------------
(* The headlines *)

\* An address is a number.
LEMMA SourceUrlIs ==
  ASSUME NEW key \in DOMAIN Wire, SourceUrl(Wire[key]) # NoUrl
  PROVE  SourceUrl(Wire[key]) \in Int
<1> DEFINE item == Wire[key]
           both == <<item.original, item.link>>
           free(link) == IF link = NoUrl THEN FALSE ELSE ~link.login
           I == {i \in DOMAIN both : free(both[i])}
           usable == ItemsAt(both, I)
<1>1. SourceUrl(item) = IF usable = << >> THEN NoUrl ELSE Address(Head(usable))
  BY DEF SourceUrl, Where
<1>2. usable # << >> /\ SourceUrl(item) = Address(Head(usable))
  BY <1>1
<1>3. List(both) /\ I \subseteq DOMAIN both
  <2>1. both = [i \in 1..2 |-> both[i]]
    OBVIOUS
  <2> HIDE DEF both
  <2> QED
    BY <2>1, ListIs
<1>4. List(usable) /\ ToSet(usable) = {both[i] : i \in I}
  <2> HIDE DEF both, I
  <2> QED
    BY <1>3, ItemsAtFacts
<1>5. ASSUME NEW l, List(l), l # << >> PROVE Head(l) \in ToSet(l)
  BY <1>5 DEF List, ToSet
<1>6. Head(usable) \in {both[i] : i \in I}
  <2> HIDE DEF usable
  <2> QED
    BY <1>2, <1>4, <1>5
<1>7. PICK i \in I : Head(usable) = both[i]
  <2> HIDE DEF usable, I
  <2> QED
    BY <1>6
<1>8. both[i] \in {item.original, item.link} /\ both[i] # NoUrl
  OBVIOUS
<1>9. both[i].page \in Int /\ both[i].part \in Int
  <2>1. ASSUME NEW link \in {Wire[key].original, Wire[key].link}, link # NoUrl
        PROVE link.page \in Int /\ link.part \in Int
    BY <2>1, WireAssumption
  <2> QED
    BY <1>8, <2>1
<1> HIDE DEF both, usable, I
<1> QED
  BY <1>2, <1>7, <1>9 DEF Address

\* An item that passed can be placed among others.
LEMMA AptIs ==
  ASSUME NEW key \in DOMAIN Wire, NEW s, Apt(Wire[key], s)
  PROVE  /\ Wire[key].at \in Int /\ SourceUrl(Wire[key]) \in Int /\ Score(Wire[key]) \in Int
<1>1. Wire[key].at \in Int
  BY WireAssumption DEF Apt
<1>2. SourceUrl(Wire[key]) \in Int
  BY SourceUrlIs DEF Apt
<1>3. Score(Wire[key]) \in Int
  <2> DEFINE T == Wire[key].heading \cap EventTerms
  <2>1. IsFiniteSet(T)
    BY TitleAssumption, FS_Subset, T \in SUBSET EventTerms
  <2>2. Cardinality(T) \in Nat
    BY <2>1, FS_CardinalityType
  <2> QED
    BY <2>2 DEF Score
<1> QED
  BY <1>1, <1>2, <1>3

LEMMA BeforeIs ==
  ASSUME NEW a, NEW b
  PROVE  Before(a, b) <=>
           \/ -a.at < -b.at
           \/ -a.at = -b.at /\ -Score(a) < -Score(b)
           \/ -a.at = -b.at /\ -Score(a) = -Score(b) /\ SourceUrl(a) < SourceUrl(b)
<1> DEFINE k(item) == <<-item.at, -Score(item), SourceUrl(item)>>
<1>1. Before(a, b) <=> \E i \in 1 .. 3 : k(a)[i] < k(b)[i] /\ \A j \in 1 .. i - 1 : k(a)[j] = k(b)[j]
  BY DEF Before
<1>2. /\ k(a)[1] = -a.at /\ k(a)[2] = -Score(a) /\ k(a)[3] = SourceUrl(a)
      /\ k(b)[1] = -b.at /\ k(b)[2] = -Score(b) /\ k(b)[3] = SourceUrl(b)
  OBVIOUS
<1> HIDE DEF k
<1>3. 1 .. 3 = {1, 2, 3} /\ 1 .. (1 - 1) = {} /\ 1 .. (2 - 1) = {1} /\ 1 .. (3 - 1) = {1, 2}
  OBVIOUS
<1>4. (\E i \in 1 .. 3 : k(a)[i] < k(b)[i] /\ \A j \in 1 .. i - 1 : k(a)[j] = k(b)[j])
       <=> \/ k(a)[1] < k(b)[1]
           \/ k(a)[2] < k(b)[2] /\ k(a)[1] = k(b)[1]
           \/ k(a)[3] < k(b)[3] /\ k(a)[1] = k(b)[1] /\ k(a)[2] = k(b)[2]
  BY <1>3
<1> QED
  BY <1>1, <1>2, <1>4

LEMMA SortedBefore ==
  ASSUME NEW s, List(s),
         \A i \in DOMAIN s : s[i].at \in Int /\ SourceUrl(s[i]) \in Int /\ Score(s[i]) \in Int
  PROVE  List(Sorted(s, Before)) /\ ToSet(Sorted(s, Before)) = ToSet(s)
<1> DEFINE D == DOMAIN s
           R == {p \in D \X D : Before(s[p[1]], s[p[2]])}
           A == Arranged(s, R)
           first(i, j) == Before(s[i], s[j]) \/ (~Before(s[j], s[i]) /\ i < j)
<1>1. \A i, j \in D : <<i, j>> \in R <=> Before(s[i], s[j])
  <2>1. ASSUME NEW i \in D, NEW j \in D PROVE <<i, j>> \in R <=> Before(s[i], s[j])
    <3>1. <<i, j>> \in D \X D /\ <<i, j>>[1] = i /\ <<i, j>>[2] = j
      OBVIOUS
    <3> QED
      BY <3>1
  <2> QED
    BY <2>1
<1> HIDE DEF R
<1>2. StrictOrder(D, A)
  <2>1. ASSUME NEW i \in D, NEW j \in D, NEW k \in D
        PROVE  /\ <<i, i>> \notin R
               /\ <<i, k>> \in R => <<i, j>> \in R \/ <<j, k>> \in R
               /\ <<i, j>> \in R /\ <<j, k>> \in R => <<i, k>> \in R
    <3>1. /\ s[i].at \in Int /\ SourceUrl(s[i]) \in Int /\ Score(s[i]) \in Int
          /\ s[j].at \in Int /\ SourceUrl(s[j]) \in Int /\ Score(s[j]) \in Int
          /\ s[k].at \in Int /\ SourceUrl(s[k]) \in Int /\ Score(s[k]) \in Int
      OBVIOUS
    <3>2. ASSUME NEW a \in {i, j, k}, NEW b \in {i, j, k}
          PROVE  Before(s[a], s[b]) <=>
                   \/ -s[a].at < -s[b].at
                   \/ -s[a].at = -s[b].at /\ -Score(s[a]) < -Score(s[b])
                   \/ -s[a].at = -s[b].at /\ -Score(s[a]) = -Score(s[b]) /\ SourceUrl(s[a]) < SourceUrl(s[b])
      BY BeforeIs
    <3>3. /\ ~Before(s[i], s[i])
          /\ Before(s[i], s[k]) => Before(s[i], s[j]) \/ Before(s[j], s[k])
          /\ Before(s[i], s[j]) /\ Before(s[j], s[k]) => Before(s[i], s[k])
      BY <3>1, <3>2
    <3> QED
      BY <1>1, <3>3
  <2> QED
    BY <2>1, ArrangedStrict
<1>3. ASSUME NEW i \in D, NEW j \in D PROVE <<i, j>> \in A <=> first(i, j)
  <2>1. <<i, j>> \in D \X D /\ <<i, j>>[1] = i /\ <<i, j>>[2] = j
    OBVIOUS
  <2>2. <<i, j>> \in A <=> (<<i, j>> \in R \/ (<<j, i>> \notin R /\ i < j))
    BY <2>1 DEF Arranged
  <2> QED
    BY <1>1, <2>2
<1> HIDE DEF A
<1>4. ASSUME NEW k PROVE Nth(D, LAMBDA i, j : first(i, j), k) = OfRank(D, A, k)
  <2>1. ASSUME NEW x \in D PROVE {y \in D : first(y, x)} = {y \in D : <<y, x>> \in A}
    <3> HIDE DEF first
    <3> QED
      BY <1>3
  <2> HIDE DEF first
  <2>2. \A x \in D : Cardinality({y \in D : first(y, x)}) = Rank(D, A, x)
    BY <2>1 DEF Rank
  <2> QED
    BY <2>2 DEF Nth, OfRank
<1>5. Sorted(s, Before) = [k \in 1..Cardinality(D) |-> s[OfRank(D, A, k)]]
  <2> HIDE DEF D
  <2>1. Sorted(s, Before) =
          [k \in 1..Cardinality(D) |->
             s[[l \in 1..Cardinality(D) |-> Nth(D, LAMBDA i, j : first(i, j), l)][k]]]
    BY DEF Sorted, Ordered, D
  <2> HIDE DEF first
  <2> DEFINE c == Cardinality(D)
  <2> HIDE DEF c
  <2>2. \A k \in 1..c : [l \in 1..c |-> Nth(D, LAMBDA i, j : first(i, j), l)][k] = OfRank(D, A, k)
    BY <1>4
  <2> QED
    BY <2>1, <2>2 DEF c
<1> QED
  BY <1>2, <1>5, ArrangedFacts

WireItems == {Wire[key] : key \in DOMAIN Wire}

\* The candidates of a company: each an article that passed for it.
LEMMA TitleCandidatesAre ==
  ASSUME NEW s, NEW items, List(items), ToSet(items) \subseteq WireItems
  PROVE  /\ List(TitleCandidates(items, s))
         /\ \A i \in DOMAIN TitleCandidates(items, s) :
              \E key \in DOMAIN Wire :
                Apt(Wire[key], s) /\ TitleCandidates(items, s)[i] = TitleDocument(Wire[key], s)
<1> DEFINE I == {i \in DOMAIN items : Apt(items[i], s)}
           apt == ItemsAt(items, I)
<1>1. List(apt) /\ ToSet(apt) = {items[i] : i \in I}
  BY ItemsAtFacts
<1>2. \A x \in ToSet(apt) : x \in WireItems /\ Apt(x, s)
  <2>1. \A i \in I : items[i] \in ToSet(items)
    BY DEF ToSet
  <2> QED
    BY <1>1, <2>1
<1> HIDE DEF apt
<1>3. \E K \in SUBSET DOMAIN apt : FirstOfEach(apt) = ItemsAt(apt, K)
  BY DEF FirstOfEach
<1>4. PICK K \in SUBSET DOMAIN apt : FirstOfEach(apt) = ItemsAt(apt, K)
  BY <1>3
<1>5. List(FirstOfEach(apt)) /\ ToSet(FirstOfEach(apt)) = {apt[i] : i \in K}
  BY <1>1, <1>4, ItemsAtFacts
<1> DEFINE f == FirstOfEach(apt)
<1>6. \A x \in ToSet(f) : x \in WireItems /\ Apt(x, s)
  <2>1. \A i \in K : apt[i] \in ToSet(apt)
    BY DEF ToSet
  <2> QED
    BY <1>2, <1>5, <2>1
<1>7. List(f)
  BY <1>5
<1> HIDE DEF f
<1>8. \A i \in DOMAIN f : f[i].at \in Int /\ SourceUrl(f[i]) \in Int /\ Score(f[i]) \in Int
  <2>1. ASSUME NEW i \in DOMAIN f PROVE f[i].at \in Int /\ SourceUrl(f[i]) \in Int /\ Score(f[i]) \in Int
    <3>1. f[i] \in WireItems /\ Apt(f[i], s)
      BY <1>6 DEF ToSet
    <3>2. PICK key \in DOMAIN Wire : f[i] = Wire[key]
      BY <3>1 DEF WireItems
    <3> QED
      BY <3>1, <3>2, AptIs
  <2> QED
    BY <2>1
<1> DEFINE t == Sorted(f, Before)
           c == TitleCandidates(items, s)
<1>9. List(t) /\ ToSet(t) = ToSet(f)
  BY <1>7, <1>8, SortedBefore
<1>10. c = [i \in DOMAIN t |-> TitleDocument(t[i], s)]
  BY DEF TitleCandidates, Where, SeqMap, f, apt
<1> HIDE DEF t, c
<1>11. List(c) /\ DOMAIN c = DOMAIN t
  <2>1. DOMAIN c = DOMAIN t /\ c = [i \in DOMAIN c |-> c[i]]
    BY <1>10
  <2> QED
    BY <1>9, <2>1, SeqMapIs
<1>12. ASSUME NEW i \in DOMAIN c
       PROVE  \E key \in DOMAIN Wire : Apt(Wire[key], s) /\ c[i] = TitleDocument(Wire[key], s)
  <2>1. t[i] \in ToSet(t)
    BY <1>11 DEF ToSet
  <2>2. t[i] \in WireItems /\ Apt(t[i], s)
    BY <1>6, <1>9, <2>1
  <2>3. PICK key \in DOMAIN Wire : t[i] = Wire[key]
    BY <2>2 DEF WireItems
  <2>4. c[i] = TitleDocument(t[i], s)
    BY <1>10, <1>11
  <2> QED
    BY <2>2, <2>3, <2>4
<1> QED
  BY <1>11, <1>12 DEF c

\* What is kept of them: candidates which have their place among those of the day.
LEMMA CappedIs ==
  ASSUME NEW c, List(c), \A i \in DOMAIN c : c[i].at \in Int
  PROVE  /\ List(Capped(c))
         /\ \A k \in DOMAIN Capped(c) :
              \E i \in DOMAIN c : Capped(c)[k] = c[i] /\ Place(c, i) <= DailyCap
<1> DEFINE I == {i \in DOMAIN c : Place(c, i) <= DailyCap}
           within == ItemsAt(c, I)
           S == {Day(c[i]) : i \in DOMAIN c}
           days == Ordered(S, <)
           ofDay(day) == ItemsAt(within, {i \in DOMAIN within : Day(within[i]) = day})
           lists == [n \in DOMAIN days |-> ofDay(days[n])]
           byDay == Flat(lists)
<1>1. List(within) /\ ToSet(within) = {c[i] : i \in I}
  BY ItemsAtFacts
<1>2. IsFiniteSet(S)
  <2> DEFINE f == [i \in DOMAIN c |-> Day(c[i])]
  <2>1. IsFiniteSet(DOMAIN c)
    BY FS_Interval, 1 \in Int, Len(c) \in Int DEF List
  <2>2. DOMAIN f = DOMAIN c /\ f = [i \in DOMAIN f |-> f[i]] /\ S = {f[i] : i \in DOMAIN f}
    OBVIOUS
  <2> HIDE DEF f, S
  <2> QED
    BY <2>1, <2>2, ImageFinite
<1>3. List(days)
  <2> DEFINE n == Cardinality(S)
  <2>1. n \in Nat
    BY <1>2, FS_CardinalityType
  <2>2. days = [k \in 1..n |-> Nth(S, <, k)]
    BY DEF Ordered
  <2> HIDE DEF n
  <2>3. days = [k \in 1..n |-> days[k]]
    BY <2>2
  <2> HIDE DEF days
  <2> QED
    BY <2>1, <2>3, ListIs
<1> HIDE DEF days, S
<1>4. ASSUME NEW day PROVE List(ofDay(day)) /\ ToSet(ofDay(day)) \subseteq ToSet(within)
  <2> DEFINE J == {i \in DOMAIN within : Day(within[i]) = day}
  <2>1. List(ItemsAt(within, J)) /\ ToSet(ItemsAt(within, J)) = {within[i] : i \in J}
    <3> HIDE DEF within
    <3> QED
      BY <1>1, ItemsAtFacts
  <2>2. {within[i] : i \in J} \subseteq ToSet(within)
    <3> HIDE DEF within
    <3> QED
      BY DEF ToSet
  <2> QED
    BY <2>1, <2>2
<1> HIDE DEF within, ofDay
<1>5. DOMAIN lists = DOMAIN days /\ List(lists)
  <2>1. DOMAIN lists = DOMAIN days /\ lists = [n \in DOMAIN lists |-> lists[n]]
    OBVIOUS
  <2> HIDE DEF lists
  <2> QED
    BY <1>3, <2>1, SeqMapIs
<1>6. \A n \in DOMAIN lists : List(lists[n]) /\ ToSet(lists[n]) \subseteq ToSet(within)
  BY <1>4
<1> HIDE DEF lists
<1>7. /\ List(byDay)
      /\ \A k \in DOMAIN byDay : \E n \in DOMAIN lists : \E j \in DOMAIN lists[n] : byDay[k] = lists[n][j]
  BY <1>5, <1>6, FlatFacts
<1> HIDE DEF byDay
<1>8. \A k \in DOMAIN byDay : byDay[k] \in ToSet(within)
  BY <1>6, <1>7 DEF ToSet
<1> DEFINE T == {Len(byDay), PeriodCap}
<1>9. Min(T) \in 0..Len(byDay)
  <2>1. T \in SUBSET Nat /\ T # {}
    BY <1>7, TitleAssumption DEF List
  <2>2. Min(T) \in T /\ \A i \in T : Min(T) <= i
    BY <2>1, MinIs
  <2> QED
    BY <2>1, <2>2
<1>10. Capped(c) = SubSeq(byDay, 1, Min(T))
  BY DEF Capped, SeqMap, Where, byDay, lists, ofDay, days, S, within
<1> HIDE DEF T
<1>11. /\ List(SubSeq(byDay, 1, Min(T)))
       /\ Len(SubSeq(byDay, 1, Min(T))) = Min(T)
       /\ \A i \in 1..Min(T) : SubSeq(byDay, 1, Min(T))[i] = byDay[i]
  BY <1>7, <1>9, ListPrefix
<1>12. ASSUME NEW k \in DOMAIN Capped(c)
       PROVE  \E i \in DOMAIN c : Capped(c)[k] = c[i] /\ Place(c, i) <= DailyCap
  <2>1. k \in 1..Min(T) /\ Capped(c)[k] = byDay[k]
    BY <1>10, <1>11 DEF List
  <2>2. k \in DOMAIN byDay
    BY <1>7, <1>9, <2>1 DEF List
  <2>3. Capped(c)[k] \in {c[i] : i \in I}
    BY <1>1, <1>8, <2>1, <2>2
  <2> QED
    BY <2>3
<1> QED
  BY <1>10, <1>11, <1>12

\* Of two candidates of a day the later one has the later place.
LEMMA PlaceGrows ==
  ASSUME NEW c, List(c), NEW i \in DOMAIN c, NEW j \in DOMAIN c, i < j, Day(c[i]) = Day(c[j])
  PROVE  Place(c, i) < Place(c, j) /\ Place(c, i) \in Nat /\ Place(c, i) > 0
<1> DEFINE before(n) == {k \in 1..n : Day(c[k]) = Day(c[n])}
<1>1. i \in Nat /\ j \in Nat /\ i > 0
  BY DEF List
<1>2. before(i) \subseteq before(j) /\ j \in before(j) /\ j \notin before(i) /\ i \in before(i)
  BY <1>1
<1>3. IsFiniteSet(before(i)) /\ IsFiniteSet(before(j))
  BY <1>1, FS_Interval, FS_Subset, 1 \in Int, i \in Int, j \in Int,
     before(i) \in SUBSET (1..i), before(j) \in SUBSET (1..j)
<1>4. /\ Cardinality(before(i)) <= Cardinality(before(j))
      /\ Cardinality(before(i)) = Cardinality(before(j)) => before(i) = before(j)
  <2> HIDE DEF before
  <2> QED
    BY <1>2, <1>3, FS_Subset
<1>5. Cardinality(before(i)) \in Nat /\ Cardinality(before(j)) \in Nat
  BY <1>3, FS_CardinalityType
<1>6. Cardinality(before(i)) # 0
  <2> HIDE DEF before
  <2> QED
    BY <1>2, <1>3, FS_EmptySet
<1>7. Place(c, i) = Cardinality(before(i)) /\ Place(c, j) = Cardinality(before(j))
  BY DEF Place
<1> HIDE DEF before
<1> QED
  BY <1>2, <1>4, <1>5, <1>6, <1>7

\* A candidate of its day has a place, and another one another.
LEMMA OnePlace ==
  ASSUME NEW c, List(c), NEW i \in DOMAIN c, NEW j \in DOMAIN c,
         Day(c[i]) = Day(c[j]), Place(c, i) = Place(c, j)
  PROVE  i = j
<1>1. i \in Nat /\ j \in Nat
  BY DEF List
<1>2. CASE i < j
  BY <1>2, PlaceGrows
<1>3. CASE j < i
  BY <1>3, PlaceGrows
<1> QED
  BY <1>1, <1>2, <1>3

LEMMA PlacePositive ==
  ASSUME NEW c, List(c), NEW i \in DOMAIN c
  PROVE  Place(c, i) \in Nat \ {0}
<1> DEFINE before == {k \in 1..i : Day(c[k]) = Day(c[i])}
<1>1. i \in Nat /\ i > 0
  BY DEF List
<1>2. IsFiniteSet(before) /\ i \in before
  <2>1. i \in before /\ before \in SUBSET (1..i)
    BY <1>1
  <2> HIDE DEF before
  <2> QED
    BY <1>1, <2>1, FS_Interval, FS_Subset, 1 \in Int, i \in Int
<1>3. Cardinality(before) \in Nat /\ Cardinality(before) # 0
  <2> HIDE DEF before
  <2> QED
    BY <1>2, FS_EmptySet, FS_CardinalityType
<1> QED
  BY <1>3 DEF Place

\* What the searches for a company's headlines found.
Headlines(found, s) ==
  Flat([n \in DOMAIN found[s] |->
          SeqMap(LAMBDA key : Wire[key], Collected(found[s][n], TitleCalls[n]))])

LEMMA HeadlinesAre ==
  ASSUME NEW h \in DOMAIN Searches, NEW s \in Companies
  PROVE  List(Headlines(Searches[h], s)) /\ ToSet(Headlines(Searches[h], s)) \subseteq WireItems
<1> DEFINE found == Searches[h]
           lists == [n \in DOMAIN found[s] |->
                       SeqMap(LAMBDA key : Wire[key], Collected(found[s][n], TitleCalls[n]))]
<1>1. /\ found[s] \in Seq(ToSet(found[s]))
      /\ \A n \in DOMAIN found[s] : found[s][n] \in Seq(DOMAIN Wire) /\ TitleCalls[n] \in Nat
  BY InputsAssumption
<1>2. List(found[s])
  BY <1>1, SeqList
<1> HIDE DEF found
<1>3. ASSUME NEW n \in DOMAIN found[s]
      PROVE  /\ List(lists[n])
             /\ \A j \in DOMAIN lists[n] : lists[n][j] \in WireItems
  <2> DEFINE keys == Collected(found[s][n], TitleCalls[n])
  <2>1. List(keys) /\ ToSet(keys) \subseteq DOMAIN Wire
    BY <1>1, CollectedIs
  <2> HIDE DEF keys
  <2> DEFINE t == [i \in DOMAIN keys |-> Wire[keys[i]]]
  <2>2. DOMAIN t = DOMAIN keys /\ t = [i \in DOMAIN t |-> t[i]]
    OBVIOUS
  <2>3. List(t)
    <3> HIDE DEF t
    <3> QED
      BY <2>1, <2>2, SeqMapIs
  <2>4. \A j \in DOMAIN t : t[j] \in WireItems
    BY <2>1 DEF ToSet, WireItems
  <2>5. lists[n] = t
    BY DEF keys, SeqMap
  <2> HIDE DEF t, lists
  <2> QED
    BY <2>3, <2>4, <2>5
<1>4. DOMAIN lists = DOMAIN found[s] /\ List(lists)
  <2>1. DOMAIN lists = DOMAIN found[s] /\ lists = [n \in DOMAIN lists |-> lists[n]]
    OBVIOUS
  <2> HIDE DEF lists
  <2> QED
    BY <1>2, <2>1, SeqMapIs
<1>5. Headlines(found, s) = Flat(lists)
  BY DEF Headlines
<1> HIDE DEF lists
<1>6. /\ List(Flat(lists))
      /\ \A k \in DOMAIN Flat(lists) :
           \E n \in DOMAIN lists : \E j \in DOMAIN lists[n] : Flat(lists)[k] = lists[n][j]
  BY <1>3, <1>4, FlatFacts
<1>7. \A k \in DOMAIN Flat(lists) : Flat(lists)[k] \in WireItems
  BY <1>3, <1>4, <1>6
<1> QED
  BY <1>5, <1>6, <1>7 DEF found, ToSet

\* What is kept for a company: about it, and in its place among those of the day.
LEMMA CuratedTitlesAre ==
  ASSUME NEW s, NEW items, List(items), ToSet(items) \subseteq WireItems
  PROVE  /\ List(CuratedTitles(items, s))
         /\ \A k \in DOMAIN CuratedTitles(items, s) :
              /\ \E key \in DOMAIN Wire :
                   Apt(Wire[key], s) /\ CuratedTitles(items, s)[k] = TitleDocument(Wire[key], s)
              /\ \E i \in DOMAIN TitleCandidates(items, s) :
                   /\ CuratedTitles(items, s)[k] = TitleCandidates(items, s)[i]
                   /\ Place(TitleCandidates(items, s), i) <= DailyCap
<1> DEFINE c == TitleCandidates(items, s)
<1>1. /\ List(c)
      /\ \A i \in DOMAIN c :
           \E key \in DOMAIN Wire : Apt(Wire[key], s) /\ c[i] = TitleDocument(Wire[key], s)
  BY TitleCandidatesAre
<1> HIDE DEF c
<1>2. \A i \in DOMAIN c : c[i].at \in Int
  <2>1. ASSUME NEW i \in DOMAIN c PROVE c[i].at \in Int
    <3>1. PICK key \in DOMAIN Wire : Apt(Wire[key], s) /\ c[i] = TitleDocument(Wire[key], s)
      BY <1>1
    <3>2. Wire[key].at \in Int
      BY <3>1, AptIs
    <3> QED
      BY <3>1, <3>2 DEF TitleDocument
  <2> QED
    BY <2>1
<1>3. /\ List(Capped(c))
      /\ \A k \in DOMAIN Capped(c) :
           \E i \in DOMAIN c : Capped(c)[k] = c[i] /\ Place(c, i) <= DailyCap
  BY <1>1, <1>2, CappedIs
<1>4. CuratedTitles(items, s) = Capped(c)
  BY DEF CuratedTitles, c
<1>5. ASSUME NEW k \in DOMAIN Capped(c)
      PROVE  /\ \E key \in DOMAIN Wire :
                  Apt(Wire[key], s) /\ Capped(c)[k] = TitleDocument(Wire[key], s)
             /\ \E i \in DOMAIN c : Capped(c)[k] = c[i] /\ Place(c, i) <= DailyCap
  BY <1>1, <1>3
<1> QED
  BY <1>3, <1>4, <1>5 DEF c

\* The headlines that are written down are those kept for each company.
LEMMA CollectedTitles ==
  ASSUME NEW h \in DOMAIN Searches, CollectTitles(Searches[h]) # Invalid
  PROVE  \A d \in CollectTitles(Searches[h]).documents :
           \E s \in Companies : \E k \in DOMAIN CuratedTitles(Headlines(Searches[h], s), s) :
             d = CuratedTitles(Headlines(Searches[h], s), s)[k]
<1> DEFINE found == Searches[h]
           kept(s) == CuratedTitles(Headlines(found, s), s)
           lists == [i \in DOMAIN Securities |-> kept(Securities[i])]
           all == Flat(lists)
<1>1. ASSUME NEW s \in Companies PROVE List(kept(s))
  BY HeadlinesAre, CuratedTitlesAre
<1>2. CollectTitles(found) = TitlePayload(all)
  BY DEF CollectTitles, SeqMap, Headlines
<1> HIDE DEF kept, found
<1>3. List(Securities) /\ \A i \in DOMAIN Securities : Securities[i] \in Companies
  BY NewsAssumption, SeqList DEF Companies, ToSet
<1>4. DOMAIN lists = DOMAIN Securities /\ List(lists)
  <2>1. DOMAIN lists = DOMAIN Securities /\ lists = [n \in DOMAIN lists |-> lists[n]]
    OBVIOUS
  <2> HIDE DEF lists
  <2> QED
    BY <1>3, <2>1, SeqMapIs
<1>5. \A i \in DOMAIN lists : lists[i] = kept(Securities[i]) /\ List(lists[i])
  BY <1>1, <1>3
<1> HIDE DEF lists
<1>6. \A k \in DOMAIN all : \E i \in DOMAIN lists : \E j \in DOMAIN lists[i] : all[k] = lists[i][j]
  BY <1>4, <1>5, FlatFacts
<1> HIDE DEF all
<1>7. CollectTitles(found).documents = ToSet(all)
  <2>1. TitlePayload(all) # Invalid
    BY <1>2 DEF found
  <2>2. TitlePayload(all).documents = ToSet(all)
    BY <2>1 DEF TitlePayload
  <2> QED
    BY <1>2, <2>2
<1>8. ASSUME NEW d \in ToSet(all)
      PROVE  \E s \in Companies : \E k \in DOMAIN kept(s) : d = kept(s)[k]
  <2>1. PICK k \in DOMAIN all : d = all[k]
    BY DEF ToSet
  <2>2. PICK i \in DOMAIN lists : \E j \in DOMAIN lists[i] : all[k] = lists[i][j]
    BY <1>6
  <2>3. Securities[i] \in Companies /\ lists[i] = kept(Securities[i])
    BY <1>3, <1>4, <1>5
  <2> QED
    BY <2>1, <2>2, <2>3
<1> QED
  BY <1>7, <1>8 DEF kept, found

\* The headlines a script writes down are fit to be served.
LEMMA TitlesAreServed ==
  ASSUME NEW h \in DOMAIN Searches, CollectTitles(Searches[h]) # Invalid
  PROVE  TitlesServed(CollectTitles(Searches[h]))
<1> DEFINE found == Searches[h]
           D == CollectTitles(found).documents
           items(s) == Headlines(found, s)
           c(s) == TitleCandidates(items(s), s)
           kept(s) == CuratedTitles(items(s), s)
<1>1. \A d \in D : \E s \in Companies : \E k \in DOMAIN kept(s) : d = kept(s)[k]
  BY CollectedTitles
<1>2. ASSUME NEW s \in Companies
      PROVE  /\ List(c(s))
             /\ \A k \in DOMAIN kept(s) :
                  /\ \E key \in DOMAIN Wire :
                       Apt(Wire[key], s) /\ kept(s)[k] = TitleDocument(Wire[key], s)
                  /\ \E i \in DOMAIN c(s) : kept(s)[k] = c(s)[i] /\ Place(c(s), i) <= DailyCap
  <2>1. List(items(s)) /\ ToSet(items(s)) \subseteq WireItems
    BY HeadlinesAre
  <2> HIDE DEF items
  <2> QED
    BY <2>1, TitleCandidatesAre, CuratedTitlesAre
<1> HIDE DEF D, c, kept
<1>3. ASSUME NEW d \in D
      PROVE  \E key \in DOMAIN Wire : \E s \in Companies :
               Apt(Wire[key], s) /\ d = TitleDocument(Wire[key], s)
  <2>1. PICK s \in Companies : \E k \in DOMAIN kept(s) : d = kept(s)[k]
    BY <1>1
  <2>2. PICK k \in DOMAIN kept(s) : d = kept(s)[k]
    BY <2>1
  <2> QED
    BY <1>2, <2>2
<1>4. ASSUME NEW d \in D
      PROVE  \E key \in DOMAIN Wire : /\ d.title = Wire[key].title /\ d.at = Wire[key].at
                                      /\ d.primary \subseteq Wire[key].leads
  <2>1. PICK key \in DOMAIN Wire : \E s \in Companies :
          Apt(Wire[key], s) /\ d = TitleDocument(Wire[key], s)
    BY <1>3
  <2>2. PICK s \in Companies : Apt(Wire[key], s) /\ d = TitleDocument(Wire[key], s)
    BY <2>1
  <2>3. d.title = Wire[key].title /\ d.at = Wire[key].at /\ d.primary = {s} /\ s \in Wire[key].leads
    BY <2>2 DEF TitleDocument, Apt
  <2> QED
    BY <2>3
<1>5. ASSUME NEW s \in Companies, NEW day
      PROVE  Cardinality({d \in D : d.primary = {s} /\ Day(d) = day}) <= DailyCap
  <2> DEFINE X == {d \in D : d.primary = {s} /\ Day(d) = day}
             place(d) == CHOOSE i \in DOMAIN c(s) : d = c(s)[i] /\ Place(c(s), i) <= DailyCap
             f == [d \in X |-> Place(c(s), place(d))]
             T == 1..DailyCap
  <2>1. ASSUME NEW d \in X
        PROVE  place(d) \in DOMAIN c(s) /\ d = c(s)[place(d)] /\ Place(c(s), place(d)) \in T
    <3>1. d \in D /\ d.primary = {s}
      OBVIOUS
    <3>2. PICK t \in Companies : \E k \in DOMAIN kept(t) : d = kept(t)[k]
      BY <1>1, <3>1
    <3>3. PICK k \in DOMAIN kept(t) : d = kept(t)[k]
      BY <3>2
    <3>4. PICK key \in DOMAIN Wire : d = TitleDocument(Wire[key], t)
      BY <1>2, <3>3
    <3>5. t = s
      <4>1. d.primary = {t}
        BY <3>4 DEF TitleDocument
      <4> QED
        BY <3>1, <4>1
    <3>6. \E i \in DOMAIN c(s) : d = c(s)[i] /\ Place(c(s), i) <= DailyCap
      BY <1>2, <3>3, <3>5
    <3>7. place(d) \in DOMAIN c(s) /\ d = c(s)[place(d)] /\ Place(c(s), place(d)) <= DailyCap
      BY <3>6
    <3> HIDE DEF place
    <3>8. Place(c(s), place(d)) \in Nat \ {0}
      BY <1>2, <3>7, PlacePositive
    <3> QED
      BY <3>7, <3>8, TitleAssumption
  <2>2. \A d \in X : Day(d) = day
    OBVIOUS
  <2> HIDE DEF place, X
  <2>3. f \in [X -> T]
    BY <2>1
  <2>4. ASSUME NEW d \in X, NEW e \in X, f[d] = f[e] PROVE d = e
    <3>1. Place(c(s), place(d)) = Place(c(s), place(e))
      BY <2>4
    <3>2. Day(c(s)[place(d)]) = Day(c(s)[place(e)])
      BY <2>1, <2>2
    <3>3. place(d) = place(e)
      <4>1. place(d) \in DOMAIN c(s) /\ place(e) \in DOMAIN c(s) /\ List(c(s))
        BY <1>2, <2>1
      <4> QED
        BY <3>1, <3>2, <4>1, OnePlace
    <3> QED
      BY <2>1, <3>3
  <2>5. f \in Injection(X, T)
    BY <2>3, <2>4 DEF Injection, IsInjective
  <2>6. IsFiniteSet(T) /\ Cardinality(T) = DailyCap
    <3>1. DailyCap \in Nat \ {0}
      BY TitleAssumption
    <3>2. IsFiniteSet(T) /\ Cardinality(T) = IF 1 > DailyCap THEN 0 ELSE DailyCap - 1 + 1
      BY <3>1, FS_Interval, 1 \in Int, DailyCap \in Int
    <3> QED
      BY <3>1, <3>2
  <2>7. Cardinality(X) <= Cardinality(T)
    BY <2>5, <2>6, FS_Injection
  <2> QED
    BY <2>6, <2>7 DEF X
<1> QED
  BY <1>4, <1>5 DEF TitlesServed, D

-----------------------------------------------------------------------------
(* The prices *)

LEMMA DayOfAt ==
  ASSUME NEW day \in Nat, NEW time \in Nat, time <= 2359
  PROVE  DayOf(At(day, time)) = day
BY DEF DayOf, At

\* The last day on which there was trade, of those up to a day.
TradeDay(day) == IF day \in TradingDays THEN day ELSE FallbackDay

\* A record is of that day, against the close before it.
LEMMA RecordedIs ==
  ASSUME NEW feed, NEW s, NEW day, NEW time, Recorded(feed, s, day, time) # Invalid
  PROVE  LET r == Recorded(feed, s, day, time) IN
         /\ r.security = s /\ r.checkpoint = At(day, time)
         /\ DayOf(r.at) = TradeDay(day)
         /\ r.previous = Observed(feed, s, PreviousDay[TradeDay(day)], 1530, "J").price
<1> DEFINE bar == BarFor(feed, s, day, time)
           prior == PriorBar(feed, s, day)
           r == Recorded(feed, s, day, time)
<1>1. bar # Invalid /\ prior # Invalid /\ r = Record(s, At(day, time), bar, prior.price)
  BY DEF Recorded
<1>2. ASSUME NEW d, NEW t, NEW market, Observed(feed, s, d, t, market) # Invalid
      PROVE  DayOf(Observed(feed, s, d, t, market).at) = d
  BY <1>2 DEF Observed
<1>3. DayOf(bar.at) = TradeDay(day)
  BY <1>1, <1>2 DEF BarFor, TradeDay
<1>4. prior = Observed(feed, s, PreviousDay[TradeDay(day)], 1530, "J")
  BY DEF PriorBar, TradeDay
<1> HIDE DEF bar, prior, r
<1>5. r # Invalid
  BY DEF r
<1>6. ~(bar.at > At(day, time) \/ prior.price <= 0)
  BY <1>1, <1>5 DEF Record
<1>7. /\ r.security = s /\ r.checkpoint = At(day, time) /\ r.at = bar.at
      /\ r.previous = prior.price
  BY <1>1, <1>6 DEF Record
<1> QED
  BY <1>3, <1>4, <1>7 DEF r

\* The records a script makes: of a company, a day and a time each.
MarketRecords(feed) ==
  Flat(SeqMap(LAMBDA s :
         Flat(SeqMap(LAMBDA day :
                SeqMap(LAMBDA time : Recorded(feed, s, day, time), CheckpointTimes),
              CheckpointDays)),
       Securities))

LEMMA MarketRecordsAre ==
  ASSUME NEW feed
  PROVE  \A k \in DOMAIN MarketRecords(feed) :
           \E s \in Companies, day \in ToSet(CheckpointDays), time \in ToSet(CheckpointTimes) :
             MarketRecords(feed)[k] = Recorded(feed, s, day, time)
<1> DEFINE ofDay(s, day) == [i \in DOMAIN CheckpointTimes |-> Recorded(feed, s, day, CheckpointTimes[i])]
           days(s) == [i \in DOMAIN CheckpointDays |-> ofDay(s, CheckpointDays[i])]
           lists == [i \in DOMAIN Securities |-> Flat(days(Securities[i]))]
           records == MarketRecords(feed)
<1>1. /\ List(CheckpointDays) /\ List(CheckpointTimes) /\ List(Securities)
      /\ \A i \in DOMAIN Securities : Securities[i] \in Companies
      /\ \A i \in DOMAIN CheckpointDays : CheckpointDays[i] \in ToSet(CheckpointDays)
      /\ \A i \in DOMAIN CheckpointTimes : CheckpointTimes[i] \in ToSet(CheckpointTimes)
  BY MarketAssumption, NewsAssumption, SeqList DEF Companies, ToSet
<1>2. records = Flat(lists)
  BY DEF MarketRecords, SeqMap
<1>3. ASSUME NEW s, NEW day
      PROVE  List(ofDay(s, day)) /\ DOMAIN ofDay(s, day) = DOMAIN CheckpointTimes
  <2> DEFINE t == ofDay(s, day)
  <2>1. DOMAIN t = DOMAIN CheckpointTimes /\ t = [i \in DOMAIN t |-> t[i]]
    OBVIOUS
  <2> HIDE DEF t
  <2> QED
    BY <1>1, <2>1, SeqMapIs DEF t
<1>4. \A s, day : \A i \in DOMAIN CheckpointTimes : ofDay(s, day)[i] = Recorded(feed, s, day, CheckpointTimes[i])
  OBVIOUS
<1> HIDE DEF ofDay
<1>5. ASSUME NEW s
      PROVE  /\ List(Flat(days(s)))
             /\ \A k \in DOMAIN Flat(days(s)) :
                  \E day \in ToSet(CheckpointDays), time \in ToSet(CheckpointTimes) :
                    Flat(days(s))[k] = Recorded(feed, s, day, time)
  <2> DEFINE t == days(s)
  <2>1. DOMAIN t = DOMAIN CheckpointDays /\ t = [i \in DOMAIN t |-> t[i]]
    OBVIOUS
  <2>2. \A i \in DOMAIN t : t[i] = ofDay(s, CheckpointDays[i])
    OBVIOUS
  <2> HIDE DEF t
  <2>3. List(t)
    BY <1>1, <2>1, SeqMapIs
  <2>4. \A i \in DOMAIN t : List(t[i])
    BY <1>3, <2>2
  <2>5. /\ List(Flat(t))
        /\ \A k \in DOMAIN Flat(t) : \E i \in DOMAIN t : \E j \in DOMAIN t[i] : Flat(t)[k] = t[i][j]
    BY <2>3, <2>4, FlatFacts
  <2>6. ASSUME NEW k \in DOMAIN Flat(t)
        PROVE  \E day \in ToSet(CheckpointDays), time \in ToSet(CheckpointTimes) :
                 Flat(t)[k] = Recorded(feed, s, day, time)
    <3>1. PICK i \in DOMAIN t : \E j \in DOMAIN t[i] : Flat(t)[k] = t[i][j]
      BY <2>5
    <3>2. PICK j \in DOMAIN t[i] : Flat(t)[k] = t[i][j]
      BY <3>1
    <3>3. j \in DOMAIN CheckpointTimes /\ Flat(t)[k] = Recorded(feed, s, CheckpointDays[i], CheckpointTimes[j])
      BY <1>3, <1>4, <2>2, <3>2
    <3> QED
      BY <1>1, <2>1, <3>3
  <2> QED
    BY <2>5, <2>6 DEF t
<1> HIDE DEF days
<1>6. DOMAIN lists = DOMAIN Securities /\ List(lists)
  <2>1. DOMAIN lists = DOMAIN Securities /\ lists = [n \in DOMAIN lists |-> lists[n]]
    OBVIOUS
  <2> HIDE DEF lists
  <2> QED
    BY <1>1, <2>1, SeqMapIs
<1>7. \A i \in DOMAIN lists : lists[i] = Flat(days(Securities[i])) /\ List(lists[i])
  BY <1>5
<1> HIDE DEF lists
<1>8. \A k \in DOMAIN Flat(lists) :
        \E i \in DOMAIN lists : \E j \in DOMAIN lists[i] : Flat(lists)[k] = lists[i][j]
  BY <1>6, <1>7, FlatFacts
<1>9. ASSUME NEW k \in DOMAIN Flat(lists)
      PROVE  \E s \in Companies, day \in ToSet(CheckpointDays), time \in ToSet(CheckpointTimes) :
               Flat(lists)[k] = Recorded(feed, s, day, time)
  <2>1. PICK i \in DOMAIN lists : \E j \in DOMAIN lists[i] : Flat(lists)[k] = lists[i][j]
    BY <1>8
  <2>2. PICK j \in DOMAIN lists[i] : Flat(lists)[k] = lists[i][j]
    BY <2>1
  <2>3. PICK day \in ToSet(CheckpointDays), time \in ToSet(CheckpointTimes) :
          lists[i][j] = Recorded(feed, Securities[i], day, time)
    BY <1>5, <1>7, <2>2
  <2> QED
    BY <1>1, <1>6, <2>2, <2>3
<1> QED
  BY <1>2, <1>9

\* The prices a script writes down are fit to be served.
LEMMA PricesAreServed ==
  ASSUME NEW f \in DOMAIN Feeds, CollectMarket(Feeds[f]) # Invalid
  PROVE  PricesServed(CollectMarket(Feeds[f]))
<1> DEFINE feed == Feeds[f]
           records == MarketRecords(feed)
           payload == CollectMarket(feed)
<1>1. /\ \A i \in DOMAIN records : records[i] # Invalid
      /\ payload = Matrix(records) /\ payload # Invalid /\ MatrixSound(payload)
  BY DEF CollectMarket, MarketRecords
<1> HIDE DEF payload
<1>2. SUFFICES ASSUME NEW s \in Companies, NEW moment \in Checkpoints
               PROVE  LET r == Quoted(payload, s, moment)
                          day == DayOf(r.at) IN
                      /\ r.at <= moment
                      /\ day \in TradingDays /\ \A d \in TradingDays : d <= DayOf(moment) => d <= day
                      /\ \E x \in DOMAIN Feeds :
                           r.previous = Observed(Feeds[x], s, PreviousDay[day], 1530, "J").price
  BY DEF PricesServed, payload
<1> DEFINE key == <<s, moment>>
           r == payload.snapshots[key]
<1>3. key \in DOMAIN payload.snapshots
  BY <1>1 DEF MatrixSound, Companies
<1>4. Quoted(payload, s, moment) = r
  BY <1>3 DEF Quoted
<1>5. RecordSound(r) /\ Key(r) = key
  BY <1>1, <1>3 DEF MatrixSound
<1>6. r.security = s /\ r.checkpoint = moment /\ r.at <= moment
  BY <1>5 DEF RecordSound, Key
<1>7. \E i \in DOMAIN records : r = records[i]
  <2> DEFINE keys == {Key(records[i]) : i \in DOMAIN records}
             of(k) == CHOOSE i \in DOMAIN records : Key(records[i]) = k
  <2> HIDE DEF records
  <2>1. payload.snapshots = [k \in keys |-> records[of(k)]]
    BY <1>1 DEF Matrix
  <2>2. key \in keys
    <3> HIDE DEF keys, of, key
    <3> QED
      BY <1>3, <2>1
  <2>3. of(key) \in DOMAIN records
    BY <2>2
  <2>4. r = records[of(key)]
    <3> HIDE DEF keys, of, key
    <3> QED
      BY <2>1, <2>2
  <2> HIDE DEF of
  <2> QED
    BY <2>3, <2>4
<1>8. PICK i \in DOMAIN records : r = records[i]
  BY <1>7
<1>9. PICK t \in Companies, day \in ToSet(CheckpointDays), time \in ToSet(CheckpointTimes) :
        r = Recorded(feed, t, day, time)
  BY <1>8, MarketRecordsAre
<1>10. r # Invalid
  BY <1>1, <1>8
<1> HIDE DEF r, records
<1>11. /\ r.security = t /\ r.checkpoint = At(day, time) /\ DayOf(r.at) = TradeDay(day)
       /\ r.previous = Observed(feed, t, PreviousDay[TradeDay(day)], 1530, "J").price
  BY <1>9, <1>10, RecordedIs
<1>12. t = s /\ moment = At(day, time)
  BY <1>6, <1>11
<1>13. day \in Nat /\ time \in 0 .. 2359
  <2>1. CheckpointDays \in Seq(Nat) /\ CheckpointTimes \in Seq(0 .. 2359)
    BY MarketAssumption
  <2> DEFINE T == 0 .. 2359
  <2> HIDE DEF T
  <2>2. CheckpointTimes \in Seq(T)
    BY <2>1 DEF T
  <2>3. \A k \in DOMAIN CheckpointDays : CheckpointDays[k] \in Nat
    BY <2>1, SeqItems
  <2>4. \A k \in DOMAIN CheckpointTimes : CheckpointTimes[k] \in T
    BY <2>2, SeqItems
  <2>5. day \in Nat /\ time \in T
    BY <2>3, <2>4 DEF ToSet
  <2> QED
    BY <2>5 DEF T
<1>14. DayOf(moment) = day
  <2>1. day \in Nat /\ time \in Nat /\ time <= 2359
    BY <1>13
  <2>2. DayOf(At(day, time)) = day
    BY <2>1, DayOfAt
  <2> QED
    BY <1>12, <2>2
<1>15. TradeDay(day) \in TradingDays /\ \A d \in TradingDays : d <= day => d <= TradeDay(day)
  BY <1>13, MarketAssumption DEF TradeDay
<1> QED
  BY <1>4, <1>6, <1>11, <1>12, <1>14, <1>15

-----------------------------------------------------------------------------
(* What a snapshot is built of *)

\* The candidates of a company are what a harvest found.
Harvested(s, payload) ==
  payload # Invalid /\ \E h \in DOMAIN Harvests : payload = Harvest(s, Harvests[h][s])

\* The news of a company were curated of such candidates.
Curated(s, payload) ==
  /\ payload # Invalid
  /\ \E h \in DOMAIN Harvests :
       Harvest(s, Harvests[h][s]) # Invalid /\ payload = CurateNews(s, Harvest(s, Harvests[h][s]))

\* The report of a company was made of a paper.
Reported(s, payload) ==
  payload # Invalid /\ \E x \in DOMAIN Papers : payload = CurateReport(s, Papers[x][s])

GenuineSources(sources) ==
  \A s \in Companies : Curated(s, sources[<<"news", s>>]) /\ Reported(s, sources[<<"research_report", s>>])

\* The documents of a source.
Part(sources, type, s) == DocumentsFrom(type, s, sources[<<type, s>>])

BuildOrder ==
  Flat(SeqMap(LAMBDA s : SeqMap(LAMBDA type : <<type, s>>, SourceOrder), Securities))

LEMMA BuildOrderIs ==
  /\ List(BuildOrder)
  /\ \A k \in DOMAIN BuildOrder :
       \E type \in {"news", "disclosure", "research_report"}, s \in Companies : BuildOrder[k] = <<type, s>>
  /\ \A type \in {"news", "disclosure", "research_report"}, s \in Companies :
       \E k \in DOMAIN BuildOrder : BuildOrder[k] = <<type, s>>
<1> DEFINE Types == {"news", "disclosure", "research_report"}
           of(s) == [i \in DOMAIN SourceOrder |-> <<SourceOrder[i], s>>]
           lists == [n \in DOMAIN Securities |-> of(Securities[n])]
<1>1. /\ List(Securities) /\ \A n \in DOMAIN Securities : Securities[n] \in Companies
      /\ \A s \in Companies : \E n \in DOMAIN Securities : Securities[n] = s
  BY NewsAssumption, SeqList DEF Companies, ToSet
<1>2. /\ List(SourceOrder) /\ DOMAIN SourceOrder = 1..3
      /\ SourceOrder[1] = "news" /\ SourceOrder[2] = "disclosure" /\ SourceOrder[3] = "research_report"
  <2>1. SourceOrder = [i \in 1..3 |-> SourceOrder[i]]
    BY DEF SourceOrder
  <2>2. SourceOrder[1] = "news" /\ SourceOrder[2] = "disclosure" /\ SourceOrder[3] = "research_report"
    BY DEF SourceOrder
  <2> QED
    BY <2>1, <2>2, ListIs
<1>3. /\ \A i \in DOMAIN SourceOrder : SourceOrder[i] \in Types
      /\ \A type \in Types : \E i \in DOMAIN SourceOrder : SourceOrder[i] = type
  BY <1>2
<1> HIDE DEF Types
<1>4. BuildOrder = Flat(lists)
  BY DEF BuildOrder, SeqMap
<1>5. ASSUME NEW s PROVE List(of(s)) /\ DOMAIN of(s) = DOMAIN SourceOrder
  <2> DEFINE t == of(s)
  <2>1. DOMAIN t = DOMAIN SourceOrder /\ t = [i \in DOMAIN t |-> t[i]]
    OBVIOUS
  <2> HIDE DEF t
  <2> QED
    BY <1>2, <2>1, SeqMapIs DEF t
<1>6. \A s : \A i \in DOMAIN SourceOrder : of(s)[i] = <<SourceOrder[i], s>>
  OBVIOUS
<1> HIDE DEF of
<1>7. DOMAIN lists = DOMAIN Securities /\ List(lists)
  <2>1. DOMAIN lists = DOMAIN Securities /\ lists = [n \in DOMAIN lists |-> lists[n]]
    OBVIOUS
  <2> HIDE DEF lists
  <2> QED
    BY <1>1, <2>1, SeqMapIs
<1>8. \A n \in DOMAIN lists : lists[n] = of(Securities[n]) /\ List(lists[n])
  BY <1>5
<1> HIDE DEF lists
<1> DEFINE b == Flat(lists)
<1>9. /\ List(b)
      /\ \A k \in DOMAIN b : \E n \in DOMAIN lists : \E j \in DOMAIN lists[n] : b[k] = lists[n][j]
      /\ \A n \in DOMAIN lists : \A j \in DOMAIN lists[n] : \E k \in DOMAIN b : b[k] = lists[n][j]
  BY <1>7, <1>8, FlatFacts
<1> HIDE DEF b
<1>10. ASSUME NEW k \in DOMAIN b PROVE \E type \in Types, s \in Companies : b[k] = <<type, s>>
  <2>1. PICK n \in DOMAIN lists : \E j \in DOMAIN lists[n] : b[k] = lists[n][j]
    BY <1>9
  <2>2. PICK j \in DOMAIN lists[n] : b[k] = lists[n][j]
    BY <2>1
  <2>3. b[k] = <<SourceOrder[j], Securities[n]>> /\ j \in DOMAIN SourceOrder
    BY <1>5, <1>6, <1>8, <2>2
  <2> QED
    BY <1>1, <1>3, <1>7, <2>3
<1>11. ASSUME NEW type \in Types, NEW s \in Companies PROVE \E k \in DOMAIN b : b[k] = <<type, s>>
  <2>1. PICK i \in DOMAIN SourceOrder : SourceOrder[i] = type
    BY <1>3
  <2>2. PICK n \in DOMAIN Securities : Securities[n] = s
    BY <1>1
  <2>3. n \in DOMAIN lists /\ i \in DOMAIN lists[n] /\ lists[n][i] = <<type, s>>
    BY <1>5, <1>6, <1>7, <1>8, <2>1, <2>2
  <2> QED
    BY <1>9, <2>3
<1> QED
  BY <1>4, <1>9, <1>10, <1>11 DEF b, Types

\* The documents of a build are those of its sources, and belong together.
LEMMA BuiltDocuments ==
  ASSUME NEW sources, BuildService(sources) # Invalid,
         \A type \in {"news", "disclosure", "research_report"}, s \in Companies :
           Part(sources, type, s) # Invalid => List(Part(sources, type, s))
  PROVE  LET d == BuildService(sources).documents IN
         /\ List(d) /\ BelongTogether(Assembled(d)) /\ Assembled(d).documents = d
         /\ \A type \in {"news", "disclosure", "research_report"}, s \in Companies :
              /\ Part(sources, type, s) # Invalid
              /\ \A j \in DOMAIN Part(sources, type, s) :
                   \E i \in DOMAIN d : d[i] = Part(sources, type, s)[j]
         /\ \A i \in DOMAIN d :
              \E type \in {"news", "disclosure", "research_report"}, s \in Companies :
                \E j \in DOMAIN Part(sources, type, s) : d[i] = Part(sources, type, s)[j]
<1> DEFINE Types == {"news", "disclosure", "research_report"}
           found == [k \in DOMAIN BuildOrder |-> DocumentsFrom(BuildOrder[k][1], BuildOrder[k][2], sources[BuildOrder[k]])]
           d == Flat(found)
           built == BuildService(sources)
<1>1. built = Gathered(found)
  <2>1. built = IF DOMAIN sources # ToSet(BuildOrder) THEN Invalid ELSE Gathered(found)
    BY DEF BuildService, BuildOrder, SeqMap
  <2> HIDE DEF found, built
  <2> QED
    BY <2>1 DEF built
<1>2. /\ \A type \in Types, s \in Companies : \E k \in DOMAIN BuildOrder : BuildOrder[k] = <<type, s>>
      /\ \A k \in DOMAIN BuildOrder : \E type \in Types, s \in Companies : BuildOrder[k] = <<type, s>>
      /\ List(BuildOrder)
  BY BuildOrderIs
<1>3. DOMAIN found = DOMAIN BuildOrder /\ List(found)
  <2>1. DOMAIN found = DOMAIN BuildOrder /\ found = [k \in DOMAIN found |-> found[k]]
    OBVIOUS
  <2> HIDE DEF found
  <2> QED
    BY <1>2, <2>1, SeqMapIs
<1>4. ASSUME NEW k \in DOMAIN found, NEW type, NEW s, BuildOrder[k] = <<type, s>>
      PROVE  found[k] = Part(sources, type, s)
  BY <1>4 DEF Part
<1>5. /\ \A k \in DOMAIN found : found[k] # Invalid
      /\ built = Vouched(Assembled(d))
  <2> HIDE DEF d, found, built
  <2>1. built # Invalid
    BY DEF built
  <2> QED
    BY <1>1, <2>1 DEF Gathered, d
<1> HIDE DEF found, Types
<1>6. \A k \in DOMAIN found : List(found[k])
  <2>1. ASSUME NEW k \in DOMAIN found PROVE List(found[k])
    <3>1. PICK type \in Types, s \in Companies : BuildOrder[k] = <<type, s>>
      BY <1>2, <1>3
    <3>2. found[k] = Part(sources, type, s) /\ found[k] # Invalid
      BY <1>4, <1>5, <3>1
    <3> QED
      BY <3>2 DEF Types
  <2> QED
    BY <2>1
<1>7. /\ List(d)
      /\ \A i \in DOMAIN d : \E k \in DOMAIN found : \E j \in DOMAIN found[k] : d[i] = found[k][j]
      /\ \A k \in DOMAIN found : \A j \in DOMAIN found[k] : \E i \in DOMAIN d : d[i] = found[k][j]
  BY <1>3, <1>6, FlatFacts
<1> HIDE DEF d
<1>8. Assembled(d).documents = d
  BY DEF Assembled
<1>9. BelongTogether(Assembled(d)) /\ built.documents = d
  <2>1. Vouched(Assembled(d)) # Invalid
    BY <1>5 DEF built
  <2>2. BelongTogether(Assembled(d))
    BY <2>1 DEF Vouched
  <2>3. Vouched(Assembled(d)).documents = Assembled(d).documents
    BY <2>2 DEF Vouched
  <2> QED
    BY <1>5, <1>8, <2>2, <2>3
<1>10. ASSUME NEW type \in Types, NEW s \in Companies
       PROVE  /\ Part(sources, type, s) # Invalid
              /\ \A j \in DOMAIN Part(sources, type, s) :
                   \E i \in DOMAIN d : d[i] = Part(sources, type, s)[j]
  <2>1. PICK k \in DOMAIN found : BuildOrder[k] = <<type, s>>
    BY <1>2, <1>3
  <2>2. found[k] = Part(sources, type, s) /\ found[k] # Invalid
    BY <1>4, <1>5, <2>1
  <2> QED
    BY <1>7, <2>2
<1>11. ASSUME NEW i \in DOMAIN d
       PROVE  \E type \in Types, s \in Companies :
                \E j \in DOMAIN Part(sources, type, s) : d[i] = Part(sources, type, s)[j]
  <2>1. PICK k \in DOMAIN found : \E j \in DOMAIN found[k] : d[i] = found[k][j]
    BY <1>7
  <2>2. PICK type \in Types, s \in Companies : BuildOrder[k] = <<type, s>>
    BY <1>2, <1>3
  <2>3. found[k] = Part(sources, type, s)
    BY <1>4, <2>2
  <2> QED
    BY <2>1, <2>3
<1> HIDE DEF built
<1> QED
  BY <1>7, <1>8, <1>9, <1>10, <1>11 DEF Types, built

\* The sections of a report that was made of a paper are of a report.
LEMMA ReportedIs ==
  ASSUME NEW s \in Companies, NEW payload, Reported(s, payload)
  PROVE  List(payload.documents) /\ \A i \in DOMAIN payload.documents : payload.documents[i].source = "research_report"
<1>1. PICK x \in DOMAIN Papers : payload = CurateReport(s, Papers[x][s])
  BY DEF Reported
<1> DEFINE input == Papers[x][s]
           m == ApprovedManifest(s)
           sections == Sections(s, Summaries(s, input.extract))
           documents == ResearchDocuments(m, sections, input.pdf, {}, ReportsAsOf)
<1>2. payload # Invalid
  BY DEF Reported
<1>3. payload = BuildReport(s, input)
  <2> HIDE DEF input
  <2> QED
    BY <1>1, <1>2 DEF CurateReport, input
<1> HIDE DEF input
<1>4. documents # Invalid /\ payload.documents = documents
  <2> HIDE DEF documents, m, sections
  <2>1. BuildReport(s, input) =
          IF ~ReportInputSound(s, input) THEN Invalid
          ELSE IF Summaries(s, input.extract) = Invalid THEN Invalid
          ELSE IF ~ManifestSound(m) \/ \E i \in DOMAIN sections : ~SectionSound(sections[i]) THEN Invalid
          ELSE IF documents = Invalid THEN Invalid
          ELSE [security |-> s, pdf |-> Report[s].pdf, extract |-> Report[s].extract,
                pages |-> input.pages, coverage |-> ReportCoverage(s), documents |-> documents]
    BY DEF BuildReport, documents, m, sections
  <2> QED
    BY <1>2, <1>3, <2>1
<1> HIDE DEF sections
<1> DEFINE ordered == Bundle(m, sections)
<1>5. documents = [i \in DOMAIN ordered |-> ReportDocument(m, ordered[i], ReportsAsOf)] /\ ordered # Invalid
  <2> HIDE DEF ordered, m
  <2> QED
    BY <1>4 DEF ResearchDocuments, SeqMap, ordered
<1>6. DOMAIN ordered = DOMAIN DocumentIds(s)
  <2>1. m.documents = DocumentIds(s)
    BY DEF ApprovedManifest
  <2> HIDE DEF m
  <2>2. ordered = SeqMap(LAMBDA id : sections[CHOOSE i \in DOMAIN sections : sections[i].id = id], m.documents)
    BY <1>5 DEF Bundle
  <2>3. DOMAIN ordered = DOMAIN m.documents
    BY <2>2 DEF SeqMap
  <2> QED
    BY <2>1, <2>3
<1> HIDE DEF ordered
<1>7. List(Report[s].segments)
  BY ReportAssumption, SeqList DEF Companies
<1>8. DOMAIN DocumentIds(s) = DOMAIN Report[s].segments
  BY DEF DocumentIds, SeqMap
<1>9. List(documents)
  <2>1. DOMAIN documents = DOMAIN Report[s].segments /\ documents = [i \in DOMAIN documents |-> documents[i]]
    <3> HIDE DEF m
    <3> HIDE DEF documents
    <3> QED
      BY <1>5, <1>6, <1>8
  <2> HIDE DEF documents
  <2> QED
    BY <1>7, <2>1, SeqMapIs
<1>10. \A i \in DOMAIN documents : documents[i].source = "research_report"
  <2> HIDE DEF documents
  <2> HIDE DEF m
  <2> QED
    BY <1>5 DEF ReportDocument
<1> HIDE DEF documents
<1> QED
  BY <1>4, <1>9, <1>10

\* The document of a section is as somebody approved the section.
AsApproved(d, s, a) ==
  d.primary = {s} /\ Sha256(d.text) = a.approved /\ d.page = a.page /\ ~d.external

\* What is served of a report: its sections as they were approved.
LEMMA ReportPart ==
  ASSUME NEW sources, NEW s \in Companies, Reported(s, sources[<<"research_report", s>>]),
         Part(sources, "research_report", s) # Invalid
  PROVE  /\ List(Part(sources, "research_report", s))
         /\ \A j \in DOMAIN Part(sources, "research_report", s) :
              Part(sources, "research_report", s)[j].source = "research_report"
         /\ \A a \in ToSet(Report[s].segments) :
              \E j \in DOMAIN Part(sources, "research_report", s) :
                AsApproved(Part(sources, "research_report", s)[j], s, a)
<1> DEFINE payload == sources[<<"research_report", s>>]
           part == Part(sources, "research_report", s)
           segments == Report[s].segments
<1>1. part = ReportDocuments(s, payload)
  BY DEF Part, DocumentsFrom
<1>2. List(payload.documents) /\ \A i \in DOMAIN payload.documents : payload.documents[i].source = "research_report"
  BY ReportedIs
<1> HIDE DEF payload, part
<1>3. /\ part = payload.documents
      /\ Len(payload.documents) = Len(segments)
      /\ \A i \in DOMAIN segments : ReportDocumentSound(s, payload.documents[i], segments[i])
  <2>1. part # Invalid
    BY DEF part
  <2> QED
    BY <1>1, <2>1 DEF ReportDocuments
<1>4. List(segments)
  BY ReportAssumption, SeqList DEF Companies
<1>5. DOMAIN segments = DOMAIN part
  BY <1>2, <1>3, <1>4 DEF List
<1>6. ASSUME NEW a \in ToSet(segments)
      PROVE  \E j \in DOMAIN part : AsApproved(part[j], s, a)
  <2>1. PICK j \in DOMAIN segments : segments[j] = a
    BY DEF ToSet
  <2>2. ReportDocumentSound(s, part[j], a)
    BY <1>3, <2>1
  <2> QED
    BY <1>5, <2>1, <2>2 DEF ReportDocumentSound, AsApproved
<1> QED
  BY <1>2, <1>3, <1>6 DEF part

\* What is served of a filing: the one document, as it was checked.
LEMMA FilingPart ==
  ASSUME NEW sources, NEW s \in Companies, Part(sources, "disclosure", s) # Invalid
  PROVE  LET part == Part(sources, "disclosure", s)
             d == part[1] IN
         /\ List(part) /\ DOMAIN part = {1}
         /\ d.source = "disclosure" /\ d.primary = {s}
         /\ NoticeSound(d.notice)
         /\ RequiredCategories \subseteq {d.facts[i].category : i \in DOMAIN d.facts}
<1> DEFINE payload == sources[<<"disclosure", s>>]
           document == DisclosureDocument(s, payload)
           part == Part(sources, "disclosure", s)
<1>1. part = IF document = Invalid THEN Invalid ELSE <<document>>
  BY DEF Part, DocumentsFrom
<1> HIDE DEF payload, document
<1>2. document # Invalid /\ part = <<document>>
  <2> HIDE DEF part
  <2>1. part # Invalid
    BY DEF part
  <2> QED
    BY <1>1, <2>1
<1>3. /\ NoticeSound(payload.correction)
      /\ document = payload.document
      /\ document = FilingDocument(s, document.facts, payload.correction)
      /\ FactsCover(document.facts)
  BY <1>2 DEF DisclosureDocument, document
<1>4. /\ document.source = "disclosure" /\ document.primary = {s}
      /\ document.notice = payload.correction
  BY <1>3 DEF FilingDocument
<1>5. RequiredCategories \subseteq {document.facts[i].category : i \in DOMAIN document.facts}
  BY <1>3 DEF FactsCover, Categories
<1> HIDE DEF part
<1>6. part = [i \in 1..1 |-> part[i]] /\ part[1] = document
  BY <1>2
<1>7. List(part) /\ DOMAIN part = 1..1
  BY <1>6, ListIs
<1>8. 1..1 = {1}
  OBVIOUS
<1> QED
  BY <1>3, <1>4, <1>5, <1>6, <1>7, <1>8 DEF part

-----------------------------------------------------------------------------
(* The news *)

\* A document of something the search returned that names the security.
OfWire(d, s) ==
  \E key \in DOMAIN Wire : /\ d = Document(Wire[key], s) /\ Wire[key].at # NoTime
                           /\ About(Wire[key], s)

\* Such a document, with a page.
Placed(d, s) == OfWire(d, s) /\ d.url # NoUrl

\* When and where it is are numbers.
LEMMA PlacedIs ==
  ASSUME NEW d, NEW s, Placed(d, s)
  PROVE  d.at \in Int /\ d.url \in Int
<1>1. PICK key \in DOMAIN Wire : d = Document(Wire[key], s) /\ Wire[key].at # NoTime
  BY DEF Placed, OfWire
<1>2. d.at = Wire[key].at /\ d.url = Url(Wire[key])
  BY <1>1 DEF Document
<1>3. d.at \in Int
  BY <1>1, <1>2, WireAssumption
<1>4. ASSUME NEW link \in {Wire[key].original, Wire[key].link}, Canonical(link) # NoUrl
      PROVE  Canonical(link) \in Int
  <2>1. link # NoUrl /\ Canonical(link) = link.page
    BY <1>4 DEF Canonical
  <2>2. {link.page, link.part} \subseteq Int
    BY <2>1, WireAssumption
  <2> QED
    BY <2>1, <2>2
<1>5. Url(Wire[key]) # NoUrl
  BY <1>2 DEF Placed
<1>6. d.url \in Int
  BY <1>2, <1>4, <1>5 DEF Url
<1> QED
  BY <1>3, <1>6

LEMMA NormalizedIs ==
  ASSUME NEW s, NEW items, List(items), ToSet(items) \subseteq WireItems,
         NormalizeResponse(items, s) # Invalid
  PROVE  /\ List(NormalizeResponse(items, s))
         /\ \A i \in DOMAIN NormalizeResponse(items, s) : OfWire(NormalizeResponse(items, s)[i], s)
<1> DEFINE I == {i \in DOMAIN items : items[i].at # NoTime}
           parsed == ItemsAt(items, I)
           J == {i \in DOMAIN parsed : About(parsed[i], s)}
           apt == ItemsAt(parsed, J)
           K == {i \in DOMAIN apt : \A j \in 1..(i - 1) : Identity(apt[j]) # Identity(apt[i])}
           kept == ItemsAt(apt, K)
           r == [i \in DOMAIN kept |-> Document(kept[i], s)]
<1>1. NormalizeResponse(items, s) = r
  BY DEF NormalizeResponse, Where, KeepFirst, SeqMap
<1>2. List(parsed) /\ ToSet(parsed) = {items[i] : i \in I}
  BY ItemsAtFacts
<1>3. \A x \in ToSet(parsed) : x \in WireItems /\ x.at # NoTime
  BY <1>2 DEF ToSet
<1> HIDE DEF parsed
<1>4. List(apt) /\ ToSet(apt) = {parsed[i] : i \in J}
  BY <1>2, ItemsAtFacts
<1>5. \A x \in ToSet(apt) : x \in WireItems /\ x.at # NoTime /\ About(x, s)
  BY <1>3, <1>4 DEF ToSet
<1> HIDE DEF apt
<1>6. List(kept) /\ ToSet(kept) = {apt[i] : i \in K}
  BY <1>4, ItemsAtFacts
<1>7. \A x \in ToSet(kept) : x \in WireItems /\ x.at # NoTime /\ About(x, s)
  BY <1>5, <1>6 DEF ToSet
<1> HIDE DEF kept
<1>8. DOMAIN r = DOMAIN kept /\ List(r)
  <2>1. DOMAIN r = DOMAIN kept /\ r = [i \in DOMAIN r |-> r[i]]
    OBVIOUS
  <2> HIDE DEF r
  <2> QED
    BY <1>6, <2>1, SeqMapIs
<1>9. ASSUME NEW i \in DOMAIN r PROVE OfWire(r[i], s)
  <2>1. kept[i] \in ToSet(kept) /\ r[i] = Document(kept[i], s)
    BY <1>8 DEF ToSet
  <2>2. PICK key \in DOMAIN Wire : kept[i] = Wire[key]
    BY <1>7, <2>1 DEF WireItems
  <2>3. r[i] = Document(Wire[key], s) /\ Wire[key].at # NoTime /\ About(Wire[key], s)
    BY <1>7, <2>1, <2>2
  <2> QED
    BY <2>3 DEF OfWire
<1> QED
  BY <1>1, <1>8, <1>9

LEMMA CollectedDocumentsAre ==
  ASSUME NEW s, NEW items, List(items), ToSet(items) \subseteq WireItems,
         CollectedDocuments(items, s) # Invalid
  PROVE  /\ List(CollectedDocuments(items, s))
         /\ \A i \in DOMAIN CollectedDocuments(items, s) : Placed(CollectedDocuments(items, s)[i], s)
<1> DEFINE n == NormalizeResponse(items, s)
           I == {i \in DOMAIN n : InWindow(n[i].at) /\ n[i].url # NoUrl}
           w == ItemsAt(n, I)
           c == CollectedDocuments(items, s)
<1>1. n # Invalid /\ c = Sorted(w, Newest)
  BY DEF CollectedDocuments, Where
<1>2. List(n) /\ \A i \in DOMAIN n : OfWire(n[i], s)
  BY <1>1, NormalizedIs
<1> HIDE DEF n, c
<1>3. List(w) /\ ToSet(w) = {n[i] : i \in I}
  BY <1>2, ItemsAtFacts
<1>4. \A x \in ToSet(w) : Placed(x, s)
  BY <1>2, <1>3 DEF Placed
<1> HIDE DEF w
<1>5. \A i \in DOMAIN w : w[i].at \in Int /\ w[i].url \in Int
  BY <1>4, PlacedIs DEF ToSet
<1>6. List(c) /\ ToSet(c) = ToSet(w)
  BY <1>1, <1>3, <1>5, SortedNewest
<1> QED
  BY <1>4, <1>6 DEF c, ToSet

\* What a harvest writes down of a company: documents of what the search returned.
LEMMA HarvestedIs ==
  ASSUME NEW s \in Companies, NEW payload, Harvested(s, payload)
  PROVE  List(payload.documents) /\ \A d \in ToSet(payload.documents) : Placed(d, s)
<1>1. PICK h \in DOMAIN Harvests : payload = Harvest(s, Harvests[h][s])
  BY DEF Harvested
<1> DEFINE results == Harvests[h][s]
           items(n) == SeqMap(LAMBDA key : Wire[key], Collected(results[n], MaxCalls[n]))
           runs == [n \in DOMAIN Queries[s] |-> [query |-> Queries[s][n], items |-> items(n)]]
           found == [n \in DOMAIN runs |-> CollectedDocuments(runs[n].items, s)]
           flat == Flat(found)
           K == {i \in DOMAIN flat : \A j \in 1..(i - 1) : flat[j].id # flat[i].id}
           kept == ItemsAt(flat, K)
           merged == Sorted(kept, Newest)
<1>2. List(Queries[s])
  <2>1. Queries[s] \in Seq(ToSet(Queries[s]))
    BY NewsAssumption DEF Companies
  <2> QED
    BY <2>1, SeqList
<1>3. ASSUME NEW n \in DOMAIN Queries[s]
      PROVE  List(items(n)) /\ ToSet(items(n)) \subseteq WireItems
  <2> DEFINE keys == Collected(results[n], MaxCalls[n])
             t == [i \in DOMAIN keys |-> Wire[keys[i]]]
  <2>1. results[n] \in Seq(DOMAIN Wire)
    BY InputsAssumption DEF Answered
  <2>2. MaxCalls[n] \in Nat
    BY NewsAssumption DEF Companies
  <2> HIDE DEF results
  <2>3. List(keys) /\ ToSet(keys) \subseteq DOMAIN Wire
    BY <2>1, <2>2, CollectedIs
  <2>4. items(n) = t
    BY DEF SeqMap
  <2> HIDE DEF keys, items
  <2>5. DOMAIN t = DOMAIN keys /\ t = [i \in DOMAIN t |-> t[i]]
    OBVIOUS
  <2>6. \A j \in DOMAIN t : t[j] \in WireItems
    BY <2>3 DEF ToSet, WireItems
  <2> HIDE DEF t
  <2>7. List(t)
    BY <2>3, <2>5, SeqMapIs
  <2> QED
    BY <2>4, <2>6, <2>7 DEF ToSet
<1> HIDE DEF results, items
<1>4. payload = Candidates(s, runs)
  BY <1>1 DEF Harvest, results, items
<1>5. /\ \A n \in DOMAIN runs : found[n] # Invalid
      /\ payload.documents = merged
  <2>1. payload # Invalid
    BY DEF Harvested
  <2> HIDE DEF runs
  <2>2. Candidates(s, runs) =
          IF (\E n \in DOMAIN runs : found[n] = Invalid) \/ ~IsInjective(SeqMap(LAMBDA r : r.query, runs))
            THEN Invalid
            ELSE [security |-> s, queries |-> SeqMap(LAMBDA r : r.query, runs),
                  coverage |-> NewsCoverage(merged, s), documents |-> merged]
    BY DEF Candidates, KeepFirst
  <2> HIDE DEF found, merged
  <2> QED
    BY <1>4, <2>1, <2>2
<1>6. DOMAIN runs = DOMAIN Queries[s] /\ \A n \in DOMAIN runs : runs[n].items = items(n)
  OBVIOUS
<1> HIDE DEF runs
<1>7. ASSUME NEW n \in DOMAIN found
      PROVE  List(found[n]) /\ \A i \in DOMAIN found[n] : Placed(found[n][i], s)
  <2>1. n \in DOMAIN runs /\ found[n] = CollectedDocuments(items(n), s) /\ n \in DOMAIN Queries[s]
    BY <1>6
  <2>2. found[n] # Invalid
    BY <1>5, <2>1
  <2> HIDE DEF found
  <2>3. List(items(n)) /\ ToSet(items(n)) \subseteq WireItems
    BY <1>3, <2>1
  <2> QED
    BY <2>1, <2>2, <2>3, CollectedDocumentsAre
<1>8. List(found)
  <2>1. DOMAIN found = DOMAIN Queries[s] /\ found = [n \in DOMAIN found |-> found[n]]
    BY <1>6
  <2> HIDE DEF found
  <2> QED
    BY <1>2, <2>1, SeqMapIs
<1> HIDE DEF found
<1>9. List(flat) /\ \A k \in DOMAIN flat : Placed(flat[k], s)
  <2>1. /\ List(flat)
        /\ \A k \in DOMAIN flat : \E n \in DOMAIN found : \E j \in DOMAIN found[n] : flat[k] = found[n][j]
    BY <1>7, <1>8, FlatFacts
  <2> HIDE DEF flat
  <2> QED
    BY <1>7, <2>1
<1> HIDE DEF flat
<1>10. List(kept) /\ ToSet(kept) = {flat[i] : i \in K}
  BY <1>9, ItemsAtFacts
<1>11. \A x \in ToSet(kept) : Placed(x, s)
  BY <1>9, <1>10
<1> HIDE DEF kept
<1>12. \A i \in DOMAIN kept : kept[i].at \in Int /\ kept[i].url \in Int
  BY <1>11, PlacedIs DEF ToSet
<1>13. List(merged) /\ ToSet(merged) = ToSet(kept)
  BY <1>10, <1>12, SortedNewest
<1> HIDE DEF merged
<1> QED
  BY <1>5, <1>11, <1>13

-----------------------------------------------------------------------------
(* The curation *)

\* One of a set in an order comes before all others.
LEMMA FirstOf ==
  ASSUME NEW S, IsFiniteSet(S), S # {}, NEW R, StrictOrder(S, R)
  PROVE  \E x \in S : \A y \in S \ {x} : <<x, y>> \in R
<1>1. Cardinality(S) \in Nat /\ Cardinality(S) # 0
  BY FS_CardinalityType, FS_EmptySet
<1>2. 1 \in 1..Cardinality(S)
  BY <1>1
<1>3. PICK x \in S : Rank(S, R, x) = 1 - 1
  BY <1>2, RankOnto
<1> DEFINE X == {y \in S : <<y, x>> \in R}
<1>4. IsFiniteSet(X) /\ Cardinality(X) = 0
  <2>1. Rank(S, R, x) = Cardinality(X)
    BY DEF Rank
  <2>2. Cardinality(X) = 0
    BY <1>3, <2>1
  <2>3. IsFiniteSet(X)
    BY FS_Subset, X \in SUBSET S
  <2> QED
    BY <2>2, <2>3
<1>5. X = {}
  BY <1>4, FS_EmptySet
<1> QED
  BY <1>5 DEF StrictOrder

\* The items of a list are finitely many.
LEMMA ListFinite == ASSUME NEW s, List(s) PROVE IsFiniteSet(ToSet(s))
<1>1. IsFiniteSet(DOMAIN s)
  BY FS_Interval, 1 \in Int, Len(s) \in Int DEF List
<1>2. s = [i \in DOMAIN s |-> s[i]]
  BY DEF List
<1> QED
  BY <1>1, <1>2, ImageFinite DEF ToSet

\* Whether a document's title names what the rule looks for, and its page's host was
\* taken from.
Titled(d, rule) == IF rule.terms \cap d.heading # {} THEN 0 ELSE 1
Repeated(d, hosts) == IF HostOf[d.url] \in hosts THEN 1 ELSE 0

LEMMA PreferredIs ==
  ASSUME NEW a, NEW b, NEW rule, NEW hosts
  PROVE  Preferred(a, b, rule, hosts) <=>
           \/ Titled(a, rule) < Titled(b, rule)
           \/ Titled(a, rule) = Titled(b, rule) /\ -a.at < -b.at
           \/ /\ Titled(a, rule) = Titled(b, rule) /\ -a.at = -b.at
              /\ Repeated(a, hosts) < Repeated(b, hosts)
           \/ /\ Titled(a, rule) = Titled(b, rule) /\ -a.at = -b.at
              /\ Repeated(a, hosts) = Repeated(b, hosts) /\ a.url < b.url
<1> DEFINE k(d) == <<IF rule.terms \cap d.heading # {} THEN 0 ELSE 1, -d.at,
                     IF HostOf[d.url] \in hosts THEN 1 ELSE 0, d.url>>
<1>1. Preferred(a, b, rule, hosts) <=> \E i \in 1 .. 4 : k(a)[i] < k(b)[i] /\ \A j \in 1 .. i - 1 : k(a)[j] = k(b)[j]
  BY DEF Preferred
<1>2. \A d \in {a, b} : /\ k(d)[1] = Titled(d, rule) /\ k(d)[2] = -d.at
                        /\ k(d)[3] = Repeated(d, hosts) /\ k(d)[4] = d.url
  BY DEF Titled, Repeated
<1> HIDE DEF k
<1>3. 1 .. 4 = {1, 2, 3, 4} /\ 1 .. (1 - 1) = {} /\ 1 .. (2 - 1) = {1} /\ 1 .. (3 - 1) = {1, 2}
      /\ 1 .. (4 - 1) = {1, 2, 3}
  OBVIOUS
<1>4. (\E i \in 1 .. 4 : k(a)[i] < k(b)[i] /\ \A j \in 1 .. i - 1 : k(a)[j] = k(b)[j])
       <=> \/ k(a)[1] < k(b)[1]
           \/ k(a)[2] < k(b)[2] /\ k(a)[1] = k(b)[1]
           \/ k(a)[3] < k(b)[3] /\ k(a)[1] = k(b)[1] /\ k(a)[2] = k(b)[2]
           \/ k(a)[4] < k(b)[4] /\ k(a)[1] = k(b)[1] /\ k(a)[2] = k(b)[2] /\ k(a)[3] = k(b)[3]
  BY <1>3
<1> QED
  BY <1>1, <1>2, <1>4

\* What a rule takes of them fits it.
PickOf(p, documents, rule) ==
  /\ p.doc \in ToSet(documents) /\ Fits(p.doc, rule)
  /\ p.summary = rule.summary /\ p.band = rule.band

\* Documents of different pages, each with a time.
Different(documents) ==
  /\ List(documents)
  /\ \A d \in ToSet(documents) : d.at \in Int /\ d.url \in Int
  /\ \A a, b \in ToSet(documents) : a.url = b.url => a = b

LEMMA PickIs ==
  ASSUME NEW documents, Different(documents), NEW picked, NEW rule,
         Pick(documents, picked, rule) # Invalid
  PROVE  PickOf(Pick(documents, picked, rule), documents, rule)
<1> DEFINE S == {d \in ToSet(documents) : Fits(d, rule) /\ Unused(d, picked)}
           hosts == {HostOf[picked[i].doc.url] : i \in DOMAIN picked}
           R == {p \in S \X S : Preferred(p[1], p[2], rule, hosts)}
           best == CHOOSE d \in S : \A e \in S \ {d} : Preferred(d, e, rule, hosts)
           pick == Pick(documents, picked, rule)
<1>1. /\ S # {}
      /\ pick = [event |-> rule.event, band |-> rule.band, summary |-> rule.summary, doc |-> best]
  BY DEF Pick
<1>2. IsFiniteSet(S)
  BY ListFinite, FS_Subset, S \in SUBSET ToSet(documents) DEF Different
<1>3. /\ \A d \in S : d.at \in Int /\ d.url \in Int /\ Fits(d, rule) /\ d \in ToSet(documents)
      /\ \A a, b \in S : a.url = b.url => a = b
  BY DEF Different
<1> HIDE DEF S, hosts
<1>4. \A a, b \in S : <<a, b>> \in R <=> Preferred(a, b, rule, hosts)
  OBVIOUS
<1> HIDE DEF R
<1>5. StrictOrder(S, R)
  <2>1. ASSUME NEW a \in S, NEW b \in S, NEW c \in S
        PROVE  /\ <<a, a>> \notin R
               /\ a = b \/ <<a, b>> \in R \/ <<b, a>> \in R
               /\ <<a, b>> \in R /\ <<b, c>> \in R => <<a, c>> \in R
    <3>1. ASSUME NEW x \in {a, b, c}
          PROVE  x.at \in Int /\ x.url \in Int /\ Titled(x, rule) \in Int /\ Repeated(x, hosts) \in Int
      BY <1>3 DEF Titled, Repeated
    <3>2. ASSUME NEW x \in {a, b, c}, NEW y \in {a, b, c}
          PROVE  <<x, y>> \in R <=>
                   \/ Titled(x, rule) < Titled(y, rule)
                   \/ Titled(x, rule) = Titled(y, rule) /\ -x.at < -y.at
                   \/ /\ Titled(x, rule) = Titled(y, rule) /\ -x.at = -y.at
                      /\ Repeated(x, hosts) < Repeated(y, hosts)
                   \/ /\ Titled(x, rule) = Titled(y, rule) /\ -x.at = -y.at
                      /\ Repeated(x, hosts) = Repeated(y, hosts) /\ x.url < y.url
      BY <1>4, PreferredIs
    <3>3. /\ a.at \in Int /\ a.url \in Int /\ Titled(a, rule) \in Int /\ Repeated(a, hosts) \in Int
          /\ b.at \in Int /\ b.url \in Int /\ Titled(b, rule) \in Int /\ Repeated(b, hosts) \in Int
          /\ c.at \in Int /\ c.url \in Int /\ Titled(c, rule) \in Int /\ Repeated(c, hosts) \in Int
      BY <3>1
    <3>4. <<a, a>> \notin R
      BY <3>2, <3>3
    <3>5. a.url = b.url \/ <<a, b>> \in R \/ <<b, a>> \in R
      BY <3>2, <3>3
    <3>6. <<a, b>> \in R /\ <<b, c>> \in R => <<a, c>> \in R
      BY <3>2, <3>3
    <3> QED
      BY <1>3, <3>4, <3>5, <3>6
  <2> QED
    BY <2>1 DEF StrictOrder
<1>6. \E x \in S : \A y \in S \ {x} : <<x, y>> \in R
  BY <1>1, <1>2, <1>5, FirstOf
<1>7. best \in S
  BY <1>4, <1>6
<1> HIDE DEF best, pick
<1> QED
  BY <1>1, <1>3, <1>7 DEF PickOf, pick

\* f says what the rules have taken after each of the first m.
Taken(documents, s, m, f) ==
  f = [n \in 0..m |-> IF n = 0 THEN << >> ELSE Picked(documents, f[n - 1], Rules[s][n])]

LEMMA TakenExists ==
  ASSUME NEW documents, NEW s, NEW m \in Nat
  PROVE  \E f : Taken(documents, s, m, f)
<1> DEFINE T == {n \in Nat : ~ \E f : Taken(documents, s, n, f)}
<1>1. SUFFICES ASSUME T # {} PROVE FALSE
  OBVIOUS
<1>2. PICK n \in T : \A k \in T : n <= k
  <2>1. T \in SUBSET Nat
    OBVIOUS
  <2> HIDE DEF T
  <2> QED
    BY <1>1, <2>1, NatMinimum
<1>3. n \in Nat /\ ~ \E f : Taken(documents, s, n, f)
  OBVIOUS
<1>4. CASE n = 0
  <2> DEFINE f == [k \in 0..0 |-> << >>]
  <2>1. f = [k \in 0..0 |-> IF k = 0 THEN << >> ELSE Picked(documents, f[k - 1], Rules[s][k])]
    OBVIOUS
  <2> HIDE DEF f
  <2>2. Taken(documents, s, n, f)
    BY <1>4, <2>1 DEF Taken
  <2> QED
    BY <1>3, <2>2
<1>5. CASE n # 0
  <2>1. n - 1 \in Nat /\ n - 1 \notin T
    BY <1>2, <1>3, <1>5
  <2>2. PICK g : Taken(documents, s, n - 1, g)
    BY <2>1
  <2> DEFINE f == [k \in 0..n |-> IF k = n THEN Picked(documents, g[n - 1], Rules[s][n]) ELSE g[k]]
  <2>3. \A k \in 0..(n - 1) : g[k] = IF k = 0 THEN << >> ELSE Picked(documents, g[k - 1], Rules[s][k])
    BY <2>2 DEF Taken
  <2>4. ASSUME NEW k \in 0..n
        PROVE  f[k] = IF k = 0 THEN << >> ELSE Picked(documents, f[k - 1], Rules[s][k])
    <3>1. CASE k = n
      <4>1. n - 1 \in 0..n /\ n - 1 # n
        BY <2>1, <1>3
      <4>2. f[n - 1] = g[n - 1]
        BY <4>1
      <4>3. f[k] = Picked(documents, g[n - 1], Rules[s][n])
        BY <3>1
      <4> HIDE DEF f
      <4> QED
        BY <1>5, <3>1, <4>2, <4>3
    <3>2. CASE k # n /\ k # 0
      <4>1. k \in 0..(n - 1) /\ k - 1 \in 0..n /\ k - 1 # n
        BY <1>3, <3>2
      <4>2. f[k] = g[k] /\ f[k - 1] = g[k - 1]
        BY <3>2, <4>1
      <4> HIDE DEF f
      <4> QED
        BY <2>3, <3>2, <4>1, <4>2
    <3>3. CASE k # n /\ k = 0
      <4>1. k \in 0..(n - 1)
        BY <2>1, <3>3
      <4>2. f[k] = g[k]
        BY <3>3
      <4> HIDE DEF f
      <4> QED
        BY <2>3, <3>3, <4>1, <4>2
    <3> QED
      BY <3>1, <3>2, <3>3
  <2>5. f = [k \in 0..n |-> f[k]]
    OBVIOUS
  <2> HIDE DEF f
  <2>6. Taken(documents, s, n, f)
    BY <2>4, <2>5 DEF Taken
  <2> QED
    BY <1>3, <2>6
<1> QED
  BY <1>4, <1>5

\* What the rules have taken, one after the other.
PicksOf(picked, documents, s, n) ==
  /\ List(picked) /\ Len(picked) = n
  /\ \A j \in 1..n : PickOf(picked[j], documents, Rules[s][j])

LEMMA PicksAre ==
  ASSUME NEW documents, Different(documents), NEW s, List(Rules[s]),
         Picks(documents, s) # Invalid
  PROVE  PicksOf(Picks(documents, s), documents, s, Len(Rules[s]))
<1> DEFINE N == Len(Rules[s])
           after == CHOOSE f : Taken(documents, s, N, f)
<1>1. Picks(documents, s) = after[N]
  BY DEF Picks, Taken
<1>2. N \in Nat
  BY DEF List
<1> HIDE DEF N
<1>3. Taken(documents, s, N, after)
  BY <1>2, TakenExists
<1> HIDE DEF after
<1> DEFINE T == {n \in 0..N : after[n] # Invalid /\ ~PicksOf(after[n], documents, s, n)}
<1>4. SUFFICES ASSUME T # {} PROVE FALSE
  BY <1>1, <1>2 DEF N
<1>5. PICK n \in T : \A k \in T : n <= k
  <2>1. T \in SUBSET Nat
    OBVIOUS
  <2> HIDE DEF T
  <2> QED
    BY <1>4, <2>1, NatMinimum
<1>6. n \in 0..N /\ after[n] # Invalid /\ ~PicksOf(after[n], documents, s, n)
  OBVIOUS
<1>7. after[n] = IF n = 0 THEN << >> ELSE Picked(documents, after[n - 1], Rules[s][n])
  BY <1>3, <1>6 DEF Taken
<1>8. CASE n = 0
  <2>1. after[n] = << >>
    BY <1>7, <1>8
  <2>2. List(after[n]) /\ Len(after[n]) = 0
    BY <2>1 DEF List
  <2> QED
    BY <1>6, <1>8, <2>2 DEF PicksOf
<1>9. CASE n # 0
  <2> DEFINE before == after[n - 1]
             pick == Pick(documents, before, Rules[s][n])
  <2>1. before # Invalid /\ pick # Invalid /\ after[n] = Append(before, pick)
    BY <1>6, <1>7, <1>9 DEF Picked
  <2>2. n - 1 \in 0..N /\ n - 1 \notin T /\ n \in Nat
    BY <1>2, <1>5, <1>6, <1>9
  <2>3. PicksOf(before, documents, s, n - 1)
    BY <2>1, <2>2
  <2>4. PickOf(pick, documents, Rules[s][n])
    BY <2>1, PickIs
  <2> HIDE DEF before, pick, T
  <2>5. /\ List(before) /\ Len(before) = n - 1
        /\ \A j \in 1..(n - 1) : PickOf(before[j], documents, Rules[s][j])
    BY <2>3 DEF PicksOf
  <2>6. before \in Seq(ToSet(before))
    BY <2>5, ListSeq
  <2> DEFINE U == ToSet(before) \cup {pick}
             a == Append(before, pick)
  <2>7. before \in Seq(U) /\ pick \in U
    BY <2>6
  <2> HIDE DEF U
  <2>8. /\ a \in Seq(U) /\ Len(a) = n
        /\ a[n] = pick /\ \A j \in 1..(n - 1) : a[j] = before[j]
    BY <2>2, <2>5, <2>7
  <2>9. List(a)
    BY <2>8, SeqList
  <2> HIDE DEF a
  <2>10. \A j \in 1..n : PickOf(a[j], documents, Rules[s][j])
    <3>1. ASSUME NEW j \in 1..n PROVE PickOf(a[j], documents, Rules[s][j])
      <4>1. j = n \/ j \in 1..(n - 1)
        BY <2>2
      <4> QED
        BY <2>4, <2>5, <2>8, <4>1
    <3> QED
      BY <3>1
  <2>11. PicksOf(after[n], documents, s, n)
    BY <2>1, <2>8, <2>9, <2>10 DEF PicksOf, a
  <2> QED
    BY <1>6, <2>11
<1> QED
  BY <1>8, <1>9

\* It is what the rule was written for, as the search returned it.
Origin(d, s, rule) ==
  /\ Band(d.at) = rule.band
  /\ \E key \in DOMAIN Wire :
       LET item == Wire[key] IN
       /\ item.title = d.title /\ item.at = d.at /\ Url(item) = d.url
       /\ s \in item.named \cup item.also /\ item.words \cap rule.terms # {}

LEMMA OriginIs ==
  ASSUME NEW d, NEW s, NEW rule, Placed(d, s), Fits(d, rule)
  PROVE  Origin(d, s, rule)
<1>1. PICK key \in DOMAIN Wire : d = Document(Wire[key], s) /\ About(Wire[key], s)
  BY DEF Placed, OfWire
<1>2. /\ d.at = Wire[key].at /\ d.title = Wire[key].title /\ d.url = Url(Wire[key])
      /\ d.words = Wire[key].words
  BY <1>1 DEF Document
<1>3. s \in Wire[key].named \cup Wire[key].also
  BY <1>1 DEF About
<1>4. Wire[key].words \cap rule.terms # {} /\ Band(d.at) = rule.band
  BY <1>2 DEF Fits
<1> QED
  BY <1>2, <1>3, <1>4 DEF Origin

\* The news that were curated of a company: for each rule, in order, one that it fits.
LEMMA CuratedIs ==
  ASSUME NEW s \in Companies, NEW payload, Curated(s, payload)
  PROVE  /\ List(payload.documents) /\ Len(payload.documents) = Len(Rules[s])
         /\ \A i \in 1..Len(Rules[s]) : /\ payload.documents[i].summary = Rules[s][i].summary
                                        /\ Origin(payload.documents[i], s, Rules[s][i])
<1>1. PICK h \in DOMAIN Harvests : /\ Harvest(s, Harvests[h][s]) # Invalid
                                   /\ payload = CurateNews(s, Harvest(s, Harvests[h][s]))
  BY DEF Curated
<1> DEFINE found == Harvest(s, Harvests[h][s])
           documents == found.documents
           picked == Picks(documents, s)
           kept == [i \in DOMAIN picked |->
                      [id |-> picked[i].doc.id, title |-> picked[i].doc.title,
                       band |-> picked[i].band, url |-> picked[i].doc.url,
                       at |-> picked[i].doc.at, summary |-> picked[i].summary]]
<1>2. Harvested(s, found)
  BY <1>1 DEF Harvested
<1> HIDE DEF found
<1>3. List(documents) /\ \A d \in ToSet(documents) : Placed(d, s)
  BY <1>2, HarvestedIs
<1>4. payload # Invalid /\ payload = CurateNews(s, found)
  BY <1>1 DEF Curated, found
<1>5. CandidatesSound(documents, s) /\ payload = Curate(documents, s)
  <2>1. CandidateDocuments(found, s) # Invalid /\ payload = Curate(CandidateDocuments(found, s), s)
    BY <1>4 DEF CurateNews
  <2> QED
    BY <2>1 DEF CandidateDocuments
<1> HIDE DEF documents
<1>6. Different(documents)
  <2>1. \A i, j \in DOMAIN documents : documents[i].url = documents[j].url => i = j
    BY <1>5 DEF CandidatesSound, Distinct, IsInjective, SeqMap
  <2>2. \A a, b \in ToSet(documents) : a.url = b.url => a = b
    BY <2>1 DEF ToSet
  <2>3. \A d \in ToSet(documents) : d.at \in Int /\ d.url \in Int
    BY <1>3, PlacedIs
  <2> QED
    BY <1>3, <2>2, <2>3 DEF Different
<1>7. picked # Invalid /\ payload.documents = kept
  <2> HIDE DEF kept, picked
  <2>1. Curate(documents, s) # Invalid
    BY <1>4, <1>5
  <2> QED
    BY <1>5, <2>1 DEF Curate, kept, picked
<1>8. List(Rules[s])
  BY NewsAssumption, SeqList DEF Companies
<1>9. PicksOf(picked, documents, s, Len(Rules[s]))
  BY <1>6, <1>7, <1>8, PicksAre
<1> HIDE DEF picked
<1>10. /\ List(picked) /\ Len(picked) = Len(Rules[s]) /\ DOMAIN picked = 1..Len(Rules[s])
       /\ \A i \in 1..Len(Rules[s]) : PickOf(picked[i], documents, Rules[s][i])
  BY <1>9 DEF PicksOf, List
<1>11. DOMAIN kept = DOMAIN picked /\ List(kept) /\ Len(kept) = Len(picked)
  <2>1. DOMAIN kept = DOMAIN picked /\ kept = [i \in DOMAIN kept |-> kept[i]]
    OBVIOUS
  <2> HIDE DEF kept
  <2> QED
    BY <1>10, <2>1, SeqMapIs
<1>12. ASSUME NEW i \in 1..Len(Rules[s])
       PROVE  kept[i].summary = Rules[s][i].summary /\ Origin(kept[i], s, Rules[s][i])
  <2> DEFINE d == picked[i].doc
  <2>1. /\ kept[i].summary = picked[i].summary /\ kept[i].title = d.title
        /\ kept[i].at = d.at /\ kept[i].url = d.url
    BY <1>10, <1>11
  <2> HIDE DEF kept
  <2>2. Placed(d, s) /\ Fits(d, Rules[s][i]) /\ picked[i].summary = Rules[s][i].summary
    BY <1>3, <1>10 DEF PickOf
  <2>3. Origin(d, s, Rules[s][i])
    BY <2>2, OriginIs
  <2> QED
    BY <2>1, <2>2, <2>3 DEF Origin
<1> QED
  BY <1>7, <1>10, <1>11, <1>12

\* What is served of the news of a company: those, as they were written down.
LEMMA NewsPart ==
  ASSUME NEW sources, NEW s \in Companies, Curated(s, sources[<<"news", s>>]),
         Part(sources, "news", s) # Invalid
  PROVE  LET part == Part(sources, "news", s) IN
         /\ List(part) /\ DOMAIN part = DOMAIN Rules[s]
         /\ \A i \in DOMAIN part :
              /\ part[i].source = "news" /\ part[i].primary = {s}
              /\ InWindow(part[i].at) /\ part[i].text = Rules[s][i].summary
              /\ Origin(part[i], s, Rules[s][i])
<1> DEFINE payload == sources[<<"news", s>>]
           documents == payload.documents
           part == Part(sources, "news", s)
           served == [i \in DOMAIN documents |-> NewsDocument(s, documents[i], i)]
<1>1. part = NewsDocuments(s, payload)
  BY DEF Part, DocumentsFrom
<1>2. List(Rules[s]) /\ DOMAIN Rules[s] = 1..Len(Rules[s])
  BY NewsAssumption, SeqList DEF Companies, List
<1>3. /\ List(documents) /\ DOMAIN documents = DOMAIN Rules[s]
      /\ \A i \in DOMAIN Rules[s] : /\ documents[i].summary = Rules[s][i].summary
                                    /\ Origin(documents[i], s, Rules[s][i])
  BY <1>2, CuratedIs DEF List
<1> HIDE DEF payload, part
<1>4. part = served /\ \A i \in DOMAIN documents : InWindow(documents[i].at)
  <2>1. part # Invalid
    BY DEF part
  <2> HIDE DEF documents
  <2> QED
    BY <1>1, <2>1 DEF NewsDocuments, documents
<1> HIDE DEF documents
<1>5. List(served) /\ DOMAIN served = DOMAIN documents
  <2>1. DOMAIN served = DOMAIN documents /\ served = [i \in DOMAIN served |-> served[i]]
    OBVIOUS
  <2> HIDE DEF served
  <2> QED
    BY <1>3, <2>1, SeqMapIs
<1>6. ASSUME NEW i \in DOMAIN documents
      PROVE  /\ served[i].source = "news" /\ served[i].primary = {s} /\ served[i].at = documents[i].at
             /\ served[i].title = documents[i].title /\ served[i].url = documents[i].url
             /\ served[i].text = documents[i].summary
  BY DEF NewsDocument
<1> HIDE DEF served
<1>7. ASSUME NEW i \in DOMAIN documents
      PROVE  Origin(served[i], s, Rules[s][i])
  <2>1. Origin(documents[i], s, Rules[s][i])
    BY <1>3
  <2> QED
    BY <1>6, <2>1 DEF Origin
<1> QED
  BY <1>3, <1>4, <1>5, <1>6, <1>7 DEF part

-----------------------------------------------------------------------------
(* What is served of a build *)

\* A document of the news of a company, by its rule.
Tells(d, s, rule) == d.text = rule.summary /\ Origin(d, s, rule)

\* What the documents of a build are.
Built(sources, d) ==
  /\ List(d)
  /\ \A i \in DOMAIN d : Servable(d[i])
  /\ \A i, j \in DOMAIN d : d[i].id = d[j].id => i = j
  /\ \A type \in {"news", "disclosure", "research_report"}, s \in Companies :
       /\ Part(sources, type, s) # Invalid
       /\ \A j \in DOMAIN Part(sources, type, s) : \E i \in DOMAIN d : d[i] = Part(sources, type, s)[j]
  /\ \A i \in DOMAIN d :
       \E type \in {"news", "disclosure", "research_report"}, s \in Companies :
         \E j \in DOMAIN Part(sources, type, s) : d[i] = Part(sources, type, s)[j]

LEMMA BuiltOf ==
  ASSUME NEW sources, GenuineSources(sources), BuildService(sources) # Invalid
  PROVE  Built(sources, BuildService(sources).documents)
<1> DEFINE d == BuildService(sources).documents
<1>1. \A type \in {"news", "disclosure", "research_report"}, s \in Companies :
        Part(sources, type, s) # Invalid => List(Part(sources, type, s))
  <2>1. ASSUME NEW s \in Companies
        PROVE  /\ Part(sources, "news", s) # Invalid => List(Part(sources, "news", s))
               /\ Part(sources, "disclosure", s) # Invalid => List(Part(sources, "disclosure", s))
               /\ Part(sources, "research_report", s) # Invalid => List(Part(sources, "research_report", s))
    <3>1. Curated(s, sources[<<"news", s>>]) /\ Reported(s, sources[<<"research_report", s>>])
      BY DEF GenuineSources
    <3>2. Part(sources, "news", s) # Invalid => List(Part(sources, "news", s))
      BY <3>1, NewsPart
    <3>3. Part(sources, "disclosure", s) # Invalid => List(Part(sources, "disclosure", s))
      BY FilingPart
    <3>4. Part(sources, "research_report", s) # Invalid => List(Part(sources, "research_report", s))
      BY <3>1, ReportPart
    <3> QED
      BY <3>2, <3>3, <3>4
  <2> QED
    BY <2>1
<1>2. /\ List(d) /\ BelongTogether(Assembled(d)) /\ Assembled(d).documents = d
      /\ \A type \in {"news", "disclosure", "research_report"}, s \in Companies :
           /\ Part(sources, type, s) # Invalid
           /\ \A j \in DOMAIN Part(sources, type, s) : \E i \in DOMAIN d : d[i] = Part(sources, type, s)[j]
      /\ \A i \in DOMAIN d :
           \E type \in {"news", "disclosure", "research_report"}, s \in Companies :
             \E j \in DOMAIN Part(sources, type, s) : d[i] = Part(sources, type, s)[j]
  BY <1>1, BuiltDocuments
<1> HIDE DEF d
<1>3. (\A i \in DOMAIN d : Servable(d[i])) /\ \A i, j \in DOMAIN d : d[i].id = d[j].id => i = j
  <2> DEFINE a == Assembled(d)
  <2>1. BelongTogether(a) /\ a.documents = d
    BY <1>2
  <2> HIDE DEF a
  <2> QED
    BY <2>1 DEF BelongTogether, IsInjective, SeqMap
<1> QED
  BY <1>2, <1>3 DEF Built, d

LEMMA FilingIsServed ==
  ASSUME NEW sources, NEW d, Built(sources, d), NEW s \in Companies
  PROVE  FilingServed(d, s)
<1> DEFINE part == Part(sources, "disclosure", s)
           f == part[1]
           n == f.notice
<1>1. /\ List(part) /\ DOMAIN part = {1} /\ f.source = "disclosure" /\ f.primary = {s}
      /\ NoticeSound(n)
      /\ RequiredCategories \subseteq {f.facts[i].category : i \in DOMAIN f.facts}
  BY FilingPart DEF Built
<1>2. PICK i \in DOMAIN d : d[i] = f
  BY <1>1 DEF Built
<1>3. Servable(f)
  BY <1>2 DEF Built
<1> HIDE DEF f
<1>4. FinalDisclosure(f)
  BY <1>1, <1>3 DEF Servable
<1>5. n.superseded = FALSE /\ n.withdrawn = FALSE
  BY <1>4 DEF FinalDisclosure
<1> HIDE DEF n
<1>6. n.status # "pending"
  <2>1. Notice(Pending).superseded = Unknown
    BY DEF Notice, Pending, Correction
  <2>2. Unknown # FALSE
    BY UnknownAssumption
  <2> QED
    BY <1>1, <1>5, <2>1, <2>2 DEF NoticeSound
<1>7. /\ n.status \in {"verified_official_api", "verified_official_viewer"}
      /\ n.superseded = ("corrected" \in n.remark) /\ n.withdrawn = ("withdrawn" \in n.remark)
  BY <1>1, <1>6 DEF NoticeSound
<1>8. "corrected" \notin n.remark /\ "withdrawn" \notin n.remark
  BY <1>5, <1>7
<1>9. n.remark \cap {"corrected", "withdrawn"} = {}
  BY <1>8
<1>10. f \in ToSet(d)
  BY <1>2 DEF ToSet
<1> QED
  BY <1>1, <1>7, <1>9, <1>10 DEF FilingServed, n

LEMMA ReportIsServed ==
  ASSUME NEW sources, GenuineSources(sources), NEW d, Built(sources, d), NEW s \in Companies
  PROVE  ReportServed(d, s)
<1> DEFINE part == Part(sources, "research_report", s)
<1>1. /\ \A j \in DOMAIN part : part[j].source = "research_report"
      /\ \A a \in ToSet(Report[s].segments) :
           \E j \in DOMAIN part : AsApproved(part[j], s, a)
  <2>1. Reported(s, sources[<<"research_report", s>>]) /\ part # Invalid
    BY DEF GenuineSources, Built
  <2>2. \A j \in DOMAIN part : part[j].source = "research_report"
    BY <2>1, ReportPart
  <2>3. \A a \in ToSet(Report[s].segments) :
           \E j \in DOMAIN part : AsApproved(part[j], s, a)
    BY <2>1, ReportPart
  <2> QED
    BY <2>2, <2>3
<1>2. \A j \in DOMAIN part : \E i \in DOMAIN d : d[i] = part[j]
  BY DEF Built
<1> HIDE DEF part
<1>3. \A j \in DOMAIN part : part[j] \in ToSet(d)
  BY <1>2 DEF ToSet
<1> QED
  BY <1>1, <1>3 DEF ReportServed, AsApproved

LEMMA NewsAreServed ==
  ASSUME NEW sources, GenuineSources(sources), NEW d, Built(sources, d), NEW s \in Companies
  PROVE  NewsServed(d, s)
<1> DEFINE part == Part(sources, "news", s)
           I == {i \in DOMAIN d : d[i].source = "news" /\ d[i].primary = {s}}
           news == ItemsAt(d, I)
<1>1. /\ DOMAIN part = DOMAIN Rules[s]
      /\ \A i \in DOMAIN part :
           /\ part[i].source = "news" /\ part[i].primary = {s}
           /\ InWindow(part[i].at) /\ Tells(part[i], s, Rules[s][i])
           /\ part[i].text = Rules[s][i].summary
  <2>1. Curated(s, sources[<<"news", s>>]) /\ part # Invalid
    BY DEF GenuineSources, Built
  <2>2. /\ DOMAIN part = DOMAIN Rules[s]
        /\ \A i \in DOMAIN part :
             /\ part[i].source = "news" /\ part[i].primary = {s}
             /\ InWindow(part[i].at) /\ part[i].text = Rules[s][i].summary
             /\ Origin(part[i], s, Rules[s][i])
    BY <2>1, NewsPart
  <2> HIDE DEF part
  <2> QED
    BY <2>2 DEF Tells
<1>2. /\ \A j \in DOMAIN part : \E i \in I : d[i] = part[j]
      /\ \A i, j \in DOMAIN d : d[i].id = d[j].id => i = j
  BY <1>1 DEF Built
<1>3. ASSUME NEW i \in I PROVE \E j \in DOMAIN part : d[i] = part[j]
  <2>1. PICK type \in {"news", "disclosure", "research_report"}, t \in Companies :
          \E j \in DOMAIN Part(sources, type, t) : d[i] = Part(sources, type, t)[j]
    BY DEF Built
  <2>2. PICK j \in DOMAIN Part(sources, type, t) : d[i] = Part(sources, type, t)[j]
    BY <2>1
  <2>3. Part(sources, type, t) # Invalid /\ Curated(t, sources[<<"news", t>>])
        /\ Reported(t, sources[<<"research_report", t>>])
    BY DEF Built, GenuineSources
  <2>4. d[i].source = "news" /\ d[i].primary = {s}
    OBVIOUS
  <2>5. type # "disclosure"
    <3>1. ASSUME type = "disclosure" PROVE FALSE
      <4>1. DOMAIN Part(sources, type, t) = {1} /\ Part(sources, type, t)[1].source = "disclosure"
        BY <2>3, <3>1, FilingPart
      <4> QED
        BY <2>2, <2>4, <4>1
    <3> QED
      BY <3>1
  <2>6. type # "research_report"
    <3>1. ASSUME type = "research_report" PROVE FALSE
      <4>1. Part(sources, type, t)[j].source = "research_report"
        BY <2>2, <2>3, <3>1, ReportPart
      <4> QED
        BY <2>2, <2>4, <4>1
    <3> QED
      BY <3>1
  <2>7. type = "news"
    BY <2>5, <2>6
  <2>8. Part(sources, type, t)[j].primary = {t}
    BY <2>2, <2>3, <2>7, NewsPart
  <2>9. t = s
    BY <2>2, <2>4, <2>8
  <2> QED
    BY <2>2, <2>7, <2>9
<1>4. List(d) /\ I \in SUBSET DOMAIN d
  BY DEF Built
<1>5. List(news) /\ \E f : Positions(f, d, I, Len(news))
  BY <1>4, ItemsAtFacts
<1>6. PICK f : Positions(f, d, I, Len(news))
  BY <1>5
<1> DEFINE n == Len(news)
<1>7. n \in Nat /\ DOMAIN news = 1..n
  BY <1>5 DEF List
<1>8. OfSource(d, "news", s) = news
  BY DEF OfSource, Where
<1> HIDE DEF news, part, n
<1>9. /\ \A k \in 1..n : f[k] \in I /\ news[k] = d[f[k]]
      /\ \A k, l \in 1..n : k < l => f[k] < f[l]
      /\ \A i \in I : \E k \in 1..n : f[k] = i
  <2>1. /\ f \in [1..Len(news) -> I]
        /\ \A k \in 1..Len(news) : news[k] = d[f[k]]
        /\ \A k, l \in 1..Len(news) : k < l => f[k] < f[l]
        /\ \A i \in I : \E k \in 1..Len(news) : f[k] = i
    BY <1>6 DEF Positions, news
  <2> HIDE DEF I
  <2> QED
    BY <2>1 DEF n
<1>10. ASSUME NEW k \in 1..n, NEW l \in 1..n, news[k].id = news[l].id PROVE k = l
  <2>1. f[k] = f[l] /\ f[k] \in DOMAIN d
    BY <1>2, <1>4, <1>9, <1>10
  <2>2. f[k] \in Nat
    BY <1>4, <2>1 DEF List
  <2>3. ~(k < l) /\ ~(l < k)
    BY <1>9, <2>1, <2>2
  <2> QED
    BY <1>7, <2>3
<1>11. ASSUME NEW k \in 1..n PROVE \E j \in DOMAIN part : news[k] = part[j]
  BY <1>3, <1>9
<1>12. ASSUME NEW j \in DOMAIN part PROVE \E k \in 1..n : news[k] = part[j]
  BY <1>2, <1>9
<1> HIDE DEF I
<1>13. ASSUME NEW k \in 1..n PROVE WindowStart <= news[k].at /\ news[k].at <= WindowEnd
  BY <1>1, <1>11 DEF InWindow
<1>14. ASSUME NEW rule \in ToSet(Rules[s])
       PROVE  Cardinality({k \in 1..n : Tells(news[k], s, rule)}) = 1
  <2>1. PICK r \in DOMAIN Rules[s] : Rules[s][r] = rule
    BY DEF ToSet
  <2>2. PICK k \in 1..n : news[k] = part[r]
    BY <1>1, <1>12, <2>1
  <2>3. Tells(news[k], s, rule)
    BY <1>1, <2>1, <2>2
  <2>4. ASSUME NEW l \in 1..n, Tells(news[l], s, rule) PROVE l = k
    <3>1. PICK j \in DOMAIN part : news[l] = part[j]
      BY <1>11
    <3>2. j \in DOMAIN Rules[s] /\ Rules[s][j].summary = Rules[s][r].summary
      BY <1>1, <2>1, <2>4, <3>1 DEF Tells
    <3>3. j = r
      BY <2>1, <3>2, NewsAssumption DEF Companies
    <3> QED
      BY <1>10, <2>2, <3>1, <3>3
  <2>5. {l \in 1..n : Tells(news[l], s, rule)} = {k}
    BY <2>3, <2>4
  <2> QED
    BY <2>5, FS_Singleton
<1>15. ASSUME NEW rule \in ToSet(Rules[s])
       PROVE  Cardinality({i \in DOMAIN news :
                /\ news[i].text = rule.summary /\ Band(news[i].at) = rule.band
                /\ \E key \in DOMAIN Wire :
                     /\ Wire[key].title = news[i].title /\ Wire[key].at = news[i].at
                     /\ Url(Wire[key]) = news[i].url
                     /\ s \in Wire[key].named \cup Wire[key].also
                     /\ Wire[key].words \cap rule.terms # {}}) = 1
  <2>1. {i \in DOMAIN news :
                /\ news[i].text = rule.summary /\ Band(news[i].at) = rule.band
                /\ \E key \in DOMAIN Wire :
                     /\ Wire[key].title = news[i].title /\ Wire[key].at = news[i].at
                     /\ Url(Wire[key]) = news[i].url
                     /\ s \in Wire[key].named \cup Wire[key].also
                     /\ Wire[key].words \cap rule.terms # {}}
          = {k \in 1..n : Tells(news[k], s, rule)}
    BY <1>7 DEF Tells, Origin, n
  <2> QED
    BY <1>14, <2>1
<1>16. \A i \in DOMAIN news : WindowStart <= news[i].at /\ news[i].at <= WindowEnd
  BY <1>7, <1>13 DEF n
<1> QED
  BY <1>8, <1>15, <1>16 DEF NewsServed

-----------------------------------------------------------------------------
(* The inductive invariant *)

\* Only the manifest's origin matters: it vouches for the other three files.
ManifestFile == SnapshotFile("manifest")

\* m is a build of its documents, part by part.
Whole(m) == \A i \in DOMAIN FourParts : m[FourParts[i]] = Assembled(m["documents"])[FourParts[i]]

\* Content c is the manifest of a build of ms.
FromBuild(c, ms) == \E m \in ms : c = m["manifest"]

\* What was seen is of one build of ms, part by part.
SeenWhole(seen, ms) ==
  \E m \in ms : \A i \in DOMAIN FourParts : seen[i] = m[FourParts[i]]

\* A process that writes has something to write, and writes a manifest of a build
\* where it writes one; a start has read such a manifest, and serves one build.
ProcessOK(x, ms) ==
  /\ DOMAIN x = DOMAIN NoProcess
  /\ x.stage # "idle" => x.kind \in Kinds
  /\ x.stage = "writing" =>
       /\ x.kind # "serve"
       /\ List(x.writes) /\ Len(x.writes) > 0
       /\ \A i \in 1..Len(x.writes) :
            x.writes[i].file = ManifestFile => FromBuild(x.writes[i].content, ms)
  /\ x.stage = "reading" =>
       /\ List(x.seen)
       /\ x.kind = "serve" /\ Len(x.seen) > 0 => FromBuild(x.seen[1], ms)
  /\ x.stage = "serving" => SeenWhole(x.seen, ms)

SInv ==
  /\ \A m \in made : Whole(m)
  /\ ManifestFile \in DOMAIN files
  /\ files[ManifestFile] = Torn \/ FromBuild(files[ManifestFile], made)
  /\ DOMAIN procs = Procs
  /\ \A p \in Procs : ProcessOK(procs[p], made)

-----------------------------------------------------------------------------
(* Builds *)

\* The six files of documents d.
SixOf(d) ==
  [manifest |-> Assembled(d).manifest, documents |-> d,
   coverage |-> Assembled(d).coverage, permission |-> Assembled(d).permission,
   checksum |-> Checksum(Assembled(d)), validation |-> ValidationReport(d)]

\* The parts of a snapshot, and that its manifest is what a start reads first.
PartNames == {"manifest", "documents", "coverage", "permission", "checksum", "validation"}

LEMMA PartsAre ==
  /\ FourParts \in Seq(PartNames) /\ SixParts \in Seq(PartNames)
  /\ DOMAIN FourParts = 1..4 /\ DOMAIN SixParts = 1..6
  /\ FourParts[1] = "manifest" /\ FourParts[2] = "documents"
  /\ FourParts[3] = "coverage" /\ FourParts[4] = "permission"
  /\ \A i \in 1..4 : SixParts[i] = FourParts[i]
  /\ SixParts[5] = "checksum" /\ SixParts[6] = "validation"
  /\ ToSet(FourParts) = {"manifest", "documents", "coverage", "permission"}
<1> DEFINE two == <<"checksum", "validation">>
<1>1. /\ FourParts \in Seq(PartNames) /\ Len(FourParts) = 4
      /\ FourParts[1] = "manifest" /\ FourParts[2] = "documents"
      /\ FourParts[3] = "coverage" /\ FourParts[4] = "permission"
  BY DEF FourParts, PartNames
<1>2. /\ two \in Seq(PartNames) /\ Len(two) = 2
      /\ two[1] = "checksum" /\ two[2] = "validation"
  BY DEF PartNames
<1>3. SixParts = FourParts \o two
  BY DEF SixParts
<1> HIDE DEF two
<1>4. /\ SixParts \in Seq(PartNames) /\ Len(SixParts) = 6
      /\ \A i \in 1..6 : SixParts[i] = IF i <= 4 THEN FourParts[i] ELSE two[i - 4]
  <2>1. /\ SixParts \in Seq(PartNames) /\ Len(SixParts) = 4 + 2
        /\ \A i \in 1..(4 + 2) : SixParts[i] = IF i <= 4 THEN FourParts[i] ELSE two[i - 4]
    <3>1. /\ SixParts \in Seq(PartNames) /\ Len(SixParts) = Len(FourParts) + Len(two)
          /\ \A i \in 1..(Len(FourParts) + Len(two)) :
               SixParts[i] = IF i <= Len(FourParts) THEN FourParts[i] ELSE two[i - Len(FourParts)]
      BY <1>1, <1>2, <1>3, ConcatProperties, Zenon
    <3> QED
      BY <1>1, <1>2, <3>1
  <2> QED
    BY <2>1
<1>5. DOMAIN FourParts = 1..4 /\ DOMAIN SixParts = 1..6
  BY <1>1, <1>4
<1>6. ToSet(FourParts) = {"manifest", "documents", "coverage", "permission"}
  BY <1>1, <1>5 DEF ToSet
<1>7. \A i \in 1..4 : SixParts[i] = FourParts[i]
  BY <1>4
<1>8. SixParts[5] = two[1] /\ SixParts[6] = two[2]
  BY <1>4
<1> QED
  BY <1>1, <1>2, <1>4, <1>5, <1>6, <1>7, <1>8

LEMMA StartReadsAre ==
  /\ Len(StartReads) = 12 /\ StartReads[1] = ManifestFile
  /\ StartReads[11] = TitleFile /\ StartReads[12] = MarketFile
<1> DEFINE names == SixParts \o FourParts
           head  == SeqMap(SnapshotFile, names)
           rest  == <<TitleFile, MarketFile>>
           T     == {head[i] : i \in 1..10} \cup {TitleFile, MarketFile}
<1>1. names \in Seq(PartNames) /\ Len(names) = 10 /\ names[1] = "manifest"
  <2>1. Len(SixParts) = 6 /\ Len(FourParts) = 4
    BY PartsAre
  <2> QED
    <3>1. SixParts \in Seq(PartNames) /\ FourParts \in Seq(PartNames)
      BY PartsAre
    <3>2. /\ names \in Seq(PartNames) /\ Len(names) = Len(SixParts) + Len(FourParts)
          /\ \A i \in 1..(Len(SixParts) + Len(FourParts)) :
               names[i] = IF i <= Len(SixParts) THEN SixParts[i] ELSE FourParts[i - Len(SixParts)]
      BY <3>1, ConcatProperties, Zenon
    <3>3. Len(names) = 10 /\ names[1] = SixParts[1]
      BY <2>1, <3>2
    <3> QED
      BY <3>2, <3>3, PartsAre
<1> HIDE DEF names
<1>2. head = [i \in 1..10 |-> SnapshotFile(names[i])]
  BY <1>1 DEF SeqMap
<1>3. head \in Seq(T) /\ Len(head) = 10 /\ head[1] = ManifestFile
  <2>1. \A i \in 1..10 : head[i] \in T
    OBVIOUS
  <2>2. head = [i \in 1..10 |-> head[i]] /\ head[1] = ManifestFile
    BY <1>1, <1>2 DEF ManifestFile
  <2> HIDE DEF T, head
  <2> QED
    BY <2>1, <2>2
<1>4. rest \in Seq(T) /\ Len(rest) = 2 /\ rest[1] = TitleFile /\ rest[2] = MarketFile
  OBVIOUS
<1>5. StartReads = head \o rest
  BY DEF StartReads, names
<1> HIDE DEF T, head, rest
<1> QED
  <2>1. /\ Len(StartReads) = Len(head) + Len(rest)
        /\ \A i \in 1..(Len(head) + Len(rest)) :
             StartReads[i] = IF i <= Len(head) THEN head[i] ELSE rest[i - Len(head)]
    BY <1>3, <1>4, <1>5, ConcatProperties, Zenon
  <2> QED
    BY <1>3, <1>4, <2>1

\* A build that is not refused makes the six files of some documents.
LEMMA BuiltIs ==
  ASSUME NEW sources, BuildService(sources) # Invalid
  PROVE  \E d : BuildService(sources) = SixOf(d)
<1>1. PICK found : BuildService(sources) = Gathered(found)
  BY DEF BuildService
<1>2. PICK d : Gathered(found) = Vouched(Assembled(d))
  BY <1>1 DEF Gathered
<1>3. Vouched(Assembled(d)) = SixOf(d)
  <2>1. Assembled(d).documents = d
    BY DEF Assembled
  <2> QED
    BY <1>1, <1>2, <2>1 DEF Vouched, SixOf
<1> QED
  BY <1>1, <1>2, <1>3

LEMMA SixWhole ==
  ASSUME NEW d, NEW m,
         \A part \in ToSet(FourParts) : m[part] = SixOf(d)[part]
  PROVE  Whole(m)
<1>1. /\ m["manifest"] = Assembled(d)["manifest"] /\ m["documents"] = d
      /\ m["coverage"] = Assembled(d)["coverage"] /\ m["permission"] = Assembled(d)["permission"]
  BY PartsAre DEF SixOf
<1>2. Assembled(d)["documents"] = d
  BY DEF Assembled
<1> QED
  BY <1>1, <1>2, PartsAre DEF Whole

\* The place of a part among the six.
LEMMA PlaceIs ==
  ASSUME NEW i \in 1..6
  PROVE  (CHOOSE k \in DOMAIN SixParts : SixParts[k] = SixParts[i]) = i
<1>1. \A j, k \in 1..6 : SixParts[j] = SixParts[k] => j = k
  <2>1. /\ SixParts[1] = "manifest" /\ SixParts[2] = "documents" /\ SixParts[3] = "coverage"
        /\ SixParts[4] = "permission" /\ SixParts[5] = "checksum" /\ SixParts[6] = "validation"
    BY PartsAre
  <2> QED
    BY <2>1
<1> DEFINE c == CHOOSE k \in DOMAIN SixParts : SixParts[k] = SixParts[i]
<1>2. c \in 1..6 /\ SixParts[c] = SixParts[i]
  BY PartsAre
<1> HIDE DEF c
<1>3. c = i
  BY <1>1, <1>2
<1> QED
  BY <1>3 DEF c

\* A script that writes one file, which is no manifest.
LEMMA WritingIs ==
  ASSUME NEW file, file # ManifestFile, NEW content, NEW w, w = Writing(file, content),
         w # Invalid
  PROVE  List(w) /\ Len(w) = 1 /\ w[1].file # ManifestFile
<1>1. w = <<[file |-> file, content |-> content]>>
  BY DEF Writing
<1>2. w = [i \in 1..1 |-> w[i]] /\ w[1].file # ManifestFile
  BY <1>1
<1> QED
  BY <1>2, ListIs

\* What a build that is not refused comes to write: the six files of some documents.
LEMMA BuildWrites ==
  ASSUME NEW unit, NEW input, NEW seen, NEW w,
         w = Result("build", unit, input, seen), w # Invalid
  PROVE  /\ List(w) /\ Len(w) = 6
         /\ \E d : w = [i \in 1..6 |-> [file |-> <<SixParts[i]>>, content |-> SixOf(d)[SixParts[i]]]]
<1>1. w = BuiltFiles(BuildService(Sources(seen)))
  BY DEF Result
<1>2. BuildService(Sources(seen)) # Invalid
  BY <1>1 DEF BuiltFiles
<1>3. PICK d : BuildService(Sources(seen)) = SixOf(d)
  BY <1>2, BuiltIs
<1>4. w = [i \in DOMAIN SixParts |-> [file |-> SnapshotFile(SixParts[i]), content |-> SixOf(d)[SixParts[i]]]]
  BY <1>1, <1>2, <1>3 DEF BuiltFiles, SeqMap
<1>5. w = [i \in 1..6 |-> [file |-> <<SixParts[i]>>, content |-> SixOf(d)[SixParts[i]]]]
  BY <1>4, PartsAre DEF SnapshotFile
<1>6. w = [i \in 1..6 |-> w[i]]
  BY <1>5
<1>7. List(w) /\ Len(w) = 6
  BY <1>6, ListIs
<1> QED
  BY <1>5, <1>7

\* Any other script comes to write no manifest of a snapshot, and a start nothing.
LEMMA WritesAre ==
  ASSUME NEW kind \in Kinds \ {"build"}, NEW unit, NEW input, NEW seen, NEW w,
         w = Result(kind, unit, input, seen), w # Invalid, w # << >>
  PROVE  /\ kind # "serve" /\ List(w) /\ Len(w) = 1 /\ w[1].file # ManifestFile
<1>1. CASE kind = "harvest"
  <2>1. w = Writing(CandidateFile(unit), Harvest(unit, Harvests[input][unit]))
    BY <1>1 DEF Result
  <2>2. CandidateFile(unit) # ManifestFile
    BY DEF CandidateFile, ManifestFile, SnapshotFile
  <2> QED
    BY <1>1, <2>1, <2>2, WritingIs
<1>2. ASSUME NEW type PROVE SourceFile(type, unit) # ManifestFile
  BY DEF SourceFile, ManifestFile, SnapshotFile
<1>3. CASE kind = "curate"
  <2>1. w = Writing(SourceFile("news", unit), CurateNews(unit, seen[1]))
    BY <1>3 DEF Result
  <2> QED
    BY <1>2, <1>3, <2>1, WritingIs
<1>4. CASE kind = "file"
  <2>1. w = Writing(SourceFile("disclosure", unit), CurateDisclosure(unit, Inquiries[input][unit]))
    BY <1>4 DEF Result
  <2> QED
    BY <1>2, <1>4, <2>1, WritingIs
<1>5. CASE kind = "report"
  <2>1. w = Writing(SourceFile("research_report", unit), CurateReport(unit, Papers[input][unit]))
    BY <1>5 DEF Result
  <2> QED
    BY <1>2, <1>5, <2>1, WritingIs
<1>6. CASE kind = "titles"
  <2>1. w = Writing(TitleFile, CollectTitles(Searches[input]))
    BY <1>6 DEF Result
  <2>2. TitleFile # ManifestFile
    BY DEF TitleFile, ManifestFile, SnapshotFile
  <2> QED
    BY <1>6, <2>1, <2>2, WritingIs
<1>7. CASE kind = "market"
  <2>1. w = Writing(MarketFile, CollectMarket(Feeds[input]))
    BY <1>7 DEF Result
  <2>2. MarketFile # ManifestFile
    BY DEF MarketFile, ManifestFile, SnapshotFile
  <2> QED
    BY <1>7, <2>1, <2>2, WritingIs
<1>8. kind # "serve"
  BY DEF Result, Started
<1> QED
  BY <1>1, <1>3, <1>4, <1>5, <1>6, <1>7, <1>8 DEF Kinds

\* A start that is not refused has seen one build: the manifest it read first
\* vouches for the documents, and these for the rest.
LEMMA StartedWhole ==
  ASSUME NEW seen, NEW m, Whole(m), seen[1] = m["manifest"], Started(seen) # Invalid
  PROVE  \A i \in DOMAIN FourParts : seen[i] = m[FourParts[i]]
<1> DEFINE place(part) == CHOOSE i \in DOMAIN SixParts : SixParts[i] = part
           six == [part \in ToSet(SixParts) |-> seen[place(part)]]
           again == [part \in ToSet(FourParts) |->
                       seen[Len(SixParts) + CHOOSE i \in DOMAIN FourParts : FourParts[i] = part]]
<1>1. LoadService(six, again) # Invalid
  BY DEF Started
<1>2. /\ six.manifest = seen[1] /\ six.documents = seen[2]
      /\ six.coverage = seen[3] /\ six.permission = seen[4]
  <2>1. ASSUME NEW i \in 1..6 PROVE six[SixParts[i]] = seen[i]
    <3>1. SixParts[i] \in ToSet(SixParts)
      BY PartsAre DEF ToSet
    <3>2. place(SixParts[i]) = i
      BY PlaceIs
    <3> HIDE DEF place
    <3> QED
      BY <3>1, <3>2
  <2>2. /\ SixParts[1] = "manifest" /\ SixParts[2] = "documents"
        /\ SixParts[3] = "coverage" /\ SixParts[4] = "permission"
    BY PartsAre
  <2>3. /\ six[SixParts[1]] = seen[1] /\ six[SixParts[2]] = seen[2]
        /\ six[SixParts[3]] = seen[3] /\ six[SixParts[4]] = seen[4]
    <3> HIDE DEF six
    <3> QED
      BY <2>1
  <2> HIDE DEF six
  <2> QED
    BY <2>2, <2>3
<1> HIDE DEF six, again
<1>3. BelongTogether(six)
  BY <1>1 DEF LoadService
<1>4. /\ Sha256(six.documents) = six.manifest.documents
      /\ six.coverage = ServiceCoverage(six.documents) /\ six.permission = PermissionRegister
  BY <1>3 DEF BelongTogether
<1>5. /\ m["manifest"] = Assembled(m["documents"]).manifest
      /\ m["coverage"] = Assembled(m["documents"]).coverage
      /\ m["permission"] = Assembled(m["documents"]).permission
  BY PartsAre DEF Whole
<1>6. seen[2] = m["documents"]
  <2>1. m["manifest"].documents = m["documents"]
    BY <1>5 DEF Assembled, Sha256
  <2> QED
    BY <1>2, <1>4, <2>1 DEF Sha256
<1>7. seen[3] = m["coverage"] /\ seen[4] = m["permission"]
  BY <1>2, <1>4, <1>5, <1>6 DEF Assembled
<1> QED
  BY <1>6, <1>7, PartsAre

-----------------------------------------------------------------------------
(* Processes *)

LEMMA NoneIs == List(<< >>) /\ Len(<< >>) = 0
BY DEF List

LEMMA MoreBuilds ==
  ASSUME NEW x, NEW ms, NEW ms2, ms \subseteq ms2, ProcessOK(x, ms)
  PROVE  ProcessOK(x, ms2)
BY DEF ProcessOK, FromBuild, SeenWhole

\* Being disturbed or overlapped is no matter of ProcessOK.
LEMMA AlikeOK ==
  ASSUME NEW x, NEW y, NEW ms, ProcessOK(x, ms), DOMAIN y = DOMAIN x,
         y.kind = x.kind, y.stage = x.stage, y.writes = x.writes, y.seen = x.seen
  PROVE  ProcessOK(y, ms)
BY DEF ProcessOK

\* A process that is idle, refused or about to read is in order.
LEMMA RestOK ==
  ASSUME NEW x, NEW ms, DOMAIN x = DOMAIN NoProcess, x.stage # "idle" => x.kind \in Kinds,
         x.stage \in {"idle", "refused"} \/ (x.stage = "reading" /\ x.seen = << >>)
  PROVE  ProcessOK(x, ms)
BY NoneIs DEF ProcessOK

\* So is one that writes no manifest but of a build.
LEMMA WritingOK ==
  ASSUME NEW x, NEW ms, DOMAIN x = DOMAIN NoProcess, x.kind \in Kinds \ {"serve"},
         x.stage = "writing", List(x.writes), Len(x.writes) > 0,
         \A i \in 1..Len(x.writes) :
           x.writes[i].file = ManifestFile => FromBuild(x.writes[i].content, ms)
  PROVE  ProcessOK(x, ms)
BY DEF ProcessOK

LEMMA NoProcessOK ==
  ASSUME NEW ms
  PROVE  ProcessOK(NoProcess, ms)
<1>1. NoProcess.stage = "idle"
  BY DEF NoProcess
<1> QED
  BY <1>1, RestOK

\* A step of p that leaves the others alike.
LEMMA OneSteps ==
  ASSUME SInv, NEW p \in Procs, made \subseteq made', DOMAIN procs' = Procs,
         ProcessOK(procs'[p], made'),
         \A q \in Procs \ {p} :
           /\ DOMAIN procs'[q] = DOMAIN procs[q]
           /\ procs'[q].kind = procs[q].kind /\ procs'[q].stage = procs[q].stage
           /\ procs'[q].writes = procs[q].writes /\ procs'[q].seen = procs[q].seen
  PROVE  \A q \in Procs : ProcessOK(procs'[q], made')
<1>1. ASSUME NEW q \in Procs, q # p PROVE ProcessOK(procs'[q], made')
  <2>1. ProcessOK(procs[q], made)
    BY DEF SInv
  <2>2. ProcessOK(procs'[q], made)
    BY <1>1, <2>1, AlikeOK
  <2> QED
    BY <2>2, MoreBuilds
<1> QED
  BY <1>1

LEMMA OthersAlike ==
  ASSUME SInv, NEW p \in Procs, NEW y, procs' = [procs EXCEPT ![p] = y],
         made \subseteq made', ProcessOK(y, made')
  PROVE  DOMAIN procs' = Procs /\ \A q \in Procs : ProcessOK(procs'[q], made')
<1>1. DOMAIN procs' = Procs /\ procs'[p] = y /\ \A q \in Procs \ {p} : procs'[q] = procs[q]
  BY DEF SInv
<1> QED
  BY <1>1, OneSteps

\* After its last write, or without any, a script goes on, ends or serves what it saw.
LEMMA OnwardOK ==
  ASSUME NEW x, NEW ms, DOMAIN x = DOMAIN NoProcess, x.kind \in Kinds,
         x.kind = "serve" => SeenWhole(x.seen, ms)
  PROVE  ProcessOK(Onward(x), ms)
<1>1. CASE x.unit < Len(Units(x.kind))
  <2> DEFINE y == [x EXCEPT !.stage = "reading", !.unit = @ + 1, !.seen = << >>]
  <2>1. Onward(x) = y
    BY <1>1 DEF Onward
  <2>2. DOMAIN y = DOMAIN NoProcess /\ y.kind = x.kind /\ y.stage = "reading" /\ y.seen = << >>
    BY DEF NoProcess
  <2> HIDE DEF y
  <2> QED
    BY <2>1, <2>2, RestOK
<1>2. CASE ~(x.unit < Len(Units(x.kind))) /\ x.kind = "serve"
  <2> DEFINE y == [x EXCEPT !.stage = "serving"]
  <2>1. Onward(x) = y
    BY <1>2 DEF Onward
  <2>2. DOMAIN y = DOMAIN NoProcess /\ y.kind = x.kind /\ y.stage = "serving" /\ y.seen = x.seen
    BY DEF NoProcess
  <2> HIDE DEF y
  <2> QED
    BY <1>2, <2>1, <2>2 DEF ProcessOK
<1>3. CASE ~(x.unit < Len(Units(x.kind))) /\ x.kind # "serve"
  BY <1>3, NoProcessOK DEF Onward
<1> QED
  BY <1>1, <1>2, <1>3

-----------------------------------------------------------------------------
(* The steps *)

LEMMA StartKeeps ==
  ASSUME SInv, NEW p \in Procs, Start(p)
  PROVE  SInv'
<1>1. PICK kind \in Kinds : \E input \in Inputs(kind) :
        procs' = [procs EXCEPT ![p] =
                    [NoProcess EXCEPT !.kind = kind, !.stage = "reading", !.input = input,
                                      !.unit = 1, !.calm = Undisturbed(kind)]]
  BY DEF Start
<1>2. PICK input \in Inputs(kind) :
        procs' = [procs EXCEPT ![p] =
                    [NoProcess EXCEPT !.kind = kind, !.stage = "reading", !.input = input,
                                      !.unit = 1, !.calm = Undisturbed(kind)]]
  BY <1>1
<1> DEFINE y == [NoProcess EXCEPT !.kind = kind, !.stage = "reading", !.input = input,
                                  !.unit = 1, !.calm = Undisturbed(kind)]
<1>3. DOMAIN y = DOMAIN NoProcess /\ y.kind = kind /\ y.stage = "reading" /\ y.seen = << >>
  BY DEF NoProcess
<1>4. procs' = [procs EXCEPT ![p] = y] /\ files' = files /\ made' = made
  BY <1>2 DEF Start
<1> HIDE DEF y
<1>5. ProcessOK(y, made')
  BY <1>3, RestOK
<1>6. DOMAIN procs' = Procs /\ \A q \in Procs : ProcessOK(procs'[q], made')
  BY <1>4, <1>5, OthersAlike
<1> QED
  BY <1>4, <1>6 DEF SInv

LEMMA ReadKeeps ==
  ASSUME SInv, NEW p \in Procs, Read(p)
  PROVE  SInv'
<1> DEFINE x == procs[p]
           content == files[ToRead(p)[Len(x.seen) + 1]]
           y == IF content = Torn THEN [x EXCEPT !.stage = "refused"]
                ELSE [x EXCEPT !.seen = Append(x.seen, content)]
<1>1. /\ x.stage = "reading" /\ files' = files /\ made' = made
      /\ procs' = IF content = Torn THEN [procs EXCEPT ![p].stage = "refused"]
                  ELSE [procs EXCEPT ![p].seen = Append(x.seen, content)]
  BY DEF Read
<1>2. ProcessOK(x, made)
  BY DEF SInv
<1>3. procs' = [procs EXCEPT ![p] = y]
  BY <1>1
<1>4. ProcessOK(y, made')
  <2>1. CASE content = Torn
    <3>1. /\ DOMAIN y = DOMAIN NoProcess /\ y.kind = x.kind /\ y.stage = "refused"
      BY <1>2, <2>1 DEF ProcessOK, NoProcess
    <3> HIDE DEF x, y
    <3> QED
      BY <1>1, <1>2, <3>1, RestOK DEF ProcessOK
  <2>2. CASE content # Torn
    <3>1. /\ DOMAIN y = DOMAIN NoProcess /\ y.kind = x.kind /\ y.stage = "reading"
          /\ y.seen = Append(x.seen, content)
      BY <1>1, <1>2, <2>2 DEF ProcessOK, NoProcess
    <3>2. List(x.seen)
      BY <1>1, <1>2 DEF ProcessOK
    <3>3. ASSUME x.kind = "serve" PROVE FromBuild(y.seen[1], made)
      <4>1. CASE Len(x.seen) = 0
        <5>1. ToRead(p) = StartReads
          BY <3>3 DEF ToRead, Reads
        <5>2. content = files[ManifestFile]
          BY <4>1, <5>1, StartReadsAre
        <5>3. y.seen[1] = content
          BY <3>1, <3>2, <4>1, AppendIs
        <5> HIDE DEF y, content
        <5> QED
          BY <2>2, <5>2, <5>3 DEF SInv
      <4>2. CASE Len(x.seen) # 0
        <5>1. y.seen[1] = x.seen[1]
          BY <3>1, <3>2, <4>2, AppendIs
        <5>2. Len(x.seen) > 0
          BY <3>2, <4>2, ListType
        <5> HIDE DEF x, y
        <5> QED
          BY <1>1, <1>2, <3>3, <5>1, <5>2 DEF ProcessOK
      <4> QED
        BY <4>1, <4>2
    <3>4. List(y.seen)
      BY <3>1, <3>2, AppendIs
    <3> HIDE DEF x, y, content
    <3> QED
      BY <1>1, <1>2, <3>1, <3>3, <3>4 DEF ProcessOK
  <2> QED
    BY <2>1, <2>2
<1> HIDE DEF y
<1>5. DOMAIN procs' = Procs /\ \A q \in Procs : ProcessOK(procs'[q], made')
  BY <1>1, <1>3, <1>4, OthersAlike
<1> QED
  BY <1>1, <1>5 DEF SInv

LEMMA ComputeKeeps ==
  ASSUME SInv, NEW p \in Procs, Compute(p)
  PROVE  SInv'
<1> DEFINE x == procs[p]
           result == Result(x.kind, Unit(p), x.input, x.seen)
           new == [part \in ToSet(FourParts) |->
                     result[CHOOSE i \in DOMAIN SixParts : SixParts[i] = part].content]
           y == IF result = Invalid THEN [x EXCEPT !.stage = "refused"]
                ELSE IF result = << >> THEN Onward(x)
                ELSE [x EXCEPT !.stage = "writing", !.writes = result, !.seen = << >>]
<1>1. /\ x.stage = "reading" /\ Len(x.seen) = Len(ToRead(p)) /\ files' = files
      /\ procs' = [procs EXCEPT ![p] = y]
      /\ made' = IF x.kind = "build" /\ result # Invalid THEN made \cup {new} ELSE made
  BY DEF Compute, Arrived
<1>2. ProcessOK(x, made)
  BY DEF SInv
<1>3. x.kind \in Kinds /\ DOMAIN x = DOMAIN NoProcess /\ List(x.seen)
  BY <1>1, <1>2 DEF ProcessOK
<1>4. /\ made \subseteq made' /\ ProcessOK(y, made')
      /\ \A m \in made' : Whole(m)
  <2>1. CASE result = Invalid
    <3>1. DOMAIN y = DOMAIN NoProcess /\ y.kind = x.kind /\ y.stage = "refused"
      BY <1>3, <2>1 DEF NoProcess
    <3>2. made' = made
      BY <1>1, <2>1
    <3>3. ProcessOK(y, made')
      <4> HIDE DEF x, y
      <4> QED
        BY <1>3, <3>1, RestOK
    <3> QED
      BY <3>2, <3>3 DEF SInv
  <2>2. CASE result # Invalid /\ x.kind = "build"
    <3>1. result = Result("build", Unit(p), x.input, x.seen)
      BY <2>2
    <3>2. List(result) /\ Len(result) = 6
      BY <2>2, <3>1, BuildWrites
    <3>3. PICK d : result = [i \in 1..6 |-> [file |-> <<SixParts[i]>>, content |-> SixOf(d)[SixParts[i]]]]
      BY <2>2, <3>1, BuildWrites
    <3>4. made' = made \cup {new}
      BY <1>1, <2>2
    <3>5. \A part \in ToSet(FourParts) : new[part] = SixOf(d)[part]
      <4>1. ASSUME NEW i \in 1..4 PROVE result[CHOOSE k \in DOMAIN SixParts : SixParts[k] = FourParts[i]].content = SixOf(d)[FourParts[i]]
        <5>1. FourParts[i] = SixParts[i] /\ i \in 1..6
          BY PartsAre
        <5>2. (CHOOSE k \in DOMAIN SixParts : SixParts[k] = FourParts[i]) = i
          BY <5>1, PlaceIs
        <5>3. result[i].content = SixOf(d)[SixParts[i]]
          BY <3>3, <5>1
        <5> HIDE DEF result
        <5> QED
          BY <5>1, <5>2, <5>3
      <4>2. ASSUME NEW part \in ToSet(FourParts) PROVE \E i \in 1..4 : part = FourParts[i]
        BY PartsAre DEF ToSet
      <4>3. ASSUME NEW part \in ToSet(FourParts) PROVE new[part] = SixOf(d)[part]
        <5>1. PICK i \in 1..4 : part = FourParts[i]
          BY <4>2
        <5> HIDE DEF result
        <5> QED
          BY <4>1, <5>1
      <4> HIDE DEF new
      <4> QED
        BY <4>3
    <3>6. Whole(new)
      <4> HIDE DEF new
      <4> QED
        BY <3>5, SixWhole
    <3>7. result # << >>
      <4> HIDE DEF result
      <4> QED
        BY <3>2, NoneIs
    <3>8. /\ DOMAIN y = DOMAIN NoProcess /\ y.kind = "build" /\ y.stage = "writing"
          /\ y.writes = result /\ y.seen = << >>
      <4> HIDE DEF result
      <4> QED
        BY <1>3, <2>2, <3>7 DEF NoProcess
    <3>9. ASSUME NEW i \in 1..Len(result), result[i].file = ManifestFile
          PROVE  FromBuild(result[i].content, made')
      <4>1. i \in 1..6 /\ result[i].file = <<SixParts[i]>> /\ result[i].content = SixOf(d)[SixParts[i]]
        BY <3>2, <3>3
      <4>2. SixParts[i] = "manifest"
        BY <3>9, <4>1 DEF ManifestFile, SnapshotFile
      <4>3. new["manifest"] = SixOf(d)["manifest"]
        BY <3>5, PartsAre
      <4> HIDE DEF new, result
      <4> QED
        BY <3>4, <4>1, <4>2, <4>3 DEF FromBuild
    <3>10. ProcessOK(y, made')
      <4> HIDE DEF y, result
      <4> QED
        <5>1. y.kind \in Kinds \ {"serve"}
          BY <3>8 DEF Kinds
        <5>2. List(y.writes) /\ Len(y.writes) > 0
          BY <3>2, <3>8
        <5>3. \A i \in 1..Len(y.writes) :
                y.writes[i].file = ManifestFile => FromBuild(y.writes[i].content, made')
          BY <3>8, <3>9
        <5> QED
          BY <3>8, <5>1, <5>2, <5>3, WritingOK
    <3> HIDE DEF y, new
    <3> QED
      BY <3>4, <3>6, <3>10 DEF SInv
  <2>3. CASE result = << >> /\ result # Invalid /\ x.kind # "build"
    <3>1. made' = made /\ y = Onward(x)
      BY <1>1, <2>3
    <3>2. ASSUME x.kind = "serve" PROVE SeenWhole(x.seen, made)
      <4>1. Len(x.seen) = 12
        BY <1>1, <3>2, StartReadsAre DEF ToRead, Reads
      <4>2. FromBuild(x.seen[1], made)
        BY <1>1, <1>2, <3>2, <4>1 DEF ProcessOK
      <4>3. PICK m \in made : x.seen[1] = m["manifest"]
        BY <4>2 DEF FromBuild
      <4>4. Started(x.seen) # Invalid
        BY <2>3, <3>2 DEF Result
      <4>5. Whole(m)
        BY DEF SInv
      <4> HIDE DEF x
      <4> QED
        BY <4>3, <4>4, <4>5, StartedWhole DEF SeenWhole
    <3>3. ProcessOK(y, made')
      <4> HIDE DEF x, y
      <4> QED
        BY <1>3, <3>1, <3>2, OnwardOK
    <3> HIDE DEF y
    <3> QED
      BY <3>1, <3>3 DEF SInv
  <2>4. CASE result # << >> /\ result # Invalid /\ x.kind # "build"
    <3>1. made' = made
      BY <1>1, <2>4
    <3>2. x.kind # "serve" /\ List(result) /\ Len(result) = 1 /\ result[1].file # ManifestFile
      <4>1. x.kind \in Kinds \ {"build"}
        BY <1>3, <2>4
      <4> QED
        BY <2>4, <4>1, WritesAre
    <3>3. /\ DOMAIN y = DOMAIN NoProcess /\ y.kind = x.kind /\ y.stage = "writing"
          /\ y.writes = result /\ y.seen = << >>
      <4> HIDE DEF result
      <4> QED
        BY <1>3, <2>4 DEF NoProcess
    <3>4. \A i \in 1..Len(result) : result[i].file # ManifestFile
      <4>1. \A i \in 1..Len(result) : i = 1
        BY <3>2
      <4> HIDE DEF result
      <4> QED
        BY <3>2, <4>1
    <3>5. ProcessOK(y, made')
      <4> HIDE DEF x, y, result
      <4> QED
        <5>1. y.kind \in Kinds \ {"serve"}
          BY <1>3, <3>2, <3>3
        <5>2. List(y.writes) /\ Len(y.writes) > 0
          <6>1. List(result) /\ Len(result) > 0
            BY <3>2
          <6> QED
            BY <3>3, <6>1
        <5>3. \A i \in 1..Len(y.writes) :
                y.writes[i].file = ManifestFile => FromBuild(y.writes[i].content, made')
          BY <3>3, <3>4
        <5> QED
          BY <3>3, <5>1, <5>2, <5>3, WritingOK
    <3> HIDE DEF y
    <3> QED
      BY <3>1, <3>5 DEF SInv
  <2> HIDE DEF x, result
  <2> QED
    BY <2>1, <2>2, <2>3, <2>4
<1> HIDE DEF y
<1>5. DOMAIN procs' = Procs /\ \A q \in Procs : ProcessOK(procs'[q], made')
  BY <1>1, <1>4, OthersAlike
<1>6. files[ManifestFile] = Torn \/ FromBuild(files[ManifestFile], made')
  BY <1>4 DEF SInv, FromBuild
<1> QED
  BY <1>1, <1>4, <1>5, <1>6 DEF SInv

\* Touching a file changes of the others only whether they were disturbed.
LEMMA TouchedAlike ==
  ASSUME SInv, NEW p \in Procs, NEW file
  PROVE  /\ DOMAIN Touched(p, file) = Procs /\ Touched(p, file)[p] = procs[p]
         /\ \A q \in Procs \ {p} :
              LET x == procs[q]
                  y == Touched(p, file)[q] IN
              /\ DOMAIN y = DOMAIN x /\ y.kind = x.kind /\ y.stage = x.stage
              /\ y.writes = x.writes /\ y.seen = x.seen /\ y.input = x.input /\ y.unit = x.unit
<1>1. DOMAIN Touched(p, file) = Procs /\ Touched(p, file)[p] = procs[p]
  BY DEF Touched
<1>2. ASSUME NEW q \in Procs \ {p}
      PROVE  LET x == procs[q]
                 y == Touched(p, file)[q] IN
             /\ DOMAIN y = DOMAIN x /\ y.kind = x.kind /\ y.stage = x.stage
             /\ y.writes = x.writes /\ y.seen = x.seen /\ y.input = x.input /\ y.unit = x.unit
  <2> DEFINE x == procs[q]
             c == x.calm /\ ~(Active(q) /\ file \in Uses[x.kind])
             o == x.overlapped \/ HasOpen(q, file)
  <2>1. Touched(p, file)[q] = [x EXCEPT !.calm = c, !.overlapped = o]
    BY DEF Touched
  <2>2. DOMAIN x = DOMAIN NoProcess
    BY DEF SInv, ProcessOK
  <2> HIDE DEF x, c, o
  <2>3. /\ DOMAIN [x EXCEPT !.calm = c, !.overlapped = o] = DOMAIN x
        /\ [x EXCEPT !.calm = c, !.overlapped = o].kind = x.kind
        /\ [x EXCEPT !.calm = c, !.overlapped = o].stage = x.stage
        /\ [x EXCEPT !.calm = c, !.overlapped = o].writes = x.writes
        /\ [x EXCEPT !.calm = c, !.overlapped = o].seen = x.seen
        /\ [x EXCEPT !.calm = c, !.overlapped = o].input = x.input
        /\ [x EXCEPT !.calm = c, !.overlapped = o].unit = x.unit
    BY <2>2 DEF NoProcess
  <2> QED
    BY <2>1, <2>3 DEF x
<1> QED
  BY <1>1, <1>2

LEMMA OpenKeeps ==
  ASSUME SInv, NEW p \in Procs, Open(p)
  PROVE  SInv'
<1> DEFINE x == procs[p]
           file == Head(x.writes).file
           t == Touched(p, file)
           o == \E q \in Procs \ {p} : HasOpen(q, file)
           y == [x EXCEPT !.open = TRUE, !.overlapped = o]
<1>1. /\ x.stage = "writing" /\ files' = [files EXCEPT ![file] = Torn] /\ made' = made
      /\ procs' = [t EXCEPT ![p].open = TRUE, ![p].overlapped = o]
  BY DEF Open
<1>2. /\ DOMAIN t = Procs /\ t[p] = x
      /\ \A q \in Procs \ {p} :
           /\ DOMAIN t[q] = DOMAIN procs[q] /\ t[q].kind = procs[q].kind
           /\ t[q].stage = procs[q].stage /\ t[q].writes = procs[q].writes
           /\ t[q].seen = procs[q].seen
  BY TouchedAlike
<1> HIDE DEF t, o
<1>3. procs' = [t EXCEPT ![p] = y]
  BY <1>1, <1>2
<1>4. ProcessOK(x, made)
  BY DEF SInv
<1>5. ProcessOK(y, made')
  <2>1. DOMAIN x = DOMAIN NoProcess
    BY <1>4 DEF ProcessOK
  <2>2. DOMAIN y = DOMAIN x /\ y.kind = x.kind /\ y.stage = x.stage /\ y.writes = x.writes /\ y.seen = x.seen
    <3> HIDE DEF x
    <3> QED
      BY <2>1 DEF NoProcess
  <2> HIDE DEF x, y
  <2> QED
    BY <1>1, <1>4, <2>2, AlikeOK
<1> HIDE DEF y
<1>6. DOMAIN procs' = Procs /\ procs'[p] = y /\ \A q \in Procs \ {p} : procs'[q] = t[q]
  BY <1>2, <1>3
<1>7. \A q \in Procs : ProcessOK(procs'[q], made')
  BY <1>1, <1>2, <1>5, <1>6, OneSteps
<1>8. /\ ManifestFile \in DOMAIN files'
      /\ files'[ManifestFile] = Torn \/ FromBuild(files'[ManifestFile], made')
  BY <1>1 DEF SInv
<1> QED
  BY <1>1, <1>6, <1>7, <1>8 DEF SInv

LEMMA CloseKeeps ==
  ASSUME SInv, NEW p \in Procs, Close(p)
  PROVE  SInv'
<1> DEFINE x == procs[p]
           write == Head(x.writes)
           left == Tail(x.writes)
           closed == [x EXCEPT !.open = FALSE, !.overlapped = FALSE, !.writes = left]
           t == Touched(p, write.file)
           y == IF left = << >> THEN Onward(closed) ELSE closed
<1>1. /\ x.stage = "writing" /\ made' = made
      /\ \E content \in {write.content, Torn} : files' = [files EXCEPT ![write.file] = content]
      /\ procs' = [t EXCEPT ![p] = y]
  BY DEF Close
<1>2. /\ DOMAIN t = Procs
      /\ \A q \in Procs \ {p} :
           /\ DOMAIN t[q] = DOMAIN procs[q] /\ t[q].kind = procs[q].kind
           /\ t[q].stage = procs[q].stage /\ t[q].writes = procs[q].writes
           /\ t[q].seen = procs[q].seen
  BY TouchedAlike
<1>3. ProcessOK(x, made)
  BY DEF SInv
<1>4. /\ DOMAIN x = DOMAIN NoProcess /\ x.kind \in Kinds /\ x.kind # "serve"
      /\ List(x.writes) /\ Len(x.writes) > 0
      /\ \A i \in 1..Len(x.writes) :
           x.writes[i].file = ManifestFile => FromBuild(x.writes[i].content, made)
  BY <1>1, <1>3 DEF ProcessOK
<1>5. /\ Len(x.writes) \in Nat /\ write = x.writes[1] /\ List(left)
      /\ Len(left) = Len(x.writes) - 1
      /\ \A i \in 1..Len(left) : left[i] = x.writes[i + 1]
      /\ left = << >> <=> Len(left) = 0
  <2>1. Len(x.writes) \in Nat
    <3>1. PICK T : x.writes \in Seq(T)
      BY <1>4, ListType
    <3> QED
      BY <3>1
  <2> QED
    BY <1>4, <2>1, TailIs
<1> HIDE DEF t, write, left
<1>6. /\ DOMAIN closed = DOMAIN NoProcess /\ closed.kind = x.kind
      /\ closed.stage = "writing" /\ closed.writes = left /\ closed.seen = x.seen
  <2>1. x.stage = "writing" /\ DOMAIN x = DOMAIN NoProcess
    BY <1>1, <1>4
  <2> HIDE DEF x
  <2> QED
    BY <2>1 DEF NoProcess
<1>7. ProcessOK(y, made')
  <2> HIDE DEF x, closed
  <2>1. CASE left = << >>
    BY <1>4, <1>6, <2>1, OnwardOK
  <2>2. CASE left # << >>
    <3>1. Len(left) > 0 /\ List(left)
      BY <1>4, <1>5, <2>2
    <3>2. \A i \in 1..Len(left) :
            left[i].file = ManifestFile => FromBuild(left[i].content, made)
      BY <1>4, <1>5
    <3>3. y = closed
      BY <2>2
    <3> HIDE DEF y
    <3> QED
      BY <1>1, <1>4, <1>6, <3>1, <3>2, <3>3 DEF ProcessOK
  <2> QED
    BY <2>1, <2>2
<1> HIDE DEF y
<1>8. DOMAIN procs' = Procs /\ procs'[p] = y /\ \A q \in Procs \ {p} : procs'[q] = t[q]
  BY <1>1, <1>2
<1>9. \A q \in Procs : ProcessOK(procs'[q], made')
  BY <1>1, <1>2, <1>7, <1>8, OneSteps
<1>10. /\ ManifestFile \in DOMAIN files'
       /\ files'[ManifestFile] = Torn \/ FromBuild(files'[ManifestFile], made')
  <2>1. PICK content \in {write.content, Torn} : files' = [files EXCEPT ![write.file] = content]
    BY <1>1
  <2>2. write.file = ManifestFile => FromBuild(write.content, made)
    <3> HIDE DEF x
    <3> QED
      BY <1>4, <1>5
  <2>3. CASE write.file = ManifestFile
    BY <1>1, <2>1, <2>2, <2>3 DEF SInv
  <2>4. CASE write.file # ManifestFile
    BY <1>1, <2>1, <2>4 DEF SInv
  <2> QED
    BY <2>3, <2>4
<1> QED
  BY <1>1, <1>8, <1>9, <1>10 DEF SInv

LEMMA CrashKeeps ==
  ASSUME SInv, NEW p \in Procs, Crash(p)
  PROVE  SInv'
<1>1. procs' = [procs EXCEPT ![p] = NoProcess] /\ files' = files /\ made' = made
  BY DEF Crash
<1>2. ProcessOK(NoProcess, made')
  BY NoProcessOK
<1>3. DOMAIN procs' = Procs /\ \A q \in Procs : ProcessOK(procs'[q], made')
  BY <1>1, <1>2, OthersAlike
<1> QED
  BY <1>1, <1>3 DEF SInv

-----------------------------------------------------------------------------
(* The beginning *)

\* What earlier runs left are the files of one build.
LEMMA LeftIs ==
  ASSUME NEW e \in Earlier
  PROVE  /\ ToSet(SeqMap(SnapshotFile, SixParts)) \subseteq DOMAIN FilesLeft(e)
         /\ \E d : \A i \in 1..6 : FilesLeft(e)[SnapshotFile(SixParts[i])] = SixOf(d)[SixParts[i]]
<1>1. PICK d : SnapshotLeft(e) = SixOf(d)
  BY EarlierAssumption, BuiltIs DEF SnapshotLeft
<1>2. ToSet(SeqMap(SnapshotFile, SixParts)) = {<<SixParts[i]>> : i \in 1..6}
  BY PartsAre DEF ToSet, SeqMap, SnapshotFile
<1>3. ASSUME NEW i \in 1..6
      PROVE  FilesLeft(e)[<<SixParts[i]>>] = SnapshotLeft(e)[SixParts[i]]
  <2> DEFINE f == <<SixParts[i]>>
  <2>1. f \in FileNames
    BY <1>2 DEF FileNames
  <2>2. f[1] = SixParts[i] /\ SixParts[i] \in PartNames
    <3>1. /\ SixParts[1] = "manifest" /\ SixParts[2] = "documents" /\ SixParts[3] = "coverage"
          /\ SixParts[4] = "permission" /\ SixParts[5] = "checksum" /\ SixParts[6] = "validation"
      BY PartsAre
    <3>2. SixParts[i] \in PartNames
      BY <3>1 DEF PartNames
    <3> QED
      BY <3>2
  <2>3. ToSet(SourceOrder) = {"news", "disclosure", "research_report"}
    BY DEF ToSet, SourceOrder
  <2>4. /\ f[1] # "candidates" /\ f[1] \notin ToSet(SourceOrder)
        /\ f # TitleFile /\ f # MarketFile
    BY <2>2, <2>3 DEF PartNames, TitleFile, MarketFile
  <2> HIDE DEF f
  <2>5. FilesLeft(e)[f] = SnapshotLeft(e)[f[1]]
    BY <2>1, <2>4 DEF FilesLeft
  <2> QED
    BY <2>2, <2>5 DEF f
<1>4. DOMAIN FilesLeft(e) = FileNames
  BY DEF FilesLeft
<1> QED
  BY <1>1, <1>3, <1>4 DEF FileNames, SnapshotFile

LEMMA InitSInv == Init => SInv
<1> SUFFICES ASSUME Init PROVE SInv
  OBVIOUS
<1>1. PICK e \in Earlier : Beginning(FilesLeft(e))
  BY DEF Init
<1> DEFINE new == [part \in ToSet(FourParts) |-> FilesLeft(e)[SnapshotFile(part)]]
<1>2. files = FilesLeft(e) /\ made = {new} /\ procs = [p \in Procs |-> NoProcess]
  BY <1>1 DEF Beginning, Init
<1>3. PICK d : \A i \in 1..6 : FilesLeft(e)[SnapshotFile(SixParts[i])] = SixOf(d)[SixParts[i]]
  BY LeftIs
<1>4. \A part \in ToSet(FourParts) : new[part] = SixOf(d)[part]
  <2>1. \A part \in ToSet(FourParts) : \E i \in 1..6 : part = SixParts[i]
    BY PartsAre DEF ToSet
  <2> QED
    BY <1>3, <2>1
<1>5. Whole(new)
  <2> HIDE DEF new
  <2> QED
    BY <1>4, SixWhole
<1>6. ManifestFile \in DOMAIN files
  <2>1. ManifestFile \in ToSet(SeqMap(SnapshotFile, SixParts))
    BY PartsAre DEF ToSet, SeqMap, ManifestFile
  <2> QED
    BY <1>2, <2>1, LeftIs
<1>7. files[ManifestFile] = new["manifest"]
  BY <1>2, PartsAre DEF ManifestFile
<1>8. FromBuild(files[ManifestFile], made)
  <2> HIDE DEF new
  <2> QED
    BY <1>2, <1>7 DEF FromBuild
<1>9. \A p \in Procs : ProcessOK(procs[p], made)
  BY <1>2, NoProcessOK
<1> HIDE DEF new
<1> QED
  BY <1>2, <1>5, <1>6, <1>8, <1>9 DEF SInv

LEMMA StepSInv == SInv /\ [Next]_fileVars => SInv'
<1> SUFFICES ASSUME SInv, [Next]_fileVars PROVE SInv'
  OBVIOUS
<1>1. CASE Next
  <2>1. PICK p \in Procs : Start(p) \/ Read(p) \/ Compute(p) \/ Open(p) \/ Close(p) \/ Crash(p)
    BY <1>1 DEF Next
  <2> QED
    BY <2>1, StartKeeps, ReadKeeps, ComputeKeeps, OpenKeeps, CloseKeeps, CrashKeeps
<1>2. CASE UNCHANGED fileVars
  BY <1>2 DEF fileVars, SInv
<1> QED
  BY <1>1, <1>2

-----------------------------------------------------------------------------
(* Where the files come from *)

\* What a file holds came about as the scripts make it.
Genuine(f, c) ==
  /\ \A s \in Companies : /\ f = CandidateFile(s) => Harvested(s, c)
                          /\ f = SourceFile("news", s) => Curated(s, c)
                          /\ f = SourceFile("research_report", s) => Reported(s, c)
  /\ f = TitleFile => \E h \in DOMAIN Searches : c = CollectTitles(Searches[h]) /\ c # Invalid
  /\ f = MarketFile => \E x \in DOMAIN Feeds : c = CollectMarket(Feeds[x]) /\ c # Invalid

\* So did what a snapshot was built of.
GenuineBuild(m) ==
  \E sources : /\ GenuineSources(sources) /\ BuildService(sources) # Invalid
               /\ m["documents"] = BuildService(sources).documents

\* A process was given what there is, and has read, writes and serves files that came
\* about so.
GenuineProcess(x) ==
  /\ x.stage \in {"reading", "writing"} => x.input \in Inputs(x.kind)
  /\ x.stage = "reading" =>
       \A i \in 1..Len(x.seen) : Genuine(Reads(x.kind, Units(x.kind)[x.unit])[i], x.seen[i])
  /\ x.stage = "writing" =>
       \A i \in 1..Len(x.writes) : Genuine(x.writes[i].file, x.writes[i].content)
  /\ x.stage = "serving" => Genuine(TitleFile, x.seen[11]) /\ Genuine(MarketFile, x.seen[12])

GInv ==
  /\ SInv
  /\ DOMAIN files = FileNames
  /\ \A f \in FileNames : files[f] = Torn \/ Genuine(f, files[f])
  /\ \A m \in made : GenuineBuild(m)
  /\ \A p \in Procs : GenuineProcess(procs[p])

\* The files of a source, and which they are.
LEMMA SourceFilesAre ==
  /\ List(SourceFiles)
  /\ \A type \in {"news", "disclosure", "research_report"}, s \in Companies :
       \E k \in DOMAIN SourceFiles : SourceFiles[k] = SourceFile(type, s)
<1>1. SourceFiles = BuildOrder
  BY DEF SourceFiles, BuildOrder, SourceFile
<1> QED
  BY <1>1, BuildOrderIs DEF SourceFile

\* No other file matters.
LEMMA OtherFiles ==
  ASSUME NEW f, f \notin FileNames, NEW c
  PROVE  Genuine(f, c)
<1>1. ASSUME NEW s \in Companies
      PROVE  /\ CandidateFile(s) \in FileNames /\ SourceFile("news", s) \in FileNames
             /\ SourceFile("research_report", s) \in FileNames
  <2>1. CandidateFile(s) \in FileNames
    BY DEF FileNames
  <2>2. ASSUME NEW type \in {"news", "disclosure", "research_report"}
        PROVE  SourceFile(type, s) \in FileNames
    <3>1. SourceFile(type, s) \in ToSet(SourceFiles)
      BY SourceFilesAre DEF ToSet
    <3> QED
      BY <3>1 DEF FileNames
  <2> QED
    BY <2>1, <2>2
<1>2. TitleFile \in FileNames /\ MarketFile \in FileNames
  BY DEF FileNames
<1> QED
  BY <1>1, <1>2 DEF Genuine

\* Which files are which.
LEMMA FilesDiffer ==
  ASSUME NEW s, NEW t
  PROVE  /\ CandidateFile(s) # SourceFile("news", t) /\ CandidateFile(s) # SourceFile("research_report", t)
         /\ CandidateFile(s) # SourceFile("disclosure", t)
         /\ CandidateFile(s) # TitleFile /\ CandidateFile(s) # MarketFile
         /\ SourceFile("news", s) # SourceFile("research_report", t)
         /\ SourceFile("disclosure", s) # SourceFile("news", t)
         /\ SourceFile("disclosure", s) # SourceFile("research_report", t)
         /\ \A type : SourceFile(type, s) # TitleFile /\ SourceFile(type, s) # MarketFile
         /\ TitleFile # MarketFile
         /\ CandidateFile(s) = CandidateFile(t) => s = t
         /\ \A type : SourceFile(type, s) = SourceFile(type, t) => s = t
<1>1. /\ CandidateFile(s) # SourceFile("news", t) /\ CandidateFile(s) # SourceFile("research_report", t)
      /\ CandidateFile(s) # SourceFile("disclosure", t)
      /\ SourceFile("news", s) # SourceFile("research_report", t)
      /\ SourceFile("disclosure", s) # SourceFile("news", t)
      /\ SourceFile("disclosure", s) # SourceFile("research_report", t)
      /\ TitleFile # MarketFile
      /\ CandidateFile(s) = CandidateFile(t) => s = t
  BY DEF CandidateFile, SourceFile, TitleFile, MarketFile
<1>2. ASSUME NEW type
      PROVE  /\ SourceFile(type, s) # TitleFile /\ SourceFile(type, s) # MarketFile
             /\ SourceFile(type, s) = SourceFile(type, t) => s = t
  BY DEF SourceFile, TitleFile, MarketFile
<1>3. CandidateFile(s) # TitleFile /\ CandidateFile(s) # MarketFile
  BY DEF CandidateFile, TitleFile, MarketFile
<1> QED
  BY <1>1, <1>2, <1>3

LEMMA SnapshotFilesDiffer ==
  ASSUME NEW part \in PartNames, NEW c
  PROVE  Genuine(SnapshotFile(part), c)
<1>1. \A s : /\ SnapshotFile(part) # CandidateFile(s) /\ SnapshotFile(part) # SourceFile("news", s)
             /\ SnapshotFile(part) # SourceFile("research_report", s)
  BY DEF SnapshotFile, CandidateFile, SourceFile
<1>2. part # "titles" /\ part # "market"
  BY DEF PartNames
<1>3. SnapshotFile(part) # TitleFile /\ SnapshotFile(part) # MarketFile
  BY <1>2 DEF SnapshotFile, TitleFile, MarketFile
<1> QED
  BY <1>1, <1>3 DEF Genuine

\* What a script was given is there.
LEMMA GivenIs ==
  /\ \A h \in Inputs("harvest") : h \in DOMAIN Harvests
  /\ \A h \in Inputs("titles") : h \in DOMAIN Searches
  /\ \A x \in Inputs("market") : x \in DOMAIN Feeds
  /\ \A x \in Inputs("report") : x \in DOMAIN Papers
BY InputsAssumption

\* The sources that a build has read.
LEMMA ReadSources ==
  ASSUME NEW seen, \A i \in DOMAIN SourceFiles : Genuine(SourceFiles[i], seen[i])
  PROVE  GenuineSources(Sources(seen))
<1>1. ASSUME NEW type \in {"news", "disclosure", "research_report"}, NEW s \in Companies
      PROVE  Genuine(SourceFile(type, s), Sources(seen)[<<type, s>>])
  <2> DEFINE k == SourceFile(type, s)
             i == CHOOSE j \in DOMAIN SourceFiles : SourceFiles[j] = k
  <2>1. i \in DOMAIN SourceFiles /\ SourceFiles[i] = k
    BY SourceFilesAre
  <2>2. k \in ToSet(SourceFiles)
    BY SourceFilesAre DEF ToSet
  <2>3. Sources(seen)[k] = seen[i]
    BY <2>2 DEF Sources
  <2>4. k = <<type, s>>
    BY DEF SourceFile
  <2> HIDE DEF i
  <2> QED
    BY <2>1, <2>3, <2>4
<1>2. ASSUME NEW s \in Companies
      PROVE  /\ Curated(s, Sources(seen)[<<"news", s>>])
             /\ Reported(s, Sources(seen)[<<"research_report", s>>])
  <2>1. /\ Genuine(SourceFile("news", s), Sources(seen)[<<"news", s>>])
        /\ Genuine(SourceFile("research_report", s), Sources(seen)[<<"research_report", s>>])
    BY <1>1
  <2> QED
    BY <2>1 DEF Genuine
<1> QED
  BY <1>2 DEF GenuineSources

\* One file to be written.
LEMMA WritingGenuine ==
  ASSUME NEW f, NEW c, NEW w, w = Writing(f, c), w # Invalid, c # Invalid => Genuine(f, c)
  PROVE  \A i \in 1..Len(w) : Genuine(w[i].file, w[i].content)
<1>1. w = <<[file |-> f, content |-> c]>> /\ c # Invalid
  BY DEF Writing
<1>2. Len(w) = 1 /\ w[1].file = f /\ w[1].content = c
  BY <1>1
<1>3. \A i \in 1..Len(w) : i = 1
  BY <1>2
<1> HIDE DEF Genuine
<1> QED
  BY <1>1, <1>2, <1>3

\* What a script comes to write, of what it was given and has read.
LEMMA ResultGenuine ==
  ASSUME NEW kind \in Kinds \ {"build"}, NEW unit, NEW input \in Inputs(kind), NEW seen, NEW w,
         w = Result(kind, unit, input, seen), w # Invalid, w # << >>,
         kind = "curate" => Genuine(CandidateFile(unit), seen[1])
  PROVE  \A i \in 1..Len(w) : Genuine(w[i].file, w[i].content)
<1>1. CASE kind = "harvest"
  <2> DEFINE c == Harvest(unit, Harvests[input][unit])
  <2>1. w = Writing(CandidateFile(unit), c)
    BY <1>1 DEF Result
  <2>2. input \in DOMAIN Harvests
    BY <1>1, GivenIs
  <2>3. c # Invalid => Harvested(unit, c)
    BY <2>2 DEF Harvested
  <2> HIDE DEF c
  <2>4. c # Invalid => Genuine(CandidateFile(unit), c)
    BY <2>3, FilesDiffer DEF Genuine
  <2> QED
    BY <2>1, <2>4, WritingGenuine
<1>2. CASE kind = "curate"
  <2> DEFINE c == CurateNews(unit, seen[1])
  <2>1. w = Writing(SourceFile("news", unit), c)
    BY <1>2 DEF Result
  <2>2. ASSUME unit \in Companies, c # Invalid PROVE Curated(unit, c)
    <3>1. Harvested(unit, seen[1])
      BY <1>2, <2>2 DEF Genuine
    <3>2. PICK h \in DOMAIN Harvests : seen[1] = Harvest(unit, Harvests[h][unit])
      BY <3>1 DEF Harvested
    <3>3. Harvest(unit, Harvests[h][unit]) # Invalid
      BY <3>1, <3>2 DEF Harvested
    <3>4. c = CurateNews(unit, Harvest(unit, Harvests[h][unit]))
      BY <3>2
    <3> HIDE DEF c
    <3> QED
      BY <2>2, <3>3, <3>4 DEF Curated
  <2> HIDE DEF c
  <2>3. c # Invalid => Genuine(SourceFile("news", unit), c)
    BY <2>2, FilesDiffer DEF Genuine
  <2> QED
    BY <2>1, <2>3, WritingGenuine
<1>3. CASE kind = "file"
  <2> DEFINE c == CurateDisclosure(unit, Inquiries[input][unit])
  <2>1. w = Writing(SourceFile("disclosure", unit), c)
    BY <1>3 DEF Result
  <2> HIDE DEF c
  <2>2. Genuine(SourceFile("disclosure", unit), c)
    BY FilesDiffer DEF Genuine
  <2> QED
    BY <2>1, <2>2, WritingGenuine
<1>4. CASE kind = "report"
  <2> DEFINE c == CurateReport(unit, Papers[input][unit])
  <2>1. w = Writing(SourceFile("research_report", unit), c)
    BY <1>4 DEF Result
  <2>2. input \in DOMAIN Papers
    BY <1>4, GivenIs
  <2>3. c # Invalid => Reported(unit, c)
    BY <2>2 DEF Reported
  <2> HIDE DEF c
  <2>4. c # Invalid => Genuine(SourceFile("research_report", unit), c)
    BY <2>3, FilesDiffer DEF Genuine
  <2> QED
    BY <2>1, <2>4, WritingGenuine
<1>5. CASE kind = "titles"
  <2> DEFINE c == CollectTitles(Searches[input])
  <2>1. w = Writing(TitleFile, c)
    BY <1>5 DEF Result
  <2>2. input \in DOMAIN Searches
    BY <1>5, GivenIs
  <2>3. c # Invalid => Genuine(TitleFile, c)
    BY <2>2, FilesDiffer DEF Genuine
  <2> HIDE DEF c
  <2> QED
    BY <2>1, <2>3, WritingGenuine
<1>6. CASE kind = "market"
  <2> DEFINE c == CollectMarket(Feeds[input])
  <2>1. w = Writing(MarketFile, c)
    BY <1>6 DEF Result
  <2>2. input \in DOMAIN Feeds
    BY <1>6, GivenIs
  <2>3. c # Invalid => Genuine(MarketFile, c)
    BY <2>2, FilesDiffer DEF Genuine
  <2> HIDE DEF c
  <2> QED
    BY <2>1, <2>3, WritingGenuine
<1>7. CASE kind = "serve"
  BY <1>7 DEF Result, Started
<1> QED
  BY <1>1, <1>2, <1>3, <1>4, <1>5, <1>6, <1>7 DEF Kinds

\* What earlier runs left came about as the scripts make it.
LEMMA LeftSources ==
  ASSUME NEW h \in DOMAIN Harvests, NEW inquiry, NEW x \in DOMAIN Papers, NEW s \in Companies,
         Harvest(s, Harvests[h][s]) # Invalid
  PROVE  /\ SourcesLeft(h, inquiry, x)[<<"news", s>>] # Invalid =>
              Curated(s, SourcesLeft(h, inquiry, x)[<<"news", s>>])
         /\ SourcesLeft(h, inquiry, x)[<<"research_report", s>>] # Invalid =>
              Reported(s, SourcesLeft(h, inquiry, x)[<<"research_report", s>>])
<1>1. ASSUME NEW type \in {"news", "disclosure", "research_report"}
      PROVE  <<type, s>> \in ToSet(SourceFiles)
  BY SourceFilesAre DEF ToSet, SourceFile
<1>2. SourcesLeft(h, inquiry, x)[<<"news", s>>] = CurateNews(s, Harvest(s, Harvests[h][s]))
  <2> DEFINE k == <<"news", s>>
  <2>1. k \in ToSet(SourceFiles) /\ k[1] = "news" /\ k[2] = s
    BY <1>1
  <2> HIDE DEF k
  <2>2. SourcesLeft(h, inquiry, x)[k] = CurateNews(k[2], Harvest(k[2], Harvests[h][k[2]]))
    BY <2>1 DEF SourcesLeft
  <2> QED
    BY <2>1, <2>2 DEF k
<1>3. SourcesLeft(h, inquiry, x)[<<"research_report", s>>] = CurateReport(s, Papers[x][s])
  <2> DEFINE k == <<"research_report", s>>
  <2>1. k \in ToSet(SourceFiles) /\ k[1] = "research_report" /\ k[2] = s
    BY <1>1
  <2> HIDE DEF k
  <2>2. SourcesLeft(h, inquiry, x)[k] = CurateReport(k[2], Papers[x][k[2]])
    BY <2>1 DEF SourcesLeft
  <2> QED
    BY <2>1, <2>2 DEF k
<1> QED
  BY <1>2, <1>3 DEF Curated, Reported

LEMMA LeftGenuine ==
  ASSUME NEW e \in Earlier, NEW f \in FileNames
  PROVE  Genuine(f, FilesLeft(e)[f])
<1> DEFINE c == FilesLeft(e)[f]
<1>1. /\ e.harvest \in DOMAIN Harvests /\ e.curated \in DOMAIN Harvests
      /\ e.search \in DOMAIN Searches /\ e.feed \in DOMAIN Feeds /\ e.paper \in DOMAIN Papers
  BY InputsAssumption
<1>2. c # Invalid /\ \A s \in Companies : Harvest(s, Harvests[e.curated][s]) # Invalid
  BY EarlierAssumption
<1>3. c = CASE f[1] = "candidates" -> Harvest(f[2], Harvests[e.harvest][f[2]])
            [] f[1] \in ToSet(SourceOrder) -> SourcesLeft(e.curated, e.filed, e.paper)[f]
            [] f = TitleFile -> CollectTitles(Searches[e.search])
            [] f = MarketFile -> CollectMarket(Feeds[e.feed])
            [] OTHER -> SnapshotLeft(e)[f[1]]
  BY DEF FilesLeft
<1>4. ToSet(SourceOrder) = {"news", "disclosure", "research_report"}
  BY DEF ToSet, SourceOrder
<1> HIDE DEF c
<1>5. ASSUME NEW s \in Companies, f = CandidateFile(s) PROVE Harvested(s, c)
  <2>1. f[1] = "candidates" /\ f[2] = s /\ f # TitleFile /\ f # MarketFile
    BY <1>5, FilesDiffer DEF CandidateFile
  <2>2. c = Harvest(s, Harvests[e.harvest][s])
    BY <1>3, <1>4, <2>1
  <2> QED
    BY <1>1, <1>2, <2>2 DEF Harvested
<1>6. ASSUME NEW type \in {"news", "disclosure", "research_report"}, NEW s \in Companies,
             f = SourceFile(type, s)
      PROVE  c = SourcesLeft(e.curated, e.filed, e.paper)[<<type, s>>]
  <2>1. f[1] = type /\ f = <<type, s>>
    BY <1>6 DEF SourceFile
  <2>2. type \in ToSet(SourceOrder) /\ type # "candidates" /\ f # TitleFile /\ f # MarketFile
    BY <1>4, <2>1 DEF TitleFile, MarketFile
  <2>3. c = SourcesLeft(e.curated, e.filed, e.paper)[f]
    BY <1>3, <2>1, <2>2
  <2> QED
    BY <2>1, <2>3
<1>7. ASSUME NEW s \in Companies, f = SourceFile("news", s) PROVE Curated(s, c)
  <2>1. c = SourcesLeft(e.curated, e.filed, e.paper)[<<"news", s>>]
    BY <1>6, <1>7
  <2> QED
    BY <1>1, <1>2, <2>1, LeftSources
<1>8. ASSUME NEW s \in Companies, f = SourceFile("research_report", s) PROVE Reported(s, c)
  <2>1. c = SourcesLeft(e.curated, e.filed, e.paper)[<<"research_report", s>>]
    BY <1>6, <1>8
  <2> QED
    BY <1>1, <1>2, <2>1, LeftSources
<1>9. ASSUME f = TitleFile PROVE c = CollectTitles(Searches[e.search])
  <2>1. f[1] = "titles" /\ f # MarketFile
    BY <1>9, FilesDiffer DEF TitleFile
  <2> QED
    BY <1>3, <1>4, <1>9, <2>1
<1>10. ASSUME f = MarketFile PROVE c = CollectMarket(Feeds[e.feed])
  <2>1. f[1] = "market" /\ f # TitleFile
    BY <1>10, FilesDiffer DEF MarketFile
  <2> QED
    BY <1>3, <1>4, <1>10, <2>1
<1>11. Genuine(f, c)
  BY <1>1, <1>2, <1>5, <1>7, <1>8, <1>9, <1>10 DEF Genuine
<1> QED
  BY <1>11 DEF c

LEMMA InitGInv == Init => GInv
<1> SUFFICES ASSUME Init PROVE GInv
  OBVIOUS
<1>1. PICK e \in Earlier : Beginning(FilesLeft(e))
  BY DEF Init
<1> DEFINE new == [part \in ToSet(FourParts) |-> FilesLeft(e)[SnapshotFile(part)]]
           sources == SourcesLeft(e.builtOf, e.builtWith, e.paper)
<1>2. files = FilesLeft(e) /\ made = {new} /\ procs = [p \in Procs |-> NoProcess]
  BY <1>1 DEF Beginning, Init
<1>3. SInv
  BY InitSInv
<1>4. DOMAIN files = FileNames /\ \A f \in FileNames : Genuine(f, files[f])
  <2>1. DOMAIN files = FileNames
    BY <1>2 DEF FilesLeft
  <2> QED
    BY <1>2, <2>1, LeftGenuine
<1>5. GenuineBuild(new)
  <2>1. BuildService(sources) # Invalid
    BY EarlierAssumption DEF SnapshotLeft
  <2>2. GenuineSources(sources)
    <3>1. ASSUME NEW s \in Companies
          PROVE  Curated(s, sources[<<"news", s>>]) /\ Reported(s, sources[<<"research_report", s>>])
      <4>1. e.builtOf \in DOMAIN Harvests /\ e.paper \in DOMAIN Papers
        BY InputsAssumption
      <4>2. Harvest(s, Harvests[e.builtOf][s]) # Invalid
        BY EarlierAssumption
      <4>3. <<"news", s>> \in ToSet(SourceFiles) /\ <<"research_report", s>> \in ToSet(SourceFiles)
        BY SourceFilesAre DEF ToSet, SourceFile
      <4>4. sources[<<"news", s>>] # Invalid /\ sources[<<"research_report", s>>] # Invalid
        BY <4>3, EarlierAssumption
      <4> QED
        BY <4>1, <4>2, <4>4, LeftSources
    <3> HIDE DEF sources
    <3> QED
      BY <3>1 DEF GenuineSources
  <2>3. new["documents"] = BuildService(sources).documents
    <3> DEFINE f == SnapshotFile("documents")
    <3>1. "documents" \in ToSet(FourParts)
      BY PartsAre
    <3>2. new["documents"] = FilesLeft(e)[f]
      BY <3>1
    <3>3. f[1] = "documents" /\ f # TitleFile /\ f # MarketFile
      BY DEF SnapshotFile, TitleFile, MarketFile
    <3>4. ToSet(SourceOrder) = {"news", "disclosure", "research_report"}
      BY DEF ToSet, SourceOrder
    <3>5. f \in FileNames
      <4>1. SixParts[2] = "documents" /\ 2 \in DOMAIN SixParts
        BY PartsAre
      <4>2. f \in ToSet(SeqMap(SnapshotFile, SixParts))
        BY <4>1 DEF ToSet, SeqMap
      <4> QED
        BY <4>2 DEF FileNames
    <3> HIDE DEF f, new
    <3>6. FilesLeft(e)[f] = SnapshotLeft(e)["documents"]
      BY <3>3, <3>4, <3>5 DEF FilesLeft
    <3> QED
      BY <3>2, <3>6 DEF SnapshotLeft
  <2> HIDE DEF sources, new
  <2> QED
    BY <2>1, <2>2, <2>3 DEF GenuineBuild
<1>6. ASSUME NEW p \in Procs PROVE GenuineProcess(procs[p])
  <2>1. procs[p].stage = "idle"
    BY <1>2 DEF NoProcess
  <2> QED
    BY <2>1 DEF GenuineProcess
<1> HIDE DEF new
<1> QED
  BY <1>2, <1>3, <1>4, <1>5, <1>6 DEF GInv

\* A step of p that leaves to the others what they were given, read and write.
LEMMA OthersGenuine ==
  ASSUME GInv, NEW p \in Procs, GenuineProcess(procs'[p]),
         \A q \in Procs \ {p} :
           /\ procs'[q].kind = procs[q].kind /\ procs'[q].stage = procs[q].stage
           /\ procs'[q].writes = procs[q].writes /\ procs'[q].seen = procs[q].seen
           /\ procs'[q].input = procs[q].input /\ procs'[q].unit = procs[q].unit
  PROVE  \A q \in Procs : GenuineProcess(procs'[q])
<1>1. ASSUME NEW q \in Procs, q # p PROVE GenuineProcess(procs'[q])
  <2>1. GenuineProcess(procs[q])
    BY DEF GInv
  <2>2. /\ procs'[q].kind = procs[q].kind /\ procs'[q].stage = procs[q].stage
        /\ procs'[q].writes = procs[q].writes /\ procs'[q].seen = procs[q].seen
        /\ procs'[q].input = procs[q].input /\ procs'[q].unit = procs[q].unit
    BY <1>1
  <2> QED
    BY <2>1, <2>2 DEF GenuineProcess
<1> QED
  BY <1>1

LEMMA OneGenuine ==
  ASSUME GInv, NEW p \in Procs, NEW y, procs' = [procs EXCEPT ![p] = y], GenuineProcess(y)
  PROVE  \A q \in Procs : GenuineProcess(procs'[q])
<1>1. DOMAIN procs = Procs
  BY DEF GInv, SInv
<1>2. procs'[p] = y /\ \A q \in Procs \ {p} : procs'[q] = procs[q]
  BY <1>1
<1> QED
  BY <1>2, OthersGenuine

\* A process that is idle or refused, or about to read.
LEMMA RestGenuine ==
  ASSUME NEW x, \/ x.stage \in {"idle", "refused"}
                \/ x.stage = "reading" /\ x.seen = << >> /\ x.input \in Inputs(x.kind)
  PROVE  GenuineProcess(x)
<1>1. Len(<< >>) = 0
  OBVIOUS
<1> QED
  BY <1>1 DEF GenuineProcess

LEMMA OnwardGenuine ==
  ASSUME NEW x, DOMAIN x = DOMAIN NoProcess, x.input \in Inputs(x.kind),
         x.kind = "serve" => Genuine(TitleFile, x.seen[11]) /\ Genuine(MarketFile, x.seen[12])
  PROVE  GenuineProcess(Onward(x))
<1>1. CASE x.unit < Len(Units(x.kind))
  <2> DEFINE y == [x EXCEPT !.stage = "reading", !.unit = @ + 1, !.seen = << >>]
  <2>1. Onward(x) = y
    BY <1>1 DEF Onward
  <2>2. y.kind = x.kind /\ y.stage = "reading" /\ y.seen = << >> /\ y.input = x.input
    BY DEF NoProcess
  <2> HIDE DEF y
  <2> QED
    BY <2>1, <2>2, RestGenuine
<1>2. CASE ~(x.unit < Len(Units(x.kind))) /\ x.kind = "serve"
  <2> DEFINE y == [x EXCEPT !.stage = "serving"]
  <2>1. Onward(x) = y
    BY <1>2 DEF Onward
  <2>2. y.stage = "serving" /\ y.seen = x.seen
    BY DEF NoProcess
  <2> HIDE DEF y
  <2> QED
    BY <1>2, <2>1, <2>2 DEF GenuineProcess
<1>3. CASE ~(x.unit < Len(Units(x.kind))) /\ x.kind # "serve"
  <2>1. Onward(x) = NoProcess /\ NoProcess.stage = "idle"
    BY <1>3 DEF Onward, NoProcess
  <2> QED
    BY <2>1, RestGenuine
<1> QED
  BY <1>1, <1>2, <1>3

LEMMA StartGenuine ==
  ASSUME GInv, NEW p \in Procs, Start(p)
  PROVE  GInv'
<1>1. PICK kind \in Kinds : \E input \in Inputs(kind) :
        procs' = [procs EXCEPT ![p] =
                    [NoProcess EXCEPT !.kind = kind, !.stage = "reading", !.input = input,
                                      !.unit = 1, !.calm = Undisturbed(kind)]]
  BY DEF Start
<1>2. PICK input \in Inputs(kind) :
        procs' = [procs EXCEPT ![p] =
                    [NoProcess EXCEPT !.kind = kind, !.stage = "reading", !.input = input,
                                      !.unit = 1, !.calm = Undisturbed(kind)]]
  BY <1>1
<1> DEFINE y == [NoProcess EXCEPT !.kind = kind, !.stage = "reading", !.input = input,
                                  !.unit = 1, !.calm = Undisturbed(kind)]
<1>3. y.kind = kind /\ y.stage = "reading" /\ y.seen = << >> /\ y.input = input
  BY DEF NoProcess
<1>4. procs' = [procs EXCEPT ![p] = y] /\ files' = files /\ made' = made
  BY <1>2 DEF Start
<1> HIDE DEF y
<1>5. GenuineProcess(y)
  BY <1>3, RestGenuine
<1>6. \A q \in Procs : GenuineProcess(procs'[q])
  BY <1>4, <1>5, OneGenuine
<1>7. SInv'
  BY StartKeeps DEF GInv
<1> QED
  BY <1>4, <1>6, <1>7 DEF GInv

\* One more item.
LEMMA AppendItems ==
  ASSUME NEW s, List(s), NEW c
  PROVE  /\ Len(s) \in Nat /\ Len(Append(s, c)) = Len(s) + 1
         /\ Append(s, c)[Len(s) + 1] = c /\ \A i \in 1..Len(s) : Append(s, c)[i] = s[i]
<1>1. PICK T : s \in Seq(T)
  BY ListType
<1>2. s \in Seq(T \cup {c}) /\ c \in T \cup {c}
  BY <1>1
<1> QED
  BY <1>2

LEMMA ReadGenuine ==
  ASSUME GInv, NEW p \in Procs, Read(p)
  PROVE  GInv'
<1> DEFINE x == procs[p]
           f == ToRead(p)[Len(x.seen) + 1]
           content == files[f]
           y == IF content = Torn THEN [x EXCEPT !.stage = "refused"]
                ELSE [x EXCEPT !.seen = Append(x.seen, content)]
<1>1. /\ x.stage = "reading" /\ files' = files /\ made' = made
      /\ procs' = IF content = Torn THEN [procs EXCEPT ![p].stage = "refused"]
                  ELSE [procs EXCEPT ![p].seen = Append(x.seen, content)]
  BY DEF Read
<1>2. ProcessOK(x, made) /\ GenuineProcess(x)
  BY DEF GInv, SInv
<1>3. procs' = [procs EXCEPT ![p] = y]
  BY <1>1
<1>4. GenuineProcess(y)
  <2>0. DOMAIN x = DOMAIN NoProcess /\ List(x.seen)
    BY <1>1, <1>2 DEF ProcessOK
  <2>1. CASE content = Torn
    <3>1. y.stage = "refused"
      BY <2>0, <2>1 DEF NoProcess
    <3> HIDE DEF y
    <3> QED
      BY <3>1, RestGenuine
  <2>2. CASE content # Torn
    <3>1. /\ y.kind = x.kind /\ y.stage = "reading" /\ y.input = x.input /\ y.unit = x.unit
          /\ y.seen = Append(x.seen, content)
      BY <1>1, <2>0, <2>2 DEF NoProcess
    <3>2. Genuine(f, content)
      <4> HIDE DEF f
      <4> QED
        BY <2>2, OtherFiles DEF GInv
    <3>3. /\ x.input \in Inputs(x.kind)
          /\ \A i \in 1..Len(x.seen) : Genuine(Reads(x.kind, Units(x.kind)[x.unit])[i], x.seen[i])
      BY <1>1, <1>2 DEF GenuineProcess
    <3>4. f = Reads(x.kind, Units(x.kind)[x.unit])[Len(x.seen) + 1]
      BY DEF ToRead, Unit
    <3>5. /\ Len(x.seen) \in Nat /\ Len(y.seen) = Len(x.seen) + 1
          /\ y.seen[Len(x.seen) + 1] = content /\ \A i \in 1..Len(x.seen) : y.seen[i] = x.seen[i]
      <4> HIDE DEF y, content, x
      <4> QED
        BY <2>0, <3>1, AppendItems
    <3> HIDE DEF y, content, x, f
    <3>6. ASSUME NEW i \in 1..Len(y.seen)
          PROVE  Genuine(Reads(y.kind, Units(y.kind)[y.unit])[i], y.seen[i])
      <4>1. CASE i = Len(x.seen) + 1
        BY <3>1, <3>2, <3>4, <3>5, <4>1
      <4>2. CASE i # Len(x.seen) + 1
        <5>1. i \in 1..Len(x.seen)
          BY <3>5, <4>2
        <5> QED
          BY <3>1, <3>3, <3>5, <5>1
      <4> QED
        BY <4>1, <4>2
    <3> QED
      BY <3>1, <3>3, <3>6 DEF GenuineProcess
  <2> QED
    BY <2>1, <2>2
<1> HIDE DEF y
<1>5. \A q \in Procs : GenuineProcess(procs'[q])
  BY <1>3, <1>4, OneGenuine
<1>6. SInv'
  BY ReadKeeps DEF GInv
<1> QED
  BY <1>1, <1>5, <1>6 DEF GInv

LEMMA CrashGenuine ==
  ASSUME GInv, NEW p \in Procs, Crash(p)
  PROVE  GInv'
<1>1. procs' = [procs EXCEPT ![p] = NoProcess] /\ files' = files /\ made' = made
  BY DEF Crash
<1>2. GenuineProcess(NoProcess)
  <2>1. NoProcess.stage = "idle"
    BY DEF NoProcess
  <2> QED
    BY <2>1, RestGenuine
<1>3. \A q \in Procs : GenuineProcess(procs'[q])
  BY <1>1, <1>2, OneGenuine
<1>4. SInv'
  BY CrashKeeps DEF GInv
<1> QED
  BY <1>1, <1>3, <1>4 DEF GInv

LEMMA ComputeGenuine ==
  ASSUME GInv, NEW p \in Procs, Compute(p)
  PROVE  GInv'
<1> DEFINE x == procs[p]
           result == Result(x.kind, Unit(p), x.input, x.seen)
           new == [part \in ToSet(FourParts) |->
                     result[CHOOSE i \in DOMAIN SixParts : SixParts[i] = part].content]
           y == IF result = Invalid THEN [x EXCEPT !.stage = "refused"]
                ELSE IF result = << >> THEN Onward(x)
                ELSE [x EXCEPT !.stage = "writing", !.writes = result, !.seen = << >>]
<1>1. /\ x.stage = "reading" /\ Len(x.seen) = Len(ToRead(p)) /\ files' = files
      /\ procs' = [procs EXCEPT ![p] = y]
      /\ made' = IF x.kind = "build" /\ result # Invalid THEN made \cup {new} ELSE made
  BY DEF Compute, Arrived
<1>2. SInv' /\ SInv
  BY ComputeKeeps DEF GInv
<1>3. ProcessOK(x, made) /\ GenuineProcess(x)
  BY DEF GInv, SInv
<1>4. x.kind \in Kinds /\ DOMAIN x = DOMAIN NoProcess /\ List(x.seen) /\ Len(x.seen) \in Nat
  <2>1. x.kind \in Kinds /\ DOMAIN x = DOMAIN NoProcess /\ List(x.seen)
    BY <1>1, <1>3 DEF ProcessOK
  <2> HIDE DEF x
  <2> QED
    BY <2>1, AppendItems
<1>5. /\ x.input \in Inputs(x.kind)
      /\ \A i \in 1..Len(x.seen) : Genuine(ToRead(p)[i], x.seen[i])
  BY <1>1, <1>3 DEF GenuineProcess, ToRead, Unit
<1> HIDE DEF x
<1>6. GenuineProcess(y) /\ \A m \in made' : GenuineBuild(m)
  <2>1. CASE result = Invalid
    <3>1. y.stage = "refused" /\ made' = made
      BY <1>1, <1>4, <2>1 DEF NoProcess
    <3> HIDE DEF y
    <3> QED
      BY <3>1, RestGenuine DEF GInv
  <2>2. CASE result # Invalid /\ x.kind = "build"
    <3> DEFINE sources == Sources(x.seen)
               built == BuildService(sources)
    <3>1. result = BuiltFiles(built)
      BY <2>2 DEF Result
    <3>2. built # Invalid
      BY <2>2, <3>1 DEF BuiltFiles
    <3>3. ToRead(p) = SourceFiles
      BY <2>2 DEF ToRead, Reads, x
    <3>4. GenuineSources(sources)
      <4>1. DOMAIN SourceFiles = 1..Len(SourceFiles)
        BY SourceFilesAre DEF List
      <4>2. \A i \in DOMAIN SourceFiles : Genuine(SourceFiles[i], x.seen[i])
        BY <1>1, <1>5, <3>3, <4>1
      <4> QED
        BY <4>2, ReadSources
    <3> HIDE DEF sources, built, result
    <3>5. result = [i \in 1..6 |-> [file |-> SnapshotFile(SixParts[i]), content |-> built[SixParts[i]]]]
      BY <3>1, <3>2, PartsAre DEF BuiltFiles, SeqMap
    <3>6. Len(result) = 6 /\ result # << >>
      <4>1. result = [i \in 1..6 |-> result[i]]
        BY <3>5
      <4>2. Len(result) = 6
        BY <4>1, ListIs
      <4> QED
        BY <4>2, NoneIs
    <3>7. \A i \in 1..6 : SixParts[i] \in PartNames
      BY PartsAre, SeqItems
    <3>8. \A i \in 1..Len(result) : Genuine(result[i].file, result[i].content)
      BY <3>5, <3>6, <3>7, SnapshotFilesDiffer
    <3>9. y.stage = "writing" /\ y.writes = result /\ y.input = x.input /\ y.kind = x.kind
      BY <1>4, <2>2, <3>6 DEF NoProcess
    <3>10. GenuineProcess(y)
      <4> HIDE DEF y
      <4> QED
        BY <1>5, <3>8, <3>9 DEF GenuineProcess
    <3>11. new["documents"] = built.documents
      <4>1. "documents" \in ToSet(FourParts) /\ SixParts[2] = "documents"
        BY PartsAre
      <4>2. (CHOOSE k \in DOMAIN SixParts : SixParts[k] = "documents") = 2
        BY <4>1, PlaceIs
      <4>3. result[2].content = built["documents"]
        BY <3>5, <4>1
      <4>4. new["documents"] = result[CHOOSE k \in DOMAIN SixParts : SixParts[k] = "documents"].content
        BY <4>1
      <4> HIDE DEF new
      <4> QED
        BY <4>2, <4>3, <4>4
    <3> HIDE DEF new, y
    <3>12. GenuineBuild(new)
      BY <3>2, <3>4, <3>11 DEF GenuineBuild, built
    <3>13. made' = made \cup {new}
      BY <1>1, <2>2
    <3> QED
      BY <3>10, <3>12, <3>13 DEF GInv
  <2>3. CASE result = << >> /\ result # Invalid /\ x.kind # "build"
    <3>1. made' = made /\ y = Onward(x)
      BY <1>1, <2>3
    <3>2. ASSUME x.kind = "serve" PROVE Genuine(TitleFile, x.seen[11]) /\ Genuine(MarketFile, x.seen[12])
      <4>1. ToRead(p) = StartReads
        BY <3>2 DEF ToRead, Reads, x
      <4>2. Len(x.seen) = 12
        BY <1>1, <4>1, StartReadsAre
      <4> QED
        BY <1>5, <4>1, <4>2, StartReadsAre
    <3>3. GenuineProcess(y)
      <4> HIDE DEF y
      <4> QED
        BY <1>4, <1>5, <3>1, <3>2, OnwardGenuine
    <3> HIDE DEF y
    <3> QED
      BY <3>1, <3>3 DEF GInv
  <2>4. CASE result # << >> /\ result # Invalid /\ x.kind # "build"
    <3>1. made' = made
      BY <1>1, <2>4
    <3>2. ASSUME x.kind = "curate" PROVE Genuine(CandidateFile(Unit(p)), x.seen[1])
      <4>1. ToRead(p) = <<CandidateFile(Unit(p))>>
        BY <3>2 DEF ToRead, Reads, x
      <4>2. Len(x.seen) = 1 /\ ToRead(p)[1] = CandidateFile(Unit(p))
        BY <1>1, <4>1
      <4> QED
        BY <1>5, <4>2
    <3>3. \A i \in 1..Len(result) : Genuine(result[i].file, result[i].content)
      <4>1. x.kind \in Kinds \ {"build"}
        BY <1>4, <2>4
      <4> QED
        BY <1>5, <2>4, <3>2, <4>1, ResultGenuine
    <3> HIDE DEF result
    <3>4. y.stage = "writing" /\ y.writes = result /\ y.input = x.input /\ y.kind = x.kind
      BY <1>4, <2>4 DEF NoProcess
    <3>5. GenuineProcess(y)
      <4> HIDE DEF y
      <4> QED
        BY <1>5, <3>3, <3>4 DEF GenuineProcess
    <3> HIDE DEF y
    <3> QED
      BY <3>1, <3>5 DEF GInv
  <2> HIDE DEF result
  <2> QED
    BY <2>1, <2>2, <2>3, <2>4
<1> HIDE DEF y
<1>7. \A q \in Procs : GenuineProcess(procs'[q])
  BY <1>1, <1>6, OneGenuine
<1> QED
  BY <1>1, <1>2, <1>6, <1>7 DEF GInv

LEMMA OpenGenuine ==
  ASSUME GInv, NEW p \in Procs, Open(p)
  PROVE  GInv'
<1> DEFINE x == procs[p]
           file == Head(x.writes).file
           t == Touched(p, file)
           o == \E q \in Procs \ {p} : HasOpen(q, file)
           y == [x EXCEPT !.open = TRUE, !.overlapped = o]
<1>1. /\ files' = [files EXCEPT ![file] = Torn] /\ made' = made
      /\ procs' = [t EXCEPT ![p].open = TRUE, ![p].overlapped = o]
  BY DEF Open
<1>2. SInv /\ SInv'
  BY OpenKeeps DEF GInv
<1>3. /\ DOMAIN t = Procs /\ t[p] = x
      /\ \A q \in Procs \ {p} :
           /\ t[q].kind = procs[q].kind /\ t[q].stage = procs[q].stage
           /\ t[q].writes = procs[q].writes /\ t[q].seen = procs[q].seen
           /\ t[q].input = procs[q].input /\ t[q].unit = procs[q].unit
  BY <1>2, TouchedAlike
<1> HIDE DEF t, o
<1>4. procs' = [t EXCEPT ![p] = y]
  BY <1>1, <1>3
<1>5. GenuineProcess(y)
  <2>1. GenuineProcess(x) /\ DOMAIN x = DOMAIN NoProcess
    BY DEF GInv, SInv, ProcessOK
  <2> HIDE DEF x
  <2>2. /\ y.kind = x.kind /\ y.stage = x.stage /\ y.writes = x.writes /\ y.seen = x.seen
        /\ y.input = x.input /\ y.unit = x.unit
    BY <2>1 DEF NoProcess
  <2> HIDE DEF y
  <2> QED
    BY <2>1, <2>2 DEF GenuineProcess
<1> HIDE DEF y
<1>6. procs'[p] = y /\ \A q \in Procs \ {p} : procs'[q] = t[q]
  BY <1>3, <1>4
<1>7. \A q \in Procs : GenuineProcess(procs'[q])
  BY <1>3, <1>5, <1>6, OthersGenuine
<1>8. DOMAIN files' = FileNames /\ \A f \in FileNames : files'[f] = Torn \/ Genuine(f, files'[f])
  <2> HIDE DEF file
  <2> QED
    BY <1>1 DEF GInv
<1> QED
  BY <1>1, <1>2, <1>7, <1>8 DEF GInv

LEMMA CloseGenuine ==
  ASSUME GInv, NEW p \in Procs, Close(p)
  PROVE  GInv'
<1> DEFINE x == procs[p]
           write == Head(x.writes)
           left == Tail(x.writes)
           closed == [x EXCEPT !.open = FALSE, !.overlapped = FALSE, !.writes = left]
           t == Touched(p, write.file)
           y == IF left = << >> THEN Onward(closed) ELSE closed
<1>1. /\ x.stage = "writing" /\ made' = made
      /\ \E content \in {write.content, Torn} : files' = [files EXCEPT ![write.file] = content]
      /\ procs' = [t EXCEPT ![p] = y]
  BY DEF Close
<1>2. SInv /\ SInv'
  BY CloseKeeps DEF GInv
<1>3. /\ DOMAIN t = Procs
      /\ \A q \in Procs \ {p} :
           /\ t[q].kind = procs[q].kind /\ t[q].stage = procs[q].stage
           /\ t[q].writes = procs[q].writes /\ t[q].seen = procs[q].seen
           /\ t[q].input = procs[q].input /\ t[q].unit = procs[q].unit
  BY <1>2, TouchedAlike
<1>4. ProcessOK(x, made) /\ GenuineProcess(x)
  BY DEF GInv, SInv
<1>5. /\ DOMAIN x = DOMAIN NoProcess /\ x.kind # "serve" /\ x.kind \in Kinds
      /\ List(x.writes) /\ Len(x.writes) > 0
      /\ x.input \in Inputs(x.kind)
      /\ \A i \in 1..Len(x.writes) : Genuine(x.writes[i].file, x.writes[i].content)
  BY <1>1, <1>4 DEF ProcessOK, GenuineProcess
<1>6. /\ Len(x.writes) \in Nat /\ write = x.writes[1]
      /\ Len(left) = Len(x.writes) - 1
      /\ \A i \in 1..Len(left) : left[i] = x.writes[i + 1]
  <2> HIDE DEF x
  <2> QED
    BY <1>5, TailIs, AppendItems
<1> HIDE DEF t, write, left
<1>7. /\ DOMAIN closed = DOMAIN NoProcess /\ closed.kind = x.kind /\ closed.input = x.input
      /\ closed.stage = "writing" /\ closed.writes = left
  <2>1. x.stage = "writing" /\ DOMAIN x = DOMAIN NoProcess
    BY <1>1, <1>5
  <2> HIDE DEF x
  <2> QED
    BY <2>1 DEF NoProcess
<1> HIDE DEF x, closed
<1>8. GenuineProcess(y)
  <2>1. CASE left = << >>
    BY <1>5, <1>7, <2>1, OnwardGenuine
  <2>2. CASE left # << >>
    <3>1. ASSUME NEW i \in 1..Len(left) PROVE Genuine(left[i].file, left[i].content)
      <4>1. i + 1 \in 1..Len(x.writes) /\ left[i] = x.writes[i + 1]
        BY <1>6
      <4> QED
        BY <1>5, <4>1
    <3>2. y = closed
      BY <2>2
    <3> HIDE DEF y
    <3> QED
      BY <1>5, <1>7, <3>1, <3>2 DEF GenuineProcess
  <2> QED
    BY <2>1, <2>2
<1> HIDE DEF y
<1>9. procs'[p] = y /\ \A q \in Procs \ {p} : procs'[q] = t[q]
  BY <1>1, <1>3
<1>10. \A q \in Procs : GenuineProcess(procs'[q])
  BY <1>3, <1>8, <1>9, OthersGenuine
<1>11. DOMAIN files' = FileNames /\ \A f \in FileNames : files'[f] = Torn \/ Genuine(f, files'[f])
  <2>1. PICK content \in {write.content, Torn} : files' = [files EXCEPT ![write.file] = content]
    BY <1>1
  <2>2. Genuine(write.file, write.content)
    BY <1>5, <1>6
  <2> QED
    BY <2>1, <2>2 DEF GInv
<1> QED
  BY <1>1, <1>2, <1>10, <1>11 DEF GInv

LEMMA StepGInv == GInv /\ [Next]_fileVars => GInv'
<1> SUFFICES ASSUME GInv, [Next]_fileVars PROVE GInv'
  OBVIOUS
<1>1. CASE Next
  <2>1. PICK p \in Procs : Start(p) \/ Read(p) \/ Compute(p) \/ Open(p) \/ Close(p) \/ Crash(p)
    BY <1>1 DEF Next
  <2> QED
    BY <2>1, StartGenuine, ReadGenuine, ComputeGenuine, OpenGenuine, CloseGenuine, CrashGenuine
<1>2. CASE UNCHANGED fileVars
  <2>1. SInv'
    BY <1>2, StepSInv DEF GInv
  <2> QED
    BY <1>2, <2>1 DEF fileVars, GInv
<1> QED
  BY <1>1, <1>2

LEMMA GInvServed == GInv => ServedIsSound
<1> SUFFICES ASSUME GInv, NEW p \in Procs, Serving(p)
             PROVE  /\ \A s \in Companies : /\ NewsServed(procs[p].seen[2], s)
                                            /\ FilingServed(procs[p].seen[2], s)
                                            /\ ReportServed(procs[p].seen[2], s)
                    /\ TitlesServed(procs[p].seen[11])
                    /\ PricesServed(procs[p].seen[12])
  BY DEF ServedIsSound
<1> DEFINE x == procs[p]
<1>1. SeenWhole(x.seen, made) /\ Genuine(TitleFile, x.seen[11]) /\ Genuine(MarketFile, x.seen[12])
  BY DEF GInv, SInv, ProcessOK, GenuineProcess, Serving
<1>2. PICK m \in made : \A i \in DOMAIN FourParts : x.seen[i] = m[FourParts[i]]
  BY <1>1 DEF SeenWhole
<1>3. x.seen[2] = m["documents"] /\ GenuineBuild(m)
  BY <1>2, PartsAre DEF GInv
<1> HIDE DEF x
<1>4. PICK sources : /\ GenuineSources(sources) /\ BuildService(sources) # Invalid
                     /\ x.seen[2] = BuildService(sources).documents
  BY <1>3 DEF GenuineBuild
<1>5. ASSUME NEW s \in Companies
      PROVE  NewsServed(x.seen[2], s) /\ FilingServed(x.seen[2], s) /\ ReportServed(x.seen[2], s)
  <2>1. Built(sources, x.seen[2])
    BY <1>4, BuiltOf
  <2> QED
    BY <1>4, <2>1, NewsAreServed, FilingIsServed, ReportIsServed
<1>6. TitlesServed(x.seen[11])
  BY <1>1, TitlesAreServed DEF Genuine
<1>7. PricesServed(x.seen[12])
  BY <1>1, PricesAreServed DEF Genuine
<1> QED
  BY <1>5, <1>6, <1>7 DEF x

-----------------------------------------------------------------------------
(* The theorems *)

\* Every manifest file, as every manifest that a start has read or a script is about to
\* write, is of a snapshot that was built (run_build, build_runtime).
THEOREM ManifestsAreBuilt == Spec => []SInv
<1>1. Init => SInv
  BY InitSInv
<1>2. SInv /\ [Next]_fileVars => SInv'
  BY StepSInv
<1> QED
  BY <1>1, <1>2, PTL DEF Spec

\* What a start serves was built together (load_service_snapshot compares the files with
\* the manifest's hashes): for any number of scripts and starts, and any inputs.
THEOREM WholeLoaded == Spec => []LoadedWhole
<1>1. SInv => LoadedWhole
  BY DEF SInv, LoadedWhole, Serving, ProcessOK, SeenWhole
<1> QED
  BY <1>1, ManifestsAreBuilt, PTL

\* Every whole file came about as the scripts make it, and so did what a script has
\* read, is about to write, or serves: candidates are what a harvest found, the news of
\* a company were curated of such, a report was made of a paper.
THEOREM FilesAreGenuine == Spec => []GInv
<1>1. Init => GInv
  BY InitGInv
<1>2. GInv /\ [Next]_fileVars => GInv'
  BY StepGInv
<1> QED
  BY <1>1, <1>2, PTL DEF Spec

\* What a start serves (load_service_snapshot, build_runtime) is what the collectors and
\* the curators promise, though the loader cannot check it against their inputs: each
\* event of a company is told by one piece of news that the search found and that names
\* the company; its filing stands and was verified; every section of its report is the
\* one approved; no company has more headlines a day than the cap; no price is from after
\* its moment, and each is against the close of the trading day before. For any searches,
\* feeds and papers, and however the scripts interleave, overwrite each other or stop.
THEOREM SoundServed == Spec => []ServedIsSound
<1>1. GInv => ServedIsSound
  BY GInvServed
<1> QED
  BY <1>1, FilesAreGenuine, PTL
=============================================================================
