----------------------- MODULE RecordedServiceProofs -----------------------
(***************************************************************************)
(* Proofs about RecordedService: whatever is asked, recorded and drafted,  *)
(* an answer's evidence is about what was meant and stands, a complete     *)
(* answer is covered, a doubt is told, and the claims rest on what is      *)
(* shown.                                                                  *)
(*                                                                         *)
(* The modules that make a stage (Freshness, EvidenceSelection,            *)
(* AnswerDrafts and the others) have a section of lemmas each.             *)
(***************************************************************************)
EXTENDS RecordedService, FiniteSetTheorems, SequenceTheorems, TLAPS

-----------------------------------------------------------------------------
(* Lists *)

\* Sequences, without saying of what.
List(s) == Len(s) \in Nat /\ DOMAIN s = 1..Len(s) /\ s = [i \in DOMAIN s |-> s[i]]

\* A list is a sequence of its items.
LEMMA ListSeq == ASSUME NEW s, List(s) PROVE s \in Seq(ToSet(s))
BY DEF List, ToSet

\* A sequence, of whatever items, is a list.
LEMMA SeqList == ASSUME NEW S, NEW s \in Seq(S) PROVE List(s)
BY DEF List

\* Two lists, one after the other.
LEMMA ListJoin ==
  ASSUME NEW s, NEW t, List(s), List(t)
  PROVE  /\ List(s \o t) /\ Len(s \o t) = Len(s) + Len(t) 
         /\ \A i \in 1..Len(s) : (s \o t)[i] = s[i]
         /\ \A i \in 1..Len(t) : (s \o t)[Len(s) + i] = t[i]
         /\ ToSet(s \o t) = ToSet(s) \cup ToSet(t)
<1> DEFINE T == ToSet(s) \cup ToSet(t)
<1>1. s \in Seq(T) /\ t \in Seq(T)
  BY ListSeq, SeqMonotonic
<1> HIDE DEF T
<1>2. /\ s \o t \in Seq(T) /\ Len(s \o t) = Len(s) + Len(t)
      /\ \A i \in 1..Len(s) + Len(t) : (s \o t)[i] = IF i <= Len(s) THEN s[i] ELSE t[i - Len(s)]
  BY <1>1, ConcatProperties
<1>3. List(s \o t)
  BY <1>2, SeqList
<1>4. ASSUME NEW i \in 1..Len(s) PROVE (s \o t)[i] = s[i]
  BY <1>2 DEF List
<1>5. ASSUME NEW i \in 1..Len(t) PROVE (s \o t)[Len(s) + i] = t[i]
  BY <1>2 DEF List
<1>6. ASSUME NEW e \in ToSet(s \o t) PROVE e \in ToSet(s) \cup ToSet(t)
  <2>1. PICK i \in 1..Len(s) + Len(t) : e = (s \o t)[i]
    BY <1>2, <1>3 DEF List, ToSet
  <2>2. CASE i <= Len(s)
    BY <2>1, <2>2, <1>2 DEF List, ToSet
  <2>3. CASE ~(i <= Len(s))
    <3>1. i - Len(s) \in 1..Len(t)
      BY <2>3, <2>1 DEF List
    <3> QED
      BY <2>1, <2>3, <3>1, <1>2 DEF List, ToSet
  <2> QED
    BY <2>2, <2>3
<1>7. ASSUME NEW e \in ToSet(s) PROVE e \in ToSet(s \o t)
  <2>1. PICK i \in 1..Len(s) : e = s[i]
    BY DEF List, ToSet
  <2>2. i \in DOMAIN (s \o t)
    BY <1>2, <1>3 DEF List
  <2> QED
    BY <2>1, <2>2, <1>4 DEF ToSet
<1>8. ASSUME NEW e \in ToSet(t) PROVE e \in ToSet(s \o t)
  <2>1. PICK i \in 1..Len(t) : e = t[i]
    BY DEF List, ToSet
  <2>2. Len(s) + i \in DOMAIN (s \o t)
    BY <1>2, <1>3 DEF List
  <2> QED
    BY <2>1, <2>2, <1>5 DEF ToSet
<1> QED
  BY <1>2, <1>3, <1>4, <1>5, <1>6, <1>7, <1>8

\* The first items of a list.
LEMMA ListPrefix ==
  ASSUME NEW s, List(s), NEW m \in 0..Len(s)
  PROVE  /\ List(SubSeq(s, 1, m)) /\ Len(SubSeq(s, 1, m)) = m
         /\ \A i \in 1..m : SubSeq(s, 1, m)[i] = s[i]
         /\ ToSet(SubSeq(s, 1, m)) \subseteq ToSet(s)
<1>1. s \in Seq(ToSet(s))
  BY ListSeq
<1>2. /\ SubSeq(s, 1, m) \in Seq(ToSet(s))
      /\ Len(SubSeq(s, 1, m)) = m
      /\ \A i \in 1..m : SubSeq(s, 1, m)[i] = s[i]
  BY <1>1, SubSeqProperties DEF List
<1>3. List(SubSeq(s, 1, m))
  BY <1>2, SeqList
<1> QED
  BY <1>2, <1>3 DEF List, ToSet

\* A set of numbers has a least one.
LEMMA NatMinimum ==
  ASSUME NEW T \in SUBSET Nat, T # {}
  PROVE  \E m \in T : \A k \in T : m <= k
<1>1. PICK m \in T : \A k \in T : ~(<<k, m>> \in OpToRel(<, Nat))
  BY NatLessThanWellFounded, WFMin
<1>2. \A k \in T : ~(k < m)
  BY <1>1 DEF OpToRel
<1> QED
  BY <1>2

-----------------------------------------------------------------------------
(* Sorting: the items of a list at given positions, in order *)

\* How many of S come before x, in an order R.
Rank(S, R, x) == Cardinality({y \in S : <<y, x>> \in R})

\* R puts the items of S in one order.
StrictOrder(S, R) ==
  /\ \A x \in S : <<x, x>> \notin R
  /\ \A x, y \in S : x = y \/ <<x, y>> \in R \/ <<y, x>> \in R
  /\ \A x, y, z \in S : <<x, y>> \in R /\ <<y, z>> \in R => <<x, z>> \in R

\* What comes later has more before it.
LEMMA RankGrows ==
  ASSUME NEW S, IsFiniteSet(S), NEW R, StrictOrder(S, R), NEW x \in S, NEW y \in S, <<x, y>> \in R
  PROVE  Rank(S, R, x) < Rank(S, R, y)
<1> DEFINE X == {z \in S : <<z, x>> \in R}
           Y == {z \in S : <<z, y>> \in R}
<1>1. X \subseteq Y /\ x \in Y /\ x \notin X
  BY DEF StrictOrder
<1>2. IsFiniteSet(Y)
  BY FS_Subset, Y \in SUBSET S
<1>3. Cardinality(X) \in Nat /\ Cardinality(Y) \in Nat
  BY <1>1, <1>2, FS_Subset, FS_CardinalityType
<1>4. Cardinality(X) <= Cardinality(Y) /\ Cardinality(X) # Cardinality(Y)
  <2>1. X \in SUBSET Y
    BY <1>1
  <2>2. Cardinality(X) <= Cardinality(Y) /\ (Cardinality(Y) = Cardinality(X) => Y = X)
    BY <1>2, <2>1, FS_Subset
  <2> QED
    BY <1>1, <2>2
<1> QED
  BY <1>3, <1>4 DEF Rank

\* Each rank is taken.
LEMMA RankOnto ==
  ASSUME NEW S, IsFiniteSet(S), NEW R, StrictOrder(S, R), NEW k \in 1..Cardinality(S)
  PROVE  \E x \in S : Rank(S, R, x) = k - 1
<1> DEFINE n == Cardinality(S)
           r == [x \in S |-> Rank(S, R, x)]
           T == 0..(n - 1)
<1>1. n \in Nat
  BY FS_CardinalityType
<1>2. ASSUME NEW x \in S PROVE Rank(S, R, x) \in T
  <2> DEFINE X == {y \in S : <<y, x>> \in R}
  <2>1. X \subseteq S /\ x \notin X
    BY DEF StrictOrder
  <2>2. IsFiniteSet(X) /\ Cardinality(X) <= n /\ (Cardinality(S) = Cardinality(X) => S = X)
    BY <2>1, FS_Subset
  <2>3. Cardinality(X) \in Nat
    BY <2>2, FS_CardinalityType
  <2> QED
    BY <1>1, <2>1, <2>2, <2>3 DEF Rank
<1>3. r \in [S -> T]
  BY <1>2
<1>4. ASSUME NEW x \in S, NEW y \in S, r[x] = r[y] PROVE x = y
  <2>1. Rank(S, R, x) \in Nat /\ Rank(S, R, x) = Rank(S, R, y)
    BY <1>1, <1>2, <1>4
  <2>2. <<x, y>> \notin R /\ <<y, x>> \notin R
    BY <2>1, RankGrows
  <2> QED
    BY <2>2 DEF StrictOrder
<1>5. r \in Injection(S, T)
  BY <1>3, <1>4 DEF Injection, IsInjective
<1>6. IsFiniteSet(T) /\ Cardinality(T) = n
  <2>1. 0 \in Int /\ n - 1 \in Int
    BY <1>1
  <2>2. IsFiniteSet(T) /\ Cardinality(T) = IF 0 > n - 1 THEN 0 ELSE (n - 1) - 0 + 1
    BY <2>1, FS_Interval
  <2> QED
    BY <1>1, <2>2
<1>7. r \in Surjection(S, T)
  BY <1>5, <1>6, FS_Injection
<1>8. k - 1 \in T
  BY <1>1
<1> QED
  BY <1>7, <1>8 DEF Surjection

\* The k-th of a set of positions is one of them, with k - 1 before it.
LEMMA NthIn ==
  ASSUME NEW n \in Nat, NEW I \in SUBSET (1..n), NEW k \in 1..Cardinality(I)
  PROVE  /\ Nth(I, LAMBDA i, j : i < j, k) \in I
         /\ Cardinality({y \in I : y < Nth(I, LAMBDA i, j : i < j, k)}) = k - 1
<1> DEFINE R == {p \in I \X I : p[1] < p[2]}
<1>1. IsFiniteSet(I)
  BY FS_Interval, FS_Subset, 1 \in Int, n \in Int
<1>2. StrictOrder(I, R)
  BY DEF StrictOrder
<1>3. PICK x \in I : Rank(I, R, x) = k - 1
  BY <1>1, <1>2, RankOnto
<1>4. {y \in I : <<y, x>> \in R} = {y \in I : y < x}
  OBVIOUS
<1>5. Cardinality({y \in I : y < x}) = k - 1
  BY <1>3, <1>4 DEF Rank
<1> QED
  BY <1>5 DEF Nth

\* f gives the positions picked, one after the other.
Picks(f, s, I, n) ==
  /\ f \in [1..n -> I]
  /\ \A k \in 1..n : ItemsAt(s, I)[k] = s[f[k]]
  /\ \A k, l \in 1..n : k < l => f[k] < f[l]
  /\ \A i \in I : \E k \in 1..n : f[k] = i

\* What is at the positions picked, in order, and nothing else.
LEMMA ItemsAtFacts ==
  ASSUME NEW s, List(s), NEW I \in SUBSET DOMAIN s
  PROVE  /\ List(ItemsAt(s, I)) /\ Len(ItemsAt(s, I)) = Cardinality(I) /\ Cardinality(I) \in 0..Len(s)
         /\ ToSet(ItemsAt(s, I)) = {s[i] : i \in I}
         /\ \E f : Picks(f, s, I, Len(ItemsAt(s, I)))
<1> DEFINE n == Len(s)
           c == Cardinality(I)
           nth(k) == Nth(I, LAMBDA i, j : i < j, k)
           f == [k \in 1..c |-> nth(k)]
           below(x) == {i \in I : i < x}
<1>1. n \in Nat /\ I \in SUBSET (1..n)
  BY DEF List
<1>2. IsFiniteSet(I) /\ c \in 0..n
  <2>1. IsFiniteSet(1..n) /\ Cardinality(1..n) = n
    <3>1. 1 \in Int /\ n \in Int
      BY <1>1
    <3>2. IsFiniteSet(1..n) /\ Cardinality(1..n) = IF 1 > n THEN 0 ELSE n - 1 + 1
      BY <3>1, FS_Interval
    <3> QED
      BY <1>1, <3>2
  <2>2. IsFiniteSet(I) /\ Cardinality(I) <= n
    BY <1>1, <2>1, FS_Subset
  <2> QED
    BY <1>1, <2>2, FS_CardinalityType
<1>3. ASSUME NEW k \in 1..c PROVE nth(k) \in I /\ Cardinality(below(nth(k))) = k - 1
  BY <1>1, NthIn
<1> HIDE DEF nth
<1>4. ItemsAt(s, I) = [k \in 1..c |-> s[nth(k)]]
  BY DEF ItemsAt, nth
<1> HIDE DEF c
<1>5. List(ItemsAt(s, I)) /\ Len(ItemsAt(s, I)) = c
  BY <1>2, <1>4 DEF List
<1>6. ASSUME NEW x \in I, NEW y \in I, x < y PROVE Cardinality(below(x)) < Cardinality(below(y))
  <2>1. below(x) \in SUBSET below(y) /\ x \in below(y) /\ x \notin below(x)
    BY <1>1, <1>6
  <2>2. IsFiniteSet(below(x)) /\ IsFiniteSet(below(y))
    BY <1>2, FS_Subset, below(x) \in SUBSET I, below(y) \in SUBSET I
  <2>3. Cardinality(below(x)) <= Cardinality(below(y))
          /\ (Cardinality(below(y)) = Cardinality(below(x)) => below(y) = below(x))
    BY <2>1, <2>2, FS_Subset
  <2>4. Cardinality(below(x)) \in Nat /\ Cardinality(below(y)) \in Nat
    BY <2>2, FS_CardinalityType
  <2> QED
    BY <2>1, <2>3, <2>4
<1>7. ASSUME NEW k \in 1..c, NEW l \in 1..c, k < l PROVE nth(k) < nth(l)
  <2>0. nth(k) \in I /\ nth(l) \in I
    BY <1>3
  <2>1. nth(k) \in I /\ nth(l) \in I /\ nth(k) \in Nat /\ nth(l) \in Nat
    BY <1>1, <2>0
  <2>2. Cardinality(below(nth(k))) = k - 1 /\ Cardinality(below(nth(l))) = l - 1
    BY <1>3
  <2>3. CASE nth(l) < nth(k)
    <3>1. Cardinality(below(nth(l))) < Cardinality(below(nth(k)))
      BY <2>1, <2>3, <1>6
    <3> QED
      BY <3>1, <2>2, <1>7, <1>2
  <2>4. CASE nth(l) = nth(k)
    BY <2>4, <2>2, <1>7, <1>2
  <2> QED
    BY <2>1, <2>3, <2>4
<1>8. ASSUME NEW i \in I PROVE \E k \in 1..c : nth(k) = i
  <2> DEFINE k == Cardinality(below(i)) + 1
  <2>1. below(i) \in SUBSET I /\ i \notin below(i)
    BY <1>1
  <2>2. IsFiniteSet(below(i)) /\ Cardinality(below(i)) <= c /\ (c = Cardinality(below(i)) => I = below(i))
    BY <1>2, <2>1, FS_Subset DEF c
  <2>3. Cardinality(below(i)) \in Nat
    BY <2>2, FS_CardinalityType
  <2>4. k \in 1..c
    BY <1>2, <2>1, <2>2, <2>3
  <2>5. nth(k) \in I /\ Cardinality(below(nth(k))) = Cardinality(below(i))
    BY <2>3, <2>4, <1>3
  <2>6. ~(nth(k) < i) /\ ~(i < nth(k))
    <3>1. nth(k) < i => Cardinality(below(nth(k))) < Cardinality(below(i))
      BY <1>6, <2>5
    <3>2. i < nth(k) => Cardinality(below(i)) < Cardinality(below(nth(k)))
      BY <1>6, <2>5
    <3> QED
      BY <3>1, <3>2, <2>5, <2>3
  <2>7. nth(k) = i
    BY <2>5, <2>6, <1>1
  <2> QED
    BY <2>4, <2>7
<1>9. f \in [1..c -> I]
  BY <1>3
<1>10. ToSet(ItemsAt(s, I)) = {s[i] : i \in I}
  <2>1. ToSet(ItemsAt(s, I)) = {s[nth(k)] : k \in 1..c}
    BY <1>4 DEF ToSet
  <2>2. ASSUME NEW e \in ToSet(ItemsAt(s, I)) PROVE e \in {s[i] : i \in I}
    <3>1. PICK k \in 1..c : e = s[nth(k)]
      BY <2>1
    <3> QED
      BY <3>1, <1>3
  <2>3. ASSUME NEW i \in I PROVE s[i] \in ToSet(ItemsAt(s, I))
    <3>1. PICK k \in 1..c : nth(k) = i
      BY <1>8
    <3> QED
      BY <3>1, <2>1
  <2> QED
    BY <2>2, <2>3
<1> QED
  <2>1. /\ \A k \in 1..c : ItemsAt(s, I)[k] = s[f[k]]
        /\ \A k, l \in 1..c : k < l => f[k] < f[l]
        /\ \A i \in I : \E k \in 1..c : f[k] = i
    BY <1>4, <1>7, <1>8
  <2>2. Picks(f, s, I, c)
    BY <1>9, <2>1 DEF Picks
  <2> HIDE DEF f
  <2>3. Len(ItemsAt(s, I)) = Cardinality(I) /\ Cardinality(I) \in 0..Len(s)
    BY <1>2, <1>5 DEF c
  <2> QED
    BY <1>5, <1>10, <2>2, <2>3

\* What is at every position from the first on stays where it is.
LEMMA ItemsAtPrefix ==
  ASSUME NEW s, List(s), NEW I \in SUBSET DOMAIN s, NEW m \in Nat, 1..m \subseteq I
  PROVE  m <= Len(ItemsAt(s, I)) /\ \A k \in 1..m : ItemsAt(s, I)[k] = s[k]
<1> DEFINE c == Len(ItemsAt(s, I))
<1>1. c \in Nat /\ c = Cardinality(I)
  BY ItemsAtFacts
<1>0. PICK f : Picks(f, s, I, c)
  BY ItemsAtFacts
<1>2. /\ f \in [1..c -> I]
      /\ \A k \in 1..c : ItemsAt(s, I)[k] = s[f[k]]
      /\ \A k, l \in 1..c : k < l => f[k] < f[l]
      /\ \A i \in I : \E k \in 1..c : f[k] = i
  BY <1>0 DEF Picks
<1>3. I \subseteq Nat \ {0}
  BY DEF List
<1> DEFINE T == {n \in 1..m : ~(n <= c /\ f[n] = n)}
<1>4. T = {}
  <2> SUFFICES ASSUME T # {} PROVE FALSE
    OBVIOUS
  <2>1. PICK n \in T : \A l \in T : n <= l
    BY NatMinimum, T \in SUBSET Nat
  <2>2. \A l \in 1..(n - 1) : l <= c /\ f[l] = l
    BY <2>1
  <2>3. PICK k \in 1..c : f[k] = n
    BY <1>2, <2>1
  <2>4. ~(k < n)
    <3> SUFFICES ASSUME k < n PROVE FALSE
      OBVIOUS
    <3>1. k \in 1..(n - 1)
      BY <1>1, <2>1
    <3>2. f[k] = k
      BY <2>2, <3>1
    <3> QED
      BY <3>2, <2>3
  <2>5. n <= c
    BY <2>3, <2>4, <1>1
  <2>6. k # n
    BY <2>1, <2>3
  <2>7. n < k /\ n \in 1..c
    BY <2>4, <2>5, <2>6, <1>1, <2>1
  <2>8. f[n] < n /\ f[n] \in I
    BY <2>7, <2>3, <1>2
  <2>9. f[n] \in Nat \ {0}
    BY <2>8, <1>3
  <2>10. f[n] \in 1..(n - 1)
    BY <2>8, <2>9, <2>1
  <2>11. f[f[n]] = f[n] /\ f[n] <= c
    BY <2>10, <2>2
  <2>12. f[n] \in 1..c
    BY <2>11, <2>10, <1>1
  <2>13. f[f[n]] < f[n]
    BY <2>12, <2>7, <2>8, <1>2
  <2> QED
    BY <2>11, <2>13, <2>9
<1>5. ASSUME NEW k \in 1..m PROVE k <= c /\ f[k] = k
  BY <1>4
<1>6. m <= c
  <2>1. CASE m = 0
    BY <2>1, <1>1
  <2>2. CASE m # 0
    BY <2>2, <1>5
  <2> QED
    BY <2>1, <2>2
<1> QED
  BY <1>1, <1>2, <1>5, <1>6

\* Min of the community modules is the least.
LEMMA MinIs ==
  ASSUME NEW I \in SUBSET Nat, I # {}
  PROVE  Min(I) \in I /\ \A i \in I : Min(I) <= i
<1>1. PICK m \in I : \A k \in I : m <= k
  BY NatMinimum
<1> QED
  BY <1>1 DEF Min

-----------------------------------------------------------------------------
(* Filters and the diversity of sources *)

\* The first n.
LEMMA TopFacts ==
  ASSUME NEW s, List(s), NEW n \in Nat
  PROVE  /\ List(Top(s, n)) /\ Len(Top(s, n)) = IF Len(s) < n THEN Len(s) ELSE n
         /\ \A k \in 1..Len(Top(s, n)) : Top(s, n)[k] = s[k]
         /\ SetOf(Top(s, n)) \subseteq SetOf(s)
<1> DEFINE m == IF Len(s) < n THEN Len(s) ELSE n
<1>1. m \in 0..Len(s)
  BY DEF List
<1> QED
  BY <1>1, ListPrefix DEF Top, SetOf

\* The filter lets through the pieces that pass, and none else.
LEMMA FilterFacts ==
  ASSUME NEW s, List(s), NEW request
  PROVE  /\ List(FilterEvidence(s, request))
         /\ SetOf(FilterEvidence(s, request)) = {e \in SetOf(s) : Passes(e, request)}
         /\ Len(FilterEvidence(s, request)) \in 0..Len(s)
<1> DEFINE I == {i \in DOMAIN s : Passes(s[i], request)}
<1>1. FilterEvidence(s, request) = ItemsAt(s, I)
  BY DEF FilterEvidence, Where
<1>2. List(ItemsAt(s, I)) /\ ToSet(ItemsAt(s, I)) = {s[i] : i \in I} /\ Len(ItemsAt(s, I)) \in 0..Len(s)
  BY ItemsAtFacts
<1>3. {s[i] : i \in I} = {e \in SetOf(s) : Passes(e, request)}
  BY DEF SetOf, ToSet
<1> QED
  BY <1>1, <1>2, <1>3 DEF SetOf

\* What stays visible: no disclosure that was withdrawn or replaced.
LEMMA VisibleFacts ==
  ASSUME NEW s, List(s), NEW docs
  PROVE  /\ List(Visible(s, docs))
         /\ SetOf(Visible(s, docs)) =
              {e \in SetOf(s) : e.source = "disclosure" =>
                 ~Notice(docs, e.doc).withdrawn /\ e.doc \notin Replaced(Edges(s, docs))}
         /\ Len(Visible(s, docs)) \in 0..Len(s)
<1> DEFINE ok(e) == e.source = "disclosure" =>
                      ~Notice(docs, e.doc).withdrawn /\ e.doc \notin Replaced(Edges(s, docs))
           I == {i \in DOMAIN s : ok(s[i])}
<1>1. Visible(s, docs) = ItemsAt(s, I)
  BY DEF Visible, Where
<1>2. List(ItemsAt(s, I)) /\ ToSet(ItemsAt(s, I)) = {s[i] : i \in I} /\ Len(ItemsAt(s, I)) \in 0..Len(s)
  BY ItemsAtFacts
<1> HIDE DEF ok
<1>3. {s[i] : i \in I} = {e \in SetOf(s) : ok(e)}
  BY DEF SetOf, ToSet
<1> QED
  BY <1>1, <1>2, <1>3 DEF SetOf, ok

\* What is retained was there.
LEMMA RetainedFacts ==
  ASSUME NEW s, List(s), NEW request
  PROVE  /\ List(Retained(s, request))
         /\ SetOf(Retained(s, request)) \subseteq SetOf(s)
         /\ Len(Retained(s, request)) \in 0..Len(s)
<1> DEFINE span(src) == IF src = "disclosure" /\ Extended(s, request) THEN FallbackAge ELSE MaxAge[src]
           I == {i \in DOMAIN s : request.range # NoRange \/ Age(s[i]) <= span(s[i].source)}
<1>1. Retained(s, request) = ItemsAt(s, I)
  BY DEF Retained, Where
<1>2. List(ItemsAt(s, I)) /\ ToSet(ItemsAt(s, I)) = {s[i] : i \in I} /\ Len(ItemsAt(s, I)) \in 0..Len(s)
  BY ItemsAtFacts
<1>3. {s[i] : i \in I} \subseteq SetOf(s)
  BY DEF SetOf, ToSet
<1> QED
  BY <1>1, <1>2, <1>3 DEF SetOf

\* Putting one of each source first loses nothing.
LEMMA DiverseFacts ==
  ASSUME NEW s, List(s), NEW required, List(required)
  PROVE  /\ List(SourceDiverse(s, required))
         /\ SetOf(SourceDiverse(s, required)) = SetOf(s)
<1> DEFINE first(src) == {i \in 1..Len(s) : s[i].source = src}
           leader(src) == IF first(src) # {} THEN Min(first(src)) ELSE 0
           lead == [i \in DOMAIN required |-> leader(required[i])]
           I == {i \in DOMAIN lead : lead[i] # 0}
           leaders == ItemsAt(lead, I)
           heads == [k \in DOMAIN leaders |-> s[leaders[k]]]
           rest == ItemsAt(s, DOMAIN s \ SetOf(leaders))
<1>1. SourceDiverse(s, required) = heads \o rest
  BY DEF SourceDiverse, Where, SelectInSeq
<1>2. \A src : leader(src) = 0 \/ leader(src) \in DOMAIN s
  <2> TAKE src
  <2>1. first(src) # {} => Min(first(src)) \in first(src)
    BY MinIs, first(src) \in SUBSET Nat
  <2> QED
    BY <2>1 DEF List
<1> HIDE DEF leader
<1>3. List(lead)
  BY DEF List
<1>4. List(leaders) /\ SetOf(leaders) = {lead[i] : i \in I}
  <2>1. I \in SUBSET DOMAIN lead
    OBVIOUS
  <2> HIDE DEF lead, I
  <2> QED
    BY <1>3, <2>1, ItemsAtFacts DEF SetOf
<1>5. SetOf(leaders) \subseteq DOMAIN s
  BY <1>2, <1>4
<1> HIDE DEF leaders, lead, I
<1>6. List(heads) /\ SetOf(heads) = {s[i] : i \in SetOf(leaders)}
  BY <1>4 DEF List, SetOf, ToSet
<1>7. List(rest) /\ SetOf(rest) = {s[i] : i \in DOMAIN s \ SetOf(leaders)}
  BY ItemsAtFacts, DOMAIN s \ SetOf(leaders) \in SUBSET DOMAIN s DEF SetOf
<1> HIDE DEF heads, rest
<1>8. List(heads \o rest) /\ SetOf(heads \o rest) = SetOf(heads) \cup SetOf(rest)
  BY <1>6, <1>7, ListJoin DEF SetOf
<1>9. SetOf(heads) \cup SetOf(rest) = SetOf(s)
  BY <1>5, <1>6, <1>7 DEF SetOf, ToSet
<1> QED
  BY <1>1, <1>8, <1>9

-----------------------------------------------------------------------------
(* Flattened lists, and priorities *)

\* The function by which FlattenSeq is defined, as far as it goes.
Flattening(g, seqs, m) == g = [i \in 1..m |-> IF i = 1 THEN seqs[i] ELSE g[i - 1] \o seqs[i]]

\* FlattenSeq is its last value.
LEMMA FlattenIs ==
  ASSUME NEW seqs, List(seqs), Len(seqs) # 0
  PROVE  \E g : Flattening(g, seqs, Len(seqs)) /\ FlattenSeq(seqs) = g[Len(seqs)]
<1> DEFINE n == Len(seqs)
           T == {m \in 1..n : ~\E g : Flattening(g, seqs, m)}
<1>1. n \in Nat \ {0}
  BY DEF List
<1>2. T = {}
  <2> SUFFICES ASSUME T # {} PROVE FALSE
    OBVIOUS
  <2>1. PICK m \in T : \A l \in T : m <= l
    BY NatMinimum, T \in SUBSET Nat
  <2>2. m # 1
    <3>1. Flattening([i \in 1..1 |-> seqs[i]], seqs, 1)
      BY DEF Flattening
    <3> QED
      BY <3>1, <2>1
  <2>3. m - 1 \in 1..n /\ m - 1 \notin T /\ m \in Nat
    BY <1>1, <2>1, <2>2
  <2>4. PICK g : Flattening(g, seqs, m - 1)
    BY <2>3
  <2> DEFINE h == [i \in 1..m |-> IF i = m THEN g[m - 1] \o seqs[m] ELSE g[i]]
  <2>5. Flattening(h, seqs, m)
    <3>1. ASSUME NEW i \in 1..m PROVE h[i] = IF i = 1 THEN seqs[i] ELSE h[i - 1] \o seqs[i]
      <4>1. CASE i = m
        <5>1. m - 1 \in 1..m /\ m - 1 # m
          BY <2>3
        <5>2. h[m - 1] = g[m - 1]
          BY <5>1
        <5> QED
          BY <4>1, <2>2, <5>2
      <4>2. CASE i # m /\ i = 1
        <5>1. 1 \in 1..(m - 1)
          BY <2>3
        <5>2. g[1] = seqs[1]
          BY <2>4, <5>1 DEF Flattening
        <5> QED
          BY <4>2, <5>2
      <4>3. CASE i # m /\ i # 1
        <5>1. i \in 1..(m - 1) /\ i - 1 \in 1..m /\ i - 1 # m
          BY <4>3, <2>3
        <5>2. g[i] = g[i - 1] \o seqs[i]
          BY <2>4, <5>1, <4>3 DEF Flattening
        <5>3. h[i] = g[i] /\ h[i - 1] = g[i - 1]
          BY <5>1, <4>3
        <5> QED
          BY <4>3, <5>2, <5>3
      <4> QED
        BY <4>1, <4>2, <4>3
    <3>2. h = [i \in 1..m |-> h[i]]
      OBVIOUS
    <3> HIDE DEF h
    <3> QED
      BY <3>1, <3>2 DEF Flattening
  <2> QED
    BY <2>1, <2>5
<1>3. \E g : Flattening(g, seqs, n)
  <2>1. n \in 1..n /\ n \notin T
    BY <1>1, <1>2
  <2> QED
    BY <2>1
<1> DEFINE c == CHOOSE g : Flattening(g, seqs, n)
<1>4. Flattening(c, seqs, n)
  BY <1>3
<1>5. FlattenSeq(seqs) = c[n]
  BY <1>1 DEF FlattenSeq, Flattening
<1> QED
  BY <1>4, <1>5

\* What is in a flattened list is in one of the lists.
LEMMA FlattenFacts ==
  ASSUME NEW seqs, List(seqs), \A i \in DOMAIN seqs : List(seqs[i])
  PROVE  /\ List(FlattenSeq(seqs))
         /\ \A e : e \in SetOf(FlattenSeq(seqs)) <=> \E i \in DOMAIN seqs : e \in SetOf(seqs[i])
<1> DEFINE n == Len(seqs)
<1>1. n \in Nat /\ DOMAIN seqs = 1..n
  BY DEF List
<1>2. CASE n = 0
  <2>1. FlattenSeq(seqs) = seqs /\ DOMAIN seqs = {}
    BY <1>1, <1>2 DEF FlattenSeq
  <2> QED
    BY <2>1 DEF SetOf, ToSet
<1>3. CASE n # 0
  <2>0. PICK g : Flattening(g, seqs, n) /\ FlattenSeq(seqs) = g[n]
    BY <1>3, FlattenIs
  <2>1. /\ g = [i \in 1..n |-> IF i = 1 THEN seqs[i] ELSE g[i - 1] \o seqs[i]]
        /\ FlattenSeq(seqs) = g[n]
    BY <2>0 DEF Flattening
  <2> DEFINE ok(m) == List(g[m]) /\ \A e : e \in SetOf(g[m]) <=> \E i \in 1..m : e \in SetOf(seqs[i])
             T == {m \in 1..n : ~ok(m)}
  <2>2. T = {}
    <3> SUFFICES ASSUME T # {} PROVE FALSE
      OBVIOUS
    <3>1. PICK m \in T : \A l \in T : m <= l
      BY NatMinimum, T \in SUBSET Nat
    <3>2. m # 1
      <4>1. g[1] = seqs[1]
        BY <2>1, <1>1, <1>3
      <4>3. ok(1)
        BY <4>1, <1>1, <1>3
      <4> HIDE DEF ok
      <4>4. ~ok(m)
        BY <3>1
      <4> QED
        BY <4>3, <4>4
    <3>3. m - 1 \in 1..n /\ m - 1 \notin T /\ m \in 1..n
      <4>1. m \in 1..n
        BY <3>1
      <4> HIDE DEF T
      <4> QED
        BY <1>1, <3>1, <3>2, <4>1
    <3>4. ok(m - 1)
      BY <3>3
    <3>5. g[m] = g[m - 1] \o seqs[m]
      BY <2>1, <3>2, <3>3
    <3>6. List(g[m]) /\ SetOf(g[m]) = SetOf(g[m - 1]) \cup SetOf(seqs[m])
      BY <3>3, <3>4, <3>5, <1>1, ListJoin DEF SetOf
    <3>7. ASSUME NEW e
          PROVE  (\E i \in 1..m : e \in SetOf(seqs[i]))
                   <=> (\E i \in 1..(m - 1) : e \in SetOf(seqs[i])) \/ e \in SetOf(seqs[m])
      <4>1. 1..m = 1..(m - 1) \cup {m}
        BY <3>3
      <4> QED
        BY <4>1
    <3> QED
      BY <3>1, <3>4, <3>6, <3>7
  <2>3. ok(n)
    BY <2>2, <1>1, <1>3
  <2> QED
    BY <2>1, <2>3, <1>1
<1> QED
  BY <1>2, <1>3

\* W says which positions come before which; some may be tied.
WeakOrder(n, W) ==
  /\ \A i \in 1..n : <<i, i>> \notin W
  /\ \A i, j, k \in 1..n : <<i, j>> \in W /\ <<j, k>> \in W => <<i, k>> \in W
  /\ \A i, j, k \in 1..n : <<i, j>> \notin W /\ <<j, k>> \notin W => <<i, k>> \notin W

\* Ties are broken by position.
Tied(n, W) == {p \in (1..n) \X (1..n) : p \in W \/ (<<p[2], p[1]>> \notin W /\ p[1] < p[2])}

\* Then there is one order.
LEMMA TiedIsStrict ==
  ASSUME NEW n \in Nat, NEW W, WeakOrder(n, W)
  PROVE  StrictOrder(1..n, Tied(n, W))
<1>1. ASSUME NEW i \in 1..n, NEW j \in 1..n
      PROVE  <<i, j>> \in Tied(n, W) <=> <<i, j>> \in W \/ (<<j, i>> \notin W /\ i < j)
  <2> DEFINE q == <<i, j>>
  <2>1. q \in (1..n) \X (1..n) /\ q[1] = i /\ q[2] = j
    OBVIOUS
  <2> HIDE DEF q
  <2>2. q \in Tied(n, W) <=> q \in W \/ (<<q[2], q[1]>> \notin W /\ q[1] < q[2])
    BY <2>1 DEF Tied
  <2> QED
    BY <2>1, <2>2 DEF q
<1>2. ASSUME NEW i \in 1..n PROVE <<i, i>> \notin Tied(n, W)
  <2>1. <<i, i>> \notin W /\ ~(i < i)
    BY DEF WeakOrder
  <2> QED
    BY <1>1, <2>1
<1>3. \A i, j \in 1..n : i = j \/ <<i, j>> \in Tied(n, W) \/ <<j, i>> \in Tied(n, W)
  <2> SUFFICES ASSUME NEW i \in 1..n, NEW j \in 1..n, i # j
               PROVE  <<i, j>> \in Tied(n, W) \/ <<j, i>> \in Tied(n, W)
    OBVIOUS
  <2>1. i < j \/ j < i
    OBVIOUS
  <2>2. /\ <<i, j>> \in Tied(n, W) <=> <<i, j>> \in W \/ (<<j, i>> \notin W /\ i < j)
        /\ <<j, i>> \in Tied(n, W) <=> <<j, i>> \in W \/ (<<i, j>> \notin W /\ j < i)
    BY <1>1
  <2> QED
    BY <2>1, <2>2
<1>4. ASSUME NEW i \in 1..n, NEW j \in 1..n, NEW k \in 1..n,
             <<i, j>> \in Tied(n, W), <<j, k>> \in Tied(n, W)
      PROVE  <<i, k>> \in Tied(n, W)
  <2>1. <<i, j>> \in W \/ (<<j, i>> \notin W /\ i < j)
    BY <1>1, <1>4
  <2>2. <<j, k>> \in W \/ (<<k, j>> \notin W /\ j < k)
    BY <1>1, <1>4
  <2>3. CASE <<i, j>> \in W /\ <<j, k>> \in W
    BY <2>3, <1>1 DEF WeakOrder
  <2>4. CASE <<i, j>> \in W /\ <<j, k>> \notin W
    BY <2>4, <2>2, <1>1 DEF WeakOrder
  <2>5. CASE <<i, j>> \notin W /\ <<j, k>> \in W
    BY <2>5, <2>1, <1>1 DEF WeakOrder
  <2>6. CASE <<i, j>> \notin W /\ <<j, k>> \notin W
    <3>1. <<k, i>> \notin W
      BY <2>1, <2>2, <2>6 DEF WeakOrder
    <3> QED
      BY <3>1, <2>1, <2>2, <2>6, <1>1
  <2> QED
    BY <2>3, <2>4, <2>5, <2>6
<1> QED
  BY <1>2, <1>3, <1>4 DEF StrictOrder

\* The composer's priorities change the order alone.
LEMMA PrioritizeFacts ==
  ASSUME NEW s, List(s), NEW p
  PROVE  List(Prioritize(p, s)) /\ SetOf(Prioritize(p, s)) \subseteq SetOf(s)
<1> DEFINE n == Len(s)
           rank(e) == IF e.id[2] \in DOMAIN FactRank THEN FactRank[e.id[2]] ELSE 7
           overview(e) == IF e.words \cap OverviewWords # {} THEN 0 ELSE 1
           dense(e) == Cardinality(e.words \cap Numbers)
           report == p.focus # "disclosure" /\ p.intent = "research_report_summary"
           W == {q \in (1..n) \X (1..n) :
                   LET a == s[q[1]]
                       b == s[q[2]] IN
                   \/ p.focus = "disclosure" /\ rank(a) < rank(b)
                   \/ report /\ (overview(a) < overview(b) \/ (overview(a) = overview(b) /\ dense(a) < dense(b)))}
<1>1. n \in Nat /\ DOMAIN s = 1..n /\ IsFiniteSet(1..n) /\ Cardinality(1..n) = n
  BY FS_Interval DEF List
<1>2. \A e : rank(e) \in Nat /\ overview(e) \in Nat /\ dense(e) \in Nat
  <2> TAKE e
  <2>1. rank(e) \in Nat
    BY TextAssumption
  <2>2. IsFiniteSet(e.words \cap Numbers)
    BY TextAssumption, FS_Subset, e.words \cap Numbers \subseteq Numbers
  <2>3. dense(e) \in Nat
    BY <2>2, FS_CardinalityType
  <2> QED
    BY <2>1, <2>3
<1>3. \A i, j \in 1..n :
        <<i, j>> \in W <=>
          \/ p.focus = "disclosure" /\ rank(s[i]) < rank(s[j])
          \/ report /\ (overview(s[i]) < overview(s[j])
                          \/ (overview(s[i]) = overview(s[j]) /\ dense(s[i]) < dense(s[j])))
  OBVIOUS
<1> HIDE DEF rank, overview, dense, W
<1>4. WeakOrder(n, W)
  <2>1. CASE p.focus = "disclosure"
    <3>1. \A i, j \in 1..n : <<i, j>> \in W <=> rank(s[i]) < rank(s[j])
      BY <2>1, <1>3
    <3>2. ASSUME NEW i \in 1..n, NEW j \in 1..n, NEW k \in 1..n
          PROVE  /\ <<i, i>> \notin W
                 /\ <<i, j>> \in W /\ <<j, k>> \in W => <<i, k>> \in W
                 /\ <<i, j>> \notin W /\ <<j, k>> \notin W => <<i, k>> \notin W
      <4>1. rank(s[i]) \in Nat /\ rank(s[j]) \in Nat /\ rank(s[k]) \in Nat
        BY <1>2
      <4>2. /\ <<i, i>> \in W <=> rank(s[i]) < rank(s[i])
            /\ <<i, j>> \in W <=> rank(s[i]) < rank(s[j])
            /\ <<j, k>> \in W <=> rank(s[j]) < rank(s[k])
            /\ <<i, k>> \in W <=> rank(s[i]) < rank(s[k])
        BY <3>1
      <4> QED
        BY <4>1, <4>2
    <3> QED
      BY <3>2 DEF WeakOrder
  <2>2. CASE report
    <3> DEFINE o == [i \in 1..n |-> overview(s[i])]
               d == [i \in 1..n |-> dense(s[i])]
    <3>1. ASSUME NEW i \in 1..n, NEW j \in 1..n
          PROVE  <<i, j>> \in W <=> o[i] < o[j] \/ (o[i] = o[j] /\ d[i] < d[j])
      <4>1. ~(p.focus = "disclosure")
        BY <2>2
      <4>2. <<i, j>> \in W <=> \/ overview(s[i]) < overview(s[j])
                               \/ overview(s[i]) = overview(s[j]) /\ dense(s[i]) < dense(s[j])
        BY <4>1, <2>2, <1>3
      <4> QED
        BY <4>2
    <3>2. \A i \in 1..n : o[i] \in Nat /\ d[i] \in Nat
      BY <1>2
    <3> HIDE DEF o, d
    <3>3. \A i \in 1..n : <<i, i>> \notin W
      BY <3>1, <3>2
    <3>4. ASSUME NEW i \in 1..n, NEW j \in 1..n, NEW k \in 1..n
          PROVE  /\ <<i, j>> \in W /\ <<j, k>> \in W => <<i, k>> \in W
                 /\ <<i, j>> \notin W /\ <<j, k>> \notin W => <<i, k>> \notin W
      <4> DEFINE o1 == o[i]
                 o2 == o[j]
                 o3 == o[k]
                 d1 == d[i]
                 d2 == d[j]
                 d3 == d[k]
      <4>1. /\ o1 \in Nat /\ o2 \in Nat /\ o3 \in Nat
            /\ d1 \in Nat /\ d2 \in Nat /\ d3 \in Nat
        BY <3>2
      <4>2. /\ <<i, j>> \in W <=> o1 < o2 \/ (o1 = o2 /\ d1 < d2)
            /\ <<j, k>> \in W <=> o2 < o3 \/ (o2 = o3 /\ d2 < d3)
            /\ <<i, k>> \in W <=> o1 < o3 \/ (o1 = o3 /\ d1 < d3)
        BY <3>1
      <4> HIDE DEF o1, o2, o3, d1, d2, d3
      <4> QED
        BY <4>1, <4>2
    <3> QED
      BY <3>3, <3>4 DEF WeakOrder
  <2>3. CASE ~(p.focus = "disclosure") /\ ~report
    <3>1. \A i, j \in 1..n : <<i, j>> \notin W
      BY <2>3, <1>3
    <3> QED
      BY <3>1 DEF WeakOrder
  <2> QED
    BY <2>1, <2>2, <2>3
<1>5. StrictOrder(1..n, Tied(n, W))
  BY <1>1, <1>4, TiedIsStrict
<1> DEFINE before(a, b) ==
             CASE p.focus = "disclosure" -> rank(a) < rank(b)
               [] p.focus # "disclosure" /\ p.intent = "research_report_summary" ->
                    \/ overview(a) < overview(b)
                    \/ overview(a) = overview(b) /\ dense(a) < dense(b)
               [] OTHER -> FALSE
           first(i, j) == \/ before(s[i], s[j])
                          \/ ~before(s[j], s[i]) /\ i < j
           nth(k) == CHOOSE x \in 1..n : Cardinality({y \in 1..n : first(y, x)}) = k - 1
<1>6. Prioritize(p, s) = [k \in 1..n |-> s[nth(k)]]
  BY <1>1 DEF Prioritize, Ordered, Nth, rank, overview, dense
<1>7. \A i, j \in 1..n : first(i, j) <=> <<i, j>> \in Tied(n, W)
  <2> SUFFICES ASSUME NEW i \in 1..n, NEW j \in 1..n
               PROVE  first(i, j) <=> <<i, j>> \in Tied(n, W)
    OBVIOUS
  <2>1. \A k, l \in 1..n : before(s[k], s[l]) <=> <<k, l>> \in W
    BY <1>3
  <2> HIDE DEF before
  <2> QED
    BY <2>1 DEF Tied
<1> HIDE DEF first
<1>8. ASSUME NEW k \in 1..n PROVE nth(k) \in 1..n
  <2>1. PICK x \in 1..n : Rank(1..n, Tied(n, W), x) = k - 1
    BY <1>1, <1>5, RankOnto
  <2>2. {y \in 1..n : first(y, x)} = {y \in 1..n : <<y, x>> \in Tied(n, W)}
    BY <1>7
  <2>3. Cardinality({y \in 1..n : first(y, x)}) = k - 1
    BY <2>1, <2>2 DEF Rank
  <2> QED
    BY <2>3
<1> HIDE DEF nth
<1>9. List([k \in 1..n |-> s[nth(k)]])
  BY <1>1 DEF List
<1> QED
  BY <1>1, <1>6, <1>8, <1>9 DEF SetOf, ToSet

-----------------------------------------------------------------------------
(* Composing: what the composer may come to *)

\* What is composed of what was chosen: what it shows is chosen, is about the plan's
\* security, and is what its claims rest on.
Composition(c, chosen, p) ==
  /\ SetOf(c.evidence) \subseteq SetOf(chosen)
  /\ \A e \in SetOf(c.evidence) : OnTarget(e, p) /\ e.source \in SetOf(p.sources)
  /\ Rests(c.claims, c.evidence)

\* A list of one.
LEMMA Singleton == ASSUME NEW e PROVE SetOf(<<e>>) = {e} /\ List(<<e>>)
<1>1. DOMAIN <<e>> = {1} /\ <<e>>[1] = e
  OBVIOUS
<1>2. SetOf(<<e>>) = {e}
  BY <1>1 DEF SetOf, ToSet
<1>3. List(<<e>>)
  BY SeqList, <<e>> \in Seq({e})
<1> QED
  BY <1>2, <1>3

\* The empty list.
LEMMA EmptyIs == List(<< >>) /\ SetOf(<< >>) = {}
<1>1. << >> \in Seq({})
  OBVIOUS
<1>2. List(<< >>)
  BY <1>1, SeqList
<1>3. SetOf(<< >>) = {}
  BY DEF SetOf, ToSet
<1> QED
  BY <1>2, <1>3

\* The claims that were not added.
LEMMA WhereAdded ==
  ASSUME NEW claims, List(claims)
  PROVE  SetOf(Where(claims, LAMBDA c : ~c.added)) = {c \in SetOf(claims) : ~c.added}
<1> DEFINE I == {i \in DOMAIN claims : ~claims[i].added}
<1>1. Where(claims, LAMBDA c : ~c.added) = ItemsAt(claims, I)
  BY DEF Where
<1>2. ToSet(ItemsAt(claims, I)) = {claims[i] : i \in I}
  BY ItemsAtFacts
<1>3. {claims[i] : i \in I} = {c \in SetOf(claims) : ~c.added}
  BY DEF SetOf, ToSet
<1> QED
  BY <1>1, <1>2, <1>3 DEF SetOf

\* What is accepted for a fixed answer is on target, and no wording of it is advice.
LEMMA AcceptedFacts ==
  ASSUME NEW q, NEW p, NEW e, Accepted(q, p, e)
  PROVE  /\ OnTarget(e, p) /\ e.source \in SetOf(p.sources)
         /\ \A section : ~Advice(FixedClaim(q, p, e, section).words)
<1> DEFINE claim == FixedClaim(q, p, e, "facts")
<1>1. ~Advice(claim.words) /\ ~CitationsRefused(<<claim>>, p, <<e>>) /\ Holds(claim, p, <<e>>)
  BY DEF Accepted
<1>2. \A section : FixedClaim(q, p, e, section).words = claim.words
  BY DEF FixedClaim
<1>3. claim.cites = <<e.id>>
  BY DEF FixedClaim
<1>4. e \in Cited(claim, <<e>>)
  BY <1>3, Singleton DEF Cited
<1> HIDE DEF claim
<1>5. OnTarget(e, p)
  BY <1>1, <1>4 DEF Holds
<1>6. e.source \in SetOf(p.sources)
  BY <1>1, Singleton DEF CitationsRefused
<1> QED
  BY <1>1, <1>2, <1>5, <1>6

\* A fixed claim rests on the piece it tells.
LEMMA FixedClaimFacts ==
  ASSUME NEW q, NEW p, NEW e, NEW section, NEW evidence, e \in SetOf(evidence),
         NEW c, c = FixedClaim(q, p, e, section), ~Advice(c.words)
  PROVE  RestsOn(c, evidence) /\ SetOf(c.cites) = {e.id} /\ c.section = section
<1>1. c.cites = <<e.id>> /\ c.added = FALSE /\ c.section = section
  BY DEF FixedClaim
<1>2. c.words \cap Numbers \subseteq e.words
  BY TextAssumption DEF FixedClaim
<1>3. SetOf(c.cites) = {e.id} /\ c.cites # << >>
  BY <1>1, Singleton
<1>4. e \in Cited(c, evidence)
  BY <1>3 DEF Cited
<1> QED
  BY <1>1, <1>2, <1>3, <1>4 DEF Ids, RestsOn

\* Fixed claims rest on the pieces they tell, one for one.
LEMMA FixedRests ==
  ASSUME NEW q, NEW p, NEW shown, List(shown),
         \A e \in SetOf(shown) : Accepted(q, p, e),
         NEW part, NEW claims, claims = [i \in DOMAIN shown |-> FixedClaim(q, p, shown[i], part[i])],
         ~({"positive_factors", "risk_factors"} \subseteq {part[i] : i \in DOMAIN shown})
  PROVE  /\ Rests(claims, shown)
         /\ \A e \in SetOf(shown) : OnTarget(e, p) /\ e.source \in SetOf(p.sources)
<1>1. List(claims) /\ DOMAIN claims = DOMAIN shown
  BY DEF List
<1>2. \A i \in DOMAIN shown : claims[i] = FixedClaim(q, p, shown[i], part[i]) /\ shown[i] \in SetOf(shown)
  BY DEF SetOf, ToSet
<1>3. \A c \in SetOf(claims) : \E i \in DOMAIN shown : c = claims[i]
  BY <1>1 DEF SetOf, ToSet
<1>4. \A i \in DOMAIN shown : claims[i] \in SetOf(claims)
  BY <1>1 DEF SetOf, ToSet
<1>5. \A e \in SetOf(shown) : \E i \in DOMAIN shown : e = shown[i]
  BY DEF SetOf, ToSet
<1>6. ASSUME NEW i \in DOMAIN shown
      PROVE  RestsOn(claims[i], shown) /\ SetOf(claims[i].cites) = {shown[i].id} /\ claims[i].section = part[i]
  <2> DEFINE c == claims[i]
             e == shown[i]
  <2>1. c = FixedClaim(q, p, e, part[i]) /\ e \in SetOf(shown)
    BY <1>2
  <2>2. ~Advice(c.words)
    BY <2>1, AcceptedFacts
  <2> HIDE DEF c, e
  <2>3. RestsOn(c, shown) /\ SetOf(c.cites) = {e.id} /\ c.section = part[i]
    BY <2>1, <2>2, FixedClaimFacts
  <2> QED
    BY <2>3 DEF c, e
<1>7. ~OneSided(Where(claims, LAMBDA c : ~c.added))
  <2> DEFINE w == Where(claims, LAMBDA c : ~c.added)
  <2>1. SetOf(w) \subseteq SetOf(claims)
    BY <1>1, WhereAdded
  <2> HIDE DEF w
  <2>2. {c.section : c \in SetOf(w)} \subseteq {part[i] : i \in DOMAIN shown}
    BY <2>1, <1>3, <1>6
  <2>3. ~OneSided(w)
    BY <2>2 DEF OneSided
  <2> QED
    BY <2>3 DEF w
<1>8. \A c \in SetOf(claims) : RestsOn(c, shown)
  BY <1>3, <1>6
<1>9. \A e \in SetOf(shown) : \E c \in SetOf(claims) : e.id \in SetOf(c.cites)
  BY <1>4, <1>5, <1>6
<1>10. \A e \in SetOf(shown) : OnTarget(e, p) /\ e.source \in SetOf(p.sources)
  BY AcceptedFacts
<1> QED
  BY <1>7, <1>8, <1>9, <1>10 DEF Rests

\* A list with some of the items of another.
Part(t, s) == List(t) /\ SetOf(t) \subseteq SetOf(s)

\* The items at some positions are a part.
LEMMA ItemsPart ==
  ASSUME NEW s, List(s), NEW I \in SUBSET DOMAIN s
  PROVE  Part(ItemsAt(s, I), s) /\ SetOf(ItemsAt(s, I)) = {s[i] : i \in I}
<1>1. List(ItemsAt(s, I)) /\ SetOf(ItemsAt(s, I)) = {s[i] : i \in I}
  BY ItemsAtFacts DEF SetOf
<1> QED
  BY <1>1 DEF Part, SetOf, ToSet

\* What was requested is a part of what was chosen.
LEMMA RequestedFacts ==
  ASSUME NEW s, List(s), NEW q
  PROVE  Part(Requested(q, s), s)
<1> DEFINE I == {i \in DOMAIN s : s[i].source \in q.requests}
<1>1. Requested(q, s) = s \/ Requested(q, s) = ItemsAt(s, I)
  BY DEF Requested, Where
<1>2. Part(ItemsAt(s, I), s)
  BY ItemsPart
<1>3. Part(s, s)
  BY DEF Part
<1> QED
  BY <1>1, <1>2, <1>3

\* What may be sent is a part of what was chosen.
LEMMA SendableFacts ==
  ASSUME NEW s, List(s), NEW docs
  PROVE  Part(Sendable(s, docs), s)
<1> DEFINE I == {i \in DOMAIN s : s[i].source = "research_report" =>
                    s[i].doc \in DOMAIN docs /\ docs[s[i].doc].external}
<1>1. Sendable(s, docs) = ItemsAt(s, I)
  BY DEF Sendable, Where
<1> QED
  BY <1>1, ItemsPart

\* What is projected is a part of what was chosen.
LEMMA ProjectFacts ==
  ASSUME NEW s, List(s), NEW p, List(p.sources)
  PROVE  Part(Project(p, s), s)
<1>1. Project(p, s) = s \/ Project(p, s) = SourceDiverse(s, p.sources)
  BY DEF Project
<1> QED
  BY <1>1, DiverseFacts DEF Part

\* The limit of a fixed answer is a number.
LEMMA FixedLimitNat ==
  ASSUME NEW q, NEW p
  PROVE  FixedLimit(q, p) \in Nat
<1> DEFINE b1 == p.focus = "disclosure" /\ q.cues \cap {"core", "again"} # {}
           b2 == p.intent = "research_report_summary" /\ "easy" \in q.cues
           b3 == q.cues \cap {"core", "brief", "easy", "again"} # {}
           b4 == p.focus \in {"recent_events", "performance", "disclosure"}
           b5 == p.focus \in {"positive", "risk", "outlook", "shareholder_return"}
           rules == << <<b1, 2>>, <<b2, 2>>, <<b3, 3>>, <<b4, 4>>, <<b5, 5>>, <<TRUE, 6>> >>
           I == {i \in DOMAIN rules : rules[i][1]}
<1>1. FixedLimit(q, p) = rules[Min(I)][2]
  BY DEF FixedLimit, First
<1>2. DOMAIN rules = 1..6
  OBVIOUS
<1>3. rules[6][1] = TRUE /\ \A i \in 1..6 : rules[i][2] \in Nat
  OBVIOUS
<1> HIDE DEF rules
<1>4. 6 \in I /\ I \in SUBSET Nat
  BY <1>2, <1>3
<1>5. Min(I) \in I
  BY <1>4, MinIs
<1>6. Min(I) \in 1..6
  BY <1>5, <1>2
<1> HIDE DEF I
<1> QED
  BY <1>1, <1>3, <1>6

\* Nothing rests on nothing.
LEMMA EmptyComposition ==
  ASSUME NEW reason, NEW result, NEW chosen, NEW p
  PROVE  Composition(Empty(reason, result), chosen, p)
<1>1. Empty(reason, result).claims = << >> /\ Empty(reason, result).evidence = << >>
  BY DEF Empty
<1> DEFINE w == Where(<< >>, LAMBDA c : ~c.added)
<1>2. SetOf(w) = {}
  BY EmptyIs, WhereAdded
<1> HIDE DEF w
<1>3. ~OneSided(w)
  BY <1>2 DEF OneSided
<1>4. Rests(<< >>, << >>)
  BY <1>3, EmptyIs DEF Rests, w
<1> QED
  BY <1>1, <1>4, EmptyIs DEF Composition

\* A fixed answer from the glossary.
LEMMA GlossaryComposition ==
  ASSUME NEW p, NEW s, List(s), NEW result, NEW chosen, SetOf(s) \subseteq SetOf(chosen)
  PROVE  Composition(FixedGlossary(p, s, result), chosen, p)
<1> DEFINE part == [i \in DOMAIN s |-> GlossarySection[s[i].id[2]]]
           claims == [i \in DOMAIN s |-> FixedClaim(Silent, p, s[i], part[i])]
           told == [mode |-> "fixed", result |-> result, claims |-> claims, evidence |-> s]
<1>1. CASE FixedGlossary(p, s, result) = Empty("no_evidence", result)
  BY <1>1, EmptyComposition
<1>2. CASE FixedGlossary(p, s, result) # Empty("no_evidence", result)
  <2>1. /\ \A e \in SetOf(s) : e.id[2] \in DOMAIN GlossarySection /\ Accepted(Silent, p, e)
        /\ FixedGlossary(p, s, result) = told
    BY <1>2 DEF FixedGlossary
  <2>2. \A i \in DOMAIN s : part[i] \in {"summary", "interpretation", "uncertainty", "facts"}
    <3> SUFFICES ASSUME NEW i \in DOMAIN s
                 PROVE  GlossarySection[s[i].id[2]] \in {"summary", "interpretation", "uncertainty", "facts"}
      OBVIOUS
    <3>1. s[i].id[2] \in DOMAIN GlossarySection
      BY <2>1 DEF SetOf, ToSet
    <3> QED
      BY <3>1 DEF GlossarySection
  <2>3. ~({"positive_factors", "risk_factors"} \subseteq {part[i] : i \in DOMAIN s})
    BY <2>2
  <2> HIDE DEF part
  <2>4. /\ Rests(claims, s)
        /\ \A e \in SetOf(s) : OnTarget(e, p) /\ e.source \in SetOf(p.sources)
    BY <2>1, <2>3, FixedRests
  <2>5. told.claims = claims /\ told.evidence = s
    OBVIOUS
  <2> HIDE DEF told, claims
  <2> QED
    BY <2>1, <2>4, <2>5 DEF Composition
<1> QED
  BY <1>1, <1>2

\* A fixed answer, whatever was asked and chosen: _fixed_result.
LEMMA FixedComposition ==
  ASSUME NEW q, NEW p, List(p.sources), NEW chosen, List(chosen), NEW result, NEW reason
  PROVE  Composition(FixedResult(q, p, chosen, result, reason), chosen, p)
<1> DEFINE s == IF q = Silent THEN chosen ELSE Requested(q, chosen)
           limit == IF q = Silent THEN FixedLimit([cues |-> {}], p) ELSE FixedLimit(q, p)
           best == Top(Project(p, Prioritize(p, s)), limit)
           I == {i \in DOMAIN best : Accepted(q, p, best[i])}
           shown == ItemsAt(best, I)
           part == [i \in DOMAIN shown |-> IF i = 1 THEN "summary" ELSE DetailSection(p)]
           claims == [i \in DOMAIN shown |-> FixedClaim(q, p, shown[i], part[i])]
           told == [mode |-> "fixed", result |-> result, evidence |-> shown, claims |-> claims]
           c == FixedResult(q, p, chosen, result, reason)
<1>1. Part(s, chosen)
  BY RequestedFacts DEF Part
<1>2. List(best) /\ SetOf(best) \subseteq SetOf(s)
  <2>1. List(Prioritize(p, s)) /\ SetOf(Prioritize(p, s)) \subseteq SetOf(s)
    BY <1>1, PrioritizeFacts DEF Part
  <2>2. Part(Project(p, Prioritize(p, s)), Prioritize(p, s))
    BY <2>1, ProjectFacts
  <2>3. limit \in Nat
    BY FixedLimitNat
  <2>4. List(best) /\ SetOf(best) \subseteq SetOf(Project(p, Prioritize(p, s)))
    BY <2>2, <2>3, TopFacts DEF Part
  <2> QED
    BY <2>1, <2>2, <2>4 DEF Part
<1>3. \/ \E why \in {"blocked", "no_evidence", reason} : c = Empty(why, result)
      \/ c = FixedGlossary(p, s, result)
      \/ c = told
  BY DEF FixedResult, Where
<1>4. Composition(FixedGlossary(p, s, result), chosen, p)
  BY <1>1, GlossaryComposition DEF Part
<1>5. Composition(told, chosen, p)
  <2>1. Part(shown, best) /\ SetOf(shown) = {best[i] : i \in I}
    <3> HIDE DEF best
    <3> QED
      BY <1>2, ItemsPart
  <2>2. \A e \in SetOf(shown) : Accepted(q, p, e)
    BY <2>1
  <2>3. \A i \in DOMAIN shown :
          part[i] \in {"summary", DetailSection(p)}
    OBVIOUS
  <2>4. ~({"positive_factors", "risk_factors"} \subseteq {part[i] : i \in DOMAIN shown})
    BY <2>3
  <2>5. told.claims = claims /\ told.evidence = shown
    OBVIOUS
  <2> HIDE DEF shown, part
  <2>6. /\ Rests(claims, shown)
        /\ \A e \in SetOf(shown) : OnTarget(e, p) /\ e.source \in SetOf(p.sources)
    BY <2>1, <2>2, <2>4, FixedRests DEF Part
  <2> HIDE DEF told, claims, best, s
  <2> QED
    BY <1>1, <1>2, <2>1, <2>5, <2>6 DEF Composition, Part
<1> HIDE DEF told, s, c
<1> QED
  BY <1>3, <1>4, <1>5, EmptyComposition DEF c

-----------------------------------------------------------------------------
(* Composing with a model *)

\* A draft that was expanded and augmented is a list, of claims that were not added.
LEMMA DraftedFacts ==
  ASSUME NEW d, List(d), NEW sent, NEW p
  PROVE  /\ List(Augmented(Expanded(d, sent), p, sent))
         /\ \A c \in SetOf(Augmented(Expanded(d, sent), p, sent)) : c.added = FALSE
<1> DEFINE x == Expanded(d, sent)
           caveat == SelectInSeq(sent, LAMBDA e : e.words \cap CaveatWords # {} /\ ~Advice(e.words))
           more == [section |-> "uncertainty", cites |-> <<sent[caveat].id>>,
                    words |-> sent[caveat].words, verbatim |-> TRUE, added |-> FALSE]
<1>1. List(x) /\ \A i \in DOMAIN x : x[i].added = FALSE
  BY DEF Expanded, List
<1>2. \A c \in SetOf(x) : c.added = FALSE
  BY <1>1 DEF SetOf, ToSet
<1>3. Augmented(x, p, sent) = x \/ Augmented(x, p, sent) = Append(x, more)
  BY DEF Augmented
<1>4. more.added = FALSE
  OBVIOUS
<1> HIDE DEF x, more
<1>5. Append(x, more) = x \o <<more>>
  <2>1. x \in Seq(ToSet(x) \cup {more})
    BY <1>1, ListSeq
  <2>2. more \in ToSet(x) \cup {more}
    OBVIOUS
  <2> QED
    BY <2>1, <2>2, AppendIsConcat
<1>6. List(x \o <<more>>) /\ SetOf(x \o <<more>>) = SetOf(x) \cup {more}
  BY <1>1, ListJoin, Singleton DEF SetOf
<1>7. \A c \in SetOf(x \o <<more>>) : c.added = FALSE
  BY <1>2, <1>4, <1>6
<1> QED
  BY <1>1, <1>2, <1>3, <1>5, <1>6, <1>7 DEF x

\* What a draft is validated to: supported, no advice, not one-sided.
LEMMA ValidateFacts ==
  ASSUME NEW claims, List(claims), NEW p, NEW sent, NEW v, v = ValidateDraft(claims, p, sent)
  PROVE  /\ Part(v, claims) /\ ~OneSided(v)
         /\ \A c \in SetOf(v) : Supported(c, p, sent) /\ ~Advice(c.words)
<1> DEFINE I == {i \in DOMAIN claims : Supported(claims[i], p, sent)}
           w == ItemsAt(claims, I)
<1>1. \/ v = << >>
      \/ v = w /\ ~OneSided(w) /\ \A c \in SetOf(claims) : ~Advice(c.words)
  BY DEF ValidateDraft, Where
<1>2. Part(w, claims) /\ SetOf(w) = {claims[i] : i \in I}
  BY ItemsPart
<1>3. \A c \in SetOf(w) : Supported(c, p, sent)
  BY <1>2
<1> HIDE DEF w
<1>4. ~OneSided(<< >>)
  BY EmptyIs DEF OneSided
<1>5. Part(<< >>, claims)
  BY EmptyIs DEF Part
<1>6. \A c \in SetOf(w) : c \in SetOf(claims)
  BY <1>2 DEF Part
<1> QED
  BY <1>1, <1>2, <1>3, <1>4, <1>5, <1>6, EmptyIs

\* A claim that holds cites something.
LEMMA HoldsCites ==
  ASSUME NEW c, NEW p, NEW sent, Holds(c, p, sent)
  PROVE  c.cites # << >>
<1> DEFINE cited == Cited(c, sent)
           overlap == c.words \cap UNION {e.words : e \in cited}
<1>1. Cardinality(cited) = 1 \/ Cardinality(overlap) >= 2
  BY DEF Holds, GroundedIn
<1>2. cited # {}
  <2> SUFFICES ASSUME cited = {} PROVE FALSE
    OBVIOUS
  <2>1. overlap = {}
    OBVIOUS
  <2>2. Cardinality({}) = 0
    BY FS_EmptySet
  <2> HIDE DEF cited, overlap
  <2> QED
    BY <1>1, <2>1, <2>2
<1>3. PICK e \in cited : TRUE
  BY <1>2
<1>4. e.id \in SetOf(c.cites)
  BY <1>3 DEF Cited
<1> QED
  BY <1>4, EmptyIs

\* What stands holds, unless nothing does.
LEMMA StandingFacts ==
  ASSUME NEW claims, List(claims), NEW p, NEW sent,
         \A c \in SetOf(claims) : Supported(c, p, sent) /\ ~Advice(c.words),
         ~OneSided(claims),
         NEW t, t = Standing(claims, p, sent), t # << >>
  PROVE  /\ Part(t, claims) /\ ~OneSided(t)
         /\ \A c \in SetOf(t) : Holds(c, p, sent)
         /\ \A e \in SetOf(sent) : e.source \in SetOf(p.sources)
<1> DEFINE I == {i \in DOMAIN claims : Holds(claims[i], p, sent)}
           holding == ItemsAt(claims, I)
           again == ValidateDraft(holding, p, sent)
<1>1. /\ ~CitationsRefused(claims, p, sent)
      /\ (t = claims /\ holding = claims) \/ t = again
  BY DEF Standing, Where
<1>2. \A e \in SetOf(sent) : e.source \in SetOf(p.sources)
  BY <1>1 DEF CitationsRefused
<1>3. Part(holding, claims) /\ SetOf(holding) = {claims[i] : i \in I}
  BY ItemsPart
<1>4. \A c \in SetOf(holding) : Holds(c, p, sent)
  BY <1>3
<1> HIDE DEF holding
<1>5. Part(again, holding) /\ ~OneSided(again)
  BY <1>3, ValidateFacts DEF Part
<1> HIDE DEF again
<1>6. Part(claims, claims)
  BY DEF Part
<1>7. Part(t, claims) /\ Part(t, holding) /\ ~OneSided(t)
  BY <1>1, <1>3, <1>5, <1>6 DEF Part
<1> QED
  BY <1>2, <1>4, <1>7 DEF Part

\* The claim by which a report is added.
AddedOf(q, p, e) ==
  [FixedClaim(q, p, e, DetailSection(p)) EXCEPT
     !.words = e.words \cup TemplateWords, !.verbatim = FALSE, !.added = TRUE]

\* x is a report that was added, with its claim.
Added(x, q, p, evidence) ==
  /\ x.report \in SetOf(evidence) /\ x.claim = AddedOf(q, p, x.report)
  /\ ~Advice(x.report.words)
  /\ ~CitationsRefused(<<x.claim>>, p, <<x.report>>) /\ Holds(x.claim, p, <<x.report>>)

\* Merging adds such reports, and nothing else.
LEMMA MergedIs ==
  ASSUME NEW q, NEW p, NEW evidence, List(evidence), NEW claims, NEW public
  PROVE  \E told : /\ Merged(q, p, evidence, claims, public) = WithReports(claims, public, told)
                   /\ List(told) /\ \A x \in SetOf(told) : Added(x, q, p, evidence)
<1> DEFINE J == {i \in DOMAIN evidence : evidence[i].source = "research_report"}
           reports == Top(ItemsAt(evidence, J), 2)
           pairs == [i \in DOMAIN reports |-> [report |-> reports[i], claim |-> AddedOf(q, p, reports[i])]]
           usable(t) == /\ t.report.id \notin Ids(public)
                        /\ ~Advice(t.report.words) /\ MatchesFocus(t.report, p)
                        /\ ~CitationsRefused(<<t.claim>>, p, <<t.report>>)
                        /\ Holds(t.claim, p, <<t.report>>)
           K == {i \in DOMAIN pairs : usable(pairs[i])}
           told == ItemsAt(pairs, K)
<1>1. \/ Merged(q, p, evidence, claims, public) = WithReports(claims, public, << >>)
      \/ Merged(q, p, evidence, claims, public) = WithReports(claims, public, told)
  BY DEF Merged, Where, AddedOf
<1>2. List(reports) /\ SetOf(reports) \subseteq SetOf(evidence)
  <2>1. Part(ItemsAt(evidence, J), evidence)
    BY ItemsPart
  <2> QED
    BY <2>1, TopFacts DEF Part
<1> HIDE DEF reports
<1>3. List(pairs)
  BY <1>2 DEF List
<1>4. \A i \in DOMAIN pairs : /\ pairs[i].report \in SetOf(evidence)
                               /\ pairs[i].claim = AddedOf(q, p, pairs[i].report)
  BY <1>2 DEF SetOf, ToSet
<1> HIDE DEF pairs
<1>5. Part(told, pairs) /\ SetOf(told) = {pairs[i] : i \in K}
  BY <1>3, ItemsPart
<1>6. \A x \in SetOf(told) : Added(x, q, p, evidence)
  <2> SUFFICES ASSUME NEW i \in K PROVE Added(pairs[i], q, p, evidence)
    BY <1>5
  <2> QED
    BY <1>4 DEF Added
<1> HIDE DEF told
<1> QED
  BY <1>1, <1>5, <1>6, EmptyIs DEF Part

\* A report that was added is on target, and its claim rests on it.
LEMMA AddedFacts ==
  ASSUME NEW q, NEW p, NEW evidence, NEW x, Added(x, q, p, evidence)
  PROVE  /\ x.claim.added = TRUE /\ x.report.id \in SetOf(x.claim.cites)
         /\ OnTarget(x.report, p) /\ x.report.source \in SetOf(p.sources)
         /\ \A both : x.report \in SetOf(both) => RestsOn(x.claim, both)
<1> DEFINE e == x.report
           c == x.claim
<1>1. c.added = TRUE /\ c.cites = <<e.id>> /\ c.words = e.words \cup TemplateWords
  BY DEF Added, AddedOf, FixedClaim
<1>2. ~Advice(e.words) /\ ~CitationsRefused(<<c>>, p, <<e>>) /\ Holds(c, p, <<e>>)
  BY DEF Added
<1> HIDE DEF e, c
<1>3. SetOf(c.cites) = {e.id} /\ c.cites # << >>
  BY <1>1, Singleton
<1>4. e \in Cited(c, <<e>>)
  BY <1>3, Singleton DEF Cited
<1>5. OnTarget(e, p)
  BY <1>2, <1>4 DEF Holds
<1>6. e.source \in SetOf(p.sources)
  BY <1>2, Singleton DEF CitationsRefused
<1>7. ASSUME NEW both, e \in SetOf(both) PROVE RestsOn(c, both)
  <2>1. e \in Cited(c, both) /\ e.id \in Ids(both)
    BY <1>3, <1>7 DEF Cited, Ids
  <2>2. c.words \cap Numbers \subseteq e.words
    BY <1>1, TextAssumption
  <2>3. c.words \cap Numbers \subseteq UNION {f.words : f \in Cited(c, both)}
    BY <2>1, <2>2
  <2> QED
    BY <1>1, <1>2, <1>3, <2>1, <2>3 DEF RestsOn
<1> QED
  BY <1>1, <1>3, <1>5, <1>6, <1>7 DEF e, c

\* The claims that stand, with the reports that are added, rest on what is shown.
LEMMA MergedRests ==
  ASSUME NEW q, NEW p, NEW evidence, NEW sent, List(sent),
         NEW t, List(t), ~OneSided(t),
         \A c \in SetOf(t) : /\ Holds(c, p, sent) /\ Supported(c, p, sent)
                             /\ ~Advice(c.words) /\ c.added = FALSE,
         \A e \in SetOf(sent) : e.source \in SetOf(p.sources),
         NEW public, Part(public, sent),
         \A e \in SetOf(sent) : e \in SetOf(public) <=> \E c \in SetOf(t) : e.id \in SetOf(c.cites),
         NEW told, List(told), \A x \in SetOf(told) : Added(x, q, p, evidence),
         SetOf(sent) \cup SetOf(evidence) \subseteq SetOf(evidence)
  PROVE  Composition(WithReports(t, public, told), evidence, p)
<1> DEFINE claims == [i \in DOMAIN told |-> told[i].claim]
           reports == [i \in DOMAIN told |-> told[i].report]
           all == t \o claims
           both == public \o reports
<1>1. /\ List(claims) /\ SetOf(claims) = {x.claim : x \in SetOf(told)}
      /\ List(reports) /\ SetOf(reports) = {x.report : x \in SetOf(told)}
  BY DEF List, SetOf, ToSet
<1>2. WithReports(t, public, told).claims = all /\ WithReports(t, public, told).evidence = both
  BY DEF WithReports
<1> HIDE DEF claims, reports
<1>3. /\ List(all) /\ SetOf(all) = SetOf(t) \cup SetOf(claims)
      /\ SetOf(both) = SetOf(public) \cup SetOf(reports)
  BY <1>1, ListJoin DEF SetOf, Part
<1> HIDE DEF all, both
<1>4. ASSUME NEW c \in SetOf(t) PROVE RestsOn(c, both)
  <2>1. c.cites # << >>
    BY HoldsCites
  <2>2. \A e \in Cited(c, sent) : e \in Cited(c, both)
    BY <1>3 DEF Cited
  <2>3. ASSUME NEW id \in SetOf(c.cites) PROVE id \in Ids(both)
    <3>1. PICK e \in SetOf(sent) : e.id = id
      BY DEF Holds, Ids
    <3>2. e \in SetOf(both)
      BY <3>1, <1>3
    <3> QED
      BY <3>1, <3>2 DEF Ids
  <2>4. c.words \cap Numbers \subseteq UNION {e.words : e \in Cited(c, both)}
    <3> SUFFICES ASSUME NEW n \in c.words \cap Numbers PROVE \E e \in Cited(c, both) : n \in e.words
      OBVIOUS
    <3>1. PICK e \in Cited(c, sent) : n \in e.words
      BY DEF Supported
    <3> QED
      BY <3>1, <2>2
  <2> QED
    BY <2>1, <2>3, <2>4 DEF RestsOn
<1>5. \A x \in SetOf(told) : x.report \in SetOf(both)
  BY <1>1, <1>3
<1>6. \A c \in SetOf(claims) : RestsOn(c, both) /\ c.added = TRUE
  <2> SUFFICES ASSUME NEW x \in SetOf(told) PROVE RestsOn(x.claim, both) /\ x.claim.added = TRUE
    BY <1>1
  <2>1. Added(x, q, p, evidence)
    OBVIOUS
  <2>2. /\ x.claim.added = TRUE
        /\ \A all2 : x.report \in SetOf(all2) => RestsOn(x.claim, all2)
    BY <2>1, AddedFacts
  <2> QED
    BY <1>5, <2>2
<1>7. ASSUME NEW e \in SetOf(both)
      PROVE  /\ \E c \in SetOf(all) : e.id \in SetOf(c.cites)
             /\ OnTarget(e, p) /\ e.source \in SetOf(p.sources) /\ e \in SetOf(evidence)
  <2>1. CASE e \in SetOf(public)
    <3>1. e \in SetOf(sent)
      BY <2>1 DEF Part
    <3>2. PICK c \in SetOf(t) : e.id \in SetOf(c.cites)
      BY <2>1, <3>1
    <3>3. e \in Cited(c, sent)
      BY <3>1, <3>2 DEF Cited
    <3>4. OnTarget(e, p)
      BY <3>3 DEF Holds
    <3> QED
      BY <1>3, <3>1, <3>2, <3>4
  <2>2. CASE e \in SetOf(reports)
    <3>1. PICK x \in SetOf(told) : e = x.report
      BY <2>2, <1>1
    <3>2. x.claim \in SetOf(all)
      BY <1>1, <1>3
    <3>3. e \in SetOf(evidence)
      BY <3>1 DEF Added
    <3>4. Added(x, q, p, evidence)
      BY <3>1
    <3>5. /\ x.report.id \in SetOf(x.claim.cites)
          /\ OnTarget(x.report, p) /\ x.report.source \in SetOf(p.sources)
      BY <3>4, AddedFacts
    <3>6. e.id \in SetOf(x.claim.cites)
      BY <3>1, <3>5
    <3> QED
      BY <3>1, <3>2, <3>3, <3>5, <3>6
  <2> QED
    BY <2>1, <2>2, <1>3
<1>8. ~OneSided(Where(all, LAMBDA c : ~c.added))
  <2> DEFINE w == Where(all, LAMBDA c : ~c.added)
  <2>1. SetOf(w) = {c \in SetOf(all) : ~c.added}
    BY <1>3, WhereAdded
  <2>2. SetOf(w) = SetOf(t)
    BY <2>1, <1>3, <1>6
  <2> HIDE DEF w
  <2>3. ~OneSided(w)
    BY <2>2 DEF OneSided
  <2> QED
    BY <2>3 DEF w
<1>9. Rests(all, both)
  BY <1>3, <1>4, <1>6, <1>7, <1>8 DEF Rests
<1> QED
  BY <1>2, <1>7, <1>9 DEF Composition

\* What may be composed of a part may be composed of the whole.
LEMMA Wider ==
  ASSUME NEW c, NEW a, NEW b, NEW p, Composition(c, a, p), SetOf(a) \subseteq SetOf(b)
  PROVE  Composition(c, b, p)
BY DEF Composition

\* Whatever a draft came to, what is concluded from it rests on what was sent.
LEMMA ConcludedComposition ==
  ASSUME NEW q, NEW p, List(p.sources), NEW evidence, List(evidence), NEW sent, Part(sent, evidence),
         NEW d, List(d), NEW t,
         t = Standing(ValidateDraft(Augmented(Expanded(d, sent), p, sent), p, sent), p, sent)
  PROVE  Composition(Concluded(q, p, evidence, sent, t), evidence, p)
<1> DEFINE drafted == Augmented(Expanded(d, sent), p, sent)
           valid == ValidateDraft(drafted, p, sent)
           J == {i \in DOMAIN sent : \E c \in SetOf(t) : sent[i].id \in SetOf(c.cites)}
           public == ItemsAt(sent, J)
<1>1. CASE t = << >>
  <2>1. Concluded(q, p, evidence, sent, t) = FixedResult(q, p, evidence, "invalid_response", "no_evidence")
    BY <1>1 DEF Concluded
  <2> QED
    BY <2>1, FixedComposition
<1>2. CASE t # << >>
  <2>1. Concluded(q, p, evidence, sent, t) = Merged(q, p, evidence, t, public)
    BY <1>2 DEF Concluded, Where
  <2>2. List(drafted) /\ \A c \in SetOf(drafted) : c.added = FALSE
    BY DraftedFacts
  <2> HIDE DEF drafted
  <2>3. /\ Part(valid, drafted) /\ ~OneSided(valid)
        /\ \A c \in SetOf(valid) : Supported(c, p, sent) /\ ~Advice(c.words)
    BY <2>2, ValidateFacts
  <2>4. t = Standing(valid, p, sent)
    BY DEF drafted
  <2> HIDE DEF valid
  <2>5. /\ Part(t, valid) /\ ~OneSided(t)
        /\ \A c \in SetOf(t) : Holds(c, p, sent)
        /\ \A e \in SetOf(sent) : e.source \in SetOf(p.sources)
    BY <1>2, <2>3, <2>4, StandingFacts DEF Part
  <2>6. \A c \in SetOf(t) : /\ Holds(c, p, sent) /\ Supported(c, p, sent)
                             /\ ~Advice(c.words) /\ c.added = FALSE
    BY <2>2, <2>3, <2>5 DEF Part
  <2>7. List(sent) /\ SetOf(sent) \subseteq SetOf(evidence)
    BY DEF Part
  <2>8. Part(public, sent) /\ SetOf(public) = {sent[i] : i \in J}
    BY <2>7, ItemsPart
  <2>9. \A e \in SetOf(sent) : e \in SetOf(public) <=> \E c \in SetOf(t) : e.id \in SetOf(c.cites)
    BY <2>8 DEF SetOf, ToSet
  <2> HIDE DEF public
  <2>10. PICK told : /\ Merged(q, p, evidence, t, public) = WithReports(t, public, told)
                     /\ List(told) /\ \A x \in SetOf(told) : Added(x, q, p, evidence)
    BY MergedIs
  <2>11. List(t)
    BY <2>5 DEF Part
  <2>12. Composition(WithReports(t, public, told), evidence, p)
    BY <2>5, <2>6, <2>7, <2>8, <2>9, <2>10, <2>11, MergedRests
  <2> QED
    BY <2>1, <2>10, <2>12
<1> QED
  BY <1>1, <1>2

\* Composing with any draft a model may answer with: compose.
LEMMA ComposeComposition ==
  ASSUME NEW q, NEW p, List(p.sources), NEW chosen, List(chosen), NEW docs, NEW d, List(d)
  PROVE  Composition(Compose(q, p, chosen, docs, d), chosen, p)
<1> DEFINE evidence == Requested(q, chosen)
           sent == Sent(q, p, chosen, docs)
           t == Standing(ValidateDraft(Augmented(Expanded(d, sent), p, sent), p, sent), p, sent)
<1>1. Part(evidence, chosen)
  BY RequestedFacts
<1>2. Part(sent, evidence)
  <2>1. Part(Sendable(evidence, docs), evidence)
    BY <1>1, SendableFacts DEF Part
  <2>2. Part(Project(p, Sendable(evidence, docs)), Sendable(evidence, docs))
    BY <2>1, ProjectFacts DEF Part
  <2> QED
    BY <2>1, <2>2 DEF Part, Sent
<1>3. \/ \E why \in {"none", "invalid_response"} :
           Compose(q, p, chosen, docs, d) = FixedResult(q, p, evidence, why, "no_evidence")
      \/ Compose(q, p, chosen, docs, d) = Concluded(q, p, evidence, sent, t)
  BY DEF Compose, Examined
<1>4. List(evidence) /\ SetOf(evidence) \subseteq SetOf(chosen)
  BY <1>1 DEF Part
<1> HIDE DEF evidence, sent
<1>5. Composition(Concluded(q, p, evidence, sent, t), evidence, p)
  BY <1>2, <1>4, ConcludedComposition
<1>6. \A why : Composition(FixedResult(q, p, evidence, why, "no_evidence"), evidence, p)
  BY <1>4, FixedComposition
<1> HIDE DEF t
<1> QED
  BY <1>3, <1>4, <1>5, <1>6, Wider

-----------------------------------------------------------------------------
(* From documents to pieces, and from pieces to a selection *)

\* A piece that was made of document d.
PieceOf(e, d) == \E part, words : e = Piece(d, part, words)

\* A document has a piece at least, and they are made of it.
LEMMA PiecesFacts ==
  ASSUME NEW d, List(d.facts)
  PROVE  /\ List(Pieces(d))
         /\ \A e \in SetOf(Pieces(d)) : PieceOf(e, d)
         /\ \E e \in SetOf(Pieces(d)) : PieceOf(e, d)
<1>1. CASE d.source # "disclosure" \/ d.facts = << >>
  <2>1. Pieces(d) = <<Piece(d, Whole, d.words)>>
    BY <1>1 DEF Pieces
  <2>2. PieceOf(Piece(d, Whole, d.words), d)
    BY DEF PieceOf
  <2> QED
    BY <2>1, <2>2, Singleton
<1>2. CASE ~(d.source # "disclosure" \/ d.facts = << >>)
  <2> DEFINE s == [i \in DOMAIN d.facts |-> Piece(d, d.facts[i].id, d.words \cup d.facts[i].words)]
  <2>1. Pieces(d) = s
    BY <1>2 DEF Pieces
  <2>2. 1 \in DOMAIN d.facts
    <3>1. Len(d.facts) # 0
      <4> SUFFICES ASSUME Len(d.facts) = 0 PROVE d.facts = << >>
        BY <1>2
      <4>1. d.facts \in Seq(ToSet(d.facts))
        BY ListSeq
      <4> QED
        BY <4>1, EmptySeq
    <3> QED
      BY <3>1 DEF List
  <2>3. List(s) /\ DOMAIN s = DOMAIN d.facts
    BY DEF List
  <2>4. \A i \in DOMAIN d.facts : PieceOf(s[i], d)
    BY DEF PieceOf
  <2> HIDE DEF s
  <2> QED
    BY <2>1, <2>2, <2>3, <2>4 DEF SetOf, ToSet
<1> QED
  BY <1>1, <1>2

\* Normalising makes pieces of every document, and of nothing else.
LEMMA NormalizeFacts ==
  ASSUME NEW documents, List(documents), \A d \in SetOf(documents) : List(d.facts),
         NEW n, n = Normalize(documents), n # Invalid
  PROVE  /\ List(n)
         /\ \A e \in SetOf(n) : \E d \in SetOf(documents) : PieceOf(e, d)
         /\ \A d \in SetOf(documents) : \E e \in SetOf(n) : PieceOf(e, d)
<1> DEFINE all == [i \in DOMAIN documents |-> Pieces(documents[i])]
<1>1. n = FlattenSeq(all)
  BY DEF Normalize
<1>2. List(all) /\ DOMAIN all = DOMAIN documents
  BY DEF List
<1>3. \A i \in DOMAIN documents : documents[i] \in SetOf(documents) /\ all[i] = Pieces(documents[i])
  BY DEF SetOf, ToSet
<1>4. \A d \in SetOf(documents) : \E i \in DOMAIN documents : d = documents[i]
  BY DEF SetOf, ToSet
<1> HIDE DEF all
<1>5. ASSUME NEW i \in DOMAIN all
      PROVE  /\ List(all[i])
             /\ \A e \in SetOf(all[i]) : PieceOf(e, documents[i])
             /\ \E e \in SetOf(all[i]) : PieceOf(e, documents[i])
  <2>1. List(documents[i].facts) /\ all[i] = Pieces(documents[i])
    BY <1>2, <1>3
  <2> QED
    BY <2>1, PiecesFacts
<1>6. List(n) /\ \A e : e \in SetOf(n) <=> \E i \in DOMAIN all : e \in SetOf(all[i])
  <2>1. \A i \in DOMAIN all : List(all[i])
    BY <1>5
  <2>2. /\ List(FlattenSeq(all))
        /\ \A e : e \in SetOf(FlattenSeq(all)) <=> \E i \in DOMAIN all : e \in SetOf(all[i])
    BY <1>2, <2>1, FlattenFacts
  <2> QED
    BY <1>1, <2>2
<1>7. ASSUME NEW e \in SetOf(n) PROVE \E d \in SetOf(documents) : PieceOf(e, d)
  <2>1. PICK i \in DOMAIN all : e \in SetOf(all[i])
    BY <1>6
  <2>2. PieceOf(e, documents[i])
    BY <2>1, <1>5
  <2> QED
    BY <2>1, <2>2, <1>2, <1>3
<1>8. ASSUME NEW d \in SetOf(documents) PROVE \E e \in SetOf(n) : PieceOf(e, d)
  <2>1. PICK i \in DOMAIN documents : d = documents[i]
    BY <1>4
  <2>0. i \in DOMAIN all
    BY <1>2
  <2>2. PICK e \in SetOf(all[i]) : PieceOf(e, documents[i])
    BY <2>0, <1>5
  <2>3. e \in SetOf(n)
    BY <2>0, <2>2, <1>6
  <2> QED
    BY <2>1, <2>2, <2>3
<1> QED
  BY <1>6, <1>7, <1>8

\* Two pieces that differ in the score alone.
Same(e, f) == [e EXCEPT !.score = NoScore] = [f EXCEPT !.score = NoScore]

\* They are of the same source, document and time.
LEMMA SamePiece ==
  ASSUME NEW e, NEW f, Same(e, f)
  PROVE  /\ DOMAIN e = DOMAIN f
         /\ "source" \in DOMAIN f => e.source = f.source
         /\ "doc" \in DOMAIN f => e.doc = f.doc
         /\ "at" \in DOMAIN f => e.at = f.at
<1> DEFINE x == [e EXCEPT !.score = NoScore]
           y == [f EXCEPT !.score = NoScore]
<1>1. DOMAIN x = DOMAIN e /\ DOMAIN y = DOMAIN f
  OBVIOUS
<1>3. \A k \in DOMAIN e : k # "score" => x[k] = e[k]
  OBVIOUS
<1>4. \A k \in DOMAIN f : k # "score" => y[k] = f[k]
  OBVIOUS
<1> HIDE DEF x, y
<1>5. x = y
  BY DEF x, y, Same
<1> QED
  BY <1>1, <1>3, <1>4, <1>5

\* What is retrieved is a list.
LEMMA RetrieveFacts ==
  ASSUME NEW s, List(s), NEW request, List(request.sources), NEW k \in Nat
  PROVE  List(RetrieveEvidence(s, request, k).evidence)
<1> DEFINE filtered == FilterEvidence(s, request)
           score == [i \in DOMAIN filtered |-> Score(filtered[i], filtered, request.words)]
           eligible == {i \in DOMAIN filtered : score[i] >= Threshold}
           order == Ordered(eligible, LAMBDA i, j : score[i] > score[j] \/ (score[i] = score[j] /\ i < j))
           ranked == [m \in DOMAIN order |-> [filtered[order[m]] EXCEPT !.score = score[order[m]]]]
           required == IF Len(request.sources) > 1 THEN request.sources ELSE << >>
           found == Top(SourceDiverse(ranked, required), k)
<1>1. \/ RetrieveEvidence(s, request, k).evidence = << >>
      \/ RetrieveEvidence(s, request, k).evidence = found
  BY DEF RetrieveEvidence, Ranked
<1>2. List(filtered)
  BY FilterFacts
<1>3. Cardinality(eligible) \in Nat
  <2>1. IsFiniteSet(DOMAIN filtered)
    BY <1>2, FS_Interval DEF List
  <2>2. IsFiniteSet(eligible)
    <3> HIDE DEF filtered, score
    <3> QED
      BY <2>1, FS_Subset
  <2> QED
    BY <2>2, FS_CardinalityType
<1> HIDE DEF eligible
<1>4. List(ranked)
  <2>1. DOMAIN order = 1..Cardinality(eligible)
    BY DEF Ordered
  <2> HIDE DEF order, score, filtered
  <2> QED
    BY <1>3, <2>1 DEF List
<1>5. List(required)
  BY EmptyIs
<1> HIDE DEF ranked, required
<1>6. List(SourceDiverse(ranked, required))
  BY <1>4, <1>5, DiverseFacts
<1>7. List(found)
  BY <1>6, TopFacts
<1> QED
  BY <1>1, <1>7, EmptyIs

\* So it is for a plan.
LEMMA RetrievePlanFacts ==
  ASSUME NEW s, List(s), NEW request, List(request.sources), NEW p
  PROVE  List(RetrieveForPlan(s, request, p).evidence)
<1> DEFINE r == [request EXCEPT !.sources = <<"news">>]
<1>1. NewsTopK \in Nat /\ TopK \in Nat
  BY LimitAssumption
<1>2. r.sources = <<"news">> \/ r.sources = request.sources
  OBVIOUS
<1>3. List(r.sources)
  BY <1>2, Singleton
<1> HIDE DEF r
<1>4. List(RetrieveEvidence(s, r, NewsTopK).evidence)
  BY <1>1, <1>3, RetrieveFacts
<1>5. List(RetrieveEvidence(s, request, TopK).evidence)
  BY <1>1, RetrieveFacts
<1> QED
  BY <1>4, <1>5 DEF RetrieveForPlan, r

\* What is selected is a part of what was to be selected from.
LEMMA SelectFacts ==
  ASSUME NEW s, List(s), NEW required, List(required),
         NEW b, b = SelectContext(s, required), b # Invalid
  PROVE  Part(b.evidence, s)
<1> DEFINE I == {i \in DOMAIN s : \A j \in 1..(i - 1) :
                   [s[j] EXCEPT !.score = NoScore] # [s[i] EXCEPT !.score = NoScore]}
           said == ItemsAt(s, I)
           ordered == SourceDiverse(said, required)
           J == {i \in DOMAIN ordered : ordered[i] \in SetOf(b.evidence)}
<1>1. Deduplicate(s) = said
  BY DEF Deduplicate
<1>2. b.evidence = ItemsAt(ordered, J)
  BY <1>1 DEF SelectContext, Audited, Where
<1>3. Part(said, s)
  BY ItemsPart
<1> HIDE DEF said
<1>4. List(ordered) /\ SetOf(ordered) = SetOf(said)
  BY <1>3, DiverseFacts DEF Part
<1> HIDE DEF ordered
<1>5. Part(ItemsAt(ordered, J), ordered)
  BY <1>4, ItemsPart
<1> QED
  BY <1>2, <1>3, <1>4, <1>5 DEF Part

-----------------------------------------------------------------------------
(* The policy, and the freshness rules *)

\* Where the policy finds that what was retrieved occurs among what is fresh, each
\* piece is one of the fresh ones but for its score.
LEMMA OccurringFacts ==
  ASSUME NEW s, List(s), NEW fresh, List(fresh), Occurring(s, fresh), NEW e \in SetOf(s)
  PROVE  \E f \in SetOf(fresh) : Same(e, f)
<1> DEFINE plain(t) == [i \in DOMAIN t |-> [t[i] EXCEPT !.score = NoScore]]
           A(y) == {j \in DOMAIN plain(s) : plain(s)[j] = y}
           B(y) == {j \in DOMAIN plain(fresh) : plain(fresh)[j] = y}
<1>1. PICK i \in DOMAIN s : e = s[i]
  BY DEF SetOf, ToSet
<1> DEFINE x == plain(s)[i]
<1>2. Cardinality(A(x)) <= Cardinality(B(x))
  BY <1>1 DEF Occurring
<1>3. i \in A(x) /\ A(x) \subseteq DOMAIN s
  <2>1. DOMAIN plain(s) = DOMAIN s
    OBVIOUS
  <2>2. i \in DOMAIN plain(s) /\ plain(s)[i] = x
    BY <1>1, <2>1
  <2> HIDE DEF plain, x
  <2> QED
    BY <2>1, <2>2
<1>4. IsFiniteSet(DOMAIN s)
  <2>1. Len(s) \in Int /\ DOMAIN s = 1..Len(s)
    BY DEF List
  <2>2. IsFiniteSet(1..Len(s))
    BY <2>1, FS_Interval
  <2> QED
    BY <2>1, <2>2
<1>5. x = [e EXCEPT !.score = NoScore]
  BY <1>1
<1>6. \A j \in B(x) : j \in DOMAIN fresh /\ [fresh[j] EXCEPT !.score = NoScore] = x
  OBVIOUS
<1> HIDE DEF A, B, x
<1>7. IsFiniteSet(A(x)) /\ Cardinality(A(x)) \in Nat /\ Cardinality(A(x)) # 0
  BY <1>3, <1>4, FS_Subset, FS_CardinalityType, FS_EmptySet
<1>8. B(x) # {}
  <2> SUFFICES ASSUME B(x) = {} PROVE FALSE
    OBVIOUS
  <2>1. Cardinality(B(x)) = 0
    BY FS_EmptySet
  <2> QED
    BY <1>2, <1>7, <2>1
<1>9. PICK j \in B(x) : TRUE
  BY <1>8
<1>10. fresh[j] \in SetOf(fresh)
  BY <1>6, <1>9 DEF SetOf, ToSet
<1> QED
  BY <1>5, <1>6, <1>9, <1>10 DEF Same

\* For a plan that asks back, the policy lets nothing through.
LEMMA ClarifyFacts ==
  ASSUME NEW p, p.clarify, NEW providers, NEW freshness, NEW retrieval,
         NEW d, d = Evaluate(p, providers, freshness, retrieval), d # Invalid
  PROVE  PlanAccepted(p) /\ d.evidence = << >> /\ d.status \in {"blocked", "no_evidence"}
<1>1. \E status \in {"blocked", "no_evidence"} : d = NothingFound(status)
  BY DEF Evaluate
<1>2. PlanAccepted(p)
  BY DEF Evaluate
<1> QED
  BY <1>1, <1>2 DEF NothingFound

\* For any other, it decides, and lets through what was retrieved, all of it fresh.
LEMMA EvaluateFacts ==
  ASSUME NEW p, ~p.clarify, NEW providers, NEW freshness, NEW retrieval,
         List(freshness.evidence), List(retrieval.evidence),
         NEW d, d = Evaluate(p, providers, freshness, retrieval), d # Invalid
  PROVE  /\ PlanAccepted(p)
         /\ d = Decide(p, providers, freshness, retrieval) /\ d.evidence = retrieval.evidence
         /\ retrieval.evidence # << >> => retrieval.status = "ok"
         /\ \A e \in SetOf(d.evidence) : \E f \in SetOf(freshness.evidence) : Same(e, f)
<1>1. /\ PlanAccepted(p) /\ RetrievalAccepted(retrieval)
      /\ Occurring(retrieval.evidence, freshness.evidence)
      /\ d = Decide(p, providers, freshness, retrieval)
  BY DEF Evaluate
<1>2. d.evidence = retrieval.evidence
  BY <1>1 DEF Decide
<1>3. retrieval.evidence # << >> => retrieval.status = "ok"
  BY <1>1 DEF RetrievalAccepted
<1>4. \A e \in SetOf(d.evidence) : \E f \in SetOf(freshness.evidence) : Same(e, f)
  BY <1>1, <1>2, OccurringFacts
<1> QED
  BY <1>1, <1>2, <1>3, <1>4

\* A disclosure that is fresh and in doubt is warned of.
LEMMA DoubtWarned ==
  ASSUME NEW s, List(s), NEW docs, NEW request, Disclosures(s) \subseteq DOMAIN docs,
         NEW fresh, fresh = EvaluateFreshness(s, docs, request), fresh # Invalid,
         NEW f \in SetOf(fresh.evidence), f.source = "disclosure", InDoubt(f, docs)
  PROVE  "unresolved_disclosure_correction" \in fresh.warnings
<1> DEFINE edges == Edges(s, docs)
           kept == Retained(Visible(s, docs), request)
<1>1. /\ fresh.evidence = kept
      /\ Unsettled(kept, docs, edges) => "unresolved_disclosure_correction" \in fresh.warnings
  BY DEF EvaluateFreshness
<1>2. f.doc \in Disclosures(kept)
  BY <1>1 DEF Disclosures
<1>3. f.doc \notin Replaced(edges)
  <2> SUFFICES ASSUME NEW id \in DOMAIN edges, f.doc = edges[id] PROVE FALSE
    BY DEF Replaced
  <2>1. id \in Disclosures(s) /\ edges[id] = docs[id].notice.target
    BY DEF Edges, Notice
  <2> QED
    BY <2>1 DEF InDoubt
<1> HIDE DEF edges, kept
<1>4. Unsettled(kept, docs, edges)
  BY <1>2, <1>3 DEF Unsettled, InDoubt, Notice
<1> QED
  BY <1>1, <1>4

\* A decision with that warning is partial, and has it, unless it is about a price move.
LEMMA DoubtLimits ==
  ASSUME NEW p, NEW providers, NEW freshness, NEW retrieval, retrieval.status = "ok",
         "unresolved_disclosure_correction" \in freshness.warnings,
         "disclosure" \in SetOf(p.sources), p.intent # "price_move",
         NEW d, d = Decide(p, providers, freshness, retrieval)
  PROVE  d.status = "partial" /\ "unresolved_disclosure_correction" \in d.warnings
<1> DEFINE w == "unresolved_disclosure_correction"
<1>1. Coverage(p) = p.sources
  BY DEF Coverage
<1>2. w \in LimitingWarnings /\ WarningSource[w] = "disclosure"
  BY DEF LimitingWarnings, WarningSource
<1>3. w \in d.warnings
  BY <1>1, <1>2 DEF Decide
<1>4. d.warnings = {c \in freshness.warnings : WarningSource[c] \in SetOf(Coverage(p))}
  BY DEF Decide
<1>5. {c \in freshness.warnings : WarningSource[c] \in SetOf(Coverage(p))} \cap LimitingWarnings # {}
  BY <1>2, <1>3, <1>4
<1>6. d.status = "partial"
  BY <1>5 DEF Decide
<1> QED
  BY <1>3, <1>6

\* A document as RecordingAssumption has them.
Recordable(d) ==
  /\ d.id # NoTarget /\ List(d.facts)
  /\ d.source = "disclosure" => d.mentioned = {} /\ \E s \in d.primary : d.primary = {s}
  /\ d.notice.target # NoTarget => d.source = "disclosure" /\ d.notice.correction

\* What a gateway obtains for a plan.
Obtained(documents, p) ==
  /\ List(documents)
  /\ \A d \in SetOf(documents) :
       /\ Recordable(d)
       /\ p.security \in d.primary \cup d.mentioned /\ d.source \in SetOf(p.sources)

\* What the freshness rules promise of a piece: its date lies in the range, its source is
\* asked for, and as a disclosure it stands.
FreshPiece(f, docs, p) ==
  /\ {"source", "doc", "at"} \subseteq DOMAIN f
  /\ InRange(f.at, p.range) /\ f.source \in SetOf(p.sources)
  /\ f.source = "disclosure" => Stands(f, docs, p.range)

\* documents_by_id has every document under its identifier.
LEMMA ByIdFacts ==
  ASSUME NEW documents, List(documents), NEW docs, docs = ById(documents)
  PROVE  /\ \A d \in SetOf(documents) : d.id \in DOMAIN docs
         /\ \A id \in DOMAIN docs : docs[id] \in SetOf(documents) /\ docs[id].id = id
<1>1. DOMAIN docs = {d.id : d \in SetOf(documents)}
  BY DEF ById
<1>2. ASSUME NEW id \in DOMAIN docs PROVE docs[id] \in SetOf(documents) /\ docs[id].id = id
  <2> DEFINE I == {i \in 1..Len(documents) : documents[i].id = id}
  <2>1. docs[id] = documents[IF I # {} THEN Min(I) ELSE 0]
    BY <1>1, <1>2 DEF ById, SelectInSeq
  <2>2. I # {}
    BY <1>1, <1>2 DEF SetOf, ToSet, List
  <2>3. Min(I) \in I
    BY <2>2, MinIs, I \in SUBSET Nat
  <2> QED
    BY <2>1, <2>2, <2>3 DEF SetOf, ToSet, List
<1> QED
  BY <1>1, <1>2

\* What a piece has of its document.
LEMMA PieceFields ==
  ASSUME NEW e, NEW d, PieceOf(e, d)
  PROVE  /\ {"source", "doc", "at"} \subseteq DOMAIN e
         /\ e.doc = d.id /\ e.source = d.source /\ e.at = d.at
         /\ e.subjects = d.primary /\ e.mentioned = d.mentioned /\ e.scope = Scope(d)
BY DEF PieceOf, Piece

\* A disclosure's piece is about every security its document is about.
LEMMA PieceInScope ==
  ASSUME NEW e, NEW d, PieceOf(e, d), Recordable(d), d.source = "disclosure",
         NEW s, s \in d.primary \cup d.mentioned
  PROVE  InScope(e, s)
<1>1. d.primary = {s}
  BY DEF Recordable
<1>2. Cardinality(d.primary) = 1
  BY <1>1, FS_Singleton
<1>3. e.scope = "company_specific" /\ e.subjects = {s}
  BY <1>1, <1>2, PieceFields DEF Scope
<1> QED
  BY <1>3 DEF InScope

\* Normalised, filtered and fresh: what is left of what was obtained keeps that promise.
\* A correction at hand is about the security of what it corrects, so the filter keeps it.
LEMMA FreshFacts ==
  ASSUME NEW p, NEW documents, Obtained(documents, p), NEW docs, docs = ById(documents),
         NEW n, n = Normalize(documents), n # Invalid,
         NEW request, request.security = p.security, request.sources = p.sources,
                      request.range = p.range,
         NEW s, s = FilterEvidence(n, request),
         NEW fresh, fresh = EvaluateFreshness(s, docs, request), fresh # Invalid
  PROVE  /\ List(s) /\ List(fresh.evidence) /\ Disclosures(s) \subseteq DOMAIN docs
         /\ \A f \in SetOf(fresh.evidence) : FreshPiece(f, docs, p)
<1>1. /\ List(documents)
      /\ \A d \in SetOf(documents) : List(d.facts)
  BY DEF Obtained, Recordable
<1>2. /\ List(n)
      /\ \A e \in SetOf(n) : \E d \in SetOf(documents) : PieceOf(e, d)
      /\ \A d \in SetOf(documents) : \E e \in SetOf(n) : PieceOf(e, d)
  BY <1>1, NormalizeFacts
<1>3. List(s) /\ SetOf(s) = {e \in SetOf(n) : Passes(e, request)}
  BY <1>2, FilterFacts
<1>4. /\ \A d \in SetOf(documents) : d.id \in DOMAIN docs
      /\ \A id \in DOMAIN docs : docs[id] \in SetOf(documents) /\ docs[id].id = id
  BY <1>1, ByIdFacts
<1>5. ASSUME NEW e \in SetOf(n)
      PROVE  \E d \in SetOf(documents) : PieceOf(e, d) /\ e.doc = d.id /\ e.doc \in DOMAIN docs
  BY <1>2, <1>4, PieceFields
<1>6. Disclosures(s) \subseteq DOMAIN docs
  BY <1>3, <1>5 DEF Disclosures
<1>7. fresh.evidence = Retained(Visible(s, docs), request)
  BY DEF EvaluateFreshness
<1>8. List(Visible(s, docs)) /\ SetOf(Visible(s, docs)) =
        {e \in SetOf(s) : e.source = "disclosure" =>
           ~Notice(docs, e.doc).withdrawn /\ e.doc \notin Replaced(Edges(s, docs))}
  BY <1>3, VisibleFacts
<1>9. List(fresh.evidence) /\ SetOf(fresh.evidence) \subseteq SetOf(Visible(s, docs))
  BY <1>7, <1>8, RetainedFacts
<1>10. ASSUME NEW f \in SetOf(fresh.evidence) PROVE FreshPiece(f, docs, p)
  <2>1. f \in SetOf(n) /\ Passes(f, request)
    BY <1>3, <1>8, <1>9, <1>10
  <2>2. PICK d \in SetOf(documents) : PieceOf(f, d) /\ f.doc = d.id
    BY <1>5, <2>1
  <2>3. InRange(f.at, p.range) /\ f.source \in SetOf(p.sources)
    BY <2>1 DEF Passes
  <2>4. ASSUME f.source = "disclosure" PROVE Stands(f, docs, p.range)
    <3>1. ~docs[f.doc].notice.withdrawn /\ f.doc \notin Replaced(Edges(s, docs))
      BY <1>8, <1>9, <1>10, <2>4 DEF Notice
    <3>2. ASSUME NEW id \in DOMAIN docs, docs[id].notice.target = f.doc,
                 ~docs[id].notice.withdrawn, InRange(docs[id].at, p.range)
          PROVE  FALSE
      <4> DEFINE c == docs[id]
      <4>1. c \in SetOf(documents) /\ c.id = id
        BY <1>4, <3>2
      <4>2. /\ Recordable(c) /\ p.security \in c.primary \cup c.mentioned
            /\ c.source \in SetOf(p.sources)
        BY <4>1 DEF Obtained
      <4>3. c.notice.target # NoTarget
        <5>1. Recordable(d)
          BY DEF Obtained
        <5> QED
          BY <2>2, <3>2, <5>1 DEF Recordable
      <4>4. c.source = "disclosure" /\ c.notice.correction
        BY <4>2, <4>3 DEF Recordable
      <4>5. PICK e \in SetOf(n) : PieceOf(e, c)
        BY <1>2, <4>1
      <4>6. InScope(e, p.security)
        BY <4>2, <4>4, <4>5, PieceInScope
      <4>7. e.source = c.source /\ e.at = c.at /\ e.doc = id
        BY <4>1, <4>5, PieceFields
      <4>8. Passes(e, request)
        BY <4>2, <4>6, <4>7, <3>2 DEF Passes
      <4>9. id \in Disclosures(s)
        BY <1>3, <4>4, <4>5, <4>7, <4>8 DEF Disclosures
      <4>10. id \in DOMAIN Edges(s, docs) /\ Edges(s, docs)[id] = f.doc
        BY <3>2, <4>3, <4>4, <4>9 DEF Edges, Notice
      <4> QED
        BY <3>1, <4>10 DEF Replaced
    <3> QED
      BY <3>1, <3>2 DEF Stands
  <2> QED
    BY <2>2, <2>3, <2>4, PieceFields DEF FreshPiece
<1> QED
  BY <1>3, <1>6, <1>9, <1>10

-----------------------------------------------------------------------------
(* Every source that must be covered is selected first *)

\* Max of the community modules is the greatest, where there is one.
LEMMA MaxIs ==
  ASSUME NEW I \in SUBSET Int, I # {}, NEW b \in Int, \A i \in I : i <= b
  PROVE  Max(I) \in I /\ \A i \in I : i <= Max(I)
<1> DEFINE T == {b - i : i \in I}
<1>1. T \in SUBSET Nat /\ T # {}
  <2>1. \A i \in I : b - i \in Nat
    OBVIOUS
  <2> QED
    BY <2>1
<1>2. PICK m \in T : \A k \in T : m <= k
  BY <1>1, NatMinimum
<1>3. PICK x \in I : m = b - x
  BY <1>2
<1>4. \A i \in I : b - i \in T
  OBVIOUS
<1> HIDE DEF T
<1>5. \A i \in I : m <= b - i
  BY <1>2, <1>4
<1>6. \A i \in I : x >= i
  BY <1>3, <1>5
<1> QED
  BY <1>6 DEF Max

\* The first h of the list are of different sources, and of every source required
\* that there is.
HeadsOf(s, required, h) ==
  /\ h \in Nat /\ h <= Len(required) /\ h <= Len(SourceDiverse(s, required))
  /\ \A i, j \in 1..h :
       SourceDiverse(s, required)[i].source = SourceDiverse(s, required)[j].source => i = j
  /\ \A e \in SetOf(s) : e.source \in SetOf(required) =>
       \E k \in 1..h : SourceDiverse(s, required)[k].source = e.source

\* source_diverse_indexes puts such a list first.
LEMMA DiverseHeads ==
  ASSUME NEW s, List(s), NEW required, List(required),
         \A i, j \in DOMAIN required : required[i] = required[j] => i = j
  PROVE  \E h : HeadsOf(s, required, h)
<1> DEFINE first(src) == {i \in 1..Len(s) : s[i].source = src}
           leader(src) == IF first(src) # {} THEN Min(first(src)) ELSE 0
           lead == [i \in DOMAIN required |-> leader(required[i])]
           I == {i \in DOMAIN lead : lead[i] # 0}
           leaders == ItemsAt(lead, I)
           heads == [k \in DOMAIN leaders |-> s[leaders[k]]]
           rest == ItemsAt(s, DOMAIN s \ SetOf(leaders))
           h == Len(leaders)
<1>1. SourceDiverse(s, required) = heads \o rest
  BY DEF SourceDiverse, Where, SelectInSeq
<1>2. ASSUME NEW src
      PROVE  /\ leader(src) # 0 => leader(src) \in DOMAIN s /\ s[leader(src)].source = src
             /\ \A e \in SetOf(s) : e.source = src => leader(src) # 0
  <2>1. first(src) # {} => Min(first(src)) \in first(src)
    BY MinIs, first(src) \in SUBSET Nat
  <2>2. Len(s) \in Nat /\ DOMAIN s = 1..Len(s)
    BY DEF List
  <2>3. CASE first(src) = {}
    <3>1. leader(src) = 0
      BY <2>3
    <3>2. ASSUME NEW e \in SetOf(s), e.source = src PROVE FALSE
      <4>1. PICK i \in DOMAIN s : e = s[i]
        BY DEF SetOf, ToSet
      <4>2. i \in first(src)
        BY <2>2, <3>2, <4>1
      <4> QED
        BY <2>3, <4>2
    <3> QED
      BY <3>1, <3>2
  <2>4. CASE first(src) # {}
    <3>1. leader(src) \in first(src)
      BY <2>1, <2>4
    <3>2. \A i \in first(src) : i \in DOMAIN s /\ i # 0 /\ s[i].source = src
      BY <2>2
    <3> HIDE DEF first, leader
    <3> QED
      BY <3>1, <3>2
  <2> QED
    BY <2>3, <2>4
<1>3. Len(s) \in Nat /\ DOMAIN s = 1..Len(s) /\ DOMAIN required = 1..Len(required)
  BY DEF List
<1> HIDE DEF leader
<1>4. List(lead) /\ DOMAIN lead = DOMAIN required /\ Len(lead) = Len(required)
  BY DEF List
<1>5. \A i \in DOMAIN required : lead[i] = leader(required[i])
  OBVIOUS
<1>6. I \in SUBSET DOMAIN lead /\ \A i \in DOMAIN lead : i \in I <=> lead[i] # 0
  OBVIOUS
<1> HIDE DEF lead, I
<1>7. /\ List(leaders) /\ h = Cardinality(I) /\ h \in 0..Len(lead)
      /\ \E f : Picks(f, lead, I, h)
  BY <1>4, <1>6, ItemsAtFacts
<1>8. PICK f : Picks(f, lead, I, h)
  BY <1>7
<1>9. /\ f \in [1..h -> I]
      /\ \A k \in 1..h : leaders[k] = lead[f[k]]
      /\ \A k, l \in 1..h : k < l => f[k] < f[l]
      /\ \A i \in I : \E k \in 1..h : f[k] = i
  BY <1>8 DEF Picks
<1>10. h \in Nat /\ DOMAIN leaders = 1..h /\ h <= Len(required)
  BY <1>7, <1>4 DEF List
<1> HIDE DEF leaders, h
<1>11. ASSUME NEW k \in 1..h
       PROVE  /\ f[k] \in DOMAIN required /\ leaders[k] = leader(required[f[k]])
              /\ leaders[k] \in DOMAIN s /\ s[leaders[k]].source = required[f[k]]
  <2>1. f[k] \in I /\ f[k] \in DOMAIN required /\ lead[f[k]] # 0
    BY <1>4, <1>6, <1>9
  <2>2. leaders[k] = leader(required[f[k]])
    BY <1>5, <1>9, <2>1
  <2> QED
    BY <1>2, <1>5, <2>1, <2>2
<1>12. List(heads) /\ Len(heads) = h /\ \A k \in 1..h : heads[k] = s[leaders[k]]
  <2>1. DOMAIN heads = 1..h /\ \A k \in 1..h : heads[k] = s[leaders[k]]
    BY <1>10
  <2> QED
    BY <1>10, <2>1 DEF List
<1>13. List(rest)
  BY ItemsAtFacts, DOMAIN s \ SetOf(leaders) \in SUBSET DOMAIN s DEF SetOf
<1> HIDE DEF heads, rest
<1>14. h <= Len(heads \o rest) /\ \A k \in 1..h : (heads \o rest)[k] = heads[k]
  <2>1. /\ Len(heads \o rest) = Len(heads) + Len(rest)
        /\ \A k \in 1..Len(heads) : (heads \o rest)[k] = heads[k]
    BY <1>12, <1>13, ListJoin
  <2>2. Len(rest) \in Nat
    BY <1>13 DEF List
  <2> QED
    BY <1>10, <1>12, <2>1, <2>2
<1> DEFINE D == SourceDiverse(s, required)
<1>15. h <= Len(D) /\ \A k \in 1..h : D[k].source = required[f[k]]
  BY <1>1, <1>11, <1>12, <1>14
<1>16. ASSUME NEW i \in 1..h, NEW j \in 1..h, D[i].source = D[j].source PROVE i = j
  <2>1. f[i] = f[j]
    BY <1>11, <1>15, <1>16
  <2>2. ~(f[i] < f[j]) /\ ~(f[j] < f[i])
    BY <2>1, <1>3, <1>11
  <2> QED
    BY <1>9, <1>10, <2>2
<1>17. ASSUME NEW e \in SetOf(s), e.source \in SetOf(required)
       PROVE  \E k \in 1..h : D[k].source = e.source
  <2>1. PICK i \in DOMAIN required : required[i] = e.source
    BY <1>17 DEF SetOf, ToSet
  <2>2. i \in I
    BY <1>2, <1>4, <1>5, <1>6, <1>17, <2>1
  <2>3. PICK k \in 1..h : f[k] = i
    BY <1>9, <2>2
  <2> QED
    BY <1>15, <2>1, <2>3
<1> HIDE DEF D
<1>18. HeadsOf(s, required, h)
  BY <1>10, <1>15, <1>16, <1>17 DEF HeadsOf, D
<1> QED
  BY <1>18

\* What the size cap leaves are the first pieces.
LEMMA ContextFacts ==
  ASSUME NEW s, List(s)
  PROVE  /\ Len(CapContext(s)) \in 0..Len(s)
         /\ \A k \in 1..Len(CapContext(s)) : CapContext(s)[k] = s[k]
<1> DEFINE fits == {n \in 0..Len(s) : TotalSize(Top(s, n)) <= ContextCap}
<1>1. Len(s) \in Nat
  BY DEF List
<1>2. List(Top(s, 0)) /\ Len(Top(s, 0)) = 0
  BY <1>1, TopFacts
<1>3. TotalSize(Top(s, 0)) = 0
  <2> DEFINE t == Top(s, 0)
  <2>1. DOMAIN t = {}
    BY <1>2 DEF List
  <2>2. UNION {{i} \X t[i].words : i \in DOMAIN t} = {}
    BY <2>1
  <2> QED
    BY <1>2, <2>2, FS_EmptySet DEF TotalSize
<1>4. 0 \in fits
  BY <1>1, <1>3, LimitAssumption
<1>5. Max(fits) \in 0..Len(s)
  <2>1. fits \in SUBSET Int /\ fits \subseteq 0..Len(s) /\ \A n \in fits : n <= Len(s)
    BY <1>1
  <2> HIDE DEF fits
  <2>2. Max(fits) \in fits
    BY <1>1, <1>4, <2>1, MaxIs, fits # {}, Len(s) \in Int
  <2> QED
    BY <2>1, <2>2
<1> HIDE DEF fits
<1>6. CapContext(s) = Top(s, Max(fits))
  BY DEF CapContext, fits
<1>7. Max(fits) \in Nat
  BY <1>5
<1> QED
  BY <1>1, <1>5, <1>6, <1>7, TopFacts

\* Such first pieces survive the caps of _apply_source_cap and the count; for size they
\* are dropped from the end.
LEMMA HeadsKept ==
  ASSUME NEW ordered, List(ordered), NEW h \in Nat, h <= Len(ordered), h <= CountCap,
         \A i, j \in 1..h : ordered[i].source = ordered[j].source => i = j,
         NEW counted, counted = Top(CapSources(ordered), CountCap),
         NEW left, left = CapContext(counted)
  PROVE  \/ h <= Len(left) /\ \A k \in 1..h : left[k] = ordered[k]
         \/ /\ Len(left) < h /\ Len(counted) - Len(left) > 0
            /\ \A k \in 1..Len(left) : left[k] = ordered[k]
<1> DEFINE upTo(i) == {j \in 1..i : ordered[j].source = ordered[i].source}
           I == {i \in DOMAIN ordered : Cardinality(upTo(i)) <= SourceCap}
           capped == CapSources(ordered)
<1>1. Len(ordered) \in Nat /\ DOMAIN ordered = 1..Len(ordered)
  BY DEF List
<1>2. ASSUME NEW i \in 1..h PROVE i \in I
  <2>1. upTo(i) = {i}
    BY <1>2
  <2>2. Cardinality(upTo(i)) = 1
    BY <2>1, FS_Singleton
  <2>3. i \in DOMAIN ordered
    BY <1>1
  <2>4. SourceCap \in Nat \ {0}
    BY LimitAssumption
  <2> QED
    BY <2>2, <2>3, <2>4
<1>3. capped = ItemsAt(ordered, I)
  BY DEF CapSources
<1>4. I \in SUBSET DOMAIN ordered /\ 1..h \subseteq I
  BY <1>2
<1> HIDE DEF I, capped
<1>5. List(capped) /\ h <= Len(capped) /\ \A k \in 1..h : capped[k] = ordered[k]
  BY <1>3, <1>4, ItemsAtFacts, ItemsAtPrefix
<1>6. CountCap \in Nat
  BY LimitAssumption
<1>7. /\ List(counted) /\ Len(counted) = IF Len(capped) < CountCap THEN Len(capped) ELSE CountCap
      /\ \A k \in 1..Len(counted) : counted[k] = capped[k]
  BY <1>5, <1>6, TopFacts DEF capped
<1>8. Len(counted) \in Nat /\ h <= Len(counted) /\ \A k \in 1..h : counted[k] = ordered[k]
  BY <1>5, <1>6, <1>7 DEF List
<1>9. Len(left) \in 0..Len(counted) /\ \A k \in 1..Len(left) : left[k] = counted[k]
  BY <1>7, ContextFacts
<1>10. CASE h <= Len(left)
  BY <1>8, <1>9, <1>10
<1>11. CASE ~(h <= Len(left))
  BY <1>8, <1>9, <1>11
<1> QED
  BY <1>10, <1>11

\* Saying nothing twice loses no source.
LEMMA DeduplicateFacts ==
  ASSUME NEW s, List(s), \A e \in SetOf(s) : "source" \in DOMAIN e
  PROVE  /\ Part(Deduplicate(s), s)
         /\ \A e \in SetOf(s) : \E f \in SetOf(Deduplicate(s)) : f.source = e.source
<1> DEFINE plain(i) == [s[i] EXCEPT !.score = NoScore]
           I == {i \in DOMAIN s : \A j \in 1..(i - 1) : plain(j) # plain(i)}
<1>1. Deduplicate(s) = ItemsAt(s, I)
  BY DEF Deduplicate
<1>2. Part(Deduplicate(s), s) /\ SetOf(Deduplicate(s)) = {s[i] : i \in I}
  BY <1>1, ItemsPart
<1>3. Len(s) \in Nat /\ DOMAIN s = 1..Len(s)
  BY DEF List
<1>4. ASSUME NEW e \in SetOf(s) PROVE \E f \in SetOf(Deduplicate(s)) : f.source = e.source
  <2>1. PICK i \in DOMAIN s : e = s[i]
    BY DEF SetOf, ToSet
  <2> DEFINE J == {j \in DOMAIN s : plain(j) = plain(i)}
  <2>2. J \in SUBSET Nat /\ i \in J
    BY <1>3
  <2>3. PICK m \in J : \A k \in J : m <= k
    BY <2>2, NatMinimum
  <2>4. m \in DOMAIN s /\ plain(m) = plain(i)
    BY <2>3
  <2>5. ASSUME NEW j \in 1..(m - 1), plain(j) = plain(m) PROVE FALSE
    <3>1. j \in J /\ j < m
      BY <1>3, <2>4, <2>5
    <3> QED
      BY <2>3, <2>4, <3>1, <1>3
  <2>6. m \in I
    BY <2>4, <2>5
  <2>7. s[m].source = e.source
    <3>1. Same(s[m], e) /\ "source" \in DOMAIN e
      BY <2>1, <2>4 DEF Same
    <3> QED
      BY <3>1, SamePiece
  <2> QED
    BY <1>2, <2>6, <2>7
<1> QED
  BY <1>2, <1>4

\* The first h of t, within the count cap, are of different sources, and of all of C.
Heads(t, C, h) ==
  /\ h \in Nat /\ h <= CountCap /\ h <= Len(t)
  /\ \A i, j \in 1..h : t[i].source = t[j].source => i = j
  /\ \A c \in C : \E k \in 1..h : t[k].source = c

\* What is selected has every source of C, or was cut for size to less than one of each.
Tells(b, C) ==
  \/ C \subseteq {e.source : e \in SetOf(b.evidence)}
  \/ /\ b.drops.size > 0
     /\ \A i, j \in DOMAIN b.evidence : b.evidence[i].source = b.evidence[j].source => i = j

\* A list with such heads is selected from as that says.
LEMMA HeadsTell ==
  ASSUME NEW s, NEW required, List(SourceDiverse(Deduplicate(s), required)),
         NEW C, NEW h, Heads(SourceDiverse(Deduplicate(s), required), C, h),
         NEW b, b = SelectContext(s, required), b # Invalid, List(b.evidence)
  PROVE  Tells(b, C)
<1> DEFINE ordered == SourceDiverse(Deduplicate(s), required)
           counted == Top(CapSources(ordered), CountCap)
           left == CapContext(counted)
<1>1. b.evidence = left /\ b.drops.size = Len(counted) - Len(left)
  BY DEF SelectContext
<1>2. /\ List(ordered) /\ h \in Nat /\ h <= Len(ordered) /\ h <= CountCap
      /\ \A i, j \in 1..h : ordered[i].source = ordered[j].source => i = j
      /\ \A c \in C : \E k \in 1..h : ordered[k].source = c
  BY DEF Heads
<1> HIDE DEF ordered
<1>3. \/ h <= Len(left) /\ \A k \in 1..h : left[k] = ordered[k]
      \/ /\ Len(left) < h /\ Len(counted) - Len(left) > 0
         /\ \A k \in 1..Len(left) : left[k] = ordered[k]
  BY <1>2, HeadsKept
<1>4. Len(left) \in Nat /\ DOMAIN left = 1..Len(left)
  BY <1>1 DEF List
<1> HIDE DEF left, counted
<1>5. CASE h <= Len(left) /\ \A k \in 1..h : left[k] = ordered[k]
  <2>1. ASSUME NEW c \in C PROVE c \in {e.source : e \in SetOf(b.evidence)}
    <3>1. PICK k \in 1..h : ordered[k].source = c
      BY <1>2
    <3>2. left[k] \in SetOf(b.evidence) /\ left[k].source = c
      BY <1>1, <1>2, <1>4, <1>5, <3>1 DEF SetOf, ToSet
    <3> QED
      BY <3>2
  <2> QED
    BY <2>1 DEF Tells
<1>6. CASE /\ Len(left) < h /\ Len(counted) - Len(left) > 0
           /\ \A k \in 1..Len(left) : left[k] = ordered[k]
  <2>1. ASSUME NEW i \in DOMAIN left, NEW j \in DOMAIN left, left[i].source = left[j].source
        PROVE  i = j
    BY <1>2, <1>4, <1>6, <2>1
  <2> QED
    BY <1>1, <1>6, <2>1 DEF Tells
<1> QED
  BY <1>3, <1>5, <1>6

\* A selection tells of every source that is required and that there is.
LEMMA SelectCovers ==
  ASSUME NEW s, List(s), \A e \in SetOf(s) : "source" \in DOMAIN e,
         NEW required, List(required), Len(required) <= CountCap,
         \A i, j \in DOMAIN required : required[i] = required[j] => i = j,
         NEW C, C \subseteq SetOf(required), \A c \in C : \E e \in SetOf(s) : e.source = c,
         NEW b, b = SelectContext(s, required), b # Invalid
  PROVE  Tells(b, C)
<1> DEFINE t == Deduplicate(s)
           ordered == SourceDiverse(t, required)
<1>1. List(t) /\ \A e \in SetOf(s) : \E f \in SetOf(t) : f.source = e.source
  BY DeduplicateFacts DEF Part
<1>2. List(b.evidence)
  BY SelectFacts DEF Part
<1> HIDE DEF t
<1>3. List(ordered)
  BY <1>1, DiverseFacts
<1>4. PICK h : HeadsOf(t, required, h)
  BY <1>1, DiverseHeads
<1>5. Heads(ordered, C, h)
  <2>1. /\ h \in Nat /\ h <= Len(required) /\ h <= Len(ordered)
        /\ \A i, j \in 1..h : ordered[i].source = ordered[j].source => i = j
        /\ \A e \in SetOf(t) : e.source \in SetOf(required) =>
             \E k \in 1..h : ordered[k].source = e.source
    BY <1>4 DEF HeadsOf
  <2>2. h <= CountCap
    BY <2>1, LimitAssumption DEF List
  <2>3. ASSUME NEW c \in C PROVE \E k \in 1..h : ordered[k].source = c
    <3>1. PICK f \in SetOf(t) : f.source = c
      BY <1>1
    <3> HIDE DEF ordered
    <3> QED
      BY <2>1, <3>1
  <2> HIDE DEF ordered
  <2> QED
    BY <2>1, <2>2, <2>3 DEF Heads
<1> QED
  BY <1>2, <1>3, <1>5, HeadsTell DEF t

\* A selection from one source alone tells of it.
LEMMA SelectOneKind ==
  ASSUME NEW s, List(s), \A e \in SetOf(s) : "source" \in DOMAIN e, NEW c,
         \A e \in SetOf(s) : e.source = c, SetOf(s) # {},
         NEW b, b = SelectContext(s, << >>), b # Invalid
  PROVE  Tells(b, {c})
<1> DEFINE t == Deduplicate(s)
           ordered == SourceDiverse(t, << >>)
<1>1. List(t) /\ SetOf(t) \subseteq SetOf(s)
      /\ \A e \in SetOf(s) : \E f \in SetOf(t) : f.source = e.source
  BY DeduplicateFacts DEF Part
<1>2. List(b.evidence)
  BY SelectFacts, EmptyIs DEF Part
<1> HIDE DEF t
<1>3. List(ordered) /\ SetOf(ordered) = SetOf(t)
  BY <1>1, DiverseFacts, EmptyIs
<1> HIDE DEF ordered
<1>0. PICK f \in SetOf(ordered) : TRUE
  BY <1>1, <1>3
<1>8. PICK i \in DOMAIN ordered : ordered[i] = f
  BY <1>0 DEF SetOf, ToSet
<1>4. Len(ordered) \in Nat /\ DOMAIN ordered = 1..Len(ordered) /\ 1 \in DOMAIN ordered
  BY <1>3, <1>8 DEF List
<1>9. ordered[1] \in SetOf(ordered)
  BY <1>4 DEF SetOf, ToSet
<1>5. ordered[1].source = c
  BY <1>1, <1>3, <1>9
<1>6. 1 <= CountCap
  BY LimitAssumption
<1>7. Heads(ordered, {c}, 1)
  BY <1>4, <1>5, <1>6 DEF Heads
<1> QED
  BY <1>2, <1>3, <1>7, HeadsTell DEF t, ordered

-----------------------------------------------------------------------------
(* What a plan asks for *)

\* A list of at most three sources, none twice.
SourceList(s) ==
  /\ List(s) /\ Len(s) <= 3
  /\ \A i, j \in DOMAIN s : s[i] = s[j] => i = j

\* Three different ones are such a list.
LEMMA TripleKinds ==
  ASSUME NEW a, NEW b, NEW c, a # b, a # c, b # c
  PROVE  SourceList(<<a, b, c>>) /\ SetOf(<<a, b, c>>) = {a, b, c}
<1>1. <<a, b, c>> \in Seq({a, b, c})
  OBVIOUS
<1>2. List(<<a, b, c>>)
  BY <1>1, SeqList
<1>3. Len(<<a, b, c>>) = 3 /\ DOMAIN <<a, b, c>> = {1, 2, 3}
  OBVIOUS
<1>4. <<a, b, c>>[1] = a /\ <<a, b, c>>[2] = b /\ <<a, b, c>>[3] = c
  OBVIOUS
<1>5. SetOf(<<a, b, c>>) = {a, b, c}
  BY <1>3, <1>4 DEF SetOf, ToSet
<1> QED
  BY <1>2, <1>3, <1>4, <1>5 DEF SourceList

\* A plan that the policy accepts asks for such a list.
LEMMA PlanKinds ==
  ASSUME NEW p, PlanAccepted(p)
  PROVE  /\ SourceList(p.sources)
         /\ p.intent = "price_move" /\ ~p.clarify => "news" \in SetOf(p.sources)
         /\ p.intent = "financial_term" /\ ~p.clarify => SetOf(p.sources) = {"glossary"}
<1>1. ASSUME NEW a PROVE SourceList(<<a>>)
  <2>1. Len(<<a>>) = 1 /\ DOMAIN <<a>> = {1}
    OBVIOUS
  <2> QED
    BY <2>1, Singleton DEF SourceList
<1>2. SourceList(<< >>)
  <2>1. Len(<< >>) = 0 /\ DOMAIN << >> = {}
    OBVIOUS
  <2> QED
    BY <2>1, EmptyIs DEF SourceList
<1>3. CASE p.clarify
  <2>1. p.sources = << >>
    BY <1>3 DEF PlanAccepted
  <2> QED
    BY <1>2, <1>3, <2>1
<1>4. CASE ~p.clarify
  <2> DEFINE row == PolicyMatrix[p.intent].sources
             all == <<"news", "disclosure", "research_report">>
  <2>1. p.sources = row /\ p.intent \in DOMAIN PolicyMatrix
    BY <1>4 DEF PlanAccepted
  <2>2. \/ row = << >> /\ p.intent = "price"
        \/ \E a : row = <<a>> /\ p.intent # "price_move" /\ (p.intent = "financial_term" => a = "glossary")
        \/ row = all /\ p.intent # "financial_term"
    BY <2>1 DEF PolicyMatrix
  <2>3. SourceList(all) /\ "news" \in SetOf(all)
    <3>1. /\ SourceList(<<"news", "disclosure", "research_report">>)
          /\ SetOf(<<"news", "disclosure", "research_report">>) = {"news", "disclosure", "research_report"}
      BY TripleKinds, "news" # "disclosure", "news" # "research_report", "disclosure" # "research_report"
    <3> QED
      BY <3>1
  <2> HIDE DEF row, all
  <2>4. CASE row = << >> /\ p.intent = "price"
    BY <1>2, <2>1, <2>4
  <2>5. ASSUME NEW a, row = <<a>>, p.intent # "price_move", p.intent = "financial_term" => a = "glossary"
        PROVE  /\ SourceList(p.sources) /\ p.intent # "price_move"
               /\ p.intent = "financial_term" => SetOf(p.sources) = {"glossary"}
    BY <1>1, <2>1, <2>5, Singleton
  <2>6. CASE row = all /\ p.intent # "financial_term"
    BY <2>1, <2>3, <2>6
  <2> QED
    BY <2>2, <2>4, <2>5, <2>6
<1> QED
  BY <1>3, <1>4

\* What must be covered is asked for.
LEMMA CoverageFacts ==
  ASSUME NEW p, PlanAccepted(p), ~p.clarify
  PROVE  SetOf(Coverage(p)) \subseteq SetOf(p.sources) /\ List(Coverage(p))
<1>1. CASE p.intent = "price_move"
  BY <1>1, PlanKinds, Singleton DEF Coverage
<1>2. CASE p.intent # "price_move"
  BY <1>2, PlanKinds DEF Coverage, SourceList
<1> QED
  BY <1>1, <1>2

\* A complete decision has evidence of all that must be covered.
LEMMA CompleteFacts ==
  ASSUME NEW p, ~p.clarify, NEW providers, NEW freshness, NEW retrieval,
         NEW d, d = Evaluate(p, providers, freshness, retrieval), d # Invalid, d.status = "complete"
  PROVE  /\ d.missing = << >>
         /\ \A c \in SetOf(Coverage(p)) : \E e \in SetOf(d.evidence) : e.source = c
<1> DEFINE coverage == Coverage(p)
           returned == {e.source : e \in SetOf(retrieval.evidence)}
           missing == Where(coverage, LAMBDA s : s \notin returned)
<1>1. PlanAccepted(p) /\ DecisionSound(p, d) /\ d = Decide(p, providers, freshness, retrieval)
  BY DEF Evaluate
<1>2. d.missing = << >>
  BY <1>1 DEF DecisionSound
<1>3. d.missing = missing /\ d.evidence = retrieval.evidence
  BY <1>1 DEF Decide
<1>4. List(coverage)
  BY <1>1, CoverageFacts
<1>5. SetOf(missing) = {coverage[i] : i \in {j \in DOMAIN coverage : coverage[j] \notin returned}}
  BY <1>4, ItemsAtFacts DEF Where, SetOf
<1>6. SetOf(missing) = {}
  BY <1>2, <1>3, EmptyIs
<1> HIDE DEF coverage, returned, missing
<1>7. ASSUME NEW c \in SetOf(coverage) PROVE c \in returned
  <2>1. PICK i \in DOMAIN coverage : coverage[i] = c
    BY <1>7 DEF SetOf, ToSet
  <2> QED
    BY <1>5, <1>6, <2>1
<1> QED
  BY <1>2, <1>3, <1>7 DEF coverage, returned

\* What a pipeline that did not fail is made of.
LEMMA DecidedIs ==
  ASSUME NEW docs, NEW counts, NEW d, NEW required, NEW r, r = Decided(docs, counts, d, required),
         r # Invalid
  PROVE  /\ d # Invalid /\ r.docs = docs /\ r.decision = d
         /\ r.budget = SelectContext(d.evidence, required) /\ r.budget # Invalid
         /\ {"decision", "budget"} \subseteq DOMAIN r
BY DEF Decided, Piped

-----------------------------------------------------------------------------
(* What a pipeline comes to *)

\* Decision d tells of the doubt.
TellsDoubt(e, d) == d.status = "partial" /\ "unresolved_disclosure_correction" \in d.warnings

\* What a pipeline r promises, for plan p, of a piece it selects.
Apt(e, r, p) ==
  \/ p.intent = "financial_term"
  \/ /\ InRange(e.at, p.range)
     /\ e.source = "disclosure" =>
          /\ Stands(e, r.docs, p.range)
          /\ InDoubt(e, r.docs) /\ p.intent # "price_move" => TellsDoubt(e, r.decision)

\* What it promises altogether.
Weighed(r, p) ==
  /\ {"decision", "budget"} \subseteq DOMAIN r
  /\ PlanAccepted(p) /\ List(r.budget.evidence)
  /\ \A e \in SetOf(r.budget.evidence) : Apt(e, r, p)
  /\ r.decision.status = "complete" =>
       r.decision.missing = << >> /\ Tells(r.budget, SetOf(Coverage(p)))

\* Whether a disclosure stands or is in doubt depends on its document alone.
LEMMA DoubtKept ==
  ASSUME NEW e, NEW f, f.doc = e.doc, NEW docs, NEW range
  PROVE  /\ Stands(f, docs, range) => Stands(e, docs, range)
         /\ InDoubt(e, docs) => InDoubt(f, docs)
BY DEF Stands, InDoubt

\* _run_evidence_pipeline, for documents.
LEMMA DocumentsWeighed ==
  ASSUME ~plan.clarify, Obtained(gathered.documents, plan),
         NEW r, r = EvidencePipeline, r # Invalid
  PROVE  Weighed(r, plan)
<1> DEFINE p == plan
           docs == ById(gathered.documents)
           n == Normalize(gathered.documents)
           request == Request
           s == FilterEvidence(n, request)
           fresh == EvaluateFreshness(s, docs, request)
           found == RetrieveForPlan(fresh.evidence, request, p)
           d == Evaluate(p, gathered.statuses, fresh, found)
           counts == Counts(n, s, fresh, found)
<1>1. n # Invalid /\ fresh # Invalid /\ r = Decided(docs, counts, d, p.sources)
  BY DEF EvidencePipeline, Filtered, Searched, Retrieved
<1>2. request.security = p.security /\ request.sources = p.sources /\ request.range = p.range
  BY DEF Request
<1> HIDE DEF p, docs, n, request, s, fresh, found, d, counts
<1>3. /\ d # Invalid /\ r.docs = docs /\ r.decision = d
      /\ r.budget = SelectContext(d.evidence, p.sources) /\ r.budget # Invalid
      /\ {"decision", "budget"} \subseteq DOMAIN r
  BY <1>1, DecidedIs
<1>4. ~p.clarify /\ Obtained(gathered.documents, p)
  BY DEF p
<1>5. PlanAccepted(p)
  BY <1>3 DEF Evaluate, d
<1>6. /\ List(p.sources) /\ Len(p.sources) <= 3
      /\ \A i, j \in DOMAIN p.sources : p.sources[i] = p.sources[j] => i = j
  BY <1>5, PlanKinds DEF SourceList
<1>7. /\ List(s) /\ List(fresh.evidence) /\ Disclosures(s) \subseteq DOMAIN docs
      /\ \A f \in SetOf(fresh.evidence) : FreshPiece(f, docs, p)
  BY <1>1, <1>2, <1>4, FreshFacts DEF docs, n, s, fresh
<1>8. List(found.evidence)
  BY <1>2, <1>6, <1>7, RetrievePlanFacts DEF found
<1>9. /\ d = Decide(p, gathered.statuses, fresh, found) /\ d.evidence = found.evidence
      /\ found.evidence # << >> => found.status = "ok"
      /\ \A e \in SetOf(d.evidence) : \E f \in SetOf(fresh.evidence) : Same(e, f)
  <2>1. d = Evaluate(p, gathered.statuses, fresh, found) /\ d # Invalid /\ ~p.clarify
    BY <1>3, <1>4 DEF d
  <2>2. List(fresh.evidence) /\ List(found.evidence)
    BY <1>7, <1>8
  <2>3. /\ d = Decide(p, gathered.statuses, fresh, found) /\ d.evidence = found.evidence
        /\ found.evidence # << >> => found.status = "ok"
    BY <2>1, <2>2, EvaluateFacts
  <2>4. ASSUME NEW e \in SetOf(d.evidence)
        PROVE  \E f \in SetOf(fresh.evidence) : Same(e, f)
    BY <2>1, <2>2, EvaluateFacts
  <2> QED
    BY <2>3, <2>4
<1>10. ASSUME NEW e \in SetOf(d.evidence) PROVE Apt(e, r, p) /\ "source" \in DOMAIN e
  <2>1. PICK f \in SetOf(fresh.evidence) : Same(e, f)
    BY <1>9
  <2>2. /\ {"source", "doc", "at"} \subseteq DOMAIN f
        /\ InRange(f.at, p.range) /\ f.source \in SetOf(p.sources)
        /\ f.source = "disclosure" => Stands(f, docs, p.range)
    BY <1>7 DEF FreshPiece
  <2>3. e.source = f.source /\ e.doc = f.doc /\ e.at = f.at
    BY <2>1, <2>2, SamePiece
  <2>4. "source" \in DOMAIN e
    BY <2>1, <2>2, SamePiece
  <2>5. ASSUME e.source = "disclosure", InDoubt(e, docs), p.intent # "price_move"
        PROVE  TellsDoubt(e, d)
    <3>1. InDoubt(f, docs) /\ f.source = "disclosure"
      BY <2>3, <2>5, DoubtKept
    <3>2. "unresolved_disclosure_correction" \in fresh.warnings
      BY <1>1, <1>7, <3>1, DoubtWarned DEF fresh
    <3>3. found.status = "ok"
      BY <1>9, <1>10, EmptyIs
    <3>4. "disclosure" \in SetOf(p.sources)
      BY <2>2, <3>1
    <3> QED
      BY <1>9, <2>5, <3>2, <3>3, <3>4, DoubtLimits DEF TellsDoubt
  <2> QED
    BY <1>3, <2>2, <2>3, <2>4, <2>5, DoubtKept DEF Apt
<1>11. Part(r.budget.evidence, d.evidence)
  BY <1>3, <1>6, <1>8, <1>9, SelectFacts
<1>12. ASSUME d.status = "complete"
       PROVE  d.missing = << >> /\ Tells(r.budget, SetOf(Coverage(p)))
  <2>1. /\ d.missing = << >>
        /\ \A c \in SetOf(Coverage(p)) : \E e \in SetOf(d.evidence) : e.source = c
    BY <1>3, <1>4, <1>12, CompleteFacts DEF d
  <2>2. SetOf(Coverage(p)) \subseteq SetOf(p.sources)
    BY <1>4, <1>5, CoverageFacts
  <2>3. Len(p.sources) <= CountCap
    BY <1>6, LimitAssumption DEF AllThree, List
  <2>4. List(d.evidence) /\ \A e \in SetOf(d.evidence) : "source" \in DOMAIN e
    BY <1>8, <1>9, <1>10
  <2> DEFINE C == SetOf(Coverage(p))
  <2>5. C \subseteq SetOf(p.sources) /\ \A c \in C : \E e \in SetOf(d.evidence) : e.source = c
    BY <2>1, <2>2
  <2> HIDE DEF C
  <2>6. Tells(r.budget, C)
    BY <1>3, <1>6, <2>3, <2>4, <2>5, SelectCovers
  <2> QED
    BY <2>1, <2>6 DEF C
<1>13. Weighed(r, p)
  BY <1>3, <1>5, <1>10, <1>11, <1>12 DEF Weighed, Part
<1> QED
  BY <1>13 DEF p

\* _run_evidence_pipeline, for a plan that asks back.
LEMMA ClarificationWeighed ==
  ASSUME plan.clarify, NEW r, r = EvidencePipeline, r # Invalid
  PROVE  Weighed(r, plan)
<1> DEFINE nothing == [windows |-> << >>, evidence |-> << >>, warnings |-> {}]
           found == [status |-> "empty", evidence |-> << >>]
           d == Evaluate(plan, << >>, nothing, found)
<1>1. r = Decided(<< >>, <<0, 0, 0, 0>>, d, << >>)
  BY DEF EvidencePipeline
<1> HIDE DEF nothing, found, d
<1>2. /\ d # Invalid /\ r.decision = d
      /\ r.budget = SelectContext(d.evidence, << >>) /\ r.budget # Invalid
      /\ {"decision", "budget"} \subseteq DOMAIN r
  BY <1>1, DecidedIs
<1>3. PlanAccepted(plan) /\ d.evidence = << >> /\ d.status \in {"blocked", "no_evidence"}
  BY <1>2, ClarifyFacts DEF d
<1>4. Part(r.budget.evidence, << >>)
  BY <1>2, <1>3, SelectFacts, EmptyIs
<1>5. List(r.budget.evidence) /\ SetOf(r.budget.evidence) = {}
  BY <1>4, EmptyIs DEF Part
<1> QED
  BY <1>2, <1>3, <1>5 DEF Weighed

\* _run_glossary_pipeline.
LEMMA GlossaryWeighed ==
  ASSUME Defined, List(gathered.evidence),
         \A e \in SetOf(gathered.evidence) : e.source = "glossary" /\ "source" \in DOMAIN e,
         NEW r, r = GlossaryPipeline, r # Invalid
  PROVE  Weighed(r, plan)
<1> DEFINE found == gathered.evidence
           window == [source |-> "glossary", from |-> NoDate, to |-> NoDate, by |-> "none"]
           freshness == [windows |-> <<window>>, warnings |-> {},
                         evidence |-> [i \in DOMAIN found |-> [found[i] EXCEPT !.score = NoScore]]]
           retrieval == [status |-> IF found = << >> THEN "empty" ELSE "ok", evidence |-> found]
           d == Evaluate(plan, [s \in {"glossary"} |-> gathered.status], freshness, retrieval)
           counts == Counts(found, found, freshness, retrieval)
<1>1. r = Decided(<< >>, counts, d, << >>)
  BY DEF GlossaryPipeline
<1>2. retrieval.evidence = found /\ List(freshness.evidence)
  BY DEF List
<1> HIDE DEF freshness, retrieval, d, counts
<1>3. /\ d # Invalid /\ r.decision = d
      /\ r.budget = SelectContext(d.evidence, << >>) /\ r.budget # Invalid
      /\ {"decision", "budget"} \subseteq DOMAIN r
  BY <1>1, DecidedIs
<1>4. plan.intent = "financial_term" /\ ~plan.clarify
  BY DEF Defined
<1>5. PlanAccepted(plan) /\ d.evidence = found
  BY <1>2, <1>3, <1>4, EvaluateFacts DEF d
<1>6. Part(r.budget.evidence, d.evidence)
  BY <1>3, <1>5, SelectFacts, EmptyIs
<1>7. ASSUME d.status = "complete"
      PROVE  d.missing = << >> /\ Tells(r.budget, SetOf(Coverage(plan)))
  <2>1. /\ d.missing = << >>
        /\ \A c \in SetOf(Coverage(plan)) : \E e \in SetOf(d.evidence) : e.source = c
    BY <1>3, <1>4, <1>7, CompleteFacts DEF d
  <2>2. SetOf(Coverage(plan)) = {"glossary"}
    BY <1>4, <1>5, PlanKinds DEF Coverage
  <2>3. SetOf(found) # {}
    BY <1>5, <2>1, <2>2
  <2>4. Tells(r.budget, {"glossary"})
    BY <1>3, <1>5, <2>3, SelectOneKind
  <2> QED
    BY <2>1, <2>2, <2>4
<1>8. \A e \in SetOf(r.budget.evidence) : Apt(e, r, plan)
  BY <1>4 DEF Apt
<1> QED
  BY <1>3, <1>5, <1>6, <1>7, <1>8 DEF Weighed, Part

-----------------------------------------------------------------------------
(* Comparisons *)

\* Of finitely many, one is foremost: by a, then by b, then by position.
LEMMA Foremost ==
  ASSUME NEW n \in Nat \ {0}, NEW a \in [1..n -> Int], NEW b \in [1..n -> Int]
  PROVE  \E i \in 1..n : \A j \in 1..n :
           \/ a[i] > a[j]
           \/ /\ a[i] = a[j]
              /\ b[i] > b[j] \/ (b[i] = b[j] /\ i <= j)
<1> DEFINE S == 1..n
           ahead(i, j) == \/ a[i] > a[j]
                          \/ /\ a[i] = a[j]
                             /\ b[i] > b[j] \/ (b[i] = b[j] /\ i < j)
           R == {p \in S \X S : ahead(p[1], p[2])}
<1>1. IsFiniteSet(S) /\ Cardinality(S) = n
  BY FS_Interval, 1 \in Int, n \in Int
<1>2. ASSUME NEW i \in S, NEW j \in S PROVE <<i, j>> \in R <=> ahead(i, j)
  OBVIOUS
<1>3. ASSUME NEW i \in S PROVE a[i] \in Int /\ b[i] \in Int /\ i \in Int
  OBVIOUS
<1> HIDE DEF R
<1>4. StrictOrder(S, R)
  <2> HIDE DEF S, ahead
  <2>1. ASSUME NEW i \in S PROVE <<i, i>> \notin R
    <3>1. ~ahead(i, i)
      BY <1>3 DEF ahead
    <3> QED
      BY <1>2, <3>1
  <2>2. ASSUME NEW i \in S, NEW j \in S PROVE i = j \/ <<i, j>> \in R \/ <<j, i>> \in R
    <3>1. i = j \/ ahead(i, j) \/ ahead(j, i)
      BY <1>3 DEF ahead
    <3> QED
      BY <1>2, <3>1
  <2>3. ASSUME NEW i \in S, NEW j \in S, NEW k \in S, <<i, j>> \in R, <<j, k>> \in R
        PROVE  <<i, k>> \in R
    <3>1. ahead(i, j) /\ ahead(j, k)
      BY <1>2, <2>3
    <3> DEFINE a1 == a[i]
               a2 == a[j]
               a3 == a[k]
               b1 == b[i]
               b2 == b[j]
               b3 == b[k]
    <3>2. a1 \in Int /\ a2 \in Int /\ a3 \in Int /\ b1 \in Int /\ b2 \in Int /\ b3 \in Int
      BY <1>3
    <3>3. i \in Int /\ j \in Int /\ k \in Int
      BY <1>3
    <3>4. /\ a1 > a2 \/ (a1 = a2 /\ (b1 > b2 \/ (b1 = b2 /\ i < j)))
          /\ a2 > a3 \/ (a2 = a3 /\ (b2 > b3 \/ (b2 = b3 /\ j < k)))
      BY <3>1 DEF ahead
    <3> HIDE DEF a1, a2, a3, b1, b2, b3
    <3>5. a1 > a3 \/ (a1 = a3 /\ (b1 > b3 \/ (b1 = b3 /\ i < k)))
      BY <3>2, <3>3, <3>4
    <3>6. ahead(i, k)
      BY <3>5 DEF ahead, a1, a3, b1, b3
    <3> QED
      BY <1>2, <3>6
  <2> QED
    BY <2>1, <2>2, <2>3 DEF StrictOrder
<1>5. 1 \in 1..Cardinality(S)
  BY <1>1
<1> HIDE DEF S
<1>6. PICK i \in S : Rank(S, R, i) = 1 - 1
  BY <1>1, <1>4, <1>5, RankOnto
<1>7. {z \in S : <<z, i>> \in R} = {}
  <2>1. IsFiniteSet({z \in S : <<z, i>> \in R})
    BY <1>1, FS_Subset, {z \in S : <<z, i>> \in R} \in SUBSET S
  <2> QED
    BY <1>6, <2>1, FS_EmptySet DEF Rank
<1>8. ASSUME NEW j \in S
      PROVE  \/ a[i] > a[j]
             \/ /\ a[i] = a[j]
                /\ b[i] > b[j] \/ (b[i] = b[j] /\ i <= j)
  <2>1. <<j, i>> \notin R
    BY <1>7
  <2> QED
    <3>1. ~ahead(j, i)
      BY <1>2, <2>1
    <3> QED
      BY <1>3, <3>1
<1> QED
  BY <1>8 DEF S

\* The items at some positions, one by one.
LEMMA ItemsAre ==
  ASSUME NEW s, List(s), NEW I \in SUBSET DOMAIN s
  PROVE  /\ List(ItemsAt(s, I))
         /\ \A e : e \in SetOf(ItemsAt(s, I)) <=> \E i \in I : e = s[i]
BY ItemsPart DEF Part

\* Articles that were known at the basis.
KnownArticles(s) == List(s) /\ \A a \in SetOf(s) : a.at \in Int /\ a.at <= BasisAt

\* The articles of a cluster that were known.
LEMMA KnownFacts ==
  ASSUME NEW c \in SetOf(Clusters)
  PROVE  /\ KnownArticles(Known(c.articles))
         /\ IsFiniteSet(c.terms) /\ List(c.common) /\ List(c.different)
<1>1. /\ c.articles \in Seq(SetOf(c.articles)) /\ \A a \in SetOf(c.articles) : a.at \in Int
      /\ IsFiniteSet(c.terms)
      /\ c.common \in Seq(SetOf(c.common)) /\ c.different \in Seq(SetOf(c.different))
  BY ComparisonAssumption
<1>2. List(c.articles) /\ List(c.common) /\ List(c.different)
  BY <1>1, SeqList
<1> DEFINE s == c.articles
           I == {i \in DOMAIN s : s[i].at <= BasisAt}
<1>3. Known(s) = ItemsAt(s, I)
  BY DEF Known, Where
<1>4. \A i \in I : s[i] \in SetOf(s) /\ s[i].at <= BasisAt
  BY DEF SetOf, ToSet
<1>5. I \in SUBSET DOMAIN s
  OBVIOUS
<1> HIDE DEF s, I
<1>6. List(Known(s)) /\ \A e : e \in SetOf(Known(s)) <=> \E i \in I : e = s[i]
  BY <1>2, <1>3, <1>5, ItemsAre DEF s
<1>7. KnownArticles(Known(s))
  BY <1>1, <1>4, <1>6 DEF KnownArticles, s
<1> QED
  BY <1>1, <1>2, <1>7 DEF s

\* Of candidates with known articles there is a best one, which Select chooses.
LEMMA BestExists ==
  ASSUME NEW candidates, List(candidates), candidates # << >>, NEW words,
         \A i \in DOMAIN candidates : /\ candidates[i] \in SetOf(Clusters)
                                      /\ Len(Known(candidates[i].articles)) >= 2
  PROVE  LET overlap(c) == Cardinality(words \cap c.terms)
             latest(c) == Max({a.at : a \in SetOf(Known(c.articles))}) IN
         \E i \in DOMAIN candidates : \A j \in DOMAIN candidates :
           \/ overlap(candidates[i]) > overlap(candidates[j])
           \/ /\ overlap(candidates[i]) = overlap(candidates[j])
              /\ \/ latest(candidates[i]) > latest(candidates[j])
                 \/ latest(candidates[i]) = latest(candidates[j]) /\ i <= j
<1> DEFINE n == Len(candidates)
           a == [i \in 1..n |-> Cardinality(words \cap candidates[i].terms)]
           b == [i \in 1..n |-> Max({x.at : x \in SetOf(Known(candidates[i].articles))})]
<1>1. n \in Nat \ {0} /\ DOMAIN candidates = 1..n
  <2>1. n # 0
    BY ListSeq, EmptySeq
  <2> QED
    BY <2>1 DEF List
<1>2. ASSUME NEW i \in 1..n PROVE a[i] \in Int /\ b[i] \in Int
  <2> DEFINE c == candidates[i]
             known == Known(c.articles)
             times == {x.at : x \in SetOf(known)}
  <2>1. c \in SetOf(Clusters) /\ Len(known) >= 2
    BY <1>1
  <2>2. KnownArticles(known) /\ IsFiniteSet(c.terms)
    BY <2>1, KnownFacts
  <2>3. Cardinality(words \cap c.terms) \in Nat
    BY <2>2, FS_Subset, FS_CardinalityType, words \cap c.terms \in SUBSET c.terms
  <2> HIDE DEF known
  <2>4. known[1] \in SetOf(known)
    BY <2>1, <2>2 DEF KnownArticles, List, SetOf, ToSet
  <2>5. times \in SUBSET Int /\ times # {} /\ \A t \in times : t <= BasisAt
    BY <2>2, <2>4 DEF KnownArticles
  <2> HIDE DEF times
  <2>6. Max(times) \in Int
    BY <2>5, MaxIs, BasisAssumption
  <2> QED
    BY <2>3, <2>6 DEF times, known
<1>3. a \in [1..n -> Int] /\ b \in [1..n -> Int]
  BY <1>2
<1>4. \A i \in 1..n : /\ a[i] = Cardinality(words \cap candidates[i].terms)
                      /\ b[i] = Max({x.at : x \in SetOf(Known(candidates[i].articles))})
  OBVIOUS
<1> HIDE DEF n, a, b
<1>5. PICK i \in 1..n : \A j \in 1..n :
        \/ a[i] > a[j]
        \/ /\ a[i] = a[j]
           /\ b[i] > b[j] \/ (b[i] = b[j] /\ i <= j)
  BY <1>1, <1>3, Foremost
<1> QED
  BY <1>1, <1>4, <1>5

\* A comparison of articles that were known.
SoundComparison(c) == KnownArticles(c.articles) /\ List(c.common) /\ List(c.different)

\* The items at some positions are a part, of a list that goes by another name.
LEMMA ItemsKept ==
  ASSUME NEW s, List(s), NEW I \in SUBSET DOMAIN s, NEW t, t = ItemsAt(s, I)
  PROVE  List(t) /\ SetOf(t) \subseteq SetOf(s)
BY ItemsPart DEF Part

\* A comparison is made of known articles.
LEMMA ComparisonIsSound ==
  ASSUME NEW c \in SetOf(Clusters), NEW words
  PROVE  SoundComparison(Comparison(c, Known(c.articles), words))
<1> DEFINE articles == Known(c.articles)
           ids == {a.id : a \in SetOf(articles)}
           x == Comparison(c, articles, words)
<1>1. KnownArticles(articles) /\ List(c.common) /\ List(c.different)
  BY KnownFacts
<1>2. /\ x.articles = Top(articles, ShownArticles)
      /\ x.common = ItemsAt(c.common, {i \in DOMAIN c.common : c.common[i].sources \subseteq ids})
      /\ x.different = ItemsAt(c.different, {i \in DOMAIN c.different : c.different[i].sources \subseteq ids})
  BY DEF Comparison, Where
<1> HIDE DEF articles, ids, x
<1>3. List(x.common)
  BY <1>1, <1>2, ItemsKept,
     {i \in DOMAIN c.common : c.common[i].sources \subseteq ids} \in SUBSET DOMAIN c.common
<1>4. List(x.different)
  BY <1>1, <1>2, ItemsKept,
     {i \in DOMAIN c.different : c.different[i].sources \subseteq ids} \in SUBSET DOMAIN c.different
<1>5. ShownArticles \in Nat
  BY ComparisonAssumption
<1>6. List(x.articles) /\ SetOf(x.articles) \subseteq SetOf(articles)
  BY <1>1, <1>2, <1>5, TopFacts DEF KnownArticles
<1>7. KnownArticles(x.articles)
  BY <1>1, <1>6 DEF KnownArticles
<1> QED
  BY <1>3, <1>4, <1>7 DEF SoundComparison, articles, x

\* So is the one that is selected.
LEMMA SelectedIsSound ==
  ASSUME NEW words, NEW marked, NEW security,
         NEW found, found = Select(words, marked, security), found # NoComparison
  PROVE  SoundComparison(found)
<1> DEFINE I == {i \in DOMAIN Clusters : Clusters[i].security = security}
           own == ItemsAt(Clusters, I)
           told(cs) == words \cap UNION {c.terms : c \in SetOf(cs)}
           overlap(c) == Cardinality(words \cap c.terms)
           J == {i \in DOMAIN own : /\ Len(Known(own[i].articles)) >= 2
                                    /\ told(own) # {} => overlap(own[i]) > 0}
           candidates == ItemsAt(own, J)
           latest(c) == Max({a.at : a \in SetOf(Known(c.articles))})
           best == CHOOSE i \in DOMAIN candidates : \A j \in DOMAIN candidates :
                     \/ overlap(candidates[i]) > overlap(candidates[j])
                     \/ /\ overlap(candidates[i]) = overlap(candidates[j])
                        /\ \/ latest(candidates[i]) > latest(candidates[j])
                           \/ latest(candidates[i]) = latest(candidates[j]) /\ i <= j
<1>1. /\ candidates # << >>
      /\ found = Comparison(candidates[best], Known(candidates[best].articles), words)
  BY DEF Select, Where
<1>2. List(Clusters)
  BY ComparisonAssumption, SeqList
<1>3. I \in SUBSET DOMAIN Clusters /\ J \in SUBSET DOMAIN own
  OBVIOUS
<1>4. \A i \in J : i \in DOMAIN own /\ Len(Known(own[i].articles)) >= 2
  OBVIOUS
<1> HIDE DEF I, J
<1>5. List(own) /\ SetOf(own) \subseteq SetOf(Clusters)
  BY <1>2, <1>3, ItemsKept
<1> HIDE DEF own
<1>6. List(candidates) /\ SetOf(candidates) = {own[i] : i \in J}
  BY <1>3, <1>5, ItemsPart DEF Part
<1> HIDE DEF candidates
<1>7. ASSUME NEW i \in DOMAIN candidates
      PROVE  /\ candidates[i] \in SetOf(Clusters)
             /\ Len(Known(candidates[i].articles)) >= 2
  <2>1. candidates[i] \in SetOf(candidates)
    BY DEF SetOf, ToSet
  <2>2. PICK k \in J : candidates[i] = own[k]
    BY <1>6, <2>1
  <2>3. own[k] \in SetOf(own)
    BY <1>4 DEF SetOf, ToSet
  <2> QED
    BY <1>4, <1>5, <2>2, <2>3
<1>8. best \in DOMAIN candidates
  <2>1. \E i \in DOMAIN candidates : \A j \in DOMAIN candidates :
          \/ overlap(candidates[i]) > overlap(candidates[j])
          \/ /\ overlap(candidates[i]) = overlap(candidates[j])
             /\ \/ latest(candidates[i]) > latest(candidates[j])
                \/ latest(candidates[i]) = latest(candidates[j]) /\ i <= j
    BY <1>1, <1>6, <1>7, BestExists
  <2> HIDE DEF overlap, latest
  <2> QED
    BY <2>1
<1> HIDE DEF best
<1>9. candidates[best] \in SetOf(Clusters)
  BY <1>7, <1>8
<1> QED
  BY <1>1, <1>9, ComparisonIsSound

\* A piece of news that was known at the basis.
NewsPiece(e) == e.source = "news" /\ e.at <= BasisAt

\* A comparison's piece is one.
LEMMA ComparisonPieceIs ==
  ASSUME NEW c, NEW part, NEW a, a.at <= BasisAt, NEW words, NEW security
  PROVE  NewsPiece(ComparisonPiece(c, part, a, words, security))
BY DEF ComparisonPiece, NewsPiece

\* So is all of a comparison's evidence.
LEMMA ComparisonPieces ==
  ASSUME NEW c, SoundComparison(c), NEW security
  PROVE  /\ List(ComparisonEvidence(c, security))
         /\ \A e \in SetOf(ComparisonEvidence(c, security)) : NewsPiece(e)
<1> DEFINE I(claim) == {i \in DOMAIN c.articles : c.articles[i].id \in claim.sources}
           listed(claim) == ItemsAt(c.articles, I(claim))
           row(kind, claims, i) ==
             [k \in DOMAIN listed(claims[i]) |->
                ComparisonPiece(c, <<kind, i>>, listed(claims[i])[k], claims[i].words, security)]
           rows(kind, claims) == [i \in DOMAIN claims |-> row(kind, claims, i)]
           told == FlattenSeq(rows("common", c.common)) \o FlattenSeq(rows("different", c.different))
           titles == Top(c.articles, ShownTitles)
           plain == [i \in DOMAIN titles |-> ComparisonPiece(c, Whole, titles[i], titles[i].words, security)]
<1>1. ComparisonEvidence(c, security) = told \/ ComparisonEvidence(c, security) = plain
  BY DEF ComparisonEvidence, Where
<1>2. /\ List(c.articles) /\ \A a \in SetOf(c.articles) : a.at <= BasisAt
      /\ List(c.common) /\ List(c.different)
  BY DEF SoundComparison, KnownArticles
<1>3. ASSUME NEW claim
      PROVE  /\ List(listed(claim))
             /\ \A k \in DOMAIN listed(claim) : listed(claim)[k].at <= BasisAt
  <2>1. I(claim) \in SUBSET DOMAIN c.articles
    OBVIOUS
  <2> HIDE DEF I
  <2>2. List(listed(claim)) /\ SetOf(listed(claim)) \subseteq SetOf(c.articles)
    BY <1>2, <2>1, ItemsKept
  <2> HIDE DEF listed
  <2> QED
    BY <1>2, <2>2 DEF SetOf, ToSet
<1> HIDE DEF listed
<1>4. ASSUME NEW kind, NEW claims, NEW i
      PROVE  List(row(kind, claims, i)) /\ \A e \in SetOf(row(kind, claims, i)) : NewsPiece(e)
  <2>1. /\ List(listed(claims[i]))
        /\ \A k \in DOMAIN listed(claims[i]) : listed(claims[i])[k].at <= BasisAt
    BY <1>3
  <2>2. List(row(kind, claims, i)) /\ DOMAIN row(kind, claims, i) = DOMAIN listed(claims[i])
    BY <2>1 DEF List
  <2>3. \A k \in DOMAIN row(kind, claims, i) : NewsPiece(row(kind, claims, i)[k])
    BY <2>1, ComparisonPieceIs
  <2> HIDE DEF row
  <2> QED
    BY <2>2, <2>3 DEF SetOf, ToSet
<1> HIDE DEF row
<1>5. ASSUME NEW kind, NEW claims, List(claims)
      PROVE  /\ List(FlattenSeq(rows(kind, claims)))
             /\ \A e \in SetOf(FlattenSeq(rows(kind, claims))) : NewsPiece(e)
  <2>1. List(rows(kind, claims)) /\ DOMAIN rows(kind, claims) = DOMAIN claims
    BY <1>5 DEF List
  <2>2. \A i \in DOMAIN claims : rows(kind, claims)[i] = row(kind, claims, i)
    OBVIOUS
  <2> HIDE DEF rows
  <2>3. ASSUME NEW i \in DOMAIN rows(kind, claims) PROVE List(rows(kind, claims)[i])
    BY <1>4, <2>1, <2>2
  <2>4. /\ List(FlattenSeq(rows(kind, claims)))
        /\ \A e : e \in SetOf(FlattenSeq(rows(kind, claims))) <=>
                    \E i \in DOMAIN rows(kind, claims) : e \in SetOf(rows(kind, claims)[i])
    BY <2>1, <2>3, FlattenFacts
  <2>5. ASSUME NEW e \in SetOf(FlattenSeq(rows(kind, claims))) PROVE NewsPiece(e)
    <3>1. PICK i \in DOMAIN rows(kind, claims) : e \in SetOf(rows(kind, claims)[i])
      BY <2>4
    <3> QED
      BY <1>4, <2>1, <2>2, <3>1
  <2> QED
    BY <2>4, <2>5
<1>6. List(told) /\ \A e \in SetOf(told) : NewsPiece(e)
  <2> DEFINE x == FlattenSeq(rows("common", c.common))
             y == FlattenSeq(rows("different", c.different))
  <2>1. List(x) /\ \A e \in SetOf(x) : NewsPiece(e)
    BY <1>2, <1>5
  <2>2. List(y) /\ \A e \in SetOf(y) : NewsPiece(e)
    BY <1>2, <1>5
  <2> HIDE DEF x, y
  <2>3. List(x \o y) /\ SetOf(x \o y) = SetOf(x) \cup SetOf(y)
    BY <2>1, <2>2, ListJoin DEF SetOf
  <2>4. told = x \o y
    BY DEF x, y
  <2> QED
    BY <2>1, <2>2, <2>3, <2>4
<1>7. List(plain) /\ \A e \in SetOf(plain) : NewsPiece(e)
  <2>1. ShownTitles \in Nat
    BY ComparisonAssumption
  <2>2. List(titles) /\ SetOf(titles) \subseteq SetOf(c.articles)
    BY <1>2, <2>1, TopFacts
  <2>3. \A i \in DOMAIN titles : titles[i].at <= BasisAt
    BY <1>2, <2>2 DEF SetOf, ToSet
  <2> HIDE DEF titles
  <2>4. List(plain) /\ DOMAIN plain = DOMAIN titles
    BY <2>2 DEF List
  <2>5. \A i \in DOMAIN plain : NewsPiece(plain[i])
    BY <2>3, ComparisonPieceIs
  <2> HIDE DEF plain
  <2> QED
    BY <2>4, <2>5 DEF SetOf, ToSet
<1> HIDE DEF told, plain
<1> QED
  BY <1>1, <1>6, <1>7

-----------------------------------------------------------------------------
(* What a gateway obtains *)

\* What the glossary gives.
Sections(s) == List(s) /\ \A e \in SetOf(s) : e.source = "glossary" /\ "source" \in DOMAIN e

\* Looking up gives nothing else.
LEMMA LookUpFacts ==
  ASSUME NEW available, NEW words
  PROVE  Sections(LookUp(available, words).evidence)
<1> DEFINE matched == {e \in Glossary : e.terms \cap words # {}}
<1>1. CASE ~available \/ Cardinality(matched) # 1
  <2>1. LookUp(available, words).evidence = << >>
    BY <1>1 DEF LookUp
  <2> QED
    BY <2>1, EmptyIs DEF Sections
<1>2. CASE ~(~available \/ Cardinality(matched) # 1)
  <2> DEFINE entry == CHOOSE e \in matched : TRUE
             s == EntryPieces(entry)
  <2>1. LookUp(available, words).evidence = s
    BY <1>2 DEF LookUp
  <2>2. entry \in Glossary
    <3>1. matched # {}
      BY <1>2, FS_EmptySet
    <3> QED
      BY <3>1
  <2> HIDE DEF entry
  <2>3. List(entry.sections)
    BY <2>2, RecordingAssumption, SeqList
  <2>4. List(s) /\ DOMAIN s = DOMAIN entry.sections
    BY <2>3 DEF List, EntryPieces
  <2>5. \A i \in DOMAIN s : s[i].source = "glossary" /\ "source" \in DOMAIN s[i]
    BY <2>4 DEF EntryPieces
  <2> HIDE DEF s
  <2> QED
    BY <2>1, <2>4, <2>5 DEF Sections, SetOf, ToSet
<1> QED
  BY <1>1, <1>2

\* Documents as they were recorded.
RecordedList(documents) == List(documents) /\ \A d \in SetOf(documents) : Recordable(d)

\* RecordingAssumption, document by document.
LEMMA RecordedLists ==
  /\ \A c \in Corpora : RecordedList(c.documents)
  /\ RecordedList(NewsDocuments)
<1>1. ASSUME NEW documents \in {c.documents : c \in Corpora} \cup {NewsDocuments}
      PROVE  RecordedList(documents)
  <2>1. /\ documents \in Seq(SetOf(documents))
        /\ \A d \in SetOf(documents) :
             /\ d.id # NoTarget /\ d.facts \in Seq(SetOf(d.facts))
             /\ d.source = "disclosure" => d.mentioned = {} /\ \E s \in d.primary : d.primary = {s}
             /\ d.notice.target # NoTarget => d.source = "disclosure" /\ d.notice.correction
    BY RecordingAssumption
  <2>2. List(documents) /\ \A d \in SetOf(documents) : List(d.facts)
    BY <2>1, SeqList
  <2> QED
    BY <2>1, <2>2 DEF RecordedList, Recordable
<1> QED
  BY <1>1

\* Documents about the plan's security, of sources it asks for, are what a gateway obtains.
LEMMA ObtainedFrom ==
  ASSUME NEW p, NEW s, RecordedList(s), NEW I \in SUBSET DOMAIN s,
         \A i \in I : p.security \in s[i].primary \cup s[i].mentioned /\ s[i].source \in SetOf(p.sources)
  PROVE  Obtained(ItemsAt(s, I), p)
<1>1. List(ItemsAt(s, I)) /\ \A e : e \in SetOf(ItemsAt(s, I)) <=> \E i \in I : e = s[i]
  BY ItemsAre DEF RecordedList
<1>2. \A i \in I : s[i] \in SetOf(s)
  BY DEF SetOf, ToSet
<1>3. ASSUME NEW d \in SetOf(ItemsAt(s, I))
      PROVE  /\ Recordable(d)
             /\ p.security \in d.primary \cup d.mentioned /\ d.source \in SetOf(p.sources)
  <2>1. PICK i \in I : d = s[i]
    BY <1>1
  <2> QED
    BY <1>2, <2>1 DEF RecordedList
<1> QED
  BY <1>1, <1>3 DEF Obtained

\* What a recorded gateway returns.
LEMMA RecordedFacts ==
  ASSUME NEW documents, RecordedList(documents), NEW p,
         NEW r, r = Recorded(documents, p), r # Invalid
  PROVE  Obtained(r.documents, p)
<1> DEFINE I == {i \in DOMAIN documents :
                   /\ p.security \in documents[i].primary \cup documents[i].mentioned
                   /\ documents[i].source \in SetOf(p.sources)}
<1>1. r.documents = ItemsAt(documents, I)
  BY DEF Recorded, Validated, Where
<1>2. /\ I \in SUBSET DOMAIN documents
      /\ \A i \in I : /\ p.security \in documents[i].primary \cup documents[i].mentioned
                      /\ documents[i].source \in SetOf(p.sources)
  OBVIOUS
<1> HIDE DEF I
<1> QED
  BY <1>1, <1>2, ObtainedFrom

\* What the gateway of build_runtime returns.
LEMMA FetchFacts ==
  ASSUME NEW documents, RecordedList(documents), NEW p,
         NEW r, r = FetchDocuments(documents, p), r # Invalid
  PROVE  Obtained(r.documents, p)
<1> DEFINE base == Recorded(documents, p)
           known == {d.id : d \in SetOf(base.documents)}
           I == {i \in DOMAIN NewsDocuments : p.security \in NewsDocuments[i].primary}
           own == ItemsAt(NewsDocuments, I)
           J == {i \in DOMAIN own : own[i].id \notin known}
           more == ItemsAt(own, J)
           all == base.documents \o more
<1>1. base # Invalid
  BY DEF FetchDocuments, Joined
<1>2. Obtained(base.documents, p)
  BY <1>1, RecordedFacts
<1>3. \/ r = base
      \/ r.documents = all /\ \A i \in DOMAIN all : all[i].source \in SetOf(p.sources)
  BY DEF FetchDocuments, Joined, Validated, Where
<1>4. List(own) /\ \A d \in SetOf(own) : Recordable(d) /\ p.security \in d.primary
  <2>1. RecordedList(NewsDocuments) /\ \A i \in DOMAIN NewsDocuments : NewsDocuments[i] \in SetOf(NewsDocuments)
    BY RecordedLists DEF SetOf, ToSet
  <2>2. I \in SUBSET DOMAIN NewsDocuments /\ \A i \in I : p.security \in NewsDocuments[i].primary
    OBVIOUS
  <2> HIDE DEF I
  <2>3. List(own) /\ \A e : e \in SetOf(own) <=> \E i \in I : e = NewsDocuments[i]
    BY <2>1, <2>2, ItemsAre DEF RecordedList
  <2> QED
    BY <2>1, <2>2, <2>3 DEF RecordedList
<1>5. List(more) /\ SetOf(more) \subseteq SetOf(own)
  <2>1. J \in SUBSET DOMAIN own
    OBVIOUS
  <2> HIDE DEF own, J
  <2> QED
    BY <1>4, <2>1, ItemsKept
<1> HIDE DEF base, own, more
<1>6. List(all) /\ SetOf(all) = SetOf(base.documents) \cup SetOf(more)
  BY <1>2, <1>5, ListJoin DEF SetOf, Obtained
<1> HIDE DEF all
<1>7. CASE r = base
  BY <1>2, <1>7
<1>8. CASE r.documents = all /\ \A i \in DOMAIN all : all[i].source \in SetOf(p.sources)
  <2>1. ASSUME NEW d \in SetOf(all)
        PROVE  /\ Recordable(d)
               /\ p.security \in d.primary \cup d.mentioned /\ d.source \in SetOf(p.sources)
    <3>1. d.source \in SetOf(p.sources)
      BY <1>8 DEF SetOf, ToSet
    <3>2. CASE d \in SetOf(base.documents)
      BY <1>2, <3>2 DEF Obtained
    <3>3. CASE d \in SetOf(more)
      BY <1>4, <1>5, <3>1, <3>3
    <3> QED
      BY <1>6, <3>2, <3>3
  <2> QED
    BY <1>6, <1>8, <2>1 DEF Obtained
<1> QED
  BY <1>3, <1>7, <1>8

-----------------------------------------------------------------------------
(* The inductive invariant *)

\* The turns of a talk that were answered about a security.
ToldOf(t) == {i \in 1..Len(t) : ~t[i].plan.clarify /\ t[i].plan.security # NoSecurity}

\* The session's context is one that planning makes, and remembers the last security that
\* an answer was about; before that, it remembers none.
ContextTells(ctx, t) ==
  /\ List(t)
  /\ ctx # NoContext => ctx \in Contexts
  /\ ToldOf(t) # {} => ctx # NoContext /\ ctx.security = t[Max(ToldOf(t))].plan.security
  /\ ToldOf(t) = {} /\ ctx # NoContext => ctx.security = NoSecurity

\* What pipeline r has chosen for plan p, whether or not a comparison has taken the place of
\* what was selected.
Chosen(r, p, replaced) ==
  /\ PlanAccepted(p) /\ List(r.budget.evidence)
  /\ \A e \in SetOf(r.budget.evidence) : IF replaced THEN NewsPiece(e) ELSE Apt(e, r, p)
  /\ r.decision.status = "complete" =>
       r.decision.missing = << >> /\ (replaced \/ Tells(r.budget, SetOf(Coverage(p))))

\* A comparison takes the place of what was selected.
Compared == Explicit /\ comparison # NoComparison

\* What is promised of an answer.
Shown == EvidenceIsApt /\ CompleteIsCovered /\ DoubtIsTold /\ ClaimsRest

\* What holds at each stage of a request; for the answer, its context and the stages
\* before it must be known.
RInv ==
  /\ corpus \in Corpora
  /\ ContextTells(context, talk)
  /\ stage \in {"idle", "planned", "fetched", "judged", "composed"}
  /\ stage # "idle" => question \in Questions /\ observed = Observed(Reads[question], context)
  /\ stage = "fetched" =>
       IF Defined THEN Sections(gathered.evidence) ELSE Obtained(gathered.documents, plan)
  /\ stage \in {"judged", "composed"} =>
       /\ comparison # NoComparison => Comparable(plan)
       /\ Chosen(pipeline, plan, Compared)
  /\ stage = "composed" => Composition(draft, selected, plan)
  /\ Shown

-----------------------------------------------------------------------------
(* The plan, and what the session remembers *)

\* A question names a security if exactly one is found in it.
LEMMA NamedFacts ==
  ASSUME NEW q
  PROVE  NamedSecurity(q) # NoSecurity <=> Extraction(q) = "one"
<1> DEFINE r == Reading(q.spans)
<1>1. NoSecurity \notin r.found
  BY DEF Reading
<1> HIDE DEF r
<1>2. Extraction(q) = "one" => r.found # {}
  BY DEF Extraction, r
<1>3. NamedSecurity(q) = IF Extraction(q) = "one" THEN CHOOSE s \in r.found : TRUE ELSE NoSecurity
  BY DEF NamedSecurity, r
<1> QED
  BY <1>1, <1>2, <1>3

\* The security and the range of a plan that does not ask back.
LEMMA PlanFacts ==
  ASSUME NEW q, NEW ctx, NEW p, p = Plan(q, ctx), ~p.clarify
  PROVE  p.security = Subject(q, ctx, p.intent) /\ p.range = Dates(q, ctx, p.intent)
BY DEF Plan, ForIntent, Clarification, Built

\* Its security is the one the question names or, if it names none, the context's.
LEMMA SubjectFacts ==
  ASSUME NEW q, NEW ctx, NEW p, p = Plan(q, ctx), ~p.clarify, p.security # NoSecurity
  PROVE  IF Extraction(q) = "one" THEN p.security = NamedSecurity(q)
         ELSE ctx # NoContext /\ p.security = ctx.security
BY PlanFacts, NamedFacts DEF Subject

\* What lies in its range lies in the range the question states.
LEMMA RangeFacts ==
  ASSUME NEW q, NEW ctx, NEW p, p = Plan(q, ctx), ~p.clarify, NEW at, InRange(at, p.range)
  PROVE  InRange(at, ParsePeriod(q).range)
<1> DEFINE stated == ParsePeriod(q).range
<1>1. stated # NoRange => Dates(q, ctx, p.intent) = stated
  BY DEF Dates
<1> HIDE DEF stated
<1>2. CASE stated = NoRange
  BY <1>2 DEF InRange, stated
<1>3. CASE stated # NoRange
  BY <1>1, <1>3, PlanFacts DEF stated
<1> QED
  BY <1>2, <1>3

\* The context saved of a plan is one that planning makes.
LEMMA SavedIn ==
  ASSUME NEW q \in Questions, NEW ctx, ctx # NoContext => ctx \in Contexts,
         NEW p, p = Plan(Reads[q], ctx), PlanAccepted(p), ~p.clarify,
         NEW saved, saved = SavedContext(ctx, p)
  PROVE  /\ saved \in Contexts
         /\ saved.security = IF p.security # NoSecurity THEN p.security
                             ELSE IF ctx = NoContext THEN NoSecurity ELSE ctx.security
<1> DEFINE S == {NoSecurity} \cup {NamedSecurity(Reads[x]) : x \in Questions}
           R == {NoRange, [from |-> Today, to |-> Today]} \cup {ParsePeriod(Reads[x]).range : x \in Questions}
           Q == {PolicyMatrix[i].sources : i \in DOMAIN PolicyMatrix}
<1>1. p.intent \in DOMAIN PolicyMatrix /\ p.sources \in Q
  BY DEF PlanAccepted
<1>2. p.intent \notin {"prohibited_advice", "out_of_scope"}
  BY <1>1 DEF PolicyMatrix
<1>3. saved = [security |-> IF p.security # NoSecurity THEN p.security
                            ELSE IF ctx = NoContext THEN NoSecurity ELSE ctx.security,
               range    |-> IF p.intent # "financial_term" THEN p.range
                            ELSE IF ctx = NoContext THEN NoRange ELSE ctx.range,
               intent   |-> p.intent,
               sources  |-> p.sources]
  BY <1>2 DEF SavedContext
<1>4. ctx # NoContext => ctx.security \in S /\ ctx.range \in R
  BY DEF Contexts
<1>5. NamedSecurity(Reads[q]) \in S /\ NoSecurity \in S
  OBVIOUS
<1>6. ParsePeriod(Reads[q]).range \in R /\ NoRange \in R /\ [from |-> Today, to |-> Today] \in R
  OBVIOUS
<1>7. Contexts = [security : S, range : R, intent : DOMAIN PolicyMatrix, sources : Q]
  BY DEF Contexts
<1> HIDE DEF S, R, Q
<1>8. p.security \in S
  BY <1>4, <1>5, PlanFacts DEF Subject
<1>9. p.range \in R
  BY <1>4, <1>6, PlanFacts DEF Dates
<1>10. saved \in Contexts
  BY <1>1, <1>3, <1>4, <1>5, <1>6, <1>7, <1>8, <1>9
<1> QED
  BY <1>3, <1>10

\* A list with one more item.
LEMMA AppendFacts ==
  ASSUME NEW t, List(t), NEW x, NEW u, u = Append(t, x)
  PROVE  /\ List(u) /\ Len(u) = Len(t) + 1 /\ u[Len(t) + 1] = x
         /\ \A i \in 1..Len(t) : u[i] = t[i]
<1> DEFINE n == Len(t)
           S == ToSet(t) \cup {x}
<1>1. t \in Seq(S) /\ n \in Nat
  BY ListSeq, SeqMonotonic DEF List
<1>2. /\ u \in Seq(S) /\ Len(u) = n + 1 /\ u[n + 1] = x
      /\ \A i \in 1..n : u[i] = t[i]
  BY <1>1
<1>3. List(u)
  BY <1>2, SeqList
<1> QED
  BY <1>2, <1>3

\* Its last item.
LEMMA LastAppended ==
  ASSUME NEW t, List(t), NEW x
  PROVE  Last(Append(t, x)) = x
<1> DEFINE u == Append(t, x)
<1>1. u = Append(t, x)
  OBVIOUS
<1> HIDE DEF u
<1>2. Len(u) = Len(t) + 1 /\ u[Len(t) + 1] = x
  BY <1>1, AppendFacts
<1>3. Last(u) = x
  BY <1>2 DEF Last
<1> QED
  BY <1>1, <1>3

\* What one more turn tells.
LEMMA ToldAppend ==
  ASSUME NEW t, NEW n \in Nat, Len(t) = n, NEW u, Len(u) = n + 1, \A i \in 1..n : u[i] = t[i]
  PROVE  IF ~u[n + 1].plan.clarify /\ u[n + 1].plan.security # NoSecurity
           THEN n + 1 \in ToldOf(u) /\ Max(ToldOf(u)) = n + 1
           ELSE ToldOf(u) = ToldOf(t)
<1> DEFINE x == u[n + 1]
<1>1. 1..(n + 1) = 1..n \cup {n + 1}
  OBVIOUS
<1>2. CASE ~x.plan.clarify /\ x.plan.security # NoSecurity
  <2> DEFINE T == ToldOf(u)
  <2>1. n + 1 \in T /\ T \in SUBSET Int /\ \A i \in T : i <= n + 1
    BY <1>2 DEF ToldOf
  <2> HIDE DEF T
  <2>2. Max(T) \in T /\ \A i \in T : i <= Max(T)
    BY <2>1, MaxIs, T # {}, n + 1 \in Int
  <2>3. Max(T) = n + 1
    <3>1. Max(T) \in Int /\ Max(T) <= n + 1 /\ n + 1 <= Max(T)
      BY <2>1, <2>2
    <3> QED
      BY <3>1
  <2> QED
    BY <1>2, <2>1, <2>3 DEF T
<1>3. CASE ~(~x.plan.clarify /\ x.plan.security # NoSecurity)
  <2>1. ToldOf(u) = {i \in 1..n : ~u[i].plan.clarify /\ u[i].plan.security # NoSecurity}
    BY <1>1, <1>3 DEF ToldOf
  <2>2. {i \in 1..n : ~u[i].plan.clarify /\ u[i].plan.security # NoSecurity} = ToldOf(t)
    BY DEF ToldOf
  <2> QED
    BY <1>3, <2>1, <2>2
<1> QED
  BY <1>2, <1>3

\* Recording a turn and saving its context go together: _save_session_context.
LEMMA ContextKept ==
  ASSUME NEW q \in Questions, NEW ctx, NEW t, ContextTells(ctx, t),
         NEW p, p = Plan(Reads[q], ctx), PlanAccepted(p),
         NEW x, x.plan = p
  PROVE  ContextTells(SavedContext(ctx, p), Append(t, x))
<1> DEFINE saved == SavedContext(ctx, p)
           u == Append(t, x)
<1>1. /\ List(t)
      /\ ctx # NoContext => ctx \in Contexts
      /\ ToldOf(t) # {} => ctx # NoContext /\ ctx.security = t[Max(ToldOf(t))].plan.security
      /\ ToldOf(t) = {} /\ ctx # NoContext => ctx.security = NoSecurity
  BY DEF ContextTells
<1>2. /\ List(u) /\ Len(u) = Len(t) + 1 /\ u[Len(t) + 1] = x
      /\ \A i \in 1..Len(t) : u[i] = t[i]
  <2>1. u = Append(t, x)
    OBVIOUS
  <2> HIDE DEF u
  <2>2. List(u) /\ Len(u) = Len(t) + 1 /\ u[Len(t) + 1] = x
    <3>1. List(u)
      BY <1>1, <2>1, AppendFacts
    <3>2. Len(u) = Len(t) + 1
      BY <1>1, <2>1, AppendFacts
    <3>3. u[Len(t) + 1] = x
      BY <1>1, <2>1, AppendFacts
    <3> QED
      BY <3>1, <3>2, <3>3
  <2>3. ASSUME NEW i \in 1..Len(t) PROVE u[i] = t[i]
    BY <1>1, <2>1, AppendFacts
  <2> QED
    BY <2>2, <2>3
<1>7. IF ~p.clarify /\ p.security # NoSecurity
        THEN Len(t) + 1 \in ToldOf(u) /\ Max(ToldOf(u)) = Len(t) + 1
        ELSE ToldOf(u) = ToldOf(t)
  <2>1. Len(t) \in Nat /\ u[Len(t) + 1].plan = p
    BY <1>1, <1>2 DEF List
  <2> HIDE DEF u
  <2> QED
    BY <1>2, <2>1, ToldAppend
<1>3. ToldOf(t) # {} => Max(ToldOf(t)) \in 1..Len(t)
  <2> DEFINE T == ToldOf(t)
  <2>1. T \in SUBSET Int /\ T \subseteq 1..Len(t) /\ \A i \in T : i <= Len(t)
    BY <1>1 DEF ToldOf, List
  <2>2. Len(t) \in Int
    BY <1>1 DEF List
  <2> HIDE DEF T
  <2>3. T # {} => Max(T) \in T
    BY <2>1, <2>2, MaxIs
  <2> QED
    BY <2>1, <2>3 DEF T
<1>4. ToldOf(t) # {} => u[Max(ToldOf(t))] = t[Max(ToldOf(t))]
  BY <1>2, <1>7, <1>3
<1> HIDE DEF u
<1>5. CASE p.clarify
  <2>1. saved = ctx
    BY <1>5 DEF SavedContext
  <2> QED
    BY <1>1, <1>2, <1>7, <1>4, <1>5, <2>1 DEF ContextTells, u
<1>6. CASE ~p.clarify
  <2>1. /\ saved \in Contexts /\ saved # NoContext
        /\ saved.security = IF p.security # NoSecurity THEN p.security
                            ELSE IF ctx = NoContext THEN NoSecurity ELSE ctx.security
    BY <1>1, <1>6, SavedIn, ContextAssumption
  <2> HIDE DEF saved
  <2>2. CASE p.security # NoSecurity
    <3>1. saved.security = p.security /\ u[Max(ToldOf(u))].plan = p
      BY <1>2, <1>7, <1>6, <2>1, <2>2
    <3>2. ToldOf(u) # {}
      BY <1>2, <1>7, <1>6, <2>2
    <3> QED
      BY <1>2, <1>7, <2>1, <3>1, <3>2 DEF ContextTells, u, saved
  <2>3. CASE p.security = NoSecurity
    <3>1. ToldOf(u) = ToldOf(t)
      BY <1>2, <1>7, <2>3
    <3>2. saved.security = IF ctx = NoContext THEN NoSecurity ELSE ctx.security
      BY <2>1, <2>3
    <3>3. ToldOf(u) # {} => saved.security = u[Max(ToldOf(u))].plan.security
      BY <1>1, <1>4, <3>1, <3>2
    <3>4. ToldOf(u) = {} => saved.security = NoSecurity
      BY <1>1, <3>1, <3>2
    <3> QED
      BY <1>2, <1>7, <2>1, <3>3, <3>4 DEF ContextTells, u, saved
  <2> QED
    BY <2>2, <2>3
<1> QED
  BY <1>5, <1>6

-----------------------------------------------------------------------------
(* The response *)

\* Whether a comparison is integrated into what is told.
LEMMA ToldFacts ==
  ASSUME NEW c, NEW attached, NEW a, a = Told(c, attached)
  PROVE  /\ a.failed = FALSE /\ a.plan = plan /\ a.docs = pipeline.docs
         /\ a.decision = pipeline.decision /\ a.selected = selected /\ a.status = Status(c)
         /\ a.evidence = c.evidence /\ a.composed = c.claims
         /\ a.process.drops = pipeline.budget.drops
         /\ a.integrated <=> attached.comparison # NoComparison /\ Explicit
BY DEF Told, Summary

\* It is if it took the place of what was selected.
LEMMA AttachedFacts ==
  ASSUME comparison # NoComparison => Comparable(plan), NEW claims
  PROVE  Attached(claims).comparison # NoComparison /\ Explicit <=> Compared
BY DEF Attached, Compared

\* What comes too late is replaced by what rests on evidence as well.
LEMMA SafeFacts ==
  ASSUME Chosen(pipeline, plan, Compared), Composition(draft, selected, plan), NEW late
  PROVE  Composition(Safe(draft, late), selected, plan)
<1>1. List(plan.sources) /\ List(selected)
  BY PlanKinds DEF Chosen, SourceList, selected
<1>2. Composition(FixedResult(Silent, plan, selected, "timeout", "no_evidence"), selected, plan)
  BY <1>1, FixedComposition
<1> QED
  BY <1>2 DEF Safe

\* A plan is about the security that is meant.
LEMMA SubjectMeant ==
  ASSUME NEW q, NEW ctx, NEW t, ContextTells(ctx, t), NEW p, p = Plan(q, ctx), ~p.clarify,
         p.security # NoSecurity
  PROVE  p.security = IF Extraction(q) = "one" THEN NamedSecurity(q)
                      ELSE IF ToldOf(t) = {} THEN NoSecurity ELSE t[Max(ToldOf(t))].plan.security
<1>1. IF Extraction(q) = "one" THEN p.security = NamedSecurity(q)
      ELSE ctx # NoContext /\ p.security = ctx.security
  BY SubjectFacts
<1>2. /\ ToldOf(t) # {} => ctx.security = t[Max(ToldOf(t))].plan.security
      /\ ToldOf(t) = {} /\ ctx # NoContext => ctx.security = NoSecurity
  BY DEF ContextTells
<1> QED
  BY <1>1, <1>2

\* What EvidenceIsApt says of a piece.
AptFor(e, q, meant, p, docs, integrated) ==
  \/ e.source = "glossary" /\ p.intent = "financial_term"
  \/ /\ InScope(e, meant) /\ e.source \in SetOf(p.sources) /\ e.at <= BasisAt
     /\ integrated \/ InRange(e.at, ParsePeriod(q).range)
     /\ e.source = "disclosure" => Stands(e, docs, p.range)

\* A piece that is chosen and on target is apt.
LEMMA ChosenApt ==
  ASSUME NEW q, NEW ctx, NEW p, p = Plan(q, ctx), NEW r, NEW replaced, Chosen(r, p, replaced),
         NEW e, e \in SetOf(r.budget.evidence), OnTarget(e, p), e.source \in SetOf(p.sources),
         NEW meant, ~p.clarify /\ p.security # NoSecurity => meant = p.security
  PROVE  AptFor(e, q, meant, p, r.docs, replaced)
<1>1. PlanAccepted(p) /\ IF replaced THEN NewsPiece(e) ELSE Apt(e, r, p)
  BY DEF Chosen
<1>2. ~p.clarify
  <2> SUFFICES ASSUME p.clarify PROVE FALSE
    OBVIOUS
  <2>1. p.sources = << >>
    BY <1>1 DEF PlanAccepted
  <2> QED
    BY <2>1, EmptyIs
<1>3. CASE p.intent = "financial_term"
  BY <1>3 DEF OnTarget, AptFor
<1>4. CASE p.intent # "financial_term"
  <2>1. p.security # NoSecurity /\ InScope(e, p.security)
    BY <1>4 DEF OnTarget
  <2>2. meant = p.security
    BY <1>2, <2>1
  <2>3. CASE replaced
    BY <1>1, <2>1, <2>2, <2>3 DEF AptFor, NewsPiece
  <2>4. CASE ~replaced
    <3>1. /\ InRange(e.at, p.range)
          /\ e.source = "disclosure" => Stands(e, r.docs, p.range)
      BY <1>1, <1>4, <2>4 DEF Apt
    <3>2. InRange(e.at, ParsePeriod(q).range)
      BY <1>2, <3>1, RangeFacts
    <3>3. e.at <= BasisAt
      BY <3>1 DEF InRange
    <3> QED
      BY <2>1, <2>2, <3>1, <3>2, <3>3 DEF AptFor
  <2> QED
    BY <2>3, <2>4
<1> QED
  BY <1>3, <1>4

\* A disclosure that is chosen and in doubt is told of.
LEMMA ChosenTold ==
  ASSUME NEW p, NEW r, NEW replaced, Chosen(r, p, replaced),
         NEW e, e \in SetOf(r.budget.evidence), OnTarget(e, p),
         p.intent # "price_move", e.source = "disclosure", InDoubt(e, r.docs)
  PROVE  TellsDoubt(e, r.decision)
<1>1. IF replaced THEN NewsPiece(e) ELSE Apt(e, r, p)
  BY DEF Chosen
<1>2. p.intent # "financial_term"
  BY DEF OnTarget
<1> QED
  BY <1>1, <1>2 DEF NewsPiece, Apt

\* Remembered, after talk u.
RememberedBy(u) ==
  LET told == {i \in 1..(Len(u) - 1) : ~u[i].plan.clarify /\ u[i].plan.security # NoSecurity} IN
  IF told = {} THEN NoSecurity ELSE u[Max(told)].plan.security

\* The turns before the last decide it.
LEMMA RememberedFacts ==
  ASSUME NEW t, List(t), NEW x, NEW u, u = Append(t, x)
  PROVE  RememberedBy(u) = IF ToldOf(t) = {} THEN NoSecurity ELSE t[Max(ToldOf(t))].plan.security
<1> DEFINE n == Len(t)
           told == {i \in 1..n : ~u[i].plan.clarify /\ u[i].plan.security # NoSecurity}
<1>1. Len(u) = n + 1
  BY AppendFacts
<1>2. ASSUME NEW i \in 1..n PROVE u[i] = t[i]
  BY AppendFacts
<1>3. n \in Nat
  BY DEF List
<1>4. told = ToldOf(t)
  BY <1>2 DEF ToldOf
<1>5. RememberedBy(u) = IF told = {} THEN NoSecurity ELSE u[Max(told)].plan.security
  <2>1. 1..(Len(u) - 1) = 1..n
    BY <1>1, <1>3
  <2> QED
    BY <2>1 DEF RememberedBy
<1>6. told # {} => Max(told) \in 1..n
  <2>1. told \in SUBSET Int /\ \A i \in told : i <= n
    BY <1>3
  <2>2. told \subseteq 1..n
    OBVIOUS
  <2> HIDE DEF told
  <2>3. told # {} => Max(told) \in told
    BY <1>3, <2>1, MaxIs, n \in Int
  <2> QED
    BY <2>2, <2>3
<1> HIDE DEF told, n
<1>7. told # {} => u[Max(told)] = t[Max(told)]
  BY <1>2, <1>6
<1> QED
  BY <1>4, <1>5, <1>7

\* Responding delivers what is promised.
LEMMA RespondShown ==
  ASSUME RInv, Respond
  PROVE  Shown'
<1>1. /\ ContextTells(context, talk) /\ question \in Questions
      /\ observed = Observed(Reads[question], context)
      /\ comparison # NoComparison => Comparable(plan)
      /\ Chosen(pipeline, plan, Compared)
      /\ Composition(draft, selected, plan)
  BY DEF RInv, Respond
<1>2. PICK late, u :
        /\ answer' = Told(Safe(draft, late), Attached(Safe(draft, late).claims))
        /\ talk' = Append(talk, [asked |-> question, plan |-> plan, unsafe |-> u])
  BY DEF Respond, End
<1>3. talk' = Append(talk, [asked |-> question, plan |-> plan, unsafe |-> u])
  BY <1>2
<1> DEFINE c == Safe(draft, late)
           q == Reads[question]
           replaced == Compared
           p == plan
           r == pipeline
           a == Told(c, Attached(c.claims))
<1>4. Composition(c, selected, p)
  BY <1>1, SafeFacts
<1>5. p = Plan(q, context)
  BY <1>1 DEF Observed, Observing, Public, plan
<1>6. a.integrated <=> replaced
  BY <1>1, AttachedFacts, ToldFacts
<1>7. /\ a.failed = FALSE /\ a.plan = p /\ a.docs = r.docs /\ a.decision = r.decision
      /\ a.selected = r.budget.evidence /\ a.status = Status(c) /\ a.evidence = c.evidence
      /\ a.composed = c.claims /\ a.process.drops = r.budget.drops
  <2> DEFINE attached == Attached(c.claims)
  <2>1. a = Told(c, attached)
    OBVIOUS
  <2> HIDE DEF a, c, attached
  <2>2. a.failed = FALSE /\ a.plan = plan /\ a.docs = pipeline.docs /\ a.decision = pipeline.decision
    BY <2>1 DEF Told
  <2>3. a.selected = selected /\ a.status = Status(c) /\ a.evidence = c.evidence
    BY <2>1 DEF Told
  <2>4. a.composed = c.claims /\ a.process.drops = pipeline.budget.drops
    BY <2>1 DEF Told, Summary
  <2> QED
    BY <2>2, <2>3, <2>4 DEF selected
<1>8. Status(c) = IF r.decision.status = "complete" /\ c.evidence = << >> THEN "no_evidence"
                  ELSE r.decision.status
  BY DEF Status
<1>9. /\ \A e \in SetOf(c.evidence) : /\ e \in SetOf(r.budget.evidence)
                                     /\ OnTarget(e, p) /\ e.source \in SetOf(p.sources)
      /\ Rests(c.claims, c.evidence)
  BY <1>4 DEF Composition, selected
<1>10. Chosen(r, p, replaced) /\ ContextTells(context, talk)
  BY <1>1
<1>11. answer' = a
  BY <1>2
<1>12. Turn' = q
  <2> DEFINE x == [asked |-> question, plan |-> plan, unsafe |-> u]
  <2>1. List(talk) /\ talk' = Append(talk, x)
    BY <1>1, <1>3 DEF ContextTells
  <2>2. x.asked = question
    OBVIOUS
  <2> HIDE DEF x
  <2>3. Last(Append(talk, x)) = x
    BY <2>1, LastAppended
  <2>4. Turn' = Reads[Last(Append(talk, x)).asked]
    BY <2>1 DEF Turn
  <2> QED
    BY <2>2, <2>3, <2>4
<1>13. Remembered' = IF ToldOf(talk) = {} THEN NoSecurity ELSE talk[Max(ToldOf(talk))].plan.security
  <2>1. Remembered' = RememberedBy(talk')
    BY DEF Remembered, RememberedBy
  <2>2. List(talk)
    BY <1>1 DEF ContextTells
  <2> QED
    BY <1>3, <2>1, <2>2, RememberedFacts
<1>14. Meant' = IF Extraction(q) = "one" THEN NamedSecurity(q) ELSE Remembered'
  BY <1>12 DEF Meant
<1>15. ~p.clarify /\ p.security # NoSecurity => Meant' = p.security
  BY <1>5, <1>10, <1>13, <1>14, SubjectMeant
<1> HIDE DEF c, q, replaced, p, r, a
<1>16. EvidenceIsApt'
  <2>1. ASSUME NEW e \in SetOf(c.evidence)
        PROVE  AptFor(e, q, Meant', p, r.docs, a.integrated)
    <3>1. e \in SetOf(r.budget.evidence) /\ OnTarget(e, p) /\ e.source \in SetOf(p.sources)
      BY <1>9, <2>1
    <3>2. AptFor(e, q, Meant', p, r.docs, replaced)
      BY <1>5, <1>10, <1>15, <3>1, ChosenApt
    <3> QED
      BY <1>6, <3>2 DEF AptFor
  <2> QED
    BY <1>7, <1>11, <1>12, <2>1 DEF EvidenceIsApt, AptFor
<1>17. CompleteIsCovered'
  <2>1. ASSUME a.status = "complete"
        PROVE  /\ a.evidence # << >> /\ a.decision.missing = << >>
               /\ a.integrated \/ Tells(r.budget, SetOf(Coverage(p)))
    <3>1. r.decision.status = "complete" /\ c.evidence # << >>
      BY <1>7, <1>8, <2>1
    <3> QED
      BY <1>6, <1>7, <1>10, <3>1 DEF Chosen
  <2> QED
    BY <1>7, <1>11, <2>1 DEF CompleteIsCovered, Tells
<1>18. DoubtIsTold'
  <2>1. ASSUME NEW e \in SetOf(c.evidence), p.intent # "price_move", e.source = "disclosure",
               InDoubt(e, r.docs)
        PROVE  a.status = "partial" /\ "unresolved_disclosure_correction" \in a.decision.warnings
    <3>1. e \in SetOf(r.budget.evidence) /\ OnTarget(e, p)
      BY <1>9, <2>1
    <3>2. TellsDoubt(e, r.decision)
      BY <1>10, <2>1, <3>1, ChosenTold
    <3> QED
      BY <1>7, <1>8, <3>2 DEF TellsDoubt
  <2> QED
    BY <1>7, <1>11, <2>1 DEF DoubtIsTold
<1>19. ClaimsRest'
  BY <1>7, <1>9, <1>11 DEF ClaimsRest
<1> QED
  BY <1>16, <1>17, <1>18, <1>19 DEF Shown

-----------------------------------------------------------------------------
(* Every step keeps the invariant *)

\* Nothing is promised while nothing is delivered.
LEMMA Undelivered ==
  ASSUME answer' = Nothing \/ answer'.failed = TRUE
  PROVE  Shown'
BY DEF Shown, EvidenceIsApt, CompleteIsCovered, DoubtIsTold, ClaimsRest, Delivered

\* What is promised stays true while nothing is said.
LEMMA ShownKept ==
  ASSUME Shown, answer' = answer, talk' = talk
  PROVE  Shown'
<1>1. Remembered' = Remembered
  BY DEF Remembered
<1>2. Turn' = Turn
  BY DEF Turn
<1>3. Meant' = Meant
  BY <1>1, <1>2 DEF Meant
<1>4. EvidenceIsApt'
  BY <1>2, <1>3 DEF Shown, EvidenceIsApt, Delivered
<1>5. CompleteIsCovered'
  BY DEF Shown, CompleteIsCovered, Delivered
<1>6. DoubtIsTold'
  BY DEF Shown, DoubtIsTold, Delivered
<1>7. ClaimsRest'
  BY DEF Shown, ClaimsRest, Delivered
<1> QED
  BY <1>4, <1>5, <1>6, <1>7 DEF Shown

\* A request may fail at any stage.
LEMMA FailKeeps ==
  ASSUME RInv, Fail
  PROVE  RInv'
<1>1. Shown'
  <2>1. answer'.failed = TRUE
    BY DEF Fail, End
  <2> QED
    BY <2>1, Undelivered
<1>2. stage' = "idle" /\ corpus' = corpus /\ context' = context /\ talk' = talk
  BY DEF Fail, End
<1>3. ContextTells(context', talk')
  BY <1>2 DEF RInv
<1> QED
  BY <1>1, <1>2, <1>3 DEF RInv

\* The invariant holds at first.
LEMMA InitHolds == Init => RInv
<1> SUFFICES ASSUME Init PROVE RInv
  OBVIOUS
<1>1. Shown
  BY DEF Init, Shown, EvidenceIsApt, CompleteIsCovered, DoubtIsTold, ClaimsRest, Delivered
<1>2. ContextTells(context, talk)
  <2>1. List(talk) /\ Len(talk) = 0
    BY EmptyIs DEF Init
  <2>2. ToldOf(talk) = {}
    BY <2>1 DEF ToldOf
  <2> QED
    BY <2>1, <2>2 DEF Init, ContextTells
<1> QED
  BY <1>1, <1>2 DEF Init, RInv

\* Asking.
LEMMA AskKeeps ==
  ASSUME RInv, NEW q \in Questions, Ask(q)
  PROVE  RInv'
<1>1. Shown'
  BY Undelivered DEF Ask
<1>2. /\ stage' = "planned" /\ corpus' = corpus /\ context' = context /\ talk' = talk
      /\ question' = q /\ observed' = Observed(Reads[q], context)
  BY DEF Ask
<1>3. ContextTells(context', talk')
  BY <1>2 DEF RInv
<1> QED
  BY <1>1, <1>2, <1>3 DEF RInv

\* What was fetched, from whichever gateway, too slow or not.
LEMMA FetchedFacts ==
  ASSUME corpus \in Corpora, NEW slow, NEW result, result = Fetched(slow), result # Invalid
  PROVE  IF Defined THEN Sections(result.evidence) ELSE Obtained(result.documents, plan)
<1>1. CASE Defined
  BY <1>1, LookUpFacts DEF Fetched
<1>2. CASE ~Defined /\ (plan.clarify \/ plan.sources = << >> \/ slow)
  <2>1. result.documents = << >>
    BY <1>2 DEF Fetched, TimeoutResult
  <2> QED
    BY <1>2, <2>1, EmptyIs DEF Obtained
<1>3. CASE ~Defined /\ ~(plan.clarify \/ plan.sources = << >> \/ slow)
  <2>1. result = FetchDocuments(corpus.documents, plan)
    BY <1>3 DEF Fetched
  <2>2. RecordedList(corpus.documents)
    BY RecordedLists
  <2> QED
    BY <1>3, <2>1, <2>2, FetchFacts
<1> QED
  BY <1>1, <1>2, <1>3

\* Gathering.
LEMMA GatherKeeps ==
  ASSUME RInv, Gather
  PROVE  RInv'
<1>1. PICK slow \in BOOLEAN : Receive(Fetched(slow))
  BY DEF Gather
<1>2. CASE Fail
  BY <1>2, FailKeeps
<1>3. CASE ~Fail
  <2> DEFINE result == Fetched(slow)
  <2>1. result # Invalid /\ gathered' = result /\ stage' = "fetched"
    BY <1>1, <1>3 DEF Receive
  <2>2. UNCHANGED <<corpus, context, question, observed, answer, talk>>
    BY <1>1, <1>3 DEF Receive
  <2>3. stage = "planned" /\ corpus \in Corpora
    BY DEF Gather, RInv
  <2>4. IF Defined THEN Sections(result.evidence) ELSE Obtained(result.documents, plan)
    BY <2>1, <2>3, FetchedFacts
  <2> HIDE DEF result
  <2>5. plan' = plan /\ (Defined' <=> Defined)
    BY <2>2 DEF plan, Defined
  <2>6. Shown'
    BY <2>2, ShownKept DEF RInv
  <2>7. ContextTells(context', talk')
    BY <2>2 DEF RInv
  <2>8. question' \in Questions /\ observed' = Observed(Reads[question'], context')
    BY <2>2, <2>3 DEF RInv
  <2>9. IF Defined' THEN Sections(gathered'.evidence) ELSE Obtained(gathered'.documents, plan')
    BY <2>1, <2>4, <2>5
  <2> QED
    BY <2>1, <2>2, <2>3, <2>6, <2>7, <2>8, <2>9 DEF RInv
<1> QED
  BY <1>2, <1>3

\* What a pipeline promises is what is chosen,
LEMMA WeighedIsChosen ==
  ASSUME NEW r, NEW p, Weighed(r, p)
  PROVE  Chosen(r, p, FALSE)
BY DEF Weighed, Chosen

\* and it is when a comparison takes its place.
LEMMA ComparedIsChosen ==
  ASSUME NEW r, NEW p, Weighed(r, p), NEW c, SoundComparison(c), NEW security,
         NEW b, b = SelectContext(ComparisonEvidence(c, security), << >>), b # Invalid,
         NEW u, u = [r EXCEPT !.budget = b]
  PROVE  Chosen(u, p, TRUE)
<1>1. u.budget = b /\ u.decision = r.decision
  BY DEF Weighed
<1>2. Part(b.evidence, ComparisonEvidence(c, security))
  BY ComparisonPieces, SelectFacts, EmptyIs
<1>3. \A e \in SetOf(b.evidence) : NewsPiece(e)
  BY <1>2, ComparisonPieces DEF Part
<1> QED
  BY <1>1, <1>2, <1>3 DEF Weighed, Chosen, Part

\* Whichever pipeline is run.
LEMMA PipelineWeighed ==
  ASSUME IF Defined THEN Sections(gathered.evidence) ELSE Obtained(gathered.documents, plan),
         NEW r, r = IF Defined THEN GlossaryPipeline ELSE EvidencePipeline, r # Invalid
  PROVE  Weighed(r, plan)
<1>1. CASE Defined
  BY <1>1, GlossaryWeighed DEF Sections
<1>2. CASE ~Defined /\ plan.clarify
  BY <1>2, ClarificationWeighed
<1>3. CASE ~Defined /\ ~plan.clarify
  BY <1>3, DocumentsWeighed
<1> QED
  BY <1>1, <1>2, <1>3

\* _augment_pipeline_with_comparison.
LEMMA AugmentChosen ==
  ASSUME NEW r, r # Invalid => Weighed(r, plan),
         NEW found, found # NoComparison => SoundComparison(found), NEW security,
         NEW b, b = SelectContext(ComparisonEvidence(found, security), << >>),
         NEW u, u = Augment(r, found, b), u # Invalid
  PROVE  Chosen(u, plan, Explicit /\ found # NoComparison)
<1>1. r # Invalid
  BY DEF Augment
<1>2. CASE ~Explicit \/ found = NoComparison
  <2>1. u = r
    BY <1>1, <1>2 DEF Augment
  <2>2. (Explicit /\ found # NoComparison) = FALSE
    BY <1>2
  <2> QED
    BY <1>1, <2>1, <2>2, WeighedIsChosen
<1>3. CASE Explicit /\ found # NoComparison
  <2>1. b # Invalid /\ u = [r EXCEPT !.budget = b]
    BY <1>1, <1>3 DEF Augment
  <2>2. (Explicit /\ found # NoComparison) = TRUE
    BY <1>3
  <2>3. Chosen(u, plan, TRUE)
    BY <1>1, <1>3, <2>1, ComparedIsChosen
  <2> QED
    BY <2>2, <2>3
<1> QED
  BY <1>2, <1>3

\* Judging.
LEMMA JudgeKeeps ==
  ASSUME RInv, Judge
  PROVE  RInv'
<1> DEFINE found == SelectComparison(Reads[question].words,
                                     "event_marker" \in Reads[question].cues, plan)
           r == IF Defined THEN GlossaryPipeline ELSE EvidencePipeline
           b == SelectContext(ComparisonEvidence(found, plan.security), << >>)
           u == Augment(r, found, b)
<1>1. Judged(found, u)
  BY DEF Judge, Weigh
<1>2. CASE Fail
  BY <1>2, FailKeeps
<1>3. CASE ~Fail
  <2>1. u # Invalid /\ comparison' = found /\ pipeline' = u /\ stage' = "judged"
    BY <1>1, <1>3 DEF Judged
  <2>2. UNCHANGED <<corpus, context, question, observed, answer, talk>>
    BY <1>1, <1>3 DEF Judged
  <2>3. stage = "fetched" /\ corpus \in Corpora
    BY DEF Judge, RInv
  <2>4. found # NoComparison => Comparable(plan) /\ SoundComparison(found)
    BY SelectedIsSound DEF SelectComparison
  <2>5. r # Invalid => Weighed(r, plan)
    BY <2>3, PipelineWeighed DEF RInv
  <2> HIDE DEF found, r
  <2>6. Chosen(u, plan, Explicit /\ found # NoComparison)
    BY <2>1, <2>4, <2>5, AugmentChosen
  <2> HIDE DEF b, u
  <2>7. plan' = plan /\ Explicit' = Explicit
    BY <2>2 DEF plan, Explicit
  <2>8. Compared' = (Explicit /\ found # NoComparison)
    BY <2>1, <2>7 DEF Compared
  <2>9. Shown'
    BY <2>2, ShownKept DEF RInv
  <2>10. ContextTells(context', talk')
    BY <2>2 DEF RInv
  <2>11. question' \in Questions /\ observed' = Observed(Reads[question'], context')
    BY <2>2, <2>3 DEF RInv
  <2>12. /\ comparison' # NoComparison => Comparable(plan')
         /\ Chosen(pipeline', plan', Compared')
    BY <2>1, <2>4, <2>6, <2>7, <2>8
  <2> QED
    BY <2>1, <2>2, <2>3, <2>9, <2>10, <2>11, <2>12 DEF RInv
<1> QED
  BY <1>2, <1>3

\* Composing, in whichever way.
LEMMA ComposedKeeps ==
  ASSUME RInv, stage = "judged", NEW c, Composed(c), Composition(c, selected, plan)
  PROVE  RInv'
<1>1. draft' = c /\ stage' = "composed"
  BY DEF Composed
<1>2. UNCHANGED <<corpus, context, question, observed, pipeline, comparison, answer, talk>>
  BY DEF Composed
<1>3. plan' = plan /\ selected' = selected /\ Compared' = Compared
  BY <1>2 DEF plan, selected, Compared, Explicit
<1>4. Shown'
  BY <1>2, ShownKept DEF RInv
<1>5. ContextTells(context', talk')
  BY <1>2 DEF RInv
<1>6. question' \in Questions /\ observed' = Observed(Reads[question'], context')
  BY <1>2 DEF RInv
<1>7. /\ comparison' # NoComparison => Comparable(plan')
      /\ Chosen(pipeline', plan', Compared')
  BY <1>2, <1>3 DEF RInv
<1>8. Composition(draft', selected', plan')
  BY <1>1, <1>3
<1>9. corpus' \in Corpora
  BY <1>2 DEF RInv
<1> QED
  BY <1>1, <1>4, <1>5, <1>6, <1>7, <1>8, <1>9 DEF RInv

\* What composing starts from.
LEMMA ChosenLists ==
  ASSUME RInv, stage = "judged"
  PROVE  List(plan.sources) /\ List(selected)
BY PlanKinds DEF RInv, Chosen, SourceList, selected

\* Composing without a model.
LEMMA ComposeFixedKeeps ==
  ASSUME RInv, ComposeFixed
  PROVE  RInv'
<1> DEFINE c == FixedResult(Reads[question], plan, selected, "none", Reason)
<1>1. stage = "judged" /\ Composed(c)
  BY DEF ComposeFixed
<1>2. Composition(c, selected, plan)
  BY <1>1, ChosenLists, FixedComposition
<1> HIDE DEF c
<1> QED
  BY <1>1, <1>2, ComposedKeeps

\* Composing with a model.
LEMMA ComposeWithKeeps ==
  ASSUME RInv, NEW d \in Drafts, ComposeWith(d)
  PROVE  RInv'
<1> DEFINE c == Compose(Reads[question], plan, selected, pipeline.docs, d)
<1>1. stage = "judged" /\ (Fail \/ Composed(c))
  BY DEF ComposeWith
<1>2. List(d)
  BY RecordingAssumption, SeqList
<1>3. Composition(c, selected, plan)
  BY <1>1, <1>2, ChosenLists, ComposeComposition
<1> HIDE DEF c
<1>4. CASE Fail
  BY <1>4, FailKeeps
<1>5. CASE Composed(c)
  BY <1>1, <1>3, <1>5, ComposedKeeps
<1> QED
  BY <1>1, <1>4, <1>5

\* Responding.
LEMMA RespondKeeps ==
  ASSUME RInv, Respond
  PROVE  RInv'
<1>1. Shown'
  BY RespondShown
<1>2. corpus' = corpus /\ stage' = "idle"
  BY DEF Respond, End
<1>3. ContextTells(context', talk')
  <2>0. PICK u : talk' = Append(talk, [asked |-> question, plan |-> plan, unsafe |-> u])
    BY DEF Respond
  <2> DEFINE x == [asked |-> question, plan |-> plan, unsafe |-> u]
  <2>1. context' = SavedContext(context, plan) /\ talk' = Append(talk, x)
    BY <2>0 DEF Respond
  <2>2. /\ question \in Questions /\ ContextTells(context, talk) /\ PlanAccepted(plan)
        /\ plan = Plan(Reads[question], context)
    BY DEF RInv, Respond, Chosen, Observed, Observing, Public, plan
  <2>3. x.plan = plan
    OBVIOUS
  <2> HIDE DEF x
  <2> QED
    BY <2>1, <2>2, <2>3, ContextKept
<1> QED
  BY <1>1, <1>2, <1>3 DEF RInv

\* Nothing happens.
LEMMA StutterKeeps ==
  ASSUME RInv, UNCHANGED vars
  PROVE  RInv'
<1>1. UNCHANGED <<corpus, context, stage, question, observed, gathered, pipeline, comparison, draft,
                  answer, talk>>
  BY DEF vars
<1>2. plan' = plan /\ selected' = selected /\ Compared' = Compared /\ (Defined' <=> Defined)
  BY <1>1 DEF plan, selected, Compared, Explicit, Defined
<1>3. Shown'
  BY <1>1, ShownKept DEF RInv
<1> QED
  BY <1>1, <1>2, <1>3 DEF RInv

-----------------------------------------------------------------------------
(* The theorems *)

\* The inductive invariant holds, for any securities, questions, recordings, drafts and limits.
THEOREM RecordedServiceInvariant == Spec => []RInv
<1>1. Init => RInv
  BY InitHolds
<1>2. RInv /\ [Next]_vars => RInv'
  <2> SUFFICES ASSUME RInv, [Next]_vars PROVE RInv'
    OBVIOUS
  <2>1. ASSUME NEW q \in Questions, Ask(q) PROVE RInv'
    BY <2>1, AskKeeps
  <2>2. CASE Gather
    BY <2>2, GatherKeeps
  <2>3. CASE Judge
    BY <2>3, JudgeKeeps
  <2>4. CASE ComposeFixed
    BY <2>4, ComposeFixedKeeps
  <2>5. ASSUME NEW d \in Drafts, ComposeWith(d) PROVE RInv'
    BY <2>5, ComposeWithKeeps
  <2>6. CASE Respond
    BY <2>6, RespondKeeps
  <2>7. CASE UNCHANGED vars
    BY <2>7, StutterKeeps
  <2> QED
    BY <2>1, <2>2, <2>3, <2>4, <2>5, <2>6, <2>7 DEF Next
<1> QED
  BY <1>1, <1>2, PTL DEF Spec

\* Whatever is shown as evidence is about the security that is meant, of a kind the plan
\* asks for, known at the basis, in the range the question states, and no disclosure that
\* was withdrawn or that a correction at hand replaces.
THEOREM EvidenceApt == Spec => []EvidenceIsApt
<1>1. RInv => EvidenceIsApt
  BY DEF RInv, Shown
<1> QED
  BY <1>1, RecordedServiceInvariant, PTL

\* A complete answer has every source that must be covered among what was selected, unless
\* size alone has left less than one piece of each.
THEOREM CompleteCovered == Spec => []CompleteIsCovered
<1>1. RInv => CompleteIsCovered
  BY DEF RInv, Shown
<1> QED
  BY <1>1, RecordedServiceInvariant, PTL

\* A disclosure whose correction is not at hand is never shown as if it were settled.
THEOREM DoubtTold == Spec => []DoubtIsTold
<1>1. RInv => DoubtIsTold
  BY DEF RInv, Shown
<1> QED
  BY <1>1, RecordedServiceInvariant, PTL

\* What the composer says rests on what is shown, whatever the model says.
THEOREM ClaimsAlwaysRest == Spec => []ClaimsRest
<1>1. RInv => ClaimsRest
  BY DEF RInv, Shown
<1> QED
  BY <1>1, RecordedServiceInvariant, PTL
=============================================================================
