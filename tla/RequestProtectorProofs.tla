----------------------- MODULE RequestProtectorProofs -----------------------
(***************************************************************************)
(* Proofs about RequestProtector: no slot is lost or doubled and no        *)
(* wake-up is lost while slots are handed over, the counts of attempts in  *)
(* progress are exact, and the map of buckets keeps its bound.  Then the   *)
(* limits: whatever buckets expire, are evicted or start a new day, the    *)
(* attempts admitted stay within the limits of a client and of all clients *)
(* together.                                                               *)
(***************************************************************************)
EXTENDS RequestProtector, FiniteSetTheorems, SequenceTheorems, TLAPS

-----------------------------------------------------------------------------
(* The inductive invariant *)

\* The requests that have a slot, and those of client c whose body runs.
Holding(ph) == {r \in Requests : ph[r] \in {"granted", "taken", "body"}}
Running(ph)  == {r \in Requests : ph[r] = "body"}
RunningOf(ph, cl, c) == {r \in Requests : ph[r] = "body" /\ cl[r] = c}

\* The queue holds exactly the requests that wait or have not run since they
\* were granted a slot, each once.
QueueOK(w, ph) ==
  /\ \A i \in 1..Len(w) : ph[w[i]] \in {"queued", "granted"}
  /\ \A i, j \in 1..Len(w) : w[i] = w[j] => i = j
  /\ \A r \in Requests :
       ph[r] \in {"queued", "granted"} => \E i \in 1..Len(w) : w[i] = r

\* While a slot is free and a request waits, some request has been granted a
\* slot and has yet to run: when it does, it wakes the next.
HandOver(f, w, ph) ==
  f > 0 /\ Unserved(w, ph) # {} => \E r \in Requests : ph[r] = "granted"

\* A bucket counts the n requests of its client in their bodies.
BucketOK(b, n) == IF b = NoBucket THEN n = 0 ELSE b.active = n

\* The requests that are asking or answered have a client.
ClientsKnown == \A r \in Requests : client[r] = NoClient <=> phase[r] = "idle"

SemaphoreOK ==
  /\ ClientsKnown
  /\ QueueOK(queue, phase)
  /\ HandOver(free, queue, phase)
  /\ free + Cardinality(Holding(phase)) = Slots

CountersOK ==
  /\ active = Cardinality(Running(phase))
  /\ \A c \in Clients : BucketOK(bucket[c], Cardinality(RunningOf(phase, client, c)))
  /\ BucketsBounded

IInv == TypeOK /\ SemaphoreOK /\ CountersOK

-----------------------------------------------------------------------------
(* Counting *)

LEMMA OneMore ==
  ASSUME NEW S \in SUBSET Requests, NEW x \in Requests \ S
  PROVE  /\ Cardinality(S) \in Nat
         /\ Cardinality(S \cup {x}) = Cardinality(S) + 1
BY FS_Subset, FS_AddElement, FS_CardinalityType, SetsAssumption

LEMMA OneFewer ==
  ASSUME NEW S \in SUBSET Requests, NEW x \in S
  PROVE  /\ Cardinality(S) \in Nat \ {0}
         /\ Cardinality(S \ {x}) = Cardinality(S) - 1
<1>1. IsFiniteSet(S) /\ Cardinality(S) \in Nat
  BY FS_Subset, FS_CardinalityType, SetsAssumption
<1>2. Cardinality(S) # 0
  BY <1>1, FS_EmptySet
<1> QED
  BY <1>1, <1>2, FS_RemoveElement

\* The sets the invariant counts are finite, and a day is a natural number.
LEMMA CountsAreNat ==
  ASSUME NEW ph, NEW cl, NEW c
  PROVE  /\ Cardinality(Holding(ph)) \in Nat
         /\ Cardinality(Running(ph)) \in Nat
         /\ Cardinality(RunningOf(ph, cl, c)) \in Nat
BY FS_Subset, FS_CardinalityType, SetsAssumption DEF Holding, Running, RunningOf

LEMMA DayIsNat == \A t \in Nat : DayOf(t) \in Nat
BY LimitsAssumption DEF DayOf

-----------------------------------------------------------------------------
(* The semaphore *)

\* deque.remove takes r out of the queue and nothing else.
LEMMA WithoutKeeps ==
  ASSUME NEW w \in Seq(Requests), NEW k \in 1..Len(w),
         \A i, j \in 1..Len(w) : w[i] = w[j] => i = j
  PROVE  /\ Without(w, w[k]) \in Seq(Requests)
         /\ Len(Without(w, w[k])) = Len(w) - 1
         /\ \A j \in 1..(k - 1) : Without(w, w[k])[j] = w[j]
         /\ \A j \in k..(Len(w) - 1) : Without(w, w[k])[j] = w[j + 1]
<1> DEFINE v == Without(w, w[k])
           i == CHOOSE j \in 1..Len(w) : w[j] = w[k]
           a == SubSeq(w, 1, k - 1)
           b == SubSeq(w, k + 1, Len(w))
<1>1. i = k
  OBVIOUS
<1>2. v = a \o b
  BY <1>1 DEF Without
<1>3. Len(w) \in Nat /\ k \in Nat /\ k >= 1 /\ k <= Len(w)
  OBVIOUS
<1>4. a \in Seq(Requests) /\ Len(a) = k - 1 /\ \A j \in 1..(k - 1) : a[j] = w[j]
  BY <1>3
<1>5. b \in Seq(Requests) /\ Len(b) = Len(w) - k
      /\ \A j \in 1..(Len(w) - k) : b[j] = w[j + k]
  BY <1>3
<1> HIDE DEF a, b
<1>6. v \in Seq(Requests) /\ Len(v) = Len(w) - 1 /\ \A j \in 1..(k - 1) : v[j] = w[j]
  BY <1>2, <1>3, <1>4, <1>5
<1>7. ASSUME NEW j \in k..(Len(w) - 1)
      PROVE  v[j] = w[j + 1]
  <2>1. j - (k - 1) \in 1..(Len(w) - k)
    BY <1>3
  <2>2. v[j] = b[j - (k - 1)]
    BY <1>2, <1>3, <1>4, <1>5, <2>1
  <2> QED
    BY <1>3, <1>5, <2>1, <2>2
<1> QED
  BY <1>6, <1>7

\* A queue stays right when one of its requests, r, leaves it for a phase
\* outside.
LEMMA LeaveQueue ==
  ASSUME NEW w \in Seq(Requests), NEW ph \in [Requests -> Phases], NEW r \in Requests,
         NEW p \in Phases \ {"queued", "granted"},
         QueueOK(w, ph), ph[r] \in {"queued", "granted"}
  PROVE  /\ Without(w, r) \in Seq(Requests)
         /\ QueueOK(Without(w, r), [ph EXCEPT ![r] = p])
<1> DEFINE v == Without(w, r)
           ph2 == [ph EXCEPT ![r] = p]
<1>1. PICK k \in 1..Len(w) : w[k] = r
  BY DEF QueueOK
<1>2. \A i, j \in 1..Len(w) : w[i] = w[j] => i = j
  BY DEF QueueOK
<1>3. /\ v \in Seq(Requests)
      /\ Len(v) = Len(w) - 1
      /\ \A j \in 1..(k - 1) : v[j] = w[j]
      /\ \A j \in k..(Len(w) - 1) : v[j] = w[j + 1]
  BY <1>1, <1>2, WithoutKeeps
<1> DEFINE from(j) == IF j < k THEN j ELSE j + 1
<1>4. \A j \in 1..Len(v) : from(j) \in 1..Len(w) /\ from(j) # k /\ v[j] = w[from(j)]
  BY <1>1, <1>3
<1>5. \A j, i \in 1..Len(v) : from(j) = from(i) => j = i
  BY <1>3
<1>6. \A q \in Requests : ph2[q] = IF q = r THEN p ELSE ph[q]
  OBVIOUS
<1>7. \A j \in 1..Len(v) : v[j] # r /\ ph2[v[j]] \in {"queued", "granted"}
  <2> SUFFICES ASSUME NEW j \in 1..Len(v) PROVE v[j] # r /\ ph2[v[j]] \in {"queued", "granted"}
    OBVIOUS
  <2>1. v[j] # r
    <3>1. from(j) \in 1..Len(w) /\ from(j) # k /\ v[j] = w[from(j)]
      BY <1>4
    <3> QED
      BY <1>1, <1>2, <3>1
  <2>2. v[j] \in Requests
    BY <1>3
  <2>3. from(j) \in 1..Len(w) /\ v[j] = w[from(j)]
    BY <1>4
  <2>4. ph[w[from(j)]] \in {"queued", "granted"}
    <3> HIDE DEF from
    <3> QED
      BY <2>3 DEF QueueOK
  <2>5. ph[v[j]] \in {"queued", "granted"}
    <3> HIDE DEF from, v
    <3> QED
      BY <2>3, <2>4
  <2> QED
    BY <2>1, <2>2, <2>5, <1>6
<1>8. \A i, j \in 1..Len(v) : v[i] = v[j] => i = j
  BY <1>2, <1>4, <1>5
<1>9. ASSUME NEW q \in Requests, ph2[q] \in {"queued", "granted"}
      PROVE  \E j \in 1..Len(v) : v[j] = q
  <2>1. q # r /\ ph[q] \in {"queued", "granted"}
    BY <1>6, <1>9
  <2>2. PICK i \in 1..Len(w) : w[i] = q
    BY <2>1 DEF QueueOK
  <2>3. i # k
    BY <2>1, <2>2, <1>1
  <2>4. CASE i < k
    BY <2>2, <2>4, <1>3
  <2>5. CASE i > k
    <3>1. i - 1 \in k..(Len(w) - 1) /\ i - 1 \in 1..Len(v)
      BY <2>5, <1>3
    <3>2. v[i - 1] = w[i]
      BY <3>1, <1>3
    <3> QED
      BY <3>1, <3>2, <2>2
  <2> QED
    BY <2>3, <2>4, <2>5
<1> QED
  BY <1>3, <1>7, <1>8, <1>9 DEF QueueOK

\* A request r that moves to phase p changes the number of slots in use by at
\* most one.
SlotsUsedBy(p) == IF p \in {"granted", "taken", "body"} THEN 1 ELSE 0

LEMMA HoldingChanges ==
  ASSUME NEW ph \in [Requests -> Phases], NEW r \in Requests, NEW p,
         NEW ph2, \A q \in Requests : ph2[q] = IF q = r THEN p ELSE ph[q]
  PROVE  Cardinality(Holding(ph2)) =
           Cardinality(Holding(ph)) + SlotsUsedBy(p) - SlotsUsedBy(ph[r])
<1>1. \A q \in Requests : ph2[q] = IF q = r THEN p ELSE ph[q]
  OBVIOUS
<1>2. Cardinality(Holding(ph)) \in Nat
  BY CountsAreNat
<1>3. CASE SlotsUsedBy(p) = SlotsUsedBy(ph[r])
  <2>1. Holding(ph2) = Holding(ph)
    BY <1>1, <1>3 DEF Holding, SlotsUsedBy
  <2> QED
    BY <1>2, <1>3, <2>1 DEF SlotsUsedBy
<1>4. CASE SlotsUsedBy(p) = 1 /\ SlotsUsedBy(ph[r]) = 0
  <2>1. Holding(ph2) = Holding(ph) \cup {r} /\ r \notin Holding(ph)
    BY <1>1, <1>4 DEF Holding, SlotsUsedBy
  <2>2. Cardinality(Holding(ph) \cup {r}) = Cardinality(Holding(ph)) + 1
    BY <2>1, OneMore DEF Holding
  <2>3. Cardinality(Holding(ph2)) = Cardinality(Holding(ph)) + 1
    BY <2>1, <2>2
  <2> QED
    BY <1>2, <1>4, <2>3
<1>5. CASE SlotsUsedBy(p) = 0 /\ SlotsUsedBy(ph[r]) = 1
  <2>1. Holding(ph2) = Holding(ph) \ {r} /\ r \in Holding(ph)
    BY <1>1, <1>5 DEF Holding, SlotsUsedBy
  <2>2. Cardinality(Holding(ph) \ {r}) = Cardinality(Holding(ph)) - 1
    BY <2>1, OneFewer DEF Holding
  <2>3. Cardinality(Holding(ph2)) = Cardinality(Holding(ph)) - 1
    BY <2>1, <2>2
  <2> QED
    BY <1>2, <1>5, <2>3
<1> QED
  BY <1>3, <1>4, <1>5 DEF SlotsUsedBy

\* Whoever frees a slot, or has one left over, passes it on.
LEMMA WakeNextKeeps ==
  ASSUME NEW w \in Seq(Requests), NEW ph \in [Requests -> Phases], NEW value \in Nat \ {0},
         QueueOK(w, ph), WakeNext(value, w, ph),
         value + Cardinality(Holding(ph)) = Slots
  PROVE  /\ free' \in 0..Slots
         /\ phase' \in [Requests -> Phases]
         /\ QueueOK(w, phase')
         /\ HandOver(free', w, phase')
         /\ free' + Cardinality(Holding(phase')) = Slots
         /\ \A q \in Requests : phase'[q] = ph[q] \/ (ph[q] = "queued" /\ phase'[q] = "granted")
<1> USE SlotsAssumption
<1>1. Cardinality(Holding(ph)) \in Nat
  BY CountsAreNat
<1>2. CASE Unserved(w, ph) = {} /\ free' = value /\ phase' = ph
  BY <1>1, <1>2 DEF HandOver
<1>3. ASSUME NEW i \in Unserved(w, ph), free' = value - 1,
             phase' = [ph EXCEPT ![w[i]] = "granted"]
      PROVE  /\ free' \in 0..Slots
             /\ phase' \in [Requests -> Phases]
             /\ QueueOK(w, phase')
             /\ HandOver(free', w, phase')
             /\ free' + Cardinality(Holding(phase')) = Slots
             /\ \A q \in Requests : phase'[q] = ph[q]
                                    \/ (ph[q] = "queued" /\ phase'[q] = "granted")
  <2>1. i \in 1..Len(w) /\ w[i] \in Requests /\ ph[w[i]] = "queued"
    BY DEF Unserved
  <2>2. \A q \in Requests : phase'[q] = IF q = w[i] THEN "granted" ELSE ph[q]
    BY <1>3, <2>1
  <2>3. phase' \in [Requests -> Phases]
    BY <1>3, <2>1 DEF Phases
  <2>4. QueueOK(w, phase')
    <3>1. \A j \in 1..Len(w) : w[j] \in Requests
      OBVIOUS
    <3>2. \A j \in 1..Len(w) : phase'[w[j]] \in {"queued", "granted"}
      BY <2>2, <3>1 DEF QueueOK
    <3>3. \A q \in Requests : phase'[q] \in {"queued", "granted"}
                             => \E j \in 1..Len(w) : w[j] = q
      BY <2>1, <2>2 DEF QueueOK
    <3> QED
      BY <3>2, <3>3 DEF QueueOK
  <2>5. Cardinality(Holding(phase')) = Cardinality(Holding(ph)) + 1
    <3>1. Cardinality(Holding(phase')) =
            Cardinality(Holding(ph)) + SlotsUsedBy("granted") - SlotsUsedBy(ph[w[i]])
      BY <2>1, <2>2, HoldingChanges
    <3> QED
      BY <1>1, <2>1, <3>1 DEF SlotsUsedBy
  <2> QED
    BY <1>1, <1>3, <2>1, <2>2, <2>3, <2>4, <2>5 DEF HandOver
<1> QED
  BY <1>2, <1>3 DEF WakeNext

\* The type of what the semaphore's actions change.
SemaphoreTypes ==
  /\ free \in 0..Slots
  /\ queue \in Seq(Requests)
  /\ phase \in [Requests -> Phases]
  /\ client \in [Requests -> Clients \cup {NoClient}]

\* The counters stay right as long as no body begins or ends.
LEMMA BodiesKept ==
  ASSUME CountersOK, UNCHANGED counters,
         \A q \in Requests : phase'[q] = "body" <=> phase[q] = "body",
         \A q \in Requests : phase[q] = "body" => client'[q] = client[q]
  PROVE  CountersOK'
<1>1. Running(phase') = Running(phase)
  BY DEF Running
<1>2. \A c \in Clients : RunningOf(phase', client', c) = RunningOf(phase, client, c)
  BY DEF RunningOf
<1>3. BucketsBounded'
  BY DEF CountersOK, BucketsBounded, Held, counters
<1> QED
  BY <1>1, <1>2, <1>3 DEF CountersOK, counters

LEMMA AskKeeps ==
  ASSUME IInv, NEW r \in Requests, NEW c \in Clients, Ask(r, c)
  PROVE  IInv'
<1> USE DEF IInv
<1>1. \A q \in Requests : phase'[q] = IF q = r THEN "asking" ELSE phase[q]
  BY DEF Ask, TypeOK
<1>2. \A q \in Requests : client'[q] = IF q = r THEN c ELSE client[q]
  BY DEF Ask, TypeOK
<1>3. TypeOK'
  BY DEF Ask, TypeOK, Phases, semaphore, counters
<1>4. ClientsKnown'
  BY <1>1, <1>2, SetsAssumption DEF Ask, SemaphoreOK, ClientsKnown
<1>5. QueueOK(queue, phase')
  <2>1. \A i \in 1..Len(queue) : queue[i] \in Requests
    BY DEF TypeOK
  <2>2. \A i \in 1..Len(queue) : queue[i] # r
    BY DEF SemaphoreOK, QueueOK, Ask
  <2>3. \A i \in 1..Len(queue) : phase'[queue[i]] \in {"queued", "granted"}
    BY <1>1, <2>1, <2>2 DEF SemaphoreOK, QueueOK
  <2> QED
    BY <1>1, <2>3 DEF SemaphoreOK, QueueOK
<1>6. HandOver(free, queue, phase')
  <2>1. Unserved(queue, phase') = Unserved(queue, phase)
    BY <1>1 DEF Unserved, TypeOK, Ask
  <2>2. \A q \in Requests : phase[q] = "granted" => phase'[q] = "granted"
    BY <1>1 DEF Ask
  <2> QED
    BY <2>1, <2>2 DEF SemaphoreOK, HandOver
<1>7. Cardinality(Holding(phase')) = Cardinality(Holding(phase))
  <2>1. Holding(phase') = Holding(phase)
    BY <1>1 DEF Holding, Ask
  <2> QED
    BY <2>1
<1>8. CountersOK'
  BY <1>1, <1>2, BodiesKept DEF Ask
<1> QED
  BY <1>3, <1>4, <1>5, <1>6, <1>7, <1>8 DEF SemaphoreOK, Ask, semaphore

LEMMA AcquireKeeps ==
  ASSUME IInv, NEW r \in Requests, Acquire(r)
  PROVE  IInv'
<1> USE DEF IInv
<1> DEFINE p == phase'[r]
<1>1. p \in {"taken", "queued"} /\ phase' = [phase EXCEPT ![r] = p]
  BY DEF Acquire, TypeOK
<1>2. \A q \in Requests : phase'[q] = IF q = r THEN p ELSE phase[q]
  BY <1>1 DEF TypeOK
<1>3. phase' \in [Requests -> Phases] /\ p \in Phases
  BY <1>1 DEF TypeOK, Phases
<1> HIDE DEF p
<1>4. Cardinality(Holding(phase')) =
        Cardinality(Holding(phase)) + SlotsUsedBy(p) - SlotsUsedBy("asking")
  <2>1. phase \in [Requests -> Phases] /\ phase[r] = "asking"
    BY DEF TypeOK, Acquire
  <2>2. Cardinality(Holding(phase')) =
          Cardinality(Holding(phase)) + SlotsUsedBy(p) - SlotsUsedBy(phase[r])
    BY <1>2, <2>1, HoldingChanges
  <2> QED
    BY <2>1, <2>2
<1>5. Cardinality(Holding(phase)) \in Nat /\ free \in Nat /\ Slots \in Nat
  <2>1. free \in Nat /\ Slots \in Nat
    BY SlotsAssumption DEF TypeOK
  <2> QED
    BY <2>1, CountsAreNat
<1>6. free + Cardinality(Holding(phase)) = Slots
  BY DEF SemaphoreOK
<1>7. ClientsKnown'
  BY <1>1, <1>2 DEF Acquire, SemaphoreOK, ClientsKnown
<1>8. CountersOK'
  BY <1>1, <1>2, BodiesKept DEF Acquire
<1>9. CASE free > 0 /\ queue = << >> /\ free' = free - 1 /\ p = "taken" /\ queue' = queue
  <2>1. TypeOK'
    BY <1>3, <1>5, <1>9 DEF Acquire, TypeOK, counters
  <2>2. \A q \in Requests : phase[q] \notin {"queued", "granted"}
    BY <1>9 DEF SemaphoreOK, QueueOK
  <2>3. QueueOK(queue', phase')
    BY <1>2, <1>9, <2>2 DEF QueueOK
  <2>4. HandOver(free', queue', phase')
    BY <1>9 DEF HandOver, Unserved
  <2>5. free' + Cardinality(Holding(phase')) = Slots
    BY <1>4, <1>5, <1>6, <1>9 DEF SlotsUsedBy
  <2> QED
    BY <1>7, <1>8, <2>1, <2>3, <2>4, <2>5 DEF SemaphoreOK
<1>10. CASE (free = 0 \/ queue # << >>) /\ queue' = Append(queue, r) /\ p = "queued" /\ free' = free
  <2>1. TypeOK'
    BY <1>3, <1>5, <1>10 DEF Acquire, TypeOK, counters
  <2>2. /\ Len(queue') = Len(queue) + 1
        /\ \A i \in 1..Len(queue) : queue'[i] = queue[i] /\ queue[i] \in Requests
        /\ queue'[Len(queue) + 1] = r
        /\ Len(queue) \in Nat
    BY <1>10 DEF TypeOK
  <2>3. \A i \in 1..Len(queue) : queue[i] # r
    BY DEF SemaphoreOK, QueueOK, Acquire
  <2>4. QueueOK(queue', phase')
    <3>1. \A i \in 1..Len(queue') : phase'[queue'[i]] \in {"queued", "granted"}
      BY <1>2, <1>10, <2>2 DEF SemaphoreOK, QueueOK
    <3>2. \A i, j \in 1..Len(queue') : queue'[i] = queue'[j] => i = j
      BY <2>2, <2>3 DEF SemaphoreOK, QueueOK
    <3>3. ASSUME NEW q \in Requests, phase'[q] \in {"queued", "granted"}
          PROVE  \E i \in 1..Len(queue') : queue'[i] = q
      <4>1. CASE q = r
        BY <2>2, <4>1
      <4>2. CASE q # r
        BY <1>2, <2>2, <3>3, <4>2 DEF SemaphoreOK, QueueOK
      <4> QED
        BY <4>1, <4>2
    <3> QED
      BY <3>1, <3>2, <3>3 DEF QueueOK
  <2>5. HandOver(free', queue', phase')
    <3>1. SUFFICES ASSUME free > 0
                   PROVE  \E q \in Requests : phase'[q] = "granted"
      BY <1>10 DEF HandOver
    <3>2. Len(queue) > 0 /\ queue[1] \in Requests /\ phase[queue[1]] \in {"queued", "granted"}
      BY <1>5, <1>10, <3>1 DEF SemaphoreOK, QueueOK, TypeOK
    <3>3. PICK q \in Requests : phase[q] = "granted"
      BY <3>1, <3>2 DEF SemaphoreOK, HandOver, Unserved
    <3> QED
      BY <1>2, <3>3 DEF Acquire
  <2>6. free' + Cardinality(Holding(phase')) = Slots
    BY <1>4, <1>5, <1>6, <1>10 DEF SlotsUsedBy
  <2> QED
    BY <1>7, <1>8, <2>1, <2>4, <2>5, <2>6 DEF SemaphoreOK
<1> QED
  BY <1>9, <1>10 DEF Acquire, p, TypeOK

LEMMA TakeSlotKeeps ==
  ASSUME IInv, NEW r \in Requests, TakeSlot(r)
  PROVE  IInv'
<1> USE DEF IInv
<1> DEFINE ph == [phase EXCEPT ![r] = "taken"]
           rest == Without(queue, r)
<1>1. \A q \in Requests : ph[q] = IF q = r THEN "taken" ELSE phase[q]
  BY DEF TypeOK
<1>2. phase \in [Requests -> Phases] /\ ph \in [Requests -> Phases] /\ phase[r] = "granted"
  BY DEF TypeOK, TakeSlot, Phases
<1>3. rest \in Seq(Requests) /\ QueueOK(rest, ph)
  <2>1. queue \in Seq(Requests) /\ QueueOK(queue, phase)
    BY DEF TypeOK, SemaphoreOK
  <2>2. "taken" \in Phases \ {"queued", "granted"}
    BY DEF Phases
  <2> QED
    BY <1>2, <2>1, <2>2, LeaveQueue
<1>4. Cardinality(Holding(ph)) = Cardinality(Holding(phase))
  <2>1. Holding(ph) = Holding(phase)
    BY <1>1, <1>2 DEF Holding
  <2> QED
    BY <2>1
<1>5. /\ queue' = rest
      /\ IF free > 0 THEN WakeNext(free, rest, ph) ELSE phase' = ph /\ UNCHANGED free
      /\ UNCHANGED <<now, client, counters>>
  BY DEF TakeSlot
<1>6. Cardinality(Holding(phase)) \in Nat /\ free \in Nat /\ free + Cardinality(Holding(phase)) = Slots
  <2>1. free \in Nat /\ free + Cardinality(Holding(phase)) = Slots
    BY SlotsAssumption DEF TypeOK, SemaphoreOK
  <2> QED
    BY <2>1, CountsAreNat
<1> HIDE DEF ph, rest
<1>7. /\ free' \in 0..Slots
      /\ phase' \in [Requests -> Phases]
      /\ QueueOK(rest, phase')
      /\ HandOver(free', rest, phase')
      /\ free' + Cardinality(Holding(phase')) = Slots
      /\ \A q \in Requests : phase'[q] = ph[q] \/ (ph[q] = "queued" /\ phase'[q] = "granted")
  <2>1. CASE free > 0
    <3>1. free \in Nat \ {0} /\ WakeNext(free, rest, ph) /\ free + Cardinality(Holding(ph)) = Slots
      BY <1>4, <1>5, <1>6, <2>1
    <3> QED
      BY <1>2, <1>3, <3>1, WakeNextKeeps
  <2>2. CASE ~(free > 0)
    <3>1. phase' = ph /\ free' = free /\ free = 0
      BY <1>5, <1>6, <2>2
    <3>2. HandOver(free', rest, phase')
      BY <3>1 DEF HandOver
    <3> QED
      BY <1>2, <1>3, <1>4, <1>6, <3>1, <3>2, SlotsAssumption
  <2> QED
    BY <2>1, <2>2
<1>8. TypeOK'
  BY <1>3, <1>5, <1>7 DEF TypeOK, counters
<1>9. ClientsKnown'
  BY <1>1, <1>2, <1>5, <1>7 DEF SemaphoreOK, ClientsKnown
<1>10. CountersOK'
  <2>1. \A q \in Requests : phase'[q] = "body" <=> phase[q] = "body"
    BY <1>1, <1>2, <1>7
  <2> QED
    BY <1>5, <2>1, BodiesKept
<1> QED
  BY <1>5, <1>7, <1>8, <1>9, <1>10 DEF SemaphoreOK

LEMMA GiveUpKeeps ==
  ASSUME IInv, NEW r \in Requests, GiveUp(r)
  PROVE  IInv'
<1> USE DEF IInv
<1> DEFINE ph == [phase EXCEPT ![r] = "idle"]
           rest == IF phase[r] = "asking" THEN queue ELSE Without(queue, r)
<1>1. \A q \in Requests : ph[q] = IF q = r THEN "idle" ELSE phase[q]
  BY DEF TypeOK
<1>2. /\ phase \in [Requests -> Phases] /\ ph \in [Requests -> Phases]
      /\ phase[r] \in {"asking", "queued", "granted"}
      /\ queue \in Seq(Requests) /\ QueueOK(queue, phase)
  BY DEF TypeOK, GiveUp, Phases, SemaphoreOK
<1>3. rest \in Seq(Requests) /\ QueueOK(rest, ph)
  <2>1. CASE phase[r] = "asking"
    <3>1. \A i \in 1..Len(queue) : queue[i] \in Requests /\ queue[i] # r
      BY <1>2, <2>1 DEF QueueOK
    <3>2. \A i \in 1..Len(queue) : ph[queue[i]] = phase[queue[i]]
      BY <1>1, <3>1
    <3>3. \A q \in Requests : ph[q] \in {"queued", "granted"} => phase[q] \in {"queued", "granted"}
      BY <1>1
    <3> QED
      BY <1>2, <2>1, <3>2, <3>3 DEF QueueOK
  <2>2. CASE phase[r] # "asking"
    <3>1. "idle" \in Phases \ {"queued", "granted"}
      BY DEF Phases
    <3> QED
      BY <1>2, <2>2, <3>1, LeaveQueue
  <2> QED
    BY <2>1, <2>2
<1>4. Cardinality(Holding(ph)) = Cardinality(Holding(phase)) - SlotsUsedBy(phase[r])
  <2>1. Cardinality(Holding(ph)) =
          Cardinality(Holding(phase)) + SlotsUsedBy("idle") - SlotsUsedBy(phase[r])
    <3> HIDE DEF ph
    <3> QED
      BY <1>1, <1>2, HoldingChanges
  <2>2. Cardinality(Holding(phase)) \in Nat
    BY CountsAreNat
  <2> QED
    BY <1>2, <2>1, <2>2 DEF SlotsUsedBy
<1>5. /\ queue' = rest
      /\ IF phase[r] = "granted" THEN WakeNext(free + 1, rest, ph) ELSE phase' = ph /\ UNCHANGED free
      /\ client' = [client EXCEPT ![r] = NoClient]
      /\ UNCHANGED <<now, counters>>
  BY DEF GiveUp
<1>6. Cardinality(Holding(phase)) \in Nat /\ free \in Nat /\ free + Cardinality(Holding(phase)) = Slots
  <2>1. free \in Nat /\ free + Cardinality(Holding(phase)) = Slots
    BY SlotsAssumption DEF TypeOK, SemaphoreOK
  <2> QED
    BY <2>1, CountsAreNat
<1> HIDE DEF ph, rest
<1>7. /\ free' \in 0..Slots
      /\ phase' \in [Requests -> Phases]
      /\ QueueOK(rest, phase')
      /\ HandOver(free', rest, phase')
      /\ free' + Cardinality(Holding(phase')) = Slots
      /\ \A q \in Requests : phase'[q] = ph[q] \/ (ph[q] = "queued" /\ phase'[q] = "granted")
  <2>1. CASE phase[r] = "granted"
    <3>1. SlotsUsedBy(phase[r]) = 1
      BY <2>1 DEF SlotsUsedBy
    <3>2. /\ free + 1 \in Nat \ {0} /\ WakeNext(free + 1, rest, ph)
          /\ free + 1 + Cardinality(Holding(ph)) = Slots
      BY <1>4, <1>5, <1>6, <2>1, <3>1
    <3> QED
      BY <1>2, <1>3, <3>2, WakeNextKeeps
  <2>2. CASE phase[r] # "granted"
    <3>1. phase' = ph /\ free' = free /\ SlotsUsedBy(phase[r]) = 0
      BY <1>2, <1>5, <2>2 DEF SlotsUsedBy
    <3>2. ASSUME free > 0, Unserved(rest, ph) # {}
          PROVE  \E q \in Requests : ph[q] = "granted"
      <4>1. PICK i \in 1..Len(rest) : ph[rest[i]] = "queued"
        BY <3>2 DEF Unserved
      <4>2. rest[i] \in Requests /\ phase[rest[i]] = "queued"
        BY <1>1, <1>3, <4>1
      <4>3. Unserved(queue, phase) # {}
        BY <1>2, <4>2 DEF QueueOK, Unserved
      <4>4. PICK q \in Requests : phase[q] = "granted"
        BY <3>2, <4>3 DEF SemaphoreOK, HandOver
      <4> QED
        BY <1>1, <2>2, <4>4
    <3>3. HandOver(free', rest, phase')
      BY <3>1, <3>2 DEF HandOver
    <3>4. free + Cardinality(Holding(ph)) = Slots
      BY <1>4, <1>6, <3>1
    <3> QED
      BY <1>2, <1>3, <1>6, <3>1, <3>3, <3>4, SlotsAssumption
  <2> QED
    BY <2>1, <2>2
<1>8. TypeOK'
  BY <1>3, <1>5, <1>7 DEF TypeOK, counters
<1>9. \A q \in Requests : client'[q] = IF q = r THEN NoClient ELSE client[q]
  BY <1>5 DEF TypeOK
<1>10. ClientsKnown'
  BY <1>1, <1>2, <1>7, <1>9 DEF SemaphoreOK, ClientsKnown
<1>11. CountersOK'
  <2>1. \A q \in Requests : phase'[q] = "body" <=> phase[q] = "body"
    BY <1>1, <1>2, <1>7
  <2>2. \A q \in Requests : phase[q] = "body" => client'[q] = client[q]
    BY <1>2, <1>9
  <2> QED
    BY <1>5, <2>1, <2>2, BodiesKept
<1> QED
  BY <1>5, <1>7, <1>8, <1>10, <1>11 DEF SemaphoreOK

\* A request that returns its slot leaves the semaphore right.
LEMMA ReturnSlotKeeps ==
  ASSUME SemaphoreTypes, SemaphoreOK, NEW r \in Requests, phase[r] \in {"taken", "body"},
         ReturnSlot(r), queue' = queue
  PROVE  /\ SemaphoreTypes'
         /\ SemaphoreOK'
         /\ \A q \in Requests : client'[q] = IF q = r THEN NoClient ELSE client[q]
         /\ \A q \in Requests : phase'[q] = "body" <=> phase[q] = "body" /\ q # r
<1> DEFINE ph == [phase EXCEPT ![r] = "idle"]
<1>1. \A q \in Requests : ph[q] = IF q = r THEN "idle" ELSE phase[q]
  BY DEF SemaphoreTypes
<1>2. /\ phase \in [Requests -> Phases] /\ ph \in [Requests -> Phases]
      /\ queue \in Seq(Requests) /\ QueueOK(queue, phase)
  BY DEF SemaphoreTypes, SemaphoreOK, Phases
<1>3. QueueOK(queue, ph)
  <2>1. \A i \in 1..Len(queue) : queue[i] \in Requests /\ queue[i] # r
    BY <1>2 DEF QueueOK
  <2>2. \A i \in 1..Len(queue) : ph[queue[i]] = phase[queue[i]]
    BY <1>1, <2>1
  <2>3. \A q \in Requests : ph[q] \in {"queued", "granted"} => phase[q] \in {"queued", "granted"}
    BY <1>1
  <2> QED
    BY <1>2, <2>2, <2>3 DEF QueueOK
<1>4. Cardinality(Holding(ph)) = Cardinality(Holding(phase)) - 1
  <2>1. Cardinality(Holding(ph)) =
          Cardinality(Holding(phase)) + SlotsUsedBy("idle") - SlotsUsedBy(phase[r])
    <3> HIDE DEF ph
    <3> QED
      BY <1>1, <1>2, HoldingChanges
  <2>2. Cardinality(Holding(phase)) \in Nat
    BY CountsAreNat
  <2> QED
    BY <2>1, <2>2 DEF SlotsUsedBy
<1>5. Cardinality(Holding(phase)) \in Nat /\ free \in Nat /\ free + Cardinality(Holding(phase)) = Slots
  <2>1. free \in Nat /\ free + Cardinality(Holding(phase)) = Slots
    BY SlotsAssumption DEF SemaphoreTypes, SemaphoreOK
  <2> QED
    BY <2>1, CountsAreNat
<1>6. WakeNext(free + 1, queue, ph) /\ client' = [client EXCEPT ![r] = NoClient]
  BY DEF ReturnSlot
<1> HIDE DEF ph
<1>7. /\ free' \in 0..Slots
      /\ phase' \in [Requests -> Phases]
      /\ QueueOK(queue, phase')
      /\ HandOver(free', queue, phase')
      /\ free' + Cardinality(Holding(phase')) = Slots
      /\ \A q \in Requests : phase'[q] = ph[q] \/ (ph[q] = "queued" /\ phase'[q] = "granted")
  <2>1. free + 1 \in Nat \ {0} /\ free + 1 + Cardinality(Holding(ph)) = Slots
    BY <1>4, <1>5
  <2> QED
    BY <1>2, <1>3, <1>6, <2>1, WakeNextKeeps
<1>8. SemaphoreTypes'
  BY <1>2, <1>6, <1>7 DEF SemaphoreTypes
<1>9. \A q \in Requests : client'[q] = IF q = r THEN NoClient ELSE client[q]
  BY <1>6 DEF SemaphoreTypes
<1>10. ClientsKnown'
  BY <1>1, <1>7, <1>9 DEF SemaphoreOK, ClientsKnown
<1> QED
  BY <1>1, <1>7, <1>8, <1>9, <1>10 DEF SemaphoreOK

-----------------------------------------------------------------------------
(* The decision *)

LEMMA NatMinimum ==
  ASSUME NEW T \in SUBSET Nat, T # {}
  PROVE  \E m \in T : \A k \in T : m <= k
<1>1. PICK m \in T : \A k \in T : ~(<<k, m>> \in OpToRel(<, Nat))
  BY NatLessThanWellFounded, WFMin
<1>2. \A k \in T : ~(k < m)
  BY <1>1 DEF OpToRel
<1> QED
  BY <1>2

\* Pruning drops the oldest attempts, all of them outside the window, and what
\* it keeps begins inside.
LEMMA RecentIs ==
  ASSUME NEW w \in Seq(Nat), now \in Nat
  PROVE  \E n \in 0..Len(w) :
           /\ Recent(w) = SubSeq(w, n + 1, Len(w))
           /\ \A i \in 1..n : w[i] <= now - Window
           /\ n = Len(w) \/ w[n + 1] > now - Window
<1> DEFINE stop(n) == n = Len(w) \/ w[n + 1] > now - Window
           ok(n) == (\A i \in 1..n : w[i] <= now - Window) /\ stop(n)
           T == {n \in 0..Len(w) : stop(n)}
           gone == CHOOSE n \in 0..Len(w) : ok(n)
<1>1. T \in SUBSET Nat /\ T # {}
  BY DEF T
<1>2. PICK m \in T : \A k \in T : m <= k
  BY <1>1, NatMinimum
<1>3. ok(m)
  <2>1. ASSUME NEW i \in 1..m PROVE w[i] <= now - Window
    <3>1. m \in 0..Len(w) /\ Len(w) \in Nat
      BY <1>2
    <3>2. i - 1 \in 0..Len(w) /\ ~(m <= i - 1)
      BY <3>1
    <3>3. i - 1 \notin T
      BY <1>2, <3>2
    <3>4. ~stop(i - 1)
      BY <3>2, <3>3
    <3>5. w[i] \in Nat /\ Window \in Nat
      BY <1>2, LimitsAssumption
    <3> QED
      BY <3>1, <3>4, <3>5
  <2> QED
    BY <1>2, <2>1
<1>4. gone \in 0..Len(w) /\ ok(gone)
  BY <1>2, <1>3
<1>5. Recent(w) = SubSeq(w, gone + 1, Len(w))
  BY DEF Recent
<1> QED
  BY <1>4, <1>5

LEMMA RecentType ==
  ASSUME NEW w \in Seq(Nat), now \in Nat
  PROVE  Recent(w) \in Seq(Nat)
<1>1. PICK n \in 0..Len(w) : Recent(w) = SubSeq(w, n + 1, Len(w))
  BY RecentIs
<1>2. \A i \in (n + 1)..Len(w) : w[i] \in Nat
  OBVIOUS
<1> QED
  BY <1>1, <1>2, SubSeqProperties

MaybeBucket == Bucket \cup {NoBucket}

LEMMA PurgedIs ==
  ASSUME bucket \in [Clients -> MaybeBucket]
  PROVE  /\ Purged \in [Clients -> MaybeBucket]
         /\ \A d \in Clients :
              \/ Purged[d] = bucket[d]
              \/ /\ bucket[d] \in Bucket /\ bucket[d].active = 0
                 /\ now - bucket[d].last >= Ttl
                 /\ Purged[d] = NoBucket
BY DEF Purged, MaybeBucket

\* The maps _bucket may leave for client c: at most one other client, idle,
\* has lost its bucket, and there is room for c's.
LEMMA RoomIs ==
  ASSUME NEW bk \in [Clients -> MaybeBucket], NEW c \in Clients,
         Cardinality(Held(bk)) <= MaxBuckets, NEW room \in RoomFor(bk, c)
  PROVE  /\ room \in [Clients -> MaybeBucket]
         /\ \A d \in Clients :
              \/ room[d] = bk[d]
              \/ d # c /\ bk[d] \in Bucket /\ bk[d].active = 0 /\ room[d] = NoBucket
         /\ Cardinality(Held(room) \cup {c}) <= MaxBuckets
<1>1. \A S \in SUBSET Clients : IsFiniteSet(S) /\ Cardinality(S) \in Nat
  BY SetsAssumption, FS_Subset, FS_CardinalityType
<1>2. MaxBuckets \in Nat
  BY LimitsAssumption
<1>3. Held(bk) \in SUBSET Clients /\ Held(room) \in SUBSET Clients
  BY DEF Held
<1>4. CASE bk[c] = NoBucket /\ Cardinality(Held(bk)) >= MaxBuckets
  <2>1. PICK v \in Clients :
          IsVictim(bk, v) /\ room = [d \in Clients |-> IF d = v THEN NoBucket ELSE bk[d]]
    BY <1>4 DEF RoomFor
  <2>2. bk[v] # NoBucket /\ bk[v].active = 0
    BY <2>1 DEF IsVictim, Held
  <2>3. bk[v] \in Bucket /\ v # c
    BY <1>4, <2>2 DEF MaybeBucket
  <2>4. Held(room) = Held(bk) \ {v} /\ v \in Held(bk)
    BY <2>1, <2>2 DEF Held
  <2>5. Cardinality(Held(room)) = Cardinality(Held(bk)) - 1
    BY <1>1, <1>3, <2>4, FS_RemoveElement
  <2>6. Cardinality(Held(room) \cup {c}) <= Cardinality(Held(room)) + 1
    BY <1>1, <1>3, FS_AddElement
  <2>7. Cardinality(Held(room) \cup {c}) <= MaxBuckets
    <3>1. Cardinality(Held(room) \cup {c}) \in Nat
      BY <1>1, <1>3
    <3> QED
      BY <1>1, <1>2, <1>3, <2>5, <2>6, <3>1
  <2>8. room \in [Clients -> MaybeBucket]
    BY <2>1 DEF MaybeBucket
  <2> QED
    BY <2>1, <2>2, <2>3, <2>7, <2>8
<1>5. CASE ~(bk[c] = NoBucket /\ Cardinality(Held(bk)) >= MaxBuckets)
  <2>1. room = bk
    BY <1>5 DEF RoomFor
  <2>2. CASE bk[c] # NoBucket
    <3>1. Held(room) \cup {c} = Held(bk)
      BY <2>1, <2>2 DEF Held
    <3> QED
      BY <2>1, <3>1
  <2>3. CASE ~(Cardinality(Held(bk)) >= MaxBuckets)
    <3>1. Cardinality(Held(room) \cup {c}) <= Cardinality(Held(bk)) + 1
      BY <1>1, <1>3, <2>1, FS_AddElement
    <3>2. Cardinality(Held(room) \cup {c}) \in Nat
      BY <1>1, <1>3
    <3> QED
      BY <1>1, <1>2, <1>3, <2>1, <2>3, <3>1, <3>2
  <2> QED
    BY <1>5, <2>2, <2>3
<1> QED
  BY <1>4, <1>5

\* The bucket the decision looks at.
Bucket2(room, c) == Rolled(IF room[c] = NoBucket THEN NewBucket ELSE room[c])

LEMMA RolledType ==
  ASSUME NEW room \in [Clients -> MaybeBucket], NEW c \in Clients, now \in Nat
  PROVE  /\ Bucket2(room, c) \in Bucket
         /\ Counted(Bucket2(room, c)) \in Bucket
         /\ Bucket2(room, c).active = IF room[c] = NoBucket THEN 0 ELSE room[c].active
         /\ Counted(Bucket2(room, c)).active = Bucket2(room, c).active + 1
<1> DEFINE x == IF room[c] = NoBucket THEN NewBucket ELSE room[c]
           b == Bucket2(room, c)
<1>1. DayOf(now) \in Nat
  BY DayIsNat
<1>2. x \in Bucket /\ x.active = IF room[c] = NoBucket THEN 0 ELSE room[c].active
  BY <1>1 DEF NewBucket, Bucket, MaybeBucket
<1>3. b = Rolled(x)
  BY DEF Bucket2
<1> HIDE DEF x
<1>4. Recent(x.window) \in Seq(Nat)
  BY <1>2, RecentType DEF Bucket
<1> HIDE DEF b
<1>5. b \in Bucket /\ b.active = x.active
  BY <1>1, <1>2, <1>3, <1>4 DEF Rolled, Bucket
<1>6. Counted(b) \in Bucket /\ Counted(b).active = b.active + 1
  <2>1. Append(b.window, now) \in Seq(Nat)
    BY <1>5 DEF Bucket
  <2>2. Counted(b) = [window |-> Append(b.window, now), day |-> b.day,
                      count |-> b.count + 1, last |-> now, active |-> b.active + 1]
    <3> DEFINE y == Counted(b)
    <3>1. /\ y.window = Append(b.window, now) /\ y.day = b.day /\ y.count = b.count + 1
          /\ y.last = now /\ y.active = b.active + 1
      BY <1>5 DEF Counted, Bucket
    <3>2. y = [f \in {"window", "day", "count", "last", "active"} |-> y[f]]
      BY <1>5 DEF Counted, Bucket
    <3> QED
      BY <3>1, <3>2
  <2>3. b.day \in Nat /\ b.count + 1 \in Nat /\ b.active + 1 \in Nat
    BY <1>5 DEF Bucket
  <2> QED
    BY <2>1, <2>2, <2>3 DEF Bucket
<1> QED
  BY <1>2, <1>5, <1>6 DEF b

\* A decision leaves every bucket that it does not delete counting as before.
LEMMA RoomCounts ==
  ASSUME IInv, NEW c \in Clients, NEW room \in RoomFor(Purged, c)
  PROVE  /\ room \in [Clients -> MaybeBucket]
         /\ \A d \in Clients : BucketOK(room[d], Cardinality(RunningOf(phase, client, d)))
         /\ Cardinality(Held(room) \cup {c}) <= MaxBuckets
<1>1. bucket \in [Clients -> MaybeBucket] /\ Cardinality(Held(bucket)) <= MaxBuckets
  BY DEF IInv, TypeOK, CountersOK, BucketsBounded, MaybeBucket
<1>2. /\ Purged \in [Clients -> MaybeBucket]
      /\ \A d \in Clients : \/ Purged[d] = bucket[d]
                            \/ /\ bucket[d] \in Bucket /\ bucket[d].active = 0
                               /\ now - bucket[d].last >= Ttl
                               /\ Purged[d] = NoBucket
  BY <1>1, PurgedIs
<1>3. Cardinality(Held(Purged)) <= MaxBuckets
  <2>1. Held(Purged) \subseteq Held(bucket) /\ Held(bucket) \subseteq Clients
    BY <1>2, NoBucketAssumption DEF Held
  <2>2. IsFiniteSet(Held(bucket)) /\ Cardinality(Held(bucket)) \in Nat
    BY <2>1, SetsAssumption, FS_Subset, FS_CardinalityType
  <2>3. Cardinality(Held(Purged)) <= Cardinality(Held(bucket)) /\ Cardinality(Held(Purged)) \in Nat
    BY <2>1, <2>2, FS_Subset, FS_CardinalityType
  <2> QED
    BY <1>1, <2>2, <2>3, LimitsAssumption
<1>4. /\ room \in [Clients -> MaybeBucket]
      /\ \A d \in Clients :
           \/ room[d] = Purged[d]
           \/ d # c /\ Purged[d] \in Bucket /\ Purged[d].active = 0 /\ room[d] = NoBucket
      /\ Cardinality(Held(room) \cup {c}) <= MaxBuckets
  BY <1>2, <1>3, RoomIs
<1>5. ASSUME NEW d \in Clients
      PROVE  BucketOK(room[d], Cardinality(RunningOf(phase, client, d)))
  <2>1. BucketOK(bucket[d], Cardinality(RunningOf(phase, client, d)))
    BY DEF IInv, CountersOK
  <2>2. BucketOK(Purged[d], Cardinality(RunningOf(phase, client, d)))
    BY <1>2, <2>1, NoBucketAssumption DEF BucketOK
  <2> QED
    BY <1>4, <2>2, NoBucketAssumption DEF BucketOK
<1> QED
  BY <1>4, <1>5

\* Writing c's bucket into a map with room for it keeps the bound.
LEMMA PutBounded ==
  ASSUME NEW room \in [Clients -> MaybeBucket], NEW c \in Clients, NEW b,
         Cardinality(Held(room) \cup {c}) <= MaxBuckets
  PROVE  Cardinality(Held([room EXCEPT ![c] = b])) <= MaxBuckets
<1>1. Held([room EXCEPT ![c] = b]) \subseteq Held(room) \cup {c} /\ Held(room) \cup {c} \subseteq Clients
  BY DEF Held
<1>2. IsFiniteSet(Held(room) \cup {c}) /\ Cardinality(Held(room) \cup {c}) \in Nat
  BY <1>1, SetsAssumption, FS_Subset, FS_CardinalityType
<1>3. /\ Cardinality(Held([room EXCEPT ![c] = b])) <= Cardinality(Held(room) \cup {c})
      /\ Cardinality(Held([room EXCEPT ![c] = b])) \in Nat
  BY <1>1, <1>2, FS_Subset, FS_CardinalityType
<1> QED
  BY <1>2, <1>3, LimitsAssumption

\* From phases ph to ph2 request r enters its body, and no other does or leaves.
Enters(r, ph, ph2) == \A q \in Requests : ph2[q] = "body" <=> ph[q] = "body" \/ q = r

\* A request enters its body: its client's count, and the total, grow by one.
LEMMA EnterBody ==
  ASSUME NEW ph \in [Requests -> Phases], NEW cl, NEW ph2, NEW r \in Requests,
         ph[r] = "taken", Enters(r, ph, ph2)
  PROVE  /\ Cardinality(Running(ph2)) = Cardinality(Running(ph)) + 1
         /\ \A d \in Clients :
              Cardinality(RunningOf(ph2, cl, d)) =
                Cardinality(RunningOf(ph, cl, d)) + (IF cl[r] = d THEN 1 ELSE 0)
<1>1. Running(ph2) = Running(ph) \cup {r} /\ r \notin Running(ph)
  BY DEF Running, Enters
<1>2. Cardinality(Running(ph2)) = Cardinality(Running(ph)) + 1
  <2>1. Cardinality(Running(ph) \cup {r}) = Cardinality(Running(ph)) + 1
    BY <1>1, OneMore DEF Running
  <2> QED
    BY <1>1, <2>1
<1>3. ASSUME NEW d \in Clients, cl[r] = d
      PROVE  Cardinality(RunningOf(ph2, cl, d)) = Cardinality(RunningOf(ph, cl, d)) + 1
  <2>1. RunningOf(ph2, cl, d) = RunningOf(ph, cl, d) \cup {r} /\ r \notin RunningOf(ph, cl, d)
    BY <1>3 DEF RunningOf, Enters
  <2>2. Cardinality(RunningOf(ph, cl, d) \cup {r}) = Cardinality(RunningOf(ph, cl, d)) + 1
    BY <2>1, OneMore DEF RunningOf
  <2> QED
    BY <2>1, <2>2
<1>4. ASSUME NEW d \in Clients, cl[r] # d
      PROVE  Cardinality(RunningOf(ph2, cl, d)) = Cardinality(RunningOf(ph, cl, d))
  <2>1. RunningOf(ph2, cl, d) = RunningOf(ph, cl, d)
    BY <1>4 DEF RunningOf, Enters
  <2> QED
    BY <2>1
<1>5. \A d \in Clients : Cardinality(RunningOf(ph, cl, d)) \in Nat
  BY CountsAreNat
<1> QED
  BY <1>2, <1>3, <1>4, <1>5

\* A request leaves its body: there was at least one to count.
LEMMA LeaveBody ==
  ASSUME phase \in [Requests -> Phases], NEW r \in Requests, phase[r] = "body",
         \A q \in Requests : phase'[q] = "body" <=> phase[q] = "body" /\ q # r,
         \A q \in Requests : q # r => client'[q] = client[q]
  PROVE  /\ Cardinality(Running(phase)) \in Nat \ {0}
         /\ Cardinality(Running(phase')) = Cardinality(Running(phase)) - 1
         /\ \A d \in Clients : client[r] = d =>
              /\ Cardinality(RunningOf(phase, client, d)) \in Nat \ {0}
              /\ Cardinality(RunningOf(phase', client', d)) =
                   Cardinality(RunningOf(phase, client, d)) - 1
         /\ \A d \in Clients : client[r] # d =>
              Cardinality(RunningOf(phase', client', d)) = Cardinality(RunningOf(phase, client, d))
<1>1. Running(phase') = Running(phase) \ {r} /\ r \in Running(phase)
  BY DEF Running
<1>2. /\ Cardinality(Running(phase)) \in Nat \ {0}
      /\ Cardinality(Running(phase')) = Cardinality(Running(phase)) - 1
  <2>1. /\ Cardinality(Running(phase)) \in Nat \ {0}
        /\ Cardinality(Running(phase) \ {r}) = Cardinality(Running(phase)) - 1
    BY <1>1, OneFewer DEF Running
  <2> QED
    BY <1>1, <2>1
<1>3. ASSUME NEW d \in Clients, client[r] = d
      PROVE  /\ Cardinality(RunningOf(phase, client, d)) \in Nat \ {0}
             /\ Cardinality(RunningOf(phase', client', d)) =
                  Cardinality(RunningOf(phase, client, d)) - 1
  <2> DEFINE S == RunningOf(phase, client, d)
  <2>1. RunningOf(phase', client', d) = S \ {r} /\ r \in S /\ S \in SUBSET Requests
    BY <1>3 DEF RunningOf
  <2>2. Cardinality(S) \in Nat \ {0} /\ Cardinality(S \ {r}) = Cardinality(S) - 1
    <3> HIDE DEF S
    <3> QED
      BY <2>1, OneFewer
  <2> QED
    BY <2>1, <2>2
<1>4. ASSUME NEW d \in Clients, client[r] # d
      PROVE  Cardinality(RunningOf(phase', client', d)) = Cardinality(RunningOf(phase, client, d))
  <2>1. RunningOf(phase', client', d) = RunningOf(phase, client, d)
    BY <1>4 DEF RunningOf
  <2> QED
    BY <2>1
<1> QED
  BY <1>2, <1>3, <1>4

\* What both outcomes of a decision, and a full map, do to the semaphore.
LEMMA AdmittedSemaphore ==
  ASSUME SemaphoreTypes, SemaphoreOK, NEW r \in Requests, phase[r] = "taken",
         phase' = [phase EXCEPT ![r] = "body"], UNCHANGED <<free, queue, client>>
  PROVE  /\ SemaphoreTypes'
         /\ SemaphoreOK'
         /\ \A q \in Requests : phase'[q] = "body" <=> phase[q] = "body" \/ q = r
<1>1. \A q \in Requests : phase'[q] = IF q = r THEN "body" ELSE phase[q]
  BY DEF SemaphoreTypes
<1>2. SemaphoreTypes'
  BY DEF SemaphoreTypes, Phases
<1>3. ClientsKnown'
  BY <1>1 DEF SemaphoreOK, ClientsKnown
<1>4. QueueOK(queue, phase')
  <2>1. \A i \in 1..Len(queue) : queue[i] \in Requests /\ queue[i] # r
    BY DEF SemaphoreTypes, SemaphoreOK, QueueOK
  <2>2. \A i \in 1..Len(queue) : phase'[queue[i]] = phase[queue[i]]
    BY <1>1, <2>1
  <2>3. \A q \in Requests : phase'[q] \in {"queued", "granted"} => phase[q] \in {"queued", "granted"}
    BY <1>1
  <2> QED
    BY <2>2, <2>3 DEF SemaphoreOK, QueueOK
<1>5. HandOver(free, queue, phase')
  <2>1. Unserved(queue, phase') = Unserved(queue, phase)
    BY <1>1 DEF SemaphoreTypes, Unserved
  <2> QED
    BY <1>1, <2>1 DEF SemaphoreOK, HandOver
<1>6. Cardinality(Holding(phase')) = Cardinality(Holding(phase))
  <2>1. Holding(phase') = Holding(phase)
    BY <1>1 DEF Holding
  <2> QED
    BY <2>1
<1> QED
  BY <1>1, <1>2, <1>3, <1>4, <1>5, <1>6 DEF SemaphoreOK

\* The three outcomes of a decision.
Admit(r, room) ==
  LET c == client[r]
      b == Bucket2(room, c) IN
  /\ Evict(room)
  /\ Allowed(b)
  /\ bucket' = [room EXCEPT ![c] = Counted(b)]
  /\ globalCount' = GlobalToday + 1
  /\ active' = active + 1
  /\ log' = Append(log, <<c, now>>)
  /\ phase' = [phase EXCEPT ![r] = "body"]
  /\ UNCHANGED <<free, client>>

TurnDown(r, room) ==
  LET c == client[r]
      b == Bucket2(room, c) IN
  /\ Evict(room)
  /\ ~Allowed(b)
  /\ bucket' = [room EXCEPT ![c] = b]
  /\ globalCount' = GlobalToday
  /\ ReturnSlot(r)
  /\ UNCHANGED <<active, log>>

RefuseFull(r) ==
  /\ bucket' = Purged
  /\ globalCount' = GlobalToday
  /\ ReturnSlot(r)
  /\ UNCHANGED <<active, log, forgotten>>

LEMMA DecideIs ==
  ASSUME NEW r \in Requests, Decide(r)
  PROVE  /\ phase[r] = "taken" /\ globalDay' = DayOf(now) /\ now' = now /\ queue' = queue
         /\ \/ \E room \in RoomFor(Purged, client[r]) : Admit(r, room) \/ TurnDown(r, room)
            \/ RefuseFull(r)
<1>1. /\ phase[r] = "taken" /\ globalDay' = DayOf(now) /\ now' = now /\ queue' = queue
  BY DEF Decide
<1>2. CASE RefuseFull(r)
  BY <1>1, <1>2
<1>3. CASE ~RefuseFull(r)
  <2>1. PICK room \in RoomFor(Purged, client[r]) :
          LET c == client[r]
              b == Rolled(IF room[c] = NoBucket THEN NewBucket ELSE room[c]) IN
          /\ Evict(room)
          /\ \/ /\ Allowed(b)
                /\ bucket' = [room EXCEPT ![c] = Counted(b)]
                /\ globalCount' = GlobalToday + 1
                /\ active' = active + 1
                /\ log' = Append(log, <<c, now>>)
                /\ phase' = [phase EXCEPT ![r] = "body"]
                /\ UNCHANGED <<free, client>>
             \/ /\ ~Allowed(b)
                /\ bucket' = [room EXCEPT ![c] = b]
                /\ globalCount' = GlobalToday
                /\ ReturnSlot(r)
                /\ UNCHANGED <<active, log>>
    BY <1>3 DEF Decide, RefuseFull
  <2>2. Admit(r, room) \/ TurnDown(r, room)
    BY <2>1 DEF Admit, TurnDown, Bucket2
  <2> QED
    BY <1>1, <2>2
<1> QED
  BY <1>2, <1>3

\* A decision keeps the types of what it counts in.
LEMMA TodayType ==
  ASSUME TypeOK
  PROVE  /\ now \in Nat /\ DayOf(now) \in Nat /\ GlobalToday \in 0..GlobalDayLimit
         /\ bucket \in [Clients -> MaybeBucket]
<1>1. now \in Nat
  BY LimitsAssumption DEF TypeOK
<1>2. GlobalToday \in 0..GlobalDayLimit
  BY LimitsAssumption DEF TypeOK, GlobalToday
<1> QED
  BY <1>1, <1>2, DayIsNat DEF TypeOK, MaybeBucket

LEMMA EvictType ==
  ASSUME TypeOK, NEW room, Evict(room)
  PROVE  forgotten' \in [Clients -> Nat]
<1>1. Len(log) \in Nat
  BY DEF TypeOK
<1> QED
  BY <1>1 DEF TypeOK, Evict

LEMMA AdmitKeeps ==
  ASSUME IInv, NEW r \in Requests, NEW room \in RoomFor(Purged, client[r]),
         phase[r] = "taken", globalDay' = DayOf(now), now' = now, queue' = queue,
         Admit(r, room)
  PROVE  IInv'
<1> DEFINE c == client[r]
           b == Bucket2(room, c)
<1>1. c \in Clients
  BY DEF IInv, TypeOK, SemaphoreOK, ClientsKnown
<1>2. TypeOK /\ SemaphoreTypes /\ SemaphoreOK /\ CountersOK
  BY DEF IInv, TypeOK, SemaphoreTypes
<1>3. /\ bucket' = [room EXCEPT ![c] = Counted(b)] /\ Evict(room) /\ Allowed(b)
      /\ globalCount' = GlobalToday + 1 /\ active' = active + 1
      /\ log' = Append(log, <<c, now>>)
      /\ phase' = [phase EXCEPT ![r] = "body"] /\ UNCHANGED <<free, client>>
  BY DEF Admit
<1>4. /\ room \in [Clients -> MaybeBucket]
      /\ \A d \in Clients : BucketOK(room[d], Cardinality(RunningOf(phase, client, d)))
      /\ Cardinality(Held(room) \cup {c}) <= MaxBuckets
  BY <1>1, RoomCounts
<1>5. now \in Nat /\ DayOf(now) \in Nat /\ GlobalToday \in 0..GlobalDayLimit
  BY <1>2, TodayType
<1>6. /\ b \in Bucket /\ Counted(b) \in Bucket
      /\ Counted(b).active = (IF room[c] = NoBucket THEN 0 ELSE room[c].active) + 1
  BY <1>1, <1>4, <1>5, RolledType
<1>7. /\ SemaphoreTypes' /\ SemaphoreOK'
      /\ \A q \in Requests : phase'[q] = "body" <=> phase[q] = "body" \/ q = r
  BY <1>2, <1>3, AdmittedSemaphore
<1> HIDE DEF c, b
<1>8. /\ Cardinality(Running(phase')) = Cardinality(Running(phase)) + 1
      /\ \A d \in Clients :
           Cardinality(RunningOf(phase', client, d)) =
             Cardinality(RunningOf(phase, client, d)) + (IF c = d THEN 1 ELSE 0)
  <2>1. phase \in [Requests -> Phases] /\ phase[r] = "taken"
    BY <1>2 DEF SemaphoreTypes
  <2>2. Enters(r, phase, phase')
    BY <1>7 DEF Enters
  <2>3. /\ Cardinality(Running(phase')) = Cardinality(Running(phase)) + 1
        /\ \A d \in Clients :
             Cardinality(RunningOf(phase', client, d)) =
               Cardinality(RunningOf(phase, client, d)) + (IF client[r] = d THEN 1 ELSE 0)
    BY <2>1, <2>2, EnterBody
  <2>4. c = client[r]
    BY DEF c
  <2> QED
    BY <2>3, <2>4
<1>9. TypeOK'
  <2>1. globalCount' \in 0..GlobalDayLimit
    BY <1>3, <1>5, LimitsAssumption DEF Allowed
  <2>2. bucket' \in [Clients -> Bucket \cup {NoBucket}]
    BY <1>1, <1>3, <1>4, <1>6 DEF MaybeBucket
  <2>3. log' \in Seq(Clients \X Nat)
    BY <1>1, <1>2, <1>3, <1>5 DEF TypeOK
  <2>4. active' \in Nat
    BY <1>2, <1>3 DEF TypeOK
  <2>5. forgotten' \in [Clients -> Nat]
    BY <1>2, <1>3, EvictType
  <2> QED
    BY <1>2, <1>5, <1>7, <2>1, <2>2, <2>3, <2>4, <2>5 DEF TypeOK, SemaphoreTypes
<1>10. ASSUME NEW d \in Clients
       PROVE  BucketOK(bucket'[d], Cardinality(RunningOf(phase', client, d)))
  <2>1. Cardinality(RunningOf(phase, client, d)) \in Nat
    BY CountsAreNat
  <2>2. CASE d = c
    <3>1. bucket'[d] = Counted(b) /\ bucket'[d] # NoBucket
      BY <1>1, <1>3, <1>4, <1>6, <2>2, NoBucketAssumption
    <3>2. BucketOK(room[c], Cardinality(RunningOf(phase, client, c)))
      BY <1>1, <1>4
    <3>3. Counted(b).active = Cardinality(RunningOf(phase, client, c)) + 1
      BY <1>6, <3>2 DEF BucketOK
    <3> QED
      BY <1>8, <2>2, <3>1, <3>3 DEF BucketOK
  <2>3. CASE d # c
    <3>1. bucket'[d] = room[d]
      BY <1>3, <1>4, <2>3
    <3>2. Cardinality(RunningOf(phase', client, d)) = Cardinality(RunningOf(phase, client, d))
      BY <1>8, <2>1, <2>3
    <3>3. BucketOK(room[d], Cardinality(RunningOf(phase, client, d)))
      BY <1>4
    <3> QED
      BY <3>1, <3>2, <3>3
  <2> QED
    BY <2>2, <2>3
<1>11. Cardinality(Held(bucket')) <= MaxBuckets
  <2>1. Cardinality(Held([room EXCEPT ![c] = Counted(b)])) <= MaxBuckets
    BY <1>1, <1>4, PutBounded
  <2> QED
    BY <1>3, <2>1
<1>12. CountersOK'
  <2>1. BucketsBounded'
    BY <1>11 DEF BucketsBounded
  <2>2. active' = Cardinality(Running(phase'))
    BY <1>2, <1>3, <1>8 DEF CountersOK
  <2> QED
    BY <1>3, <1>10, <2>1, <2>2 DEF CountersOK
<1> QED
  BY <1>7, <1>9, <1>12 DEF IInv

\* A refused request leaves no body: the counts of those in progress stay.
LEMMA NoBodyEnds ==
  ASSUME SemaphoreTypes, SemaphoreOK, NEW r \in Requests, phase[r] = "taken",
         ReturnSlot(r), queue' = queue
  PROVE  /\ SemaphoreTypes' /\ SemaphoreOK'
         /\ Running(phase') = Running(phase)
         /\ \A d \in Clients : RunningOf(phase', client', d) = RunningOf(phase, client, d)
<1>1. /\ SemaphoreTypes'
      /\ SemaphoreOK'
      /\ \A q \in Requests : client'[q] = IF q = r THEN NoClient ELSE client[q]
      /\ \A q \in Requests : phase'[q] = "body" <=> phase[q] = "body" /\ q # r
  BY ReturnSlotKeeps
<1>2. Running(phase') = Running(phase)
  BY <1>1 DEF Running
<1>3. \A d \in Clients : RunningOf(phase', client', d) = RunningOf(phase, client, d)
  BY <1>1 DEF RunningOf
<1> QED
  BY <1>1, <1>2, <1>3

LEMMA RefuseKeeps ==
  ASSUME IInv, NEW r \in Requests, NEW room \in RoomFor(Purged, client[r]),
         phase[r] = "taken", globalDay' = DayOf(now), now' = now, queue' = queue,
         TurnDown(r, room)
  PROVE  IInv'
<1> DEFINE c == client[r]
           b == Bucket2(room, c)
<1>1. c \in Clients
  BY DEF IInv, TypeOK, SemaphoreOK, ClientsKnown
<1>2. TypeOK /\ SemaphoreTypes /\ SemaphoreOK /\ CountersOK
  BY DEF IInv, TypeOK, SemaphoreTypes
<1>3. /\ bucket' = [room EXCEPT ![c] = b] /\ Evict(room)
      /\ globalCount' = GlobalToday /\ ReturnSlot(r) /\ UNCHANGED <<active, log>>
  BY DEF TurnDown
<1>4. /\ room \in [Clients -> MaybeBucket]
      /\ \A d \in Clients : BucketOK(room[d], Cardinality(RunningOf(phase, client, d)))
      /\ Cardinality(Held(room) \cup {c}) <= MaxBuckets
  BY <1>1, RoomCounts
<1>5. now \in Nat /\ DayOf(now) \in Nat /\ GlobalToday \in 0..GlobalDayLimit
  BY <1>2, TodayType
<1>6. b \in Bucket /\ b.active = (IF room[c] = NoBucket THEN 0 ELSE room[c].active)
  BY <1>1, <1>4, <1>5, RolledType
<1>7. /\ SemaphoreTypes' /\ SemaphoreOK'
      /\ Running(phase') = Running(phase)
      /\ \A d \in Clients : RunningOf(phase', client', d) = RunningOf(phase, client, d)
  BY <1>2, <1>3, NoBodyEnds
<1> HIDE DEF c, b
<1>8. TypeOK'
  <2>1. bucket' \in [Clients -> Bucket \cup {NoBucket}]
    BY <1>1, <1>3, <1>4, <1>6 DEF MaybeBucket
  <2>2. forgotten' \in [Clients -> Nat]
    BY <1>2, <1>3, EvictType
  <2> QED
    BY <1>2, <1>3, <1>5, <1>7, <2>1, <2>2 DEF TypeOK, SemaphoreTypes
<1>9. \A d \in Clients : BucketOK(bucket'[d], Cardinality(RunningOf(phase, client, d)))
  BY <1>1, <1>3, <1>4, <1>6, NoBucketAssumption DEF BucketOK
<1>10. Cardinality(Held(bucket')) <= MaxBuckets
  <2>1. Cardinality(Held([room EXCEPT ![c] = b])) <= MaxBuckets
    BY <1>1, <1>4, PutBounded
  <2> QED
    BY <1>3, <2>1
<1>11. CountersOK'
  <2>1. BucketsBounded'
    BY <1>10 DEF BucketsBounded
  <2>2. active' = Cardinality(Running(phase'))
    BY <1>2, <1>3, <1>7 DEF CountersOK
  <2> QED
    BY <1>7, <1>9, <2>1, <2>2 DEF CountersOK
<1> QED
  BY <1>7, <1>8, <1>11 DEF IInv

LEMMA RefuseFullKeeps ==
  ASSUME IInv, NEW r \in Requests,
         phase[r] = "taken", globalDay' = DayOf(now), now' = now, queue' = queue,
         RefuseFull(r)
  PROVE  IInv'
<1>1. TypeOK /\ SemaphoreTypes /\ SemaphoreOK /\ CountersOK
  BY DEF IInv, TypeOK, SemaphoreTypes
<1>2. /\ bucket' = Purged /\ globalCount' = GlobalToday /\ ReturnSlot(r)
      /\ UNCHANGED <<active, log, forgotten>>
  BY DEF RefuseFull
<1>3. now \in Nat /\ DayOf(now) \in Nat /\ GlobalToday \in 0..GlobalDayLimit
  BY <1>1, TodayType
<1>4. /\ Purged \in [Clients -> MaybeBucket]
      /\ \A d \in Clients : \/ Purged[d] = bucket[d]
                            \/ /\ bucket[d] \in Bucket /\ bucket[d].active = 0
                               /\ now - bucket[d].last >= Ttl
                               /\ Purged[d] = NoBucket
  BY <1>1, TodayType, PurgedIs
<1>5. /\ SemaphoreTypes' /\ SemaphoreOK'
      /\ Running(phase') = Running(phase)
      /\ \A d \in Clients : RunningOf(phase', client', d) = RunningOf(phase, client, d)
  BY <1>1, <1>2, NoBodyEnds
<1>6. TypeOK'
  BY <1>1, <1>2, <1>3, <1>4, <1>5 DEF TypeOK, SemaphoreTypes, MaybeBucket
<1>7. ASSUME NEW d \in Clients
      PROVE  BucketOK(Purged[d], Cardinality(RunningOf(phase, client, d)))
  <2>1. BucketOK(bucket[d], Cardinality(RunningOf(phase, client, d)))
    BY <1>1 DEF CountersOK
  <2> QED
    BY <1>4, <2>1, NoBucketAssumption DEF BucketOK
<1>8. BucketsBounded'
  <2>1. Held(Purged) \subseteq Held(bucket) /\ Held(bucket) \subseteq Clients
    BY <1>4, NoBucketAssumption DEF Held
  <2>2. IsFiniteSet(Held(bucket)) /\ Cardinality(Held(bucket)) \in Nat
    BY <2>1, SetsAssumption, FS_Subset, FS_CardinalityType
  <2>3. Cardinality(Held(Purged)) <= Cardinality(Held(bucket)) /\ Cardinality(Held(Purged)) \in Nat
    BY <2>1, <2>2, FS_Subset, FS_CardinalityType
  <2>4. Cardinality(Held(bucket)) <= MaxBuckets
    BY <1>1 DEF CountersOK, BucketsBounded
  <2> QED
    BY <1>2, <2>2, <2>3, <2>4, LimitsAssumption DEF BucketsBounded
<1>9. CountersOK'
  BY <1>1, <1>2, <1>5, <1>7, <1>8 DEF CountersOK
<1> QED
  BY <1>5, <1>6, <1>9 DEF IInv

LEMMA DecideKeeps ==
  ASSUME IInv, NEW r \in Requests, Decide(r)
  PROVE  IInv'
<1>1. /\ phase[r] = "taken" /\ globalDay' = DayOf(now) /\ now' = now /\ queue' = queue
      /\ \/ \E room \in RoomFor(Purged, client[r]) : Admit(r, room) \/ TurnDown(r, room)
         \/ RefuseFull(r)
  BY DecideIs
<1>2. CASE RefuseFull(r)
  BY <1>1, <1>2, RefuseFullKeeps
<1>3. CASE \E room \in RoomFor(Purged, client[r]) : Admit(r, room)
  BY <1>1, <1>3, AdmitKeeps
<1>4. CASE \E room \in RoomFor(Purged, client[r]) : TurnDown(r, room)
  BY <1>1, <1>4, RefuseKeeps
<1> QED
  BY <1>1, <1>2, <1>3, <1>4

\* A record with a bucket's fields is a bucket.
BucketFields == {"window", "day", "count", "last", "active"}

LEMMA BucketRecord ==
  ASSUME NEW y, y = [f \in BucketFields |-> y[f]],
         y.window \in Seq(Nat), y.day \in Nat, y.count \in Nat, y.last \in Nat, y.active \in Nat
  PROVE  y \in Bucket
<1>1. y = [window |-> y.window, day |-> y.day, count |-> y.count, last |-> y.last,
           active |-> y.active]
  BY DEF BucketFields
<1> QED
  BY <1>1 DEF Bucket

LEMMA FinishKeeps ==
  ASSUME IInv, NEW r \in Requests, Finish(r)
  PROVE  IInv'
<1> DEFINE c == client[r]
           n(d) == Cardinality(RunningOf(phase, client, d))
<1>1. TypeOK /\ SemaphoreTypes /\ SemaphoreOK /\ CountersOK
  BY DEF IInv, TypeOK, SemaphoreTypes
<1>2. /\ phase[r] = "body" /\ active' = OneLess(active) /\ ReturnSlot(r)
      /\ bucket' = IF bucket[c] = NoBucket THEN bucket
                   ELSE [bucket EXCEPT ![c].active = OneLess(@), ![c].last = now]
      /\ UNCHANGED <<now, queue, globalDay, globalCount, log, forgotten>>
  BY DEF Finish
<1>3. c \in Clients
  BY <1>1, <1>2 DEF TypeOK, SemaphoreOK, ClientsKnown
<1>4. /\ SemaphoreTypes' /\ SemaphoreOK'
      /\ \A q \in Requests : client'[q] = IF q = r THEN NoClient ELSE client[q]
      /\ \A q \in Requests : phase'[q] = "body" <=> phase[q] = "body" /\ q # r
  BY <1>1, <1>2, ReturnSlotKeeps
<1>5. /\ Cardinality(Running(phase)) \in Nat \ {0}
      /\ Cardinality(Running(phase')) = Cardinality(Running(phase)) - 1
      /\ \A d \in Clients : client[r] = d =>
           /\ Cardinality(RunningOf(phase, client, d)) \in Nat \ {0}
           /\ Cardinality(RunningOf(phase', client', d)) =
                Cardinality(RunningOf(phase, client, d)) - 1
      /\ \A d \in Clients : client[r] # d =>
           Cardinality(RunningOf(phase', client', d)) = Cardinality(RunningOf(phase, client, d))
  <2>1. phase \in [Requests -> Phases] /\ phase[r] = "body"
        /\ (\A q \in Requests : phase'[q] = "body" <=> phase[q] = "body" /\ q # r)
        /\ (\A q \in Requests : q # r => client'[q] = client[q])
    BY <1>1, <1>2, <1>4 DEF SemaphoreTypes
  <2> QED
    BY <2>1, LeaveBody
<1>6. bucket[c] \in Bucket /\ bucket[c] # NoBucket /\ bucket[c].active = n(c) /\ n(c) \in Nat \ {0}
  <2>1. BucketOK(bucket[c], n(c))
    BY <1>1, <1>3 DEF CountersOK
  <2>2. n(c) \in Nat \ {0}
    BY <1>3, <1>5
  <2> QED
    BY <1>1, <1>3, <2>1, <2>2 DEF BucketOK, TypeOK
<1> DEFINE b == [bucket[c] EXCEPT !.active = n(c) - 1, !.last = now]
<1>7. bucket' = [bucket EXCEPT ![c] = b]
  BY <1>2, <1>6 DEF OneLess
<1>8. now \in Nat
  BY <1>1, TodayType
<1>9. b \in Bucket /\ b.active = n(c) - 1
  <2>1. /\ b.window = bucket[c].window /\ b.day = bucket[c].day /\ b.count = bucket[c].count
        /\ b.last = now /\ b.active = n(c) - 1
    BY <1>6 DEF Bucket
  <2>2. b = [f \in BucketFields |-> b[f]]
    BY <1>6 DEF Bucket, BucketFields
  <2>3. bucket[c].window \in Seq(Nat) /\ bucket[c].day \in Nat /\ bucket[c].count \in Nat
    BY <1>6 DEF Bucket
  <2>4. n(c) - 1 \in Nat
    BY <1>6
  <2> HIDE DEF b, n
  <2> QED
    BY <1>8, <2>1, <2>2, <2>3, <2>4, BucketRecord
<1> HIDE DEF b
<1>10. bucket' \in [Clients -> Bucket \cup {NoBucket}]
  BY <1>1, <1>3, <1>7, <1>9 DEF TypeOK
<1>11. active' = Cardinality(Running(phase')) /\ active' \in Nat
  BY <1>1, <1>2, <1>5 DEF CountersOK, OneLess
<1>12. TypeOK'
  BY <1>1, <1>2, <1>4, <1>10, <1>11 DEF TypeOK, SemaphoreTypes
<1>13. ASSUME NEW d \in Clients
       PROVE  BucketOK(bucket'[d], Cardinality(RunningOf(phase', client', d)))
  <2>1. CASE d = c
    BY <1>1, <1>3, <1>5, <1>7, <1>9, <2>1, NoBucketAssumption DEF BucketOK, TypeOK
  <2>2. CASE d # c
    <3>1. bucket'[d] = bucket[d]
      BY <1>1, <1>7, <2>2 DEF TypeOK
    <3>2. Cardinality(RunningOf(phase', client', d)) = Cardinality(RunningOf(phase, client, d))
      BY <1>5, <2>2
    <3> QED
      BY <1>1, <3>1, <3>2 DEF CountersOK
  <2> QED
    BY <2>1, <2>2
<1>14. BucketsBounded'
  <2>1. Held(bucket') = Held(bucket)
    BY <1>1, <1>3, <1>6, <1>7, <1>9, NoBucketAssumption DEF Held, TypeOK
  <2> QED
    BY <1>1, <2>1 DEF CountersOK, BucketsBounded
<1> QED
  BY <1>4, <1>11, <1>12, <1>13, <1>14 DEF IInv, CountersOK

-----------------------------------------------------------------------------
(* The theorems *)

LEMMA TickKeeps ==
  ASSUME IInv, Tick
  PROVE  IInv'
<1>1. TypeOK'
  BY LimitsAssumption DEF IInv, TypeOK, Tick, semaphore, counters
<1>2. SemaphoreOK'
  BY DEF IInv, SemaphoreOK, ClientsKnown, Tick, semaphore
<1>3. CountersOK'
  BY DEF IInv, CountersOK, BucketsBounded, Held, Tick, counters
<1> QED
  BY <1>1, <1>2, <1>3 DEF IInv

LEMMA StutterKeeps ==
  ASSUME IInv, UNCHANGED vars
  PROVE  IInv'
<1>1. TypeOK'
  BY DEF IInv, TypeOK, vars
<1>2. SemaphoreOK'
  BY DEF IInv, SemaphoreOK, ClientsKnown, vars
<1>3. CountersOK'
  BY DEF IInv, CountersOK, BucketsBounded, Held, vars
<1> QED
  BY <1>1, <1>2, <1>3 DEF IInv

LEMMA InitIInv == Init => IInv
<1> SUFFICES ASSUME Init PROVE IInv
  OBVIOUS
<1>1. TypeOK
  BY SlotsAssumption, LimitsAssumption DEF Init, TypeOK, Phases
<1>2. Holding(phase) = {} /\ Running(phase) = {} /\ \A c \in Clients : RunningOf(phase, client, c) = {}
  BY DEF Init, Holding, Running, RunningOf
<1>3. Cardinality({}) = 0
  BY FS_EmptySet
<1>4. SemaphoreOK
  <2>1. ClientsKnown
    BY DEF Init, ClientsKnown
  <2>2. QueueOK(queue, phase) /\ HandOver(free, queue, phase)
    BY DEF Init, QueueOK, HandOver, Unserved
  <2>3. free + Cardinality(Holding(phase)) = Slots
    <3>1. Cardinality(Holding(phase)) = 0 /\ free = Slots
      BY <1>2, <1>3 DEF Init
    <3> QED
      BY <3>1, SlotsAssumption
  <2> QED
    BY <2>1, <2>2, <2>3 DEF SemaphoreOK
<1>5. CountersOK
  <2>1. active = Cardinality(Running(phase))
    BY <1>2, <1>3 DEF Init
  <2>2. \A c \in Clients : BucketOK(bucket[c], Cardinality(RunningOf(phase, client, c)))
    BY <1>2, <1>3 DEF Init, BucketOK
  <2>3. BucketsBounded
    <3>1. Held(bucket) = {}
      BY DEF Held, Init
    <3> QED
      BY <1>3, <3>1, LimitsAssumption DEF BucketsBounded
  <2> QED
    BY <2>1, <2>2, <2>3 DEF CountersOK
<1> QED
  BY <1>1, <1>4, <1>5 DEF IInv

LEMMA StepIInv == IInv /\ [Next]_vars => IInv'
<1> SUFFICES ASSUME IInv, [Next]_vars PROVE IInv'
  OBVIOUS
<1>1. CASE Tick
  BY <1>1, TickKeeps
<1>2. CASE UNCHANGED vars
  BY <1>2, StutterKeeps
<1>3. ASSUME NEW r \in Requests, Step(r) PROVE IInv'
  <2>1. CASE \E c \in Clients : Ask(r, c)
    BY <2>1, AskKeeps
  <2>2. CASE Acquire(r)
    BY <2>2, AcquireKeeps
  <2>3. CASE TakeSlot(r)
    BY <2>3, TakeSlotKeeps
  <2>4. CASE GiveUp(r)
    BY <2>4, GiveUpKeeps
  <2>5. CASE Decide(r)
    BY <2>5, DecideKeeps
  <2>6. CASE Finish(r)
    BY <2>6, FinishKeeps
  <2> QED
    BY <1>3, <2>1, <2>2, <2>3, <2>4, <2>5, <2>6 DEF Step
<1> QED
  BY <1>1, <1>2, <1>3 DEF Next

\* The invariant the theorems below read off.
THEOREM Inductive == Spec => []IInv
BY InitIInv, StepIInv, PTL DEF Spec

\* The protector's variables keep their types; in particular the semaphore's
\* value is never negative and never above its initial value, and the day's
\* count never exceeds its limit.
THEOREM TypeCorrect == Spec => []TypeOK
<1>1. IInv => TypeOK
  BY DEF IInv
<1> QED
  BY <1>1, Inductive, PTL

\* Every slot is free or with exactly one request, for any number of requests
\* and slots: no timeout, refusal or cancellation, at whatever moment of the
\* hand-over, loses or doubles one.
THEOREM Conserved == Spec => []SlotsConserved
<1>1. IInv => SlotsConserved
  <2>1. InPhase({"granted", "taken", "body"}) = Holding(phase)
    BY DEF InPhase, Holding
  <2> QED
    BY <2>1 DEF IInv, SemaphoreOK, SlotsConserved
<1> QED
  BY <1>1, Inductive, PTL

\* The counts of attempts in progress are exact, so the floor at zero never
\* hides a miscount and no bucket in use is ever purged or evicted.
THEOREM Exact == Spec => []ActiveExact
<1>1. IInv => ActiveExact
  <2> SUFFICES ASSUME IInv PROVE ActiveExact
    OBVIOUS
  <2>1. InPhase({"body"}) = Running(phase)
    BY DEF InPhase, Running
  <2>2. \A c : {r \in InPhase({"body"}) : client[r] = c} = RunningOf(phase, client, c)
    BY DEF InPhase, RunningOf
  <2>3. /\ active = Cardinality(Running(phase))
        /\ \A c \in Clients : BucketOK(bucket[c], Cardinality(RunningOf(phase, client, c)))
    BY DEF IInv, CountersOK
  <2> QED
    BY <2>1, <2>2, <2>3 DEF ActiveExact, BucketOK
<1> QED
  BY <1>1, Inductive, PTL

\* The map of buckets never outgrows its bound: every new bucket has had room
\* made for it.
THEOREM MapBounded == Spec => []BucketsBounded
<1>1. IInv => BucketsBounded
  BY DEF IInv, CountersOK
<1> QED
  BY <1>1, Inductive, PTL

\* No wake-up is lost: while a slot is free and a request waits in the queue,
\* some request has been granted a slot and has yet to run, and will wake the
\* next when it does.
THEOREM WakeUpKept == Spec => [](HandOver(free, queue, phase))
<1>1. IInv => HandOver(free, queue, phase)
  BY DEF IInv, SemaphoreOK
<1> QED
  BY <1>1, Inductive, PTL

-----------------------------------------------------------------------------
(* The limits.  Their inductive invariant: what the counters know of the history *)

\* Since and OnDay, of any history.
SinceIn(lg, A, t) == {i \in A : lg[i][2] >= t}
OnDayIn(lg, A, d) == {i \in A : DayOf(lg[i][2]) = d}
AttemptsIn(lg, fg, c) == {i \in (fg[c] + 1)..Len(lg) : lg[i][1] = c}

\* A set of admissions that lie in the past.
Past(lg, A, n) == IsFiniteSet(A) /\ \A i \in A : lg[i][2] \in Nat /\ lg[i][2] <= n

\* A bucket's window counts the attempts of set A made since any time inside
\* the window, except those of a first part that is older than that time.
WindowKnows(w, A, lg, n) ==
  \A t \in Nat, k \in 0..Len(w) :
    (t > n - Window /\ \A i \in 1..k : w[i] < t) => Cardinality(SinceIn(lg, A, t)) <= Len(w) - k

\* What a bucket knows of the attempts A of its client at time n.  A client
\* without a bucket has made none for a bucket's lifetime.
Knows(b, A, lg, n) ==
  IF b = NoBucket
    THEN \A i \in A : lg[i][2] + Ttl <= n
    ELSE /\ b.last <= n /\ b.day <= DayOf(n)
         /\ \A i \in A : lg[i][2] <= b.last /\ DayOf(lg[i][2]) <= b.day
         /\ Cardinality(OnDayIn(lg, A, b.day)) <= b.count
         /\ WindowKnows(b.window, A, lg, n)

WithinLimits(A, lg) ==
  /\ \A t \in Nat : Cardinality(SinceIn(lg, A, t) \ SinceIn(lg, A, t + Window)) <= WindowLimit
  /\ \A d \in Nat : Cardinality(OnDayIn(lg, A, d)) <= DayLimit

\* The same for the counter of all clients.
GlobalKnows(day, count, lg, n) ==
  /\ day <= DayOf(n)
  /\ Past(lg, 1..Len(lg), n)
  /\ \A i \in 1..Len(lg) : DayOf(lg[i][2]) <= day
  /\ Cardinality(OnDayIn(lg, 1..Len(lg), day)) <= count
  /\ \A d \in Nat : Cardinality(OnDayIn(lg, 1..Len(lg), d)) <= GlobalDayLimit

LInv ==
  /\ GlobalKnows(globalDay, globalCount, log, now)
  /\ \A c \in Clients :
       /\ forgotten[c] <= Len(log)
       /\ Knows(bucket[c], AttemptsIn(log, forgotten, c), log, now)
       /\ WithinLimits(AttemptsIn(log, forgotten, c), log)

-----------------------------------------------------------------------------
(* Facts about days and sets of admissions *)

LEMMA DaysGrow ==
  ASSUME NEW a \in Nat, NEW b \in Nat
  PROVE  /\ a <= b => DayOf(a) <= DayOf(b)
         /\ a + DayTicks <= b => DayOf(a) < DayOf(b)
         /\ DayOf(a) \in Nat
<1>1. DayTicks \in Nat \ {0} /\ Dawn \in Nat
  BY LimitsAssumption
<1>2. DayOf(a) \in Nat
  BY DayIsNat
<1>3. a <= b => DayOf(a) <= DayOf(b)
  BY <1>1 DEF DayOf
<1>4. a + DayTicks <= b => DayOf(a) < DayOf(b)
  BY <1>1 DEF DayOf
<1> QED
  BY <1>2, <1>3, <1>4

\* A part of a finite set of admissions grows by at most one.
LEMMA Grown ==
  ASSUME NEW A, IsFiniteSet(A), NEW x, NEW B \in SUBSET A, NEW C, C = B \cup {x}
  PROVE  /\ Cardinality(B) \in Nat /\ Cardinality(C) \in Nat
         /\ Cardinality(C) <= Cardinality(B) + 1
<1>1. IsFiniteSet(B) /\ Cardinality(B) \in Nat
  BY FS_Subset, FS_CardinalityType
<1>2. Cardinality(B \cup {x}) = IF x \in B THEN Cardinality(B) ELSE Cardinality(B) + 1
  BY <1>1, FS_AddElement
<1>3. Cardinality(C) = IF x \in B THEN Cardinality(B) ELSE Cardinality(B) + 1
  BY <1>2
<1> QED
  BY <1>1, <1>3

\* What a history says of the admissions it already holds does not change when
\* one is added.
LEMMA Extended ==
  ASSUME NEW lg \in Seq(Clients \X Nat), NEW e \in Clients \X Nat, NEW A \in SUBSET (1..Len(lg))
  PROVE  /\ \A i \in A : Append(lg, e)[i] = lg[i]
         /\ \A t : SinceIn(Append(lg, e), A, t) = SinceIn(lg, A, t)
         /\ \A d : OnDayIn(Append(lg, e), A, d) = OnDayIn(lg, A, d)
<1>1. \A i \in A : Append(lg, e)[i] = lg[i]
  OBVIOUS
<1> QED
  BY <1>1 DEF SinceIn, OnDayIn

-----------------------------------------------------------------------------
(* What happens to a client's bucket *)

\* Time passes.
LEMMA KnowsLater ==
  ASSUME NEW b \in MaybeBucket, NEW A, NEW lg, NEW n \in Nat, NEW m \in Nat, n <= m,
         Past(lg, A, n), Knows(b, A, lg, n)
  PROVE  Past(lg, A, m) /\ Knows(b, A, lg, m)
<1>1. Past(lg, A, m)
  BY DEF Past
<1>2. CASE b = NoBucket
  BY <1>1, <1>2, TtlAssumption DEF Knows, Past
<1>3. CASE b # NoBucket
  <2>1. b \in Bucket
    BY <1>3 DEF MaybeBucket
  <2>2. DayOf(n) <= DayOf(m) /\ DayOf(n) \in Nat /\ DayOf(m) \in Nat
    BY DaysGrow
  <2>3. WindowKnows(b.window, A, lg, m)
    <3>1. WindowKnows(b.window, A, lg, n)
      BY <1>3 DEF Knows
    <3>2. \A t \in Nat : t > m - Window => t > n - Window
      BY LimitsAssumption
    <3> QED
      BY <3>1, <3>2 DEF WindowKnows
  <2>4. b.last <= m /\ b.day <= DayOf(m)
    BY <1>3, <2>1, <2>2 DEF Knows, Bucket
  <2> QED
    BY <1>1, <1>3, <2>3, <2>4 DEF Knows
<1> QED
  BY <1>2, <1>3

\* The bucket of a client that made no attempt for a bucket's lifetime expires.
LEMMA KnowsExpired ==
  ASSUME NEW b \in Bucket, NEW A, NEW lg, NEW n \in Nat, Past(lg, A, n),
         Knows(b, A, lg, n), n - b.last >= Ttl
  PROVE  Knows(NoBucket, A, lg, n)
<1>1. b # NoBucket
  BY NoBucketAssumption
<1>2. \A i \in A : lg[i][2] <= b.last /\ lg[i][2] \in Nat
  BY <1>1 DEF Knows, Past
<1>3. b.last \in Nat
  BY DEF Bucket
<1> QED
  BY <1>2, <1>3, TtlAssumption DEF Knows

\* A bucket that is looked up, old or new, rolled to this day and pruned.
KnowsToday(b, A, lg) ==
  /\ b.day = DayOf(now) /\ b.last <= now
  /\ \A i \in A : lg[i][2] <= b.last
  /\ Cardinality(OnDayIn(lg, A, DayOf(now))) <= b.count
  /\ WindowKnows(b.window, A, lg, now)

\* A new bucket knows all there is to know of a client that had none: whatever
\* was admitted lies outside the window, and on an earlier day.
LEMMA NewKnows ==
  ASSUME now \in Nat, NEW A, NEW lg, Past(lg, A, now), Knows(NoBucket, A, lg, now)
  PROVE  NewBucket \in Bucket /\ Knows(NewBucket, A, lg, now)
<1>1. DayOf(now) \in Nat
  BY DayIsNat
<1>2. /\ NewBucket \in Bucket /\ NewBucket # NoBucket
      /\ NewBucket.last = now /\ NewBucket.day = DayOf(now) /\ NewBucket.count = 0
      /\ NewBucket.window = << >>
  <2>1. << >> \in Seq(Nat) /\ 0 \in Nat
    OBVIOUS
  <2>2. NewBucket \in Bucket
    BY <1>1, <2>1 DEF NewBucket, Bucket
  <2> QED
    BY <2>2, NoBucketAssumption DEF NewBucket
<1>3. \A i \in A : /\ lg[i][2] \in Nat /\ lg[i][2] <= now
                   /\ lg[i][2] <= now - Window /\ DayOf(lg[i][2]) < DayOf(now)
  <2>1. \A i \in A : lg[i][2] \in Nat /\ lg[i][2] <= now /\ lg[i][2] + Ttl <= now
    BY DEF Knows, Past
  <2>2. DayTicks \in Nat /\ Window \in Nat
    BY LimitsAssumption
  <2>3. \A i \in A : lg[i][2] + DayTicks <= now /\ lg[i][2] <= now - Window
    BY <2>1, <2>2, TtlAssumption
  <2> QED
    BY <2>1, <2>3, DaysGrow
<1>4. Cardinality({}) = 0
  BY FS_EmptySet
<1>5. Cardinality(OnDayIn(lg, A, NewBucket.day)) <= NewBucket.count
  <2>1. \A i \in A : DayOf(lg[i][2]) \in Nat
    BY <1>3, DayIsNat
  <2>2. OnDayIn(lg, A, DayOf(now)) = {}
    BY <1>1, <1>3, <2>1 DEF OnDayIn
  <2> QED
    BY <1>2, <1>4, <2>2
<1>6. WindowKnows(NewBucket.window, A, lg, now)
  <2>1. ASSUME NEW t \in Nat, t > now - Window
        PROVE  SinceIn(lg, A, t) = {}
    BY <1>3, <2>1, LimitsAssumption DEF SinceIn
  <2>2. Len(NewBucket.window) = 0
    BY <1>2
  <2>3. ASSUME NEW t \in Nat, NEW k \in 0..Len(NewBucket.window), t > now - Window
        PROVE  Cardinality(SinceIn(lg, A, t)) <= Len(NewBucket.window) - k
    <3>1. SinceIn(lg, A, t) = {}
      BY <2>1, <2>3
    <3> QED
      BY <1>4, <2>2, <3>1
  <2> QED
    BY <2>3 DEF WindowKnows
<1>7. \A i \in A : lg[i][2] <= NewBucket.last /\ DayOf(lg[i][2]) <= NewBucket.day
  <2>1. \A i \in A : DayOf(lg[i][2]) \in Nat
    BY <1>3, DayIsNat
  <2>2. \A i \in A : DayOf(lg[i][2]) <= DayOf(now)
    BY <1>1, <1>3, <2>1
  <2> QED
    BY <1>2, <1>3, <2>2
<1> QED
  BY <1>1, <1>2, <1>5, <1>6, <1>7 DEF Knows

\* Pruning the window forgets only what lies outside it.
LEMMA RecentKnows ==
  ASSUME now \in Nat, NEW w \in Seq(Nat), NEW A, NEW lg, WindowKnows(w, A, lg, now)
  PROVE  WindowKnows(Recent(w), A, lg, now)
<1>1. PICK n \in 0..Len(w) :
        /\ Recent(w) = SubSeq(w, n + 1, Len(w))
        /\ \A i \in 1..n : w[i] <= now - Window
  BY RecentIs
<1>2. /\ Len(Recent(w)) = Len(w) - n
      /\ \A i \in 1..(Len(w) - n) : Recent(w)[i] = w[n + i]
  <2>1. \A i \in (n + 1)..Len(w) : w[i] \in Nat
    OBVIOUS
  <2> QED
    BY <1>1, <2>1, SubSeqProperties
<1>3. ASSUME NEW t \in Nat, NEW k \in 0..Len(Recent(w)),
             t > now - Window, \A i \in 1..k : Recent(w)[i] < t
      PROVE  Cardinality(SinceIn(lg, A, t)) <= Len(Recent(w)) - k
  <2>1. n + k \in 0..Len(w)
    BY <1>2
  <2>2. ASSUME NEW i \in 1..(n + k)
        PROVE  w[i] < t
    <3>1. CASE i <= n
      <4>1. w[i] <= now - Window /\ w[i] \in Nat
        BY <1>1, <2>1, <3>1
      <4> QED
        BY <1>3, <4>1, LimitsAssumption
    <3>2. CASE i > n
      <4> DEFINE j == i - n
      <4>1. k \in Nat /\ n \in Nat /\ k <= Len(w) - n /\ Len(w) \in Nat
        BY <1>2, <2>1
      <4>2. j \in 1..k /\ j \in 1..(Len(w) - n) /\ n + j = i
        BY <3>2, <4>1
      <4> HIDE DEF j
      <4>3. j \in 1..k /\ w[i] = Recent(w)[j]
        BY <1>2, <4>2
      <4> QED
        BY <1>3, <4>3
    <3> QED
      BY <3>1, <3>2
  <2>3. Cardinality(SinceIn(lg, A, t)) <= Len(w) - (n + k)
    BY <1>3, <2>1, <2>2 DEF WindowKnows
  <2>4. Len(w) - (n + k) = Len(Recent(w)) - k
    BY <1>2, <2>1
  <2> QED
    BY <2>3, <2>4
<1> QED
  BY <1>3 DEF WindowKnows

LEMMA RolledKnows ==
  ASSUME now \in Nat, NEW room \in [Clients -> MaybeBucket], NEW c \in Clients, NEW A, NEW lg,
         Past(lg, A, now), Knows(room[c], A, lg, now)
  PROVE  KnowsToday(Bucket2(room, c), A, lg)
<1> DEFINE x == IF room[c] = NoBucket THEN NewBucket ELSE room[c]
           b == Bucket2(room, c)
<1>1. x \in Bucket /\ x # NoBucket /\ Knows(x, A, lg, now)
  BY NewKnows, NoBucketAssumption DEF MaybeBucket
<1>2. b = Rolled(x)
  BY DEF Bucket2
<1> HIDE DEF x, b
<1>3. /\ x.last \in Nat /\ x.day \in Nat /\ x.count \in Nat /\ x.window \in Seq(Nat)
      /\ b.last = x.last /\ b.day = DayOf(now) /\ b.window = Recent(x.window)
      /\ b.count = IF x.day = DayOf(now) THEN x.count ELSE 0
  BY <1>1, <1>2 DEF Rolled, Bucket
<1>4. /\ x.last <= now /\ x.day <= DayOf(now)
      /\ \A i \in A : lg[i][2] <= x.last /\ DayOf(lg[i][2]) <= x.day
      /\ Cardinality(OnDayIn(lg, A, x.day)) <= x.count
      /\ WindowKnows(x.window, A, lg, now)
  BY <1>1 DEF Knows
<1>5. Cardinality(OnDayIn(lg, A, DayOf(now))) <= b.count
  <2>1. CASE x.day = DayOf(now)
    BY <1>3, <1>4, <2>1
  <2>2. CASE x.day # DayOf(now)
    <3>1. DayOf(now) \in Nat /\ \A i \in A : DayOf(lg[i][2]) \in Nat
      BY DayIsNat DEF Past
    <3>2. OnDayIn(lg, A, DayOf(now)) = {}
      BY <1>3, <1>4, <2>2, <3>1 DEF OnDayIn
    <3>3. Cardinality({}) = 0
      BY FS_EmptySet
    <3> QED
      BY <1>3, <2>2, <3>2, <3>3
  <2> QED
    BY <2>1, <2>2
<1>6. WindowKnows(b.window, A, lg, now)
  BY <1>3, <1>4, RecentKnows
<1> QED
  BY <1>3, <1>4, <1>5, <1>6 DEF KnowsToday, b

\* What a bucket knows today it knows.
LEMMA TodayKnows ==
  ASSUME now \in Nat, NEW b \in Bucket, NEW A, NEW lg, Past(lg, A, now), KnowsToday(b, A, lg)
  PROVE  Knows(b, A, lg, now)
<1>1. b # NoBucket /\ b.last \in Nat /\ b.day \in Nat
  BY NoBucketAssumption DEF Bucket
<1>2. \A i \in A : DayOf(lg[i][2]) <= DayOf(now)
  BY DaysGrow DEF Past
<1> QED
  BY <1>1, <1>2 DEF Knows, KnowsToday

-----------------------------------------------------------------------------
(* An attempt is admitted *)

\* An admission `new`, made now, is added to the history lg and the set A.
Added(lg, A, lg2, A2, new) ==
  /\ new \notin A /\ A2 = A \cup {new}
  /\ \A i \in A : lg2[i] = lg[i]
  /\ lg2[new][2] = now
  /\ Past(lg2, A2, now)

LEMMA AddedIs ==
  ASSUME now \in Nat, NEW lg \in Seq(Clients \X Nat), NEW c \in Clients,
         NEW A \in SUBSET (1..Len(lg)), Past(lg, A, now)
  PROVE  Added(lg, A, Append(lg, <<c, now>>), A \cup {Len(lg) + 1}, Len(lg) + 1)
<1> DEFINE lg2 == Append(lg, <<c, now>>)
           new == Len(lg) + 1
           A2  == A \cup {new}
<1>1. new \notin A
  <2>1. Len(lg) \in Nat
    OBVIOUS
  <2>2. new \notin 1..Len(lg)
    BY <2>1
  <2> QED
    BY <2>2
<1>2. \A i \in A : lg2[i] = lg[i]
  OBVIOUS
<1>3. lg2[new] = <<c, now>>
  OBVIOUS
<1>4. lg2[new][2] = now
  BY <1>3
<1>5. IsFiniteSet(A2)
  BY FS_AddElement DEF Past
<1> HIDE DEF lg2, new
<1>6. ASSUME NEW i \in A2
      PROVE  lg2[i][2] \in Nat /\ lg2[i][2] <= now
  <2>1. CASE i = new
    BY <1>4, <2>1
  <2>2. CASE i \in A
    <3>1. lg2[i] = lg[i]
      BY <1>2, <2>2
    <3>2. lg[i][2] \in Nat /\ lg[i][2] <= now
      BY <2>2 DEF Past
    <3> QED
      BY <3>1, <3>2
  <2> QED
    BY <2>1, <2>2
<1>7. Past(lg2, A2, now)
  BY <1>5, <1>6 DEF Past
<1> QED
  BY <1>1, <1>2, <1>4, <1>7 DEF Added, lg2, new

\* It counts among those made since any time not later than now, and on this day.
LEMMA AddedCounts ==
  ASSUME now \in Nat, NEW lg, NEW A, NEW lg2, NEW A2, NEW new,
         Past(lg, A, now), Added(lg, A, lg2, A2, new)
  PROVE  /\ \A t \in Nat : t <= now => SinceIn(lg2, A2, t) = SinceIn(lg, A, t) \cup {new}
         /\ \A t \in Nat : t > now => SinceIn(lg2, A2, t) = {}
         /\ OnDayIn(lg2, A2, DayOf(now)) = OnDayIn(lg, A, DayOf(now)) \cup {new}
         /\ \A d \in Nat : d # DayOf(now) => OnDayIn(lg2, A2, d) = OnDayIn(lg, A, d)
<1>1. /\ \A i \in A : lg2[i] = lg[i]
      /\ lg2[new][2] = now
      /\ A2 = A \cup {new}
      /\ \A i \in A2 : lg2[i][2] \in Nat /\ lg2[i][2] <= now
  BY DEF Added, Past
<1>2. ASSUME NEW t \in Nat, t <= now
      PROVE  SinceIn(lg2, A2, t) = SinceIn(lg, A, t) \cup {new}
  BY <1>1, <1>2 DEF SinceIn
<1>3. ASSUME NEW t \in Nat, t > now
      PROVE  SinceIn(lg2, A2, t) = {}
  <2>1. \A i \in A2 : ~(lg2[i][2] >= t)
    BY <1>1, <1>3
  <2> QED
    BY <2>1 DEF SinceIn
<1>4. OnDayIn(lg2, A2, DayOf(now)) = OnDayIn(lg, A, DayOf(now)) \cup {new}
  BY <1>1 DEF OnDayIn
<1>5. \A d \in Nat : d # DayOf(now) => OnDayIn(lg2, A2, d) = OnDayIn(lg, A, d)
  BY <1>1 DEF OnDayIn
<1> QED
  BY <1>2, <1>3, <1>4, <1>5

\* The client's bucket counts it.
LEMMA CountedKnows ==
  ASSUME now \in Nat, NEW b \in Bucket, Counted(b) \in Bucket,
         NEW lg \in Seq(Clients \X Nat), NEW c \in Clients,
         NEW A \in SUBSET (1..Len(lg)), Past(lg, A, now), KnowsToday(b, A, lg)
  PROVE  Knows(Counted(b), A \cup {Len(lg) + 1}, Append(lg, <<c, now>>), now)
<1> DEFINE lg2 == Append(lg, <<c, now>>)
           new == Len(lg) + 1
           A2  == A \cup {new}
           y   == Counted(b)
<1>1. Added(lg, A, lg2, A2, new)
  BY AddedIs
<1>2. /\ \A t \in Nat : t <= now => SinceIn(lg2, A2, t) = SinceIn(lg, A, t) \cup {new}
      /\ \A t \in Nat : t > now => SinceIn(lg2, A2, t) = {}
      /\ OnDayIn(lg2, A2, DayOf(now)) = OnDayIn(lg, A, DayOf(now)) \cup {new}
      /\ \A d \in Nat : d # DayOf(now) => OnDayIn(lg2, A2, d) = OnDayIn(lg, A, d)
  <2> HIDE DEF lg2, new, A2
  <2> QED
    BY <1>1, AddedCounts
<1>3. IsFiniteSet(A)
  BY DEF Past
<1>4. /\ y.window = Append(b.window, now) /\ y.day = b.day /\ y.count = b.count + 1
      /\ y.last = now /\ y # NoBucket
      /\ b.window \in Seq(Nat) /\ b.count \in Nat
  BY NoBucketAssumption DEF Counted, Bucket
<1>5. /\ b.day = DayOf(now)
      /\ Cardinality(OnDayIn(lg, A, DayOf(now))) <= b.count
      /\ WindowKnows(b.window, A, lg, now)
  BY DEF KnowsToday
<1>6. DayOf(now) \in Nat
  BY DayIsNat
<1> HIDE DEF lg2, new, y, A2
<1>7. Cardinality(OnDayIn(lg2, A2, y.day)) <= y.count
  <2>1. OnDayIn(lg, A, DayOf(now)) \in SUBSET A
    BY DEF OnDayIn
  <2>2. OnDayIn(lg2, A2, y.day) = OnDayIn(lg, A, DayOf(now)) \cup {new}
    BY <1>2, <1>4, <1>5
  <2>3. /\ Cardinality(OnDayIn(lg, A, DayOf(now))) \in Nat
        /\ Cardinality(OnDayIn(lg2, A2, y.day)) \in Nat
        /\ Cardinality(OnDayIn(lg2, A2, y.day)) <= Cardinality(OnDayIn(lg, A, DayOf(now))) + 1
    BY <1>3, <2>1, <2>2, Grown
  <2> QED
    BY <1>4, <1>5, <2>3
<1>8. ASSUME NEW t \in Nat, NEW k \in 0..Len(y.window),
             t > now - Window, \A i \in 1..k : y.window[i] < t
      PROVE  Cardinality(SinceIn(lg2, A2, t)) <= Len(y.window) - k
  <2>1. /\ Len(y.window) = Len(b.window) + 1 /\ Len(b.window) \in Nat
        /\ \A i \in 1..Len(b.window) : y.window[i] = b.window[i]
        /\ y.window[Len(b.window) + 1] = now
    BY <1>4
  <2>2. CASE t <= now
    <3>1. k \in 0..Len(b.window)
      <4>1. CASE k = Len(b.window) + 1
        <5>1. y.window[k] < t /\ y.window[k] = now
          BY <1>8, <2>1, <4>1
        <5> QED
          BY <2>2, <5>1
      <4> QED
        BY <2>1, <4>1
    <3>2. ASSUME NEW i \in 1..k
          PROVE  b.window[i] < t
      <4>1. i \in 1..Len(b.window)
        BY <2>1, <3>1
      <4> QED
        BY <1>8, <2>1, <4>1
    <3>3. Cardinality(SinceIn(lg, A, t)) <= Len(b.window) - k
      BY <1>5, <1>8, <3>1, <3>2 DEF WindowKnows
    <3>4. SinceIn(lg, A, t) \in SUBSET A
      BY DEF SinceIn
    <3>5. SinceIn(lg2, A2, t) = SinceIn(lg, A, t) \cup {new}
      BY <1>2, <2>2
    <3>6. /\ Cardinality(SinceIn(lg, A, t)) \in Nat
          /\ Cardinality(SinceIn(lg2, A2, t)) \in Nat
          /\ Cardinality(SinceIn(lg2, A2, t)) <= Cardinality(SinceIn(lg, A, t)) + 1
      BY <1>3, <3>4, <3>5, Grown
    <3> QED
      BY <2>1, <3>1, <3>3, <3>6
  <2>3. CASE t > now
    <3>1. SinceIn(lg2, A2, t) = {}
      BY <1>2, <2>3
    <3> QED
      BY <2>1, <3>1, FS_EmptySet
  <2> QED
    BY <2>2, <2>3
<1>9. \A i \in A2 : lg2[i][2] <= y.last /\ DayOf(lg2[i][2]) <= y.day
  <2>1. \A i \in A2 : lg2[i][2] \in Nat /\ lg2[i][2] <= now
    BY <1>1 DEF Past, Added
  <2> QED
    BY <1>4, <1>5, <2>1, DaysGrow
<1>10. WindowKnows(y.window, A2, lg2, now)
  BY <1>8 DEF WindowKnows
<1>11. y.last <= now /\ y.day <= DayOf(now)
  BY <1>4, <1>5, <1>6
<1> QED
  BY <1>4, <1>7, <1>9, <1>10, <1>11 DEF Knows, lg2, new, y, A2

\* The client was below its limits, so it still keeps them.
LEMMA AllowedWithin ==
  ASSUME now \in Nat, NEW b \in Bucket,
         NEW lg \in Seq(Clients \X Nat), NEW c \in Clients,
         NEW A \in SUBSET (1..Len(lg)), Past(lg, A, now), KnowsToday(b, A, lg),
         Len(b.window) < WindowLimit, b.count < DayLimit, WithinLimits(A, lg)
  PROVE  WithinLimits(A \cup {Len(lg) + 1}, Append(lg, <<c, now>>))
<1> DEFINE lg2 == Append(lg, <<c, now>>)
           new == Len(lg) + 1
           A2  == A \cup {new}
<1>1. Added(lg, A, lg2, A2, new)
  BY AddedIs
<1>2. /\ \A t \in Nat : t <= now => SinceIn(lg2, A2, t) = SinceIn(lg, A, t) \cup {new}
      /\ \A t \in Nat : t > now => SinceIn(lg2, A2, t) = {}
      /\ OnDayIn(lg2, A2, DayOf(now)) = OnDayIn(lg, A, DayOf(now)) \cup {new}
      /\ \A d \in Nat : d # DayOf(now) => OnDayIn(lg2, A2, d) = OnDayIn(lg, A, d)
  <2> HIDE DEF lg2, new, A2
  <2> QED
    BY <1>1, AddedCounts
<1>3. IsFiniteSet(A)
  BY DEF Past
<1>4. Window \in Nat \ {0} /\ WindowLimit \in Nat /\ DayLimit \in Nat
  BY LimitsAssumption
<1>5. b.window \in Seq(Nat) /\ b.count \in Nat /\ Len(b.window) \in Nat
  BY DEF Bucket
<1>6. \A t \in Nat : SinceIn(lg, A, t) \in SUBSET A
  BY DEF SinceIn
<1>7. \A d \in Nat : OnDayIn(lg, A, d) \in SUBSET A
  BY DEF OnDayIn
<1> HIDE DEF lg2, new, A2
<1>8. ASSUME NEW t \in Nat
      PROVE  Cardinality(SinceIn(lg2, A2, t) \ SinceIn(lg2, A2, t + Window)) <= WindowLimit
  <2>1. t + Window \in Nat
    BY <1>4
  <2>2. CASE t > now - Window /\ t <= now
    <3>1. /\ SinceIn(lg2, A2, t) = SinceIn(lg, A, t) \cup {new}
          /\ SinceIn(lg2, A2, t + Window) = {}
      BY <1>2, <1>4, <2>1, <2>2
    <3> DEFINE made == SinceIn(lg2, A2, t) \ SinceIn(lg2, A2, t + Window)
    <3>2. made = SinceIn(lg, A, t) \cup {new}
      BY <3>1
    <3>3. Cardinality(SinceIn(lg, A, t)) <= Len(b.window) - 0
      <4>1. WindowKnows(b.window, A, lg, now)
        BY DEF KnowsToday
      <4>2. 0 \in 0..Len(b.window) /\ \A i \in 1..0 : b.window[i] < t
        BY <1>5
      <4> QED
        BY <2>2, <4>1, <4>2 DEF WindowKnows
    <3> HIDE DEF made
    <3>4. /\ Cardinality(SinceIn(lg, A, t)) \in Nat
          /\ Cardinality(made) \in Nat
          /\ Cardinality(made) <= Cardinality(SinceIn(lg, A, t)) + 1
      BY <1>3, <1>6, <3>2, Grown
    <3>5. Cardinality(made) <= WindowLimit
      BY <1>4, <1>5, <3>3, <3>4
    <3> QED
      BY <3>5 DEF made
  <2>3. CASE t <= now - Window
    <3>1. t <= now /\ t + Window <= now
      BY <1>4, <2>3
    <3>2. /\ SinceIn(lg2, A2, t) = SinceIn(lg, A, t) \cup {new}
           /\ SinceIn(lg2, A2, t + Window) = SinceIn(lg, A, t + Window) \cup {new}
           /\ new \notin SinceIn(lg, A, t)
      BY <1>2, <1>6, <1>1, <2>1, <3>1 DEF Added
    <3> DEFINE made == SinceIn(lg2, A2, t) \ SinceIn(lg2, A2, t + Window)
               old  == SinceIn(lg, A, t) \ SinceIn(lg, A, t + Window)
    <3>3. made = old
      BY <3>2
    <3>4. Cardinality(old) <= WindowLimit
      BY DEF WithinLimits
    <3>5. Cardinality(made) <= WindowLimit
      <4> HIDE DEF made, old
      <4> QED
        BY <3>3, <3>4
    <3> QED
      BY <3>5
  <2>4. CASE t > now
    <3> DEFINE made == SinceIn(lg2, A2, t) \ SinceIn(lg2, A2, t + Window)
    <3>1. made = {}
      BY <1>2, <2>4
    <3>2. Cardinality(made) = 0
      BY <3>1, FS_EmptySet
    <3> QED
      BY <1>4, <3>2
  <2> QED
    BY <1>4, <2>2, <2>3, <2>4
<1>9. ASSUME NEW d \in Nat
      PROVE  Cardinality(OnDayIn(lg2, A2, d)) <= DayLimit
  <2>1. CASE d = DayOf(now)
    <3>1. OnDayIn(lg2, A2, d) = OnDayIn(lg, A, d) \cup {new}
      BY <1>2, <2>1
    <3>2. Cardinality(OnDayIn(lg, A, d)) <= b.count
      BY <2>1 DEF KnowsToday
    <3>3. /\ Cardinality(OnDayIn(lg, A, d)) \in Nat
          /\ Cardinality(OnDayIn(lg2, A2, d)) \in Nat
          /\ Cardinality(OnDayIn(lg2, A2, d)) <= Cardinality(OnDayIn(lg, A, d)) + 1
      BY <1>3, <1>7, <3>1, Grown
    <3> QED
      BY <1>4, <1>5, <3>2, <3>3
  <2>2. CASE d # DayOf(now)
    <3>1. OnDayIn(lg2, A2, d) = OnDayIn(lg, A, d)
      BY <1>2, <2>2
    <3> QED
      BY <3>1 DEF WithinLimits
  <2> QED
    BY <2>1, <2>2
<1> QED
  BY <1>8, <1>9 DEF WithinLimits, lg2, new, A2

\* The bucket and the limits of another client are not affected.
LEMMA OthersKnow ==
  ASSUME NEW n \in Nat, NEW lg \in Seq(Clients \X Nat), NEW e \in Clients \X Nat,
         NEW A \in SUBSET (1..Len(lg)), NEW b, Knows(b, A, lg, n), WithinLimits(A, lg)
  PROVE  Knows(b, A, Append(lg, e), n) /\ WithinLimits(A, Append(lg, e))
<1> DEFINE lg2 == Append(lg, e)
<1>1. /\ \A i \in A : lg2[i] = lg[i]
      /\ \A t : SinceIn(lg2, A, t) = SinceIn(lg, A, t)
      /\ \A d : OnDayIn(lg2, A, d) = OnDayIn(lg, A, d)
  BY Extended
<1> HIDE DEF lg2
<1>2. WithinLimits(A, lg2)
  BY <1>1 DEF WithinLimits
<1>3. CASE b = NoBucket
  BY <1>1, <1>2, <1>3 DEF Knows, lg2
<1>4. CASE b # NoBucket
  <2>1. WindowKnows(b.window, A, lg2, n)
    BY <1>1, <1>4 DEF Knows, WindowKnows
  <2> QED
    BY <1>1, <1>2, <1>4, <2>1 DEF Knows, lg2
<1> QED
  BY <1>3, <1>4

\* A client that is forgotten, or has yet to come, has made no attempt.
LEMMA NothingKnown ==
  ASSUME NEW lg, NEW n
  PROVE  Knows(NoBucket, {}, lg, n) /\ WithinLimits({}, lg)
<1>1. /\ \A t : SinceIn(lg, {}, t) = {}
      /\ \A d : OnDayIn(lg, {}, d) = {}
  BY DEF SinceIn, OnDayIn
<1>2. Cardinality({}) = 0
  BY FS_EmptySet
<1>3. ASSUME NEW t \in Nat
      PROVE  Cardinality(SinceIn(lg, {}, t) \ SinceIn(lg, {}, t + Window)) <= WindowLimit
  <2>1. SinceIn(lg, {}, t) \ SinceIn(lg, {}, t + Window) = {}
    BY <1>1
  <2> QED
    BY <1>2, <2>1, LimitsAssumption
<1>4. ASSUME NEW d \in Nat
       PROVE  Cardinality(OnDayIn(lg, {}, d)) <= DayLimit
  <2>1. OnDayIn(lg, {}, d) = {}
    BY <1>1
  <2> QED
    BY <1>2, <2>1, LimitsAssumption
<1>5. WithinLimits({}, lg)
  BY <1>3, <1>4 DEF WithinLimits
<1> QED
  BY <1>5 DEF Knows

-----------------------------------------------------------------------------
(* All clients together *)

LEMMA GlobalRolls ==
  ASSUME TypeOK, GlobalKnows(globalDay, globalCount, log, now)
  PROVE  GlobalKnows(DayOf(now), GlobalToday, log, now)
<1>1. /\ DayOf(now) \in Nat /\ globalDay \in Nat /\ globalDay <= DayOf(now)
      /\ Past(log, 1..Len(log), now)
      /\ \A i \in 1..Len(log) : DayOf(log[i][2]) <= globalDay
  BY TodayType DEF TypeOK, GlobalKnows
<1>2. \A i \in 1..Len(log) : DayOf(log[i][2]) \in Nat
  BY <1>1, DayIsNat DEF Past
<1>3. \A i \in 1..Len(log) : DayOf(log[i][2]) <= DayOf(now)
  BY <1>1, <1>2
<1>4. Cardinality(OnDayIn(log, 1..Len(log), DayOf(now))) <= GlobalToday
  <2>1. CASE globalDay = DayOf(now)
    BY <2>1 DEF GlobalKnows, GlobalToday
  <2>2. CASE globalDay # DayOf(now)
    <3>1. OnDayIn(log, 1..Len(log), DayOf(now)) = {}
      BY <1>1, <1>2, <2>2 DEF OnDayIn
    <3>2. Cardinality({}) = 0
      BY FS_EmptySet
    <3>3. GlobalToday = 0
      BY <2>2 DEF GlobalToday
    <3> DEFINE today == OnDayIn(log, 1..Len(log), DayOf(now))
    <3>4. Cardinality(today) = 0
      BY <3>1, <3>2
    <3> QED
      BY <3>3, <3>4
  <2> QED
    BY <2>1, <2>2
<1> QED
  BY <1>1, <1>3, <1>4 DEF GlobalKnows

LEMMA GlobalCounts ==
  ASSUME now \in Nat, NEW lg \in Seq(Clients \X Nat), NEW c \in Clients, NEW n \in Nat,
         n < GlobalDayLimit, GlobalKnows(DayOf(now), n, lg, now)
  PROVE  GlobalKnows(DayOf(now), n + 1, Append(lg, <<c, now>>), now)
<1> DEFINE lg2 == Append(lg, <<c, now>>)
           new == Len(lg) + 1
           A   == 1..Len(lg)
           A2  == A \cup {new}
<1>1. Past(lg, A, now) /\ A \in SUBSET (1..Len(lg))
  BY DEF GlobalKnows
<1>2. Added(lg, A, lg2, A2, new)
  <2> HIDE DEF A
  <2> QED
    BY <1>1, AddedIs
<1>3. A2 = 1..Len(lg2)
  OBVIOUS
<1>4. DayOf(now) \in Nat
  BY DayIsNat
<1> HIDE DEF lg2, new, A, A2
<1>5. /\ OnDayIn(lg2, A2, DayOf(now)) = OnDayIn(lg, A, DayOf(now)) \cup {new}
      /\ \A d \in Nat : d # DayOf(now) => OnDayIn(lg2, A2, d) = OnDayIn(lg, A, d)
  BY <1>1, <1>2, AddedCounts
<1>6. /\ Cardinality(OnDayIn(lg, A, DayOf(now))) <= n
      /\ \A d \in Nat : Cardinality(OnDayIn(lg, A, d)) <= GlobalDayLimit
  BY DEF GlobalKnows, A
<1>7. Cardinality(OnDayIn(lg2, A2, DayOf(now))) <= n + 1
      /\ Cardinality(OnDayIn(lg2, A2, DayOf(now))) \in Nat
  <2>1. OnDayIn(lg, A, DayOf(now)) \in SUBSET A /\ IsFiniteSet(A)
    BY <1>1 DEF OnDayIn, Past
  <2>2. /\ Cardinality(OnDayIn(lg, A, DayOf(now))) \in Nat
        /\ Cardinality(OnDayIn(lg2, A2, DayOf(now))) \in Nat
        /\ Cardinality(OnDayIn(lg2, A2, DayOf(now))) <= Cardinality(OnDayIn(lg, A, DayOf(now))) + 1
    BY <1>5, <2>1, Grown
  <2> QED
    BY <1>6, <2>2
<1>8. ASSUME NEW d \in Nat
      PROVE  Cardinality(OnDayIn(lg2, A2, d)) <= GlobalDayLimit
  <2>1. CASE d = DayOf(now)
    BY <1>7, <2>1, LimitsAssumption
  <2>2. CASE d # DayOf(now)
    <3>1. OnDayIn(lg2, A2, d) = OnDayIn(lg, A, d)
      BY <1>5, <2>2
    <3> QED
      BY <1>6, <3>1
  <2> QED
    BY <2>1, <2>2
<1>9. Past(lg2, A2, now) /\ \A i \in A2 : DayOf(lg2[i][2]) <= DayOf(now)
  BY <1>2, DaysGrow DEF Added, Past
<1>10. GlobalKnows(DayOf(now), n + 1, lg2, now)
  BY <1>3, <1>4, <1>7, <1>8, <1>9 DEF GlobalKnows
<1> QED
  BY <1>10 DEF lg2

-----------------------------------------------------------------------------
(* The steps *)

\* What LInv says of client c.
ClientKnown(b, lg, fg, c, n) ==
  /\ fg[c] <= Len(lg)
  /\ Knows(b, AttemptsIn(lg, fg, c), lg, n)
  /\ WithinLimits(AttemptsIn(lg, fg, c), lg)

LEMMA AttemptsType ==
  ASSUME log \in Seq(Clients \X Nat), NEW fg \in [Clients -> Nat], NEW c \in Clients,
         GlobalKnows(globalDay, globalCount, log, now)
  PROVE  /\ AttemptsIn(log, fg, c) \in SUBSET (1..Len(log))
         /\ Past(log, AttemptsIn(log, fg, c), now)
<1>1. AttemptsIn(log, fg, c) \in SUBSET (1..Len(log))
  BY DEF AttemptsIn
<1>2. Past(log, 1..Len(log), now)
  BY DEF GlobalKnows
<1> QED
  BY <1>1, <1>2, FS_Subset DEF Past

\* An admission is added to its client's attempts, and to no other's.
LEMMA AttemptsGrow ==
  ASSUME NEW lg, NEW lg2, NEW fg, NEW d, NEW c, Len(lg) \in Nat, fg[d] \in Nat, fg[d] <= Len(lg),
         Len(lg2) = Len(lg) + 1, \A i \in 1..Len(lg) : lg2[i] = lg[i], lg2[Len(lg) + 1][1] = c
  PROVE  AttemptsIn(lg2, fg, d) = IF c = d THEN AttemptsIn(lg, fg, d) \cup {Len(lg) + 1}
                                           ELSE AttemptsIn(lg, fg, d)
<1> DEFINE new == Len(lg) + 1
<1>1. (fg[d] + 1)..Len(lg2) = ((fg[d] + 1)..Len(lg)) \cup {new}
  OBVIOUS
<1>2. \A i \in (fg[d] + 1)..Len(lg) : lg2[i] = lg[i] /\ i # new
  OBVIOUS
<1>3. lg2[new][1] = c
  OBVIOUS
<1> HIDE DEF new
<1>4. /\ c = d => AttemptsIn(lg2, fg, d) = AttemptsIn(lg, fg, d) \cup {new}
      /\ c # d => AttemptsIn(lg2, fg, d) = AttemptsIn(lg, fg, d)
  BY <1>1, <1>2, <1>3 DEF AttemptsIn
<1> QED
  BY <1>4 DEF new

\* Purging and making room lose nothing that still mattered: what expires was
\* unused for a bucket's lifetime, and what is evicted is forgotten.
LEMMA RoomKnows ==
  ASSUME TypeOK, LInv, NEW c \in Clients, Cardinality(Held(Purged)) <= MaxBuckets,
         NEW room \in RoomFor(Purged, c), NEW fg,
         fg = [d \in Clients |-> IF Purged[d] # room[d] THEN Len(log) ELSE forgotten[d]]
  PROVE  /\ fg \in [Clients -> Nat]
         /\ \A d \in Clients : ClientKnown(room[d], log, fg, d, now)
<1>1. now \in Nat /\ bucket \in [Clients -> MaybeBucket]
  BY TodayType
<1>2. /\ Purged \in [Clients -> MaybeBucket]
      /\ \A d \in Clients : \/ Purged[d] = bucket[d]
                            \/ /\ bucket[d] \in Bucket /\ bucket[d].active = 0
                               /\ now - bucket[d].last >= Ttl
                               /\ Purged[d] = NoBucket
  BY <1>1, PurgedIs
<1>3. \A d \in Clients :
        \/ room[d] = Purged[d]
        \/ d # c /\ Purged[d] \in Bucket /\ Purged[d].active = 0 /\ room[d] = NoBucket
  BY <1>2, RoomIs
<1>4. /\ log \in Seq(Clients \X Nat) /\ Len(log) \in Nat
      /\ forgotten \in [Clients -> Nat]
      /\ GlobalKnows(globalDay, globalCount, log, now)
      /\ \A d \in Clients : ClientKnown(bucket[d], log, forgotten, d, now)
  BY DEF TypeOK, LInv, ClientKnown
<1>5. fg \in [Clients -> Nat]
  BY <1>4
<1>6. ASSUME NEW d \in Clients
      PROVE  ClientKnown(room[d], log, fg, d, now)
  <2>1. CASE room[d] = Purged[d]
    <3>1. fg[d] = forgotten[d]
      BY <2>1
    <3>2. AttemptsIn(log, fg, d) = AttemptsIn(log, forgotten, d)
      BY <3>1 DEF AttemptsIn
    <3>3. Knows(Purged[d], AttemptsIn(log, forgotten, d), log, now)
      <4>1. CASE Purged[d] = bucket[d]
        BY <1>4, <4>1 DEF ClientKnown
      <4>2. CASE bucket[d] \in Bucket /\ now - bucket[d].last >= Ttl /\ Purged[d] = NoBucket
        <5>1. Past(log, AttemptsIn(log, forgotten, d), now)
          BY <1>4, AttemptsType
        <5>2. Knows(bucket[d], AttemptsIn(log, forgotten, d), log, now)
          BY <1>4 DEF ClientKnown
        <5> QED
          BY <1>1, <4>2, <5>1, <5>2, KnowsExpired
      <4> QED
        BY <1>2, <4>1, <4>2
    <3>4. forgotten[d] <= Len(log) /\ WithinLimits(AttemptsIn(log, forgotten, d), log)
      BY <1>4 DEF ClientKnown
    <3> QED
      BY <2>1, <3>1, <3>2, <3>3, <3>4 DEF ClientKnown
  <2>2. CASE Purged[d] # room[d]
    <3>1. fg[d] = Len(log) /\ room[d] = NoBucket
      BY <1>3, <2>2
    <3>2. AttemptsIn(log, fg, d) = {}
      BY <1>4, <3>1 DEF AttemptsIn
    <3>3. Knows(NoBucket, {}, log, now) /\ WithinLimits({}, log)
      BY NothingKnown
    <3>4. fg[d] <= Len(log)
      BY <1>4, <3>1
    <3> QED
      BY <3>1, <3>2, <3>3, <3>4 DEF ClientKnown
  <2> QED
    BY <2>1, <2>2
<1> QED
  BY <1>5, <1>6

\* The parts of LInv.
LEMMA LInvIs ==
  ASSUME NEW n, GlobalKnows(globalDay', globalCount', log', n), n = now',
         \A d \in Clients : ClientKnown(bucket'[d], log', forgotten', d, n)
  PROVE  LInv'
BY DEF LInv, ClientKnown

LEMMA Facts ==
  ASSUME IInv, LInv
  PROVE  /\ TypeOK /\ now \in Nat /\ log \in Seq(Clients \X Nat)
         /\ forgotten \in [Clients -> Nat] /\ bucket \in [Clients -> MaybeBucket]
         /\ \A r \in Requests : phase[r] # "idle" => client[r] \in Clients
         /\ Cardinality(Held(Purged)) <= MaxBuckets
         /\ GlobalKnows(globalDay, globalCount, log, now)
         /\ \A d \in Clients : /\ ClientKnown(bucket[d], log, forgotten, d, now)
                               /\ Past(log, AttemptsIn(log, forgotten, d), now)
                               /\ AttemptsIn(log, forgotten, d) \in SUBSET (1..Len(log))
<1>1. TypeOK /\ now \in Nat /\ log \in Seq(Clients \X Nat) /\ forgotten \in [Clients -> Nat]
      /\ bucket \in [Clients -> MaybeBucket]
  BY TodayType DEF IInv, TypeOK
<1>2. \A r \in Requests : phase[r] # "idle" => client[r] \in Clients
  BY DEF IInv, TypeOK, SemaphoreOK, ClientsKnown
<1>3. Cardinality(Held(Purged)) <= MaxBuckets
  <2>1. Held(Purged) \subseteq Held(bucket) /\ Held(bucket) \subseteq Clients
    BY DEF Held, Purged
  <2>2. IsFiniteSet(Held(bucket))
    BY <2>1, SetsAssumption, FS_Subset
  <2>3. /\ Cardinality(Held(Purged)) \in Nat /\ Cardinality(Held(bucket)) \in Nat
        /\ Cardinality(Held(Purged)) <= Cardinality(Held(bucket))
    BY <2>1, <2>2, FS_Subset, FS_CardinalityType
  <2>4. Cardinality(Held(bucket)) <= MaxBuckets
    BY DEF IInv, CountersOK, BucketsBounded
  <2> QED
    BY <2>3, <2>4, LimitsAssumption
<1>4. GlobalKnows(globalDay, globalCount, log, now)
  BY DEF LInv
<1>5. \A d \in Clients : ClientKnown(bucket[d], log, forgotten, d, now)
  BY DEF LInv, ClientKnown
<1>6. \A d \in Clients : /\ Past(log, AttemptsIn(log, forgotten, d), now)
                         /\ AttemptsIn(log, forgotten, d) \in SUBSET (1..Len(log))
  BY <1>1, <1>4, AttemptsType
<1> QED
  BY <1>1, <1>2, <1>3, <1>4, <1>5, <1>6

\* The bucket the decision looks at knows its client.
LEMMA Looked ==
  ASSUME IInv, LInv, NEW c \in Clients, NEW room \in RoomFor(Purged, c), NEW fg,
         fg = [d \in Clients |-> IF Purged[d] # room[d] THEN Len(log) ELSE forgotten[d]]
  PROVE  /\ room \in [Clients -> MaybeBucket]
         /\ fg \in [Clients -> Nat]
         /\ \A d \in Clients : /\ ClientKnown(room[d], log, fg, d, now)
                               /\ Past(log, AttemptsIn(log, fg, d), now)
                               /\ AttemptsIn(log, fg, d) \in SUBSET (1..Len(log))
         /\ Bucket2(room, c) \in Bucket /\ Counted(Bucket2(room, c)) \in Bucket
         /\ KnowsToday(Bucket2(room, c), AttemptsIn(log, fg, c), log)
<1>1. /\ TypeOK /\ now \in Nat /\ log \in Seq(Clients \X Nat)
      /\ bucket \in [Clients -> MaybeBucket]
      /\ Cardinality(Held(Purged)) <= MaxBuckets
      /\ GlobalKnows(globalDay, globalCount, log, now)
  BY Facts
<1>2. room \in [Clients -> MaybeBucket]
  <2>1. Purged \in [Clients -> MaybeBucket]
    BY <1>1, PurgedIs
  <2> QED
    BY <1>1, <2>1, RoomIs
<1>3. fg \in [Clients -> Nat] /\ \A d \in Clients : ClientKnown(room[d], log, fg, d, now)
  BY <1>1, RoomKnows
<1>4. \A d \in Clients : /\ Past(log, AttemptsIn(log, fg, d), now)
                         /\ AttemptsIn(log, fg, d) \in SUBSET (1..Len(log))
  BY <1>1, <1>3, AttemptsType
<1>5. Bucket2(room, c) \in Bucket /\ Counted(Bucket2(room, c)) \in Bucket
  BY <1>1, <1>2, RolledType
<1>6. KnowsToday(Bucket2(room, c), AttemptsIn(log, fg, c), log)
  <2>1. Past(log, AttemptsIn(log, fg, c), now) /\ Knows(room[c], AttemptsIn(log, fg, c), log, now)
    BY <1>3, <1>4 DEF ClientKnown
  <2> QED
    BY <1>1, <1>2, <2>1, RolledKnows
<1> QED
  BY <1>2, <1>3, <1>4, <1>5, <1>6

LEMMA LimitsAdmit ==
  ASSUME IInv, LInv, NEW r \in Requests, NEW room \in RoomFor(Purged, client[r]),
         phase[r] = "taken", globalDay' = DayOf(now), now' = now, Admit(r, room)
  PROVE  LInv'
<1> DEFINE c == client[r]
           b == Bucket2(room, c)
           A(d) == AttemptsIn(log, forgotten', d)
<1>1. /\ TypeOK /\ now \in Nat /\ log \in Seq(Clients \X Nat) /\ c \in Clients
      /\ Len(log) \in Nat
      /\ GlobalKnows(globalDay, globalCount, log, now)
  BY Facts
<1>2. /\ forgotten' = [d \in Clients |-> IF Purged[d] # room[d] THEN Len(log) ELSE forgotten[d]]
      /\ bucket' = [room EXCEPT ![c] = Counted(b)] /\ Allowed(b)
      /\ globalCount' = GlobalToday + 1 /\ log' = Append(log, <<c, now>>)
  BY DEF Admit, Evict
<1>3. /\ room \in [Clients -> MaybeBucket] /\ forgotten' \in [Clients -> Nat]
      /\ \A d \in Clients : /\ ClientKnown(room[d], log, forgotten', d, now)
                            /\ Past(log, A(d), now)
                            /\ A(d) \in SUBSET (1..Len(log))
      /\ b \in Bucket /\ Counted(b) \in Bucket /\ KnowsToday(b, A(c), log)
  BY <1>1, <1>2, Looked
<1>4. Len(b.window) < WindowLimit /\ b.count < DayLimit /\ GlobalToday < GlobalDayLimit
  BY <1>2 DEF Allowed
<1> HIDE DEF c, b
<1>5. GlobalKnows(globalDay', globalCount', log', now)
  <2>1. GlobalToday \in Nat /\ GlobalKnows(DayOf(now), GlobalToday, log, now)
    BY <1>1, GlobalRolls, TodayType
  <2> QED
    BY <1>1, <1>2, <1>4, <2>1, GlobalCounts
<1>6. ASSUME NEW d \in Clients
      PROVE  ClientKnown(bucket'[d], log', forgotten', d, now)
  <2>1. forgotten'[d] <= Len(log) /\ WithinLimits(A(d), log) /\ Knows(room[d], A(d), log, now)
    BY <1>3 DEF ClientKnown
  <2>2. forgotten'[d] <= Len(log') /\ <<c, now>> \in Clients \X Nat
    <3>1. Len(log') = Len(log) + 1
      BY <1>1, <1>2
    <3> QED
      BY <1>1, <1>3, <2>1, <3>1
  <2>3. AttemptsIn(log', forgotten', d) = IF c = d THEN A(d) \cup {Len(log) + 1} ELSE A(d)
    <3>1. forgotten'[d] \in Nat /\ forgotten'[d] <= Len(log)
      BY <1>3, <2>1
    <3>2. /\ Len(log') = Len(log) + 1 /\ \A i \in 1..Len(log) : log'[i] = log[i]
          /\ log'[Len(log) + 1] = <<c, now>>
      BY <1>1, <1>2
    <3>3. log'[Len(log) + 1][1] = c
      BY <3>2
    <3> QED
      BY <1>1, <3>1, <3>2, <3>3, AttemptsGrow, SMTT(20)
  <2> HIDE DEF A
  <2>4. CASE d = c
    <3>1. bucket'[d] = Counted(b)
      BY <1>2, <1>3, <2>4
    <3>2. AttemptsIn(log', forgotten', d) = A(d) \cup {Len(log) + 1}
      BY <2>3, <2>4
    <3>3. A(d) \in SUBSET (1..Len(log)) /\ Past(log, A(d), now) /\ KnowsToday(b, A(d), log)
      BY <1>3, <2>4
    <3>4. Knows(Counted(b), A(d) \cup {Len(log) + 1}, log', now)
      BY <1>1, <1>2, <1>3, <3>3, CountedKnows
    <3>5. WithinLimits(A(d) \cup {Len(log) + 1}, log')
      BY <1>1, <1>2, <1>3, <1>4, <2>1, <3>3, AllowedWithin
    <3> QED
      BY <2>2, <3>1, <3>2, <3>4, <3>5 DEF ClientKnown
  <2>5. CASE d # c
    <3>1. bucket'[d] = room[d] /\ AttemptsIn(log', forgotten', d) = A(d)
      BY <1>2, <1>3, <2>3, <2>5
    <3>2. Knows(room[d], A(d), log', now) /\ WithinLimits(A(d), log')
      BY <1>1, <1>2, <1>3, <2>1, <2>2, OthersKnow
    <3> QED
      BY <2>2, <3>1, <3>2 DEF ClientKnown
  <2> QED
    BY <2>4, <2>5
<1> QED
  BY <1>5, <1>6, LInvIs

LEMMA LimitsRefuse ==
  ASSUME IInv, LInv, NEW r \in Requests, NEW room \in RoomFor(Purged, client[r]),
         phase[r] = "taken", globalDay' = DayOf(now), now' = now, TurnDown(r, room)
  PROVE  LInv'
<1> DEFINE c == client[r]
           b == Bucket2(room, c)
<1>1. TypeOK /\ now \in Nat /\ c \in Clients /\ GlobalKnows(globalDay, globalCount, log, now)
  BY Facts
<1>2. /\ forgotten' = [d \in Clients |-> IF Purged[d] # room[d] THEN Len(log) ELSE forgotten[d]]
      /\ bucket' = [room EXCEPT ![c] = b]
      /\ globalCount' = GlobalToday /\ log' = log
  BY DEF TurnDown, Evict
<1>3. /\ room \in [Clients -> MaybeBucket]
      /\ \A d \in Clients : /\ ClientKnown(room[d], log, forgotten', d, now)
                            /\ Past(log, AttemptsIn(log, forgotten', d), now)
      /\ b \in Bucket /\ KnowsToday(b, AttemptsIn(log, forgotten', c), log)
  BY <1>1, <1>2, Looked
<1> HIDE DEF b
<1>4. GlobalKnows(globalDay', globalCount', log', now)
  BY <1>1, <1>2, GlobalRolls
<1>5. Knows(b, AttemptsIn(log, forgotten', c), log, now)
  BY <1>1, <1>3, TodayKnows
<1>6. ASSUME NEW d \in Clients
      PROVE  ClientKnown(bucket'[d], log', forgotten', d, now)
  <2>1. CASE d = c
    BY <1>1, <1>2, <1>3, <1>5, <2>1 DEF ClientKnown
  <2>2. CASE d # c
    BY <1>2, <1>3, <2>2 DEF ClientKnown
  <2> QED
    BY <2>1, <2>2
<1> QED
  BY <1>4, <1>6, LInvIs

LEMMA LimitsRefuseFull ==
  ASSUME IInv, LInv, NEW r \in Requests, globalDay' = DayOf(now), now' = now, RefuseFull(r)
  PROVE  LInv'
<1>1. /\ TypeOK /\ now \in Nat /\ bucket \in [Clients -> MaybeBucket]
      /\ GlobalKnows(globalDay, globalCount, log, now)
      /\ \A d \in Clients : /\ ClientKnown(bucket[d], log, forgotten, d, now)
                            /\ Past(log, AttemptsIn(log, forgotten, d), now)
  BY Facts
<1>2. bucket' = Purged /\ globalCount' = GlobalToday /\ log' = log /\ forgotten' = forgotten
  BY DEF RefuseFull
<1>3. GlobalKnows(globalDay', globalCount', log', now)
  BY <1>1, <1>2, GlobalRolls
<1>4. ASSUME NEW d \in Clients
      PROVE  ClientKnown(bucket'[d], log', forgotten', d, now)
  <2>1. \/ Purged[d] = bucket[d]
        \/ bucket[d] \in Bucket /\ now - bucket[d].last >= Ttl /\ Purged[d] = NoBucket
    BY <1>1, PurgedIs
  <2>2. CASE bucket[d] \in Bucket /\ now - bucket[d].last >= Ttl /\ Purged[d] = NoBucket
    <3>1. Knows(NoBucket, AttemptsIn(log, forgotten, d), log, now)
      BY <1>1, <2>2, KnowsExpired DEF ClientKnown
    <3> QED
      BY <1>1, <1>2, <2>2, <3>1 DEF ClientKnown
  <2> QED
    BY <1>1, <1>2, <2>1, <2>2
<1> QED
  BY <1>3, <1>4, LInvIs

\* A body that ends brings its client's bucket up to date.
LEMMA LimitsFinish ==
  ASSUME IInv, LInv, NEW r \in Requests, Finish(r)
  PROVE  LInv'
<1> DEFINE c == client[r]
<1>1. /\ now \in Nat /\ c \in Clients /\ bucket \in [Clients -> MaybeBucket]
      /\ GlobalKnows(globalDay, globalCount, log, now)
      /\ \A d \in Clients : /\ ClientKnown(bucket[d], log, forgotten, d, now)
                            /\ Past(log, AttemptsIn(log, forgotten, d), now)
  BY Facts DEF Finish
<1>2. /\ bucket' = IF bucket[c] = NoBucket THEN bucket
                   ELSE [bucket EXCEPT ![c].active = OneLess(@), ![c].last = now]
      /\ UNCHANGED <<now, globalDay, globalCount, log, forgotten>>
  BY DEF Finish
<1>3. ASSUME NEW d \in Clients
      PROVE  ClientKnown(bucket'[d], log, forgotten, d, now)
  <2>1. CASE bucket'[d] = bucket[d]
    BY <1>1, <2>1
  <2>2. CASE bucket'[d] # bucket[d]
    <3> DEFINE y == bucket'[d]
               x == bucket[d]
               A == AttemptsIn(log, forgotten, d)
    <3>1. d = c /\ x \in Bucket
      BY <1>1, <1>2, <2>2 DEF MaybeBucket
    <3>2. /\ y = [x EXCEPT !.active = OneLess(x.active), !.last = now]
      BY <1>1, <1>2, <2>2, <3>1
    <3>3. /\ y.window = x.window /\ y.day = x.day /\ y.count = x.count /\ y.last = now
          /\ x.last \in Nat /\ x # NoBucket
      BY <3>1, <3>2, NoBucketAssumption DEF Bucket
    <3>4. y # NoBucket
      <4>1. x.active \in Nat
        BY <3>1 DEF Bucket
      <4>2. y = [f \in BucketFields |-> y[f]]
        BY <3>1, <3>2 DEF Bucket, BucketFields
      <4>3. y.active = OneLess(x.active) /\ OneLess(x.active) \in Nat
        BY <3>1, <3>2, <4>1 DEF Bucket, OneLess
      <4>4. x.window \in Seq(Nat) /\ x.day \in Nat /\ x.count \in Nat
        BY <3>1 DEF Bucket
      <4>5. y \in Bucket
        <5> HIDE DEF x, y
        <5> QED
          BY <1>1, <3>3, <4>2, <4>3, <4>4, BucketRecord
      <4> QED
        BY <4>5, NoBucketAssumption
    <3>5. Knows(x, A, log, now) /\ Past(log, A, now)
      BY <1>1 DEF ClientKnown
    <3> HIDE DEF x, y
    <3>6. Knows(y, A, log, now)
      BY <1>1, <3>3, <3>4, <3>5 DEF Knows, Past
    <3> QED
      BY <1>1, <3>6 DEF ClientKnown, y
  <2> QED
    BY <2>1, <2>2
<1> QED
  BY <1>1, <1>2, <1>3, LInvIs

\* The semaphore's steps touch no count.
LEMMA LimitsWait ==
  ASSUME LInv, UNCHANGED <<now, counters>>
  PROVE  LInv'
BY DEF LInv, counters

LEMMA LimitsTick ==
  ASSUME IInv, LInv, Tick
  PROVE  LInv'
<1>1. /\ now \in Nat /\ bucket \in [Clients -> MaybeBucket] /\ TypeOK
      /\ GlobalKnows(globalDay, globalCount, log, now)
      /\ \A d \in Clients : /\ ClientKnown(bucket[d], log, forgotten, d, now)
                            /\ Past(log, AttemptsIn(log, forgotten, d), now)
  BY Facts
<1>2. now' = now + 1 /\ now' \in Nat /\ now <= now' /\ UNCHANGED counters
  BY <1>1 DEF Tick
<1>3. GlobalKnows(globalDay, globalCount, log, now')
  <2>1. DayOf(now) <= DayOf(now') /\ DayOf(now) \in Nat /\ DayOf(now') \in Nat
    BY <1>1, <1>2, DaysGrow
  <2>2. globalDay \in Nat
    BY <1>1 DEF TypeOK
  <2>3. Past(log, 1..Len(log), now')
    BY <1>1, <1>2 DEF GlobalKnows, Past
  <2> QED
    BY <1>1, <2>1, <2>2, <2>3 DEF GlobalKnows
<1>4. \A d \in Clients : ClientKnown(bucket[d], log, forgotten, d, now')
  BY <1>1, <1>2, KnowsLater DEF ClientKnown
<1> QED
  BY <1>2, <1>3, <1>4, LInvIs DEF counters

LEMMA InitLInv == Init => LInv
<1> SUFFICES ASSUME Init PROVE LInv
  OBVIOUS
<1>1. /\ log = << >> /\ globalDay = 0 /\ globalCount = 0 /\ now = 0
      /\ forgotten = [c \in Clients |-> 0] /\ bucket = [c \in Clients |-> NoBucket]
  BY DEF Init
<1>2. 1..Len(log) = {} /\ \A fg, d : fg[d] \in Nat => (fg[d] + 1)..Len(log) = {}
  BY <1>1
<1>3. Cardinality({}) = 0 /\ IsFiniteSet({})
  BY FS_EmptySet
<1>4. GlobalKnows(globalDay, globalCount, log, now)
  <2>1. DayOf(now) \in Nat
    BY <1>1, DayIsNat
  <2>2. \A d : OnDayIn(log, 1..Len(log), d) = {}
    BY <1>2 DEF OnDayIn
  <2>3. \A d : Cardinality(OnDayIn(log, 1..Len(log), d)) = 0
    BY <1>3, <2>2
  <2>4. Past(log, 1..Len(log), now)
    BY <1>2, <1>3 DEF Past
  <2> QED
    BY <1>1, <1>2, <2>1, <2>3, <2>4, LimitsAssumption DEF GlobalKnows
<1>5. ASSUME NEW d \in Clients
      PROVE  ClientKnown(bucket[d], log, forgotten, d, now)
  <2>1. AttemptsIn(log, forgotten, d) = {}
    BY <1>1, <1>2 DEF AttemptsIn
  <2>2. bucket[d] = NoBucket /\ forgotten[d] <= Len(log)
    BY <1>1
  <2>3. Knows(NoBucket, {}, log, now) /\ WithinLimits({}, log)
    BY NothingKnown
  <2> QED
    BY <2>1, <2>2, <2>3 DEF ClientKnown
<1> QED
  BY <1>4, <1>5 DEF LInv, ClientKnown

LEMMA StepLInv == IInv /\ LInv /\ [Next]_vars => LInv'
<1> SUFFICES ASSUME IInv, LInv, [Next]_vars PROVE LInv'
  OBVIOUS
<1>1. CASE Tick
  BY <1>1, LimitsTick
<1>2. CASE UNCHANGED vars
  BY <1>2, LimitsWait DEF vars, counters
<1>3. ASSUME NEW r \in Requests, Step(r) PROVE LInv'
  <2>1. CASE \E c \in Clients : Ask(r, c)
    BY <2>1, LimitsWait DEF Ask
  <2>2. CASE Acquire(r)
    BY <2>2, LimitsWait DEF Acquire
  <2>3. CASE TakeSlot(r)
    BY <2>3, LimitsWait DEF TakeSlot
  <2>4. CASE GiveUp(r)
    BY <2>4, LimitsWait DEF GiveUp
  <2>5. CASE Decide(r)
    <3>1. /\ phase[r] = "taken" /\ globalDay' = DayOf(now) /\ now' = now
          /\ \/ \E room \in RoomFor(Purged, client[r]) : Admit(r, room) \/ TurnDown(r, room)
             \/ RefuseFull(r)
      BY <2>5, DecideIs
    <3> QED
      BY <3>1, LimitsAdmit, LimitsRefuse, LimitsRefuseFull
  <2>6. CASE Finish(r)
    BY <2>6, LimitsFinish
  <2> QED
    BY <1>3, <2>1, <2>2, <2>3, <2>4, <2>5, <2>6 DEF Step
<1> QED
  BY <1>1, <1>2, <1>3 DEF Next

-----------------------------------------------------------------------------
(* The theorems *)

\* What the counters know of the history is enough, at every moment.
THEOREM CountersKnow == Spec => []LInv
BY InitLInv, StepLInv, Inductive, PTL DEF Spec

\* A client that is not evicted is never admitted more than WindowLimit times in
\* any stretch of time as long as the window, nor more than DayLimit times in one
\* day: for any number of clients and requests, whatever the clock's readings,
\* and although its bucket may expire and its counts start again.
THEOREM ClientLimits == Spec => []ClientRespected
<1>1. LInv => ClientRespected
  <2> SUFFICES ASSUME LInv PROVE ClientRespected
    OBVIOUS
  <2>1. (0..MaxClock) \subseteq Nat /\ (0..DayOf(MaxClock)) \subseteq Nat
    OBVIOUS
  <2>2. \A c \in Clients : WithinLimits(AttemptsOf(c), log)
    BY DEF LInv, AttemptsIn, AttemptsOf
  <2>3. \A A, t : SinceIn(log, A, t) = Since(A, t)
    BY DEF SinceIn, Since
  <2>4. \A A, d : OnDayIn(log, A, d) = OnDay(A, d)
    BY DEF OnDayIn, OnDay
  <2> QED
    BY <2>1, <2>2, <2>3, <2>4 DEF WithinLimits, ClientRespected
<1> QED
  BY <1>1, CountersKnow, PTL

\* All clients together, evicted or not, are never admitted more than
\* GlobalDayLimit times in one day.
THEOREM GlobalLimit == Spec => []GlobalRespected
<1>1. LInv => GlobalRespected
  <2> SUFFICES ASSUME LInv PROVE GlobalRespected
    OBVIOUS
  <2>1. (0..DayOf(MaxClock)) \subseteq Nat
    OBVIOUS
  <2>2. \A d \in Nat : Cardinality(OnDayIn(log, 1..Len(log), d)) <= GlobalDayLimit
    BY DEF LInv, GlobalKnows
  <2>3. \A A, d : OnDayIn(log, A, d) = OnDay(A, d)
    BY DEF OnDayIn, OnDay
  <2> QED
    BY <2>1, <2>2, <2>3 DEF GlobalRespected
<1> QED
  BY <1>1, CountersKnow, PTL
=============================================================================
