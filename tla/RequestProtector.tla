-------------------------- MODULE RequestProtector --------------------------
(***************************************************************************)
(* Admission of LLM attempts: RequestProtector in                          *)
(* src/app/services/request_protection.py, when it is enabled.             *)
(*                                                                         *)
(* `async with protector.admit(client_key, timeout_seconds=...)` first     *)
(* waits, no longer than the timeout, for one of a few slots (an           *)
(* asyncio.Semaphore behind asyncio.wait_for), then decides in one         *)
(* uninterrupted stretch of code whether the client's bucket and the       *)
(* global counter allow the attempt, and counts it.  The slot is returned  *)
(* when the body ends, or at once if the attempt is refused.               *)
(*                                                                         *)
(* An action is one such stretch.  The lock around the two stretches never *)
(* makes anyone wait, since no code awaits while it holds it.              *)
(***************************************************************************)
EXTENDS Integers, FiniteSets, Sequences, FiniteSetsExt

CONSTANTS
  Requests,        \* tasks that may ask
  Clients,         \* client keys; integers, since eviction breaks ties by key
  NoClient,        \* a request that is not asking
  NoBucket,        \* a client without a bucket
  Slots,           \* GLOBAL_CONCURRENCY_LIMIT
  Window,          \* CLIENT_WINDOW_SECONDS, in clock ticks
  WindowLimit,     \* CLIENT_WINDOW_LIMIT
  DayLimit,        \* CLIENT_DAY_LIMIT
  GlobalDayLimit,  \* GLOBAL_DAY_LIMIT
  MaxBuckets,      \* max_client_buckets
  Ttl,             \* client_bucket_ttl_seconds
  DayTicks,        \* the length of a KST day, in clock ticks
  Dawn,            \* the clock's reading when the first KST day began
  MaxClock         \* bound on the clock

ASSUME SlotsAssumption == Slots \in Nat \ {0}
ASSUME SetsAssumption ==
  /\ IsFiniteSet(Requests)
  /\ Clients \subseteq Int /\ IsFiniteSet(Clients)
  /\ NoClient \notin Clients
ASSUME LimitsAssumption ==
  /\ Window \in Nat \ {0} /\ WindowLimit \in Nat \ {0}
  /\ DayLimit \in Nat \ {0} /\ GlobalDayLimit \in Nat \ {0}
  /\ MaxBuckets \in Nat \ {0}
  /\ DayTicks \in Nat \ {0} /\ Dawn \in Nat /\ MaxClock \in Nat

\* The code's default: a bucket lives for a day after its last use, and a day
\* is longer than the window.
ASSUME TtlAssumption == Ttl \in Nat /\ Ttl >= DayTicks /\ Ttl >= Window

VARIABLES
  now,          \* the monotonic clock; the wall clock advances with it
  free,         \* the semaphore's value
  queue,        \* its waiters, in order of arrival
  phase,        \* where each request is in `admit`
  client,       \* the client key of a request's call
  bucket,       \* _buckets
  globalDay,    \* _global_day
  globalCount,  \* _global_day_attempts
  active,       \* _active_attempts
  log,          \* history: what was admitted, <<client, time>>, oldest first
  forgotten     \* history: the length of log when a client was last evicted

vars == <<now, free, queue, phase, client, bucket, globalDay, globalCount,
          active, log, forgotten>>
semaphore == <<free, queue>>
counters == <<bucket, globalDay, globalCount, active, log, forgotten>>

\* asking: the task that acquires has not run; queued: it waits; granted: it has
\* been given a slot and has not run since; taken: it has the slot, and the
\* request has not run since.
Phases == {"idle", "asking", "queued", "granted", "taken", "body"}

Bucket ==
  [window : Seq(Nat), day : Nat, count : Nat, last : Nat, active : Nat]

ASSUME NoBucketAssumption == NoBucket \notin Bucket

TypeOK ==
  /\ now \in 0..MaxClock
  /\ free \in 0..Slots
  /\ queue \in Seq(Requests)
  /\ phase \in [Requests -> Phases]
  /\ client \in [Requests -> Clients \cup {NoClient}]
  /\ bucket \in [Clients -> Bucket \cup {NoBucket}]
  /\ globalDay \in Nat
  /\ globalCount \in 0..GlobalDayLimit
  /\ active \in Nat
  /\ log \in Seq(Clients \X Nat)
  /\ forgotten \in [Clients -> Nat]

\* _kst_day
DayOf(t) == (t + Dawn) \div DayTicks

-----------------------------------------------------------------------------
(* asyncio.Semaphore and wait_for (CPython 3.11) *)

\* The places of the waiters that have not been served.
Unserved(waiters, ph) == {i \in 1..Len(waiters) : ph[waiters[i]] = "queued"}

\* _wake_up_next: the first waiter not yet served is granted a slot, which is
\* taken from the value at once; a granted waiter stays in the queue until it
\* runs.
WakeNext(value, waiters, ph) ==
  \/ /\ Unserved(waiters, ph) = {}
     /\ free' = value
     /\ phase' = ph
  \/ \E i \in Unserved(waiters, ph) :
       /\ \A j \in Unserved(waiters, ph) : i <= j
       /\ free' = value - 1
       /\ phase' = [ph EXCEPT ![waiters[i]] = "granted"]

\* deque.remove: the first occurrence goes.
Without(waiters, r) ==
  LET i == CHOOSE j \in 1..Len(waiters) : waiters[j] = r
  IN  SubSeq(waiters, 1, i - 1) \o SubSeq(waiters, i + 1, Len(waiters))

Ask(r, c) ==
  /\ phase[r] = "idle"
  /\ phase' = [phase EXCEPT ![r] = "asking"]
  /\ client' = [client EXCEPT ![r] = c]
  /\ UNCHANGED <<now, semaphore, counters>>

\* acquire: a slot is free and nobody is queued, or the request queues.
Acquire(r) ==
  /\ phase[r] = "asking"
  /\ \/ /\ free > 0 /\ queue = << >>
        /\ free' = free - 1
        /\ phase' = [phase EXCEPT ![r] = "taken"]
        /\ UNCHANGED queue
     \/ /\ free = 0 \/ queue # << >>
        /\ queue' = Append(queue, r)
        /\ phase' = [phase EXCEPT ![r] = "queued"]
        /\ UNCHANGED free
  /\ UNCHANGED <<now, client, counters>>

\* A granted waiter runs; when slots are left it wakes the next one.
TakeSlot(r) ==
  LET ph == [phase EXCEPT ![r] = "taken"]
      rest == Without(queue, r) IN
  /\ phase[r] = "granted"
  /\ queue' = rest
  /\ IF free > 0 THEN WakeNext(free, rest, ph) ELSE phase' = ph /\ UNCHANGED free
  /\ UNCHANGED <<now, client, counters>>

\* mutant: a slot granted to a request that gives up is lost
GiveUpWithSlot(r) ==
  /\ phase[r] \in {"asking", "queued", "granted"}
  /\ queue' = IF phase[r] = "asking" THEN queue ELSE Without(queue, r)
  /\ phase' = [phase EXCEPT ![r] = "idle"]
  /\ client' = [client EXCEPT ![r] = NoClient]
  /\ UNCHANGED <<now, free, counters>>

\* The timeout ends the wait, or the request is cancelled: a slot already
\* granted is passed on.  Neither has an effect once the slot is taken, since
\* wait_for then returns the result it has.
GiveUp(r) ==
  LET ph == [phase EXCEPT ![r] = "idle"]
      rest == IF phase[r] = "asking" THEN queue ELSE Without(queue, r) IN
  /\ phase[r] \in {"asking", "queued", "granted"}
  /\ queue' = rest
  /\ IF phase[r] = "granted" THEN WakeNext(free + 1, rest, ph)
                             ELSE phase' = ph /\ UNCHANGED free
  /\ client' = [client EXCEPT ![r] = NoClient]
  /\ UNCHANGED <<now, counters>>

-----------------------------------------------------------------------------
(* The decision *)

Held(buckets) == {c \in Clients : buckets[c] # NoBucket}

\* mutant: buckets live no longer than the window
PurgedEarly ==
  [c \in Clients |->
     IF /\ bucket[c] # NoBucket
        /\ bucket[c].active = 0
        /\ now - bucket[c].last >= Window
       THEN NoBucket ELSE bucket[c]]

\* _purge_expired
Purged ==
  [c \in Clients |->
     IF /\ bucket[c] # NoBucket
        /\ bucket[c].active = 0
        /\ now - bucket[c].last >= Ttl
       THEN NoBucket ELSE bucket[c]]

\* mutant: a bucket in use may be evicted
AnyVictim(buckets, c) == c \in Held(buckets)

\* _bucket evicts the idle bucket used least recently, if the map is full.
IsVictim(buckets, c) ==
  LET idle == {d \in Held(buckets) : buckets[d].active = 0} IN
  /\ c \in idle
  /\ \A d \in idle :
       \/ buckets[c].last < buckets[d].last
       \/ buckets[c].last = buckets[d].last /\ c <= d

\* mutant: off by one
RoomForOneMore(buckets, c) ==
  IF buckets[c] = NoBucket /\ Cardinality(Held(buckets)) > MaxBuckets
    THEN {[d \in Clients |-> IF d = v THEN NoBucket ELSE buckets[d]] :
            v \in {d \in Clients : IsVictim(buckets, d)}}
    ELSE {buckets}

\* The maps _bucket may leave for client c, before c's bucket is added; none
\* when the map is full of active buckets.
RoomFor(buckets, c) ==
  IF buckets[c] = NoBucket /\ Cardinality(Held(buckets)) >= MaxBuckets
    THEN {[d \in Clients |-> IF d = v THEN NoBucket ELSE buckets[d]] :
            v \in {d \in Clients : IsVictim(buckets, d)}}
    ELSE {buckets}

NewBucket == [window |-> << >>, day |-> DayOf(now), count |-> 0, last |-> now, active |-> 0]

\* The oldest attempts go for as long as they are outside the window.
Recent(window) ==
  LET gone == CHOOSE n \in 0..Len(window) :
                /\ \A i \in 1..n : window[i] <= now - Window
                /\ n = Len(window) \/ window[n + 1] > now - Window
  IN  SubSeq(window, gone + 1, Len(window))

\* _roll_client_day, then the window is pruned.
Rolled(b) ==
  [b EXCEPT !.day = DayOf(now),
            !.count = IF b.day = DayOf(now) THEN @ ELSE 0,
            !.window = Recent(@)]

\* mutant: the clients' counts are added up instead
GlobalFromBuckets ==
  MapThenSumSet(LAMBDA c : IF bucket[c].day = DayOf(now) THEN bucket[c].count ELSE 0,
                Held(bucket))

\* _roll_global_day
GlobalToday == IF globalDay = DayOf(now) THEN globalCount ELSE 0

Allowed(b) ==
  /\ Len(b.window) < WindowLimit
  /\ b.count < DayLimit
  /\ GlobalToday < GlobalDayLimit

Counted(b) ==
  [b EXCEPT !.window = Append(@, now), !.count = @ + 1, !.active = @ + 1, !.last = now]

\* History: an eviction forgets what the client was admitted to so far.
Evict(room) ==
  forgotten' = [c \in Clients |-> IF Purged[c] # room[c] THEN Len(log) ELSE forgotten[c]]

\* mutant: the slot is not returned
KeepSlot(r) ==
  /\ phase' = [phase EXCEPT ![r] = "idle"]
  /\ client' = [client EXCEPT ![r] = NoClient]
  /\ UNCHANGED free

\* The slot is returned.
ReturnSlot(r) ==
  /\ WakeNext(free + 1, queue, [phase EXCEPT ![r] = "idle"])
  /\ client' = [client EXCEPT ![r] = NoClient]

\* A refusal keeps the purge, the eviction and the rolled counts.
Decide(r) ==
  LET c == client[r] IN
  /\ phase[r] = "taken"
  /\ globalDay' = DayOf(now)
  /\ \/ \E room \in RoomFor(Purged, c) :
          LET b == Rolled(IF room[c] = NoBucket THEN NewBucket ELSE room[c]) IN
          /\ Evict(room)
          /\ \/ /\ Allowed(b)
                /\ bucket' = [room EXCEPT ![c] = Counted(b)]
                /\ globalCount' = GlobalToday + 1
                /\ active' = active + 1
                /\ log' = Append(log, <<c, now>>)
                /\ phase' = [phase EXCEPT ![r] = "body"]
                /\ UNCHANGED <<free, client>>
             \/ /\ ~Allowed(b)
                /\ bucket' = [room EXCEPT ![c] = b]
                /\ globalCount' = GlobalToday
                /\ ReturnSlot(r)
                /\ UNCHANGED <<active, log>>
     \/ /\ RoomFor(Purged, c) = {}
        /\ bucket' = Purged
        /\ globalCount' = GlobalToday
        /\ ReturnSlot(r)
        /\ UNCHANGED <<active, log, forgotten>>
  /\ UNCHANGED <<now, queue>>

\* max(0, n - 1)
OneLess(n) == IF n = 0 THEN 0 ELSE n - 1

\* The body ends, normally, by an exception or by cancellation.  The bucket is
\* looked up again.
Finish(r) ==
  LET c == client[r] IN
  /\ phase[r] = "body"
  /\ bucket' = IF bucket[c] = NoBucket THEN bucket
               ELSE [bucket EXCEPT ![c].active = OneLess(@), ![c].last = now]
  /\ active' = OneLess(active)
  /\ ReturnSlot(r)
  /\ UNCHANGED <<now, queue, globalDay, globalCount, log, forgotten>>

Tick ==
  /\ now < MaxClock
  /\ now' = now + 1
  /\ UNCHANGED <<semaphore, phase, client, counters>>

Init ==
  /\ now = 0
  /\ free = Slots
  /\ queue = << >>
  /\ phase = [r \in Requests |-> "idle"]
  /\ client = [r \in Requests |-> NoClient]
  /\ bucket = [c \in Clients |-> NoBucket]
  /\ globalDay = 0          \* None; the first decision sets it, with count 0
  /\ globalCount = 0
  /\ active = 0
  /\ log = << >>
  /\ forgotten = [c \in Clients |-> 0]

Step(r) ==
  \/ \E c \in Clients : Ask(r, c)
  \/ Acquire(r)
  \/ TakeSlot(r)
  \/ GiveUp(r)
  \/ Decide(r)
  \/ Finish(r)

Next == Tick \/ \E r \in Requests : Step(r)

Spec == Init /\ [][Next]_vars

\* The event loop runs what is ready, and a body ends by its own deadline.
\* Nothing is assumed of timeouts.
Fairness ==
  \A r \in Requests :
    WF_vars(Acquire(r)) /\ WF_vars(TakeSlot(r)) /\ WF_vars(Decide(r)) /\ WF_vars(Finish(r))

FairSpec == Spec /\ Fairness

-----------------------------------------------------------------------------
(* Properties *)

InPhase(P) == {r \in Requests : phase[r] \in P}

\* Every slot is either free or with exactly one request: no timeout, refusal or
\* cancellation, at whatever moment of the hand-over, loses or doubles one.
SlotsConserved == free + Cardinality(InPhase({"granted", "taken", "body"})) = Slots

\* The counts of attempts in progress are exact, per client and in total, so the
\* floor at zero never hides a miscount and no bucket in use is ever deleted.
ActiveExact ==
  /\ active = Cardinality(InPhase({"body"}))
  /\ \A c \in Clients :
       LET n == Cardinality({r \in InPhase({"body"}) : client[r] = c}) IN
       IF bucket[c] = NoBucket THEN n = 0 ELSE bucket[c].active = n

\* The admissions of client c since it was last evicted, by their place in log.
AttemptsOf(c) == {i \in (forgotten[c] + 1)..Len(log) : log[i][1] = c}

\* Those of a set of admissions made from time t on, or on day d.
Since(attempts, t) == {i \in attempts : log[i][2] >= t}
OnDay(attempts, d) == {i \in attempts : DayOf(log[i][2]) = d}

\* A client that is not evicted is never admitted more than WindowLimit times
\* in any stretch of time as long as the window, wherever the stretch lies,
\* nor more than DayLimit times in one KST day: a bucket that expires, or a
\* count that starts again, takes nothing with it that still mattered.
ClientRespected ==
  \A c \in Clients :
    /\ \A t \in 0..MaxClock :
         Cardinality(Since(AttemptsOf(c), t) \ Since(AttemptsOf(c), t + Window)) <= WindowLimit
    /\ \A d \in 0..DayOf(MaxClock) : Cardinality(OnDay(AttemptsOf(c), d)) <= DayLimit

\* All clients together, evicted or not, are never admitted more than
\* GlobalDayLimit times in one KST day.
GlobalRespected ==
  \A d \in 0..DayOf(MaxClock) : Cardinality(OnDay(1..Len(log), d)) <= GlobalDayLimit

\* The map of buckets never outgrows its bound.
BucketsBounded == Cardinality(Held(bucket)) <= MaxBuckets

\* Whoever asks is answered, admitted or refused, even if no timeout ever ends
\* a wait: no wake-up is lost.
Answered ==
  \A r \in Requests :
    phase[r] \in {"asking", "queued", "granted", "taken"} ~> phase[r] \in {"idle", "body"}

=============================================================================
