-------------------------- MODULE ProviderFetchProofs --------------------------
(***************************************************************************)
(* Proofs about ProviderFetch: how often a provider is asked, what is      *)
(* reported of it, what the cache serves, and that the fan-out takes the   *)
(* steps of ProviderReport.                                                *)
(***************************************************************************)
EXTENDS ProviderFetch, TLAPS

-----------------------------------------------------------------------------
(* The inductive invariant *)

Times == 0..MaxClock
Outcomes == Conclusive \cup Retryable \cup Raised

\* Outcomes after which a provider may be asked again.
MayPass == Retryable \cup {"raise", "own_timeout"}

Results ==
  [said : Conclusive \cup Retryable, cached : BOOLEAN, of : Queries \cup {NoQuery}, at : Times]

\* What the cache may keep for a query: a success for it, stored when it came.
Success(q, t, c) == [said |-> "ok", cached |-> c, of |-> q, at |-> t]
Keepable(q) == {[stored |-> t, result |-> Success(q, t, FALSE)] : t \in Times}

CacheTyped ==
  /\ cache = [p \in Providers |-> [q \in Queries |-> cache[p][q]]]
  /\ \A p \in Providers, q \in Queries : cache[p][q] \in Keepable(q) \cup {NoEntry}

Types ==
  /\ now \in Times /\ overall \in Nat
  /\ stage \in {"idle", "waiting", "cancelling", "collected"}
  /\ stage # "idle" => query \in Queries
  /\ task \in [Providers -> Running \cup {"none", "done", "cancelled"}]
  /\ attempt \in [Providers -> Nat] /\ deadline \in [Providers -> Nat]
  /\ limit \in [Providers -> Nat] /\ code \in [Providers -> TimedOut]
  /\ result \in [Providers -> Results \cup {NoResult}]
  /\ served \in [Providers -> Nat]
  /\ heard \in [Providers -> Seq(Outcomes)]
  /\ CacheTyped

\* A provider is asked again only after what may pass, as often as allowed.
Counted(p) ==
  LET n == Len(heard[p]) IN
  /\ n <= RetryCount + 1
  /\ \A i \in 1..n - 1 : heard[p][i] \in MayPass
  /\ task[p] \in {"none", "created"} => n = 0 /\ attempt[p] = 0
  /\ task[p] \in {"next", "ready", "calling"} =>
       /\ n = attempt[p] /\ n <= RetryCount
       /\ \A i \in 1..n : heard[p][i] \in MayPass

\* The task's deadline is not before the fan-out's, and an attempt that the
\* deadline cuts short is not cut off before it.
InTime(p) ==
  /\ task[p] \in {"next", "ready", "calling"} => overall <= deadline[p]
  /\ code[p] = "total_deadline_exceeded" =>
       /\ task[p] = "ready" => overall <= now + limit[p]
       /\ task[p] = "calling" => overall <= limit[p]

\* The result r agrees with what was heard, h.
Agrees(r, h) ==
  LET n == Len(h) IN
  /\ r.said = "total_deadline_exceeded" =>
       r.at >= overall \/ \E i \in 1..n : h[i] = "own_timeout"
  /\ r.said = "provider_unavailable" => h[n] \in {"raise", "broken", "provider_unavailable"}
  /\ r.said = "attempt_timeout" => h[n] \in {"attempt_timeout", "own_timeout"}
  /\ r.said \in Conclusive => h[n] = r.said

\* A result r of a task that heard h, or was served from the cache at t.
Sound(r, h, t) ==
  /\ r \in Results
  /\ r.said = "ok" => r.of = query
  /\ r.cached => r.said = "ok" /\ t - r.at < Ttl
  /\ ~r.cached => Agrees(r, h)
  /\ r.said # "ok" => r.of = NoQuery /\ ~r.cached
  /\ r.said \notin {"ok", "total_deadline_exceeded"} => r.at = 0

Reports(p) == Done(p) => Sound(result[p], heard[p], served[p])

Orderly ==
  /\ overall <= now + TotalDeadline
  /\ stage = "idle" => \A p \in Providers : task[p] \notin Running
  /\ stage = "waiting" => \A p \in Providers : task[p] # "cancelled"
  /\ stage \in {"waiting", "cancelling"} => report = Nothing
  /\ stage = "collected" => DOMAIN report = Providers
  /\ report # Nothing =>
       \A p \in Providers :
         /\ report[p] \in Results
         /\ Done(p) => report[p] = result[p] \/ report[p].said = "total_deadline_exceeded"
         /\ ~Done(p) => report[p].said = "total_deadline_exceeded"

FInv ==
  /\ Types
  /\ Orderly
  /\ \A p \in Providers : Counted(p) /\ InTime(p) /\ Reports(p)

-----------------------------------------------------------------------------
(* One task's step *)

\* Nothing of another provider changes.
OnlyOf(p) ==
  \A q \in Providers \ {p} :
    /\ task'[q] = task[q] /\ attempt'[q] = attempt[q] /\ deadline'[q] = deadline[q]
    /\ limit'[q] = limit[q] /\ code'[q] = code[q] /\ result'[q] = result[q]
    /\ served'[q] = served[q] /\ heard'[q] = heard[q]

LEMMA StepOf ==
  ASSUME FInv, Types', NEW p \in Providers, OnlyOf(p), UNCHANGED <<now, fanOut>>,
         task[p] \in Running,
         task'[p] = "cancelled" => stage \in {"cancelling", "collected"},
         Counted(p)', InTime(p)', Reports(p)'
  PROVE  FInv'
<1>1. UNCHANGED <<round, stage, query, overall, report>>
  BY DEF fanOut
<1>2. ASSUME NEW q \in Providers \ {p}
      PROVE  Counted(q)' /\ InTime(q)' /\ Reports(q)'
  <2>1. Counted(q) /\ InTime(q) /\ Reports(q)
    BY DEF FInv
  <2>2. /\ task'[q] = task[q] /\ attempt'[q] = attempt[q] /\ deadline'[q] = deadline[q]
        /\ limit'[q] = limit[q] /\ code'[q] = code[q] /\ result'[q] = result[q]
        /\ served'[q] = served[q] /\ heard'[q] = heard[q]
    BY DEF OnlyOf
  <2>3. Counted(q)'
    BY <2>1, <2>2 DEF Counted
  <2>4. InTime(q)'
    BY <1>1, <2>1, <2>2 DEF InTime
  <2>5. Reports(q)'
    BY <1>1, <2>1, <2>2 DEF Reports, Done, Sound, Agrees
  <2> QED
    BY <2>3, <2>4, <2>5
<1>3. stage # "idle" /\ ~Done(p)
  BY DEF FInv, Orderly, Running, Done
<1>4. Orderly'
  <2>1. overall' <= now' + TotalDeadline
    BY <1>1 DEF FInv, Orderly
  <2>2. stage' = "waiting" => \A q \in Providers : task'[q] # "cancelled"
    BY <1>1 DEF FInv, Orderly, OnlyOf
  <2>3. report' # Nothing =>
          \A q \in Providers :
            /\ report'[q] \in Results
            /\ Done(q)' => report'[q] = result'[q] \/ report'[q].said = "total_deadline_exceeded"
            /\ ~Done(q)' => report'[q].said = "total_deadline_exceeded"
    <3> SUFFICES ASSUME report # Nothing, NEW q \in Providers
                 PROVE  /\ report[q] \in Results
                        /\ Done(q)' => report[q] = result'[q]
                                         \/ report[q].said = "total_deadline_exceeded"
                        /\ ~Done(q)' => report[q].said = "total_deadline_exceeded"
      BY <1>1
    <3>1. CASE q = p
      BY <1>3, <3>1 DEF FInv, Orderly
    <3>2. CASE q # p
      BY <3>2 DEF FInv, Orderly, OnlyOf, Done
    <3> QED
      BY <3>1, <3>2
  <2> QED
    BY <1>1, <1>3, <2>1, <2>2, <2>3 DEF FInv, Orderly
<1> QED
  BY <1>2, <1>4 DEF FInv

\* A task ends with a sound result.
LEMMA EndsKeeps ==
  ASSUME FInv, NEW p \in Providers, task[p] \in Running, NEW r, Ends(p, r),
         UNCHANGED <<now, fanOut>>, CacheTyped',
         NEW h \in Seq(Outcomes), heard' = [heard EXCEPT ![p] = h],
         NEW t \in Nat, served' = [served EXCEPT ![p] = t],
         Len(h) <= RetryCount + 1, \A i \in 1..Len(h) - 1 : h[i] \in MayPass,
         Sound(r, h, t)
  PROVE  FInv'
<1>1. r \in Results
  BY DEF Sound
<1>2. Types'
  BY <1>1 DEF FInv, Types, Ends, fanOut, TimedOut
<1>3. /\ task'[p] = "done" /\ result'[p] = r /\ heard'[p] = h /\ served'[p] = t
      /\ code'[p] = "attempt_timeout"
  BY DEF FInv, Types, Ends
<1>4. OnlyOf(p)
  BY DEF FInv, Types, Ends, OnlyOf
<1>5. Counted(p)'
  BY <1>3 DEF Counted
<1>6. InTime(p)'
  BY <1>3 DEF InTime
<1>7. Reports(p)'
  <2>1. query' = query /\ overall' = overall
    BY DEF fanOut
  <2> QED
    BY <1>3, <2>1 DEF Reports, Sound, Agrees
<1> QED
  BY <1>2, <1>3, <1>4, <1>5, <1>6, <1>7, StepOf

\* What is kept for a query is nothing, or a success for it.
LEMMA CacheSet ==
  ASSUME CacheTyped, NEW p \in Providers, NEW q \in Queries,
         NEW v, v = NoEntry \/ v \in Keepable(q),
         cache' = [cache EXCEPT ![p][q] = v]
  PROVE  CacheTyped'
<1> DEFINE f == [cache[p] EXCEPT ![q] = v]
<1>1. /\ cache = [a \in Providers |-> [u \in Queries |-> cache[a][u]]]
      /\ \A a \in Providers, u \in Queries : cache[a][u] \in Keepable(u) \cup {NoEntry}
  BY DEF CacheTyped
<1>2. cache' = [cache EXCEPT ![p] = f]
  OBVIOUS
<1>3. cache[p] = [u \in Queries |-> cache[p][u]]
  BY <1>1
<1>4. /\ f = [u \in Queries |-> f[u]]
      /\ \A u \in Queries : f[u] = IF u = q THEN v ELSE cache[p][u]
  BY <1>3
<1> HIDE DEF f
<1>5. \A a \in Providers : cache'[a] = IF a = p THEN f ELSE cache[a]
  BY <1>1, <1>2
<1>6. cache' = [a \in Providers |-> [u \in Queries |-> cache'[a][u]]]
  <2>1. ASSUME NEW a \in Providers
        PROVE  cache'[a] = [u \in Queries |-> cache'[a][u]]
    <3>1. CASE a = p
      BY <1>4, <1>5, <3>1
    <3>2. CASE a # p
      <4>1. cache'[a] = cache[a] /\ cache[a] = [u \in Queries |-> cache[a][u]]
        BY <1>1, <1>5, <3>2
      <4> QED
        BY <4>1
    <3> QED
      BY <3>1, <3>2
  <2>2. cache' = [a \in Providers |-> cache'[a]]
    BY <1>1, <1>2
  <2> QED
    BY <2>1, <2>2
<1>7. \A a \in Providers, u \in Queries : cache'[a][u] \in Keepable(u) \cup {NoEntry}
  BY <1>1, <1>4, <1>5
<1> QED
  BY <1>6, <1>7 DEF CacheTyped

LEMMA StartKeeps ==
  ASSUME FInv, NEW p \in Providers, Start(p)
  PROVE  FInv'
<1> DEFINE e == cache[p][query]
<1>1. task[p] = "created" /\ task[p] \in Running /\ UNCHANGED <<now, fanOut, heard>>
  BY DEF Start, Running
<1>2. stage # "idle" /\ query \in Queries
  BY <1>1 DEF FInv, Orderly, Types
<1>3. Len(heard[p]) = 0 /\ attempt[p] = 0 /\ heard[p] \in Seq(Outcomes)
  BY <1>1 DEF FInv, Counted, Types
<1>4. CASE Fresh(e)
  <2>1. PICK x \in Times : e = [stored |-> x, result |-> Success(query, x, FALSE)]
    BY <1>2, <1>4 DEF FInv, Types, CacheTyped, Keepable, Fresh
  <2> DEFINE w == e.result
             r == [w EXCEPT !.cached = TRUE]
  <2>2. w \in Results /\ w.said = "ok" /\ w.of = query /\ w.at = x
    <3>1. w = [said |-> "ok", cached |-> FALSE, of |-> query, at |-> x]
      BY <2>1 DEF Success
    <3> HIDE DEF e, w
    <3> QED
      BY <1>2, <3>1 DEF Results, Conclusive
  <2>3. Ends(p, r) /\ served' = [served EXCEPT ![p] = now] /\ UNCHANGED cache
    BY <1>4 DEF Start
  <2>4. now - x < Ttl
    BY <1>4, <2>1 DEF Fresh
  <2>5. r \in Results /\ r.said = "ok" /\ r.of = query /\ r.at = x /\ r.cached
    <3> HIDE DEF w
    <3> QED
      BY <2>2 DEF Results
  <2>6. Sound(r, heard[p], now)
    <3> HIDE DEF r
    <3> QED
      BY <2>4, <2>5 DEF Sound
  <2>7. heard' = [heard EXCEPT ![p] = heard[p]]
    BY <1>1 DEF FInv, Types
  <2>8. now \in Nat /\ CacheTyped'
    <3>1. now \in Nat
      BY FetchAssumption DEF FInv, Types, Times
    <3>2. CacheTyped /\ cache' = cache
      BY <2>3 DEF FInv, Types
    <3> QED
      BY <3>1, <3>2 DEF CacheTyped
  <2>9. Len(heard[p]) <= RetryCount + 1
    BY <1>3, FetchAssumption
  <2>10. \A i \in 1..Len(heard[p]) - 1 : heard[p][i] \in MayPass
    BY <1>3
  <2> HIDE DEF r
  <2> QED
    BY <1>1, <1>3, <2>3, <2>6, <2>7, <2>8, <2>9, <2>10, EndsKeeps
<1>5. CASE ~Fresh(e)
  <2>1. /\ task' = [task EXCEPT ![p] = "next"] /\ UNCHANGED result
        /\ deadline' = [deadline EXCEPT ![p] = now + TotalDeadline]
        /\ cache' = [cache EXCEPT ![p][query] = IF Ttl = 0 THEN @ ELSE NoEntry]
        /\ UNCHANGED <<attempt, limit, code, served>>
    BY <1>5 DEF Start, GoesOn
  <2>2. now + TotalDeadline \in Nat
    BY FetchAssumption DEF FInv, Types, Times
  <2>3. CacheTyped'
    <3>1. CacheTyped /\ (e = NoEntry \/ e \in Keepable(query))
      BY <1>2 DEF FInv, Types, CacheTyped
    <3>2. CASE Ttl = 0
      BY <1>2, <2>1, <3>1, <3>2, CacheSet
    <3>3. CASE Ttl # 0
      <4>1. cache' = [cache EXCEPT ![p][query] = NoEntry]
        BY <2>1, <3>3
      <4> QED
        BY <1>2, <3>1, <4>1, CacheSet
    <3> QED
      BY <3>2, <3>3
  <2>4. Types'
    BY <1>1, <2>1, <2>2, <2>3 DEF FInv, Types, fanOut, Running
  <2>5. task'[p] = "next" /\ deadline'[p] = now + TotalDeadline
    BY <2>1 DEF FInv, Types
  <2>6. OnlyOf(p)
    BY <1>1, <2>1 DEF FInv, Types, OnlyOf
  <2>7. Counted(p)'
    BY <1>1, <1>3, <2>1, <2>5, FetchAssumption DEF Counted
  <2>8. InTime(p)'
    BY <1>1, <2>1, <2>5 DEF InTime, FInv, Orderly, fanOut
  <2>9. Reports(p)'
    BY <2>5 DEF Reports, Done
  <2> QED
    BY <1>1, <2>4, <2>5, <2>6, <2>7, <2>8, <2>9, StepOf
<1> QED
  BY <1>4, <1>5

\* What a result says, when it says it of the present time.
LEMMA ResultTyped ==
  ASSUME FInv, stage # "idle", NEW s \in Conclusive \cup Retryable
  PROVE  /\ Result(s) \in Results /\ Result(s).said = s /\ Result(s).cached = FALSE
         /\ Result(s).of = IF s = "ok" THEN query ELSE NoQuery
         /\ Result(s).at = IF s \in {"ok", "total_deadline_exceeded"} THEN now ELSE 0
<1>1. now \in Times /\ 0 \in Times /\ query \in Queries
  BY FetchAssumption DEF FInv, Types, Times
<1> QED
  BY <1>1 DEF Result, Results

\* So it is sound as soon as it agrees with what was heard.
LEMMA ResultSound ==
  ASSUME FInv, stage # "idle", NEW s \in Conclusive \cup Retryable, NEW h, NEW t,
         s = "total_deadline_exceeded" =>
           now >= overall \/ \E i \in 1..Len(h) : h[i] = "own_timeout",
         s = "provider_unavailable" => h[Len(h)] \in {"raise", "broken", "provider_unavailable"},
         s = "attempt_timeout" => h[Len(h)] \in {"attempt_timeout", "own_timeout"},
         s \in Conclusive => h[Len(h)] = s
  PROVE  Sound(Result(s), h, t)
<1> DEFINE r == Result(s)
<1>1. /\ r \in Results /\ r.said = s /\ ~r.cached
      /\ r.of = IF s = "ok" THEN query ELSE NoQuery
      /\ r.at = IF s \in {"ok", "total_deadline_exceeded"} THEN now ELSE 0
  BY ResultTyped
<1> HIDE DEF r
<1>2. Agrees(r, h)
  BY <1>1 DEF Agrees
<1>3. Sound(r, h, t)
  BY <1>1, <1>2 DEF Sound
<1> QED
  BY <1>3 DEF r

LEMMA PrepareKeeps ==
  ASSUME FInv, NEW p \in Providers, Prepare(p)
  PROVE  FInv'
<1>1. /\ task[p] = "next" /\ task[p] \in Running /\ stage # "idle"
      /\ UNCHANGED <<now, fanOut, cache, served, heard>>
  BY DEF Prepare, Running, FInv, Orderly
<1>2. /\ Counted(p) /\ overall <= deadline[p]
      /\ now \in Nat /\ deadline[p] \in Nat /\ overall \in Nat /\ heard[p] \in Seq(Outcomes)
  BY <1>1, FetchAssumption DEF FInv, InTime, Types, Times
<1>3. CASE now >= deadline[p]
  <2> DEFINE r == Result("total_deadline_exceeded")
  <2>1. Ends(p, r)
    BY <1>1, <1>2, <1>3 DEF Prepare
  <2>2. now >= overall
    BY <1>2, <1>3
  <2>3. Sound(r, heard[p], served[p])
    BY <1>1, <2>2, ResultSound DEF Retryable, TimedOut, Conclusive
  <2>4. /\ heard' = [heard EXCEPT ![p] = heard[p]] /\ served' = [served EXCEPT ![p] = served[p]]
        /\ served[p] \in Nat
    BY <1>1 DEF FInv, Types
  <2>5. CacheTyped'
    BY <1>1 DEF FInv, Types, CacheTyped
  <2>6. Len(heard[p]) <= RetryCount + 1 /\ \A i \in 1..Len(heard[p]) - 1 : heard[p][i] \in MayPass
    BY <1>2 DEF Counted
  <2> HIDE DEF r
  <2> QED
    BY <1>1, <1>2, <2>1, <2>3, <2>4, <2>5, <2>6, EndsKeeps
<1>4. CASE now < deadline[p]
  <2> DEFINE remaining == deadline[p] - now
             short == AttemptTimeout <= remaining
             l == IF short THEN AttemptTimeout ELSE remaining
             c == IF short THEN "attempt_timeout" ELSE "total_deadline_exceeded"
  <2>1. /\ task' = [task EXCEPT ![p] = "ready"] /\ UNCHANGED <<result, attempt, deadline>>
        /\ limit' = [limit EXCEPT ![p] = l] /\ code' = [code EXCEPT ![p] = c]
    BY <1>2, <1>4 DEF Prepare, GoesOn
  <2>2. l \in Nat /\ c \in TimedOut /\ (c = "total_deadline_exceeded" => now + l = deadline[p])
    BY <1>2, <1>4, FetchAssumption DEF TimedOut
  <2> HIDE DEF l, c
  <2>3. CacheTyped'
    BY <1>1 DEF FInv, Types, CacheTyped
  <2>4. Types'
    BY <1>1, <2>1, <2>2, <2>3 DEF FInv, Types, fanOut, Running
  <2>5. task'[p] = "ready" /\ limit'[p] = l /\ code'[p] = c
    BY <2>1 DEF FInv, Types
  <2>6. OnlyOf(p)
    BY <1>1, <2>1 DEF FInv, Types, OnlyOf
  <2>7. Counted(p)'
    BY <1>1, <1>2, <2>1, <2>5 DEF Counted
  <2>8. InTime(p)'
    BY <1>1, <1>2, <2>1, <2>2, <2>5 DEF InTime, fanOut
  <2>9. Reports(p)'
    BY <2>5 DEF Reports, Done
  <2> QED
    BY <1>1, <2>4, <2>5, <2>6, <2>7, <2>8, <2>9, StepOf
<1> QED
  BY <1>2, <1>3, <1>4

LEMMA CallKeeps ==
  ASSUME FInv, NEW p \in Providers, Call(p)
  PROVE  FInv'
<1>1. /\ task[p] = "ready" /\ task[p] \in Running
      /\ task' = [task EXCEPT ![p] = "calling"]
      /\ limit' = [limit EXCEPT ![p] = limit[p] + now]
      /\ UNCHANGED <<now, fanOut, attempt, deadline, code, result, cache, served, heard>>
  BY DEF Call, Running
<1>2. Counted(p) /\ InTime(p) /\ now \in Nat /\ limit[p] \in Nat
  BY FetchAssumption DEF FInv, Types, Times
<1>3. CacheTyped'
  BY <1>1 DEF FInv, Types, CacheTyped
<1>4. Types'
  BY <1>1, <1>2, <1>3 DEF FInv, Types, fanOut, Running
<1>5. task'[p] = "calling" /\ limit'[p] = limit[p] + now
  BY <1>1 DEF FInv, Types
<1>6. OnlyOf(p)
  BY <1>1 DEF FInv, Types, OnlyOf
<1>7. Counted(p)'
  BY <1>1, <1>2, <1>5 DEF Counted
<1>8. InTime(p)'
  BY <1>1, <1>2, <1>5 DEF InTime, fanOut
<1>9. Reports(p)'
  BY <1>5 DEF Reports, Done
<1> QED
  BY <1>1, <1>4, <1>5, <1>6, <1>7, <1>8, <1>9, StepOf

\* An attempt of which o was heard and which makes s of it ends the task, or
\* leaves it within its attempts.
LEMMA AttemptKeeps ==
  ASSUME FInv, NEW p \in Providers, task[p] = "calling",
         NEW o \in Outcomes, NEW s \in Conclusive \cup Retryable,
         heard' = [heard EXCEPT ![p] = Append(@, o)], AttemptEnds(p, s),
         s = "total_deadline_exceeded" => now >= overall \/ o = "own_timeout",
         s = "provider_unavailable" => o \in {"raise", "provider_unavailable"},
         s = "attempt_timeout" => o \in {"attempt_timeout", "own_timeout"},
         s \in Conclusive => o = s,
         s \in Retryable => o \in MayPass
  PROVE  FInv'
<1> DEFINE h == Append(heard[p], o)
           n == Len(heard[p])
<1>1. /\ task[p] \in Running /\ stage # "idle" /\ query \in Queries
      /\ UNCHANGED <<now, fanOut, served>>
  BY DEF AttemptEnds, Running, FInv, Orderly, Types
<1>2. /\ heard[p] \in Seq(Outcomes) /\ n = attempt[p] /\ n <= RetryCount /\ n \in Nat
      /\ \A i \in 1..n : heard[p][i] \in MayPass
  BY DEF FInv, Counted, Types
<1>3. /\ h \in Seq(Outcomes) /\ Len(h) = n + 1 /\ h[n + 1] = o
      /\ \A i \in 1..n : h[i] \in MayPass
  BY <1>2
<1>4. heard' = [heard EXCEPT ![p] = h]
  OBVIOUS
<1>5. CacheTyped'
  <2> DEFINE v == [stored |-> now, result |-> Result(s)]
             w == IF s = "ok" /\ Ttl # 0 THEN v ELSE cache[p][query]
  <2>1. CacheTyped /\ now \in Times
    BY DEF FInv, Types
  <2>2. cache' = [cache EXCEPT ![p][query] = w]
    BY DEF AttemptEnds
  <2>3. w = NoEntry \/ w \in Keepable(query)
    <3>1. CASE s = "ok" /\ Ttl # 0
      BY <2>1, <3>1 DEF Keepable, Success, Result
    <3>2. CASE ~(s = "ok" /\ Ttl # 0)
      BY <1>1, <2>1, <3>2 DEF CacheTyped
    <3> QED
      BY <3>1, <3>2
  <2> HIDE DEF w
  <2> QED
    BY <1>1, <2>1, <2>2, <2>3, CacheSet
<1> HIDE DEF h
<1>6. CASE Settles(p, s)
  <2> DEFINE r == Result(s)
  <2>1. Ends(p, r)
    BY <1>6 DEF AttemptEnds
  <2>2. Sound(r, h, served[p])
    <3>1. o = "own_timeout" => \E i \in 1..Len(h) : h[i] = "own_timeout"
      BY <1>2, <1>3
    <3>2. h[Len(h)] = o
      BY <1>3
    <3> QED
      BY <1>1, <3>1, <3>2, ResultSound
  <2>3. served' = [served EXCEPT ![p] = served[p]] /\ served[p] \in Nat
    BY <1>1 DEF FInv, Types
  <2>4. Len(h) <= RetryCount + 1 /\ \A i \in 1..Len(h) - 1 : h[i] \in MayPass
    BY <1>2, <1>3, FetchAssumption
  <2> HIDE DEF r
  <2> QED
    BY <1>1, <1>3, <1>4, <1>5, <2>1, <2>2, <2>3, <2>4, EndsKeeps
<1>7. CASE ~Settles(p, s)
  <2>1. /\ attempt' = [attempt EXCEPT ![p] = attempt[p] + 1]
        /\ task' = [task EXCEPT ![p] = "next"] /\ UNCHANGED <<result, deadline, limit, code>>
    BY <1>7 DEF AttemptEnds, GoesOn
  <2>2. s \in Retryable /\ attempt[p] # RetryCount
    BY <1>7 DEF Settles
  <2>3. o \in MayPass
    BY <2>2
  <2>4. Types'
    BY <1>1, <1>3, <1>4, <1>5, <2>1, SMTT(20) DEF FInv, Types, fanOut, Running
  <2>5. task'[p] = "next" /\ attempt'[p] = attempt[p] + 1 /\ heard'[p] = h
    BY <1>4, <2>1 DEF FInv, Types
  <2>6. OnlyOf(p)
    BY <1>1, <1>4, <2>1 DEF FInv, Types, OnlyOf
  <2>7. Counted(p)'
    <3>1. \A i \in 1..(n + 1) : h[i] \in MayPass
      BY <1>2, <1>3, <2>3
    <3>2. n + 1 <= RetryCount
      BY <1>2, <2>2, FetchAssumption
    <3> QED
      BY <1>2, <1>3, <2>5, <3>1, <3>2, FetchAssumption DEF Counted
  <2>8. InTime(p)'
    BY <1>1, <2>1, <2>5 DEF InTime, FInv, fanOut
  <2>9. Reports(p)'
    BY <2>5 DEF Reports, Done
  <2> QED
    BY <1>1, <2>4, <2>5, <2>6, <2>7, <2>8, <2>9, StepOf
<1> QED
  BY <1>6, <1>7

LEMMA AnswerKeeps ==
  ASSUME FInv, NEW p \in Providers, NEW o \in Says[p], Answer(p, o)
  PROVE  FInv'
<1>1. /\ task[p] = "calling" /\ heard' = [heard EXCEPT ![p] = Append(@, o)]
      /\ AttemptEnds(p, Said(p, o)) /\ code[p] \in TimedOut
  BY DEF Answer, FInv, Types
<1>2. o \in (Conclusive \cup Raised \cup {"attempt_timeout", "provider_unavailable"}) \ {"broken"}
  BY SaysAssumption DEF Answer
<1>3. CASE o = "raise"
  <2>1. Said(p, o) = "provider_unavailable"
    BY <1>3 DEF Said
  <2> QED
    BY <1>1, <1>3, <2>1, AttemptKeeps DEF Outcomes, Raised, Conclusive, Retryable, TimedOut, MayPass
<1>4. CASE o = "own_timeout"
  <2>1. Said(p, o) = code[p]
    BY <1>4 DEF Said
  <2> QED
    BY <1>1, <1>4, <2>1, AttemptKeeps DEF Outcomes, Raised, Conclusive, Retryable, TimedOut, MayPass
<1>5. CASE o \notin {"raise", "own_timeout"}
  <2>1. Said(p, o) = o
    BY <1>5 DEF Said
  <2>2. o \in Conclusive \cup {"attempt_timeout", "provider_unavailable"}
    BY <1>2, <1>5 DEF Raised
  <2> QED
    BY <1>1, <2>1, <2>2, AttemptKeeps DEF Outcomes, Raised, Conclusive, Retryable, TimedOut, MayPass
<1> QED
  BY <1>3, <1>4, <1>5

LEMMA TimeOutKeeps ==
  ASSUME FInv, NEW p \in Providers, AttemptTimesOut(p)
  PROVE  FInv'
<1>1. /\ task[p] = "calling" /\ heard' = [heard EXCEPT ![p] = Append(@, code[p])]
      /\ AttemptEnds(p, code[p]) /\ code[p] \in TimedOut /\ now >= limit[p]
  BY DEF AttemptTimesOut, FInv, Types
<1>2. code[p] = "total_deadline_exceeded" => now >= overall
  <2>1. now \in Nat /\ limit[p] \in Nat /\ overall \in Nat /\ InTime(p)
    BY FetchAssumption DEF FInv, Types, Times
  <2> QED
    BY <1>1, <2>1 DEF InTime
<1> QED
  BY <1>1, <1>2, AttemptKeeps DEF Outcomes, Raised, Conclusive, Retryable, TimedOut, MayPass

LEMMA BrokenKeeps ==
  ASSUME FInv, NEW p \in Providers, AnswerBroken(p)
  PROVE  FInv'
<1> DEFINE h == Append(heard[p], "broken")
           n == Len(heard[p])
           r == Result("provider_unavailable")
<1>1. /\ task[p] = "calling" /\ task[p] \in Running /\ stage # "idle" /\ Ends(p, r)
      /\ heard' = [heard EXCEPT ![p] = h] /\ UNCHANGED <<now, fanOut, cache, served>>
  BY DEF AnswerBroken, Running, FInv, Orderly
<1>2. /\ heard[p] \in Seq(Outcomes) /\ n <= RetryCount /\ n \in Nat
      /\ \A i \in 1..n : heard[p][i] \in MayPass
  BY <1>1 DEF FInv, Counted, Types
<1>3. /\ h \in Seq(Outcomes) /\ Len(h) = n + 1 /\ h[n + 1] = "broken"
      /\ \A i \in 1..n : h[i] \in MayPass
  BY <1>2 DEF Outcomes, Raised
<1> HIDE DEF h
<1>4. Sound(r, h, served[p])
  <2>1. h[Len(h)] = "broken"
    BY <1>3
  <2> QED
    BY <1>1, <2>1, ResultSound DEF Retryable, TimedOut, Conclusive
<1>5. served' = [served EXCEPT ![p] = served[p]] /\ served[p] \in Nat /\ CacheTyped'
  BY <1>1 DEF FInv, Types, CacheTyped
<1>6. Len(h) <= RetryCount + 1 /\ \A i \in 1..Len(h) - 1 : h[i] \in MayPass
  BY <1>2, <1>3, FetchAssumption
<1> HIDE DEF r
<1> QED
  BY <1>1, <1>3, <1>4, <1>5, <1>6, EndsKeeps

LEMMA StopKeeps ==
  ASSUME FInv, NEW p \in Providers, Stop(p)
  PROVE  FInv'
<1>1. /\ stage \in {"cancelling", "collected"} /\ task[p] \in Running
      /\ task' = [task EXCEPT ![p] = "cancelled"]
      /\ UNCHANGED <<now, fanOut, attempt, deadline, limit, code, result, cache, served, heard>>
  BY DEF Stop
<1>2. CacheTyped'
  BY <1>1 DEF FInv, Types, CacheTyped
<1>3. Types'
  BY <1>1, <1>2 DEF FInv, Types, fanOut
<1>4. task'[p] = "cancelled"
  BY <1>1 DEF FInv, Types
<1>5. OnlyOf(p)
  BY <1>1 DEF FInv, Types, OnlyOf
<1>6. Counted(p)'
  BY <1>1, <1>4 DEF Counted, FInv
<1>7. InTime(p)' /\ Reports(p)'
  BY <1>4 DEF InTime, Reports, Done
<1> QED
  BY <1>1, <1>3, <1>4, <1>5, <1>6, <1>7, StepOf

-----------------------------------------------------------------------------
(* The fan-out's steps *)

\* A step of the fan-out that leaves the tasks alone.
LEMMA TasksSame ==
  ASSUME FInv, UNCHANGED tasks
  PROVE  \A p \in Providers : Counted(p)' /\ InTime(p)' /\ Reports(p)'
BY DEF FInv, tasks, Counted, InTime, Reports, Done, Sound, Agrees

LEMMA TasksTyped ==
  ASSUME FInv, UNCHANGED tasks, stage' \in {"idle", "cancelling", "collected"},
         stage # "idle"
  PROVE  Types'
BY DEF FInv, Types, CacheTyped, tasks

LEMMA FanOutStepsKeep ==
  ASSUME FInv, FanOutSteps
  PROVE  FInv'
<1>1. UNCHANGED tasks /\ stage # "idle" /\ stage' \in {"idle", "cancelling", "collected"}
  BY DEF FanOutSteps, Gathered, Expire, Collect, Return, tasks
<1>2. Types' /\ \A p \in Providers : Counted(p)' /\ InTime(p)' /\ Reports(p)'
  BY <1>1, TasksSame, TasksTyped
<1>3. Orderly'
  <2>1. now' = now /\ overall' = overall /\ task' = task /\ result' = result
    BY <1>1 DEF tasks
  <2>2. CASE Gathered
    <3>1. /\ stage' = "collected" /\ report' = result /\ DOMAIN result = Providers
          /\ \A p \in Providers : Done(p) /\ result[p] \in Results
      BY <2>2 DEF Gathered, FInv, Types, Reports, Sound
    <3> QED
      BY <2>1, <3>1 DEF FInv, Orderly, Done
  <2>3. CASE Expire
    BY <2>1, <2>3 DEF Expire, tasks, FInv, Orderly, Done
  <2>4. CASE Collect
    <3> DEFINE r == Result("total_deadline_exceeded")
    <3>1. /\ stage' = "collected"
          /\ report' = [p \in Providers |-> IF Done(p) THEN result[p] ELSE r]
      BY <2>4 DEF Collect
    <3>2. r \in Results /\ r.said = "total_deadline_exceeded"
      BY <1>1, ResultTyped DEF Retryable, TimedOut
    <3> HIDE DEF r
    <3>3. \A p \in Providers : Done(p) => result[p] \in Results
      BY DEF FInv, Reports, Sound
    <3>4. \A p \in Providers :
            /\ report'[p] \in Results
            /\ Done(p)' => report'[p] = result'[p]
            /\ ~Done(p)' => report'[p].said = "total_deadline_exceeded"
      BY <2>1, <3>1, <3>2, <3>3 DEF Done
    <3> QED
      BY <2>1, <3>1, <3>4 DEF FInv, Orderly
  <2>5. CASE Return
    BY <2>1, <2>5 DEF Return, tasks, FInv, Orderly, Done
  <2> QED
    BY <2>2, <2>3, <2>4, <2>5 DEF FanOutSteps
<1> QED
  BY <1>2, <1>3 DEF FInv

LEMMA FanOutKeeps ==
  ASSUME FInv, NEW q \in Queries, FanOut(q)
  PROVE  FInv'
<1>1. Types'
  <2>1. now + TotalDeadline \in Nat /\ "attempt_timeout" \in TimedOut
    BY FetchAssumption DEF FInv, Types, Times, TimedOut
  <2>2. CacheTyped'
    BY DEF FanOut, FInv, Types, CacheTyped
  <2> QED
    BY <2>1, <2>2 DEF FanOut, FInv, Types, Running
<1>2. ASSUME NEW p \in Providers
      PROVE  Counted(p)' /\ InTime(p)' /\ Reports(p)'
  <2>1. task'[p] = "created" /\ heard'[p] = << >> /\ attempt'[p] = 0 /\ code'[p] = "attempt_timeout"
    BY DEF FanOut
  <2> QED
    BY <2>1, FetchAssumption DEF Counted, InTime, Reports, Done
<1>3. Orderly'
  BY FetchAssumption DEF FanOut, Orderly, FInv, Types, Times, Running
<1> QED
  BY <1>1, <1>2, <1>3 DEF FInv

LEMMA TickKeeps ==
  ASSUME FInv, Tick
  PROVE  FInv'
<1>1. /\ now' = now + 1 /\ now \in Nat /\ now' \in Times /\ overall \in Nat
      /\ UNCHANGED <<round, stage, query, overall, task, attempt, deadline, limit, code,
                     result, cache, report, served, heard>>
  BY FetchAssumption DEF Tick, FInv, Types, Times
<1>2. CacheTyped'
  BY <1>1 DEF FInv, Types, CacheTyped
<1>3. Types'
  BY <1>1, <1>2 DEF FInv, Types
<1>4. Orderly'
  BY <1>1, FetchAssumption DEF FInv, Orderly, Done
<1>5. ASSUME NEW p \in Providers
      PROVE  Counted(p)' /\ InTime(p)' /\ Reports(p)'
  <2>1. Counted(p) /\ InTime(p) /\ Reports(p) /\ limit[p] \in Nat
    BY DEF FInv, Types
  <2> QED
    BY <1>1, <2>1 DEF Counted, InTime, Reports, Done, Sound, Agrees
<1> QED
  BY <1>3, <1>4, <1>5 DEF FInv

LEMMA InitFInv == Init => FInv
<1> SUFFICES ASSUME Init PROVE FInv
  OBVIOUS
<1>1. Types
  <2>1. CacheTyped
    BY DEF Init, CacheTyped
  <2> QED
    BY <2>1, FetchAssumption DEF Init, Types, Times, Running, TimedOut
<1>2. \A p \in Providers : Counted(p) /\ InTime(p) /\ Reports(p)
  BY FetchAssumption DEF Init, Counted, InTime, Reports, Done
<1>3. Orderly
  BY FetchAssumption DEF Init, Orderly, Running
<1> QED
  BY <1>1, <1>2, <1>3 DEF FInv

LEMMA StepFInv == FInv /\ [Next]_vars => FInv'
<1> SUFFICES ASSUME FInv, [Next]_vars PROVE FInv'
  OBVIOUS
<1>1. CASE UNCHANGED vars
  <2>1. \A p \in Providers : Counted(p)' /\ InTime(p)' /\ Reports(p)'
    BY <1>1, TasksSame DEF vars, tasks
  <2>2. Types' /\ Orderly'
    BY <1>1 DEF vars, FInv, Types, CacheTyped, Orderly, Done
  <2> QED
    BY <2>1, <2>2 DEF FInv
<1>2. CASE Tick
  BY <1>2, TickKeeps
<1>3. CASE FanOutSteps
  BY <1>3, FanOutStepsKeep
<1>4. ASSUME NEW q \in Queries, FanOut(q) PROVE FInv'
  BY <1>4, FanOutKeeps
<1>5. ASSUME NEW p \in Providers, Steps(p) \/ Answers(p) PROVE FInv'
  BY <1>5, StartKeeps, PrepareKeeps, CallKeeps, TimeOutKeeps, StopKeeps, BrokenKeeps,
     AnswerKeeps DEF Steps, Answers
<1> QED
  BY <1>1, <1>2, <1>3, <1>4, <1>5 DEF Next

-----------------------------------------------------------------------------
(* What follows *)

THEOREM Inductive == FetchSpec => []FInv
BY InitFInv, StepFInv, PTL DEF FetchSpec

\* No provider is asked too often or after a conclusive answer, and what is
\* reported of it is what it came to, however its deadline, its retries and the
\* fan-out's own deadline fall together.
THEOREM Attempts == FetchSpec => []AttemptsKept
<1>1. FInv => AttemptsKept
  <2> SUFFICES ASSUME FInv, NEW p \in Providers
               PROVE  LET n == Len(heard[p]) IN
                      /\ n <= RetryCount + 1
                      /\ \A i \in 1..n - 1 : heard[p][i] \in Retryable \cup {"raise", "own_timeout"}
                      /\ Done(p) /\ ~result[p].cached =>
                           CASE result[p].said = "total_deadline_exceeded" ->
                                  result[p].at >= overall \/ "own_timeout" \in {heard[p][i] : i \in 1..n}
                             [] result[p].said = "provider_unavailable" ->
                                  heard[p][n] \in {"raise", "broken", "provider_unavailable"}
                             [] result[p].said = "attempt_timeout" -> heard[p][n] \in {"attempt_timeout", "own_timeout"}
                             [] OTHER -> heard[p][n] = result[p].said
    BY DEF AttemptsKept
  <2> DEFINE n == Len(heard[p])
             r == result[p]
  <2>1. Counted(p) /\ Reports(p)
    BY DEF FInv
  <2>2. ASSUME Done(p), ~r.cached
        PROVE  CASE r.said = "total_deadline_exceeded" ->
                      r.at >= overall \/ "own_timeout" \in {heard[p][i] : i \in 1..n}
                 [] r.said = "provider_unavailable" ->
                      heard[p][n] \in {"raise", "broken", "provider_unavailable"}
                 [] r.said = "attempt_timeout" -> heard[p][n] \in {"attempt_timeout", "own_timeout"}
                 [] OTHER -> heard[p][n] = r.said
    <3>1. Agrees(r, heard[p]) /\ r.said \in Conclusive \cup Retryable
      BY <2>1, <2>2 DEF Reports, Sound, Results
    <3> QED
      BY <3>1 DEF Agrees, Retryable, TimedOut, Conclusive
  <2> QED
    BY <2>1, <2>2 DEF Counted, MayPass
<1> QED
  BY <1>1, Inductive, PTL

\* The cache serves only successes for the query, obtained within the time to
\* live, though fan-outs that were cut off wrote to it meanwhile.
THEOREM Cached == FetchSpec => []CacheHonest
<1>1. FInv => CacheHonest
  BY DEF FInv, Reports, Sound, CacheHonest
<1> QED
  BY <1>1, Inductive, PTL

-----------------------------------------------------------------------------
(* The fan-out takes the steps of ProviderReport *)

\* The conclusion of p counts: it was there when the report was made.
Counts(p) ==
  /\ Done(p) /\ result[p].said \in Conclusive
  /\ report = Nothing \/ report[p] = result[p]

LEMMA ConclusionsAre ==
  Conclusions = [p \in {q \in Providers : Counts(q)} |-> result[p]]
BY DEF Conclusions, Counts

LEMMA FailureIs ==
  ASSUME NEW r \in Results, NEW s, r.said = s, ~r.cached, r.of = NoQuery, r.at = 0
  PROVE  r = Failure(s)
<1>1. r.cached = FALSE
  BY DEF Results
<1> QED
  BY <1>1 DEF Results, Failure

\* What is concluded is what ProviderReport takes for a conclusion.
LEMMA ConcludedIs ==
  ASSUME NEW r, NEW h, NEW t, Sound(r, h, t), query \in Queries, r.said \in Conclusive
  PROVE  r \in Concluded
<1>1. r \in Results
  BY DEF Sound
<1>2. CASE r.said = "ok"
  <2>1. r.of \in Queries /\ r.at \in 0..MaxClock /\ r.cached \in BOOLEAN
    BY <1>1, <1>2 DEF Sound, Results, Times
  <2> QED
    BY <1>1, <1>2, <2>1 DEF Concluded, Results
<1>3. CASE r.said # "ok"
  <2>1. r.said # "total_deadline_exceeded"
    BY DEF Conclusive
  <2>2. r = Failure(r.said)
    BY <1>1, <1>3, <2>1, FailureIs DEF Sound
  <2> QED
    BY <1>3, <2>2 DEF Concluded
<1> QED
  BY <1>2, <1>3

\* A step of one task concludes, or changes nothing outside.
LEMMA TaskPromised ==
  ASSUME FInv, FInv', NEW p \in Providers, OnlyOf(p), UNCHANGED <<now, fanOut>>,
         task[p] \in Running
  PROVE  [Promised!Next]_(Promised!vars)
<1>1. UNCHANGED <<round, stage, query, overall, report>>
  BY DEF fanOut
<1>2. stage # "idle" /\ query \in Queries /\ ~Done(p)
  BY DEF FInv, Orderly, Running, Done, Types
<1>3. \A q \in Providers \ {p} : Counts(q)' <=> Counts(q)
  BY <1>1 DEF Counts, OnlyOf, Done
<1>4. \A q \in Providers \ {p} : result'[q] = result[q]
  BY DEF OnlyOf
<1>5. ~Counts(p)
  BY <1>2 DEF Counts
<1>6. Reported' = Reported /\ (stage' # "idle") = (stage # "idle")
  BY <1>1 DEF Reported
<1>7. Conclusions' = [q \in {u \in Providers : Counts(u)'} |-> result'[q]]
  BY DEF Conclusions, Counts
<1>8. CASE Counts(p)'
  <2>1. report = Nothing
    <3> SUFFICES ASSUME report # Nothing PROVE FALSE
      OBVIOUS
    <3>1. report[p].said = "total_deadline_exceeded"
      BY <1>2 DEF FInv, Orderly
    <3>2. report[p] = result'[p] /\ result'[p].said \in Conclusive
      BY <1>1, <1>8 DEF Counts
    <3> QED
      BY <3>1, <3>2 DEF Conclusive
  <2>2. result'[p] \in Concluded
    <3>1. Sound(result'[p], heard'[p], served'[p]) /\ result'[p].said \in Conclusive
      <4>1. Reports(p)' /\ Done(p)' /\ result'[p].said \in Conclusive
        BY <1>8 DEF FInv, Counts
      <4> QED
        BY <1>1, <4>1 DEF Reports, Sound, Agrees
    <3> QED
      BY <1>2, <3>1, ConcludedIs
  <2>3. Reported = Promised!Nothing
    <3>1. DOMAIN report = {}
      BY <2>1 DEF Nothing
    <3> QED
      BY <3>1 DEF Reported, Promised!Nothing
  <2>4. DOMAIN Conclusions = {q \in Providers : Counts(q)}
    BY ConclusionsAre
  <2>5. \A q \in DOMAIN Conclusions : Conclusions[q] = result[q]
    BY ConclusionsAre
  <2>6. {q \in Providers : Counts(q)'} = {q \in Providers : Counts(q)} \cup {p}
    BY <1>3, <1>8
  <2>7. Conclusions' = [q \in DOMAIN Conclusions \cup {p} |->
                          IF q = p THEN result'[p] ELSE Conclusions[q]]
    BY <1>4, <1>7, <2>4, <2>5, <2>6
  <2>8. Promised!Conclude(p, result'[p])
    BY <1>2, <1>5, <1>6, <2>3, <2>4, <2>7 DEF Promised!Conclude
  <2> QED
    BY <2>2, <2>8 DEF Promised!Next
<1>9. CASE ~Counts(p)'
  <2>1. {q \in Providers : Counts(q)'} = {q \in Providers : Counts(q)}
    BY <1>3, <1>5, <1>9
  <2>2. \A q \in {u \in Providers : Counts(u)} : result'[q] = result[q]
    BY <1>4, <1>5
  <2>3. Conclusions' = Conclusions
    BY <1>7, <2>1, <2>2, ConclusionsAre
  <2> QED
    BY <1>6, <2>3 DEF Promised!vars
<1> QED
  BY <1>8, <1>9

LEMMA OneTask ==
  ASSUME FInv, NEW p \in Providers, Steps(p) \/ Answers(p)
  PROVE  OnlyOf(p) /\ UNCHANGED <<now, fanOut>> /\ task[p] \in Running
<1>1. UNCHANGED <<now, fanOut>> /\ task[p] \in Running
  BY DEF Steps, Answers, Start, Prepare, Call, AttemptTimesOut, Stop, AnswerBroken, Answer,
         AttemptEnds, Running
<1>2. CASE Start(p)
  BY <1>2 DEF Start, Ends, GoesOn, FInv, Types, OnlyOf
<1>3. CASE Prepare(p)
  BY <1>3 DEF Prepare, Ends, GoesOn, FInv, Types, OnlyOf
<1>4. CASE Call(p)
  BY <1>4 DEF Call, FInv, Types, OnlyOf
<1>5. CASE AttemptTimesOut(p)
  BY <1>5 DEF AttemptTimesOut, AttemptEnds, Ends, GoesOn, FInv, Types, OnlyOf
<1>6. CASE Stop(p)
  BY <1>6 DEF Stop, FInv, Types, OnlyOf
<1>7. CASE AnswerBroken(p)
  BY <1>7 DEF AnswerBroken, Ends, FInv, Types, OnlyOf
<1>8. CASE \E o \in Says[p] : Answer(p, o)
  BY <1>8 DEF Answer, AttemptEnds, Ends, GoesOn, FInv, Types, OnlyOf
<1> QED
  BY <1>1, <1>2, <1>3, <1>4, <1>5, <1>6, <1>7, <1>8 DEF Steps, Answers

\* The report names the conclusions there are, and the rest as failures.
LEMMA ReportPromised ==
  ASSUME FInv, UNCHANGED tasks, stage \in {"waiting", "cancelling"}, stage' = "collected",
         NEW r, r.said = "total_deadline_exceeded",
         report' = [p \in Providers |-> IF Done(p) THEN result[p] ELSE r]
  PROVE  Promised!Next
<1> DEFINE D == {p \in Providers : Counts(p)}
           failed == [p \in Providers \ D |-> Failure(report'[p].said)]
<1>1. report = Nothing /\ task' = task /\ result' = result
  BY DEF FInv, Orderly, tasks
<1>2. \A p \in Providers : Counts(p) <=> Done(p) /\ result[p].said \in Conclusive
  BY <1>1 DEF Counts
<1>3. report' # Nothing
  <2>1. DOMAIN report' = Providers /\ DOMAIN Nothing = {}
    BY DEF Nothing
  <2> QED
    BY <2>1, FetchAssumption
<1>4. \A p \in Providers : Counts(p)' <=> Counts(p)
  <2> SUFFICES ASSUME NEW p \in Providers PROVE Counts(p)' <=> Counts(p)
    OBVIOUS
  <2>1. Done(p)' <=> Done(p)
    BY <1>1 DEF Done
  <2>2. Done(p) => report'[p] = result'[p]
    BY <1>1
  <2> QED
    BY <1>1, <1>2, <2>1, <2>2 DEF Counts
<1>5. Conclusions' = Conclusions
  <2>1. Conclusions' = [q \in {u \in Providers : Counts(u)'} |-> result'[q]]
    BY DEF Conclusions, Counts
  <2>2. {q \in Providers : Counts(q)'} = {q \in Providers : Counts(q)}
    BY <1>4
  <2> QED
    BY <1>1, <2>1, <2>2, ConclusionsAre
<1>6. DOMAIN Conclusions = D /\ \A p \in D : Conclusions[p] = result[p]
  BY ConclusionsAre
<1>7. \A p \in Providers \ D : report'[p].said \in Retryable
  <2> SUFFICES ASSUME NEW p \in Providers, ~Counts(p)
               PROVE  report'[p].said \in Retryable
    OBVIOUS
  <2>1. CASE Done(p)
    <3>1. result[p] \in Results /\ report'[p] = result[p]
      BY <2>1 DEF FInv, Reports, Sound
    <3> QED
      BY <1>2, <2>1, <3>1 DEF Results
  <2>2. CASE ~Done(p)
    BY <2>2 DEF Retryable, TimedOut
  <2> QED
    BY <2>1, <2>2
<1>8. failed \in [Providers \ D -> Failures]
  BY <1>7 DEF Failures
<1>9. Reported' = [p \in Providers |-> IF p \in D THEN Conclusions[p] ELSE failed[p]]
  <2>1. Reported' = [p \in Providers |->
                       IF report'[p].said \in Retryable THEN Failure(report'[p].said)
                                                        ELSE report'[p]]
    BY DEF Reported
  <2>2. \A p \in D : report'[p] = result[p] /\ report'[p].said \notin Retryable
    BY <1>2 DEF Conclusive, Retryable, TimedOut
  <2>3. \A p \in Providers \ D : failed[p] = Failure(report'[p].said)
    OBVIOUS
  <2> HIDE DEF failed, D
  <2> QED
    BY <1>6, <1>7, <2>1, <2>2, <2>3
<1>10. Reported = Promised!Nothing
  <2>1. DOMAIN report = {}
    BY <1>1 DEF Nothing
  <2> QED
    BY <2>1 DEF Reported, Promised!Nothing
<1> HIDE DEF failed, D
<1>11. Promised!Report
  BY <1>5, <1>6, <1>8, <1>9, <1>10 DEF Promised!Report
<1> QED
  BY <1>11 DEF Promised!Next

LEMMA StepPromised ==
  ASSUME FInv, FInv', [Next]_vars
  PROVE  [Promised!Next]_(Promised!vars)
<1>1. CASE UNCHANGED vars
  BY <1>1 DEF vars, Promised!vars, Conclusions, Reported, Done
<1>2. CASE Tick
  BY <1>2 DEF Tick, Promised!vars, Conclusions, Reported, Done
<1>3. ASSUME NEW p \in Providers, Steps(p) \/ Answers(p)
      PROVE  [Promised!Next]_(Promised!vars)
  BY <1>3, OneTask, TaskPromised
<1>4. ASSUME NEW q \in Queries, FanOut(q) PROVE Promised!Next
  <2>1. /\ stage = "idle" /\ stage' # "idle" /\ report' = Nothing
        /\ \A p \in Providers : ~Done(p)'
    BY <1>4 DEF FanOut, Done
  <2>2. Conclusions' = Promised!Nothing
    <3>1. Conclusions' = [p \in {} |-> result'[p]]
      BY <2>1 DEF Conclusions
    <3> QED
      BY <3>1 DEF Promised!Nothing
  <2>3. Reported' = Promised!Nothing
    <3>1. DOMAIN report' = {}
      BY <2>1 DEF Nothing
    <3> QED
      BY <3>1 DEF Reported, Promised!Nothing
  <2> QED
    BY <2>1, <2>2, <2>3 DEF Promised!Next, Promised!Begin
<1>5. CASE Gathered
  <2>1. /\ UNCHANGED tasks /\ stage = "waiting" /\ stage' = "collected"
        /\ report' = result /\ \A p \in Providers : Done(p)
    BY <1>5 DEF Gathered
  <2> DEFINE r == Result("total_deadline_exceeded")
  <2>2. r.said = "total_deadline_exceeded"
    BY <2>1, ResultTyped DEF Retryable, TimedOut
  <2>3. report' = [p \in Providers |-> IF Done(p) THEN result[p] ELSE r]
    BY <2>1 DEF FInv, Types
  <2> HIDE DEF r
  <2> QED
    BY <2>1, <2>2, <2>3, ReportPromised
<1>6. CASE Collect
  <2> DEFINE r == Result("total_deadline_exceeded")
  <2>1. r.said = "total_deadline_exceeded"
    BY <1>6, ResultTyped DEF Collect, Retryable, TimedOut
  <2>2. /\ UNCHANGED tasks /\ stage = "cancelling" /\ stage' = "collected"
        /\ report' = [p \in Providers |-> IF Done(p) THEN result[p] ELSE r]
    BY <1>6 DEF Collect
  <2> HIDE DEF r
  <2> QED
    BY <2>1, <2>2, ReportPromised
<1>7. CASE Expire
  <2>1. UNCHANGED <<task, result, report>> /\ stage # "idle" /\ stage' # "idle"
    BY <1>7 DEF Expire, tasks
  <2> QED
    BY <2>1 DEF Promised!vars, Conclusions, Reported, Done
<1>8. CASE Return
  <2>1. UNCHANGED <<task, result, report>> /\ stage = "collected" /\ stage' = "idle"
    BY <1>8 DEF Return, tasks
  <2>2. Reported # Promised!Nothing
    <3>1. DOMAIN Reported = Providers
      BY <2>1 DEF Reported, FInv, Orderly
    <3>2. DOMAIN Promised!Nothing = {}
      BY DEF Promised!Nothing
    <3> QED
      BY <3>1, <3>2, FetchAssumption
  <2>3. UNCHANGED <<Conclusions, Reported>>
    BY <2>1 DEF Conclusions, Reported, Done
  <2> QED
    BY <2>1, <2>2, <2>3 DEF Promised!Next, Promised!Return
<1> QED
  BY <1>1, <1>2, <1>3, <1>4, <1>5, <1>6, <1>7, <1>8 DEF Next, FanOutSteps

\* Whatever the providers do, the fan-out begins, hears conclusions, reports
\* and returns only as ProviderReport allows: one report, which names each
\* provider, and every conclusion as it was when the report was made.
THEOREM ReportsAsPromised ==
  FetchSpec => Promised!Init /\ [][Promised!Next]_(Promised!vars)
<1>1. Init => Promised!Init
  <2> SUFFICES ASSUME Init PROVE Promised!Init
    OBVIOUS
  <2>1. Conclusions = Promised!Nothing
    <3>1. Conclusions = [p \in {} |-> result[p]]
      BY DEF Init, Conclusions, Done
    <3> QED
      BY <3>1 DEF Promised!Nothing
  <2>2. Reported = Promised!Nothing
    <3>1. DOMAIN report = {}
      BY DEF Init, Nothing
    <3> QED
      BY <3>1 DEF Reported, Promised!Nothing
  <2> QED
    BY <2>1, <2>2 DEF Init, Promised!Init
<1>2. FInv /\ FInv' /\ [Next]_vars => [Promised!Next]_(Promised!vars)
  BY StepPromised
<1> QED
  BY <1>1, <1>2, Inductive, PTL DEF FetchSpec

================================================================================
