---------------------------- MODULE ProviderFetch ----------------------------
(***************************************************************************)
(* Asking the providers of one security at once, with timeouts, retries, a *)
(* total deadline and a cache: src/app/providers/base.py.                  *)
(*                                                                         *)
(* fetch_required_providers runs a task for each provider and waits for    *)
(* all of them until the total deadline; each task keeps its own deadline, *)
(* read when the task starts, and each attempt has a time limit of its     *)
(* own, which starts to run after it was computed.  When the fan-out gives *)
(* up it cancels the tasks; one whose answer was at hand then still ends   *)
(* with it, and may even start its next attempt.                           *)
(***************************************************************************)
EXTENDS Naturals, Sequences, FiniteSets

CONSTANTS
  Providers, Queries,
  Says,           \* what a call of each provider may come to
  RetryCount, AttemptTimeout, TotalDeadline,
  Ttl,            \* of the cache
  Rounds,         \* bound: fan-outs
  MaxClock,       \* bound: ticks
  NoQuery, NoEntry, NoResult

ASSUME FetchAssumption ==
  /\ RetryCount \in Nat /\ Ttl \in Nat
  /\ AttemptTimeout \in Nat \ {0} /\ TotalDeadline \in Nat \ {0}
  /\ Providers # {} /\ MaxClock \in Nat

VARIABLES
  now, round, stage,
  query,     \* of the present fan-out
  overall,   \* when the fan-out gives up
  task,      \* what each provider's task is at
  attempt,   \* the index of its attempt
  deadline,  \* deadline_at
  limit,     \* attempt_timeout; while the attempt runs, when it is over
  code,      \* timeout_error_code
  result,
  cache,
  report,    \* what the fan-out returns
  served,    \* history: when the cache served each provider
  heard      \* history: what the calls of each provider came to in this fan-out

vars == <<now, round, stage, query, overall, task, attempt, deadline, limit, code, result,
          cache, report, served, heard>>

fanOut == <<round, stage, query, overall, report>>
Nothing == [p \in {} |-> {}]

Running == {"created", "next", "ready", "calling"}
\* A provider that raises, that raises a timeout of its own, and whose result
\* breaks the contract of create_provider_result.
Raised == {"raise", "own_timeout", "broken"}
TimedOut == {"attempt_timeout", "total_deadline_exceeded"}
Retryable == TimedOut \cup {"provider_unavailable"}
Conclusive == {"ok", "no_data", "invalid_query", "unauthorized", "rate_limited", "parse_error"}

\* What a call may come to; no provider speaks of the total deadline itself.
ASSUME SaysAssumption ==
  \A p \in Providers :
    Says[p] \subseteq Conclusive \cup Raised \cup {"attempt_timeout", "provider_unavailable"}

\* Only a success, and a total timeout, say when they came about.
Result(s) ==
  [said |-> s, cached |-> FALSE,
   of |-> IF s = "ok" THEN query ELSE NoQuery,
   at |-> IF s \in {"ok", "total_deadline_exceeded"} THEN now ELSE 0]

Init ==
  /\ now = 0 /\ round = 0 /\ stage = "idle" /\ query = NoQuery /\ overall = 0
  /\ task = [p \in Providers |-> "none"]
  /\ attempt = [p \in Providers |-> 0] /\ deadline = [p \in Providers |-> 0]
  /\ limit = [p \in Providers |-> 0] /\ code = [p \in Providers |-> "attempt_timeout"]
  /\ result = [p \in Providers |-> NoResult]
  /\ cache = [p \in Providers |-> [q \in Queries |-> NoEntry]]
  /\ report = Nothing
  /\ served = [p \in Providers |-> 0] /\ heard = [p \in Providers |-> << >>]

Tick == now < MaxClock /\ now' = now + 1 /\ UNCHANGED <<round, stage, query, overall, task,
          attempt, deadline, limit, code, result, cache, report, served, heard>>

FanOut(q) ==
  /\ stage = "idle" /\ round < Rounds
  /\ round' = round + 1 /\ stage' = "waiting" /\ query' = q /\ overall' = now + TotalDeadline
  /\ task' = [p \in Providers |-> "created"]
  /\ attempt' = [p \in Providers |-> 0] /\ deadline' = [p \in Providers |-> 0]
  /\ limit' = [p \in Providers |-> 0] /\ code' = [p \in Providers |-> "attempt_timeout"]
  /\ result' = [p \in Providers |-> NoResult]
  /\ report' = Nothing
  /\ served' = [p \in Providers |-> 0] /\ heard' = [p \in Providers |-> << >>]
  /\ UNCHANGED <<now, cache>>

-----------------------------------------------------------------------------
(* One provider: fetch_with_policy, _call_once *)

\* mutant: an entry of exactly the time to live is still served
FreshAtTtl(e) == Ttl # 0 /\ e # NoEntry /\ now - e.stored <= Ttl

\* InMemoryTTLCache.get
Fresh(e) == Ttl # 0 /\ e # NoEntry /\ now - e.stored < Ttl

\* The task ends with a result; its variables are gone.
Ends(p, r) ==
  /\ task' = [task EXCEPT ![p] = "done"] /\ result' = [result EXCEPT ![p] = r]
  /\ deadline' = [deadline EXCEPT ![p] = 0] /\ limit' = [limit EXCEPT ![p] = 0]
  /\ code' = [code EXCEPT ![p] = "attempt_timeout"] /\ attempt' = [attempt EXCEPT ![p] = 0]

GoesOn(p, t) == task' = [task EXCEPT ![p] = t] /\ UNCHANGED result

\* The task starts: the cache is served first, and an entry that is too old removed.
Start(p) ==
  LET e == cache[p][query] IN
  /\ task[p] = "created"
  /\ \/ /\ Fresh(e)
        /\ Ends(p, [e.result EXCEPT !.cached = TRUE])
        /\ served' = [served EXCEPT ![p] = now]
        /\ UNCHANGED cache
     \/ /\ ~Fresh(e)
        /\ GoesOn(p, "next")
        /\ deadline' = [deadline EXCEPT ![p] = now + TotalDeadline]
        /\ cache' = [cache EXCEPT ![p][query] = IF Ttl = 0 THEN @ ELSE NoEntry]
        /\ UNCHANGED <<attempt, limit, code, served>>
  /\ UNCHANGED <<now, fanOut, heard>>

\* The next attempt is prepared, if time is left.
Prepare(p) ==
  /\ task[p] = "next"
  /\ \/ /\ now >= deadline[p]
        /\ Ends(p, Result("total_deadline_exceeded"))
     \/ /\ now < deadline[p]
        /\ GoesOn(p, "ready")
        /\ LET remaining == deadline[p] - now IN
             /\ limit' = [limit EXCEPT ![p] =
                            IF AttemptTimeout <= remaining THEN AttemptTimeout ELSE remaining]
             /\ code' = [code EXCEPT ![p] = IF AttemptTimeout <= remaining
                            THEN "attempt_timeout" ELSE "total_deadline_exceeded"]
        /\ UNCHANGED <<attempt, deadline>>
  /\ UNCHANGED <<now, fanOut, cache, served, heard>>

\* wait_for starts its own clock.
Call(p) ==
  /\ task[p] = "ready"
  /\ task' = [task EXCEPT ![p] = "calling"]
  /\ limit' = [limit EXCEPT ![p] = @ + now]
  /\ UNCHANGED <<now, fanOut, attempt, deadline, code, result, cache, served, heard>>

\* The status _call_once makes of the outcome.
Said(p, outcome) ==
  CASE outcome = "raise" -> "provider_unavailable"
    [] outcome = "own_timeout" -> code[p]
    [] OTHER -> outcome

\* mutant: a provider that limits its clients is served again
SettlesAgain(p, s) == s \notin Retryable \cup {"rate_limited"} \/ attempt[p] = RetryCount

\* Whether the attempt's status ends the task.
Settles(p, s) == s \notin Retryable \/ attempt[p] = RetryCount

\* The attempt ends: a success is kept in the cache; what may go better is tried
\* again.
AttemptEnds(p, s) ==
  /\ cache' = [cache EXCEPT ![p][query] = IF s = "ok" /\ Ttl # 0
                 THEN [stored |-> now, result |-> Result(s)] ELSE @]
  /\ \/ /\ Settles(p, s)
        /\ Ends(p, Result(s))
     \/ /\ ~Settles(p, s)
        /\ attempt' = [attempt EXCEPT ![p] = @ + 1]
        /\ GoesOn(p, "next")
        /\ UNCHANGED <<deadline, limit, code>>
  /\ UNCHANGED <<now, fanOut, served>>

Answer(p, outcome) ==
  /\ task[p] = "calling" /\ outcome # "broken"
  /\ heard' = [heard EXCEPT ![p] = Append(@, outcome)]
  /\ AttemptEnds(p, Said(p, outcome))

\* A result that breaks the contract ends the task at once: the error leaves
\* fetch_with_policy and run_provider catches it.
AnswerBroken(p) ==
  /\ task[p] = "calling"
  /\ heard' = [heard EXCEPT ![p] = Append(@, "broken")]
  /\ Ends(p, Result("provider_unavailable"))
  /\ UNCHANGED <<now, fanOut, cache, served>>

AttemptTimesOut(p) ==
  /\ task[p] = "calling" /\ now >= limit[p]
  /\ heard' = [heard EXCEPT ![p] = Append(@, code[p])]
  /\ AttemptEnds(p, code[p])

-----------------------------------------------------------------------------
(* The fan-out: fetch_required_providers *)

Done(p) == task[p] = "done"
\* Outside its rounds, and for the tasks, nothing else changes.
tasks == <<now, round, query, overall, task, attempt, deadline, limit, code, result, cache, served, heard>>

\* All tasks ended in time.
Gathered ==
  /\ stage = "waiting" /\ \A p \in Providers : Done(p)
  /\ stage' = "collected" /\ report' = result
  /\ UNCHANGED tasks

\* The time is up: the tasks are cancelled.
Expire ==
  /\ stage = "waiting" /\ now >= overall /\ \E p \in Providers : ~Done(p)
  /\ stage' = "cancelling"
  /\ UNCHANGED <<tasks, report>>

\* The cancellation reaches a task, wherever it is.
Stop(p) ==
  /\ stage \in {"cancelling", "collected"} /\ task[p] \in Running
  /\ task' = [task EXCEPT ![p] = "cancelled"]
  /\ UNCHANGED <<now, fanOut, attempt, deadline, limit, code, result, cache, served, heard>>

Cancelled == \/ \E p \in Providers : task[p] = "cancelled"
             \/ \A p \in Providers : Done(p)

\* mutant: the time-out is reported of every provider
CollectNothing ==
  /\ stage = "cancelling" /\ Cancelled
  /\ stage' = "collected"
  /\ report' = [p \in Providers |-> Result("total_deadline_exceeded")]
  /\ UNCHANGED tasks

\* As soon as one task is cancelled, or all ended after all, the results there are
\* are collected.
Collect ==
  /\ stage = "cancelling" /\ Cancelled
  /\ stage' = "collected"
  /\ report' = [p \in Providers |->
                  IF Done(p) THEN result[p] ELSE Result("total_deadline_exceeded")]
  /\ UNCHANGED tasks

\* The fan-out returns once no task runs any more.
Return ==
  /\ stage = "collected" /\ \A p \in Providers : task[p] \notin Running
  /\ stage' = "idle"
  /\ UNCHANGED <<tasks, report>>

Steps(p) == Start(p) \/ Prepare(p) \/ Call(p) \/ AttemptTimesOut(p) \/ Stop(p)
Answers(p) ==
  \/ "broken" \in Says[p] /\ AnswerBroken(p)
  \/ \E o \in Says[p] : Answer(p, o)
FanOutSteps == Gathered \/ Expire \/ Collect \/ Return

Next ==
  \/ Tick \/ FanOutSteps
  \/ \E q \in Queries : now + TotalDeadline <= MaxClock /\ FanOut(q)
  \/ \E p \in Providers : Steps(p) \/ Answers(p)

FetchSpec == Init /\ [][Next]_vars

\* Time passes, the event loop runs what is ready, and a cancelled provider ends;
\* no provider has to answer.
FairFetchSpec ==
  /\ FetchSpec
  /\ WF_vars(Tick) /\ WF_vars(FanOutSteps)
  /\ \A p \in Providers : WF_vars(Steps(p))

-----------------------------------------------------------------------------
(* Properties *)

\* A provider is served again only after a failure that may pass, and never more
\* often than allowed; what is reported of it is what its last call came to, or
\* that time was up; and time is only said to be up when it was, unless the
\* provider raised a timeout of its own in an attempt that was cut short.
AttemptsKept ==
  \A p \in Providers :
    LET n == Len(heard[p]) IN
    /\ n <= RetryCount + 1
    /\ \A i \in 1..n - 1 : heard[p][i] \in Retryable \cup {"raise", "own_timeout"}
    /\ Done(p) /\ ~result[p].cached =>
         CASE result[p].said = "total_deadline_exceeded" ->
                result[p].at >= overall \/ "own_timeout" \in {heard[p][i] : i \in 1..n}
           [] result[p].said = "provider_unavailable" ->
                heard[p][n] \in {"raise", "broken", "provider_unavailable"}
           [] result[p].said = "attempt_timeout" -> heard[p][n] \in {"attempt_timeout", "own_timeout"}
           [] OTHER -> heard[p][n] = result[p].said

\* What comes from the cache was a success for the same query, obtained within the
\* time to live, though fan-outs that were cut off wrote to the cache meanwhile.
CacheHonest ==
  \A p \in Providers : Done(p) /\ result[p].said = "ok" =>
    /\ result[p].of = query
    /\ result[p].cached => served[p] - result[p].at < Ttl

\* The fan-out does what ProviderReport promises: it ends though no provider ever
\* answers, and reports every conclusion that was there when it collected.
Failure(s) == [said |-> s, cached |-> FALSE, of |-> NoQuery, at |-> 0]
Failures == {Failure(s) : s \in Retryable}
Concluded == {Failure(s) : s \in Conclusive \ {"ok"}}
               \cup [said : {"ok"}, cached : BOOLEAN, of : Queries, at : 0..MaxClock]

Conclusions ==
  [p \in {q \in Providers : /\ Done(q) /\ result[q].said \in Conclusive
                            /\ report = Nothing \/ report[q] = result[q]} |-> result[p]]

\* The time of a time-out is left out.
Reported ==
  [p \in DOMAIN report |->
     IF report[p].said \in Retryable THEN Failure(report[p].said) ELSE report[p]]

Promised == INSTANCE ProviderReport WITH
  asking <- stage # "idle", concluded <- Conclusions, report <- Reported,
  Conclusions <- Concluded

EveryProviderReported == Promised!Spec
=============================================================================
