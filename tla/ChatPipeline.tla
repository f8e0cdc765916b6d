---------------------------- MODULE ChatPipeline ----------------------------
(***************************************************************************)
(* One deadline over a whole question: ChatService._chat_serialized in     *)
(* src/app/services/chat_service.py, for questions of different sessions   *)
(* that compete for the slots of the request protector.                    *)
(*                                                                         *)
(* A request is planned, perhaps classified by a model, its sources are    *)
(* fetched, its evidence is judged, an answer is composed, perhaps by a    *)
(* model, and the answer is stored.  The deadline is never enforced from   *)
(* outside: the code reads the clock at certain points, and bounds what it *)
(* waits for by the time that remains.  An action runs from one reading of *)
(* the clock, or one return of an awaited call, to the next; the clock may *)
(* advance in between.  An answer that arrives together with its timeout   *)
(* may be taken or lost.                                                   *)
(*                                                                         *)
(* What the evidence comes to is chosen here; RecordedService computes it. *)
(***************************************************************************)
EXTENDS RequestProtector, IntentRouter

CONSTANTS
  Questions,      \* what may be asked
  MayAsk,         \* the questions of each request
  Reads,          \* what the pattern tables find in each question
  Outcomes,       \* the outcomes of a call of the classifier
  FailureStatuses,\* the statuses of a failed call of the composer's model
  ClientOf,       \* the client key of each request
  Deadline,       \* deadline_seconds
  RouterTimeout,  \* the classifier's timeout_seconds
  NoQuestion, NoRouting, NoAnswer

ASSUME DeadlineAssumption ==
  /\ Deadline \in Nat \ {0} /\ RouterTimeout \in Nat \ {0}
  /\ ClientOf \in [Requests -> Clients]

\* A classifier that answers names an intent; one that fails has a status.
ASSUME QuestionsAssumption ==
  /\ MayAsk \in [Requests -> SUBSET Questions]
  /\ Outcomes \subseteq Classifiable \cup Failures

VARIABLES
  at,        \* where each request is
  question,  \* what it asked
  start,     \* started_at
  due,       \* when its present wait times out
  routing,   \* how its intent was decided
  facts,     \* the judged evidence: decision status, any that may be sent to a model
  draft,     \* the composition: generation mode, and the status of the model's result
  late,      \* deadline_exhausted
  reserved,  \* call_budget: calls reserved for composing
  answer,    \* the response and what was observed of it
  calls,     \* history: calls made to a model, as <<request, purpose, time>>
  entered    \* history: how often each request was admitted

mine == <<at, question, start, due, routing, facts, draft, late, reserved, answer, calls, entered>>
allVars == <<vars, mine>>

Ended == {"answered", "failed"}
\* The stages in which a request waits with a time limit, and those in the body
\* of admit.
Limited == {"classify_wait", "classifying", "fetching", "compose_wait", "prompting", "composing"}
InBody == {"classify_slot", "classifying", "compose_slot", "prompting", "composing"}
Stages == Ended \cup Limited \cup InBody \cup
          {"idle", "planned", "routed", "fetched", "judged", "composed", "built"}

\* The deterministic plan of each question; each request is the first of its session.
Planned == [q \in Questions |-> Plan(Reads[q], NoContext)]
Unsure == {q \in Questions : ShouldClassify(Reads[q], Planned[q])}

Bound(r) == start[r] + Deadline
Late(r) == now >= Bound(r)                    \* _deadline_reached
PlanOf(r) == routing[r].plan

NoFacts == [status |-> "none", eligible |-> FALSE]
NoDraft == [mode |-> "none", result |-> "none"]
Fixed(result) == [mode |-> "fixed", result |-> result]
Blocked == [mode |-> "blocked", result |-> "none"]   \* advice is refused, not replaced

ChatInit ==
  /\ Init
  /\ at = [r \in Requests |-> "idle"]
  /\ question = [r \in Requests |-> NoQuestion]
  /\ start = [r \in Requests |-> 0]
  /\ due = [r \in Requests |-> 0]
  /\ routing = [r \in Requests |-> NoRouting]
  /\ facts = [r \in Requests |-> NoFacts]
  /\ draft = [r \in Requests |-> NoDraft]
  /\ late = [r \in Requests |-> FALSE]
  /\ reserved = [r \in Requests |-> 0]
  /\ answer = [r \in Requests |-> NoAnswer]
  /\ calls = {}
  /\ entered = [r \in Requests |-> 0]

\* The request moves on to stage s; its wait there, if it has a time limit, ends
\* by d.
GoTo(r, s) == at' = [at EXCEPT ![r] = s] /\ UNCHANGED due
Await(r, s, d) == at' = [at EXCEPT ![r] = s] /\ due' = [due EXCEPT ![r] = d]
Fail(r) == GoTo(r, "failed")
Call(r, purpose) == calls' = calls \cup {<<r, purpose, now>>}

\* A question arrives early enough for its deadline to lie within the clock's bound.
Begin(r, q) ==
  /\ at[r] = "idle" /\ now + Deadline <= MaxClock
  /\ GoTo(r, "planned")
  /\ question' = [question EXCEPT ![r] = q]
  /\ start' = [start EXCEPT ![r] = now]
  /\ UNCHANGED <<vars, routing, facts, draft, late, reserved, answer, calls, entered>>

\* What is logged of an answer: the calls it cost, and whether a fixed text stands
\* in for a model's.
Observation(r, decision, made, mode) ==
  [calls |-> made, fallback |-> mode = "fixed", decision |-> decision,
   routing |-> [mode |-> routing[r].mode, status |-> routing[r].status]]

\* What RequestObservation accepts; an answer it refuses is neither logged nor cached.
Observable(o) ==
  /\ o.calls \in 0..2
  /\ o.decision \in {"complete", "no_evidence", "provider_failed", "blocked"}
  /\ CASE o.routing.mode \in {"deterministic", "cached"} -> o.routing.status = "not_called"
       [] o.routing.mode = "hybrid_llm"      -> o.routing.status = "accepted"
       [] o.routing.mode = "hybrid_fallback" -> o.routing.status \in Failures

-----------------------------------------------------------------------------
(* Waiting for a slot: RequestProtector.admit, twice in a request's life *)

unplaced == <<question, start, routing, facts, draft, late, reserved, answer, calls>>

\* mutant: each wait may take the whole deadline
AskForFully(r, wait) ==
  IF Late(r) THEN Fail(r) /\ UNCHANGED vars
  ELSE Await(r, wait, now + Deadline) /\ Ask(r, ClientOf[r])

\* The request asks for a slot, for the time that remains; with none left it fails.
AskFor(r, wait) ==
  IF Late(r) THEN Fail(r) /\ UNCHANGED vars
  ELSE Await(r, wait, Bound(r)) /\ Ask(r, ClientOf[r])

Waits == {"classify_wait", "compose_wait"}

\* The steps of the wait itself.
Queue(r) ==
  /\ at[r] \in Waits
  /\ Acquire(r) \/ TakeSlot(r)
  /\ UNCHANGED mine

\* Admitted: the body starts.
Enter(r) ==
  /\ at[r] \in Waits
  /\ Decide(r) /\ phase'[r] = "body"
  /\ GoTo(r, IF at[r] = "classify_wait" THEN "classify_slot" ELSE "compose_slot")
  /\ entered' = [entered EXCEPT ![r] = @ + 1]
  /\ UNCHANGED unplaced

\* Refused, or no slot in time: the intent stays as planned, or the answer is put
\* together without a model.
TurnedAway(r) ==
  /\ at[r] \in Waits
  /\ \/ Decide(r) /\ phase'[r] = "idle"
     \/ GiveUp(r) /\ now >= due[r]
  /\ \/ /\ at[r] = "classify_wait"
        /\ routing' = [routing EXCEPT ![r] = Fallback(Planned[question[r]], "rate_limited", 0)]
        /\ GoTo(r, "routed")
        /\ UNCHANGED draft
     \/ /\ at[r] = "compose_wait"
        /\ draft' = [draft EXCEPT ![r] = Fixed("rate_limited")]
        /\ GoTo(r, "composed")
        /\ UNCHANGED routing
  /\ UNCHANGED <<question, start, facts, late, reserved, answer, calls, entered>>

-----------------------------------------------------------------------------
(* Deciding the intent: _route_intent *)

Route(r) ==
  /\ at[r] = "planned"
  /\ \/ /\ question[r] \notin Unsure
        /\ routing' = [routing EXCEPT ![r] = Deterministic(Planned[question[r]])]
        /\ GoTo(r, "routed")
        /\ UNCHANGED vars
     \/ /\ question[r] \in Unsure
        /\ AskFor(r, "classify_wait")
        /\ UNCHANGED routing
  /\ UNCHANGED <<question, start, facts, draft, late, reserved, answer, calls, entered>>

\* The slot came.  With no time left the request fails: the attempt stays counted,
\* but no call is made.
CallClassifier(r) ==
  /\ at[r] = "classify_slot"
  /\ \/ Late(r) /\ Finish(r) /\ Fail(r) /\ UNCHANGED calls
     \/ /\ ~Late(r)
        /\ Await(r, "classifying",
                 IF now + RouterTimeout < Bound(r) THEN now + RouterTimeout ELSE Bound(r))
        /\ Call(r, "classify")
        /\ UNCHANGED vars
  /\ UNCHANGED <<question, start, routing, facts, draft, late, reserved, answer, entered>>

\* The classifier answers or fails.
Classify(r, outcome) ==
  /\ at[r] = "classifying"
  /\ routing' = [routing EXCEPT ![r] = Classified(Reads[question[r]], Planned[question[r]], outcome)]
  /\ GoTo(r, "routed")
  /\ Finish(r)
  /\ UNCHANGED <<question, start, facts, draft, late, reserved, answer, calls, entered>>

\* wait_for cuts it off.
ClassifierTimesOut(r) == now >= due[r] /\ Classify(r, "timeout")

-----------------------------------------------------------------------------
(* The data *)

\* A question about the price is answered from the snapshot store, which has one
\* that may be shown, one that may not, or none; the deadline plays no part.  The
\* log tells only whether there is one.
PriceObservation(r, snapshot) ==
  Observation(r, IF snapshot = "none" THEN "no_evidence" ELSE "complete", routing[r].calls, "price")
PriceResponse(r, snapshot) ==
  [status   |-> IF snapshot = "public" THEN "complete" ELSE "provider_failed",
   mode     |-> "price", told |-> {}, checked |-> now,
   observed |-> PriceObservation(r, snapshot)]

AnswerPrice(r) ==
  /\ at[r] = "routed" /\ PlanOf(r).intent = "price" /\ ~PlanOf(r).clarify
  /\ \E snapshot \in {"public", "private", "none"} :
       answer' = [answer EXCEPT ![r] = PriceResponse(r, snapshot)]
  /\ GoTo(r, "answered")
  /\ UNCHANGED <<vars, question, start, routing, facts, draft, late, reserved, calls, entered>>

\* _source_data, unless nothing is to be fetched; a term is looked up in the
\* glossary, at once, which may not be available.
Fetch(r) ==
  /\ at[r] = "routed" /\ (PlanOf(r).intent # "price" \/ PlanOf(r).clarify)
  /\ \/ /\ PlanOf(r).clarify \/ PlanOf(r).intent = "financial_term"
        /\ GoTo(r, "fetched")
     \/ PlanOf(r).intent = "financial_term" /\ ~PlanOf(r).clarify /\ Fail(r)
     \/ /\ ~PlanOf(r).clarify /\ PlanOf(r).intent # "financial_term"
        /\ \/ Late(r) /\ Fail(r)
           \/ ~Late(r) /\ Await(r, "fetching", Bound(r))
  /\ UNCHANGED <<vars, unplaced, entered>>

\* The gateway answers with something that is valid, or is not, or raises.
Fetched(r) ==
  /\ at[r] = "fetching"
  /\ GoTo(r, "fetched") \/ Fail(r)
  /\ UNCHANGED <<vars, unplaced, entered>>

\* Every required source is then reported as timed out, so nothing is selected.
FetchTimesOut(r) ==
  /\ at[r] = "fetching" /\ now >= due[r]
  /\ facts' = [facts EXCEPT ![r] = [NoFacts EXCEPT !.status = "provider_failed"]]
  /\ GoTo(r, "fetched")
  /\ UNCHANGED <<vars, question, start, routing, draft, late, reserved, answer, calls, entered>>

Dated(r) ==
  PlanOf(r).intent = "financial_term" /\ ~PlanOf(r).clarify /\ PlanOf(r).range # NoRange

\* What the evidence pipeline may make of a plan ("complete" stands for "partial"
\* too).
Judgements(r) ==
  IF facts[r] # NoFacts THEN {facts[r]}
  ELSE IF PlanOf(r).clarify
    THEN {[NoFacts EXCEPT !.status = IF PlanOf(r).intent = "prohibited_advice" THEN "blocked"
                                     ELSE "no_evidence"]}
  ELSE [status : {"complete"}, eligible : BOOLEAN]
         \cup {[NoFacts EXCEPT !.status = s] : s \in {"no_evidence", "provider_failed"}}

\* The policy refuses a plan for a term that states dates, since the glossary's
\* evidence has no window: the request fails.
Refuse(r) ==
  /\ at[r] = "fetched" /\ Dated(r)
  /\ Fail(r)
  /\ UNCHANGED <<vars, unplaced, entered>>

\* The evidence is judged, then the clock is read.  _compose answers from the
\* evidence alone when there is nothing a model could add, or no time.
Judge(r) ==
  /\ at[r] = "fetched" /\ ~Dated(r)
  /\ \E f \in Judgements(r) :
       /\ facts' = [facts EXCEPT ![r] = f]
       /\ late' = [late EXCEPT ![r] = Late(r)]
       /\ \/ /\ f.eligible /\ ~Late(r)
             /\ GoTo(r, "judged")
             /\ UNCHANGED draft
          \/ /\ ~f.eligible \/ Late(r)
             /\ draft' = [draft EXCEPT ![r] = IF f.status = "blocked" THEN Blocked ELSE Fixed("none")]
             /\ GoTo(r, "composed")
  /\ UNCHANGED <<vars, question, start, routing, reserved, answer, calls, entered>>

-----------------------------------------------------------------------------
(* Composing: _compose and AnswerComposer.compose *)

AskComposer(r) ==
  /\ at[r] = "judged"
  /\ AskFor(r, "compose_wait")
  /\ UNCHANGED <<unplaced, entered>>

\* The composer ends with a composition.
Composed(r, c) ==
  /\ draft' = [draft EXCEPT ![r] = c]
  /\ GoTo(r, "composed")
  /\ Finish(r)

\* mutant: a slot that comes too late is kept by the failing request
StartComposerLeaky(r) ==
  /\ at[r] = "compose_slot"
  /\ \/ Late(r) /\ Fail(r) /\ UNCHANGED <<vars, draft>>
     \/ /\ ~Late(r)
        /\ \/ Await(r, "prompting", Bound(r)) /\ UNCHANGED <<vars, draft>>
           \/ Composed(r, Fixed("none"))
           \/ Fail(r) /\ Finish(r) /\ UNCHANGED draft
  /\ UNCHANGED <<question, start, routing, facts, late, reserved, answer, calls, entered>>

\* With no time left the request fails.  The composer refuses a question or a
\* conversation it cannot validate, which fails the request, and does without a
\* model if none of the evidence the question asks for may be sent.
StartComposer(r) ==
  /\ at[r] = "compose_slot"
  /\ \/ Late(r) /\ Fail(r) /\ Finish(r) /\ UNCHANGED draft
     \/ /\ ~Late(r)
        /\ \/ Await(r, "prompting", Bound(r)) /\ UNCHANGED <<vars, draft>>
           \/ Composed(r, Fixed("none"))
           \/ Fail(r) /\ Finish(r) /\ UNCHANGED draft
  /\ UNCHANGED <<question, start, routing, facts, late, reserved, answer, calls, entered>>

\* mutant: the budget is charged when the model answers
CallComposerUncharged(r) ==
  /\ at[r] = "prompting"
  /\ \/ /\ Call(r, "compose")
        /\ GoTo(r, "composing")
        /\ UNCHANGED <<vars, draft, reserved>>
     \/ /\ Composed(r, Fixed("invalid_response"))
        /\ UNCHANGED <<reserved, calls>>
  /\ UNCHANGED <<question, start, routing, facts, late, answer, entered>>

\* The prompt is rendered and audited in a worker thread; then the call is charged
\* to the budget and made, or an unsafe prompt ends the attempt.
CallComposer(r) ==
  /\ at[r] = "prompting"
  /\ \/ /\ reserved' = [reserved EXCEPT ![r] = @ + 1]
        /\ Call(r, "compose")
        /\ GoTo(r, "composing")
        /\ UNCHANGED <<vars, draft>>
     \/ /\ Composed(r, Fixed("invalid_response"))
        /\ UNCHANGED <<reserved, calls>>
  /\ UNCHANGED <<question, start, routing, facts, late, answer, entered>>

\* The model's text passes all checks; or it does not, or the model failed.
ModelAnswers(r, result) ==
  /\ at[r] = "composing"
  /\ Composed(r, IF result = "ok" THEN [mode |-> "llm", result |-> "ok"] ELSE Fixed(result))
  /\ UNCHANGED <<question, start, routing, facts, late, reserved, answer, calls, entered>>

\* mutant: the time limit is on rendering the prompt alone
ComposerTimesOutEarly(r) ==
  /\ at[r] = "prompting" /\ now >= due[r]
  /\ Composed(r, Fixed("timeout"))
  /\ UNCHANGED <<question, start, routing, facts, late, reserved, answer, calls, entered>>

\* wait_for cuts the composer off, before or after its call.
ComposerTimesOut(r) ==
  /\ at[r] \in {"prompting", "composing"} /\ now >= due[r]
  /\ Composed(r, Fixed("timeout"))
  /\ UNCHANGED <<question, start, routing, facts, late, reserved, answer, calls, entered>>

-----------------------------------------------------------------------------
(* The response *)

\* _deadline_safe_composition: a model's text is dropped once the deadline is over.
Safe(c, over) == IF over /\ c.mode = "llm" THEN Fixed("timeout") ELSE c

Build(r) ==
  /\ at[r] = "composed"
  /\ late' = [late EXCEPT ![r] = @ \/ Late(r)]
  /\ draft' = [draft EXCEPT ![r] = Safe(@, late'[r])]
  /\ GoTo(r, "built")
  /\ UNCHANGED <<vars, question, start, routing, facts, reserved, answer, calls, entered>>

\* What _build_response tells about the composition.
Told(c, over) ==
  (IF over THEN {"request_deadline_exceeded"} ELSE {})
    \cup (IF c.result \notin {"none", "ok"} THEN {"llm_degraded"} ELSE {})

\* mutant: the response is not built again
DeliverAsBuilt(r) ==
  /\ at[r] = "built"
  /\ answer' = [answer EXCEPT ![r] =
       [status |-> facts[r].status, mode |-> draft[r].mode, told |-> Told(draft[r], late[r]),
        checked |-> now,
        observed |-> Observation(r, facts[r].status, routing[r].calls + reserved[r], draft[r].mode)]]
  /\ GoTo(r, "answered")
  /\ UNCHANGED <<vars, question, start, routing, facts, draft, late, reserved, calls, entered>>

\* The clock is read a last time, and the response is built again if the deadline
\* has passed meanwhile.  Then it is recorded, observed and cached.
Deliver(r) ==
  LET over == late[r] \/ Late(r)
      c == Safe(draft[r], over) IN
  /\ at[r] = "built"
  /\ late' = [late EXCEPT ![r] = over]
  /\ draft' = [draft EXCEPT ![r] = c]
  /\ answer' = [answer EXCEPT ![r] =
       [status |-> facts[r].status, mode |-> c.mode, told |-> Told(c, over), checked |-> now,
        observed |-> Observation(r, facts[r].status, routing[r].calls + reserved[r], c.mode)]]
  /\ GoTo(r, "answered")
  /\ UNCHANGED <<vars, question, start, routing, facts, reserved, calls, entered>>

ChatTick == Tick /\ UNCHANGED mine

\* What the event loop runs as soon as it can, and the timers that are due.
Runs(r) ==
  \/ Route(r) \/ Queue(r) \/ Enter(r) \/ TurnedAway(r)
  \/ CallClassifier(r) \/ ClassifierTimesOut(r)
  \/ AnswerPrice(r) \/ Fetch(r) \/ FetchTimesOut(r) \/ Refuse(r) \/ Judge(r)
  \/ AskComposer(r) \/ StartComposer(r) \/ CallComposer(r) \/ ComposerTimesOut(r)
  \/ Build(r) \/ Deliver(r)

\* What others do, or never do.
Others(r) ==
  \/ \E q \in MayAsk[r] : Begin(r, q)
  \/ \E o \in Outcomes : Classify(r, o)
  \/ Fetched(r)
  \/ \E s \in FailureStatuses \cup {"ok"} : ModelAnswers(r, s)

ChatNext == ChatTick \/ \E r \in Requests : Runs(r) \/ Others(r)

ChatSpec == ChatInit /\ [][ChatNext]_allVars

\* Time passes, the loop runs what is ready, timers go off.  The classifier, the
\* gateway and the model owe nothing: the deadline alone must end a request.
ChatFairness ==
  /\ WF_allVars(ChatTick)
  /\ \A r \in Requests : WF_allVars(Runs(r))

FairChatSpec == ChatSpec /\ ChatFairness

-----------------------------------------------------------------------------
(* Properties *)

\* Whatever the order of readings, a text by a model is only delivered if the last
\* reading of the clock was before the deadline, and the reader is told of the
\* deadline exactly when it was not; an answer that a failed or refused model
\* left without its text says so.
LateTextIsDropped ==
  \A r \in Requests : answer[r] # NoAnswer /\ answer[r].mode # "price" =>
    /\ answer[r].mode = "llm" <=> draft[r].result = "ok"
    /\ ("request_deadline_exceeded" \in answer[r].told) <=> answer[r].checked >= Bound(r)
    /\ answer[r].mode = "llm" => answer[r].told = {}

\* What is observed of an answer is what it cost: the calls reported are the calls
\* made, at most one for each purpose, whichever way each call ended; no call was
\* made that was not admitted; and the log accepts what is told it, so that no
\* answer stays out of the log and of the cache.
CallsAccounted ==
  \A r \in Requests :
    LET made == {c \in calls : c[1] = r} IN
    /\ Cardinality(made) = Cardinality({c[2] : c \in made})
    /\ Cardinality(made) <= entered[r]
    /\ answer[r] # NoAnswer =>
         /\ answer[r].observed.calls = Cardinality(made)
         /\ Observable(answer[r].observed)

\* Slots are held for calls only: a request holds one exactly in the body of
\* admit, and asks for one exactly while it waits; none is left behind by a
\* request that failed, was refused or was cut off.
SlotsFollowRequests ==
  \A r \in Requests :
    /\ phase[r] = "body" <=> at[r] \in InBody
    /\ phase[r] = "idle" <=> at[r] \notin InBody \cup Waits

\* Nothing is waited for beyond the deadline, and no classifier is called after
\* it, though the queue for a slot may have used up all of the time.  (The
\* composer's call may still start late, if the timer is held up.)
WithinDeadline ==
  /\ \A r \in Requests : at[r] \in Limited => due[r] <= Bound(r)
  /\ \A c \in calls : c[2] = "classify" => c[3] < Bound(c[1])

\* Whatever the classifier says, a request goes on with a plan for the same
\* security, whose sources and kinds of evidence are those of its intent, and
\* whose dates were those of the first plan, or today's for a price move; and the
\* record of the routing is one the router's own check accepts.
RoutingKeepsPlan ==
  \A r \in Requests : routing[r] # NoRouting =>
    LET plan == PlanOf(r)
        first == Planned[question[r]] IN
    /\ RoutingResult(routing[r])
    /\ plan.security = first.security /\ plan.clarify = first.clarify
    /\ ~plan.clarify =>
         /\ plan.sources = Matrix[plan.intent].sources
         /\ plan.evidence = Matrix[plan.intent].evidence
         /\ \/ plan.range = first.range
            \/ plan.intent = "price_move" /\ plan.range = [from |-> Today, to |-> Today]

\* Each question is answered or refused, though no classifier, gateway or model
\* ever answers: every wait on the way is bounded.
EveryRequestEnds == \A r \in Requests : at[r] = "planned" ~> at[r] \in Ended
=============================================================================
