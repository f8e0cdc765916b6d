------------------------- MODULE ChatPipelineProofs -------------------------
(***************************************************************************)
(* Proofs about ChatPipeline: the chat service uses the request protector  *)
(* as its contract allows and holds a slot for its calls only, nothing is  *)
(* waited for beyond the deadline and no late text is delivered, the calls *)
(* observed are the calls made, and routing keeps a plan's promises.       *)
(***************************************************************************)
EXTENDS ChatPipeline, RequestProtectorProofs

-----------------------------------------------------------------------------
(* The inductive invariant, request by request *)

\* Where a request has not been routed yet, and where it has; one that failed
\* may or may not have been.
Unrouted == {"idle", "planned", "classify_wait", "classify_slot", "classifying"}
Routed   == Stages \ (Unrouted \cup {"failed"})

\* Where the evidence has been judged but no answer given.
Judged == {"judged", "compose_wait", "compose_slot", "prompting", "composing", "composed", "built"}

\* Where the composer has not called its model.
Uncalled == Unrouted \cup
            {"routed", "fetching", "fetched", "judged", "compose_wait", "compose_slot", "prompting"}

Purposes == {"classify", "compose"}
Decisions == {"complete", "no_evidence", "provider_failed", "blocked"}

ChatTypes ==
  /\ at \in [Requests -> Stages]
  /\ start \in [Requests -> Nat]
  /\ due \in [Requests -> Nat]
  /\ late \in [Requests -> BOOLEAN]
  /\ reserved \in [Requests -> Nat]
  /\ entered \in [Requests -> Nat]
  /\ calls \subseteq Requests \X Purposes \X Nat
  /\ DOMAIN question = Requests
  /\ DOMAIN routing = Requests
  /\ DOMAIN facts = Requests
  /\ DOMAIN draft = Requests
  /\ DOMAIN answer = Requests

\* The request holds a slot exactly in the body of admit, and asks for one
\* exactly while it waits.
SlotOK(r) ==
  /\ phase[r] = "body" <=> at[r] \in InBody
  /\ phase[r] = "idle" <=> at[r] \notin InBody \cup Waits

\* The calls made for a request and a purpose, and their number, if it is one
\* at most.
Made(r, purpose) == {c \in calls : c[1] = r /\ c[2] = purpose}
Count(S) == IF S = {} THEN 0 ELSE 1

\* The deadline bounds every wait; a request is only taken to be late when it is.
TimeOK(r) ==
  /\ at[r] \in Limited => due[r] <= Bound(r)
  /\ late[r] => now >= Bound(r)
  /\ \A c \in Made(r, "classify") : c[3] < Bound(r)

\* A plan that may stand for the plan first made of question q.
PlanFits(plan, first) ==
  /\ plan.security = first.security /\ plan.clarify = first.clarify
  /\ ~plan.clarify =>
       /\ plan.sources = Matrix[plan.intent].sources
       /\ plan.evidence = Matrix[plan.intent].evidence
       /\ \/ plan.range = first.range
          \/ plan.intent = "price_move" /\ plan.range = [from |-> Today, to |-> Today]

\* A routing that may be the outcome for question q.
RoutingFits(o, q) ==
  /\ PlanFits(o.plan, Planned[q])
  /\ o.calls \in 0..1
  /\ \/ o.mode = "deterministic" /\ o.status = "not_called" /\ o.calls = 0
     \/ o.mode = "hybrid_llm" /\ o.status = "accepted" /\ o.calls = 1
     \/ o.mode = "hybrid_fallback" /\ o.status \in Failures
        /\ (o.status # "rate_limited" => o.calls = 1)

RouteOK(r) ==
  /\ at[r] # "idle" => question[r] \in Questions
  /\ at[r] \in {"classify_wait", "classify_slot", "classifying"} => question[r] \in Unsure
  /\ at[r] \in Routed => RoutingFits(routing[r], question[r])
  /\ at[r] \in Unrouted => routing[r] = NoRouting
  /\ routing[r] = NoRouting \/ RoutingFits(routing[r], question[r])

\* A slot that is held but has not been used for a call.
Unused(stage) == IF stage \in {"classify_slot", "compose_slot", "prompting"} THEN 1 ELSE 0

CallsOK(r) ==
  /\ \A p \in Purposes : \A c, d \in Made(r, p) : c = d
  /\ at[r] \in Unrouted \ {"classifying"} => Made(r, "classify") = {}
  /\ at[r] = "classifying" => Made(r, "classify") # {}
  /\ at[r] \in Routed => Count(Made(r, "classify")) = routing[r].calls
  /\ Count(Made(r, "compose")) = reserved[r]
  /\ at[r] \in Uncalled => reserved[r] = 0
  /\ Count(Made(r, "classify")) + Count(Made(r, "compose")) + Unused(at[r]) <= entered[r]

FactsOK(r) ==
  /\ facts[r] = NoFacts \/ facts[r].status \in Decisions
  /\ at[r] \in Judged => facts[r].status \in Decisions

\* A composition's text is a model's exactly when the model succeeded.
DraftOK(r) ==
  /\ draft[r].mode = "llm" <=> draft[r].result = "ok"
  /\ at[r] \in Unrouted => ~late[r]
  /\ at[r] # "answered" => answer[r] = NoAnswer

\* What an answer owes to its draft, its calls and the clock.
AnswerOK(r) ==
  LET a == answer[r] IN
  at[r] = "answered" =>
    /\ a.mode # "price" =>
         /\ a.mode = "llm" <=> draft[r].result = "ok"
         /\ ("request_deadline_exceeded" \in a.told) <=> a.checked >= Bound(r)
         /\ a.mode = "llm" => a.told = {}
    /\ a.observed.calls = routing[r].calls + reserved[r]
    /\ a.observed.decision \in Decisions
    /\ a.observed.routing.mode = routing[r].mode
    /\ a.observed.routing.status = routing[r].status

RequestOK(r) ==
  /\ SlotOK(r) /\ TimeOK(r) /\ RouteOK(r) /\ CallsOK(r)
  /\ FactsOK(r) /\ DraftOK(r) /\ AnswerOK(r)

PInv == ChatTypes /\ \A r \in Requests : RequestOK(r)

-----------------------------------------------------------------------------
(* The protector's part of a step *)

\* A step of request r takes it to phase p; of the others it may grant a waiter
\* its slot.
Woken(r, p) ==
  /\ now' = now
  /\ phase'[r] = p
  /\ \A q \in Requests \ {r} :
       phase'[q] = phase[q] \/ (phase[q] = "queued" /\ phase'[q] = "granted")

LEMMA WakesWaiters ==
  ASSUME NEW value, NEW w \in Seq(Requests), NEW ph \in [Requests -> Phases],
         WakeNext(value, w, ph)
  PROVE  \A q \in Requests : phase'[q] = ph[q] \/ (ph[q] = "queued" /\ phase'[q] = "granted")
<1>1. CASE phase' = ph
  BY <1>1
<1>2. ASSUME NEW i \in Unserved(w, ph), phase' = [ph EXCEPT ![w[i]] = "granted"]
      PROVE  \A q \in Requests : phase'[q] = ph[q] \/ (ph[q] = "queued" /\ phase'[q] = "granted")
  BY <1>2 DEF Unserved
<1> QED
  BY <1>1, <1>2 DEF WakeNext

LEMMA AskMoves ==
  ASSUME TypeOK, NEW r \in Requests, NEW c, Ask(r, c)
  PROVE  phase[r] = "idle" /\ Woken(r, "asking")
BY DEF Ask, Woken, TypeOK

LEMMA QueueMoves ==
  ASSUME IInv, NEW r \in Requests, Acquire(r) \/ TakeSlot(r)
  PROVE  /\ phase[r] \in {"asking", "granted"}
         /\ \E p \in {"queued", "taken"} : Woken(r, p)
<1> USE DEF IInv
<1>1. CASE Acquire(r)
  BY <1>1 DEF Acquire, Woken, TypeOK
<1>2. CASE TakeSlot(r)
  <2> DEFINE ph == [phase EXCEPT ![r] = "taken"]
  <2>1. /\ now' = now /\ phase[r] = "granted"
        /\ phase' = ph \/ WakeNext(free, Without(queue, r), ph)
    BY <1>2 DEF TakeSlot
  <2>2. ph \in [Requests -> Phases]
    BY DEF TypeOK, Phases
  <2>3. Without(queue, r) \in Seq(Requests)
    <3>1. "taken" \in Phases \ {"queued", "granted"}
      BY DEF Phases
    <3>2. queue \in Seq(Requests) /\ phase \in [Requests -> Phases] /\ QueueOK(queue, phase)
      BY DEF TypeOK, SemaphoreOK
    <3> QED
      BY <2>1, <3>1, <3>2, LeaveQueue
  <2>4. \A q \in Requests : ph[q] = IF q = r THEN "taken" ELSE phase[q]
    BY DEF TypeOK
  <2> HIDE DEF ph
  <2>5. \A q \in Requests : phase'[q] = ph[q] \/ (ph[q] = "queued" /\ phase'[q] = "granted")
    BY <2>1, <2>2, <2>3, WakesWaiters
  <2> QED
    BY <2>1, <2>4, <2>5 DEF Woken
<1> QED
  BY <1>1, <1>2

LEMMA GiveUpMoves ==
  ASSUME IInv, NEW r \in Requests, GiveUp(r)
  PROVE  phase[r] \in {"asking", "queued", "granted"} /\ Woken(r, "idle")
<1> USE DEF IInv
<1> DEFINE ph == [phase EXCEPT ![r] = "idle"]
           rest == IF phase[r] = "asking" THEN queue ELSE Without(queue, r)
<1>1. /\ now' = now /\ phase[r] \in {"asking", "queued", "granted"}
      /\ phase' = ph \/ WakeNext(free + 1, rest, ph)
  BY DEF GiveUp
<1>2. ph \in [Requests -> Phases]
  BY DEF TypeOK, Phases
<1>3. rest \in Seq(Requests)
  <2>1. "idle" \in Phases \ {"queued", "granted"}
    BY DEF Phases
  <2>2. queue \in Seq(Requests) /\ phase \in [Requests -> Phases] /\ QueueOK(queue, phase)
    BY DEF TypeOK, SemaphoreOK
  <2> QED
    BY <1>1, <2>1, <2>2, LeaveQueue
<1>4. \A q \in Requests : ph[q] = IF q = r THEN "idle" ELSE phase[q]
  BY DEF TypeOK
<1> HIDE DEF ph, rest
<1>5. \A q \in Requests : phase'[q] = ph[q] \/ (ph[q] = "queued" /\ phase'[q] = "granted")
  BY <1>1, <1>2, <1>3, WakesWaiters
<1> QED
  BY <1>1, <1>4, <1>5 DEF Woken

LEMMA SlotReturned ==
  ASSUME TypeOK, NEW r \in Requests, ReturnSlot(r), now' = now
  PROVE  Woken(r, "idle")
<1> DEFINE ph == [phase EXCEPT ![r] = "idle"]
<1>1. WakeNext(free + 1, queue, ph)
  BY DEF ReturnSlot
<1>2. ph \in [Requests -> Phases] /\ queue \in Seq(Requests)
  BY DEF TypeOK, Phases
<1>3. \A q \in Requests : ph[q] = IF q = r THEN "idle" ELSE phase[q]
  BY DEF TypeOK
<1> HIDE DEF ph
<1>4. \A q \in Requests : phase'[q] = ph[q] \/ (ph[q] = "queued" /\ phase'[q] = "granted")
  BY <1>1, <1>2, WakesWaiters
<1> QED
  BY <1>3, <1>4 DEF Woken

LEMMA DecideMoves ==
  ASSUME TypeOK, NEW r \in Requests, Decide(r)
  PROVE  phase[r] = "taken" /\ (Woken(r, "body") \/ Woken(r, "idle"))
<1>1. /\ now' = now /\ phase[r] = "taken"
      /\ phase' = [phase EXCEPT ![r] = "body"] \/ ReturnSlot(r)
  BY DEF Decide
<1>2. CASE phase' = [phase EXCEPT ![r] = "body"]
  BY <1>1, <1>2 DEF Woken, TypeOK
<1> QED
  BY <1>1, <1>2, SlotReturned

LEMMA FinishMoves ==
  ASSUME TypeOK, NEW r \in Requests, Finish(r)
  PROVE  phase[r] = "body" /\ Woken(r, "idle")
BY SlotReturned DEF Finish

-----------------------------------------------------------------------------
(* The requests that do not step *)

\* The fields of request q, but for its slot, are as they were.
Same(q) ==
  /\ at'[q] = at[q] /\ question'[q] = question[q] /\ start'[q] = start[q] /\ due'[q] = due[q]
  /\ routing'[q] = routing[q] /\ facts'[q] = facts[q] /\ draft'[q] = draft[q]
  /\ late'[q] = late[q] /\ reserved'[q] = reserved[q] /\ answer'[q] = answer[q]
  /\ entered'[q] = entered[q]
  /\ \A p \in Purposes : Made(q, p)' = Made(q, p)

Apart(r) == \A q \in Requests \ {r} : Same(q)

\* The slot of a request that does not step stays in use as it was.
SlotKept(q) ==
  /\ phase'[q] = "body" <=> phase[q] = "body"
  /\ phase'[q] = "idle" <=> phase[q] = "idle"

LEMMA SameKeeps ==
  ASSUME NEW q \in Requests, RequestOK(q), Same(q), SlotKept(q),
         now \in Nat, now' \in Nat, now <= now', start[q] \in Nat
  PROVE  RequestOK(q)'
<1> USE DEF RequestOK, Same
<1>1. SlotOK(q)'
  BY DEF SlotOK, SlotKept
<1>2. TimeOK(q)'
  <2>1. Bound(q) \in Nat /\ Bound(q)' = Bound(q)
    BY DeadlineAssumption DEF Bound
  <2>2. Made(q, "classify")' = Made(q, "classify")
    BY DEF Purposes
  <2> QED
    BY <2>1, <2>2 DEF TimeOK
<1>3. RouteOK(q)'
  BY DEF RouteOK
<1>4. CallsOK(q)'
  <2>1. \A p \in Purposes : Made(q, p)' = Made(q, p)
    OBVIOUS
  <2>2. Made(q, "classify")' = Made(q, "classify") /\ Made(q, "compose")' = Made(q, "compose")
    BY <2>1 DEF Purposes
  <2> QED
    BY <2>1, <2>2 DEF CallsOK
<1>5. FactsOK(q)'
  BY DEF FactsOK
<1>6. DraftOK(q)'
  BY DEF DraftOK
<1>7. AnswerOK(q)'
  BY DEF AnswerOK, Bound
<1> QED
  BY <1>1, <1>2, <1>3, <1>4, <1>5, <1>6, <1>7

\* So a step of r only has to care for r.
LEMMA OnlyMine ==
  ASSUME TypeOK, TypeOK', PInv, NEW r \in Requests, Apart(r),
         now' = now, \A q \in Requests \ {r} : SlotKept(q),
         ChatTypes', RequestOK(r)'
  PROVE  PInv'
<1>1. ASSUME NEW q \in Requests \ {r}
      PROVE  RequestOK(q)'
  <2>1. now \in Nat /\ now' \in Nat /\ now <= now' /\ start[q] \in Nat
    BY LimitsAssumption DEF PInv, ChatTypes, TypeOK
  <2>2. RequestOK(q) /\ Same(q) /\ SlotKept(q)
    BY DEF PInv, Apart
  <2> QED
    BY <2>1, <2>2, SameKeeps
<1> QED
  BY <1>1 DEF PInv

LEMMA WokenKeepsSlots ==
  ASSUME NEW r \in Requests, NEW p, Woken(r, p)
  PROVE  now' = now /\ \A q \in Requests \ {r} : SlotKept(q)
BY DEF Woken, SlotKept

LEMMA UnchangedKeepsSlots ==
  ASSUME UNCHANGED vars
  PROVE  now' = now /\ \A q \in Requests : SlotKept(q)
BY DEF vars, SlotKept

\* Calls that are not made stay made.
LEMMA NoCall ==
  ASSUME UNCHANGED calls
  PROVE  \A q, p : Made(q, p)' = Made(q, p)
BY DEF Made

LEMMA OneCall ==
  ASSUME NEW r, NEW p, Call(r, p)
  PROVE  /\ \A q, x : q # r \/ x # p => Made(q, x)' = Made(q, x)
         /\ Made(r, p)' = Made(r, p) \cup {<<r, p, now>>}
BY DEF Call, Made

-----------------------------------------------------------------------------
(* The steps of a request *)

LEMMA NowIsNat == TypeOK => now \in Nat
BY LimitsAssumption DEF TypeOK

LEMMA BeginKeeps ==
  ASSUME TypeOK, TypeOK', PInv, NEW r \in Requests, NEW q \in MayAsk[r], Begin(r, q)
  PROVE  PInv'
<1> USE DEF PInv
<1>1. /\ at[r] = "idle" /\ at'[r] = "planned" /\ question'[r] = q /\ start'[r] = now
      /\ UNCHANGED <<vars, due, routing, facts, draft, late, reserved, answer, calls, entered>>
  BY DEF Begin, GoTo, ChatTypes
<1>2. Apart(r)
  BY NoCall DEF Begin, GoTo, Apart, Same, ChatTypes
<1>3. ChatTypes'
  BY NowIsNat DEF Begin, GoTo, ChatTypes, Stages
<1>4. RequestOK(r)'
  <2>1. Made(r, "classify")' = {} /\ Made(r, "classify") = {} /\ Made(r, "compose")' = Made(r, "compose")
    BY <1>1, NoCall DEF RequestOK, CallsOK, Unrouted
  <2>2. q \in Questions
    BY QuestionsAssumption
  <2>3. RequestOK(r)
    OBVIOUS
  <2>4. SlotOK(r)'
    BY <1>1, <2>3 DEF RequestOK, SlotOK, InBody, Waits, vars
  <2>5. TimeOK(r)'
    BY <1>1, <2>1, <2>3 DEF RequestOK, TimeOK, DraftOK, Unrouted, Limited
  <2>6. RouteOK(r)'
    BY <1>1, <2>2, <2>3 DEF RequestOK, RouteOK, Unrouted, Routed
  <2>7. CallsOK(r)'
    BY <1>1, <2>1, <2>3 DEF RequestOK, CallsOK, Unrouted, Routed, Uncalled, Unused, Count, Purposes
  <2>8. FactsOK(r)'
    BY <1>1, <2>3 DEF RequestOK, FactsOK, Judged
  <2>9. DraftOK(r)' /\ AnswerOK(r)'
    BY <1>1, <2>3 DEF RequestOK, DraftOK, AnswerOK, Unrouted
  <2> QED
    BY <2>4, <2>5, <2>6, <2>7, <2>8, <2>9 DEF RequestOK
<1>5. now' = now /\ \A x \in Requests \ {r} : SlotKept(x)
  BY <1>1, UnchangedKeepsSlots
<1> QED
  BY <1>2, <1>3, <1>4, <1>5, OnlyMine

LEMMA RoutedAre ==
  Routed = {"routed", "fetching", "fetched", "judged", "compose_wait", "compose_slot",
            "prompting", "composing", "composed", "built", "answered"}
BY DEF Routed, Stages, Unrouted, Ended, Limited, InBody

\* What stays of a request that only moves from one stage to another.
Kept(r) ==
  /\ question'[r] = question[r] /\ start'[r] = start[r] /\ routing'[r] = routing[r]
  /\ facts'[r] = facts[r] /\ draft'[r] = draft[r] /\ late'[r] = late[r]
  /\ reserved'[r] = reserved[r] /\ answer'[r] = answer[r] /\ entered'[r] = entered[r]
  /\ \A p \in Purposes : Made(r, p)' = Made(r, p)

\* A stage that promises no more than another about what was done before it.
NoFurther(s, t) ==
  /\ s \notin {"idle", "answered", "classifying"} /\ t \notin {"idle", "answered", "classifying"}
  /\ \/ s \in Unrouted /\ t \in Unrouted
     \/ s \in Routed /\ t \in Routed
     \/ t = "failed"
  /\ t \in Judged => s \in Judged
  /\ t \in Uncalled => s \in Uncalled
  /\ Unused(t) <= Unused(s)

LEMMA MoveOK ==
  ASSUME NEW r \in Requests, RequestOK(r), Kept(r), now' = now,
         start[r] \in Nat, entered[r] \in Nat,
         NoFurther(at[r], at'[r]),
         SlotOK(r)',
         at'[r] \in Limited => due'[r] <= Bound(r),
         at'[r] \in {"classify_wait", "classify_slot"} => question[r] \in Unsure
  PROVE  RequestOK(r)'
<1> USE DEF RequestOK, Kept, NoFurther
<1>1. TimeOK(r)'
  <2>1. Made(r, "classify")' = Made(r, "classify")
    BY DEF Purposes
  <2>2. Bound(r)' = Bound(r)
    BY DEF Bound
  <2> QED
    BY <2>1, <2>2 DEF TimeOK
<1>2. RouteOK(r)'
  BY DEF RouteOK, Unrouted, Routed
<1>3. CallsOK(r)'
  <2>1. Made(r, "classify")' = Made(r, "classify") /\ Made(r, "compose")' = Made(r, "compose")
        /\ \A p \in Purposes : Made(r, p)' = Made(r, p)
    BY DEF Purposes
  <2>2. Count(Made(r, "classify")) + Count(Made(r, "compose")) + Unused(at[r]) <= entered[r]
        => Count(Made(r, "classify")) + Count(Made(r, "compose")) + Unused(at'[r]) <= entered[r]
    BY DEF Count, Unused
  <2> QED
    BY <2>1, <2>2 DEF CallsOK, Unrouted, Routed
<1>4. FactsOK(r)'
  BY DEF FactsOK
<1>5. DraftOK(r)' /\ AnswerOK(r)'
  BY DEF DraftOK, AnswerOK, Unrouted, Routed
<1> QED
  BY <1>1, <1>2, <1>3, <1>4, <1>5

\* The composer ends with a composition.
LEMMA ComposedOK ==
  ASSUME NEW r \in Requests, RequestOK(r), now' = now,
         start[r] \in Nat, entered[r] \in Nat,
         at[r] \in {"compose_wait", "compose_slot", "prompting", "composing"}, at'[r] = "composed",
         phase'[r] = "idle",
         draft'[r].mode = "llm" <=> draft'[r].result = "ok",
         question'[r] = question[r], start'[r] = start[r], routing'[r] = routing[r],
         facts'[r] = facts[r], late'[r] = late[r], reserved'[r] = reserved[r],
         answer'[r] = answer[r], entered'[r] = entered[r],
         \A p \in Purposes : Made(r, p)' = Made(r, p)
  PROVE  RequestOK(r)'
<1> USE DEF RequestOK
<1>1. SlotOK(r)'
  BY DEF SlotOK, InBody, Waits
<1>2. TimeOK(r)'
  <2>1. Made(r, "classify")' = Made(r, "classify")
    BY DEF Purposes
  <2>2. Bound(r)' = Bound(r)
    BY DEF Bound
  <2> QED
    BY <2>1, <2>2 DEF TimeOK, Limited
<1>3. RouteOK(r)'
  BY RoutedAre DEF RouteOK, Unrouted
<1>4. CallsOK(r)'
  <2>1. Made(r, "classify")' = Made(r, "classify") /\ Made(r, "compose")' = Made(r, "compose")
        /\ \A p \in Purposes : Made(r, p)' = Made(r, p)
    BY DEF Purposes
  <2> QED
    BY <2>1, RoutedAre DEF CallsOK, Unrouted, Uncalled, Unused, Count
<1>5. FactsOK(r)'
  BY DEF FactsOK, Judged
<1>6. DraftOK(r)' /\ AnswerOK(r)'
  BY DEF DraftOK, AnswerOK, Unrouted
<1> QED
  BY <1>1, <1>2, <1>3, <1>4, <1>5, <1>6

LEMMA BoundIsNat ==
  ASSUME ChatTypes, NEW r \in Requests
  PROVE  Bound(r) \in Nat
BY DeadlineAssumption DEF ChatTypes, Bound

LEMMA AskForKeeps ==
  ASSUME TypeOK, TypeOK', PInv, NEW r \in Requests, NEW wait, AskFor(r, wait),
         \/ at[r] = "planned" /\ wait = "classify_wait" /\ question[r] \in Unsure
         \/ at[r] = "judged" /\ wait = "compose_wait",
         UNCHANGED <<question, start, routing, facts, draft, late, reserved, answer, calls, entered>>
  PROVE  PInv'
<1> USE DEF PInv
<1>1. RequestOK(r) /\ start[r] \in Nat /\ entered[r] \in Nat /\ Bound(r) \in Nat
  BY BoundIsNat DEF ChatTypes
<1>2. Apart(r) /\ Kept(r)
  BY NoCall DEF AskFor, Fail, GoTo, Await, Apart, Same, Kept, ChatTypes
<1>3. CASE Late(r) /\ Fail(r) /\ UNCHANGED vars
  <2>1. at'[r] = "failed"
    BY <1>3 DEF Fail, GoTo, ChatTypes
  <2>2. ChatTypes'
    BY <1>3 DEF Fail, GoTo, ChatTypes, Stages, Ended
  <2>3. now' = now /\ \A q \in Requests : SlotKept(q)
    BY <1>3, UnchangedKeepsSlots
  <2>4. SlotOK(r)'
    BY <1>1, <1>3, <2>1 DEF RequestOK, SlotOK, InBody, Waits, vars
  <2>5. NoFurther(at[r], at'[r])
    BY <2>1, RoutedAre DEF NoFurther, Judged, Uncalled, Unrouted, Unused
  <2>6. RequestOK(r)'
    BY <1>1, <1>2, <2>1, <2>3, <2>4, <2>5, MoveOK DEF Limited
  <2> QED
    BY <1>2, <2>2, <2>3, <2>6, OnlyMine
<1>4. CASE Await(r, wait, Bound(r)) /\ Ask(r, ClientOf[r])
  <2>1. at'[r] = wait /\ due'[r] = Bound(r)
    BY <1>4 DEF Await, ChatTypes
  <2>2. ChatTypes'
    BY <1>1, <1>4 DEF Await, ChatTypes, Stages, Limited
  <2>3. Woken(r, "asking")
    BY <1>4, AskMoves
  <2>4. now' = now /\ \A q \in Requests \ {r} : SlotKept(q)
    BY <2>3, WokenKeepsSlots
  <2>5. SlotOK(r)'
    BY <2>1, <2>3 DEF Woken, SlotOK, InBody, Waits
  <2>6. NoFurther(at[r], at'[r])
    BY <2>1, RoutedAre DEF NoFurther, Judged, Uncalled, Unrouted, Unused
  <2>7. due'[r] <= Bound(r) /\ (at'[r] \in {"classify_wait", "classify_slot"} => question[r] \in Unsure)
    BY <1>1, <2>1
  <2>8. RequestOK(r)'
    BY <1>1, <1>2, <2>4, <2>5, <2>6, <2>7, MoveOK
  <2> QED
    BY <1>2, <2>2, <2>4, <2>8, OnlyMine
<1> QED
  BY <1>3, <1>4 DEF AskFor

LEMMA QueueKeeps ==
  ASSUME IInv, TypeOK', PInv, NEW r \in Requests, Queue(r)
  PROVE  PInv'
<1> USE DEF PInv
<1>1. UNCHANGED mine /\ at[r] \in Waits
  BY DEF Queue
<1>2. PICK p \in {"queued", "taken"} : Woken(r, p)
  BY QueueMoves DEF Queue
<1>3. phase[r] \in {"asking", "granted"}
  BY QueueMoves DEF Queue
<1>4. now' = now /\ \A q \in Requests \ {r} : SlotKept(q)
  BY <1>2, WokenKeepsSlots
<1>5. SlotKept(r)
  BY <1>2, <1>3 DEF SlotKept, Woken
<1>6. \A q \in Requests : Same(q)
  BY <1>1, NoCall DEF mine, Same
<1>7. ChatTypes'
  BY <1>1 DEF mine, ChatTypes
<1>8. RequestOK(r)'
  <2>1. now \in Nat /\ now' \in Nat /\ now <= now' /\ start[r] \in Nat
    BY <1>4, NowIsNat DEF IInv, ChatTypes
  <2> QED
    BY <1>5, <1>6, <2>1, SameKeeps
<1>9. Apart(r) /\ TypeOK
  BY <1>6 DEF Apart, IInv
<1> QED
  BY <1>4, <1>7, <1>8, <1>9, OnlyMine

\* Admitted, the request has one call more than it has made.
LEMMA EnterKeeps ==
  ASSUME TypeOK, TypeOK', PInv, NEW r \in Requests, Enter(r)
  PROVE  PInv'
<1> USE DEF PInv
<1>1. /\ at[r] \in Waits /\ phase'[r] = "body"
      /\ at'[r] = IF at[r] = "classify_wait" THEN "classify_slot" ELSE "compose_slot"
      /\ entered'[r] = entered[r] + 1
      /\ UNCHANGED <<due, question, start, routing, facts, draft, late, reserved, answer, calls>>
  BY DEF Enter, GoTo, unplaced, ChatTypes
<1>2. Apart(r)
  BY NoCall DEF Enter, GoTo, unplaced, Apart, Same, ChatTypes
<1>3. ChatTypes'
  BY DEF Enter, GoTo, unplaced, ChatTypes, Stages, InBody
<1>4. now' = now /\ \A q \in Requests \ {r} : SlotKept(q)
  BY DecideMoves, WokenKeepsSlots DEF Enter
<1>5. RequestOK(r)'
  <2>1. RequestOK(r) /\ \A p : Made(r, p)' = Made(r, p)
    BY <1>1, NoCall
  <2>2. entered[r] \in Nat /\ Bound(r)' = Bound(r)
    BY <1>1 DEF ChatTypes, Bound
  <2>3. SlotOK(r)'
    BY <1>1 DEF SlotOK, InBody, Waits
  <2>4. TimeOK(r)'
    BY <1>1, <1>4, <2>1, <2>2 DEF RequestOK, TimeOK, Limited
  <2>5. RouteOK(r)'
    BY <1>1, <2>1, RoutedAre DEF RequestOK, RouteOK, Unrouted, Waits
  <2>6. CallsOK(r)'
    BY <1>1, <2>1, <2>2, RoutedAre
    DEF RequestOK, CallsOK, Unrouted, Uncalled, Unused, Count, Purposes, Waits
  <2>7. FactsOK(r)'
    BY <1>1, <2>1 DEF RequestOK, FactsOK, Judged, Waits
  <2>8. DraftOK(r)' /\ AnswerOK(r)'
    BY <1>1, <2>1 DEF RequestOK, DraftOK, AnswerOK, Unrouted, Waits
  <2> QED
    BY <2>3, <2>4, <2>5, <2>6, <2>7, <2>8 DEF RequestOK
<1> QED
  BY <1>2, <1>3, <1>4, <1>5, OnlyMine

-----------------------------------------------------------------------------
(* Routing *)

LEMMA PlanIs ==
  ASSUME NEW q, NEW ctx
  PROVE  \/ \E i, d : Plan(q, ctx) = Clarification(i, d)
         \/ \E s, i, d : Plan(q, ctx) = Built(q, s, i, d)
BY DEF Plan, ForIntent

LEMMA ClarificationIs ==
  ASSUME NEW i, NEW d
  PROVE  Clarification(i, d).clarify = TRUE
BY DEF Clarification

LEMMA BuiltIs ==
  ASSUME NEW q, NEW s, NEW i, NEW d
  PROVE  Built(q, s, i, d).clarify = FALSE
BY DEF Built

LEMMA PlanFitsItself ==
  ASSUME NEW q, NEW ctx
  PROVE  PlanFits(Plan(q, ctx), Plan(q, ctx))
<1> DEFINE p == Plan(q, ctx)
<1> SUFFICES PlanFits(p, p)
  OBVIOUS
<1>1. CASE \E i, d : p = Clarification(i, d)
  BY <1>1, ClarificationIs DEF PlanFits
<1>2. CASE \E s, i, d : p = Built(q, s, i, d)
  <2>1. PICK s, i, d : p = Built(q, s, i, d)
    BY <1>2
  <2>2. /\ Built(q, s, i, d).intent = i
        /\ Built(q, s, i, d).sources = Matrix[i].sources
        /\ Built(q, s, i, d).evidence = Matrix[i].evidence
    BY DEF Built
  <2>3. p.sources = Matrix[p.intent].sources /\ p.evidence = Matrix[p.intent].evidence
    BY <2>1, <2>2
  <2> HIDE DEF p
  <2> QED
    BY <2>3 DEF PlanFits
<1> QED
  BY <1>1, <1>2, PlanIs

\* Another intent for a plan that is no clarification.
LEMMA RebuiltFits ==
  ASSUME NEW q, NEW plan, NEW intent, plan.clarify = FALSE
  PROVE  PlanFits(Rebuilt(q, plan, intent), plan)
<1> DEFINE d == IF plan.range = NoRange /\ intent = "price_move"
                  THEN [from |-> Today, to |-> Today] ELSE plan.range
           p == Built(q, plan.security, intent, d)
<1>1. Rebuilt(q, plan, intent) = p
  BY DEF Rebuilt
<1>2. /\ p.security = plan.security /\ p.intent = intent /\ p.range = d /\ p.clarify = FALSE
      /\ p.sources = Matrix[intent].sources /\ p.evidence = Matrix[intent].evidence
  BY DEF Built
<1>3. d = plan.range \/ (intent = "price_move" /\ d = [from |-> Today, to |-> Today])
  OBVIOUS
<1> HIDE DEF p, d
<1> QED
  BY <1>1, <1>2, <1>3 DEF PlanFits

LEMMA RoutingIs ==
  ASSUME NEW plan, NEW mode, NEW status, NEW n
  PROVE  /\ Routing(plan, mode, status, n).plan = plan
         /\ Routing(plan, mode, status, n).mode = mode
         /\ Routing(plan, mode, status, n).status = status
         /\ Routing(plan, mode, status, n).calls = n
BY DEF Routing

LEMMA DeterministicFits ==
  ASSUME NEW q \in Questions
  PROVE  /\ RoutingFits(Deterministic(Planned[q]), q)
         /\ Deterministic(Planned[q]).calls = 0
<1>1. PlanFits(Planned[q], Planned[q])
  BY PlanFitsItself DEF Planned
<1> QED
  BY <1>1, RoutingIs DEF RoutingFits, Deterministic

LEMMA FallbackFits ==
  ASSUME NEW q \in Questions, NEW status \in Failures, NEW n \in 0..1,
         status # "rate_limited" => n = 1
  PROVE  /\ RoutingFits(Fallback(Planned[q], status, n), q)
         /\ Fallback(Planned[q], status, n).calls = n
<1>1. PlanFits(Planned[q], Planned[q])
  BY PlanFitsItself DEF Planned
<1> QED
  BY <1>1, RoutingIs DEF RoutingFits, Fallback

LEMMA ClassifiedFits ==
  ASSUME NEW q \in Unsure, NEW outcome \in Classifiable \cup Failures
  PROVE  /\ RoutingFits(Classified(Reads[q], Planned[q], outcome), q)
         /\ Classified(Reads[q], Planned[q], outcome).calls = 1
<1>1. q \in Questions
  BY DEF Unsure
<1>2. Planned[q].clarify = FALSE
  <2>1. ~Planned[q].clarify
    BY DEF Unsure, ShouldClassify
  <2>2. Planned[q] = Plan(Reads[q], NoContext)
    BY <1>1 DEF Planned
  <2>3. Planned[q].clarify = TRUE \/ Planned[q].clarify = FALSE
    BY <2>2, PlanIs, ClarificationIs, BuiltIs
  <2> QED
    BY <2>1, <2>3
<1>3. PlanFits(Rebuilt(Reads[q], Planned[q], outcome), Planned[q])
  BY <1>2, RebuiltFits
<1>4. CASE Classified(Reads[q], Planned[q], outcome) = Accepted(Reads[q], Planned[q], outcome)
  BY <1>3, <1>4, RoutingIs DEF RoutingFits, Accepted
<1>5. CASE /\ Classified(Reads[q], Planned[q], outcome) =
                Fallback(Planned[q], IF outcome \in Classifiable THEN "invalid_response" ELSE outcome, 1)
  BY <1>1, <1>5, FallbackFits DEF Failures
<1> QED
  BY <1>4, <1>5 DEF Classified

\* The intent is decided, at a cost of the calls made.
LEMMA RoutedOK ==
  ASSUME NEW r \in Requests, RequestOK(r), now' = now,
         start[r] \in Nat, entered[r] \in Nat,
         at[r] \in {"planned", "classify_wait", "classifying"}, at'[r] = "routed",
         phase'[r] = "idle",
         RoutingFits(routing'[r], question[r]),
         routing'[r].calls = IF at[r] = "classifying" THEN 1 ELSE 0,
         question'[r] = question[r], start'[r] = start[r], facts'[r] = facts[r],
         draft'[r] = draft[r], late'[r] = late[r], reserved'[r] = reserved[r],
         answer'[r] = answer[r], entered'[r] = entered[r],
         \A p \in Purposes : Made(r, p)' = Made(r, p)
  PROVE  RequestOK(r)'
<1> USE DEF RequestOK
<1>1. SlotOK(r)'
  BY DEF SlotOK, InBody, Waits
<1>2. TimeOK(r)'
  <2>1. Made(r, "classify")' = Made(r, "classify")
    BY DEF Purposes
  <2>2. Bound(r)' = Bound(r)
    BY DEF Bound
  <2> QED
    BY <2>1, <2>2 DEF TimeOK, Limited
<1>3. RouteOK(r)'
  <2>1. RoutingFits(routing[r], question[r])' <=> RoutingFits(routing'[r], question'[r])
    BY DEF RoutingFits, Planned, PlanFits
  <2> QED
    BY <2>1 DEF RouteOK, Unrouted
<1>4. CallsOK(r)'
  <2>1. Made(r, "classify")' = Made(r, "classify") /\ Made(r, "compose")' = Made(r, "compose")
        /\ \A p \in Purposes : Made(r, p)' = Made(r, p)
    BY DEF Purposes
  <2>2. Count(Made(r, "classify")) = routing'[r].calls
    BY DEF CallsOK, Unrouted, Count
  <2> QED
    BY <2>1, <2>2 DEF CallsOK, Unrouted, Uncalled, Unused
<1>5. FactsOK(r)'
  BY DEF FactsOK, Judged
<1>6. DraftOK(r)' /\ AnswerOK(r)'
  BY DEF DraftOK, AnswerOK, Unrouted
<1> QED
  BY <1>1, <1>2, <1>3, <1>4, <1>5, <1>6

LEMMA RouteKeeps ==
  ASSUME TypeOK, TypeOK', PInv, NEW r \in Requests, Route(r)
  PROVE  PInv'
<1> USE DEF PInv
<1>1. at[r] = "planned"
      /\ UNCHANGED <<question, start, facts, draft, late, reserved, answer, calls, entered>>
  BY DEF Route
<1>2. CASE question[r] \in Unsure /\ AskFor(r, "classify_wait") /\ UNCHANGED routing
  BY <1>1, <1>2, AskForKeeps
<1>3. CASE /\ routing' = [routing EXCEPT ![r] = Deterministic(Planned[question[r]])]
           /\ GoTo(r, "routed")
           /\ UNCHANGED vars
  <2> DEFINE o == Deterministic(Planned[question[r]])
  <2>1. at'[r] = "routed" /\ routing'[r] = o
    BY <1>3 DEF GoTo, ChatTypes
  <2>2. Apart(r)
    BY <1>1, <1>3, NoCall DEF GoTo, Apart, Same, ChatTypes
  <2>3. ChatTypes'
    BY <1>1, <1>3, RoutedAre DEF GoTo, ChatTypes, Routed
  <2>4. now' = now /\ \A q \in Requests : SlotKept(q)
    BY <1>3, UnchangedKeepsSlots
  <2>5. RequestOK(r) /\ start[r] \in Nat /\ entered[r] \in Nat
    BY DEF ChatTypes
  <2>6. phase'[r] = "idle"
    BY <1>1, <1>3, <2>5 DEF RequestOK, SlotOK, InBody, Waits, vars
  <2>7. RoutingFits(o, question[r]) /\ o.calls = 0
    BY <1>1, <2>5, DeterministicFits DEF RequestOK, RouteOK
  <2> HIDE DEF o
  <2>8. \A p \in Purposes : Made(r, p)' = Made(r, p)
    BY <1>1, NoCall
  <2>9. RequestOK(r)'
    BY <1>1, <2>1, <2>4, <2>5, <2>6, <2>7, <2>8, RoutedOK
  <2> QED
    BY <2>2, <2>3, <2>4, <2>9, OnlyMine
<1> QED
  BY <1>2, <1>3 DEF Route

\* Turned away, the request goes on without a model.
LEMMA TurnedAwayKeeps ==
  ASSUME IInv, TypeOK', PInv, NEW r \in Requests, TurnedAway(r)
  PROVE  PInv'
<1> USE DEF PInv
<1>1. TypeOK /\ at[r] \in Waits
      /\ UNCHANGED <<question, start, facts, late, reserved, answer, calls, entered>>
  BY DEF IInv, TurnedAway
<1>2. Woken(r, "idle")
  BY GiveUpMoves, DecideMoves DEF TurnedAway, Woken, IInv
<1>3. now' = now /\ phase'[r] = "idle" /\ \A q \in Requests \ {r} : SlotKept(q)
  BY <1>2, WokenKeepsSlots DEF Woken
<1>4. RequestOK(r) /\ start[r] \in Nat /\ entered[r] \in Nat
  BY DEF ChatTypes
<1>5. \A p \in Purposes : Made(r, p)' = Made(r, p)
  BY <1>1, NoCall
<1>6. CASE /\ at[r] = "classify_wait"
           /\ routing' = [routing EXCEPT ![r] = Fallback(Planned[question[r]], "rate_limited", 0)]
           /\ GoTo(r, "routed")
           /\ UNCHANGED draft
  <2> DEFINE o == Fallback(Planned[question[r]], "rate_limited", 0)
  <2>1. at'[r] = "routed" /\ routing'[r] = o
    BY <1>6 DEF GoTo, ChatTypes
  <2>2. Apart(r)
    BY <1>1, <1>6, NoCall DEF GoTo, Apart, Same, ChatTypes
  <2>3. ChatTypes'
    BY <1>1, <1>6, RoutedAre DEF GoTo, ChatTypes, Routed
  <2>4. RoutingFits(o, question[r]) /\ o.calls = 0
    BY <1>4, <1>6, FallbackFits DEF RequestOK, RouteOK, Failures
  <2> HIDE DEF o
  <2>5. RequestOK(r)'
    BY <1>1, <1>3, <1>4, <1>5, <1>6, <2>1, <2>4, RoutedOK
  <2> QED
    BY <1>1, <1>3, <2>2, <2>3, <2>5, OnlyMine
<1>7. CASE /\ at[r] = "compose_wait"
           /\ draft' = [draft EXCEPT ![r] = Fixed("rate_limited")]
           /\ GoTo(r, "composed")
           /\ UNCHANGED routing
  <2>1. /\ at'[r] = "composed" /\ draft'[r] = Fixed("rate_limited") /\ routing'[r] = routing[r]
    BY <1>7 DEF GoTo, ChatTypes
  <2>2. Apart(r)
    BY <1>1, <1>7, NoCall DEF GoTo, Apart, Same, ChatTypes
  <2>3. ChatTypes'
    BY <1>1, <1>7, RoutedAre DEF GoTo, ChatTypes, Routed
  <2>4. draft'[r].mode = "llm" <=> draft'[r].result = "ok"
    BY <2>1 DEF Fixed
  <2>5. RequestOK(r)'
    BY <1>1, <1>3, <1>4, <1>5, <1>7, <2>1, <2>4, ComposedOK
  <2> QED
    BY <1>1, <1>3, <2>2, <2>3, <2>5, OnlyMine
<1> QED
  BY <1>6, <1>7 DEF TurnedAway

-----------------------------------------------------------------------------
(* The other steps *)

\* A step that only moves the request on.
LEMMA MoveKeeps ==
  ASSUME TypeOK, TypeOK', PInv, NEW r \in Requests, NEW t \in Stages,
         GoTo(r, t) \/ Await(r, t, Bound(r)),
         t \in Limited => Await(r, t, Bound(r)),
         UNCHANGED <<question, start, routing, facts, draft, late, reserved, answer, calls, entered>>,
         NoFurther(at[r], t), t \notin {"classify_wait", "classify_slot"},
         now' = now, \A q \in Requests \ {r} : SlotKept(q),
         t \in InBody => phase'[r] = "body", t \notin InBody => phase'[r] = "idle", t \notin Waits
  PROVE  PInv'
<1> USE DEF PInv
<1>1. RequestOK(r) /\ start[r] \in Nat /\ entered[r] \in Nat /\ Bound(r) \in Nat
  BY BoundIsNat DEF ChatTypes
<1>2. at'[r] = t /\ (t \in Limited => due'[r] = Bound(r))
  BY DEF GoTo, Await, ChatTypes
<1>3. Apart(r) /\ Kept(r)
  BY NoCall DEF GoTo, Await, Apart, Same, Kept, ChatTypes
<1>4. ChatTypes'
  BY <1>1 DEF GoTo, Await, ChatTypes
<1>5. SlotOK(r)'
  BY <1>2 DEF SlotOK
<1>6. RequestOK(r)'
  BY <1>1, <1>2, <1>3, <1>5, MoveOK
<1> QED
  BY <1>3, <1>4, <1>6, OnlyMine

\* Outside the protector.
Loose == Stages \ (InBody \cup Waits)

LEMMA LooseSlot ==
  ASSUME PInv, NEW r \in Requests, at[r] \in Loose, UNCHANGED vars
  PROVE  now' = now /\ phase'[r] = "idle" /\ \A q \in Requests : SlotKept(q)
<1>1. phase[r] = "idle"
  BY DEF PInv, RequestOK, SlotOK, Loose
<1> QED
  BY <1>1, UnchangedKeepsSlots DEF vars

LEMMA LooseAre ==
  {"idle", "planned", "routed", "fetching", "fetched", "judged", "composed", "built",
   "answered", "failed"} \subseteq Loose
BY DEF Loose, Stages, Ended, Limited, InBody, Waits

LEMMA CountIs ==
  /\ Count({}) = 0
  /\ \A x : Count({x}) = 1
  /\ \A S : Count(S) \in 0..1
BY DEF Count

LEMMA CallClassifierKeeps ==
  ASSUME TypeOK, TypeOK', PInv, NEW r \in Requests, CallClassifier(r)
  PROVE  PInv'
<1> USE DEF PInv
<1>1. at[r] = "classify_slot"
      /\ UNCHANGED <<question, start, routing, facts, draft, late, reserved, answer, entered>>
  BY DEF CallClassifier
<1>2. RequestOK(r) /\ start[r] \in Nat /\ entered[r] \in Nat /\ Bound(r) \in Nat /\ now \in Nat
  BY BoundIsNat, NowIsNat DEF ChatTypes
<1>3. CASE Late(r) /\ Finish(r) /\ Fail(r) /\ UNCHANGED calls
  <2>1. Woken(r, "idle")
    BY <1>3, FinishMoves
  <2>2. now' = now /\ phase'[r] = "idle" /\ \A q \in Requests \ {r} : SlotKept(q)
    BY <2>1, WokenKeepsSlots DEF Woken
  <2>3. NoFurther(at[r], "failed")
    BY <1>1, RoutedAre DEF NoFurther, Judged, Uncalled, Unrouted, Unused
  <2>4. "failed" \in Stages /\ "failed" \notin Limited \cup InBody \cup Waits
    BY DEF Stages, Ended, Limited, InBody, Waits
  <2> QED
    BY <1>1, <1>3, <2>2, <2>3, <2>4, MoveKeeps DEF Fail
<1>4. CASE /\ ~Late(r)
           /\ Await(r, "classifying",
                    IF now + RouterTimeout < Bound(r) THEN now + RouterTimeout ELSE Bound(r))
           /\ Call(r, "classify")
           /\ UNCHANGED vars
  <2> DEFINE d == IF now + RouterTimeout < Bound(r) THEN now + RouterTimeout ELSE Bound(r)
  <2>1. d \in Nat /\ d <= Bound(r)
    BY <1>2, DeadlineAssumption
  <2>2. at'[r] = "classifying" /\ due'[r] = d /\ now < Bound(r) /\ now' = now
    BY <1>2, <1>4 DEF Await, ChatTypes, Late, vars
  <2> HIDE DEF d
  <2>3. Await(r, "classifying", d)
    BY <1>4 DEF d
  <2>4. /\ \A q, x : q # r \/ x # "classify" => Made(q, x)' = Made(q, x)
        /\ Made(r, "classify")' = Made(r, "classify") \cup {<<r, "classify", now>>}
    BY <1>4, OneCall
  <2>5. Made(r, "classify") = {}
    BY <1>1, <1>2 DEF RequestOK, CallsOK, Unrouted
  <2>6. Made(r, "classify")' = {<<r, "classify", now>>}
    BY <2>4, <2>5
  <2>7. Made(r, "compose")' = Made(r, "compose")
    BY <2>4
  <2>8. Apart(r)
    BY <1>1, <2>3, <2>4 DEF Await, Apart, Same, ChatTypes
  <2>9. ChatTypes'
    <3>1. calls' \subseteq Requests \X Purposes \X Nat
      BY <1>2, <1>4 DEF Call, ChatTypes, Purposes
    <3> QED
      BY <1>1, <2>1, <2>3, <3>1 DEF Await, ChatTypes, Stages, Limited
  <2>10. \A q \in Requests : SlotKept(q)
    BY <1>4, UnchangedKeepsSlots
  <2>11. RequestOK(r)'
    <3>1. SlotOK(r)'
      BY <1>1, <1>2, <2>2, <2>10 DEF RequestOK, SlotOK, SlotKept, InBody, Waits
    <3>2. TimeOK(r)'
      BY <1>1, <1>2, <2>1, <2>2, <2>6 DEF RequestOK, TimeOK, Bound
    <3>3. RouteOK(r)'
      BY <1>1, <1>2, <2>2, RoutedAre DEF RequestOK, RouteOK, Unrouted
    <3>4. CallsOK(r)'
      <4>1. \A p \in Purposes : \A c, e \in Made(r, p)' : c = e
        BY <1>2, <2>6, <2>7 DEF RequestOK, CallsOK, Purposes
      <4>2. /\ Count(Made(r, "classify")') = 1 /\ Count(Made(r, "classify")) = 0
            /\ Count(Made(r, "compose")') = Count(Made(r, "compose"))
            /\ Count(Made(r, "compose")) \in 0..1
        BY <2>5, <2>6, <2>7, CountIs
      <4>3. Unused(at[r]) = 1 /\ Unused(at'[r]) = 0
        BY <1>1, <2>2 DEF Unused
      <4>4. Count(Made(r, "classify")') + Count(Made(r, "compose")') + Unused(at'[r]) <= entered'[r]
        BY <1>1, <1>2, <4>2, <4>3 DEF RequestOK, CallsOK
      <4> QED
        BY <1>1, <1>2, <2>2, <2>6, <4>1, <4>2, <4>4, RoutedAre
        DEF RequestOK, CallsOK, Unrouted, Uncalled
    <3>5. FactsOK(r)'
      BY <1>1, <1>2, <2>2 DEF RequestOK, FactsOK, Judged
    <3>6. DraftOK(r)' /\ AnswerOK(r)'
      BY <1>1, <1>2, <2>2 DEF RequestOK, DraftOK, AnswerOK, Unrouted
    <3> QED
      BY <3>1, <3>2, <3>3, <3>4, <3>5, <3>6 DEF RequestOK
  <2> QED
    BY <2>2, <2>8, <2>9, <2>10, <2>11, OnlyMine
<1> QED
  BY <1>3, <1>4 DEF CallClassifier

LEMMA ClassifyKeeps ==
  ASSUME TypeOK, TypeOK', PInv, NEW r \in Requests, NEW outcome \in Classifiable \cup Failures,
         Classify(r, outcome)
  PROVE  PInv'
<1> USE DEF PInv
<1> DEFINE o == Classified(Reads[question[r]], Planned[question[r]], outcome)
<1>1. /\ at[r] = "classifying" /\ at'[r] = "routed" /\ routing'[r] = o
      /\ UNCHANGED <<question, start, facts, draft, late, reserved, answer, calls, entered>>
  BY DEF Classify, GoTo, ChatTypes
<1>2. RequestOK(r) /\ start[r] \in Nat /\ entered[r] \in Nat
  BY DEF ChatTypes
<1>3. RoutingFits(o, question[r]) /\ o.calls = 1
  BY <1>1, <1>2, ClassifiedFits DEF RequestOK, RouteOK
<1> HIDE DEF o
<1>4. now' = now /\ phase'[r] = "idle" /\ \A q \in Requests \ {r} : SlotKept(q)
  BY FinishMoves, WokenKeepsSlots DEF Classify, Woken
<1>5. \A p \in Purposes : Made(r, p)' = Made(r, p)
  BY <1>1, NoCall
<1>6. Apart(r)
  BY <1>1, NoCall DEF Classify, GoTo, Apart, Same, ChatTypes
<1>7. ChatTypes'
  BY RoutedAre DEF Classify, GoTo, ChatTypes, Routed
<1>8. RequestOK(r)'
  BY <1>1, <1>2, <1>3, <1>4, <1>5, RoutedOK
<1> QED
  BY <1>4, <1>6, <1>7, <1>8, OnlyMine

LEMMA AnswerPriceKeeps ==
  ASSUME TypeOK, TypeOK', PInv, NEW r \in Requests, AnswerPrice(r)
  PROVE  PInv'
<1> USE DEF PInv
<1>1. PICK snapshot : answer' = [answer EXCEPT ![r] = PriceResponse(r, snapshot)]
  BY DEF AnswerPrice
<1>2. /\ at[r] = "routed" /\ at'[r] = "answered" /\ answer'[r] = PriceResponse(r, snapshot)
      /\ UNCHANGED <<vars, question, start, routing, facts, draft, late, reserved, calls, entered>>
  BY <1>1 DEF AnswerPrice, GoTo, ChatTypes
<1>3. RequestOK(r) /\ start[r] \in Nat /\ entered[r] \in Nat /\ reserved[r] \in Nat
  BY DEF ChatTypes
<1>4. /\ answer'[r].mode = "price"
      /\ answer'[r].observed.calls = routing[r].calls
      /\ answer'[r].observed.decision \in Decisions
      /\ answer'[r].observed.routing.mode = routing[r].mode
      /\ answer'[r].observed.routing.status = routing[r].status
  BY <1>2 DEF PriceResponse, PriceObservation, Observation, Decisions
<1>5. Apart(r)
  BY <1>1, NoCall DEF AnswerPrice, GoTo, Apart, Same, ChatTypes
<1>6. ChatTypes'
  BY <1>1, RoutedAre DEF AnswerPrice, GoTo, ChatTypes, Routed
<1>7. now' = now /\ phase'[r] = "idle" /\ \A q \in Requests : SlotKept(q)
  BY <1>2, LooseSlot, LooseAre
<1>8. RequestOK(r)'
  <2>1. \A p : Made(r, p)' = Made(r, p)
    BY <1>2, NoCall
  <2>2. SlotOK(r)'
    BY <1>2, <1>7 DEF SlotOK, InBody, Waits
  <2>3. TimeOK(r)'
    BY <1>2, <1>3, <1>7, <2>1 DEF RequestOK, TimeOK, Limited, Bound
  <2>4. RouteOK(r)'
    BY <1>2, <1>3, RoutedAre DEF RequestOK, RouteOK, Unrouted
  <2>5. CallsOK(r)'
    BY <1>2, <1>3, <2>1, RoutedAre DEF RequestOK, CallsOK, Unrouted, Uncalled, Unused, Purposes
  <2>6. FactsOK(r)'
    BY <1>2, <1>3 DEF RequestOK, FactsOK, Judged
  <2>7. DraftOK(r)'
    BY <1>2, <1>3 DEF RequestOK, DraftOK, Unrouted
  <2>8. AnswerOK(r)'
    <3>1. reserved[r] = 0
      BY <1>2, <1>3 DEF RequestOK, CallsOK, Uncalled
    <3>2. routing[r].calls \in 0..1
      BY <1>2, <1>3, RoutedAre DEF RequestOK, RouteOK, RoutingFits
    <3> QED
      BY <1>2, <1>4, <3>1, <3>2 DEF AnswerOK
  <2> QED
    BY <2>2, <2>3, <2>4, <2>5, <2>6, <2>7, <2>8 DEF RequestOK
<1> QED
  BY <1>5, <1>6, <1>7, <1>8, OnlyMine

\* The steps that move a request on outside the protector.
LEMMA LooseMove ==
  ASSUME TypeOK, TypeOK', PInv, NEW r \in Requests,
         NEW t \in {"fetching", "fetched", "failed"},
         at[r] \in {"routed", "fetching", "fetched"}, at[r] = "fetched" => t = "failed",
         GoTo(r, t) \/ Await(r, t, Bound(r)),
         t = "fetching" => Await(r, t, Bound(r)),
         UNCHANGED <<vars, unplaced, entered>>
  PROVE  PInv'
<1>1. now' = now /\ phase'[r] = "idle" /\ \A q \in Requests : SlotKept(q)
  BY LooseSlot, LooseAre
<1>2. UNCHANGED <<question, start, routing, facts, draft, late, reserved, answer, calls, entered>>
  BY DEF unplaced
<1>3. NoFurther(at[r], t)
  BY RoutedAre DEF NoFurther, Judged, Uncalled, Unrouted, Unused
<1>4. /\ t \in Stages /\ t \notin InBody \cup Waits
      /\ t \in Limited => t = "fetching"
      /\ t \notin {"classify_wait", "classify_slot"}
  BY DEF Stages, Ended, Limited, InBody, Waits
<1> QED
  BY <1>1, <1>2, <1>3, <1>4, MoveKeeps

LEMMA FetchKeeps ==
  ASSUME TypeOK, TypeOK', PInv, NEW r \in Requests, Fetch(r) \/ Fetched(r) \/ Refuse(r)
  PROVE  PInv'
<1>1. UNCHANGED <<vars, unplaced, entered>>
  BY DEF Fetch, Fetched, Refuse
<1>2. CASE Fetch(r)
  BY <1>1, <1>2, LooseMove DEF Fetch, Fail
<1>3. CASE Fetched(r)
  BY <1>1, <1>3, LooseMove DEF Fetched, Fail
<1>4. CASE Refuse(r)
  BY <1>1, <1>4, LooseMove DEF Refuse, Fail
<1> QED
  BY <1>2, <1>3, <1>4

LEMMA NoFactsIs == NoFacts.status = "none"
BY DEF NoFacts

LEMMA FetchTimesOutKeeps ==
  ASSUME TypeOK, TypeOK', PInv, NEW r \in Requests, FetchTimesOut(r)
  PROVE  PInv'
<1> USE DEF PInv
<1>1. /\ at[r] = "fetching" /\ at'[r] = "fetched" /\ facts'[r].status = "provider_failed"
      /\ UNCHANGED <<vars, question, start, routing, draft, late, reserved, answer, calls, entered>>
  BY DEF FetchTimesOut, GoTo, ChatTypes, NoFacts
<1>2. RequestOK(r) /\ start[r] \in Nat /\ entered[r] \in Nat
  BY DEF ChatTypes
<1>3. Apart(r)
  BY NoCall DEF FetchTimesOut, GoTo, Apart, Same, ChatTypes
<1>4. ChatTypes'
  BY RoutedAre DEF FetchTimesOut, GoTo, ChatTypes, Routed
<1>5. now' = now /\ phase'[r] = "idle" /\ \A q \in Requests : SlotKept(q)
  BY <1>1, LooseSlot, LooseAre
<1>6. RequestOK(r)'
  <2>1. \A p : Made(r, p)' = Made(r, p)
    BY <1>1, NoCall
  <2>2. SlotOK(r)'
    BY <1>1, <1>5 DEF SlotOK, InBody, Waits
  <2>3. TimeOK(r)'
    BY <1>1, <1>2, <1>5, <2>1 DEF RequestOK, TimeOK, Limited, Bound
  <2>4. RouteOK(r)'
    BY <1>1, <1>2, RoutedAre DEF RequestOK, RouteOK, Unrouted
  <2>5. CallsOK(r)'
    BY <1>1, <1>2, <2>1, RoutedAre DEF RequestOK, CallsOK, Unrouted, Uncalled, Unused, Purposes
  <2>6. FactsOK(r)'
    BY <1>1, <1>2 DEF RequestOK, FactsOK, Judged, Decisions
  <2>7. DraftOK(r)' /\ AnswerOK(r)'
    BY <1>1, <1>2 DEF RequestOK, DraftOK, AnswerOK, Unrouted
  <2> QED
    BY <2>2, <2>3, <2>4, <2>5, <2>6, <2>7 DEF RequestOK
<1> QED
  BY <1>3, <1>4, <1>5, <1>6, OnlyMine

LEMMA JudgementsAre ==
  ASSUME NEW r \in Requests, FactsOK(r), NEW f \in Judgements(r)
  PROVE  f.status \in Decisions
BY DEF Judgements, FactsOK, Decisions, NoFacts

LEMMA JudgeKeeps ==
  ASSUME TypeOK, TypeOK', PInv, NEW r \in Requests, Judge(r)
  PROVE  PInv'
<1> USE DEF PInv
<1>1. PICK f \in Judgements(r) :
        /\ facts' = [facts EXCEPT ![r] = f]
        /\ \/ GoTo(r, "judged") /\ UNCHANGED draft
           \/ /\ draft' = [draft EXCEPT ![r] = IF f.status = "blocked" THEN Blocked ELSE Fixed("none")]
              /\ GoTo(r, "composed")
  BY DEF Judge
<1>2. /\ at[r] = "fetched" /\ late' = [late EXCEPT ![r] = Late(r)]
      /\ UNCHANGED <<vars, question, start, routing, reserved, answer, calls, entered>>
  BY DEF Judge
<1>3. /\ at'[r] \in {"judged", "composed"} /\ facts'[r] = f /\ late'[r] = Late(r)
      /\ draft'[r] \in {draft[r], Blocked, Fixed("none")}
  BY <1>1, <1>2 DEF GoTo, ChatTypes
<1>4. RequestOK(r) /\ start[r] \in Nat /\ entered[r] \in Nat
  BY DEF ChatTypes
<1>5. Apart(r)
  BY <1>1, <1>2, NoCall DEF GoTo, Apart, Same, ChatTypes
<1>6. ChatTypes'
  BY <1>1, <1>2, RoutedAre DEF GoTo, ChatTypes, Routed, Late
<1>7. now' = now /\ phase'[r] = "idle" /\ \A q \in Requests : SlotKept(q)
  BY <1>2, LooseSlot, LooseAre
<1>8. RequestOK(r)'
  <2>1. \A p : Made(r, p)' = Made(r, p)
    BY <1>2, NoCall
  <2>2. SlotOK(r)'
    BY <1>3, <1>7 DEF SlotOK, InBody, Waits
  <2>3. TimeOK(r)'
    BY <1>2, <1>3, <1>4, <1>7, <2>1 DEF RequestOK, TimeOK, Limited, Bound, Late
  <2>4. RouteOK(r)'
    BY <1>2, <1>3, <1>4, RoutedAre DEF RequestOK, RouteOK, Unrouted
  <2>5. CallsOK(r)'
    BY <1>2, <1>3, <1>4, <2>1, RoutedAre
    DEF RequestOK, CallsOK, Unrouted, Uncalled, Unused, Purposes
  <2>6. FactsOK(r)'
    BY <1>3, <1>4, JudgementsAre DEF RequestOK, FactsOK
  <2>7. draft'[r].mode = "llm" <=> draft'[r].result = "ok"
    BY <1>3, <1>4 DEF RequestOK, DraftOK, Blocked, Fixed
  <2>8. DraftOK(r)' /\ AnswerOK(r)'
    BY <1>2, <1>3, <1>4, <2>7 DEF RequestOK, DraftOK, AnswerOK, Unrouted
  <2> QED
    BY <2>2, <2>3, <2>4, <2>5, <2>6, <2>8 DEF RequestOK
<1> QED
  BY <1>5, <1>6, <1>7, <1>8, OnlyMine

-----------------------------------------------------------------------------
(* Composing and answering *)

LEMMA AskComposerKeeps ==
  ASSUME TypeOK, TypeOK', PInv, NEW r \in Requests, AskComposer(r)
  PROVE  PInv'
BY AskForKeeps DEF AskComposer, unplaced

LEMMA ComposedKeeps ==
  ASSUME TypeOK, TypeOK', PInv, NEW r \in Requests, NEW c, Composed(r, c),
         c.mode = "llm" <=> c.result = "ok",
         at[r] \in {"compose_slot", "prompting", "composing"},
         UNCHANGED <<question, start, routing, facts, late, reserved, answer, calls, entered>>
  PROVE  PInv'
<1> USE DEF PInv
<1>1. at'[r] = "composed" /\ draft'[r] = c
  BY DEF Composed, GoTo, ChatTypes
<1>2. RequestOK(r) /\ start[r] \in Nat /\ entered[r] \in Nat
  BY DEF ChatTypes
<1>3. Apart(r)
  BY NoCall DEF Composed, GoTo, Apart, Same, ChatTypes
<1>4. ChatTypes'
  BY RoutedAre DEF Composed, GoTo, ChatTypes, Routed
<1>5. now' = now /\ phase'[r] = "idle" /\ \A q \in Requests \ {r} : SlotKept(q)
  BY FinishMoves, WokenKeepsSlots DEF Composed, Woken
<1>6. \A p \in Purposes : Made(r, p)' = Made(r, p)
  BY NoCall
<1>7. RequestOK(r)'
  BY <1>1, <1>2, <1>5, <1>6, ComposedOK
<1> QED
  BY <1>3, <1>4, <1>5, <1>7, OnlyMine

LEMMA FixedIs ==
  ASSUME NEW result
  PROVE  Fixed(result).mode = "fixed" /\ Fixed(result).result = result
BY DEF Fixed

LEMMA StartComposerKeeps ==
  ASSUME TypeOK, TypeOK', PInv, NEW r \in Requests, StartComposer(r)
  PROVE  PInv'
<1>1. at[r] = "compose_slot"
      /\ UNCHANGED <<question, start, routing, facts, late, reserved, answer, calls, entered>>
  BY DEF StartComposer
<1>2. /\ "failed" \in Stages /\ "failed" \notin Limited \cup InBody \cup Waits
      /\ "prompting" \in Stages /\ "prompting" \in InBody /\ "prompting" \notin Waits
  BY DEF Stages, Ended, Limited, InBody, Waits
<1>3. NoFurther(at[r], "failed") /\ NoFurther(at[r], "prompting")
  BY <1>1, RoutedAre DEF NoFurther, Judged, Uncalled, Unrouted, Unused
<1>4. CASE Fail(r) /\ Finish(r) /\ UNCHANGED draft
  <2>1. now' = now /\ phase'[r] = "idle" /\ \A q \in Requests \ {r} : SlotKept(q)
    BY <1>4, FinishMoves, WokenKeepsSlots DEF Woken
  <2> QED
    BY <1>1, <1>2, <1>3, <1>4, <2>1, MoveKeeps DEF Fail
<1>5. CASE Await(r, "prompting", Bound(r)) /\ UNCHANGED <<vars, draft>>
  <2>1. now' = now /\ \A q \in Requests : SlotKept(q)
    BY <1>5, UnchangedKeepsSlots
  <2>2. phase'[r] = "body"
    BY <1>1, <1>5 DEF PInv, RequestOK, SlotOK, InBody, vars
  <2> QED
    BY <1>1, <1>2, <1>3, <1>5, <2>1, <2>2, MoveKeeps
<1>6. CASE Composed(r, Fixed("none"))
  BY <1>1, <1>6, FixedIs, ComposedKeeps
<1> QED
  BY <1>4, <1>5, <1>6 DEF StartComposer

LEMMA CallComposerKeeps ==
  ASSUME TypeOK, TypeOK', PInv, NEW r \in Requests, CallComposer(r)
  PROVE  PInv'
<1> USE DEF PInv
<1>1. at[r] = "prompting"
      /\ UNCHANGED <<question, start, routing, facts, late, answer, entered>>
  BY DEF CallComposer
<1>2. CASE Composed(r, Fixed("invalid_response")) /\ UNCHANGED <<reserved, calls>>
  BY <1>1, <1>2, FixedIs, ComposedKeeps
<1>3. CASE /\ reserved' = [reserved EXCEPT ![r] = @ + 1]
           /\ Call(r, "compose")
           /\ GoTo(r, "composing")
           /\ UNCHANGED <<vars, draft>>
  <2>1. at'[r] = "composing" /\ reserved'[r] = reserved[r] + 1 /\ UNCHANGED <<vars, draft, due>>
    BY <1>3 DEF GoTo, ChatTypes
  <2>2. RequestOK(r) /\ start[r] \in Nat /\ entered[r] \in Nat /\ now \in Nat
    BY NowIsNat DEF ChatTypes
  <2>3. /\ \A q, x : q # r \/ x # "compose" => Made(q, x)' = Made(q, x)
        /\ Made(r, "compose")' = Made(r, "compose") \cup {<<r, "compose", now>>}
    BY <1>3, OneCall
  <2>4. reserved[r] = 0 /\ Count(Made(r, "compose")) = 0
    BY <1>1, <2>2 DEF RequestOK, CallsOK, Uncalled
  <2>5. Made(r, "compose") = {}
    BY <2>4 DEF Count
  <2>6. Made(r, "compose")' = {<<r, "compose", now>>} /\ Made(r, "classify")' = Made(r, "classify")
    BY <2>3, <2>5
  <2>7. Apart(r)
    BY <1>1, <1>3, <2>3 DEF GoTo, Apart, Same, ChatTypes
  <2>8. ChatTypes'
    <3>1. calls' \subseteq Requests \X Purposes \X Nat
      BY <1>3, <2>2 DEF Call, ChatTypes, Purposes
    <3> QED
      BY <1>1, <1>3, <3>1, RoutedAre DEF GoTo, ChatTypes, Routed
  <2>9. now' = now /\ \A q \in Requests : SlotKept(q)
    BY <2>1, UnchangedKeepsSlots
  <2>10. RequestOK(r)'
    <3>1. SlotOK(r)'
      BY <1>1, <2>1, <2>2, <2>9 DEF RequestOK, SlotOK, SlotKept, InBody, Waits
    <3>2. TimeOK(r)'
      BY <1>1, <2>1, <2>2, <2>6, <2>9 DEF RequestOK, TimeOK, Bound, Limited
    <3>3. RouteOK(r)'
      BY <1>1, <2>1, <2>2, RoutedAre DEF RequestOK, RouteOK, Unrouted
    <3>4. CallsOK(r)'
      <4>1. \A p \in Purposes : \A c, e \in Made(r, p)' : c = e
        BY <2>2, <2>6 DEF RequestOK, CallsOK, Purposes
      <4>2. /\ Count(Made(r, "compose")') = 1
            /\ Count(Made(r, "classify")') = Count(Made(r, "classify"))
            /\ Count(Made(r, "classify")) \in 0..1
        BY <2>6, CountIs
      <4>3. Unused(at[r]) = 1 /\ Unused(at'[r]) = 0
        BY <1>1, <2>1 DEF Unused
      <4>4. Count(Made(r, "classify")') + Count(Made(r, "compose")') + Unused(at'[r]) <= entered'[r]
        BY <1>1, <2>2, <2>4, <4>2, <4>3 DEF RequestOK, CallsOK
      <4> QED
        BY <1>1, <2>1, <2>2, <2>4, <2>6, <4>1, <4>2, <4>4, RoutedAre
        DEF RequestOK, CallsOK, Unrouted, Uncalled
    <3>5. FactsOK(r)'
      BY <1>1, <2>1, <2>2 DEF RequestOK, FactsOK, Judged
    <3>6. DraftOK(r)' /\ AnswerOK(r)'
      BY <1>1, <2>1, <2>2 DEF RequestOK, DraftOK, AnswerOK, Unrouted
    <3> QED
      BY <3>1, <3>2, <3>3, <3>4, <3>5, <3>6 DEF RequestOK
  <2> QED
    BY <2>7, <2>8, <2>9, <2>10, OnlyMine
<1> QED
  BY <1>2, <1>3 DEF CallComposer

LEMMA ModelAnswersKeeps ==
  ASSUME TypeOK, TypeOK', PInv, NEW r \in Requests, NEW result, ModelAnswers(r, result)
  PROVE  PInv'
<1> DEFINE c == IF result = "ok" THEN [mode |-> "llm", result |-> "ok"] ELSE Fixed(result)
<1>1. at[r] = "composing" /\ Composed(r, c)
      /\ UNCHANGED <<question, start, routing, facts, late, reserved, answer, calls, entered>>
  BY DEF ModelAnswers
<1>2. c.mode = "llm" <=> c.result = "ok"
  BY FixedIs
<1> HIDE DEF c
<1> QED
  BY <1>1, <1>2, ComposedKeeps

LEMMA ComposerTimesOutKeeps ==
  ASSUME TypeOK, TypeOK', PInv, NEW r \in Requests, ComposerTimesOut(r)
  PROVE  PInv'
BY FixedIs, ComposedKeeps DEF ComposerTimesOut

LEMMA BuildKeeps ==
  ASSUME TypeOK, TypeOK', PInv, NEW r \in Requests, Build(r)
  PROVE  PInv'
<1> USE DEF PInv
<1>1. /\ at[r] = "composed" /\ at'[r] = "built"
      /\ late'[r] = (late[r] \/ Late(r)) /\ draft'[r] = Safe(draft[r], late'[r])
      /\ UNCHANGED <<vars, due, question, start, routing, facts, reserved, answer, calls, entered>>
  BY DEF Build, GoTo, ChatTypes
<1>2. RequestOK(r) /\ start[r] \in Nat /\ entered[r] \in Nat /\ late'[r] \in BOOLEAN
  BY <1>1 DEF ChatTypes
<1>3. Apart(r)
  BY NoCall DEF Build, GoTo, Apart, Same, ChatTypes
<1>4. ChatTypes'
  BY RoutedAre DEF Build, GoTo, ChatTypes, Routed, Late
<1>5. now' = now /\ phase'[r] = "idle" /\ \A q \in Requests : SlotKept(q)
  BY <1>1, LooseSlot, LooseAre
<1>6. draft'[r].mode = "llm" <=> draft'[r].result = "ok"
  <2>1. draft[r].mode = "llm" <=> draft[r].result = "ok"
    BY <1>2 DEF RequestOK, DraftOK
  <2>2. draft'[r] = draft[r] \/ draft'[r] = Fixed("timeout")
    BY <1>1 DEF Safe
  <2> QED
    BY <2>1, <2>2, FixedIs
<1>7. RequestOK(r)'
  <2>1. \A p : Made(r, p)' = Made(r, p)
    BY <1>1, NoCall
  <2>2. SlotOK(r)'
    BY <1>1, <1>5 DEF SlotOK, InBody, Waits
  <2>3. TimeOK(r)'
    BY <1>1, <1>2, <1>5, <2>1 DEF RequestOK, TimeOK, Limited, Bound, Late
  <2>4. RouteOK(r)'
    BY <1>1, <1>2, RoutedAre DEF RequestOK, RouteOK, Unrouted
  <2>5. CallsOK(r)'
    BY <1>1, <1>2, <2>1, RoutedAre DEF RequestOK, CallsOK, Unrouted, Uncalled, Unused, Purposes
  <2>6. FactsOK(r)'
    BY <1>1, <1>2 DEF RequestOK, FactsOK, Judged
  <2>7. DraftOK(r)' /\ AnswerOK(r)'
    BY <1>1, <1>2, <1>6 DEF RequestOK, DraftOK, AnswerOK, Unrouted
  <2> QED
    BY <2>2, <2>3, <2>4, <2>5, <2>6, <2>7 DEF RequestOK
<1> QED
  BY <1>3, <1>4, <1>5, <1>7, OnlyMine

\* The clock is read a last time: what is told of the deadline, and whether a
\* model's text is kept, is decided by this reading.
LEMMA DeliverKeeps ==
  ASSUME TypeOK, TypeOK', PInv, NEW r \in Requests, Deliver(r)
  PROVE  PInv'
<1> USE DEF PInv
<1> DEFINE over == late[r] \/ Late(r)
           c == Safe(draft[r], over)
           told == Told(c, over)
           seen == Observation(r, facts[r].status, routing[r].calls + reserved[r], c.mode)
           a == [status |-> facts[r].status, mode |-> c.mode, told |-> told, checked |-> now,
                 observed |-> seen]
<1>1. /\ at[r] = "built" /\ at'[r] = "answered"
      /\ late'[r] = over /\ draft'[r] = c /\ answer'[r] = a
      /\ UNCHANGED <<vars, due, question, start, routing, facts, reserved, calls, entered>>
  BY DEF Deliver, GoTo, ChatTypes
<1>2. RequestOK(r) /\ start[r] \in Nat /\ entered[r] \in Nat /\ reserved[r] \in Nat
      /\ Bound(r) \in Nat /\ now \in Nat
  BY BoundIsNat, NowIsNat DEF ChatTypes
<1>3. over \in BOOLEAN /\ (over <=> now >= Bound(r))
  BY <1>2 DEF ChatTypes, RequestOK, TimeOK, Late
<1>4. Apart(r)
  BY NoCall DEF Deliver, GoTo, Apart, Same, ChatTypes
<1>5. ChatTypes'
  BY RoutedAre DEF Deliver, GoTo, ChatTypes, Routed, Late
<1>6. now' = now /\ phase'[r] = "idle" /\ \A q \in Requests : SlotKept(q)
  BY <1>1, LooseSlot, LooseAre
<1>7. (c.mode = "llm" <=> c.result = "ok") /\ (c.mode = "llm" => ~over)
  <2>1. draft[r].mode = "llm" <=> draft[r].result = "ok"
    BY <1>2 DEF RequestOK, DraftOK
  <2>2. \/ c = draft[r] /\ (draft[r].mode = "llm" => ~over)
        \/ c = Fixed("timeout")
    BY DEF Safe
  <2> QED
    BY <2>1, <2>2, FixedIs
<1>8. /\ ("request_deadline_exceeded" \in told) <=> over
      /\ c.mode = "llm" => told = {}
  BY <1>7 DEF Told
<1>9. facts[r].status \in Decisions
  BY <1>1, <1>2 DEF RequestOK, FactsOK, Judged
<1>10. /\ seen.calls = routing[r].calls + reserved[r] /\ seen.decision \in Decisions
       /\ seen.routing.mode = routing[r].mode /\ seen.routing.status = routing[r].status
  BY <1>9 DEF Observation
<1>11. a.mode = c.mode /\ a.told = told /\ a.checked = now /\ a.observed = seen
  OBVIOUS
<1> HIDE DEF a, c, told, seen, over
<1>12. RequestOK(r)'
  <2>1. \A p : Made(r, p)' = Made(r, p)
    BY <1>1, NoCall
  <2>2. SlotOK(r)'
    BY <1>1, <1>6 DEF SlotOK, InBody, Waits
  <2>3. TimeOK(r)'
    BY <1>1, <1>2, <1>3, <1>6, <2>1 DEF RequestOK, TimeOK, Limited, Bound
  <2>4. RouteOK(r)'
    BY <1>1, <1>2, RoutedAre DEF RequestOK, RouteOK, Unrouted
  <2>5. CallsOK(r)'
    BY <1>1, <1>2, <2>1, RoutedAre DEF RequestOK, CallsOK, Unrouted, Uncalled, Unused, Purposes
  <2>6. FactsOK(r)'
    BY <1>1, <1>2 DEF RequestOK, FactsOK, Judged
  <2>7. DraftOK(r)'
    BY <1>1, <1>7 DEF DraftOK, Unrouted
  <2>8. AnswerOK(r)'
    BY <1>1, <1>3, <1>7, <1>8, <1>10, <1>11 DEF AnswerOK, Bound
  <2> QED
    BY <2>2, <2>3, <2>4, <2>5, <2>6, <2>7, <2>8 DEF RequestOK
<1> QED
  BY <1>4, <1>5, <1>6, <1>12, OnlyMine

-----------------------------------------------------------------------------
(* The theorems *)

LEMMA InitPInv == ChatInit => PInv
<1> SUFFICES ASSUME ChatInit PROVE PInv
  OBVIOUS
<1>1. ChatTypes
  BY DEF ChatInit, ChatTypes, Stages
<1>2. ASSUME NEW r \in Requests
      PROVE  RequestOK(r)
  <2>1. /\ phase[r] = "idle" /\ at[r] = "idle" /\ routing[r] = NoRouting /\ facts[r] = NoFacts
        /\ draft[r] = NoDraft /\ late[r] = FALSE /\ reserved[r] = 0 /\ answer[r] = NoAnswer
        /\ entered[r] = 0
    BY DEF ChatInit, Init
  <2>2. \A p : Made(r, p) = {}
    BY DEF ChatInit, Made
  <2>3. NoDraft.mode = "none" /\ NoDraft.result = "none"
    BY DEF NoDraft
  <2>4. SlotOK(r) /\ TimeOK(r)
    BY <2>1, <2>2 DEF SlotOK, TimeOK, InBody, Waits, Limited
  <2>5. RouteOK(r) /\ FactsOK(r)
    BY <2>1, RoutedAre DEF RouteOK, FactsOK, Judged
  <2>6. CallsOK(r)
    BY <2>1, <2>2, RoutedAre, CountIs DEF CallsOK, Unused
  <2>7. DraftOK(r) /\ AnswerOK(r)
    BY <2>1, <2>3 DEF DraftOK, AnswerOK
  <2> QED
    BY <2>4, <2>5, <2>6, <2>7 DEF RequestOK
<1> QED
  BY <1>1, <1>2 DEF PInv

LEMMA QuietKeeps ==
  ASSUME TypeOK, TypeOK', PInv, UNCHANGED mine, now <= now',
         \A q \in Requests : SlotKept(q)
  PROVE  PInv'
<1> USE DEF PInv
<1>1. \A q \in Requests : Same(q)
  BY NoCall DEF mine, Same
<1>2. ChatTypes'
  BY DEF mine, ChatTypes
<1>3. ASSUME NEW q \in Requests
      PROVE  RequestOK(q)'
  <2>1. now \in Nat /\ now' \in Nat /\ start[q] \in Nat /\ RequestOK(q) /\ SlotKept(q)
    BY LimitsAssumption DEF TypeOK, ChatTypes
  <2> QED
    BY <1>1, <2>1, SameKeeps
<1> QED
  BY <1>2, <1>3

LEMMA StepPInv == IInv /\ IInv' /\ PInv /\ [ChatNext]_allVars => PInv'
<1> SUFFICES ASSUME IInv, IInv', PInv, [ChatNext]_allVars PROVE PInv'
  OBVIOUS
<1>1. TypeOK /\ TypeOK'
  BY DEF IInv
<1>2. CASE ChatTick
  <2>1. now <= now' /\ UNCHANGED <<phase, mine>>
    BY <1>1, <1>2, NowIsNat DEF ChatTick, Tick
  <2> QED
    BY <1>1, <2>1, QuietKeeps DEF SlotKept
<1>3. CASE UNCHANGED allVars
  <2>1. now <= now' /\ UNCHANGED <<phase, mine>>
    BY <1>1, <1>3, NowIsNat DEF allVars, vars
  <2> QED
    BY <1>1, <2>1, QuietKeeps DEF SlotKept
<1>4. ASSUME NEW r \in Requests, Runs(r)
      PROVE  PInv'
  <2>1. CASE Route(r)
    BY <1>1, <2>1, RouteKeeps
  <2>2. CASE Queue(r)
    BY <1>1, <2>2, QueueKeeps
  <2>3. CASE Enter(r)
    BY <1>1, <2>3, EnterKeeps
  <2>4. CASE TurnedAway(r)
    BY <1>1, <2>4, TurnedAwayKeeps
  <2>5. CASE CallClassifier(r)
    BY <1>1, <2>5, CallClassifierKeeps
  <2>6. CASE ClassifierTimesOut(r)
    <3>1. "timeout" \in Classifiable \cup Failures
      BY DEF Failures
    <3> QED
      BY <1>1, <2>6, <3>1, ClassifyKeeps DEF ClassifierTimesOut
  <2>7. CASE AnswerPrice(r)
    BY <1>1, <2>7, AnswerPriceKeeps
  <2>8. CASE Fetch(r) \/ Refuse(r)
    BY <1>1, <2>8, FetchKeeps
  <2>9. CASE FetchTimesOut(r)
    BY <1>1, <2>9, FetchTimesOutKeeps
  <2>10. CASE Judge(r)
    BY <1>1, <2>10, JudgeKeeps
  <2>11. CASE AskComposer(r)
    BY <1>1, <2>11, AskComposerKeeps
  <2>12. CASE StartComposer(r)
    BY <1>1, <2>12, StartComposerKeeps
  <2>13. CASE CallComposer(r)
    BY <1>1, <2>13, CallComposerKeeps
  <2>14. CASE ComposerTimesOut(r)
    BY <1>1, <2>14, ComposerTimesOutKeeps
  <2>15. CASE Build(r)
    BY <1>1, <2>15, BuildKeeps
  <2>16. CASE Deliver(r)
    BY <1>1, <2>16, DeliverKeeps
  <2> QED
    BY <1>4, <2>1, <2>2, <2>3, <2>4, <2>5, <2>6, <2>7, <2>8, <2>9, <2>10, <2>11, <2>12,
       <2>13, <2>14, <2>15, <2>16 DEF Runs
<1>5. ASSUME NEW r \in Requests, Others(r)
      PROVE  PInv'
  <2>1. CASE \E q \in MayAsk[r] : Begin(r, q)
    BY <1>1, <2>1, BeginKeeps
  <2>2. CASE \E o \in Outcomes : Classify(r, o)
    BY <1>1, <2>2, ClassifyKeeps, QuestionsAssumption
  <2>3. CASE Fetched(r)
    BY <1>1, <2>3, FetchKeeps
  <2>4. CASE \E s \in FailureStatuses \cup {"ok"} : ModelAnswers(r, s)
    BY <1>1, <2>4, ModelAnswersKeeps
  <2> QED
    BY <1>5, <2>1, <2>2, <2>3, <2>4 DEF Others
<1> QED
  BY <1>2, <1>3, <1>4, <1>5 DEF ChatNext

\* A step of the pipeline is a step of the protector, or none.
LEMMA ProtectorSteps == [ChatNext]_allVars => [Next]_vars
<1> SUFFICES ASSUME [ChatNext]_allVars PROVE [Next]_vars
  OBVIOUS
<1>1. CASE UNCHANGED allVars
  BY <1>1 DEF allVars
<1>2. CASE ChatTick
  BY <1>2 DEF ChatTick, Next
<1>3. ASSUME NEW r \in Requests, Runs(r) \/ Others(r)
      PROVE  UNCHANGED vars \/ Step(r)
  <2>1. CASE Route(r) \/ AskComposer(r)
    <3>1. UNCHANGED vars \/ Ask(r, ClientOf[r])
      BY <2>1 DEF Route, AskComposer, AskFor
    <3>2. ClientOf[r] \in Clients
      BY DeadlineAssumption
    <3> QED
      BY <3>1, <3>2 DEF Step
  <2>2. CASE Queue(r)
    BY <2>2 DEF Queue, Step
  <2>3. CASE Enter(r)
    BY <2>3 DEF Enter, Step
  <2>4. CASE TurnedAway(r)
    BY <2>4 DEF TurnedAway, Step
  <2>5. CASE CallClassifier(r)
    BY <2>5 DEF CallClassifier, Step
  <2>6. CASE ClassifierTimesOut(r) \/ \E o \in Outcomes : Classify(r, o)
    BY <2>6 DEF ClassifierTimesOut, Classify, Step
  <2>7. CASE AnswerPrice(r) \/ Fetch(r) \/ FetchTimesOut(r) \/ Refuse(r) \/ Judge(r) \/ Fetched(r)
             \/ Build(r) \/ Deliver(r) \/ \E q \in MayAsk[r] : Begin(r, q)
    BY <2>7 DEF AnswerPrice, Fetch, FetchTimesOut, Refuse, Judge, Fetched, Build, Deliver, Begin
  <2>8. CASE StartComposer(r)
    BY <2>8 DEF StartComposer, Composed, Step
  <2>9. CASE CallComposer(r)
    BY <2>9 DEF CallComposer, Composed, Step
  <2>10. CASE ComposerTimesOut(r) \/ \E s \in FailureStatuses \cup {"ok"} : ModelAnswers(r, s)
    BY <2>10 DEF ComposerTimesOut, ModelAnswers, Composed, Step
  <2> QED
    BY <1>3, <2>1, <2>2, <2>3, <2>4, <2>5, <2>6, <2>7, <2>8, <2>9, <2>10 DEF Runs, Others
<1> QED
  BY <1>1, <1>2, <1>3 DEF ChatNext, Next

\* The pipeline uses the protector as its callers may: each of its behaviours is
\* one of RequestProtector, so whatever is proved of that module holds of the
\* slots, the counts and the limits while questions are answered.
THEOREM Protected == ChatSpec => Spec
<1>1. ChatInit => Init
  BY DEF ChatInit
<1> QED
  BY <1>1, ProtectorSteps, PTL DEF ChatSpec, Spec

\* The invariant of the pipeline holds, with that of the protector.
THEOREM PipelineInductive == ChatSpec => [](IInv /\ PInv)
<1>1. ChatSpec => []IInv
  BY Protected, Inductive, PTL
<1> QED
  BY <1>1, InitPInv, StepPInv, PTL DEF ChatSpec

\* A request holds a slot exactly in the body of admit and asks for one exactly
\* while it waits, whichever way its wait or its call ended.
THEOREM SlotsFollow == ChatSpec => []SlotsFollowRequests
<1>1. PInv => SlotsFollowRequests
  BY DEF PInv, RequestOK, SlotOK, SlotsFollowRequests
<1> QED
  BY <1>1, PipelineInductive, PTL

\* No wait ends after the deadline, and the classifier is not called after it.
THEOREM DeadlineKept == ChatSpec => []WithinDeadline
<1>1. PInv => WithinDeadline
  <2> SUFFICES ASSUME PInv PROVE WithinDeadline
    OBVIOUS
  <2>1. ASSUME NEW r \in Requests, at[r] \in Limited
        PROVE  due[r] <= Bound(r)
    BY <2>1 DEF PInv, RequestOK, TimeOK
  <2>2. ASSUME NEW c \in calls, c[2] = "classify"
        PROVE  c[3] < Bound(c[1])
    <3>1. c[1] \in Requests
      BY DEF PInv, ChatTypes
    <3>2. c \in Made(c[1], "classify")
      BY <2>2 DEF Made
    <3> QED
      BY <3>1, <3>2 DEF PInv, RequestOK, TimeOK
  <2> QED
    BY <2>1, <2>2 DEF WithinDeadline
<1> QED
  BY <1>1, PipelineInductive, PTL

\* A text by a model is only delivered if the last reading of the clock was
\* before the deadline, and the reader is told of the deadline exactly when it
\* was not.
THEOREM LateTextDropped == ChatSpec => []LateTextIsDropped
<1>1. PInv => LateTextIsDropped
  BY DEF PInv, RequestOK, DraftOK, AnswerOK, LateTextIsDropped
<1> QED
  BY <1>1, PipelineInductive, PTL

\* Routing keeps the security, the dates and the promises of the first plan, and
\* records itself consistently.
THEOREM PlanKept == ChatSpec => []RoutingKeepsPlan
<1>1. PInv => RoutingKeepsPlan
  <2> SUFFICES ASSUME PInv, NEW r \in Requests, routing[r] # NoRouting
               PROVE  /\ RoutingResult(routing[r])
                      /\ PlanFits(PlanOf(r), Planned[question[r]])
    BY DEF RoutingKeepsPlan, PlanFits
  <2>1. RoutingFits(routing[r], question[r])
    BY DEF PInv, RequestOK, RouteOK
  <2> QED
    BY <2>1 DEF RoutingFits, RoutingResult, PlanOf
<1> QED
  BY <1>1, PipelineInductive, PTL

LEMMA CountIsCardinality ==
  ASSUME NEW S, \A c, d \in S : c = d
  PROVE  IsFiniteSet(S) /\ Cardinality(S) = Count(S)
<1>1. CASE S = {}
  BY <1>1, FS_EmptySet DEF Count
<1>2. CASE S # {}
  <2>1. PICK c \in S : S = {c}
    BY <1>2
  <2> QED
    BY <2>1, FS_Singleton, CountIs
<1> QED
  BY <1>1, <1>2

LEMMA DisjointUnion ==
  ASSUME NEW S, NEW T, IsFiniteSet(S), IsFiniteSet(T), S \cap T = {}
  PROVE  Cardinality(S \cup T) = Cardinality(S) + Cardinality(T)
<1>1. Cardinality(S \cup T) = Cardinality(S) + Cardinality(T) - Cardinality(S \cap T)
  BY FS_Union
<1>2. Cardinality(S \cap T) = 0
  BY FS_EmptySet
<1>3. Cardinality(S) \in Nat /\ Cardinality(T) \in Nat
  BY FS_CardinalityType
<1> QED
  BY <1>1, <1>2, <1>3

\* At most one call for each of the two purposes: their number is that of the
\* purposes called for.
LEMMA MadeCounted ==
  ASSUME ChatTypes, NEW r \in Requests, CallsOK(r)
  PROVE  LET made == {c \in calls : c[1] = r}
             n == Count(Made(r, "classify")) + Count(Made(r, "compose")) IN
         Cardinality(made) = n /\ Cardinality({c[2] : c \in made}) = n
<1> DEFINE made == {c \in calls : c[1] = r}
           A == Made(r, "classify")
           B == Made(r, "compose")
           P == {c[2] : c \in A}
           Q == {c[2] : c \in B}
<1>1. made = A \cup B /\ A \cap B = {}
  BY DEF ChatTypes, Purposes, Made
<1>2. /\ IsFiniteSet(A) /\ Cardinality(A) = Count(A)
      /\ IsFiniteSet(B) /\ Cardinality(B) = Count(B)
  BY CountIsCardinality DEF CallsOK, Purposes
<1>3. P \subseteq {"classify"} /\ Q \subseteq {"compose"}
      /\ (P = {} <=> A = {}) /\ (Q = {} <=> B = {})
  BY DEF Made
<1>4. /\ IsFiniteSet(P) /\ Cardinality(P) = Count(P)
      /\ IsFiniteSet(Q) /\ Cardinality(Q) = Count(Q)
  BY <1>3, CountIsCardinality
<1>5. {c[2] : c \in made} = P \cup Q /\ P \cap Q = {}
  BY <1>1, <1>3
<1>6. Count(P) = Count(A) /\ Count(Q) = Count(B)
  BY <1>3 DEF Count
<1> HIDE DEF made, A, B, P, Q
<1>7. Cardinality(made) = Count(A) + Count(B)
  <2>1. Cardinality(A \cup B) = Cardinality(A) + Cardinality(B)
    BY <1>1, <1>2, DisjointUnion
  <2> QED
    BY <1>1, <1>2, <2>1
<1>8. Cardinality({c[2] : c \in made}) = Count(A) + Count(B)
  <2>1. Cardinality(P \cup Q) = Cardinality(P) + Cardinality(Q)
    BY <1>4, <1>5, DisjointUnion
  <2> QED
    BY <1>4, <1>5, <1>6, <2>1
<1> USE DEF made, A, B
<1> QED
  BY <1>7, <1>8

\* The calls observed of an answer are the calls made, at most one for each
\* purpose and each of them admitted, and the log accepts what it is told.
THEOREM CallsCounted == ChatSpec => []CallsAccounted
<1>1. PInv => CallsAccounted
  <2> SUFFICES ASSUME PInv, NEW r \in Requests
               PROVE  LET made == {c \in calls : c[1] = r} IN
                      /\ Cardinality(made) = Cardinality({c[2] : c \in made})
                      /\ Cardinality(made) <= entered[r]
                      /\ answer[r] # NoAnswer =>
                           /\ answer[r].observed.calls = Cardinality(made)
                           /\ Observable(answer[r].observed)
    BY DEF CallsAccounted
  <2> DEFINE made == {c \in calls : c[1] = r}
             n == Count(Made(r, "classify")) + Count(Made(r, "compose"))
  <2>1. ChatTypes /\ RequestOK(r) /\ entered[r] \in Nat /\ reserved[r] \in Nat
    BY DEF PInv, ChatTypes
  <2>2. Cardinality(made) = n /\ Cardinality({c[2] : c \in made}) = n
    BY <2>1, MadeCounted DEF RequestOK
  <2>3. n \in 0..2 /\ n <= entered[r]
    BY <2>1, CountIs DEF RequestOK, CallsOK, Unused
  <2>4. ASSUME answer[r] # NoAnswer
        PROVE  answer[r].observed.calls = n /\ Observable(answer[r].observed)
    <3> DEFINE o == answer[r].observed
    <3>1. at[r] = "answered"
      BY <2>1, <2>4 DEF RequestOK, DraftOK
    <3>2. /\ o.calls = routing[r].calls + reserved[r] /\ o.decision \in Decisions
          /\ o.routing.mode = routing[r].mode /\ o.routing.status = routing[r].status
      BY <2>1, <3>1 DEF RequestOK, AnswerOK
    <3>3. RoutingFits(routing[r], question[r])
      BY <2>1, <3>1, RoutedAre DEF RequestOK, RouteOK
    <3>4. o.calls = n
      BY <2>1, <3>1, <3>2, RoutedAre DEF RequestOK, CallsOK
    <3> HIDE DEF o
    <3>5. \/ o.routing.mode = "deterministic" /\ o.routing.status = "not_called"
          \/ o.routing.mode = "hybrid_llm" /\ o.routing.status = "accepted"
          \/ o.routing.mode = "hybrid_fallback" /\ o.routing.status \in Failures
      BY <3>2, <3>3 DEF RoutingFits
    <3>6. Observable(o)
      BY <2>3, <3>2, <3>4, <3>5 DEF Observable, Decisions
    <3> QED
      BY <3>4, <3>6 DEF o
  <2> QED
    BY <2>2, <2>3, <2>4
<1> QED
  BY <1>1, PipelineInductive, PTL

=============================================================================
