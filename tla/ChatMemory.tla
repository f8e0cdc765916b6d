----------------------------- MODULE ChatMemory -----------------------------
(***************************************************************************)
(* How ChatService.chat in src/app/services/chat_service.py uses the       *)
(* session store and the response cache together.                          *)
(*                                                                         *)
(* A request enters its session, looks for a cached answer under the       *)
(* session's revision, and otherwise works one out: it plans from the      *)
(* session's context, awaits the router, the sources and the model, then   *)
(* saves the context, records the exchange and caches the answer under the *)
(* revision that results.  An answer is modelled by the question and the   *)
(* security it is about; what was retrieved and written is abstracted.     *)
(*                                                                         *)
(* The actions of SessionStore are joined with the steps of the cache that *)
(* the code takes in the same stretch between two awaits.                  *)
(***************************************************************************)
EXTENDS SessionStore

CONSTANTS
  Questions,     \* what may be asked
  Names,         \* the security each question names, or NoContext
  Asides,        \* questions about no security: clarified, declined or a term
  Unrecordable,  \* questions whose text append_exchange refuses
  NoQuestion,    \* a request that has asked nothing
  NoAnswer,      \* a request that has not been answered
  NoItem,        \* an absent cache key
  CacheTtl,      \* the response cache's time to live
  MaxItems,      \* its capacity
  MaxPerSession, \* its share for one session
  RankOf         \* the order of its keys

ASSUME QuestionsAssumption ==
  /\ Names \in [Questions -> Contexts \cup {NoContext}]
  /\ Asides \subseteq {q \in Questions : Names[q] = NoContext}
  /\ Unrecordable \subseteq Questions

\* A session outlives the answers cached for it.
ASSUME CacheTtlAssumption == CacheTtl \in Nat \ {0} /\ CacheTtl < Ttl

VARIABLES
  stage,     \* how far each request is in the body
  question,  \* what it asks
  answer,    \* the answer it returns
  items,     \* the cache
  last,      \* history: each session's last exchange, if its answer was cached
  named      \* history: the securities named in each session by questions answered

chat == <<stage, question, answer, items, last, named>>
chatVars == <<now, table, entry, phase, key, held, view,
              stage, question, answer, items, last, named>>

CacheKeys == Sessions \X Questions \X (0..MaxRevision)

Cache ==
  INSTANCE ResponseCache
    WITH Keys <- CacheKeys, SessionOf <- [k \in CacheKeys |-> k[1]], Rank <- RankOf,
         Answers <- Questions \X Context, Nothing <- NoAnswer,
         found <- NoAnswer, latest <- [k \in CacheKeys |-> NoAnswer]

\* The cache's limits, and its order, which any numbers may give.
ASSUME RoomAssumption ==
  /\ IsFiniteSet(Questions)
  /\ MaxPerSession \in Nat \ {0} /\ MaxItems \in Nat
  /\ RankOf \in [CacheKeys -> Int]
  /\ NoItem \notin Cache!Item

Stages == {"start", "work", "done"}

\* mutant: the session's security takes precedence
AboutSession(q, c) == IF c = NoContext THEN Names[q] ELSE c

\* The plan's security: the one named, or else, for a follow-up, the one the
\* session is about.
About(q, c) == IF q \in Asides \/ Names[q] # NoContext THEN Names[q] ELSE c

\* mutant: the revision is left out of the cache key
KeyOfQuestion(r, revision) == <<key[r], question[r], 0>>

\* mutant: the session is left out of the cache key
KeyOfAnySession(r, revision) ==
  <<CHOOSE s \in Sessions : \A u \in Sessions : s <= u, question[r], revision>>

\* Where the answer to a request's question is cached.
KeyAt(r, revision) == <<key[r], question[r], revision>>

\* mutant: the answer is cached under the revision it was worked out at
RevisionBefore(x) == x.revision

\* The revision the session has once the exchange is recorded.
RevisionAfter(x) == x.revision + 1

-----------------------------------------------------------------------------
ChatInit ==
  /\ Init
  /\ stage = [r \in Requests |-> "start"]
  /\ question = [r \in Requests |-> NoQuestion]
  /\ answer = [r \in Requests |-> NoAnswer]
  /\ items = [k \in CacheKeys |-> NoItem]
  /\ last = [s \in Sessions |-> NoAnswer]
  /\ named = [s \in Sessions |-> {}]

Start(r, s, q) ==
  /\ Enter(r, s)
  /\ question' = [question EXCEPT ![r] = q]
  /\ UNCHANGED <<stage, answer, items, last, named>>

\* The store is full: "chat service unavailable".
TurnAway(r, s) == Refuse(r, s) /\ UNCHANGED chat

Proceed(r) == Resume(r) /\ UNCHANGED chat

Withdraw(r) ==
  /\ Cancel(r)
  /\ question' = [question EXCEPT ![r] = NoQuestion]
  /\ UNCHANGED <<stage, answer, items, last, named>>

\* The revision is read and the cache asked; after a miss the context is read.
LookUp(r) ==
  LET k == KeyAt(r, entry[EntryOf(r)].revision) IN
  /\ stage[r] = "start"
  /\ Read(r)
  /\ items' = Cache!Touched(k)
  /\ \/ /\ Cache!Purged[k] # NoItem
        /\ answer' = [answer EXCEPT ![r] = Cache!Purged[k].answer]
        /\ stage' = [stage EXCEPT ![r] = "done"]
     \/ /\ Cache!Purged[k] = NoItem
        /\ stage' = [stage EXCEPT ![r] = "work"]
        /\ UNCHANGED answer
  /\ UNCHANGED <<question, last, named>>

\* conversation_context, between two awaits.
Consult(r) == stage[r] = "work" /\ Read(r) /\ UNCHANGED chat

\* An exception or a cancellation ends the work before anything is saved.
Abandon(r) ==
  /\ phase[r] = "body" /\ stage[r] = "work"
  /\ stage' = [stage EXCEPT ![r] = "done"]
  /\ UNCHANGED <<now, table, entry, phase, key, held, view,
                 question, answer, items, last, named>>

\* _save_session_context, append_exchange and put, without an await between
\* them.  The plan was made from the context read before the awaits.  A plan
\* with no security leaves the session's as it was.  An exchange that the store
\* refuses is not recorded, and then its answer is not cached; nor is that of a
\* price question or of a request whose observation failed (~cacheable).
Complete(r, cacheable) ==
  LET x == entry[EntryOf(r)]
      q == question[r]
      c == About(q, view[r][2])
      saved == IF c = NoContext THEN x ELSE [x EXCEPT !.context = c]
      recorded == q \notin Unrecordable
      k == KeyAt(r, RevisionAfter(x)) IN
  /\ stage[r] = "work"
  /\ recorded => x.revision < MaxRevision
  /\ Touch(r, IF recorded THEN Appended(saved) ELSE saved)
  /\ answer' = [answer EXCEPT ![r] = <<q, c>>]
  /\ items' = IF recorded /\ cacheable THEN Cache!Placed(k, <<q, c>>) ELSE items
  /\ last' = [last EXCEPT ![key[r]] =
                IF recorded /\ cacheable
                  THEN [question |-> q, revision |-> x.revision + 1, time |-> now]
                  ELSE NoAnswer]
  /\ named' = [named EXCEPT ![key[r]] = @ \cup ({Names[q]} \ {NoContext})]
  /\ stage' = [stage EXCEPT ![r] = "done"]
  /\ UNCHANGED question

\* `serialized` is left and the answer, if there is one, returned.
Return(r) ==
  /\ stage[r] = "done"
  /\ Leave(r)
  /\ stage' = [stage EXCEPT ![r] = "start"]
  /\ question' = [question EXCEPT ![r] = NoQuestion]
  /\ answer' = [answer EXCEPT ![r] = NoAnswer]
  /\ UNCHANGED <<items, last, named>>

ChatTick == Tick /\ UNCHANGED chat

ChatStep(r) ==
  \/ \E s \in Sessions, q \in Questions : Start(r, s, q)
  \/ \E s \in Sessions : TurnAway(r, s)
  \/ Proceed(r)
  \/ Withdraw(r)
  \/ LookUp(r)
  \/ Consult(r)
  \/ Abandon(r)
  \/ \E cacheable \in BOOLEAN : Complete(r, cacheable)
  \/ Return(r)

ChatNext == ChatTick \/ \E r \in Requests : ChatStep(r)

ChatSpec == ChatInit /\ [][ChatNext]_chatVars

\* The event loop runs a woken task, the work on an answer ends within the
\* request's deadline, by an exception at the latest, and what follows it does
\* not wait for anything.
ChatFairness ==
  \A r \in Requests :
    /\ WF_chatVars(Proceed(r))
    /\ WF_chatVars(LookUp(r))
    /\ WF_chatVars(Abandon(r) \/ \E cacheable \in BOOLEAN : Complete(r, cacheable))
    /\ WF_chatVars(Return(r))

FairChatSpec == ChatSpec /\ ChatFairness

-----------------------------------------------------------------------------
(* Properties *)

\* A request that waits for its session gets it or is cancelled, whatever is
\* answered, cached or abandoned before it.
WaitersServed ==
  \A r \in Requests : phase[r] = "queued" ~> phase[r] \in {"body", "idle"}

\* A question asked again at once, with nothing said in between, is never
\* worked out again while its answer is fresh: no second use of quota, history
\* or revision, whoever else was waiting for the session.
RepeatIsCached ==
  [][\A r \in Requests :
       stage[r] = "start" /\ stage'[r] = "work" =>
         LET e == last[key[r]] IN
         ~ /\ e # NoAnswer
           /\ e.question = question[r]
           /\ e.revision = view'[r][1]
           /\ now - e.time < CacheTtl]_chatVars

\* An answer, cached or not, is about what its question means in the session as
\* it is when the answer is given.
AnswerIsCurrent ==
  \A r \in Requests :
    InBody(r) /\ answer[r] # NoAnswer =>
      answer[r] = <<question[r], About(question[r], entry[held[r]].context)>>

\* An answer is about no security, or about one that was named in the session
\* it is given in: what other sessions talk about never reaches it, also when
\* sessions are evicted and their ids come back.
AnswerIsOwn ==
  \A r \in Requests :
    InBody(r) /\ answer[r] # NoAnswer =>
      answer[r][2] \in named[key[r]] \cup {NoContext}

\* Requests for a session are answered as if each were alone and immediate:
\* every answer is the one Dialogue gives, in the order in which they were
\* given, whichever of them came from the cache.
Talk == INSTANCE Dialogue WITH subject <- [s \in Sessions |-> Memory[s].context],
                               reply <- answer

HoldsDialogue == Talk!Spec

=============================================================================
