-------------------------- MODULE ChatMemoryProofs --------------------------
(***************************************************************************)
(* Proofs about ChatMemory: whatever the cache holds, whoever waits and    *)
(* whichever sessions are evicted, an answer is about a security named in  *)
(* its own session; where no session is evicted and every exchange is      *)
(* recorded, the answers are those of Dialogue; and where the cache has    *)
(* room for every session, a repeated question is answered from it.        *)
(***************************************************************************)
EXTENDS ChatMemory, SessionStoreProofs

-----------------------------------------------------------------------------
(* The invariant *)

ChatTypes ==
  /\ stage \in [Requests -> Stages]
  /\ question \in [Requests -> Questions \cup {NoQuestion}]
  /\ answer \in [Requests -> (Questions \X Context) \cup {NoAnswer}]
  /\ items \in [CacheKeys -> Cache!Item \cup {NoItem}]
  /\ named \in [Sessions -> SUBSET Contexts]

\* A request asks something once it has called, is at work only in the body and
\* with what it has read, and has an answer only when it is done.
StageOK(r) ==
  /\ phase[r] # "idle" => question[r] \in Questions
  /\ stage[r] # "start" => InBody(r)
  /\ stage[r] = "work" => view[r] # NoView
  /\ stage[r] # "done" => answer[r] = NoAnswer

ChatOK ==
  /\ ChatTypes
  /\ \A r \in Requests : StageOK(r)
  /\ \A e \in Entries : entry[e].revision <= MaxRevision

\* Security c is among those named in session s, or is none.
Own(nm, s, c) == c \in nm[s] \cup {NoContext}

OwnSubjects == \A s \in Sessions : table[s] # NoEntry => Own(named, s, entry[table[s]].context)
OwnItems    == \A k \in CacheKeys : items[k] # NoItem => Own(named, k[1], items[k].answer[2])
OwnAnswers  == \A r \in Requests : answer[r] # NoAnswer => Own(named, key[r], answer[r][2])

OwnInv == OwnSubjects /\ OwnItems /\ OwnAnswers
-----------------------------------------------------------------------------
(* The cache *)

\* The item under k is kept as it is but for its last access, or dropped.
Survives(k) ==
  items'[k] # NoItem =>
    /\ items[k] # NoItem
    /\ items'[k].answer = items[k].answer
    /\ items'[k].created = items[k].created

LEMMA WithoutDrops ==
  ASSUME NEW map, NEW K, NEW l \in CacheKeys
  PROVE  Cache!Without(map, K)[l] = map[l] \/ Cache!Without(map, K)[l] = NoItem
BY DEF Cache!Without

LEMMA TrimmedDrops ==
  ASSUME NEW map, NEW K, NEW n, NEW l \in CacheKeys
  PROVE  Cache!Trimmed(map, K, n)[l] = map[l] \/ Cache!Trimmed(map, K, n)[l] = NoItem
BY WithoutDrops DEF Cache!Trimmed

LEMMA AdmittedDrops ==
  ASSUME NEW k, NEW l \in CacheKeys
  PROVE  Cache!Admitted(k)[l] = items[l] \/ Cache!Admitted(k)[l] = NoItem
<1> DEFINE own  == Cache!Without(Cache!Purged, {k})
           mine == Cache!Trimmed(own, Cache!Crowd(own, k), MaxPerSession)
           all  == Cache!Trimmed(mine, Cache!Stored(mine), MaxItems)
<1>1. Cache!Purged[l] = items[l] \/ Cache!Purged[l] = NoItem
  BY WithoutDrops DEF Cache!Purged
<1>2. own[l] = Cache!Purged[l] \/ own[l] = NoItem
  BY WithoutDrops
<1>3. mine[l] = own[l] \/ mine[l] = NoItem
  <2> HIDE DEF own
  <2> QED
    BY TrimmedDrops
<1>4. all[l] = mine[l] \/ all[l] = NoItem
  <2> HIDE DEF mine
  <2> QED
    BY TrimmedDrops
<1>5. Cache!Admitted(k) = all
  BY DEF Cache!Admitted
<1> HIDE DEF own, mine, all
<1> QED
  BY <1>1, <1>2, <1>3, <1>4, <1>5

LEMMA TouchedSurvives ==
  ASSUME TypeOK, ChatTypes, NEW k, items' = Cache!Touched(k)
  PROVE  \A l \in CacheKeys :
           Survives(l) /\ items'[l] \in Cache!Item \cup {NoItem}
<1> SUFFICES ASSUME NEW l \in CacheKeys, items'[l] # NoItem
             PROVE  /\ items[l] # NoItem
                    /\ items'[l].answer = items[l].answer
                    /\ items'[l].created = items[l].created
                    /\ items'[l] \in Cache!Item \cup {NoItem}
  BY DEF Survives
<1>1. Cache!Purged[l] = items[l] \/ Cache!Purged[l] = NoItem
  BY WithoutDrops DEF Cache!Purged
<1>2. items'[l] = IF l = k /\ Cache!Purged[l] # NoItem
                    THEN [Cache!Purged[l] EXCEPT !.last = now] ELSE Cache!Purged[l]
  BY DEF Cache!Touched
<1>3. items[l] # NoItem /\ Cache!Purged[l] = items[l] /\ items[l] \in Cache!Item
  BY <1>1, <1>2 DEF ChatTypes
<1>4. CASE items'[l] = items[l]
  BY <1>3, <1>4
<1>5. CASE items'[l] = [items[l] EXCEPT !.last = now]
  <2>1. now \in Nat
    BY DEF TypeOK
  <2> QED
    BY <1>3, <1>5, <2>1 DEF Cache!Item
<1> QED
  BY <1>2, <1>3, <1>4, <1>5
LEMMA PlacedSurvives ==
  ASSUME TypeOK, ChatTypes, NEW k, NEW a \in Questions \X Context,
         items' = Cache!Placed(k, a)
  PROVE  /\ \A l \in CacheKeys : items'[l] \in Cache!Item \cup {NoItem}
         /\ \A l \in CacheKeys \ {k} : Survives(l)
         /\ k \in CacheKeys => items'[k].answer = a /\ items'[k].created = now
<1>1. ASSUME NEW l \in CacheKeys, l = k
      PROVE  /\ items'[l] \in Cache!Item
             /\ items'[l].answer = a /\ items'[l].created = now
  <2>1. items'[l] = [answer |-> a, created |-> now, last |-> now]
    BY <1>1 DEF Cache!Placed
  <2>2. now \in Nat
    BY DEF TypeOK
  <2> QED
    BY <2>1, <2>2 DEF Cache!Item
<1>2. ASSUME NEW l \in CacheKeys, l # k
      PROVE  items'[l] = items[l] \/ items'[l] = NoItem
  <2>1. items'[l] = Cache!Admitted(k)[l]
    BY <1>2 DEF Cache!Placed
  <2> QED
    BY <2>1, AdmittedDrops
<1>3. ASSUME NEW l \in CacheKeys, l # k
      PROVE  items'[l] \in Cache!Item \cup {NoItem} /\ Survives(l)
  BY <1>2, <1>3 DEF ChatTypes, Survives
<1> QED
  BY <1>1, <1>3

-----------------------------------------------------------------------------
(* The store under the chat service *)

\* Every step is a step of the store, but for the completion of an answer,
\* which saves the context and records the exchange in one.
LEMMA StoreMoves ==
  ASSUME [ChatNext]_chatVars
  PROVE  \/ [Next]_vars
         \/ \E r \in Requests, cacheable \in BOOLEAN : Complete(r, cacheable)
BY DEF ChatNext, ChatStep, chatVars, vars, Next, Step, ChatTick, Start, TurnAway,
       Proceed, Withdraw, LookUp, Consult, Abandon, Return

\* What a completed request is about and leaves in its session.
Subject(r) == About(question[r], view[r][2])

Saved(r) ==
  IF Subject(r) = NoContext THEN entry[held[r]]
                            ELSE [entry[held[r]] EXCEPT !.context = Subject(r)]

Left(r) == IF question[r] \notin Unrecordable THEN Appended(Saved(r)) ELSE Saved(r)

LEMMA SubjectType ==
  ASSUME IInv, ChatOK, NEW r \in Requests, stage[r] = "work"
  PROVE  /\ InBody(r) /\ held[r] \in Entries /\ entry[held[r]] \in EntryRecord
         /\ key[r] \in Sessions /\ table[key[r]] = held[r]
         /\ question[r] \in Questions /\ view[r] # NoView
         /\ view[r][2] \in Context
         /\ Names[question[r]] \in Context
         /\ Subject(r) \in {Names[question[r]], view[r][2]}
         /\ Subject(r) \in Context
<1>1. InBody(r) /\ question[r] \in Questions /\ view[r] # NoView
  BY DEF ChatOK, StageOK, InBody
<1>2. held[r] \in Entries /\ key[r] \in Sessions /\ table[key[r]] = held[r]
  BY <1>1 DEF IInv, TypeOK, RequestOK, InBody
<1>3. entry[held[r]] \in EntryRecord /\ view[r][2] \in Context
  BY <1>1, <1>2 DEF IInv, TypeOK
<1>4. Names[question[r]] \in Context
  BY <1>1, QuestionsAssumption DEF Context
<1> QED
  BY <1>1, <1>2, <1>3, <1>4 DEF Subject, About

LEMMA SavedIs ==
  ASSUME NEW r \in Requests, entry[held[r]] \in EntryRecord, Subject(r) \in Context
  PROVE  /\ SameUse(entry[held[r]], Saved(r))
         /\ Saved(r).recent = entry[held[r]].recent
         /\ Saved(r).revision = entry[held[r]].revision
         /\ Saved(r).context = IF Subject(r) = NoContext THEN entry[held[r]].context
                                                         ELSE Subject(r)
<1> DEFINE x == entry[held[r]]
           c == Subject(r)
<1> HIDE DEF x, c
<1>1. x \in EntryRecord /\ c \in Context
  BY DEF x, c
<1>2. Saved(r) = IF c = NoContext THEN x ELSE [x EXCEPT !.context = c]
  BY DEF Saved, x, c
<1>3. /\ SameUse(x, Saved(r)) /\ Saved(r).recent = x.recent
      /\ Saved(r).revision = x.revision
      /\ Saved(r).context = IF c = NoContext THEN x.context ELSE c
  <2>1. CASE c = NoContext
    BY <1>1, <1>2, <2>1 DEF SameUse
  <2>2. CASE c # NoContext
    BY <1>1, <1>2, <2>2 DEF SameUse, EntryRecord
  <2> QED
    BY <2>1, <2>2
<1> QED
  BY <1>3 DEF x, c

LEMMA AppendedIs ==
  ASSUME NEW x \in EntryRecord
  PROVE  /\ SameUse(x, Appended(x))
         /\ Appended(x).recent = Newest(Append(x.recent, x.revision + 1))
         /\ Appended(x).revision = x.revision + 1
         /\ Appended(x).context = x.context
<1> DEFINE n == x.revision + 1
           q == Newest(Append(x.recent, n))
<1>1. n \in Nat /\ Append(x.recent, n) \in Seq(Nat)
  BY DEF EntryRecord
<1>2. q \in Seq(Nat)
  BY <1>1, NewestType
<1>3. Appended(x) = [x EXCEPT !.recent = q, !.revision = n]
  BY DEF Appended
<1> HIDE DEF n, q
<1>4. /\ SameUse(x, Appended(x)) /\ Appended(x).recent = q
      /\ Appended(x).revision = n /\ Appended(x).context = x.context
  BY <1>1, <1>2, <1>3 DEF SameUse, EntryRecord
<1> QED
  BY <1>4 DEF n, q

LEMMA LeftIs ==
  ASSUME NEW r \in Requests, entry[held[r]] \in EntryRecord, Subject(r) \in Context
  PROVE  /\ SameUse(entry[held[r]], Left(r))
         /\ Written(entry[held[r]], Left(r))
         /\ Left(r).context = IF Subject(r) = NoContext THEN entry[held[r]].context
                                                        ELSE Subject(r)
         /\ Left(r).revision = IF question[r] \notin Unrecordable
                                 THEN entry[held[r]].revision + 1
                                 ELSE entry[held[r]].revision
<1> DEFINE x == entry[held[r]]
           y == Saved(r)
<1>1. /\ SameUse(x, y) /\ y.recent = x.recent /\ y.revision = x.revision
      /\ y.context = IF Subject(r) = NoContext THEN x.context ELSE Subject(r)
  BY SavedIs
<1>2. y \in EntryRecord
  BY <1>1 DEF SameUse
<1> HIDE DEF x, y
<1>3. CASE question[r] \notin Unrecordable
  <2>1. Left(r) = Appended(y)
    BY <1>3 DEF Left, y
  <2>2. /\ SameUse(y, Appended(y)) /\ Appended(y).context = y.context
        /\ Appended(y).recent = Newest(Append(y.recent, y.revision + 1))
        /\ Appended(y).revision = y.revision + 1
    BY <1>2, AppendedIs
  <2> QED
    BY <1>1, <1>3, <2>1, <2>2 DEF SameUse, Written, x
<1>4. CASE question[r] \in Unrecordable
  <2>1. Left(r) = y
    BY <1>4 DEF Left, y
  <2> QED
    BY <1>1, <1>4, <2>1 DEF SameUse, Written, x
<1> QED
  BY <1>3, <1>4
\* What a completion does, told by the entry that the request holds.
LEMMA CompleteIs ==
  ASSUME IInv, NEW r \in Requests, NEW cacheable \in BOOLEAN, Complete(r, cacheable)
  PROVE  /\ stage[r] = "work" /\ Touch(r, Left(r))
         /\ question[r] \notin Unrecordable => entry[held[r]].revision < MaxRevision
         /\ answer' = [answer EXCEPT ![r] = <<question[r], Subject(r)>>]
         /\ items' = IF question[r] \notin Unrecordable /\ cacheable
                       THEN Cache!Placed(KeyAt(r, entry[held[r]].revision + 1),
                                         <<question[r], Subject(r)>>)
                       ELSE items
         /\ named' = [named EXCEPT ![key[r]] = @ \cup ({Names[question[r]]} \ {NoContext})]
         /\ stage' = [stage EXCEPT ![r] = "done"]
         /\ question' = question
<1>1. phase[r] = "body"
  BY DEF Complete, Touch
<1>2. EntryOf(r) = held[r]
  BY <1>1, OwnEntry
<1> QED
  BY <1>2 DEF Complete, Left, Saved, Subject, RevisionAfter

LEMMA TouchTable ==
  ASSUME IInv, NEW r, NEW x, Touch(r, x)
  PROVE  \A s \in Sessions : TableFate(s)
BY PurgedThinned, ThinnedAbandons DEF TableFate, Touch

LEMMA CompleteFate ==
  ASSUME IInv, VInv, ChatOK, NEW r \in Requests, NEW cacheable \in BOOLEAN,
         Complete(r, cacheable)
  PROVE  /\ IInv' /\ VInv'
         /\ OneWritten(r, Left(r).context, Left(r).revision)
         /\ \A s \in Sessions : TableFate(s)
<1>1. stage[r] = "work" /\ Touch(r, Left(r))
  BY CompleteIs
<1>2. entry[held[r]] \in EntryRecord /\ Subject(r) \in Context
  BY <1>1, SubjectType
<1>3. SameUse(entry[held[r]], Left(r)) /\ Written(entry[held[r]], Left(r))
  BY <1>2, LeftIs
<1>4. IInv'
  BY <1>1, <1>3, TouchKeeps
<1>5. Left(r) \in EntryRecord
  BY <1>3 DEF SameUse
<1>6. OneWritten(r, Left(r).context, Left(r).revision)
  BY <1>1, <1>3, <1>5, TouchFate
<1>7. VInv'
  BY <1>6, KeepsVInv DEF OneWritten
<1> QED
  BY <1>1, <1>4, <1>6, <1>7, TouchTable

\* The store's invariants hold under the chat service too.
LEMMA StoreKeeps ==
  ASSUME IInv, VInv, ChatOK, [ChatNext]_chatVars
  PROVE  IInv' /\ VInv' /\ \A s \in Sessions : TableFate(s)
<1>1. CASE [Next]_vars
  BY <1>1, StepIInv, StepVInv, StepTable
<1>2. ASSUME NEW r \in Requests, NEW cacheable \in BOOLEAN, Complete(r, cacheable)
      PROVE  IInv' /\ VInv' /\ \A s \in Sessions : TableFate(s)
  BY <1>2, CompleteFate
<1> QED
  BY <1>1, <1>2, StoreMoves

-----------------------------------------------------------------------------
(* Stages *)

LEMMA StartIs ==
  ASSUME IInv, ChatOK, NEW r \in Requests, NEW s \in Sessions, NEW q \in Questions,
         Start(r, s, q)
  PROVE  /\ phase[r] = "idle" /\ stage[r] = "start" /\ answer[r] = NoAnswer
         /\ phase' \in [Requests -> Phases] /\ view' = view
         /\ \A p \in Requests \ {r} : phase'[p] = phase[p]
         /\ question' = [question EXCEPT ![r] = q]
<1>1. phase[r] = "idle"
  BY DEF Start, Enter
<1>2. stage[r] = "start" /\ answer[r] = NoAnswer
  BY <1>1 DEF ChatOK, StageOK, InBody
<1>3. /\ view' = view
      /\ \/ phase' = [phase EXCEPT ![r] = "body"]
         \/ phase' = [phase EXCEPT ![r] = "queued"]
  BY DEF Start, Enter, Join
<1>4. phase' \in [Requests -> Phases] /\ \A p \in Requests \ {r} : phase'[p] = phase[p]
  BY <1>3 DEF IInv, TypeOK, Phases
<1> QED
  BY <1>1, <1>2, <1>3, <1>4 DEF Start

\* A request that leaves or gives up changes no other one's phase, but may wake
\* one that waits.
LEMMA WakesOnly ==
  ASSUME IInv, IInv', NEW r \in Requests, Cancel(r) \/ Leave(r)
  PROVE  /\ phase'[r] = "idle"
         /\ \A p \in Requests \ {r} :
              /\ phase'[p] = "body" <=> phase[p] = "body"
              /\ phase'[p] = "idle" <=> phase[p] = "idle"
              /\ view'[p] = view[p]
         /\ Cancel(r) => view' = view
<1>1. held[r] \in Entries
  BY DEF Cancel, Leave, IInv, TypeOK, RequestOK
<1>2. PICK w \in Seq(Requests) :
        /\ w # << >> => phase[Head(w)] \in {"queued", "woken"}
        /\ \/ phase' = [phase EXCEPT ![r] = "idle"]
           \/ phase' = WakeFirst(w, [phase EXCEPT ![r] = "idle"])
  <2>1. CASE Leave(r)
    <3> DEFINE w == entry[held[r]].waiters
    <3>1. w \in Seq(Requests) /\ (w # << >> => phase[Head(w)] \in {"queued", "woken"})
      BY <1>1, HeadWaits DEF IInv, TypeOK
    <3>2. phase' = WakeFirst(w, [phase EXCEPT ![r] = "idle"]) /\ phase[r] = "body"
      BY <2>1 DEF Leave
    <3> HIDE DEF w
    <3> QED
      BY <3>1, <3>2
  <2>2. CASE Cancel(r)
    <3> DEFINE w == Without(entry[held[r]].waiters, r)
    <3>1. /\ \/ phase' = [phase EXCEPT ![r] = "idle"]
             \/ phase' = WakeFirst(w, [phase EXCEPT ![r] = "idle"])
          /\ phase[r] \in {"queued", "woken"}
      BY <2>2 DEF Cancel
    <3>2. w \in Seq(Requests) /\ (w # << >> => phase[Head(w)] \in {"queued", "woken"})
      BY <1>1, <3>1, WithoutWaits
    <3> HIDE DEF w
    <3> QED
      BY <3>1, <3>2
  <2> QED
    BY <2>1, <2>2
<1>3. w # << >> => Head(w) \in Requests
  BY <1>2
<1>4. \A p \in Requests \ {r} : view'[p] = view[p]
  BY DEF Cancel, Leave, IInv, TypeOK
<1>5. Cancel(r) => view' = view
  BY DEF Cancel
<1>6. phase'[r] = "idle"
  <2>1. held'[r] = NoEntry
    BY DEF Cancel, Leave, IInv, TypeOK
  <2> QED
    BY <2>1 DEF IInv, RequestOK
<1>7. ASSUME NEW p \in Requests \ {r}
      PROVE  /\ phase'[p] = "body" <=> phase[p] = "body"
             /\ phase'[p] = "idle" <=> phase[p] = "idle"
  BY <1>2, <1>3 DEF WakeFirst, IInv, TypeOK
<1> QED
  BY <1>4, <1>5, <1>6, <1>7
\* A method of the store leaves its caller with a view.
LEMMA TouchViews ==
  ASSUME IInv, NEW r \in Requests, NEW x, x \in EntryRecord, Touch(r, x)
  PROVE  /\ InBody(r) /\ phase' = phase /\ key' = key /\ held' = held
         /\ view'[r] = ViewOf(x) /\ view'[r] # NoView
         /\ \A p \in Requests \ {r} : view'[p] = view[p]
<1>1. ViewOf(x) \in Nat \X Context
  BY DEF EntryRecord, ViewOf
<1>2. view'[r] = ViewOf(x) /\ \A p \in Requests \ {r} : view'[p] = view[p]
  BY DEF Touch, ViewOf, IInv, TypeOK
<1> QED
  BY <1>1, <1>2, ViewAssumption DEF Touch, InBody, Context

LEMMA ReadViews ==
  ASSUME IInv, NEW r \in Requests, Read(r)
  PROVE  /\ InBody(r) /\ phase' = phase /\ key' = key /\ held' = held
         /\ EntryOf(r) = held[r] /\ held[r] \in Entries
         /\ view'[r] = ViewOf(entry[held[r]]) /\ view'[r] # NoView
         /\ \A p \in Requests \ {r} : view'[p] = view[p]
<1>1. EntryOf(r) = held[r] /\ held[r] \in Entries
  BY OwnEntry DEF Read, Touch
<1>2. entry[held[r]] \in EntryRecord /\ Touch(r, entry[held[r]])
  BY <1>1 DEF Read, IInv, TypeOK
<1> QED
  BY <1>1, <1>2, TouchViews

\* Reading writes no memory, and neither does any step but a completion.
LEMMA ReadSpares ==
  ASSUME IInv, NEW r \in Requests, Read(r), NEW e \in Entries
  PROVE  Spared(e)
<1>1. EntryOf(r) = held[r] /\ held[r] \in Entries
  BY OwnEntry DEF Read, Touch
<1>2. entry' = [Objects(Purged(now)) EXCEPT ![held[r]] = [entry[held[r]] EXCEPT !.last = now]]
  BY <1>1 DEF Read, Touch
<1>3. CASE e = held[r]
  <2>1. entry'[e] = [entry[e] EXCEPT !.last = now] /\ entry[e] \in EntryRecord
    BY <1>2, <1>3 DEF Objects, IInv, TypeOK
  <2> QED
    BY <2>1 DEF EntryRecord, Spared, SameMemory
<1>4. CASE e # held[r]
  <2>1. entry'[e] = Objects(Purged(now))[e]
    BY <1>2, <1>4 DEF Objects
  <2> QED
    BY <2>1, ObjectsFate DEF Spared, SameMemory
<1> QED
  BY <1>3, <1>4

LEMMA ChatSpares ==
  ASSUME IInv, VInv, [ChatNext]_chatVars,
         \A r \in Requests, cacheable \in BOOLEAN : ~Complete(r, cacheable)
  PROVE  \A e \in Entries : Spared(e)
<1>1. ASSUME NEW r \in Requests, NEW s \in Sessions, Enter(r, s)
      PROVE  \A e \in Entries : Spared(e)
  BY <1>1, EnterFate DEF AllSpared
<1>2. CASE /\ UNCHANGED <<phase, held, view>>
           /\ entry' = entry \/ entry' = Objects(Purged(now))
  BY <1>2, QuietFate DEF AllSpared
<1>3. ASSUME NEW r \in Requests, Resume(r) \/ Cancel(r) \/ Leave(r)
      PROVE  \A e \in Entries : Spared(e)
  BY <1>3, ResumeFate, CancelFate, LeaveFate DEF AllSpared
<1>4. ASSUME NEW r \in Requests, Read(r)
      PROVE  \A e \in Entries : Spared(e)
  BY <1>4, ReadSpares
<1> QED
  BY <1>1, <1>2, <1>3, <1>4
     DEF ChatNext, ChatStep, chatVars, ChatTick, Tick, Start, TurnAway, Refuse,
         Proceed, Withdraw, LookUp, Consult, Abandon, Return

\* A hit is an item younger than the time to live.
LEMMA HitIs ==
  ASSUME ChatTypes, NEW k \in CacheKeys, Cache!Purged[k] # NoItem
  PROVE  /\ Cache!Purged[k] = items[k] /\ items[k] # NoItem
         /\ items[k] \in Cache!Item /\ items[k].answer \in Questions \X Context
         /\ ~(now - items[k].created >= CacheTtl)
<1>1. Cache!Purged[k] = items[k] /\ ~Cache!Stale(k)
  BY DEF Cache!Purged, Cache!Without
<1> QED
  BY <1>1 DEF Cache!Stale, ChatTypes, Cache!Item

\* Request r is answered with the item under k.
Hit(r, k) ==
  /\ k = KeyAt(r, entry[held[r]].revision)
  /\ items[k] # NoItem /\ items[k].answer \in Questions \X Context
  /\ ~(now - items[k].created >= CacheTtl)
  /\ answer' = [answer EXCEPT ![r] = items[k].answer]
  /\ stage' = [stage EXCEPT ![r] = "done"]

LEMMA LookUpIs ==
  ASSUME IInv, ChatOK, NEW r \in Requests, LookUp(r)
  PROVE  /\ stage[r] = "start" /\ answer[r] = NoAnswer
         /\ InBody(r) /\ held[r] \in Entries /\ key[r] \in Sessions
         /\ question[r] \in Questions /\ table[key[r]] = held[r]
         /\ UNCHANGED <<phase, key, held, question, named>>
         /\ view'[r] = ViewOf(entry[held[r]]) /\ view'[r] # NoView
         /\ \A p \in Requests \ {r} : view'[p] = view[p]
         /\ \E k : items' = Cache!Touched(k)
         /\ \/ \E k \in CacheKeys : Hit(r, k)
            \/ stage' = [stage EXCEPT ![r] = "work"] /\ answer' = answer
<1>1. Read(r) /\ stage[r] = "start"
  BY DEF LookUp
<1>2. /\ InBody(r) /\ EntryOf(r) = held[r] /\ held[r] \in Entries
      /\ UNCHANGED <<phase, key, held>>
      /\ view'[r] = ViewOf(entry[held[r]]) /\ view'[r] # NoView
      /\ \A p \in Requests \ {r} : view'[p] = view[p]
  BY <1>1, ReadViews
<1> DEFINE k == KeyAt(r, entry[held[r]].revision)
<1>3. /\ items' = Cache!Touched(k)
      /\ \/ /\ Cache!Purged[k] # NoItem
            /\ answer' = [answer EXCEPT ![r] = Cache!Purged[k].answer]
            /\ stage' = [stage EXCEPT ![r] = "done"]
         \/ stage' = [stage EXCEPT ![r] = "work"] /\ answer' = answer
      /\ UNCHANGED <<question, named>>
  BY <1>2 DEF LookUp
<1>4. key[r] \in Sessions /\ table[key[r]] = held[r]
  BY <1>2 DEF IInv, RequestOK, InBody
<1>5. question[r] \in Questions /\ answer[r] = NoAnswer
  BY <1>1, <1>2 DEF ChatOK, StageOK, InBody
<1>6. k \in CacheKeys
  <2>1. entry[held[r]].revision \in 0..MaxRevision
    BY <1>2 DEF ChatOK, IInv, TypeOK, EntryRecord
  <2> QED
    BY <1>4, <1>5, <2>1 DEF CacheKeys, KeyAt
<1> HIDE DEF k
<1>7. Cache!Purged[k] # NoItem =>
        /\ Cache!Purged[k] = items[k] /\ items[k] # NoItem
        /\ items[k].answer \in Questions \X Context
        /\ ~(now - items[k].created >= CacheTtl)
  BY <1>6, HitIs DEF ChatOK
<1> QED
  BY <1>1, <1>2, <1>3, <1>4, <1>5, <1>6, <1>7 DEF k, Hit
LEMMA RevisionsKept ==
  ASSUME IInv, VInv, ChatOK, [ChatNext]_chatVars
  PROVE  \A e \in Entries : entry'[e].revision <= MaxRevision
<1> SUFFICES ASSUME NEW e \in Entries PROVE entry'[e].revision <= MaxRevision
  OBVIOUS
<1>1. entry[e].revision <= MaxRevision /\ 0 <= MaxRevision
  BY LimitsAssumption DEF ChatOK
<1>2. CASE Spared(e)
  BY <1>1, <1>2 DEF Spared, SameMemory, Unwritten
<1>3. ASSUME NEW r \in Requests, NEW cacheable \in BOOLEAN, Complete(r, cacheable)
      PROVE  entry'[e].revision <= MaxRevision
  <2>1. OneWritten(r, Left(r).context, Left(r).revision)
    BY <1>3, CompleteFate
  <2>2. CASE e = held[r]
    <3>1. /\ stage[r] = "work"
          /\ question[r] \notin Unrecordable => entry[held[r]].revision < MaxRevision
      BY <1>3, CompleteIs
    <3>2. entry[held[r]] \in EntryRecord /\ Subject(r) \in Context
      BY <3>1, SubjectType
    <3>3. Left(r).revision = IF question[r] \notin Unrecordable
                               THEN entry[held[r]].revision + 1 ELSE entry[held[r]].revision
      BY <3>2, LeftIs
    <3>4. entry[held[r]].revision \in Nat /\ MaxRevision \in Nat
      BY <3>2, LimitsAssumption DEF EntryRecord
    <3> QED
      BY <1>1, <2>1, <2>2, <3>1, <3>3, <3>4 DEF OneWritten
  <2>3. CASE e # held[r]
    BY <1>2, <2>1, <2>3 DEF OneWritten
  <2> QED
    BY <2>2, <2>3
<1> QED
  BY <1>2, <1>3, ChatSpares

\* A request whose own state and place a step leaves alone is as right as before.
LEMMA BystanderOK ==
  ASSUME NEW p \in Requests, StageOK(p),
         phase'[p] = "body" <=> phase[p] = "body",
         phase'[p] = "idle" <=> phase[p] = "idle",
         view'[p] = view[p], stage'[p] = stage[p], question'[p] = question[p],
         answer'[p] = answer[p]
  PROVE  StageOK(p)'
BY DEF StageOK, InBody

LEMMA LookUpKeeps ==
  ASSUME IInv, VInv, ChatOK, NEW r \in Requests, LookUp(r)
  PROVE  ChatTypes' /\ \A p \in Requests : StageOK(p)'
<1>1. /\ InBody(r) /\ UNCHANGED <<phase, question, named>>
      /\ question[r] \in Questions /\ answer[r] = NoAnswer
      /\ view'[r] # NoView /\ \A p \in Requests \ {r} : view'[p] = view[p]
      /\ \E k : items' = Cache!Touched(k)
      /\ \/ \E a \in Questions \X Context :
              /\ answer' = [answer EXCEPT ![r] = a]
              /\ stage' = [stage EXCEPT ![r] = "done"]
         \/ stage' = [stage EXCEPT ![r] = "work"] /\ answer' = answer
  BY LookUpIs DEF Hit
<1>2. ChatTypes'
  <2>1. items' \in [CacheKeys -> Cache!Item \cup {NoItem}]
    <3>1. \A l \in CacheKeys : items'[l] \in Cache!Item \cup {NoItem}
      BY <1>1, TouchedSurvives DEF ChatOK, IInv
    <3>2. items' = [l \in CacheKeys |-> items'[l]]
      BY <1>1 DEF Cache!Touched
    <3> QED
      BY <3>1, <3>2
  <2>2. /\ stage' \in [Requests -> Stages]
        /\ answer' \in [Requests -> (Questions \X Context) \cup {NoAnswer}]
    BY <1>1 DEF ChatOK, ChatTypes, Stages
  <2> QED
    BY <1>1, <2>1, <2>2 DEF ChatOK, ChatTypes
<1>3. StageOK(r)'
  BY <1>1 DEF ChatOK, ChatTypes, StageOK, InBody
<1>4. ASSUME NEW p \in Requests, p # r PROVE StageOK(p)'
  <2>1. stage'[p] = stage[p] /\ answer'[p] = answer[p]
    BY <1>1, <1>4 DEF ChatOK, ChatTypes
  <2> QED
    BY <1>1, <1>4, <2>1, BystanderOK DEF ChatOK
<1> QED
  BY <1>2, <1>3, <1>4

LEMMA CompleteKeeps ==
  ASSUME IInv, VInv, ChatOK, NEW r \in Requests, NEW cacheable \in BOOLEAN,
         Complete(r, cacheable)
  PROVE  ChatTypes' /\ \A p \in Requests : StageOK(p)'
<1> DEFINE a == <<question[r], Subject(r)>>
           k == KeyAt(r, entry[held[r]].revision + 1)
<1>1. /\ stage[r] = "work" /\ Touch(r, Left(r))
      /\ answer' = [answer EXCEPT ![r] = a]
      /\ items' = Cache!Placed(k, a) \/ items' = items
      /\ named' = [named EXCEPT ![key[r]] = @ \cup ({Names[question[r]]} \ {NoContext})]
      /\ stage' = [stage EXCEPT ![r] = "done"]
      /\ question' = question
  BY CompleteIs
<1>2. /\ InBody(r) /\ entry[held[r]] \in EntryRecord /\ Subject(r) \in Context
      /\ question[r] \in Questions /\ Names[question[r]] \in Context
  BY <1>1, SubjectType
<1>3. Left(r) \in EntryRecord
  BY <1>2, LeftIs DEF SameUse
<1>4. phase' = phase /\ \A p \in Requests \ {r} : view'[p] = view[p]
  BY <1>1, <1>3, TouchViews
<1>5. a \in Questions \X Context
  BY <1>2
<1> HIDE DEF a, k
<1>6. ChatTypes'
  <2>1. items' \in [CacheKeys -> Cache!Item \cup {NoItem}]
    <3>1. CASE items' = items
      BY <3>1 DEF ChatOK, ChatTypes
    <3>2. CASE items' = Cache!Placed(k, a)
      <4>1. \A l \in CacheKeys : items'[l] \in Cache!Item \cup {NoItem}
        BY <1>5, <3>2, PlacedSurvives DEF ChatOK, IInv
      <4>2. items' = [l \in CacheKeys |-> items'[l]]
        BY <3>2 DEF Cache!Placed
      <4> QED
        BY <4>1, <4>2
    <3> QED
      BY <1>1, <3>1, <3>2
  <2>2. /\ stage' \in [Requests -> Stages]
        /\ answer' \in [Requests -> (Questions \X Context) \cup {NoAnswer}]
    BY <1>1, <1>5 DEF ChatOK, ChatTypes, Stages
  <2>3. named' \in [Sessions -> SUBSET Contexts]
    BY <1>1, <1>2 DEF ChatOK, ChatTypes, Context
  <2> QED
    BY <1>1, <2>1, <2>2, <2>3 DEF ChatOK, ChatTypes
<1>7. StageOK(r)'
  BY <1>1, <1>2, <1>4 DEF ChatOK, ChatTypes, StageOK, InBody
<1>8. ASSUME NEW p \in Requests, p # r PROVE StageOK(p)'
  <2>1. stage'[p] = stage[p] /\ answer'[p] = answer[p]
    BY <1>1, <1>8 DEF ChatOK, ChatTypes
  <2> QED
    BY <1>1, <1>4, <1>8, <2>1, BystanderOK DEF ChatOK
<1> QED
  BY <1>6, <1>7, <1>8

\* The steps that come before and after the work: only the request's own stage,
\* question and answer change, and nothing is cached.
LEMMA AroundKeeps ==
  ASSUME IInv, IInv', VInv, VInv', ChatOK, NEW r \in Requests,
         \/ \E s \in Sessions, q \in Questions : Start(r, s, q)
         \/ \E s \in Sessions : TurnAway(r, s)
         \/ Proceed(r)
         \/ Withdraw(r)
         \/ Consult(r)
         \/ Abandon(r)
         \/ Return(r)
  PROVE  ChatTypes' /\ \A p \in Requests : StageOK(p)'
<1>1. CASE \E s \in Sessions, q \in Questions : Start(r, s, q)
  <2>1. PICK s \in Sessions, q \in Questions : Start(r, s, q)
    BY <1>1
  <2>2. /\ stage[r] = "start" /\ answer[r] = NoAnswer
        /\ view' = view
        /\ \A p \in Requests \ {r} : phase'[p] = phase[p]
        /\ question' = [question EXCEPT ![r] = q]
    BY <2>1, StartIs
  <2>3. UNCHANGED <<stage, answer, items, named>>
    BY <2>1 DEF Start
  <2> QED
    BY <2>2, <2>3 DEF ChatOK, ChatTypes, StageOK, InBody
<1>2. CASE \E s \in Sessions : TurnAway(r, s)
  BY <1>2 DEF TurnAway, Refuse, chat, ChatOK, ChatTypes, StageOK, InBody
<1>3. CASE Proceed(r)
  <2>1. phase[r] = "woken" /\ phase' = [phase EXCEPT ![r] = "body"]
        /\ view' = view /\ UNCHANGED chat
    BY <1>3 DEF Proceed, Resume
  <2> QED
    BY <2>1 DEF chat, ChatOK, ChatTypes, StageOK, InBody, IInv, TypeOK
<1>4. CASE Withdraw(r) \/ Return(r)
  <2>1. /\ phase'[r] = "idle"
        /\ \A p \in Requests \ {r} :
             /\ phase'[p] = "body" <=> phase[p] = "body"
             /\ phase'[p] = "idle" <=> phase[p] = "idle"
             /\ view'[p] = view[p]
    BY <1>4, WakesOnly DEF Withdraw, Return
  <2>2. ChatTypes'
    BY <1>4 DEF Withdraw, Return, ChatOK, ChatTypes, Stages
  <2>3. ASSUME NEW p \in Requests, p # r PROVE StageOK(p)'
    <3>1. stage'[p] = stage[p] /\ answer'[p] = answer[p] /\ question'[p] = question[p]
      BY <1>4, <2>3 DEF Withdraw, Return, ChatOK, ChatTypes
    <3> QED
      BY <2>1, <2>3, <3>1, BystanderOK DEF ChatOK
  <2>4. stage'[r] = "start" /\ answer'[r] = NoAnswer
    <3>1. CASE Return(r)
      BY <3>1 DEF Return, ChatOK, ChatTypes
    <3>2. CASE Withdraw(r)
      <4>1. ~InBody(r) /\ UNCHANGED <<stage, answer>>
        BY <3>2 DEF Withdraw, Cancel, InBody
      <4> QED
        BY <4>1 DEF ChatOK, StageOK
    <3> QED
      BY <1>4, <3>1, <3>2
  <2>5. StageOK(r)'
    BY <2>1, <2>4 DEF StageOK
  <2> QED
    BY <2>2, <2>3, <2>5
<1>5. CASE Consult(r)
  <2>1. /\ phase' = phase /\ view'[r] # NoView
        /\ \A p \in Requests \ {r} : view'[p] = view[p]
    BY <1>5, ReadViews DEF Consult
  <2>2. UNCHANGED chat
    BY <1>5 DEF Consult
  <2> QED
    BY <2>1, <2>2 DEF chat, ChatOK, ChatTypes, StageOK, InBody
<1>6. CASE Abandon(r)
  BY <1>6 DEF Abandon, ChatOK, ChatTypes, StageOK, InBody, Stages
<1> QED
  BY <1>1, <1>2, <1>3, <1>4, <1>5, <1>6

LEMMA StepChatOK ==
  ASSUME IInv, VInv, ChatOK, [ChatNext]_chatVars
  PROVE  IInv' /\ VInv' /\ ChatOK'
<1>1. IInv' /\ VInv'
  BY StoreKeeps
<1>2. CASE ChatTick \/ UNCHANGED chatVars
  BY <1>1, <1>2 DEF ChatTick, Tick, chat, chatVars, ChatOK, ChatTypes, StageOK, InBody
<1>3. ASSUME NEW r \in Requests, ChatStep(r)
      PROVE  ChatTypes' /\ \A p \in Requests : StageOK(p)'
  BY <1>1, <1>3, LookUpKeeps, CompleteKeeps, AroundKeeps DEF ChatStep
<1>4. \A e \in Entries : entry'[e].revision <= MaxRevision
  BY RevisionsKept
<1>5. CASE \E r \in Requests : ChatStep(r)
  BY <1>1, <1>3, <1>4, <1>5 DEF ChatOK
<1> QED
  BY <1>1, <1>2, <1>5 DEF ChatNext
-----------------------------------------------------------------------------
(* Answers stay in their session *)

\* What has been named stays named.
LEMMA NamedGrows ==
  ASSUME IInv, ChatOK, [ChatNext]_chatVars
  PROVE  \A s \in Sessions : named[s] \subseteq named'[s]
<1>1. CASE named' = named
  BY <1>1
<1>2. ASSUME NEW r \in Requests, NEW cacheable \in BOOLEAN, Complete(r, cacheable)
      PROVE  \A s \in Sessions : named[s] \subseteq named'[s]
  <2>1. named' = [named EXCEPT ![key[r]] = @ \cup ({Names[question[r]]} \ {NoContext})]
    BY <1>2 DEF Complete
  <2> QED
    BY <2>1 DEF ChatOK, ChatTypes
<1>3. \/ named' = named
      \/ \E r \in Requests, cacheable \in BOOLEAN : Complete(r, cacheable)
  BY DEF ChatNext, ChatStep, chatVars, chat, ChatTick, Start, TurnAway, Proceed,
         Withdraw, LookUp, Consult, Abandon, Return
<1> QED
  BY <1>1, <1>2, <1>3

LEMMA OwnGrows ==
  ASSUME IInv, ChatOK, [ChatNext]_chatVars, NEW s \in Sessions, NEW c, Own(named, s, c)
  PROVE  Own(named', s, c)
BY NamedGrows DEF Own

\* The subject of a session, written by a completion or not, is its own.
LEMMA SubjectsStayOwn ==
  ASSUME IInv, ChatOK, OwnSubjects, [ChatNext]_chatVars,
         \A s \in Sessions : TableFate(s),
         \A s \in Sessions : table[s] # NoEntry =>
           Spared(table[s]) \/ Own(named', s, entry'[table[s]].context)
  PROVE  OwnSubjects'
<1> SUFFICES ASSUME NEW s \in Sessions, table'[s] # NoEntry
             PROVE  Own(named', s, entry'[table'[s]].context)
  BY DEF OwnSubjects
<1>1. CASE Unwritten(entry'[table'[s]])
  BY <1>1 DEF Unwritten, Own
<1>2. CASE table'[s] = table[s] /\ SameMemory(entry'[table[s]], entry[table[s]])
  <2>1. Own(named, s, entry[table[s]].context)
    BY <1>2 DEF OwnSubjects
  <2> QED
    BY <1>2, <2>1, OwnGrows DEF SameMemory
<1> QED
  BY <1>1, <1>2 DEF TableFate, Spared

\* What a completed request answers, and leaves as its session's subject.
LEMMA CompletesOwn ==
  ASSUME IInv, VInv, ChatOK, OwnInv, NEW r \in Requests, NEW cacheable \in BOOLEAN,
         Complete(r, cacheable)
  PROVE  /\ Own(named', key[r], Subject(r))
         /\ Own(named', key[r], Left(r).context)
<1>1. /\ stage[r] = "work"
      /\ named' = [named EXCEPT ![key[r]] = @ \cup ({Names[question[r]]} \ {NoContext})]
  BY CompleteIs
<1>2. /\ key[r] \in Sessions /\ table[key[r]] = held[r] /\ held[r] \in Entries
      /\ entry[held[r]] \in EntryRecord /\ Subject(r) \in Context
      /\ Subject(r) \in {Names[question[r]], view[r][2]} /\ view[r] # NoView
  BY <1>1, SubjectType
<1>3. view[r][2] = entry[held[r]].context
  BY <1>2 DEF VInv, Seen, ViewOf
<1>4. held[r] # NoEntry
  BY <1>2, EntriesAssumption
<1>5. Own(named, key[r], view[r][2])
  BY <1>2, <1>3, <1>4 DEF OwnInv, OwnSubjects
<1>6. /\ named[key[r]] \subseteq named'[key[r]]
      /\ Names[question[r]] \in named'[key[r]] \cup {NoContext}
  BY <1>1, <1>2 DEF ChatOK, ChatTypes
<1>7. Own(named', key[r], view[r][2]) /\ view[r][2] \in named'[key[r]] \cup {NoContext}
  BY <1>5, <1>6 DEF Own
<1>8. Subject(r) \in named'[key[r]] \cup {NoContext}
  BY <1>2, <1>6, <1>7
<1>9. Left(r).context \in named'[key[r]] \cup {NoContext}
  BY <1>2, <1>3, <1>7, <1>8, LeftIs
<1> QED
  BY <1>8, <1>9 DEF Own
\* An answer was there before, and its request is where it was, or the step is
\* the one that gives it.
LEMMA AnswersCome ==
  ASSUME IInv, ChatOK, [ChatNext]_chatVars, NEW p \in Requests, answer'[p] # NoAnswer
  PROVE  \/ /\ answer'[p] = answer[p] /\ InBody(p)
            /\ key'[p] = key[p] /\ held'[p] = held[p] /\ question'[p] = question[p]
         \/ LookUp(p)
         \/ \E cacheable \in BOOLEAN : Complete(p, cacheable)
<1>1. answer[p] # NoAnswer => InBody(p) /\ phase[p] = "body" /\ stage[p] = "done"
  BY DEF ChatOK, StageOK, InBody
<1>2. ASSUME NEW r \in Requests, NEW s \in Sessions, NEW q \in Questions, Start(r, s, q)
      PROVE  /\ answer'[p] = answer[p] /\ key'[p] = key[p] /\ held'[p] = held[p]
             /\ question'[p] = question[p]
  <2>1. answer' = answer /\ phase[r] = "idle" /\ question' = [question EXCEPT ![r] = q]
    BY <1>2 DEF Start, Enter
  <2>2. \E e : key' = [key EXCEPT ![r] = s] /\ held' = [held EXCEPT ![r] = e]
    BY <1>2 DEF Start, Enter, Join
  <2>3. p # r
    BY <1>1, <2>1
  <2> QED
    BY <2>1, <2>2, <2>3 DEF IInv, TypeOK, ChatOK, ChatTypes
<1>3. ASSUME NEW r \in Requests, Withdraw(r) \/ Return(r)
      PROVE  /\ answer'[p] = answer[p] /\ key'[p] = key[p] /\ held'[p] = held[p]
             /\ question'[p] = question[p]
  <2>1. /\ key' = [key EXCEPT ![r] = NoEntry] /\ held' = [held EXCEPT ![r] = NoEntry]
        /\ question' = [question EXCEPT ![r] = NoQuestion]
        /\ answer' = answer \/ answer' = [answer EXCEPT ![r] = NoAnswer]
    BY <1>3 DEF Withdraw, Cancel, Return, Leave
  <2>2. p # r
    <3>1. CASE Withdraw(r)
      <4>1. phase[r] # "body" /\ answer' = answer
        BY <3>1 DEF Withdraw, Cancel
      <4> QED
        BY <1>1, <4>1
    <3>2. CASE Return(r)
      BY <3>2 DEF Return, ChatOK, ChatTypes
    <3> QED
      BY <1>3, <3>1, <3>2
  <2> QED
    BY <2>1, <2>2 DEF IInv, TypeOK, ChatOK, ChatTypes
<1>4. ASSUME UNCHANGED <<answer, key, held, question>>
      PROVE  /\ answer'[p] = answer[p] /\ key'[p] = key[p] /\ held'[p] = held[p]
             /\ question'[p] = question[p]
  BY <1>4
<1>5. ASSUME NEW r \in Requests, r # p,
             LookUp(r) \/ \E cacheable \in BOOLEAN : Complete(r, cacheable)
      PROVE  /\ answer'[p] = answer[p] /\ key'[p] = key[p] /\ held'[p] = held[p]
             /\ question'[p] = question[p]
  BY <1>5 DEF LookUp, Read, Complete, Touch, ChatOK, ChatTypes
<1>6. \/ UNCHANGED <<answer, key, held, question>>
      \/ \E r \in Requests :
           \/ \E s \in Sessions, q \in Questions : Start(r, s, q)
           \/ Withdraw(r) \/ Return(r)
           \/ LookUp(r)
           \/ \E cacheable \in BOOLEAN : Complete(r, cacheable)
  BY DEF ChatNext, ChatStep, chatVars, chat, ChatTick, Tick, TurnAway, Refuse,
         Proceed, Resume, Consult, Read, Touch, Abandon
<1>7. \/ /\ answer'[p] = answer[p] /\ key'[p] = key[p] /\ held'[p] = held[p]
         /\ question'[p] = question[p]
      \/ LookUp(p)
      \/ \E cacheable \in BOOLEAN : Complete(p, cacheable)
  BY <1>2, <1>3, <1>4, <1>5, <1>6
<1> QED
  BY <1>1, <1>7

\* An item was there before, or a completion has just placed it.
LEMMA ItemsCome ==
  ASSUME IInv, ChatOK, [ChatNext]_chatVars, NEW k \in CacheKeys
  PROVE  \/ Survives(k)
         \/ \E r \in Requests :
              /\ Complete(r, TRUE) /\ question[r] \notin Unrecordable
              /\ k = KeyAt(r, entry[held[r]].revision + 1)
              /\ items'[k].answer = <<question[r], Subject(r)>>
              /\ items'[k].created = now
<1>1. CASE items' = items
  BY <1>1 DEF Survives
<1>2. ASSUME NEW r \in Requests, LookUp(r) PROVE Survives(k)
  <2>1. \E l : items' = Cache!Touched(l)
    BY <1>2 DEF LookUp
  <2> QED
    BY <2>1, TouchedSurvives DEF ChatOK, IInv
<1>3. ASSUME NEW r \in Requests, NEW cacheable \in BOOLEAN, Complete(r, cacheable),
             items' # items, ~Survives(k)
      PROVE  /\ cacheable = TRUE /\ question[r] \notin Unrecordable
             /\ k = KeyAt(r, entry[held[r]].revision + 1)
             /\ items'[k].answer = <<question[r], Subject(r)>>
             /\ items'[k].created = now
  <2> DEFINE l == KeyAt(r, entry[held[r]].revision + 1)
             a == <<question[r], Subject(r)>>
  <2>1. stage[r] = "work" /\ question[r] \notin Unrecordable /\ cacheable
        /\ items' = Cache!Placed(l, a)
    BY <1>3, CompleteIs
  <2>2. a \in Questions \X Context
    BY <2>1, SubjectType
  <2> HIDE DEF l, a
  <2>3. k = l /\ items'[k].answer = a /\ items'[k].created = now
    BY <1>3, <2>1, <2>2, PlacedSurvives DEF ChatOK, IInv
  <2> QED
    BY <2>1, <2>3 DEF l, a
<1>4. \/ items' = items
      \/ \E r \in Requests : LookUp(r) \/ \E cacheable \in BOOLEAN : Complete(r, cacheable)
  BY DEF ChatNext, ChatStep, chatVars, chat, ChatTick, TurnAway, Start, Withdraw,
         Proceed, Consult, Abandon, Return
<1> QED
  BY <1>1, <1>2, <1>3, <1>4

LEMMA StepOwnInv ==
  ASSUME IInv, VInv, ChatOK, OwnInv, [ChatNext]_chatVars
  PROVE  OwnInv'
<1>1. \A s \in Sessions : TableFate(s)
  BY StoreKeeps
<1>2. OwnSubjects'
  <2>1. ASSUME NEW s \in Sessions, table[s] # NoEntry, ~Spared(table[s])
        PROVE  Own(named', s, entry'[table[s]].context)
    <3>1. table[s] \in Entries
      BY <2>1 DEF IInv, TypeOK
    <3>2. PICK r \in Requests, cacheable \in BOOLEAN : Complete(r, cacheable)
      BY <2>1, <3>1, ChatSpares
    <3>3. OneWritten(r, Left(r).context, Left(r).revision)
      BY <3>2, CompleteFate
    <3>4. held[r] = table[s] /\ entry'[table[s]].context = Left(r).context
      BY <2>1, <3>1, <3>3 DEF OneWritten
    <3>5. key[r] \in Sessions /\ table[key[r]] = held[r]
      BY <3>2, CompleteIs, SubjectType
    <3>6. s = key[r]
      BY <2>1, <3>4, <3>5 DEF IInv, OneSessionEach
    <3> QED
      BY <3>2, <3>4, <3>6, CompletesOwn
  <2> QED
    BY <1>1, <2>1, SubjectsStayOwn DEF OwnInv
<1>3. OwnItems'
  <2> SUFFICES ASSUME NEW k \in CacheKeys, items'[k] # NoItem
               PROVE  Own(named', k[1], items'[k].answer[2])
    BY DEF OwnItems, CacheKeys
  <2>1. CASE Survives(k)
    <3>1. k[1] \in Sessions
      BY DEF CacheKeys
    <3>2. Own(named, k[1], items[k].answer[2]) /\ items'[k].answer = items[k].answer
      BY <2>1 DEF Survives, OwnInv, OwnItems
    <3> QED
      BY <3>1, <3>2, OwnGrows
  <2>2. ASSUME NEW r \in Requests, Complete(r, TRUE),
               k = KeyAt(r, entry[held[r]].revision + 1),
               items'[k].answer = <<question[r], Subject(r)>>
        PROVE  Own(named', k[1], items'[k].answer[2])
    <3>1. Own(named', key[r], Subject(r))
      BY <2>2, CompletesOwn
    <3> QED
      BY <2>2, <3>1 DEF KeyAt
  <2> QED
    BY <2>1, <2>2, ItemsCome
<1>4. OwnAnswers'
  <2> SUFFICES ASSUME NEW r \in Requests, answer'[r] # NoAnswer
               PROVE  Own(named', key'[r], answer'[r][2])
    BY DEF OwnAnswers
  <2>1. CASE answer'[r] = answer[r] /\ InBody(r) /\ key'[r] = key[r]
    <3>1. key[r] \in Sessions
      BY <2>1 DEF IInv, RequestOK, InBody
    <3>2. Own(named, key[r], answer[r][2])
      BY <2>1 DEF OwnInv, OwnAnswers
    <3> QED
      BY <2>1, <3>1, <3>2, OwnGrows
  <2>2. CASE LookUp(r)
    <3>1. answer[r] = NoAnswer /\ key[r] \in Sessions /\ key' = key /\ named' = named
      BY <2>2, LookUpIs
    <3>2. PICK k \in CacheKeys :
            /\ k = KeyAt(r, entry[held[r]].revision)
            /\ items[k] # NoItem
            /\ answer' = [answer EXCEPT ![r] = items[k].answer]
      BY <2>2, <3>1, LookUpIs DEF Hit
    <3>3. Own(named, k[1], items[k].answer[2]) /\ k[1] = key[r]
      BY <3>2 DEF OwnInv, OwnItems, KeyAt
    <3> QED
      BY <3>1, <3>2, <3>3 DEF ChatOK, ChatTypes
  <2>3. ASSUME NEW cacheable \in BOOLEAN, Complete(r, cacheable)
        PROVE  Own(named', key'[r], answer'[r][2])
    <3>1. answer' = [answer EXCEPT ![r] = <<question[r], Subject(r)>>]
      BY <2>3, CompleteIs
    <3>2. key' = key
      BY <2>3 DEF Complete, Touch
    <3>3. Own(named', key[r], Subject(r))
      BY <2>3, CompletesOwn
    <3> QED
      BY <3>1, <3>2, <3>3 DEF ChatOK, ChatTypes
  <2> QED
    BY <2>1, <2>2, <2>3, AnswersCome
<1> QED
  BY <1>2, <1>3, <1>4 DEF OwnInv

LEMMA InitChat ==
  ASSUME ChatInit
  PROVE  IInv /\ VInv /\ ChatOK /\ OwnInv
<1>1. IInv /\ VInv
  BY InitIInv DEF ChatInit, Init, VInv, Seen
<1>2. ChatTypes
  BY DEF ChatInit, ChatTypes, Stages
<1>3. \A r \in Requests : StageOK(r)
  BY DEF ChatInit, Init, StageOK
<1>4. \A e \in Entries : entry[e].revision <= MaxRevision
  BY LimitsAssumption DEF ChatInit, Init, Blank, NewEntry
<1>5. OwnInv
  BY DEF ChatInit, Init, OwnInv, OwnSubjects, OwnItems, OwnAnswers
<1> QED
  BY <1>1, <1>2, <1>3, <1>4, <1>5 DEF ChatOK

\* The invariants of the store, of the requests' stages and of what belongs to
\* each session hold of every behaviour of the chat service.
THEOREM ChatInductive == ChatSpec => [](IInv /\ VInv /\ ChatOK /\ OwnInv)
<1>1. ChatInit => IInv /\ VInv /\ ChatOK /\ OwnInv
  BY InitChat
<1>2. IInv /\ VInv /\ ChatOK /\ OwnInv /\ [ChatNext]_chatVars
      => IInv' /\ VInv' /\ ChatOK' /\ OwnInv'
  BY StepChatOK, StepOwnInv
<1> QED
  BY <1>1, <1>2, PTL DEF ChatSpec

\* What other sessions talk about never reaches an answer, whatever is cached,
\* evicted, expired, refused or abandoned.
THEOREM StaysOwn == ChatSpec => []AnswerIsOwn
<1>1. OwnInv => AnswerIsOwn
  BY DEF OwnInv, OwnAnswers, Own, AnswerIsOwn
<1> QED
  BY <1>1, ChatInductive, PTL
-----------------------------------------------------------------------------
(* Current answers *)

\* The store has room for every session, and no question that names a security
\* is refused by append_exchange.
Roomy == Cardinality(Sessions) <= MaxSessions

NamesRecorded == \A q \in Unrecordable : Names[q] = NoContext

\* An item that a lookup would not purge.
Young(k) == items[k] # NoItem /\ ~(now - items[k].created >= CacheTtl)

\* What question q means, and answers, in a session that is about c: an aside
\* leaves the session as it is, and anything else is about its subject.
Settled(q, c, a) ==
  /\ a = <<q, About(q, c)>>
  /\ q \in Asides \/ About(q, c) = c

\* A young item belongs to a session that was accessed no earlier than the item
\* was made and is at its revision or beyond; an item of the current revision
\* answers its question as the session now stands.
ItemCurrent(k) ==
  Young(k) =>
    /\ table[k[1]] # NoEntry
    /\ items[k].created <= entry[table[k[1]]].last
    /\ k[3] <= entry[table[k[1]]].revision
    /\ k[3] = entry[table[k[1]]].revision =>
         Settled(k[2], entry[table[k[1]]].context, items[k].answer)

AnswerCurrent(r) ==
  answer[r] # NoAnswer =>
    answer[r] = <<question[r], About(question[r], entry[held[r]].context)>>

CurrentInv ==
  /\ \A e \in Entries : entry[e].last <= now
  /\ \A k \in CacheKeys : ItemCurrent(k)
  /\ \A r \in Requests : AnswerCurrent(r)
\* What a step that completes nothing does to session s: it keeps its entry and
\* memory, accessed no earlier than before, unless the session had expired.
Stays(s) ==
  table[s] # NoEntry =>
    \/ now' - entry[table[s]].last >= Ttl
    \/ /\ table'[s] = table[s]
       /\ SameMemory(entry'[table[s]], entry[table[s]])
       /\ entry[table[s]].last <= entry'[table[s]].last

\* No time runs backwards, and no entry was accessed in the future.
Timely ==
  /\ now' \in Nat /\ now <= now'
  /\ \A e \in Entries : entry'[e].last <= now'

LEMMA OpenedStays ==
  ASSUME NEW x \in EntryRecord, NEW t \in Nat, x.last <= t
  PROVE  /\ Opened(x, t).last = t
         /\ t - x.last >= Ttl \/ SameMemory(Opened(x, t), x)
<1>1. CASE t - x.last >= Ttl
  <2>1. Opened(x, t) = [x EXCEPT !.context = NoContext, !.recent = << >>,
                                 !.revision = 0, !.last = t, !.locked = TRUE]
    BY <1>1 DEF Opened
  <2> QED
    BY <1>1, <2>1 DEF EntryRecord
<1>2. CASE ~(t - x.last >= Ttl)
  <2>1. Opened(x, t) = [x EXCEPT !.last = t, !.locked = TRUE]
    BY <1>2 DEF Opened
  <2> QED
    BY <2>1 DEF SameMemory, EntryRecord
<1> QED
  BY <1>1, <1>2

\* A request that joins leaves the entry it found as it was, or resets it
\* because it has expired.
LEMMA JoinStays ==
  ASSUME IInv, NEW r, NEW s, NEW e \in Entries, NEW found \in EntryRecord,
         NEW objs \in [Entries -> EntryRecord],
         found.last <= now, Join(r, s, e, found, objs)
  PROVE  /\ now' \in Nat /\ now <= now'
         /\ \A d \in Entries \ {e} : entry'[d] = objs[d]
         /\ entry'[e].last <= now' /\ found.last <= entry'[e].last
         /\ now' - found.last >= Ttl \/ SameMemory(entry'[e], found)
<1> DEFINE x == [found EXCEPT !.users = @ + 1]
<1>1. /\ x \in EntryRecord /\ SameMemory(x, found) /\ x.last = found.last
  <2>1. found.users + 1 \in Nat
    BY DEF EntryRecord
  <2> QED
    BY <2>1 DEF EntryRecord, SameMemory
<1>2. now \in Nat /\ found.last \in Nat
  BY DEF IInv, TypeOK, EntryRecord
<1>3. CASE LockFree(x)
  <2>1. PICK t \in LaterReadings :
          now' = t /\ entry' = [objs EXCEPT ![e] = Opened(x, t)]
    BY <1>3 DEF Join
  <2>2. t \in Nat /\ now <= t /\ found.last <= t
    BY <1>2, <2>1 DEF LaterReadings
  <2> HIDE DEF x
  <2>3. /\ Opened(x, t).last = t
        /\ t - found.last >= Ttl \/ SameMemory(Opened(x, t), x)
    BY <1>1, <2>2, OpenedStays
  <2> DEFINE y == Opened(x, t)
  <2>4. /\ entry' = [objs EXCEPT ![e] = y]
        /\ y.last <= now' /\ found.last <= y.last
        /\ now' - found.last >= Ttl \/ SameMemory(y, found)
    BY <1>1, <2>1, <2>2, <2>3 DEF SameMemory
  <2>5. now' \in Nat /\ now <= now'
    BY <2>1, <2>2
  <2> HIDE DEF y
  <2> QED
    BY <2>4, <2>5
<1>4. CASE ~LockFree(x)
  <2> DEFINE y == [x EXCEPT !.waiters = Append(@, r)]
  <2>1. entry' = [objs EXCEPT ![e] = y] /\ now' = now
    BY <1>4 DEF Join
  <2>2. SameMemory(y, found) /\ y.last = found.last
    BY <1>1 DEF SameMemory, EntryRecord
  <2> HIDE DEF x, y
  <2>3. y.last <= now' /\ found.last <= y.last /\ now' \in Nat /\ now <= now'
    BY <1>2, <2>1, <2>2
  <2> QED
    BY <2>1, <2>2, <2>3
<1> QED
  BY <1>3, <1>4

\* The purge takes expired sessions only.
LEMMA PurgeStays ==
  ASSUME NEW s \in Sessions, table[s] # NoEntry
  PROVE  now - entry[table[s]].last >= Ttl \/ Purged(now)[s] = table[s]
BY DEF Purged, Expired

LEMMA ObjectsTimely ==
  ASSUME IInv, \A e \in Entries : entry[e].last <= now, NEW tab, NEW e \in Entries
  PROVE  Objects(tab)[e].last <= now
BY DEF Objects, Blank, NewEntry, IInv, TypeOK

\* A store with room for every session evicts none.
LEMMA RoomyKeeps ==
  ASSUME Roomy, NEW tab, NEW s \in Sessions, tab[s] = NoEntry
  PROVE  RoomFor(tab) = {tab}
<1>1. IsFiniteSet(Sessions \ {s}) /\ Cardinality(Sessions \ {s}) = Cardinality(Sessions) - 1
  BY SessionsAssumption, FS_RemoveElement
<1>2. Present(tab) \subseteq Sessions \ {s}
  BY DEF Present
<1>3. Cardinality(Present(tab)) <= Cardinality(Sessions) - 1
  BY <1>1, <1>2, FS_Subset
<1>4. Cardinality(Sessions) \in Nat /\ Cardinality(Present(tab)) \in Nat
  BY <1>1, <1>2, SessionsAssumption, FS_CardinalityType, FS_Subset
<1>5. ~Full(tab)
  BY <1>3, <1>4, LimitsAssumption DEF Full, Roomy
<1> QED
  BY <1>5 DEF RoomFor

LEMMA EnterStays ==
  ASSUME IInv, Roomy, \A e \in Entries : entry[e].last <= now,
         NEW r \in Requests, NEW s \in Sessions, Enter(r, s)
  PROVE  Timely /\ \A u \in Sessions : Stays(u)
<1> DEFINE purged == Purged(now)
           objs   == Objects(purged)
<1>1. Thinned(purged)
  BY PurgedThinned
<1>2. /\ objs \in [Entries -> EntryRecord]
      /\ \A e \in Entries : e \in Reachable(purged) => objs[e] = entry[e]
      /\ \A e \in Entries : objs[e].last <= now
  BY <1>1, ThinnedKeeps, ObjectsTimely
<1>3. now \in Nat /\ Ttl \in Nat
  BY LimitsAssumption DEF IInv, TypeOK
\* What follows for a request that joins at entry e the session s, whose entry
\* was e or which had expired.
<1>4. ASSUME NEW e \in Entries, NEW found \in EntryRecord, found.last <= now,
             Join(r, s, e, found, objs), table' = [purged EXCEPT ![s] = e],
             \/ purged[s] = e /\ found = entry[e]
             \/ purged[s] = NoEntry /\ e \notin Reachable(purged)
      PROVE  Timely /\ \A u \in Sessions : Stays(u)
  <2>1. /\ now' \in Nat /\ now <= now'
        /\ \A d \in Entries \ {e} : entry'[d] = objs[d]
        /\ entry'[e].last <= now' /\ found.last <= entry'[e].last
        /\ now' - found.last >= Ttl \/ SameMemory(entry'[e], found)
    <3> HIDE DEF objs, purged
    <3> QED
      BY <1>2, <1>4, JoinStays
  <2>2. Timely
    <3>1. ASSUME NEW d \in Entries PROVE entry'[d].last <= now'
      <4>1. CASE d = e
        BY <2>1, <4>1
      <4>2. CASE d # e
        <5>1. entry'[d] = objs[d] /\ objs[d] \in EntryRecord /\ objs[d].last <= now
          BY <1>2, <2>1, <4>2
        <5> QED
          BY <1>3, <2>1, <5>1 DEF EntryRecord
      <4> QED
        BY <4>1, <4>2
    <3> QED
      BY <2>1, <3>1 DEF Timely
  <2>3. ASSUME NEW u \in Sessions, table[u] # NoEntry PROVE Stays(u)
    <3>1. /\ table[u] \in Entries /\ entry[table[u]] \in EntryRecord
          /\ entry[table[u]].last \in Nat
      BY <2>3 DEF IInv, TypeOK, EntryRecord
    <3>2. CASE now - entry[table[u]].last >= Ttl
      <4>1. now' - entry[table[u]].last >= Ttl
        BY <1>3, <2>1, <3>1, <3>2
      <4> QED
        BY <4>1 DEF Stays
    <3>3. CASE purged[u] = table[u] /\ u # s
      <4>1. table'[u] = table[u]
        BY <1>1, <1>4, <3>3 DEF Thinned
      <4>2. table[u] \in Reachable(purged)
        BY <3>1, <3>3 DEF Reachable
      <4>3. table[u] # e
        <5>1. purged[u] = purged[s] => u = s
          BY <1>1, <2>3, <3>3, ThinnedKeeps
        <5> QED
          BY <1>4, <3>3, <4>2, <5>1
      <4>4. entry'[table[u]] = entry[table[u]]
        BY <1>2, <2>1, <3>1, <4>2, <4>3
      <4> QED
        BY <3>1, <4>1, <4>4 DEF Stays, SameMemory, EntryRecord
    <3>4. CASE purged[u] = table[u] /\ u = s
      <4>1. table[u] = e /\ found = entry[e]
        BY <1>4, <2>3, <3>4
      <4>2. table'[u] = table[u]
        BY <1>1, <1>4, <3>4, <4>1 DEF Thinned
      <4> QED
        BY <2>1, <4>1, <4>2 DEF Stays
    <3> QED
      BY <2>3, <3>2, <3>3, <3>4, PurgeStays
  <2> QED
    BY <2>2, <2>3 DEF Stays
<1>5. CASE purged[s] # NoEntry
  <2>1. /\ purged[s] \in Entries /\ entry[purged[s]] \in EntryRecord
        /\ entry[purged[s]].last <= now
    BY <1>1, <1>5 DEF Thinned, IInv, TypeOK
  <2>2. Join(r, s, purged[s], entry[purged[s]], objs) /\ table' = purged
    BY <1>5 DEF Enter
  <2>3. table' = [purged EXCEPT ![s] = purged[s]]
    BY <1>1, <2>2 DEF Thinned
  <2> HIDE DEF purged, objs
  <2> QED
    BY <1>4, <2>1, <2>2, <2>3
<1>6. CASE purged[s] = NoEntry
  <2>1. RoomFor(purged) = {purged}
    BY <1>6, RoomyKeeps
  <2>2. /\ Entries \ Reachable(purged) # {}
        /\ table' = [purged EXCEPT ![s] = Fresh(purged)]
        /\ Join(r, s, Fresh(purged), NewEntry(now), objs)
    BY <1>6, <2>1 DEF Enter
  <2>3. Fresh(purged) \in Entries \ Reachable(purged)
    BY <2>2 DEF Fresh
  <2>4. NewEntry(now) \in EntryRecord /\ NewEntry(now).last <= now
    BY <1>3 DEF NewEntry, EntryRecord, Context
  <2> HIDE DEF purged, objs
  <2> QED
    BY <1>4, <1>6, <2>2, <2>3, <2>4
<1> QED
  BY <1>5, <1>6
\* A step that leaves the clock and purges at most, and changes at most one
\* entry further, whose memory it keeps unless it had expired.
LEMMA QuietStays ==
  ASSUME IInv, \A e \in Entries : entry[e].last <= now, now' = now,
         table' = table \/ table' = Purged(now),
         NEW d,
         \A e \in Entries : e # d => entry'[e] = entry[e] \/ entry'[e] = Objects(table')[e],
         d \in Entries =>
           /\ entry[d].last <= entry'[d].last /\ entry'[d].last <= now
           /\ now - entry[d].last >= Ttl \/ SameMemory(entry'[d], entry[d])
  PROVE  Timely /\ \A s \in Sessions : Stays(s)
<1>1. now \in Nat
  BY DEF IInv, TypeOK
<1>2. Timely
  <2>1. ASSUME NEW e \in Entries PROVE entry'[e].last <= now
    BY ObjectsTimely
  <2> QED
    BY <1>1, <2>1 DEF Timely
<1>3. ASSUME NEW s \in Sessions, table[s] # NoEntry PROVE Stays(s)
  <2>1. table[s] \in Entries /\ entry[table[s]].last \in Nat
    BY <1>3 DEF IInv, TypeOK, EntryRecord
  <2>2. now - entry[table[s]].last >= Ttl \/ table'[s] = table[s]
    BY <1>3, PurgeStays
  <2>3. CASE table[s] = d
    BY <2>1, <2>2, <2>3 DEF Stays
  <2>4. CASE table[s] # d /\ table'[s] = table[s]
    <3>1. table[s] \in Reachable(table')
      BY <2>1, <2>4 DEF Reachable
    <3>2. entry'[table[s]] = entry[table[s]]
      BY <2>1, <2>4, <3>1 DEF Objects
    <3> QED
      BY <2>1, <2>4, <3>2 DEF Stays, SameMemory
  <2> QED
    BY <2>2, <2>3, <2>4 DEF Stays
<1> QED
  BY <1>2, <1>3 DEF Stays

LEMMA ResumeStays ==
  ASSUME IInv, \A e \in Entries : entry[e].last <= now, NEW r \in Requests, Resume(r)
  PROVE  Timely /\ \A s \in Sessions : Stays(s)
<1> DEFINE x == entry[held[r]]
           o == Opened(x, now)
           rest == Without(o.waiters, r)
           y == [o EXCEPT !.waiters = rest]
<1>1. held[r] \in Entries /\ phase[r] = "woken"
  BY DEF Resume, IInv, TypeOK, RequestOK
<1>2. x \in EntryRecord /\ now \in Nat /\ x.last <= now /\ x.last \in Nat
  BY <1>1 DEF IInv, TypeOK, EntryRecord
<1>3. entry' = [entry EXCEPT ![held[r]] = y] /\ now' = now /\ table' = table
  BY DEF Resume
<1>4. y.last = now /\ (now - x.last >= Ttl \/ SameMemory(y, x))
  <2> HIDE DEF x, rest
  <2>1. /\ o \in EntryRecord /\ o.last = now
        /\ now - x.last >= Ttl \/ SameMemory(o, x)
    BY <1>2, OpenedEntry, OpenedStays
  <2> HIDE DEF o
  <2>2. SameMemory(y, o) /\ y.last = o.last
    BY <2>1 DEF SameMemory, EntryRecord
  <2> QED
    BY <2>1, <2>2 DEF SameMemory
<1> HIDE DEF y
<1>5. /\ entry'[held[r]] = y
      /\ \A e \in Entries : e # held[r] => entry'[e] = entry[e]
  BY <1>1, <1>3 DEF IInv, TypeOK
<1> QED
  BY <1>2, <1>3, <1>4, <1>5, QuietStays

LEMMA DepartStays ==
  ASSUME IInv, \A e \in Entries : entry[e].last <= now, NEW r \in Requests,
         Cancel(r) \/ Leave(r)
  PROVE  Timely /\ \A s \in Sessions : Stays(s)
<1>1. held[r] \in Entries /\ now' = now /\ table' = table
  BY DEF Cancel, Leave, IInv, TypeOK, RequestOK
<1>2. /\ entry[held[r]] \in EntryRecord /\ now \in Nat
      /\ entry[held[r]].last \in Nat /\ entry[held[r]].last <= now
  BY <1>1 DEF IInv, TypeOK, EntryRecord
<1>3. \A e \in Entries : e # held[r] => entry'[e] = entry[e]
  BY <1>1 DEF Cancel, Leave, IInv, TypeOK
<1>4. /\ entry'[held[r]].last \in {entry[held[r]].last, now}
      /\ SameMemory(entry'[held[r]], entry[held[r]])
  <2>1. CASE Cancel(r)
    <3> DEFINE rest == Without(entry[held[r]].waiters, r)
    <3>1. entry' = [entry EXCEPT ![held[r]].waiters = rest, ![held[r]].users = @ - 1]
      BY <2>1 DEF Cancel
    <3> HIDE DEF rest
    <3> QED
      BY <1>1, <1>2, <3>1 DEF SameMemory, IInv, TypeOK, EntryRecord
  <2>2. CASE Leave(r)
    BY <1>1, <1>2, <2>2 DEF Leave, SameMemory, IInv, TypeOK, EntryRecord
  <2> QED
    BY <2>1, <2>2
<1> QED
  BY <1>1, <1>2, <1>3, <1>4, QuietStays

LEMMA ReadStays ==
  ASSUME IInv, \A e \in Entries : entry[e].last <= now, NEW r \in Requests, Read(r)
  PROVE  Timely /\ \A s \in Sessions : Stays(s)
<1>1. EntryOf(r) = held[r] /\ held[r] \in Entries
  BY OwnEntry DEF Read, Touch
<1>2. /\ entry[held[r]] \in EntryRecord /\ now \in Nat /\ entry[held[r]].last <= now
  BY <1>1 DEF IInv, TypeOK
<1>3. /\ entry' = [Objects(Purged(now)) EXCEPT ![held[r]] = [entry[held[r]] EXCEPT !.last = now]]
      /\ table' = Purged(now) /\ now' = now
  BY <1>1 DEF Read, Touch
<1>4. \A e \in Entries : e # held[r] => entry'[e] = Objects(table')[e]
  BY <1>3 DEF Objects
<1>5. entry'[held[r]].last = now /\ SameMemory(entry'[held[r]], entry[held[r]])
  <2>1. entry'[held[r]] = [entry[held[r]] EXCEPT !.last = now]
    BY <1>1, <1>3 DEF Objects
  <2> QED
    BY <1>2, <2>1 DEF EntryRecord, SameMemory
<1> QED
  BY <1>2, <1>3, <1>4, <1>5, QuietStays

LEMMA ChatStays ==
  ASSUME IInv, Roomy, \A e \in Entries : entry[e].last <= now, [ChatNext]_chatVars,
         \A r \in Requests, cacheable \in BOOLEAN : ~Complete(r, cacheable)
  PROVE  Timely /\ \A s \in Sessions : Stays(s)
<1>1. ASSUME NEW r \in Requests, NEW s \in Sessions, Enter(r, s)
      PROVE  Timely /\ \A u \in Sessions : Stays(u)
  BY <1>1, EnterStays
<1>2. CASE /\ now' = now /\ table' = Purged(now) /\ entry' = Objects(Purged(now))
  <2>1. NoEntry \notin Entries
    BY EntriesAssumption
  <2> QED
    BY <1>2, <2>1, QuietStays
<1>3. CASE UNCHANGED <<table, entry>> /\ now' \in {now, now + 1}
  <2>1. now \in Nat
    BY DEF IInv, TypeOK
  <2>2. \A e \in Entries : entry[e].last \in Nat
    BY DEF IInv, TypeOK, EntryRecord
  <2>3. Timely
    BY <1>3, <2>1, <2>2 DEF Timely
  <2>4. ASSUME NEW s \in Sessions, table[s] # NoEntry PROVE Stays(s)
    <3>1. table[s] \in Entries
      BY <2>4 DEF IInv, TypeOK
    <3> QED
      BY <1>3, <2>2, <3>1 DEF Stays, SameMemory
  <2> QED
    BY <2>3, <2>4 DEF Stays
<1>4. ASSUME NEW r \in Requests, Resume(r) \/ Cancel(r) \/ Leave(r) \/ Read(r)
      PROVE  Timely /\ \A s \in Sessions : Stays(s)
  BY <1>4, ResumeStays, DepartStays, ReadStays
<1> QED
  BY <1>1, <1>2, <1>3, <1>4
     DEF ChatNext, ChatStep, chatVars, ChatTick, Tick, Start, TurnAway, Refuse,
         Proceed, Withdraw, LookUp, Consult, Abandon, Return
\* A completion is settled: asked again in the session as it leaves it, the
\* question means the same, and is an aside or about the session's subject.
LEMMA CompletesSettled ==
  ASSUME IInv, VInv, ChatOK, NEW r \in Requests, stage[r] = "work"
  PROVE  /\ Settled(question[r], Left(r).context, <<question[r], Subject(r)>>)
         /\ Subject(r) = About(question[r], entry[held[r]].context)
         /\ Left(r).context = IF question[r] \in Asides THEN entry[held[r]].context
                                                        ELSE Subject(r)
         /\ Names[question[r]] = NoContext => Left(r).context = entry[held[r]].context
<1> DEFINE q == question[r]
           v == entry[held[r]].context
           c == Subject(r)
<1>1. /\ q \in Questions /\ view[r] # NoView /\ c \in Context
      /\ entry[held[r]] \in EntryRecord /\ InBody(r)
  BY SubjectType
<1>2. view[r][2] = v
  BY <1>1 DEF VInv, Seen, ViewOf
<1>3. c = About(q, v)
  BY <1>2 DEF Subject
<1>4. Left(r).context = IF c = NoContext THEN v ELSE c
  BY <1>1, LeftIs
<1>5. q \in Asides => Names[q] = NoContext
  BY QuestionsAssumption
<1> HIDE DEF q, v, c
<1>6. /\ About(q, Left(r).context) = c
      /\ q \in Asides \/ c = Left(r).context
      /\ Left(r).context = IF q \in Asides THEN v ELSE c
      /\ Names[q] = NoContext => Left(r).context = v
  BY <1>3, <1>4, <1>5 DEF About
<1> QED
  BY <1>3, <1>6 DEF Settled, q, v, c

LEMMA CompleteStays ==
  ASSUME IInv, VInv, ChatOK, \A e \in Entries : entry[e].last <= now,
         NEW r \in Requests, NEW cacheable \in BOOLEAN, Complete(r, cacheable)
  PROVE  /\ Timely /\ now' = now
         /\ \A s \in Sessions : s # key[r] => Stays(s)
         /\ table'[key[r]] = held[r] /\ entry'[held[r]].last = now
<1>1. stage[r] = "work" /\ Touch(r, Left(r))
  BY CompleteIs
<1>2. /\ held[r] \in Entries /\ key[r] \in Sessions /\ table[key[r]] = held[r]
      /\ entry[held[r]] \in EntryRecord /\ Subject(r) \in Context
  BY <1>1, SubjectType
<1>3. Left(r) \in EntryRecord
  BY <1>2, LeftIs DEF SameUse
<1>4. EntryOf(r) = held[r]
  BY <1>1, OwnEntry DEF Touch
<1>5. /\ table' = Purged(now) /\ now' = now
      /\ entry' = [Objects(Purged(now)) EXCEPT ![held[r]] = [Left(r) EXCEPT !.last = now]]
  BY <1>1, <1>4 DEF Touch
<1>6. table'[key[r]] = held[r]
  BY <1>4, <1>5 DEF EntryOf
<1>7. entry'[held[r]].last = now
  <2>1. entry'[held[r]] = [Left(r) EXCEPT !.last = now]
    BY <1>2, <1>5 DEF Objects
  <2> QED
    BY <1>3, <2>1 DEF EntryRecord
<1>8. \A e \in Entries : e # held[r] => entry'[e] = Objects(table')[e]
  BY <1>5 DEF Objects
<1>9. now \in Nat
  BY DEF IInv, TypeOK
<1>10. Timely
  <2>1. ASSUME NEW e \in Entries PROVE entry'[e].last <= now
    BY <1>7, <1>8, <1>9, ObjectsTimely
  <2> QED
    BY <1>5, <1>9, <2>1 DEF Timely
<1>11. ASSUME NEW s \in Sessions, s # key[r], table[s] # NoEntry PROVE Stays(s)
  <2>1. table[s] \in Entries /\ table[s] # held[r] /\ entry[table[s]].last \in Nat
    BY <1>2, <1>11 DEF IInv, TypeOK, OneSessionEach, EntryRecord
  <2>2. now - entry[table[s]].last >= Ttl \/ table'[s] = table[s]
    BY <1>5, <1>11, PurgeStays
  <2>3. CASE table'[s] = table[s]
    <3>1. table[s] \in Reachable(table')
      BY <2>1, <2>3 DEF Reachable
    <3>2. entry'[table[s]] = entry[table[s]]
      BY <1>8, <2>1, <3>1 DEF Objects
    <3> QED
      BY <2>1, <2>3, <3>2 DEF Stays, SameMemory
  <2> QED
    BY <1>5, <2>2, <2>3 DEF Stays
<1> QED
  BY <1>5, <1>6, <1>7, <1>10, <1>11 DEF Stays

\* A young item of a session that stays was young before, and stays current.
LEMMA StaysCurrent ==
  ASSUME IInv, IInv', ChatOK, NEW k \in CacheKeys, ItemCurrent(k), Survives(k), Young(k)',
         Timely, Stays(k[1])
  PROVE  /\ Young(k)
         /\ items'[k].answer = items[k].answer
         /\ table'[k[1]] = table[k[1]] /\ table[k[1]] # NoEntry
         /\ SameMemory(entry'[table[k[1]]], entry[table[k[1]]])
         /\ items'[k].created <= entry'[table[k[1]]].last
<1> DEFINE s == k[1]
           t == items[k].created
           l == entry[table[s]].last
           m == entry'[table[s]].last
<1>1. /\ items[k] # NoItem /\ items'[k].answer = items[k].answer
      /\ items'[k].created = t
  BY DEF Survives, Young
<1>2. t \in Nat /\ now \in Nat /\ now' \in Nat /\ now <= now'
  BY <1>1 DEF ChatOK, ChatTypes, Cache!Item, IInv, TypeOK, Timely
<1>3. ~(now' - t >= CacheTtl)
  BY <1>1 DEF Young
<1>4. CacheTtl \in Nat /\ Ttl \in Nat /\ CacheTtl < Ttl
  BY CacheTtlAssumption, LimitsAssumption
<1>5. Young(k)
  <2>1. ~(now - t >= CacheTtl)
    BY <1>2, <1>3, <1>4
  <2> QED
    BY <1>1, <2>1 DEF Young
<1>6. s \in Sessions /\ table[s] # NoEntry /\ t <= l
  BY <1>5 DEF ItemCurrent, CacheKeys
<1>7. l \in Nat
  BY <1>6 DEF IInv, TypeOK, EntryRecord
<1>8. ~(now' - l >= Ttl)
  BY <1>2, <1>3, <1>4, <1>6, <1>7
<1>9. table'[s] = table[s] /\ SameMemory(entry'[table[s]], entry[table[s]]) /\ l <= m
  BY <1>6, <1>8 DEF Stays
<1>10. t <= m
  <2>1. table[s] \in Entries
    BY <1>6 DEF IInv, TypeOK
  <2>2. m \in Nat
    BY <2>1 DEF IInv, TypeOK, EntryRecord
  <2> QED
    BY <1>2, <1>6, <1>7, <1>9, <2>2
<1> QED
  BY <1>1, <1>5, <1>6, <1>9, <1>10
LEMMA OthersKeepCurrent ==
  ASSUME IInv, IInv', ChatOK, NEW k \in CacheKeys, ItemCurrent(k), Survives(k),
         Timely, Stays(k[1])
  PROVE  ItemCurrent(k)'
<1> SUFFICES ASSUME Young(k)'
             PROVE  /\ table'[k[1]] # NoEntry
                    /\ items'[k].created <= entry'[table'[k[1]]].last
                    /\ k[3] <= entry'[table'[k[1]]].revision
                    /\ k[3] = entry'[table'[k[1]]].revision =>
                         Settled(k[2], entry'[table'[k[1]]].context, items'[k].answer)
  BY DEF ItemCurrent
<1>1. /\ Young(k)
      /\ items'[k].answer = items[k].answer
      /\ table'[k[1]] = table[k[1]] /\ table[k[1]] # NoEntry
      /\ SameMemory(entry'[table[k[1]]], entry[table[k[1]]])
      /\ items'[k].created <= entry'[table[k[1]]].last
  BY StaysCurrent
<1> QED
  BY <1>1 DEF ItemCurrent, SameMemory

\* An item of the session whose answer is completed: an older one is left behind
\* by the new revision, or nothing changed for it.
LEMMA OwnKeepsCurrent ==
  ASSUME NamesRecorded, IInv, VInv, ChatOK, CurrentInv,
         NEW r \in Requests, NEW cacheable \in BOOLEAN, Complete(r, cacheable),
         NEW k \in CacheKeys, Survives(k), k[1] = key[r]
  PROVE  ItemCurrent(k)'
<1> DEFINE x == entry[held[r]]
           y == entry'[held[r]]
<1>1. /\ stage[r] = "work"
      /\ table[key[r]] = held[r] /\ held[r] \in Entries /\ x \in EntryRecord
      /\ Subject(r) \in Context /\ question[r] \in Questions
  BY CompleteIs, SubjectType
<1>2. held[r] # NoEntry
  BY <1>1, EntriesAssumption
<1>3. now' = now /\ table'[key[r]] = held[r] /\ y.last = now
  BY CompleteStays DEF CurrentInv
<1>4. y.context = Left(r).context /\ y.revision = Left(r).revision
  BY CompleteFate DEF OneWritten
<1> SUFFICES ASSUME Young(k)'
             PROVE  /\ items'[k].created <= y.last
                    /\ k[3] <= y.revision
                    /\ k[3] = y.revision => Settled(k[2], y.context, items'[k].answer)
  BY <1>2, <1>3 DEF ItemCurrent
<1>5. /\ items[k] # NoItem /\ items'[k].answer = items[k].answer
      /\ items'[k].created = items[k].created
  BY DEF Survives, Young
<1>6. Young(k)
  BY <1>3, <1>5 DEF Young
<1>7. /\ items[k].created <= x.last /\ k[3] <= x.revision
      /\ k[3] = x.revision => Settled(k[2], x.context, items[k].answer)
  BY <1>1, <1>6 DEF CurrentInv, ItemCurrent
<1>8. x.last <= now
  BY <1>1 DEF CurrentInv
<1>9. /\ x.last \in Nat /\ x.revision \in Nat /\ now \in Nat /\ items[k].created \in Nat
      /\ k[3] \in Nat
  BY <1>1, <1>5, LimitsAssumption
     DEF IInv, TypeOK, EntryRecord, ChatOK, ChatTypes, Cache!Item, CacheKeys
<1>10. items'[k].created <= y.last
  BY <1>3, <1>5, <1>7, <1>8, <1>9
<1>11. CASE question[r] \notin Unrecordable
  <2>1. y.revision = x.revision + 1
    BY <1>1, <1>4, <1>11, LeftIs
  <2>2. k[3] < y.revision
    BY <1>7, <1>9, <2>1
  <2> QED
    BY <1>9, <1>10, <2>1, <2>2
<1>12. CASE question[r] \in Unrecordable
  <2>1. y.revision = x.revision
    BY <1>1, <1>4, <1>12, LeftIs
  <2>2. y.context = x.context
    BY <1>1, <1>4, <1>12, CompletesSettled DEF NamesRecorded
  <2> QED
    BY <1>5, <1>7, <1>10, <2>1, <2>2
<1> QED
  BY <1>11, <1>12

\* The item that a completion places is that of the session as it leaves it.
LEMMA PlacedIsCurrent ==
  ASSUME IInv, VInv, ChatOK, CurrentInv, NEW r \in Requests, Complete(r, TRUE),
         question[r] \notin Unrecordable,
         NEW k \in CacheKeys, k = KeyAt(r, entry[held[r]].revision + 1),
         items'[k].answer = <<question[r], Subject(r)>>, items'[k].created = now
  PROVE  ItemCurrent(k)'
<1> DEFINE y == entry'[held[r]]
<1>1. /\ stage[r] = "work"
      /\ held[r] \in Entries /\ entry[held[r]] \in EntryRecord /\ Subject(r) \in Context
  BY CompleteIs, SubjectType
<1>2. held[r] # NoEntry
  BY <1>1, EntriesAssumption
<1>3. table'[key[r]] = held[r] /\ y.last = now
  BY CompleteStays DEF CurrentInv
<1>4. y.context = Left(r).context /\ y.revision = Left(r).revision
  BY CompleteFate DEF OneWritten
<1>5. k[1] = key[r] /\ k[2] = question[r] /\ k[3] = entry[held[r]].revision + 1
  BY DEF KeyAt
<1>6. y.revision = entry[held[r]].revision + 1
  BY <1>1, <1>4, LeftIs
<1>7. Settled(k[2], y.context, items'[k].answer)
  BY <1>1, <1>4, <1>5, CompletesSettled
<1>8. now \in Nat /\ entry[held[r]].revision \in Nat
  BY <1>1 DEF IInv, TypeOK, EntryRecord
<1>9. table'[k[1]] = held[r] /\ k[3] <= y.revision /\ items'[k].created <= y.last
  BY <1>3, <1>5, <1>6, <1>8
<1> HIDE DEF y
<1> QED
  BY <1>2, <1>7, <1>9 DEF ItemCurrent, y

LEMMA StepItems ==
  ASSUME Roomy, NamesRecorded, IInv, VInv, ChatOK, CurrentInv, [ChatNext]_chatVars
  PROVE  Timely /\ \A k \in CacheKeys : ItemCurrent(k)'
<1>1. IInv'
  BY StoreKeeps
<1>2. CASE \E r \in Requests, cacheable \in BOOLEAN : Complete(r, cacheable)
  <2>1. PICK r \in Requests, cacheable \in BOOLEAN : Complete(r, cacheable)
    BY <1>2
  <2>2. Timely /\ \A s \in Sessions : s # key[r] => Stays(s)
    BY <2>1, CompleteStays DEF CurrentInv
  <2>3. ASSUME NEW k \in CacheKeys, Survives(k) PROVE ItemCurrent(k)'
    <3>1. CASE k[1] = key[r]
      BY <2>1, <2>3, <3>1, OwnKeepsCurrent
    <3>2. CASE k[1] # key[r]
      <4>1. ItemCurrent(k) /\ k[1] \in Sessions
        BY DEF CurrentInv, CacheKeys
      <4> QED
        BY <1>1, <2>2, <2>3, <3>2, <4>1, OthersKeepCurrent
    <3> QED
      BY <3>1, <3>2
  <2>4. ASSUME NEW k \in CacheKeys, ~Survives(k) PROVE ItemCurrent(k)'
    BY <2>4, ItemsCome, PlacedIsCurrent
  <2> QED
    BY <2>2, <2>3, <2>4
<1>3. CASE \A r \in Requests, cacheable \in BOOLEAN : ~Complete(r, cacheable)
  <2>1. Timely /\ \A s \in Sessions : Stays(s)
    BY <1>3, ChatStays DEF CurrentInv
  <2>2. ASSUME NEW k \in CacheKeys PROVE ItemCurrent(k)'
    <3>1. Survives(k)
      BY <1>3, ItemsCome
    <3>2. ItemCurrent(k) /\ k[1] \in Sessions
      BY DEF CurrentInv, CacheKeys
    <3> QED
      BY <1>1, <2>1, <3>1, <3>2, OthersKeepCurrent
  <2> QED
    BY <2>1, <2>2
<1> QED
  BY <1>2, <1>3
\* The memory of a request's session changes only by its own completion.
LEMMA BodyKeepsMemory ==
  ASSUME IInv, VInv, ChatOK, [ChatNext]_chatVars, NEW p \in Requests, InBody(p),
         \A cacheable \in BOOLEAN : ~Complete(p, cacheable)
  PROVE  SameMemory(entry'[held[p]], entry[held[p]])
<1>1. held[p] \in Entries /\ held[p] # NoEntry /\ ~Unowned(held[p])
  BY EntriesAssumption DEF IInv, TypeOK, RequestOK, InBody, Unowned
<1>2. Spared(held[p])
  <2>1. ASSUME NEW r \in Requests, NEW cacheable \in BOOLEAN, Complete(r, cacheable)
        PROVE  Spared(held[p])
    <3>1. OneWritten(r, Left(r).context, Left(r).revision)
      BY <2>1, CompleteFate
    <3>2. InBody(r) /\ r # p
      BY <2>1 DEF Complete, Touch, InBody
    <3>3. held[r] # held[p]
      <4>1. EntryOK(entry[held[p]], held[p], phase, held)
        BY <1>1 DEF IInv
      <4> QED
        BY <3>2, <4>1 DEF EntryOK, InBody
    <3> QED
      BY <1>1, <3>1, <3>3 DEF OneWritten
  <2> QED
    BY <1>1, <2>1, ChatSpares
<1> QED
  BY <1>1, <1>2 DEF Spared

\* A hit answers the question as the session now stands.
LEMMA HitSettled ==
  ASSUME IInv, ChatOK, CurrentInv, NEW r \in Requests, LookUp(r),
         stage' = [stage EXCEPT ![r] = "done"]
  PROVE  \E a : /\ answer' = [answer EXCEPT ![r] = a]
                /\ Settled(question[r], entry[held[r]].context, a)
<1>1. PICK k \in CacheKeys :
        /\ k = KeyAt(r, entry[held[r]].revision)
        /\ items[k] # NoItem
        /\ ~(now - items[k].created >= CacheTtl)
        /\ answer' = [answer EXCEPT ![r] = items[k].answer]
  <2>1. stage' # [stage EXCEPT ![r] = "work"]
    BY DEF ChatOK, ChatTypes
  <2>2. PICK k \in CacheKeys : Hit(r, k)
    BY <2>1, LookUpIs
  <2> QED
    BY <2>2 DEF Hit
<1>2. Young(k) /\ table[key[r]] = held[r]
  BY <1>1, LookUpIs DEF Young
<1>3. k[1] = key[r] /\ k[2] = question[r] /\ k[3] = entry[held[r]].revision
  BY <1>1 DEF KeyAt
<1>4. ItemCurrent(k)
  BY DEF CurrentInv
<1>5. Settled(question[r], entry[held[r]].context, items[k].answer)
  BY <1>2, <1>3, <1>4 DEF ItemCurrent
<1> QED
  BY <1>1, <1>5

LEMMA StepAnswers ==
  ASSUME IInv, VInv, ChatOK, CurrentInv, [ChatNext]_chatVars
  PROVE  \A p \in Requests : AnswerCurrent(p)'
<1> SUFFICES ASSUME NEW p \in Requests, answer'[p] # NoAnswer
             PROVE  answer'[p] = <<question'[p],
                                   About(question'[p], entry'[held'[p]].context)>>
  BY DEF AnswerCurrent, About
<1>1. ASSUME NEW cacheable \in BOOLEAN, Complete(p, cacheable)
      PROVE  answer'[p] = <<question'[p], About(question'[p], entry'[held'[p]].context)>>
  <2>1. /\ answer'[p] = <<question[p], Subject(p)>> /\ question' = question
        /\ stage[p] = "work"
    BY <1>1, CompleteIs DEF ChatOK, ChatTypes
  <2>2. held' = held /\ entry'[held[p]].context = Left(p).context
    BY <1>1, CompleteFate DEF OneWritten, Complete, Touch
  <2>3. Settled(question[p], Left(p).context, <<question[p], Subject(p)>>)
    BY <2>1, CompletesSettled
  <2> QED
    BY <2>1, <2>2, <2>3 DEF Settled
<1>2. CASE LookUp(p) /\ \A cacheable \in BOOLEAN : ~Complete(p, cacheable)
  <2>1. /\ UNCHANGED <<held, question>> /\ InBody(p) /\ answer[p] = NoAnswer
        /\ \/ stage' = [stage EXCEPT ![p] = "done"]
           \/ answer' = answer
    BY <1>2, LookUpIs DEF Hit
  <2>2. PICK a : /\ answer' = [answer EXCEPT ![p] = a]
                 /\ Settled(question[p], entry[held[p]].context, a)
    BY <1>2, <2>1, HitSettled
  <2>3. SameMemory(entry'[held[p]], entry[held[p]])
    BY <1>2, <2>1, BodyKeepsMemory
  <2> QED
    BY <2>1, <2>2, <2>3 DEF Settled, SameMemory, ChatOK, ChatTypes
<1>3. CASE /\ answer'[p] = answer[p] /\ InBody(p)
           /\ held'[p] = held[p] /\ question'[p] = question[p]
           /\ \A cacheable \in BOOLEAN : ~Complete(p, cacheable)
  <2>1. SameMemory(entry'[held[p]], entry[held[p]])
    BY <1>3, BodyKeepsMemory
  <2>2. answer[p] = <<question[p], About(question[p], entry[held[p]].context)>>
    BY <1>3 DEF CurrentInv, AnswerCurrent
  <2> QED
    BY <1>3, <2>1, <2>2 DEF SameMemory
<1> QED
  BY <1>1, <1>2, <1>3, AnswersCome

LEMMA StepCurrent ==
  ASSUME Roomy, NamesRecorded, IInv, VInv, ChatOK, CurrentInv, [ChatNext]_chatVars
  PROVE  CurrentInv'
BY StepItems, StepAnswers DEF CurrentInv, Timely

LEMMA InitCurrent ==
  ASSUME ChatInit
  PROVE  CurrentInv
BY DEF ChatInit, Init, Blank, NewEntry, CurrentInv, ItemCurrent, Young, AnswerCurrent

\* Where the store has room for every session and every exchange that names a
\* security is recorded, every young item of a session's current revision is
\* the answer its question has there, and every answer given is too.
THEOREM CurrentInductive ==
  ASSUME Roomy, NamesRecorded
  PROVE  ChatSpec => [](IInv /\ VInv /\ ChatOK /\ CurrentInv)
<1>1. ChatInit => IInv /\ VInv /\ ChatOK /\ CurrentInv
  BY InitChat, InitCurrent
<1>2. IInv /\ VInv /\ ChatOK /\ CurrentInv /\ [ChatNext]_chatVars
      => IInv' /\ VInv' /\ ChatOK' /\ CurrentInv'
  BY StepChatOK, StepCurrent
<1> QED
  BY <1>1, <1>2, PTL DEF ChatSpec

\* Then an answer, cached or not, is about what its question means in the
\* session as it is when the answer is given.
THEOREM AnswersCurrent ==
  ASSUME Roomy, NamesRecorded
  PROVE  ChatSpec => []AnswerIsCurrent
<1>1. CurrentInv => AnswerIsCurrent
  BY DEF CurrentInv, AnswerCurrent, AnswerIsCurrent
<1> QED
  BY <1>1, CurrentInductive, PTL
-----------------------------------------------------------------------------
(* The chat service implements Dialogue *)

SubjectOf(m) == [s \in Sessions |-> m[s].context]

\* The subjects once those of the dropped sessions are forgotten.
Remaining == [s \in Sessions |-> IF s \in Dropped THEN NoContext ELSE Memory[s].context]

LEMMA RemainingIs ==
  /\ Talk!Without(Dropped) = Remaining
  /\ SubjectOf(Promise!Without(Dropped)) = Remaining
  /\ Dropped \in SUBSET Sessions
BY DEF Talk!Without, Promise!Without, Promise!Forgotten, Remaining, SubjectOf, Dropped

\* A step that writes no memory forgets the subjects of dropped sessions only.
LEMMA SparesSubjects ==
  ASSUME IInv, VInv, ChatOK, [ChatNext]_chatVars,
         \A e \in Entries : Spared(e)
  PROVE  SubjectOf(Memory)' = Remaining
<1>1. MutualExclusion /\ \A s \in Sessions : TableFate(s)
  BY OneInBody, StoreKeeps
<1>2. ASSUME NEW s \in Sessions
      PROVE  Memory'[s].context = Remaining[s]
  <2>1. Memory'[s] = Promise!Without(Dropped)[s]
    BY <1>1, SparedMemory, KeptIsWithout
  <2> QED
    BY <2>1 DEF Promise!Without, Promise!Forgotten, Remaining
<1> QED
  BY <1>2 DEF SubjectOf, Remaining

\* The subject of the session a request is in.
LEMMA BodySubject ==
  ASSUME IInv, NEW r \in Requests, InBody(r)
  PROVE  /\ key[r] \in Sessions \ Dropped
         /\ Remaining[key[r]] = entry[held[r]].context
<1>1. key[r] \in Sessions /\ table[key[r]] = held[r] /\ held[r] # NoEntry
  BY DEF IInv, RequestOK, InBody
<1>2. key[r] \notin Dropped
  BY DEF Dropped, Abandoned
<1> QED
  BY <1>1, <1>2 DEF Remaining, Memory

\* A step that answers nothing.
LEMMA SilentTalk ==
  ASSUME SubjectOf(Memory)' = Remaining,
         answer' = answer \/ \E r \in Requests : answer' = [answer EXCEPT ![r] = NoAnswer]
  PROVE  Talk!Next
BY RemainingIs DEF Talk!Next, SubjectOf

\* A step that answers a question as it is meant in its session.
LEMMA AnswerTalk ==
  ASSUME NEW r \in Requests, answer[r] = NoAnswer,
         NEW s \in Sessions \ Dropped, NEW q \in Questions,
         answer' = [answer EXCEPT ![r] = <<q, About(q, Remaining[s])>>],
         SubjectOf(Memory)' = [Remaining EXCEPT ![s] = IF q \in Asides THEN Remaining[s]
                                                       ELSE About(q, Remaining[s])]
  PROVE  Talk!Next
<1>1. Talk!Answer(r, s, q, Talk!Without(Dropped))
  BY RemainingIs DEF Talk!Answer, Talk!About, About, SubjectOf
<1>2. Dropped \in SUBSET Sessions
  BY RemainingIs
<1>3. \E p \in Requests, u \in Sessions \ Dropped, x \in Questions :
        Talk!Answer(p, u, x, Talk!Without(Dropped))
  BY <1>1
<1>4. \E F \in SUBSET Sessions :
        \E p \in Requests, u \in Sessions \ F, x \in Questions :
          Talk!Answer(p, u, x, Talk!Without(F))
  BY <1>2, <1>3 DEF Talk!Answer
<1> QED
  BY <1>4 DEF Talk!Next

LEMMA LookUpTalk ==
  ASSUME IInv, VInv, ChatOK, CurrentInv, NEW r \in Requests, LookUp(r),
         [ChatNext]_chatVars
  PROVE  Talk!Next
<1>1. /\ InBody(r) /\ answer[r] = NoAnswer /\ question[r] \in Questions
      /\ \/ stage' = [stage EXCEPT ![r] = "done"]
         \/ answer' = answer
  BY LookUpIs DEF Hit
<1>2. \A e \in Entries : Spared(e)
  BY ReadSpares DEF LookUp
<1>3. SubjectOf(Memory)' = Remaining
  BY <1>2, SparesSubjects
<1>4. CASE answer' = answer
  BY <1>3, <1>4, SilentTalk
<1>5. CASE stage' = [stage EXCEPT ![r] = "done"]
  <2> DEFINE s == key[r]
             q == question[r]
  <2>1. s \in Sessions \ Dropped /\ Remaining[s] = entry[held[r]].context
    BY <1>1, BodySubject
  <2>2. PICK a : answer' = [answer EXCEPT ![r] = a] /\ Settled(q, Remaining[s], a)
    BY <1>5, <2>1, HitSettled
  <2>3. answer' = [answer EXCEPT ![r] = <<q, About(q, Remaining[s])>>]
    BY <2>2 DEF Settled
  <2>4. (IF q \in Asides THEN Remaining[s] ELSE About(q, Remaining[s])) = Remaining[s]
    BY <2>2 DEF Settled
  <2>5. Remaining = [Remaining EXCEPT ![s] = Remaining[s]]
    BY <2>1 DEF Remaining
  <2> HIDE DEF s, q
  <2> QED
    BY <1>1, <1>3, <2>1, <2>3, <2>4, <2>5, AnswerTalk DEF q
<1> QED
  BY <1>1, <1>4, <1>5

LEMMA CompleteTalk ==
  ASSUME IInv, VInv, ChatOK, NEW r \in Requests, NEW cacheable \in BOOLEAN,
         Complete(r, cacheable)
  PROVE  Talk!Next
<1> DEFINE s == key[r]
           q == question[r]
<1>1. /\ stage[r] = "work" /\ InBody(r) /\ q \in Questions /\ answer[r] = NoAnswer
  BY CompleteIs, SubjectType DEF ChatOK, StageOK
<1>2. s \in Sessions \ Dropped /\ Remaining[s] = entry[held[r]].context
  BY <1>1, BodySubject
<1>3. /\ Subject(r) = About(q, Remaining[s])
      /\ Left(r).context = IF q \in Asides THEN Remaining[s] ELSE About(q, Remaining[s])
  BY <1>1, <1>2, CompletesSettled
<1>4. answer' = [answer EXCEPT ![r] = <<q, About(q, Remaining[s])>>]
  BY <1>3, CompleteIs
<1>5. Memory' = [Promise!Without(Dropped) EXCEPT
                   ![s] = [context |-> Left(r).context, revision |-> Left(r).revision]]
  <2>1. MutualExclusion
    BY OneInBody
  <2>2. OneWritten(r, Left(r).context, Left(r).revision) /\ \A u \in Sessions : TableFate(u)
    BY CompleteFate
  <2> QED
    BY <1>1, <2>1, <2>2, WrittenMemory
<1>6. SubjectOf(Memory)' = [Remaining EXCEPT ![s] = Left(r).context]
  <2>1. ASSUME NEW u \in Sessions
        PROVE  Memory'[u].context = IF u = s THEN Left(r).context ELSE Remaining[u]
    <3>1. CASE u = s
      BY <1>5, <3>1 DEF Promise!Without
    <3>2. CASE u # s
      <4>1. Memory'[u] = Promise!Without(Dropped)[u]
        BY <1>5, <3>2 DEF Promise!Without
      <4> QED
        BY <3>2, <4>1 DEF Promise!Without, Promise!Forgotten, Remaining
    <3> QED
      BY <3>1, <3>2
  <2> HIDE DEF s
  <2> QED
    BY <2>1 DEF SubjectOf, Remaining
<1> HIDE DEF s, q
<1> QED
  BY <1>1, <1>2, <1>3, <1>4, <1>6, AnswerTalk

LEMMA StepTalk ==
  ASSUME IInv, VInv, ChatOK, CurrentInv, [ChatNext]_chatVars
  PROVE  [Talk!Next]_(Talk!vars)
<1>1. ASSUME NEW r \in Requests, NEW cacheable \in BOOLEAN, Complete(r, cacheable)
      PROVE  Talk!Next
  BY <1>1, CompleteTalk
<1>2. ASSUME NEW r \in Requests, LookUp(r)
      PROVE  Talk!Next
  BY <1>2, LookUpTalk
<1>3. CASE /\ \A r \in Requests, cacheable \in BOOLEAN : ~Complete(r, cacheable)
           /\ \A r \in Requests : ~LookUp(r)
  <2>1. SubjectOf(Memory)' = Remaining
    BY <1>3, ChatSpares, SparesSubjects
  <2>2. \/ answer' = answer
        \/ \E r \in Requests : answer' = [answer EXCEPT ![r] = NoAnswer]
    BY <1>3 DEF ChatNext, ChatStep, chatVars, chat, ChatTick, TurnAway, Start, Withdraw,
                Proceed, Consult, Abandon, Return
  <2> QED
    BY <2>1, <2>2, SilentTalk
<1> QED
  BY <1>1, <1>2, <1>3

\* Then requests for a session are answered as if each were alone and immediate:
\* whatever is awaited, cached, expired or cancelled in between, the answers are
\* those of Dialogue, in the order in which they were given.
THEOREM ImplementsDialogue ==
  ASSUME Roomy, NamesRecorded
  PROVE  ChatSpec => HoldsDialogue
<1>1. ChatInit => Talk!Init
  BY DEF ChatInit, Init, Memory, Talk!Init
<1>2. IInv /\ VInv /\ ChatOK /\ CurrentInv /\ [ChatNext]_chatVars
      => [Talk!Next]_(Talk!vars)
  BY StepTalk
<1> QED
  BY <1>1, <1>2, CurrentInductive, PTL DEF ChatSpec, HoldsDialogue, Talk!Spec

-----------------------------------------------------------------------------
(* Repeated questions *)

\* The cache has room for every session's share.
RoomyCache == Cardinality(Sessions) * MaxPerSession <= MaxItems

OfSession(K, s) == {k \in K : k[1] = s}

\* No session has more than its share.
Shared(K) == \A s \in Sessions : Cardinality(OfSession(K, s)) <= MaxPerSession

LEMMA KeysFinite ==
  ASSUME NEW K \in SUBSET CacheKeys
  PROVE  IsFiniteSet(K) /\ Cardinality(K) \in Nat
<1>1. IsFiniteSet(0..MaxRevision)
  BY LimitsAssumption, FS_Interval
<1>2. IsFiniteSet(Questions \X (0..MaxRevision))
  BY <1>1, RoomAssumption, FS_Product
<1>3. IsFiniteSet(CacheKeys)
  <2>1. IsFiniteSet(Sessions \X Questions)
    BY SessionsAssumption, RoomAssumption, FS_Product
  <2>2. IsFiniteSet((Sessions \X Questions) \X (0..MaxRevision))
    BY <1>1, <2>1, FS_Product
  <2> DEFINE flat == [k \in CacheKeys |-> <<<<k[1], k[2]>>, k[3]>>]
  <2>3. flat \in Injection(CacheKeys, (Sessions \X Questions) \X (0..MaxRevision))
    BY DEF CacheKeys, Injection, IsInjective
  <2> QED
    BY <2>2, <2>3, FS_Injection
<1> QED
  BY <1>3, FS_Subset, FS_CardinalityType

\* If no session has more than its share, all of them have no more than all shares.
LEMMA SharesAdd ==
  ASSUME NEW K \in SUBSET CacheKeys, Shared(K)
  PROVE  Cardinality(K) <= Cardinality(Sessions) * MaxPerSession
<1> DEFINE size(s)   == Cardinality(OfSession(K, s))
           counts(s) == CHOOSE f : f \in Bijection(1..size(s), OfSession(K, s))
           place(k)  == CHOOSE i \in 1..size(k[1]) : counts(k[1])[i] = k
           pair      == [k \in K |-> <<k[1], place(k)>>]
<1>1. \A s \in Sessions : /\ size(s) \in Nat /\ size(s) <= MaxPerSession
                          /\ counts(s) \in Bijection(1..size(s), OfSession(K, s))
  <2> SUFFICES ASSUME NEW s \in Sessions
               PROVE  /\ size(s) \in Nat /\ size(s) <= MaxPerSession
                      /\ counts(s) \in Bijection(1..size(s), OfSession(K, s))
    OBVIOUS
  <2>1. OfSession(K, s) \in SUBSET CacheKeys
    BY DEF OfSession
  <2>2. IsFiniteSet(OfSession(K, s)) /\ size(s) \in Nat /\ size(s) <= MaxPerSession
    BY <2>1, KeysFinite DEF Shared
  <2>3. ExistsBijection(1..size(s), OfSession(K, s))
    BY <2>2, FS_CardinalityType
  <2> QED
    BY <2>2, <2>3 DEF ExistsBijection
<1>2. ASSUME NEW k \in K
      PROVE  /\ k[1] \in Sessions /\ place(k) \in 1..MaxPerSession
             /\ counts(k[1])[place(k)] = k
  <2>1. k[1] \in Sessions /\ k \in OfSession(K, k[1])
    BY DEF CacheKeys, OfSession
  <2>2. \E i \in 1..size(k[1]) : counts(k[1])[i] = k
    <3> DEFINE f == counts(k[1])
               n == size(k[1])
    <3>1. f \in Bijection(1..n, OfSession(K, k[1]))
      BY <1>1, <2>1
    <3> HIDE DEF f, n
    <3>2. \E i \in 1..n : f[i] = k
      BY <2>1, <3>1 DEF Bijection, Surjection
    <3> QED
      BY <3>2 DEF f, n
  <2>3. place(k) \in 1..size(k[1]) /\ counts(k[1])[place(k)] = k
    <3> HIDE DEF counts, size
    <3> QED
      BY <2>2
  <2>4. size(k[1]) \in Nat /\ size(k[1]) <= MaxPerSession
    BY <1>1, <2>1
  <2> HIDE DEF size, counts, place
  <2> QED
    BY <2>1, <2>3, <2>4, RoomAssumption
<1> HIDE DEF size, counts, place
<1>3. pair \in Injection(K, Sessions \X (1..MaxPerSession))
  <2>1. pair \in [K -> Sessions \X (1..MaxPerSession)]
    BY <1>2
  <2>2. ASSUME NEW k \in K, NEW l \in K, pair[k] = pair[l] PROVE k = l
    <3>1. k[1] = l[1] /\ place(k) = place(l)
      BY <2>2
    <3> QED
      BY <1>2, <3>1
  <2> HIDE DEF pair
  <2> QED
    BY <2>1, <2>2 DEF Injection, IsInjective
<1>4. /\ IsFiniteSet(Sessions \X (1..MaxPerSession))
      /\ Cardinality(Sessions \X (1..MaxPerSession)) = Cardinality(Sessions) * MaxPerSession
  <2>1. IsFiniteSet(1..MaxPerSession) /\ Cardinality(1..MaxPerSession) = MaxPerSession
    BY RoomAssumption, FS_Interval
  <2> QED
    BY <2>1, SessionsAssumption, FS_Product
<1> QED
  BY <1>3, <1>4, FS_Injection

LEMMA CountsAlike == ASSUME NEW S PROVE Cache!Cardinality(S) = Cardinality(S)
BY DEF Cardinality, Cache!Cardinality

LEMMA LeastNumber ==
  ASSUME NEW T \in SUBSET Nat, T # {}
  PROVE  \E m \in T : \A n \in T : m <= n
<1>0. IsWellFoundedOn(OpToRel(<, Nat), Nat)
  BY NatLessThanWellFounded
<1>1. PICK m \in T : \A n \in T : ~(<<n, m>> \in OpToRel(<, Nat))
  BY <1>0, WFMin
<1>2. \A n \in T : ~(n < m)
  BY <1>1 DEF OpToRel
<1> QED
  BY <1>2

Cached == Cache!Item \cup {NoItem}

\* Of a set of cached keys one at least is among the oldest: one with the fewest keys
\* before it.
LEMMA SomeOldest ==
  ASSUME NEW map \in [CacheKeys -> Cached], NEW K \in SUBSET Cache!Stored(map), K # {}
  PROVE  \E m \in K : m \in Cache!Oldest(map, K)
<1> DEFINE age(k)   == map[k].last
           first(k, l) == age(k) < age(l) \/ (age(k) = age(l) /\ RankOf[k] < RankOf[l])
           before(k) == {l \in K : first(l, k)}
           T == {Cardinality(before(k)) : k \in K}
<1>1. \A k \in K : k \in CacheKeys /\ age(k) \in Nat /\ RankOf[k] \in Int
  BY RoomAssumption DEF Cache!Stored, Cached, Cache!Item
<1>2. \A k \in K : IsFiniteSet(before(k)) /\ Cardinality(before(k)) \in Nat
  <2>1. \A k \in K : before(k) \in SUBSET CacheKeys
    BY DEF Cache!Stored
  <2> HIDE DEF before
  <2> QED
    BY <2>1, KeysFinite
<1>3. PICK m \in K : \A k \in K : Cardinality(before(m)) <= Cardinality(before(k))
  <2>1. T \in SUBSET Nat /\ T # {}
    BY <1>2
  <2>2. PICK n \in T : \A k \in T : n <= k
    <3> HIDE DEF T
    <3> QED
      BY <2>1, LeastNumber
  <2>3. PICK m \in K : n = Cardinality(before(m))
    OBVIOUS
  <2>4. \A k \in K : Cardinality(before(k)) \in T /\ Cardinality(before(k)) \in Nat
    BY <1>2
  <2> HIDE DEF before, T
  <2> QED
    BY <2>2, <2>3, <2>4
<1>4. ASSUME NEW l \in K PROVE ~first(l, m)
  <2> SUFFICES ASSUME first(l, m) PROVE FALSE
    OBVIOUS
  <2>1. before(l) \subseteq before(m) /\ l \in before(m) /\ l \notin before(l)
    <3>1. \A k \in K : first(k, l) => first(k, m)
      BY <1>1
    <3>2. ~first(l, l)
      BY <1>1
    <3> QED
      BY <3>1, <3>2
  <2> HIDE DEF before
  <2>2. Cardinality(before(l)) <= Cardinality(before(m)) /\ Cardinality(before(l)) # Cardinality(before(m))
    BY <1>2, <2>1, FS_Subset
  <2>3. Cardinality(before(m)) <= Cardinality(before(l))
    BY <1>3
  <2> QED
    BY <1>2, <2>2, <2>3
<1>5. \A l \in K : age(m) < age(l) \/ (age(m) = age(l) /\ RankOf[m] <= RankOf[l])
  BY <1>1, <1>4
<1> QED
  BY <1>5 DEF Cache!Oldest

\* At the limit, and only there, a set of keys loses some of its own.
LEMMA TrimmedLoses ==
  ASSUME NEW map \in [CacheKeys -> Cached], NEW K \in SUBSET Cache!Stored(map),
         NEW limit \in Nat \ {0}, Cardinality(K) <= limit, NEW left,
         left = Cache!Trimmed(map, K, limit)
  PROVE  /\ left \in [CacheKeys -> Cached]
         /\ \A l \in CacheKeys : left[l] = map[l] \/ (l \in K /\ left[l] = NoItem)
         /\ Cardinality(K \cap Cache!Stored(left)) < limit
<1>0. IsFiniteSet(K) /\ Cardinality(K) \in Nat
  BY KeysFinite DEF Cache!Stored
<1>1. CASE ~(Cardinality(K) >= limit)
  <2>1. left = map
    BY <1>1, CountsAlike DEF Cache!Trimmed
  <2>2. K \cap Cache!Stored(left) = K
    BY <2>1
  <2>3. Cardinality(K) < limit
    BY <1>0, <1>1
  <2>4. left \in [CacheKeys -> Cached] /\ \A l \in CacheKeys : left[l] = map[l]
    BY <2>1
  <2>5. Cardinality(K \cap Cache!Stored(left)) < limit
    BY <2>2, <2>3
  <2> QED
    BY <2>4, <2>5
<1>2. CASE Cardinality(K) >= limit
  <2>1. K # {}
    BY <1>2, FS_EmptySet
  <2>2. PICK m \in K : m \in Cache!Oldest(map, K)
    BY <2>1, SomeOldest
  <2>3. left = Cache!Without(map, Cache!Oldest(map, K))
    BY <1>2, CountsAlike DEF Cache!Trimmed
  <2>4. Cache!Oldest(map, K) \subseteq K
    BY DEF Cache!Oldest
  <2>5. /\ left \in [CacheKeys -> Cached]
        /\ \A l \in CacheKeys : left[l] = map[l] \/ (l \in K /\ left[l] = NoItem)
    <3>1. NoItem \in Cached /\ \A l \in CacheKeys : map[l] \in Cached
      BY DEF Cached
    <3>2. left = [l \in CacheKeys |-> IF l \in Cache!Oldest(map, K) THEN NoItem ELSE map[l]]
      BY <2>3 DEF Cache!Without
    <3>3. \A l \in CacheKeys : left[l] = map[l] \/ (l \in K /\ left[l] = NoItem)
      BY <2>4, <3>2
    <3>4. left \in [CacheKeys -> Cached]
      BY <3>1, <3>2
    <3> QED
      BY <3>3, <3>4
  <2>6. m \notin Cache!Stored(left)
    BY <2>2, <2>3 DEF Cache!Without, Cache!Stored
  <2>7. K \cap Cache!Stored(left) \in SUBSET (K \ {m})
    BY <2>6
  <2>8. IsFiniteSet(K \ {m}) /\ Cardinality(K \ {m}) = Cardinality(K) - 1
    BY <1>0, <2>2, FS_RemoveElement
  <2>9. Cardinality(K \cap Cache!Stored(left)) <= Cardinality(K \ {m})
        /\ Cardinality(K \cap Cache!Stored(left)) \in Nat
    BY <2>7, <2>8, FS_Subset, FS_CardinalityType
  <2> QED
    BY <1>0, <2>5, <2>8, <2>9
<1> QED
  BY <1>1, <1>2

\* If the cache has room for all shares, a put drops no young item of another session.
LEMMA PlacedSpares ==
  ASSUME RoomyCache, TypeOK, ChatTypes, Shared(Cache!Stored(items)), NEW k \in CacheKeys,
         NEW a \in Questions \X Context, items' = Cache!Placed(k, a)
  PROVE  /\ Shared(Cache!Stored(items)')
         /\ \A l \in CacheKeys : l[1] # k[1] /\ items[l] # NoItem /\ ~Cache!Stale(l)
                                   => items'[l] = items[l]
<1> DEFINE own  == Cache!Without(Cache!Purged, {k})
           crowd == Cache!Crowd(own, k)
           mine == Cache!Trimmed(own, crowd, MaxPerSession)
           rest == Cache!Stored(mine)
<1>1. /\ own \in [CacheKeys -> Cached] /\ own[k] = NoItem
      /\ \A l \in CacheKeys : own[l] = items[l] \/ own[l] = NoItem
      /\ \A l \in CacheKeys : l # k /\ items[l] # NoItem /\ ~Cache!Stale(l) => own[l] = items[l]
  BY DEF Cache!Without, Cache!Purged, Cached, ChatTypes
<1> HIDE DEF own
<1>2. /\ crowd \in SUBSET Cache!Stored(own) /\ crowd \in SUBSET OfSession(Cache!Stored(items), k[1])
      /\ \A l \in Cache!Stored(own) : l[1] = k[1] => l \in crowd
      /\ \A l \in crowd : l[1] = k[1]
  BY <1>1 DEF Cache!Crowd, Cache!Stored, OfSession
<1>3. Cardinality(crowd) <= MaxPerSession
  <2> DEFINE all == OfSession(Cache!Stored(items), k[1])
  <2>1. all \in SUBSET CacheKeys /\ k[1] \in Sessions
    BY DEF OfSession, Cache!Stored, CacheKeys
  <2>2. IsFiniteSet(all) /\ Cardinality(all) \in Nat /\ Cardinality(all) <= MaxPerSession
    BY <2>1, KeysFinite DEF Shared
  <2>3. Cardinality(crowd) <= Cardinality(all) /\ Cardinality(crowd) \in Nat
    <3> HIDE DEF all, crowd
    <3> QED
      BY <1>2, <2>2, FS_Subset, FS_CardinalityType DEF all
  <2> QED
    BY <2>2, <2>3, RoomAssumption
<1> HIDE DEF crowd
<1>4. /\ mine \in [CacheKeys -> Cached]
      /\ \A l \in CacheKeys : mine[l] = own[l] \/ (l \in crowd /\ mine[l] = NoItem)
      /\ Cardinality(crowd \cap rest) < MaxPerSession
  BY <1>1, <1>2, <1>3, RoomAssumption, TrimmedLoses
<1> HIDE DEF mine
<1>5. rest \in SUBSET CacheKeys /\ k \notin rest /\ rest \in SUBSET Cache!Stored(items)
  BY <1>1, <1>4 DEF Cache!Stored
<1>6. OfSession(rest, k[1]) = crowd \cap rest
  BY <1>1, <1>2, <1>4 DEF OfSession, Cache!Stored
<1>7. ASSUME NEW K \in SUBSET (rest \cup {k}) PROVE Shared(K)
  <2> SUFFICES ASSUME NEW s \in Sessions
               PROVE  Cardinality(OfSession(K, s)) <= MaxPerSession
    BY DEF Shared
  <2>1. IsFiniteSet(OfSession(K, s)) /\ Cardinality(OfSession(K, s)) \in Nat
    BY <1>5, KeysFinite DEF OfSession
  <2>2. CASE s = k[1]
    <3> DEFINE few == crowd \cap rest
    <3>1. IsFiniteSet(few) /\ Cardinality(few) \in Nat /\ k \notin few
      BY <1>5, KeysFinite
    <3>2. IsFiniteSet(few \cup {k}) /\ Cardinality(few \cup {k}) = Cardinality(few) + 1
      <4> HIDE DEF few
      <4> QED
        BY <3>1, FS_AddElement
    <3>3. OfSession(K, s) \in SUBSET (few \cup {k})
      BY <1>6, <2>2 DEF OfSession
    <3>4. Cardinality(OfSession(K, s)) <= Cardinality(few \cup {k})
      BY <3>2, <3>3, FS_Subset
    <3> QED
      BY <1>4, <2>1, <3>1, <3>2, <3>4, RoomAssumption
  <2>3. CASE s # k[1]
    <3> DEFINE all == OfSession(Cache!Stored(items), s)
    <3>1. OfSession(K, s) \in SUBSET all
      BY <1>5, <2>3 DEF OfSession
    <3>2. IsFiniteSet(all) /\ Cardinality(all) \in Nat /\ Cardinality(all) <= MaxPerSession
      <4>1. all \in SUBSET CacheKeys
        BY DEF OfSession, Cache!Stored
      <4> QED
        BY <4>1, KeysFinite DEF Shared
    <3>3. Cardinality(OfSession(K, s)) <= Cardinality(all)
      <4> HIDE DEF all
      <4> QED
        BY <3>1, <3>2, FS_Subset
    <3> QED
      BY <2>1, <3>2, <3>3, RoomAssumption
  <2> QED
    BY <2>2, <2>3
<1>8. Cardinality(rest) < MaxItems
  <2>1. rest \cup {k} \in SUBSET CacheKeys /\ Shared(rest \cup {k})
    BY <1>5, <1>7
  <2>2. Cardinality(rest \cup {k}) <= Cardinality(Sessions) * MaxPerSession
    BY <2>1, SharesAdd
  <2>3. IsFiniteSet(rest) /\ Cardinality(rest) \in Nat
    BY <1>5, KeysFinite
  <2>4. Cardinality(rest \cup {k}) = Cardinality(rest) + 1
    <3> HIDE DEF rest
    <3> QED
      BY <1>5, <2>3, FS_AddElement
  <2>5. Cardinality(Sessions) * MaxPerSession \in Nat
    <3>1. Cardinality(Sessions) \in Nat /\ MaxPerSession \in Nat
      BY SessionsAssumption, FS_CardinalityType, RoomAssumption
    <3> QED
      BY <3>1
  <2> HIDE DEF rest
  <2> QED
    BY <2>2, <2>3, <2>4, <2>5, RoomAssumption DEF RoomyCache
<1>9. Cache!Admitted(k) = mine
  <2>1. Cache!Admitted(k) = Cache!Trimmed(mine, rest, MaxItems)
    BY DEF Cache!Admitted, own, mine, crowd
  <2>2. ~(Cardinality(rest) >= MaxItems)
    <3>1. Cardinality(rest) \in Nat
      BY <1>5, KeysFinite
    <3> HIDE DEF rest
    <3> QED
      BY <1>8, <3>1, RoomAssumption
  <2> QED
    BY <2>1, <2>2, CountsAlike DEF Cache!Trimmed
<1>10. \A l \in CacheKeys : l # k => items'[l] = mine[l]
  BY <1>9 DEF Cache!Placed
<1>11. Cache!Stored(items)' \in SUBSET (rest \cup {k})
  BY <1>10 DEF Cache!Stored
<1>12. Shared(Cache!Stored(items)')
  BY <1>7, <1>11
<1>13. ASSUME NEW l \in CacheKeys, l[1] # k[1], items[l] # NoItem, ~Cache!Stale(l)
       PROVE  items'[l] = items[l]
  <2>1. l # k /\ l \notin crowd
    BY <1>2, <1>13
  <2> QED
    BY <1>1, <1>4, <1>10, <1>13, <2>1
<1> QED
  BY <1>12, <1>13

\* Fewer keys take no larger shares.
LEMMA SharedLess ==
  ASSUME NEW K \in SUBSET CacheKeys, Shared(K), NEW L \in SUBSET K
  PROVE  Shared(L)
<1> SUFFICES ASSUME NEW s \in Sessions
             PROVE  Cardinality(OfSession(L, s)) <= MaxPerSession
  BY DEF Shared
<1>1. IsFiniteSet(OfSession(K, s)) /\ Cardinality(OfSession(K, s)) \in Nat
  BY KeysFinite DEF OfSession
<1>2. IsFiniteSet(OfSession(L, s)) /\ Cardinality(OfSession(L, s)) \in Nat
  BY KeysFinite DEF OfSession
<1>3. OfSession(L, s) \in SUBSET OfSession(K, s)
  BY DEF OfSession
<1>4. Cardinality(OfSession(L, s)) <= Cardinality(OfSession(K, s))
  BY <1>1, <1>3, FS_Subset
<1>5. Cardinality(OfSession(K, s)) <= MaxPerSession
  BY DEF Shared
<1> QED
  BY <1>1, <1>2, <1>4, <1>5, RoomAssumption

Exchange == [question : Questions, revision : 0..MaxRevision, time : Nat]

\* Where the answer of session s's last exchange is cached.
LatestKey(s) == <<s, last[s].question, last[s].revision>>

\* The answer of a session's last exchange is in the cache while it is fresh, and
\* is as old as the exchange.
Kept(s) ==
  last[s] # NoAnswer /\ now - last[s].time < CacheTtl =>
    /\ items[LatestKey(s)] # NoItem
    /\ items[LatestKey(s)].created = last[s].time

RepInv ==
  /\ Shared(Cache!Stored(items))
  /\ last \in [Sessions -> Exchange \cup {NoAnswer}]
  /\ \A s \in Sessions : Kept(s)

LEMMA ClockRuns ==
  ASSUME IInv, [ChatNext]_chatVars
  PROVE  now \in Nat /\ now' \in Nat /\ now <= now'
<1>1. now \in Nat
  BY DEF IInv, TypeOK
<1>2. ASSUME NEW r \in Requests, NEW s \in Sessions, NEW q \in Questions, Start(r, s, q)
      PROVE  now' = now \/ now' = now + 1
  <2>1. \E e, x, objs : Join(r, s, e, x, objs)
    BY <1>2 DEF Start, Enter
  <2> QED
    BY <2>1 DEF Join, LaterReadings
<1>3. \/ now' = now \/ now' = now + 1
      \/ \E r \in Requests, s \in Sessions, q \in Questions : Start(r, s, q)
  BY DEF ChatNext, ChatStep, chatVars, ChatTick, Tick, TurnAway, Refuse, Proceed, Resume,
         Withdraw, Cancel, LookUp, Consult, Read, Touch, Abandon, Complete, Return, Leave
<1> QED
  BY <1>1, <1>2, <1>3

\* A lookup drops nothing that is fresh.
LEMMA TouchedSpares ==
  ASSUME TypeOK, ChatTypes, NEW k, items' = Cache!Touched(k),
         NEW l \in CacheKeys, items[l] # NoItem, ~Cache!Stale(l)
  PROVE  items'[l] # NoItem /\ items'[l].created = items[l].created
<1>1. items[l] \in Cache!Item
  BY DEF ChatTypes
<1>2. Cache!Purged[l] = items[l]
  BY DEF Cache!Purged, Cache!Without
<1>3. items'[l] = items[l] \/ items'[l] = [items[l] EXCEPT !.last = now]
  BY <1>2 DEF Cache!Touched
<1>4. now \in Nat
  BY DEF TypeOK
<1>5. items'[l] \in Cache!Item /\ items'[l].created = items[l].created
  BY <1>1, <1>3, <1>4 DEF Cache!Item
<1> QED
  BY <1>5, RoomAssumption

LEMMA LatestIsKey ==
  ASSUME RepInv, NEW s \in Sessions, last[s] # NoAnswer
  PROVE  /\ last[s] \in Exchange /\ last[s].time \in Nat
         /\ LatestKey(s) \in CacheKeys /\ LatestKey(s)[1] = s
<1>1. last[s] \in Exchange
  BY DEF RepInv
<1> QED
  BY <1>1 DEF Exchange, LatestKey, CacheKeys

\* What was kept stays so if its key loses nothing fresh.
LEMMA KeptStays ==
  ASSUME IInv, RepInv, [ChatNext]_chatVars, NEW s \in Sessions, last'[s] = last[s],
         \A l \in CacheKeys : l[1] = s /\ items[l] # NoItem /\ ~Cache!Stale(l) =>
           items'[l] # NoItem /\ items'[l].created = items[l].created
  PROVE  Kept(s)'
<1> SUFFICES ASSUME last[s] # NoAnswer, now' - last[s].time < CacheTtl
             PROVE  /\ items'[LatestKey(s)] # NoItem
                    /\ items'[LatestKey(s)].created = last[s].time
  BY DEF Kept, LatestKey
<1>1. /\ last[s].time \in Nat
      /\ LatestKey(s) \in CacheKeys /\ LatestKey(s)[1] = s
  BY LatestIsKey
<1>2. now - last[s].time < CacheTtl
  BY <1>1, ClockRuns, CacheTtlAssumption
<1>3. items[LatestKey(s)] # NoItem /\ items[LatestKey(s)].created = last[s].time
  BY <1>2 DEF RepInv, Kept
<1>4. ~Cache!Stale(LatestKey(s))
  BY <1>1, <1>2, <1>3, ClockRuns, CacheTtlAssumption DEF Cache!Stale
<1> QED
  BY <1>1, <1>3, <1>4

\* A completion renews its own session's last exchange, and spares the others'.
LEMMA CompletesKept ==
  ASSUME RoomyCache, IInv, VInv, ChatOK, RepInv, [ChatNext]_chatVars,
         NEW r \in Requests, NEW cacheable \in BOOLEAN, Complete(r, cacheable)
  PROVE  RepInv'
<1> DEFINE k == KeyAt(r, entry[held[r]].revision + 1)
           a == <<question[r], Subject(r)>>
           e == [question |-> question[r], revision |-> entry[held[r]].revision + 1,
                 time |-> now]
<1>1. /\ stage[r] = "work"
      /\ question[r] \notin Unrecordable => entry[held[r]].revision < MaxRevision
      /\ items' = IF question[r] \notin Unrecordable /\ cacheable
                    THEN Cache!Placed(k, a) ELSE items
  BY CompleteIs
<1>2. /\ question[r] \in Questions /\ key[r] \in Sessions /\ a \in Questions \X Context
      /\ entry[held[r]] \in EntryRecord
  <2>1. /\ entry[held[r]] \in EntryRecord /\ Subject(r) \in Context
        /\ question[r] \in Questions /\ key[r] \in Sessions
    BY <1>1, SubjectType
  <2> QED
    BY <2>1
<1>3. now' = now /\ now \in Nat
  BY ClockRuns DEF Complete, Touch
<1>4. last' = [last EXCEPT ![key[r]] =
                 IF question[r] \notin Unrecordable /\ cacheable THEN e ELSE NoAnswer]
  <2>1. InBody(r) /\ phase[r] = "body"
    BY <1>1 DEF ChatOK, StageOK, InBody
  <2>2. EntryOf(r) = held[r]
    BY <2>1, OwnEntry
  <2> QED
    BY <2>2 DEF Complete
<1>5. CASE question[r] \notin Unrecordable /\ cacheable
  <2>1. entry[held[r]].revision + 1 \in 0..MaxRevision
    BY <1>1, <1>2, <1>5, LimitsAssumption DEF EntryRecord
  <2>2. k \in CacheKeys /\ k[1] = key[r] /\ e \in Exchange
    BY <1>2, <1>3, <2>1 DEF CacheKeys, KeyAt, Exchange
  <2>3. items' = Cache!Placed(k, a)
    BY <1>1, <1>5
  <2>4. /\ Shared(Cache!Stored(items)')
        /\ \A l \in CacheKeys : l[1] # key[r] /\ items[l] # NoItem /\ ~Cache!Stale(l)
                                  => items'[l] = items[l]
    <3> HIDE DEF k, a
    <3> QED
      BY <1>2, <2>2, <2>3, PlacedSpares DEF IInv, ChatOK, RepInv
  <2>5. items'[k] # NoItem /\ items'[k].created = now
    <3>1. items'[k] = [answer |-> a, created |-> now, last |-> now]
      BY <2>2, <2>3 DEF Cache!Placed
    <3>2. items'[k] \in Cache!Item
      BY <1>2, <1>3, <3>1 DEF Cache!Item
    <3> QED
      BY <3>1, <3>2, RoomAssumption
  <2>6. last'[key[r]] = e /\ last' \in [Sessions -> Exchange \cup {NoAnswer}]
    <3> HIDE DEF e
    <3> QED
      BY <1>2, <1>4, <1>5, <2>2 DEF RepInv
  <2>7. ASSUME NEW s \in Sessions, s = key[r] PROVE Kept(s)'
    <3>1. LatestKey(s)' = k /\ last'[s].time = now
      BY <2>6, <2>7 DEF LatestKey, KeyAt
    <3> QED
      BY <2>5, <3>1 DEF Kept
  <2>8. ASSUME NEW s \in Sessions, s # key[r] PROVE Kept(s)'
    <3>1. last'[s] = last[s]
      BY <1>4, <2>8 DEF RepInv
    <3>2. \A l \in CacheKeys : l[1] = s /\ items[l] # NoItem /\ ~Cache!Stale(l) =>
            items'[l] # NoItem /\ items'[l].created = items[l].created
      BY <2>4, <2>8
    <3> QED
      BY <3>1, <3>2, KeptStays
  <2>9. \A s \in Sessions : Kept(s)'
    BY <2>7, <2>8
  <2> QED
    BY <2>4, <2>6, <2>9 DEF RepInv
<1>6. CASE ~(question[r] \notin Unrecordable /\ cacheable)
  <2>1. items' = items /\ last' = [last EXCEPT ![key[r]] = NoAnswer]
    BY <1>1, <1>4, <1>6
  <2>2. last'[key[r]] = NoAnswer /\ last' \in [Sessions -> Exchange \cup {NoAnswer}]
    BY <1>2, <2>1 DEF RepInv
  <2>3. ASSUME NEW s \in Sessions PROVE Kept(s)'
    <3>1. CASE last'[s] = NoAnswer
      BY <3>1 DEF Kept
    <3>2. CASE last'[s] # NoAnswer
      <4>1. last'[s] = last[s]
        BY <1>2, <2>1, <3>2 DEF RepInv
      <4> QED
        BY <2>1, <4>1, KeptStays
    <3> QED
      BY <3>1, <3>2
  <2>4. Shared(Cache!Stored(items))'
    BY <2>1 DEF RepInv, Cache!Stored
  <2> QED
    BY <2>2, <2>3, <2>4 DEF RepInv
<1> QED
  BY <1>5, <1>6

LEMMA StepRepInv ==
  ASSUME RoomyCache, IInv, VInv, ChatOK, RepInv, [ChatNext]_chatVars
  PROVE  RepInv'
<1>1. CASE items' = items /\ last' = last
  <2>1. \A s \in Sessions : Kept(s)'
    BY <1>1, KeptStays
  <2>2. Shared(Cache!Stored(items))'
    BY <1>1 DEF RepInv, Cache!Stored
  <2> QED
    BY <1>1, <2>1, <2>2 DEF RepInv
<1>2. ASSUME NEW r \in Requests, LookUp(r) PROVE RepInv'
  <2>1. PICK k : items' = Cache!Touched(k)
    BY <1>2, LookUpIs
  <2>2. last' = last
    BY <1>2 DEF LookUp
  <2>3. TypeOK /\ ChatTypes
    BY DEF IInv, ChatOK
  <2>4. \A s \in Sessions : Kept(s)'
    BY <2>1, <2>2, <2>3, TouchedSpares, KeptStays
  <2>5. Cache!Stored(items)' \in SUBSET Cache!Stored(items)
    BY <2>1, <2>3, TouchedSurvives DEF Survives, Cache!Stored
  <2>6. Cache!Stored(items) \in SUBSET CacheKeys /\ Shared(Cache!Stored(items))
    BY DEF Cache!Stored, RepInv
  <2>7. Shared(Cache!Stored(items)')
    BY <2>5, <2>6, SharedLess
  <2> QED
    BY <2>2, <2>4, <2>7 DEF RepInv
<1>3. \/ items' = items /\ last' = last
      \/ \E r \in Requests : LookUp(r) \/ \E cacheable \in BOOLEAN : Complete(r, cacheable)
  BY DEF ChatNext, ChatStep, chatVars, chat, ChatTick, TurnAway, Start, Withdraw,
         Proceed, Consult, Abandon, Return
<1> QED
  BY <1>1, <1>2, <1>3, CompletesKept

\* Work begins only where a lookup finds nothing.
LEMMA WorkBegins ==
  ASSUME ChatOK, [ChatNext]_chatVars, NEW r \in Requests,
         stage[r] = "start", stage'[r] = "work"
  PROVE  LookUp(r)
<1>1. \/ stage' = stage
      \/ \E p \in Requests : LookUp(p)
      \/ \E p \in Requests : \/ stage' = [stage EXCEPT ![p] = "done"]
                             \/ stage' = [stage EXCEPT ![p] = "start"]
  BY DEF ChatNext, ChatStep, chatVars, chat, ChatTick, TurnAway, Start, Withdraw,
         Proceed, Consult, Abandon, Complete, Return
<1>2. PICK p \in Requests : LookUp(p)
  BY <1>1 DEF ChatOK, ChatTypes
<1>3. \/ stage' = [stage EXCEPT ![p] = "done"]
      \/ stage' = [stage EXCEPT ![p] = "work"]
  BY <1>2 DEF LookUp
<1> QED
  BY <1>2, <1>3 DEF ChatOK, ChatTypes

\* A lookup that begins work found no fresh answer of the session's last exchange.
LEMMA StepRepeats ==
  ASSUME IInv, ChatOK, RepInv, [ChatNext]_chatVars, NEW r \in Requests,
         stage[r] = "start", stage'[r] = "work",
         last[key[r]] # NoAnswer, last[key[r]].question = question[r],
         last[key[r]].revision = view'[r][1], now - last[key[r]].time < CacheTtl
  PROVE  FALSE
<1> DEFINE k == KeyAt(r, entry[held[r]].revision)
<1>1. LookUp(r)
  BY WorkBegins
<1>2. key[r] \in Sessions /\ InBody(r) /\ view'[r] = ViewOf(entry[held[r]])
  BY <1>1, LookUpIs
<1>3. EntryOf(r) = held[r]
  BY <1>1, ReadViews DEF LookUp
<1>4. Cache!Purged[k] = NoItem
  <2>1. Cache!Purged[k] # NoItem => stage' = [stage EXCEPT ![r] = "done"]
    BY <1>1, <1>3 DEF LookUp
  <2> QED
    BY <2>1 DEF ChatOK, ChatTypes
<1>5. LatestKey(key[r]) = k
  BY <1>2 DEF LatestKey, KeyAt, ViewOf
<1>6. k \in CacheKeys /\ last[key[r]].time \in Nat
  BY <1>2, <1>5, LatestIsKey
<1>7. items[k] # NoItem /\ items[k].created = last[key[r]].time
  BY <1>2, <1>5 DEF RepInv, Kept
<1>8. ~Cache!Stale(k)
  BY <1>6, <1>7, ClockRuns, CacheTtlAssumption DEF Cache!Stale
<1> QED
  BY <1>4, <1>6, <1>7, <1>8 DEF Cache!Purged, Cache!Without

LEMMA InitRepInv == ASSUME ChatInit PROVE RepInv
<1>1. Cache!Stored(items) = {}
  BY DEF ChatInit, Cache!Stored
<1>2. \A s \in Sessions : OfSession(Cache!Stored(items), s) = {}
  BY <1>1 DEF OfSession
<1>3. Shared(Cache!Stored(items))
  BY <1>2, FS_EmptySet, RoomAssumption DEF Shared
<1> QED
  BY <1>3 DEF ChatInit, RepInv, Kept

\* Where the cache has room for every session's share, a question asked again at
\* once is never worked out again while its answer is fresh: no other session
\* can push it out, and its own only by an exchange that comes after it.
THEOREM RepeatsCached ==
  ASSUME RoomyCache
  PROVE  ChatSpec => RepeatIsCached
<1>1. ChatInit => RepInv
  BY InitRepInv
<1>2. IInv /\ VInv /\ ChatOK /\ RepInv /\ [ChatNext]_chatVars => RepInv'
  BY StepRepInv
<1>3. IInv /\ ChatOK /\ RepInv /\ [ChatNext]_chatVars
      => [\A r \in Requests :
            stage[r] = "start" /\ stage'[r] = "work" =>
              LET e == last[key[r]] IN
              ~ /\ e # NoAnswer
                /\ e.question = question[r]
                /\ e.revision = view'[r][1]
                /\ now - e.time < CacheTtl]_chatVars
  BY StepRepeats
<1> QED
  BY <1>1, <1>2, <1>3, ChatInductive, PTL DEF ChatSpec, RepeatIsCached

=============================================================================
