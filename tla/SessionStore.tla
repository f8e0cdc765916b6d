---------------------------- MODULE SessionStore ----------------------------
(***************************************************************************)
(* The bounded, expiring store of anonymous chat sessions:                 *)
(* InMemorySessionStore in src/app/services/session_store.py.              *)
(*                                                                         *)
(* One entry per session id holds the conversation (a context, the last    *)
(* exchanges and a revision), the time of its last access, an asyncio.Lock *)
(* and the number of requests that hold or wait for it.  The chat service  *)
(* runs each request inside `async with store.serialized(session_id)`;     *)
(* everything else the store offers is a plain method, so it runs without  *)
(* interruption on the event loop.  An action here is one such method, or  *)
(* one stretch of `serialized` between two awaits.                         *)
(*                                                                         *)
(* Entries are objects with an identity of their own: a request keeps a    *)
(* reference to the entry it found, and deleting the entry from the table  *)
(* does not take that reference away.                                      *)
(***************************************************************************)
EXTENDS Integers, FiniteSets, Sequences

CONSTANTS
  Sessions,      \* session ids; integers, since eviction breaks ties by id
  Requests,      \* tasks that may call the store
  Entries,       \* identities of _SessionEntry objects
  NoEntry,       \* "no such entry": an absent key, a null reference
  Contexts,      \* session contexts a request may save
  NoContext,     \* the context of a new or reset session
  NoView,        \* a request that has not read its session yet
  MaxSessions,   \* max_sessions
  Ttl,           \* ttl_seconds, in clock ticks
  MaxRecent,     \* MAX_RECENT_EXCHANGES
  MaxClock,      \* bound on the clock
  MaxRevision    \* bound on a session's revision

ASSUME SessionsAssumption == Sessions \subseteq Int /\ IsFiniteSet(Sessions)
ASSUME RequestsAssumption == IsFiniteSet(Requests)
ASSUME EntriesAssumption  == NoEntry \notin Entries \cup Requests
ASSUME LimitsAssumption ==
  /\ MaxSessions \in Nat \ {0}
  /\ Ttl \in Nat \ {0}
  /\ MaxRecent \in Nat \ {0}
  /\ MaxClock \in Nat
  /\ MaxRevision \in Nat
ASSUME ViewAssumption == NoView \notin Nat \X (Contexts \cup {NoContext})

VARIABLES
  now,      \* the monotonic clock
  table,    \* _entries: the entry of each session, or NoEntry
  entry,    \* the _SessionEntry objects
  phase,    \* where each request is in `serialized`
  key,      \* the session id of a request's call
  held,     \* the entry a request refers to
  view      \* <<revision, context>> the request last got from its session

vars == <<now, table, entry, phase, key, held, view>>

-----------------------------------------------------------------------------
(* Types and records *)

Context == Contexts \cup {NoContext}

\* A stored exchange is its revision; the question and answer are abstracted.
EntryRecord ==
  [context  : Context,
   recent   : Seq(Nat),
   revision : Nat,
   last     : Nat,
   users    : Nat,
   locked   : BOOLEAN,
   waiters  : Seq(Requests)]

NewEntry(t) ==
  [context |-> NoContext, recent |-> << >>, revision |-> 0, last |-> t,
   users |-> 0, locked |-> FALSE, waiters |-> << >>]

Blank == NewEntry(0)

Phases == {"idle", "queued", "woken", "body"}

TypeOK ==
  /\ now \in 0..MaxClock
  /\ table \in [Sessions -> Entries \cup {NoEntry}]
  /\ entry \in [Entries -> EntryRecord]
  /\ phase \in [Requests -> Phases]
  /\ key \in [Requests -> Sessions \cup {NoEntry}]
  /\ held \in [Requests -> Entries \cup {NoEntry}]
  /\ view \in [Requests -> (Nat \X Context) \cup {NoView}]

-----------------------------------------------------------------------------
(* The table: expiry, eviction, allocation *)

Present(tab) == {s \in Sessions : tab[s] # NoEntry}

IsIdle(e) == entry[e].users = 0

\* mutant: the purge does not look at users
ExpiredInUse(t) == {s \in Present(table) : t - entry[table[s]].last >= Ttl}

\* _purge_expired: idle entries not accessed for the time to live are deleted.
Expired(t) ==
  {s \in Present(table) :
     /\ IsIdle(table[s])
     /\ t - entry[table[s]].last >= Ttl}

Purged(t) == [s \in Sessions |-> IF s \in Expired(t) THEN NoEntry ELSE table[s]]

\* min(candidates) of (last_access, session_id) among idle entries.
Candidates(tab) == {s \in Present(tab) : IsIdle(tab[s])}

\* mutant: any idle session may be evicted
AnyIdle(tab, s) == s \in Candidates(tab)

IsVictim(tab, s) ==
  /\ s \in Candidates(tab)
  /\ \A u \in Candidates(tab) :
       \/ entry[tab[s]].last < entry[tab[u]].last
       \/ entry[tab[s]].last = entry[tab[u]].last /\ s <= u

\* mutant: off by one
Overfull(tab) == Cardinality(Present(tab)) > MaxSessions

Full(tab) == Cardinality(Present(tab)) >= MaxSessions

\* _new_entry makes room first: the tables it may leave, none when every entry
\* is in use and the store is full (the code raises).
RoomFor(tab) ==
  IF Full(tab) THEN {[tab EXCEPT ![s] = NoEntry] : s \in {u \in Sessions : IsVictim(tab, u)}}
               ELSE {tab}

\* Objects that neither the table nor a request refers to are garbage; a new
\* entry takes the identity of one of those.
Reachable(tab) ==
  {e \in Entries : \/ \E s \in Sessions : tab[s] = e
                   \/ \E r \in Requests : held[r] = e}

Objects(tab) == [e \in Entries |-> IF e \in Reachable(tab) THEN entry[e] ELSE Blank]

Fresh(tab) == CHOOSE e \in Entries \ Reachable(tab) : TRUE

-----------------------------------------------------------------------------
(* asyncio.Lock, as the store uses it (CPython 3.11) *)

\* acquire() does not suspend when the lock is free and nobody waits.
LockFree(x) == ~x.locked /\ x.waiters = << >>

\* release(), or a cancelled waiter that finds the lock free, wakes the first
\* waiter.  The lock stays free until that waiter runs.
WakeFirst(waiters, ph) ==
  IF waiters # << >> THEN [ph EXCEPT ![Head(waiters)] = "woken"] ELSE ph

\* deque.remove: the first occurrence goes.
Without(waiters, r) ==
  LET i == CHOOSE j \in 1..Len(waiters) : waiters[j] = r
  IN  SubSeq(waiters, 1, i - 1) \o SubSeq(waiters, i + 1, Len(waiters))

-----------------------------------------------------------------------------
(* `serialized` up to its yield *)

\* mutant: the reset keeps the exchanges
OpenedKeepingRecent(x, t) ==
  IF t - x.last >= Ttl
    THEN [x EXCEPT !.context = NoContext, !.revision = 0, !.last = t, !.locked = TRUE]
    ELSE [x EXCEPT !.last = t, !.locked = TRUE]

\* mutant: the reset keeps the revision
OpenedKeepingRevision(x, t) ==
  IF t - x.last >= Ttl
    THEN [x EXCEPT !.context = NoContext, !.recent = << >>, !.last = t, !.locked = TRUE]
    ELSE [x EXCEPT !.last = t, !.locked = TRUE]

\* Once the lock is held the clock is read again: a session that has expired by
\* then is reset in place.
Opened(x, t) ==
  IF t - x.last >= Ttl
    THEN [x EXCEPT !.context = NoContext, !.recent = << >>, !.revision = 0,
                   !.last = t, !.locked = TRUE]
    ELSE [x EXCEPT !.last = t, !.locked = TRUE]

\* The second reading of the clock in one uninterrupted stretch of code.
LaterReadings == {t \in {now, now + 1} : t <= MaxClock}

\* mutant: the request is not counted
JoinUncounted(r, s, e, found, objs) ==
  /\ key' = [key EXCEPT ![r] = s]
  /\ held' = [held EXCEPT ![r] = e]
  /\ LockFree(found)
  /\ \E t \in LaterReadings :
       /\ now' = t
       /\ entry' = [objs EXCEPT ![e] = Opened(found, t)]
  /\ phase' = [phase EXCEPT ![r] = "body"]
  /\ UNCHANGED view

\* mutant: the lock is not asked for
JoinUnlocked(r, s, e, found, objs) ==
  /\ key' = [key EXCEPT ![r] = s]
  /\ held' = [held EXCEPT ![r] = e]
  /\ \E t \in LaterReadings :
       /\ now' = t
       /\ entry' = [objs EXCEPT ![e] = Opened([found EXCEPT !.users = @ + 1], t)]
  /\ phase' = [phase EXCEPT ![r] = "body"]
  /\ UNCHANGED view

\* The request counts itself as a user of the entry, whose record is found,
\* then asks for the lock.
Join(r, s, e, found, objs) ==
  LET x == [found EXCEPT !.users = @ + 1] IN
  /\ key' = [key EXCEPT ![r] = s]
  /\ held' = [held EXCEPT ![r] = e]
  /\ \/ /\ LockFree(x)
        /\ \E t \in LaterReadings :
             /\ now' = t
             /\ entry' = [objs EXCEPT ![e] = Opened(x, t)]
        /\ phase' = [phase EXCEPT ![r] = "body"]
     \/ /\ ~LockFree(x)
        /\ entry' = [objs EXCEPT ![e] = [x EXCEPT !.waiters = Append(@, r)]]
        /\ phase' = [phase EXCEPT ![r] = "queued"]
        /\ UNCHANGED now
  /\ UNCHANGED view

Enter(r, s) ==
  LET purged == Purged(now) IN
  /\ phase[r] = "idle"
  /\ \/ /\ purged[s] # NoEntry
        /\ table' = purged
        /\ Join(r, s, purged[s], entry[purged[s]], Objects(purged))
     \/ /\ purged[s] = NoEntry
        /\ \E room \in RoomFor(purged) :
             /\ Entries \ Reachable(room) # {}
             /\ table' = [room EXCEPT ![s] = Fresh(room)]
             /\ Join(r, s, Fresh(room), NewEntry(now), Objects(room))

\* The store is full of sessions in use: SessionStoreError, after the purge.
Refuse(r, s) ==
  LET purged == Purged(now) IN
  /\ phase[r] = "idle"
  /\ purged[s] = NoEntry
  /\ RoomFor(purged) = {}
  /\ table' = purged
  /\ entry' = Objects(purged)
  /\ UNCHANGED <<now, phase, key, held, view>>

\* The woken waiter runs: it leaves the queue and takes the lock.
Resume(r) ==
  LET x == Opened(entry[held[r]], now) IN
  /\ phase[r] = "woken"
  /\ entry' = [entry EXCEPT ![held[r]] =
                 [x EXCEPT !.waiters = Without(x.waiters, r)]]
  /\ phase' = [phase EXCEPT ![r] = "body"]
  /\ UNCHANGED <<now, table, key, held, view>>

\* mutant: a cancelled waiter keeps the wake-up to itself
CancelSilently(r) ==
  LET e == held[r] IN
  /\ phase[r] \in {"queued", "woken"}
  /\ entry' = [entry EXCEPT ![e].waiters = Without(@, r), ![e].users = @ - 1]
  /\ phase' = [phase EXCEPT ![r] = "idle"]
  /\ key' = [key EXCEPT ![r] = NoEntry]
  /\ held' = [held EXCEPT ![r] = NoEntry]
  /\ UNCHANGED <<now, table, view>>

\* A waiter is cancelled: it leaves the queue and, if the lock is free, passes
\* the wake-up on.
Cancel(r) ==
  LET e == held[r]
      rest == Without(entry[e].waiters, r)
      gone == [phase EXCEPT ![r] = "idle"] IN
  /\ phase[r] \in {"queued", "woken"}
  /\ entry' = [entry EXCEPT ![e].waiters = rest, ![e].users = @ - 1]
  /\ phase' = IF entry[e].locked THEN gone ELSE WakeFirst(rest, gone)
  /\ key' = [key EXCEPT ![r] = NoEntry]
  /\ held' = [held EXCEPT ![r] = NoEntry]
  /\ UNCHANGED <<now, table, view>>

\* mutant: the lock is released without waking anybody
LeaveSilently(r) ==
  LET e == held[r] IN
  /\ phase[r] = "body"
  /\ entry' = [entry EXCEPT ![e].last = now, ![e].locked = FALSE, ![e].users = @ - 1]
  /\ phase' = [phase EXCEPT ![r] = "idle"]
  /\ key' = [key EXCEPT ![r] = NoEntry]
  /\ held' = [held EXCEPT ![r] = NoEntry]
  /\ view' = [view EXCEPT ![r] = NoView]
  /\ UNCHANGED <<now, table>>

\* The body ends, normally, by an exception or by cancellation.
Leave(r) ==
  LET e == held[r] IN
  /\ phase[r] = "body"
  /\ entry' = [entry EXCEPT ![e].last = now, ![e].locked = FALSE, ![e].users = @ - 1]
  /\ phase' = WakeFirst(entry[e].waiters, [phase EXCEPT ![r] = "idle"])
  /\ key' = [key EXCEPT ![r] = NoEntry]
  /\ held' = [held EXCEPT ![r] = NoEntry]
  /\ view' = [view EXCEPT ![r] = NoView]
  /\ UNCHANGED <<now, table>>

-----------------------------------------------------------------------------
(* What a request does to its session between entering and leaving *)

\* A method called by id purges, then finds the session's entry in the table.
\* It is there, since its own request keeps it there (EntryPinned), so the
\* branches for an absent session are not taken.
EntryOf(r) == Purged(now)[key[r]]

\* The method leaves the entry as x, accessed now, and answers from it.
Touch(r, x) ==
  /\ phase[r] = "body"
  /\ EntryOf(r) # NoEntry
  /\ table' = Purged(now)
  /\ entry' = [Objects(Purged(now)) EXCEPT ![EntryOf(r)] = [x EXCEPT !.last = now]]
  /\ view' = [view EXCEPT ![r] = <<x.revision, x.context>>]
  /\ UNCHANGED <<now, phase, key, held>>

\* get, state, revision, conversation_context
Read(r) == Touch(r, entry[EntryOf(r)])

\* put
Put(r, c) == Touch(r, [entry[EntryOf(r)] EXCEPT !.context = c])

\* The last MaxRecent items.
Newest(q) ==
  IF Len(q) > MaxRecent THEN SubSeq(q, Len(q) - MaxRecent + 1, Len(q)) ELSE q

Appended(x) ==
  [x EXCEPT !.recent = Newest(Append(@, x.revision + 1)), !.revision = @ + 1]

\* append_exchange with an exchange the store accepts; with one it refuses the
\* entry is left as it was, its last access included, but the purge has run.
AppendExchange(r) ==
  /\ Touch(r, Appended(entry[EntryOf(r)]))
  /\ entry[EntryOf(r)].revision < MaxRevision

RefuseExchange(r) ==
  /\ phase[r] = "body"
  /\ table' = Purged(now)
  /\ entry' = Objects(Purged(now))
  /\ UNCHANGED <<now, phase, key, held, view>>

-----------------------------------------------------------------------------
Tick ==
  /\ now < MaxClock
  /\ now' = now + 1
  /\ UNCHANGED <<table, entry, phase, key, held, view>>

Init ==
  /\ now = 0
  /\ table = [s \in Sessions |-> NoEntry]
  /\ entry = [e \in Entries |-> Blank]
  /\ phase = [r \in Requests |-> "idle"]
  /\ key = [r \in Requests |-> NoEntry]
  /\ held = [r \in Requests |-> NoEntry]
  /\ view = [r \in Requests |-> NoView]

Step(r) ==
  \/ \E s \in Sessions : Enter(r, s) \/ Refuse(r, s)
  \/ Resume(r)
  \/ Cancel(r)
  \/ Read(r)
  \/ \E c \in Contexts : Put(r, c)
  \/ AppendExchange(r)
  \/ RefuseExchange(r)
  \/ Leave(r)

Next == Tick \/ \E r \in Requests : Step(r)

Spec == Init /\ [][Next]_vars

-----------------------------------------------------------------------------
(* Properties *)

InBody(r) == phase[r] = "body"

\* A request that is inside `serialized`, waiting or running, refers to the very
\* entry the table holds for its session id: purging and eviction never pull a
\* session from under it, whatever else the store is asked meanwhile.
EntryPinned ==
  \A r \in Requests :
    phase[r] # "idle" => held[r] # NoEntry /\ table[key[r]] = held[r]

\* Two requests are never inside the body for the same session id.
MutualExclusion ==
  \A r, q \in Requests : InBody(r) /\ InBody(q) /\ key[r] = key[q] => r = q

\* What a request last read from its session (or left there) is still what the
\* session holds, until the request itself changes it or leaves: the revision
\* and context the chat service reads before its awaits are not stale after.
ViewCurrent ==
  \A r \in Requests :
    InBody(r) /\ view[r] # NoView =>
      LET x == entry[table[key[r]]] IN view[r] = <<x.revision, x.context>>

\* The store never holds more than MaxSessions sessions.
Bounded == Cardinality(Present(table)) <= MaxSessions

\* The exchanges kept are exactly the newest ones, at most MaxRecent, numbered
\* consecutively up to the session's revision: none is skipped, kept across a
\* reset, or recorded twice.
RecentIsNewest ==
  \A s \in Present(table) :
    LET x == entry[table[s]]
        n == Len(x.recent) IN
    /\ n = IF x.revision < MaxRecent THEN x.revision ELSE MaxRecent
    /\ \A i \in 1..n : x.recent[i] = x.revision - n + i

\* A session is forgotten only when no request uses it, and then only because
\* it expired or because a new session needed room in a full store, in which
\* case no idle session that stays was accessed before it.
ForCause ==
  \A s \in Sessions :
    table[s] # NoEntry /\ table'[s] # table[s] =>
      /\ \A r \in Requests : held[r] # table[s]
      /\ \/ now - entry[table[s]].last >= Ttl
         \/ /\ Cardinality(Present(table) \ Expired(now)) = MaxSessions
            /\ \A u \in Sessions :
                 table'[u] = table[u] /\ u \in Candidates(table) =>
                   entry[table[s]].last <= entry[table[u]].last

ForgottenForCause == [][ForCause]_vars

\* Nobody waits for a session that nobody uses: whenever a request is queued,
\* another one is in the body of the same entry or has been woken to take its
\* lock, so a cancelled or finished request never keeps a wake-up to itself.
NoWakeUpLost ==
  \A r \in Requests :
    phase[r] = "queued" =>
      \E q \in Requests : held[q] = held[r] /\ phase[q] \in {"woken", "body"}

-----------------------------------------------------------------------------
(* The store implements Conversation *)

\* The request in the body owns its session; a session with no entry is one
\* that has been forgotten.
Owner ==
  [s \in Sessions |->
     IF \E r \in Requests : InBody(r) /\ key[r] = s
       THEN CHOOSE r \in Requests : InBody(r) /\ key[r] = s
       ELSE NoEntry]

Memory ==
  [s \in Sessions |->
     IF table[s] = NoEntry
       THEN [context |-> NoContext, revision |-> 0]
       ELSE [context  |-> entry[table[s]].context,
             revision |-> entry[table[s]].revision]]

Promise == INSTANCE Conversation
             WITH Nobody <- NoEntry, owner <- Owner, memory <- Memory

\* Seen through Owner and Memory, every step of the store is a step of the
\* abstract conversation store or changes nothing there.
KeepsPromise == Promise!Spec

=============================================================================
