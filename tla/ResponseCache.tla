---------------------------- MODULE ResponseCache ----------------------------
(***************************************************************************)
(* The bounded cache of answers: ResponseCache in                          *)
(* src/app/services/response_cache.py, when it is enabled.                 *)
(*                                                                         *)
(* A key stands for the session, the normalized question and the revision  *)
(* the session had after the answer; the snapshot, model and checkpoint of *)
(* the code's key are fixed for a process and a session.  No method awaits,*)
(* so each is one step.                                                    *)
(***************************************************************************)
EXTENDS Integers, FiniteSets

CONSTANTS
  Keys,          \* cache keys
  SessionOf,     \* the session of each key
  Rank,          \* the order of keys that breaks ties in eviction
  Answers,       \* what may be cached
  NoItem,        \* an absent key
  Nothing,       \* a lookup that missed, or no lookup
  CacheTtl,      \* ttl_seconds, in clock ticks
  MaxItems,      \* max_entries
  MaxPerSession, \* max_entries_per_session
  MaxClock       \* bound on the clock

ASSUME CacheAssumption ==
  /\ IsFiniteSet(Keys)
  /\ CacheTtl \in Nat \ {0} /\ MaxClock \in Nat
  /\ MaxPerSession \in Nat \ {0} /\ MaxItems \in Nat /\ MaxPerSession <= MaxItems
  /\ Rank \in [Keys -> Int]
  /\ \A k, l \in Keys : Rank[k] = Rank[l] => k = l
  /\ NoItem \notin [answer : Answers, created : Nat, last : Nat]
  /\ Nothing \notin Answers \X Nat

VARIABLES
  now,    \* the monotonic clock
  items,  \* _entries
  found,  \* what the last call to get returned, with its key, or Nothing
  latest  \* history: the last answer put under each key, and when

vars == <<now, items, found, latest>>

Item == [answer : Answers, created : Nat, last : Nat]

Stored(map) == {k \in Keys : map[k] # NoItem}

TypeOK ==
  /\ now \in 0..MaxClock
  /\ items \in [Keys -> Item \cup {NoItem}]
  /\ \A k \in Stored(items) : items[k].created <= items[k].last /\ items[k].last <= now
  /\ found \in (Keys \X Answers) \cup {Nothing}
  /\ latest \in [Keys -> (Answers \X Nat) \cup {Nothing}]

-----------------------------------------------------------------------------
(* The map *)

\* mutant: reading an answer keeps it young
StaleUnread(k) == items[k] # NoItem /\ now - items[k].last >= CacheTtl

\* _purge_expired: by age, whatever the last access.
Stale(k) == items[k] # NoItem /\ now - items[k].created >= CacheTtl

\* The map without the keys of K.
Without(map, K) == [k \in Keys |-> IF k \in K THEN NoItem ELSE map[k]]

Purged == Without(items, {k \in Keys : Stale(k)})

\* _evict_oldest(keys): the least recently used.
Oldest(map, K) ==
  {k \in K : \A l \in K : \/ map[k].last < map[l].last
                          \/ map[k].last = map[l].last /\ Rank[k] <= Rank[l]}

Crowd(map, k) == {l \in Stored(map) : SessionOf[l] = SessionOf[k]}

\* mutant: off by one
TrimmedLate(map, K, limit) ==
  IF Cardinality(K) > limit THEN Without(map, Oldest(map, K)) ELSE map

Trimmed(map, K, limit) ==
  IF Cardinality(K) >= limit THEN Without(map, Oldest(map, K)) ELSE map

\* mutant: a key's own entry counts against it
AdmittedBeside(k) ==
  LET mine == Trimmed(Purged, Crowd(Purged, k), MaxPerSession)
  IN  Trimmed(mine, Stored(mine), MaxItems)

\* put: the key's own entry goes first, then one more of its session if that
\* has its share, then one more of any session if the cache is full.
Admitted(k) ==
  LET own  == Without(Purged, {k})
      mine == Trimmed(own, Crowd(own, k), MaxPerSession)
  IN  Trimmed(mine, Stored(mine), MaxItems)

-----------------------------------------------------------------------------
(* The operations *)

\* A hit is accessed now; it keeps its age.
Touched(k) ==
  [l \in Keys |-> IF l = k /\ Purged[l] # NoItem THEN [Purged[l] EXCEPT !.last = now]
                                                 ELSE Purged[l]]

Get(k) ==
  /\ items' = Touched(k)
  /\ found' = IF Purged[k] = NoItem THEN Nothing ELSE <<k, Purged[k].answer>>
  /\ UNCHANGED <<now, latest>>

Placed(k, a) ==
  [l \in Keys |-> IF l = k THEN [answer |-> a, created |-> now, last |-> now]
                           ELSE Admitted(k)[l]]

Put(k, a) ==
  /\ items' = Placed(k, a)
  /\ found' = Nothing
  /\ latest' = [latest EXCEPT ![k] = <<a, now>>]
  /\ UNCHANGED now

\* size
Size ==
  /\ items' = Purged
  /\ found' = Nothing
  /\ UNCHANGED <<now, latest>>

Tick ==
  /\ now < MaxClock
  /\ now' = now + 1
  /\ found' = Nothing
  /\ UNCHANGED <<items, latest>>

Init ==
  /\ now = 0
  /\ items = [k \in Keys |-> NoItem]
  /\ found = Nothing
  /\ latest = [k \in Keys |-> Nothing]

Next ==
  \/ \E k \in Keys : Get(k)
  \/ \E k \in Keys, a \in Answers : Put(k, a)
  \/ Size
  \/ Tick

Spec == Init /\ [][Next]_vars

-----------------------------------------------------------------------------
(* Properties *)

\* What get returns is the answer last put under that very key, less than the
\* time to live ago, however often it was read since.
HitIsLatest ==
  found # Nothing =>
    /\ latest[found[1]] # Nothing
    /\ found[2] = latest[found[1]][1]
    /\ now - latest[found[1]][2] < CacheTtl

\* No session has more than its share, and the cache is never overfull.
CapsKept ==
  /\ Cardinality(Stored(items)) <= MaxItems
  /\ \A k \in Stored(items) : Cardinality(Crowd(items, k)) <= MaxPerSession

Dropped == {k \in Stored(items) : items'[k] = NoItem /\ ~Stale(k)}

\* An answer still fresh is dropped only by a put that found its own session's
\* share, or else the whole cache, used up: at most one answer goes, and no
\* answer it was chosen among had been used less recently.
ForCause ==
  LET live  == {l \in Stored(items) : ~Stale(l)}
      added == {l \in Keys : items'[l] # items[l] /\ items'[l] # NoItem} IN
  \A k \in Dropped :
    /\ Dropped = {k}
    /\ LET rivals == {l \in live \ added : SessionOf[l] = SessionOf[k]} IN
       \E p \in added :
         \/ /\ SessionOf[p] = SessionOf[k]
            /\ Cardinality(rivals) = MaxPerSession
            /\ \A l \in rivals : items[k].last <= items[l].last
         \/ /\ Cardinality(live \ added) = MaxItems
            /\ \A l \in live \ added : items[k].last <= items[l].last

DroppedForCause == [][ForCause]_vars

=============================================================================
