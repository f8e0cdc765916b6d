------------------------- MODULE SessionStoreProofs -------------------------
(***************************************************************************)
(* Proofs about SessionStore: its types, and that requests for one session *)
(* exclude each other and keep their entry; and, from the same invariant,  *)
(* what each step does to the memories of the sessions, and what follows   *)
(* for the views that requests have of them, for the exchanges kept, for   *)
(* the number of sessions, for the reasons sessions are forgotten, and for *)
(* the abstract conversation store, which the store implements.            *)
(***************************************************************************)
EXTENDS SessionStore, FiniteSetTheorems, TLAPS

-----------------------------------------------------------------------------
(* The inductive invariant *)

\* What is true of an entry x with identity e when the requests are in phases
\* ph and refer to the entries hd: it counts its users, its lock is held by the
\* one request in the body, and its queue holds exactly the waiting requests,
\* the first of them woken when the lock is free.
EntryOK(x, e, ph, hd) ==
  /\ x.users = Cardinality({r \in Requests : hd[r] = e})
  /\ x.locked <=> \E r \in Requests : hd[r] = e /\ ph[r] = "body"
  /\ \A r, q \in Requests :
       hd[r] = e /\ hd[q] = e /\ ph[r] = "body" /\ ph[q] = "body" => r = q
  /\ \A i \in 1..Len(x.waiters) :
       hd[x.waiters[i]] = e /\ ph[x.waiters[i]] \in {"queued", "woken"}
  /\ \A i, j \in 1..Len(x.waiters) : x.waiters[i] = x.waiters[j] => i = j
  /\ \A r \in Requests :
       hd[r] = e /\ ph[r] \in {"queued", "woken"}
         => \E i \in 1..Len(x.waiters) : x.waiters[i] = r
  /\ \A r \in Requests :
       hd[r] = e /\ ph[r] = "woken" => ~x.locked /\ x.waiters[1] = r
  /\ ~x.locked /\ Len(x.waiters) > 0 => ph[x.waiters[1]] = "woken"

\* A request inside `serialized` refers to the entry of its session.
RequestOK(r) ==
  /\ phase[r] = "idle" <=> held[r] = NoEntry
  /\ phase[r] # "idle" => key[r] \in Sessions /\ table[key[r]] = held[r]

\* No two sessions share an entry.
OneSessionEach ==
  \A s, u \in Sessions : table[s] # NoEntry /\ table[s] = table[u] => s = u

IInv ==
  /\ TypeOK
  /\ OneSessionEach
  /\ \A r \in Requests : RequestOK(r)
  /\ \A e \in Entries : EntryOK(entry[e], e, phase, held)

-----------------------------------------------------------------------------
(* Entries and tables *)

\* An entry stays right when the requests that refer to it stay the same and
\* keep their phases, whatever the others do.
LEMMA UnaffectedEntry ==
  ASSUME NEW x \in EntryRecord, NEW e,
         NEW ph, NEW hd, NEW ph2, NEW hd2,
         EntryOK(x, e, ph, hd),
         \A r \in Requests : hd2[r] = e <=> hd[r] = e,
         \A r \in Requests : hd[r] = e => ph2[r] = ph[r]
  PROVE  EntryOK(x, e, ph2, hd2)
<1>1. \A i \in 1..Len(x.waiters) : x.waiters[i] \in Requests
  BY DEF EntryRecord
<1>2. {r \in Requests : hd2[r] = e} = {r \in Requests : hd[r] = e}
  OBVIOUS
<1>3. x.users = Cardinality({r \in Requests : hd2[r] = e})
  BY <1>2 DEF EntryOK
<1>4. Len(x.waiters) \in Nat
  BY DEF EntryRecord
<1>5. x.locked <=> \E r \in Requests : hd2[r] = e /\ ph2[r] = "body"
  BY DEF EntryOK
<1>6. \A r, q \in Requests :
        hd2[r] = e /\ hd2[q] = e /\ ph2[r] = "body" /\ ph2[q] = "body" => r = q
  BY DEF EntryOK
<1>7. \A i \in 1..Len(x.waiters) :
        hd2[x.waiters[i]] = e /\ ph2[x.waiters[i]] \in {"queued", "woken"}
  BY <1>1 DEF EntryOK
<1>8. \A r \in Requests :
        hd2[r] = e /\ ph2[r] \in {"queued", "woken"}
          => \E i \in 1..Len(x.waiters) : x.waiters[i] = r
  BY DEF EntryOK
<1>9. \A r \in Requests :
        hd2[r] = e /\ ph2[r] = "woken" => ~x.locked /\ x.waiters[1] = r
  BY DEF EntryOK
<1>10. ~x.locked /\ Len(x.waiters) > 0 => ph2[x.waiters[1]] = "woken"
  BY <1>1, <1>4 DEF EntryOK
<1> QED
  BY <1>3, <1>5, <1>6, <1>7, <1>8, <1>9, <1>10 DEF EntryOK

\* A new entry is right as long as no request refers to it.
LEMMA NewEntryOK ==
  ASSUME NEW t \in Nat, NEW e, NEW ph, NEW hd,
         \A r \in Requests : hd[r] # e
  PROVE  NewEntry(t) \in EntryRecord /\ EntryOK(NewEntry(t), e, ph, hd)
<1>1. {r \in Requests : hd[r] = e} = {}
  OBVIOUS
<1>2. Cardinality({r \in Requests : hd[r] = e}) = 0
  BY <1>1, FS_EmptySet
<1>3. NewEntry(t) \in EntryRecord
  BY DEF NewEntry, EntryRecord, Context
<1>4. NewEntry(t).waiters = << >> /\ NewEntry(t).users = 0 /\ ~NewEntry(t).locked
  BY DEF NewEntry
<1> QED
  BY <1>2, <1>3, <1>4 DEF EntryOK

\* A table from which sessions that no request refers to have been deleted.
Thinned(tab) ==
  /\ tab \in [Sessions -> Entries \cup {NoEntry}]
  /\ \A s \in Sessions :
       \/ tab[s] = table[s]
       \/ tab[s] = NoEntry /\ \A r \in Requests : held[r] # table[s]

\* An entry in the table that has no users is referred to by no request.
LEMMA IdleIsFree ==
  ASSUME IInv, NEW e \in Entries, IsIdle(e)
  PROVE  \A r \in Requests : held[r] # e
<1>1. Cardinality({r \in Requests : held[r] = e}) = 0
  BY DEF IInv, EntryOK, IsIdle
<1>2. IsFiniteSet({r \in Requests : held[r] = e})
  BY RequestsAssumption, FS_Subset
<1>3. {r \in Requests : held[r] = e} = {}
  BY <1>1, <1>2, FS_EmptySet
<1> QED
  BY <1>3

LEMMA PurgedThinned ==
  ASSUME IInv, NEW t
  PROVE  Thinned(Purged(t))
<1>1. Purged(t) \in [Sessions -> Entries \cup {NoEntry}]
  BY DEF Purged, IInv, TypeOK
<1>2. ASSUME NEW s \in Sessions
      PROVE  \/ Purged(t)[s] = table[s]
             \/ Purged(t)[s] = NoEntry /\ \A r \in Requests : held[r] # table[s]
  <2>1. CASE s \in Expired(t)
    <3>1. table[s] \in Entries /\ IsIdle(table[s])
      BY <2>1 DEF Expired, Present, IInv, TypeOK
    <3> QED
      BY <2>1, <3>1, IdleIsFree DEF Purged
  <2>2. CASE s \notin Expired(t)
    BY <2>2 DEF Purged
  <2> QED
    BY <2>1, <2>2
<1> QED
  BY <1>1, <1>2 DEF Thinned

LEMMA RoomThinned ==
  ASSUME IInv, NEW tab, Thinned(tab), NEW room \in RoomFor(tab)
  PROVE  Thinned(room)
<1>1. CASE ~Full(tab)
  BY <1>1 DEF RoomFor
<1>2. CASE Full(tab)
  <2>1. PICK v \in Sessions : IsVictim(tab, v) /\ room = [tab EXCEPT ![v] = NoEntry]
    BY <1>2 DEF RoomFor
  <2>2. tab[v] = table[v] /\ tab[v] \in Entries /\ IsIdle(tab[v])
    BY <2>1 DEF IsVictim, Candidates, Present, Thinned
  <2>3. \A r \in Requests : held[r] # table[v]
    BY <2>2, IdleIsFree
  <2> QED
    BY <2>1, <2>3 DEF Thinned
<1> QED
  BY <1>1, <1>2

\* What deleting such sessions leaves: sessions still have entries of their
\* own, requests still find theirs, and every reachable object is as it was.
LEMMA ThinnedKeeps ==
  ASSUME IInv, NEW tab, Thinned(tab)
  PROVE  /\ \A s, u \in Sessions : tab[s] # NoEntry /\ tab[s] = tab[u] => s = u
         /\ \A r \in Requests : phase[r] # "idle" => tab[key[r]] = held[r]
         /\ Objects(tab) \in [Entries -> EntryRecord]
         /\ \A e \in Entries : e \in Reachable(tab) => Objects(tab)[e] = entry[e]
         /\ \A e \in Entries : EntryOK(Objects(tab)[e], e, phase, held)
<1>1. \A s, u \in Sessions : tab[s] # NoEntry /\ tab[s] = tab[u] => s = u
  BY DEF Thinned, IInv, OneSessionEach
<1>2. \A r \in Requests : phase[r] # "idle" => tab[key[r]] = held[r]
  BY DEF Thinned, IInv, RequestOK
<1>3. Blank \in EntryRecord
  BY DEF Blank, NewEntry, EntryRecord, Context
<1>4. Objects(tab) \in [Entries -> EntryRecord]
  BY <1>3 DEF Objects, IInv, TypeOK
<1>5. \A e \in Entries : e \in Reachable(tab) => Objects(tab)[e] = entry[e]
  BY DEF Objects
<1>6. ASSUME NEW e \in Entries
      PROVE  EntryOK(Objects(tab)[e], e, phase, held)
  <2>1. CASE e \in Reachable(tab)
    BY <2>1, <1>5 DEF IInv
  <2>2. CASE e \notin Reachable(tab)
    <3>1. \A r \in Requests : held[r] # e
      BY <2>2 DEF Reachable
    <3>2. EntryOK(Blank, e, phase, held)
      BY <3>1, NewEntryOK DEF Blank
    <3> QED
      BY <2>2, <3>2 DEF Objects
  <2> QED
    BY <2>1, <2>2
<1> QED
  BY <1>1, <1>2, <1>4, <1>5, <1>6

-----------------------------------------------------------------------------
(* Entering *)

\* Opening a session keeps its users and queue and takes its lock.
LEMMA OpenedEntry ==
  ASSUME NEW x \in EntryRecord, NEW t \in Nat
  PROVE  /\ Opened(x, t) \in EntryRecord
         /\ Opened(x, t).users = x.users
         /\ Opened(x, t).waiters = x.waiters
         /\ Opened(x, t).locked
<1>1. CASE t - x.last >= Ttl
  <2>1. Opened(x, t) = [x EXCEPT !.context = NoContext, !.recent = << >>,
                                 !.revision = 0, !.last = t, !.locked = TRUE]
    BY <1>1 DEF Opened
  <2>2. << >> \in Seq(Nat) /\ NoContext \in Context
    BY DEF Context
  <2>3. Opened(x, t) =
          [context |-> NoContext, recent |-> << >>, revision |-> 0, last |-> t,
           users |-> x.users, locked |-> TRUE, waiters |-> x.waiters]
    BY <2>1 DEF EntryRecord
  <2> QED
    BY <2>2, <2>3 DEF EntryRecord
<1>2. CASE ~(t - x.last >= Ttl)
  <2>1. Opened(x, t) = [x EXCEPT !.last = t, !.locked = TRUE]
    BY <1>2 DEF Opened
  <2> QED
    BY <2>1 DEF EntryRecord
<1> QED
  BY <1>1, <1>2

\* One request more, or one fewer, in a set of requests.
LEMMA OneMore ==
  ASSUME NEW S \in SUBSET Requests, NEW r \in Requests \ S
  PROVE  Cardinality(S \cup {r}) = Cardinality(S) + 1
BY RequestsAssumption, FS_Subset, FS_AddElement

LEMMA OneLess ==
  ASSUME NEW S \in SUBSET Requests, NEW r \in S
  PROVE  Cardinality(S \ {r}) = Cardinality(S) - 1
BY RequestsAssumption, FS_Subset, FS_RemoveElement

\* A request that refers to an entry is one of its users.
LEMMA UserCounted ==
  ASSUME IInv, NEW r \in Requests, held[r] \in Entries
  PROVE  entry[held[r]].users - 1 \in Nat
<1> DEFINE S == {q \in Requests : held[q] = held[r]}
<1>1. entry[held[r]].users = Cardinality(S)
  BY DEF IInv, EntryOK
<1>2. S \ {r} \in SUBSET Requests /\ Cardinality(S \ {r}) \in Nat
  BY RequestsAssumption, FS_Subset, FS_CardinalityType
<1>3. Cardinality(S \ {r}) = Cardinality(S) - 1
  BY OneLess
<1> QED
  BY <1>1, <1>2, <1>3

\* Another count of users leaves the rest of an entry as it was.
LEMMA UsersChanged ==
  ASSUME NEW x \in EntryRecord, NEW n \in Nat,
         NEW y, y = [x EXCEPT !.users = n]
  PROVE  /\ y \in EntryRecord
         /\ y.users = n /\ y.waiters = x.waiters /\ y.locked = x.locked
BY DEF EntryRecord

\* An idle request that joins the users of e finds the lock free and takes it,
\* or queues behind it.
Joined(x, y, e, r, ph, hd, ph2, hd2) ==
  /\ EntryOK(x, e, ph, hd)
  /\ hd[r] = NoEntry
  /\ ph[r] = "idle"
  /\ y.users = x.users + 1
  /\ hd2 = [hd EXCEPT ![r] = e]
  /\ \/ /\ LockFree(x)
        /\ y.locked /\ y.waiters = x.waiters
        /\ ph2 = [ph EXCEPT ![r] = "body"]
     \/ /\ ~LockFree(x)
        /\ y.locked = x.locked /\ y.waiters = Append(x.waiters, r)
        /\ ph2 = [ph EXCEPT ![r] = "queued"]

LEMMA JoinEntry ==
  ASSUME NEW x \in EntryRecord, NEW y \in EntryRecord, NEW e \in Entries,
         NEW r \in Requests,
         NEW ph \in [Requests -> Phases],
         NEW hd \in [Requests -> Entries \cup {NoEntry}],
         NEW ph2, NEW hd2,
         Joined(x, y, e, r, ph, hd, ph2, hd2)
  PROVE  EntryOK(y, e, ph2, hd2)
<1> USE DEF Joined
<1>1. hd[r] # e
  BY EntriesAssumption
<1>2. y.users = Cardinality({q \in Requests : hd2[q] = e})
  <2>1. x.users = Cardinality({q \in Requests : hd[q] = e})
    BY DEF EntryOK
  <2>2. Cardinality({q \in Requests : hd2[q] = e})
          = Cardinality({q \in Requests : hd[q] = e}) + 1
    <3> DEFINE S == {q \in Requests : hd[q] = e}
    <3>1. {q \in Requests : hd2[q] = e} = S \cup {r}
      OBVIOUS
    <3>2. S \in SUBSET Requests /\ r \in Requests \ S
      BY <1>1
    <3> QED
      BY <3>1, <3>2, OneMore
  <2> QED
    BY <2>1, <2>2
<1>3. x.waiters \in Seq(Requests) /\ Len(x.waiters) \in Nat
  BY DEF EntryRecord
<1>4. \A q \in Requests \ {r} : hd2[q] = hd[q] /\ ph2[q] = ph[q]
  OBVIOUS
<1>5. hd2[r] = e
  OBVIOUS
<1>6. CASE LockFree(x)
  <2>1. Len(x.waiters) = 0 /\ ~x.locked
    BY <1>6 DEF LockFree
  <2>2. ph2[r] = "body" /\ y.locked /\ Len(y.waiters) = 0
    BY <1>6, <2>1
  <2>3. \A q \in Requests : hd[q] = e => ph[q] # "body"
    BY <2>1 DEF EntryOK
  <2>4. \A q \in Requests : hd[q] = e => ph[q] \notin {"queued", "woken"}
    BY <2>1 DEF EntryOK
  <2>5. \A q \in Requests : hd2[q] = e /\ ph2[q] = "body" => q = r
    BY <1>4, <2>3
  <2>6. \A q \in Requests : hd2[q] = e => ph2[q] \notin {"queued", "woken"}
    BY <1>4, <2>2, <2>4
  <2>7. y.locked <=> \E q \in Requests : hd2[q] = e /\ ph2[q] = "body"
    BY <1>5, <2>2
  <2>8. \A p, q \in Requests :
          hd2[p] = e /\ hd2[q] = e /\ ph2[p] = "body" /\ ph2[q] = "body" => p = q
    BY <2>5
  <2>9. \A i \in 1..Len(y.waiters) : FALSE
    BY <2>2
  <2>10. ~(Len(y.waiters) > 0)
    BY <2>2
  <2> QED
    BY <1>2, <2>6, <2>7, <2>8, <2>9, <2>10 DEF EntryOK
<1>7. CASE ~LockFree(x)
  <2> DEFINE n == Len(x.waiters)
  <2>1. /\ ph2[r] = "queued" /\ y.locked = x.locked
        /\ Len(y.waiters) = n + 1 /\ y.waiters[n + 1] = r
        /\ \A i \in 1..n : y.waiters[i] = x.waiters[i]
    BY <1>3, <1>7
  <2>2. \A i \in 1..n : x.waiters[i] \in Requests /\ x.waiters[i] # r
    BY <1>1, <1>3, SMTT(20) DEF EntryOK
  <2>3. y.locked <=> \E q \in Requests : hd2[q] = e /\ ph2[q] = "body"
    BY <1>1, <1>4, <1>5, <2>1 DEF EntryOK
  <2>4. \A p, q \in Requests :
          hd2[p] = e /\ hd2[q] = e /\ ph2[p] = "body" /\ ph2[q] = "body" => p = q
    BY <1>4, <1>5, <2>1 DEF EntryOK
  <2>5. \A i \in 1..Len(y.waiters) :
          hd2[y.waiters[i]] = e /\ ph2[y.waiters[i]] \in {"queued", "woken"}
    BY <1>3, <1>4, <1>5, <2>1, <2>2, SMTT(20) DEF EntryOK
  <2>6. \A i, j \in 1..Len(y.waiters) : y.waiters[i] = y.waiters[j] => i = j
    <3>1. \A i, j \in 1..n : x.waiters[i] = x.waiters[j] => i = j
      BY DEF EntryOK
    <3>2. \A i \in 1..n : y.waiters[i] = x.waiters[i] /\ y.waiters[i] # r
      BY <2>1, <2>2
    <3>3. n \in Nat /\ Len(y.waiters) = n + 1 /\ y.waiters[n + 1] = r
      BY <1>3, <2>1
    <3> SUFFICES ASSUME NEW i \in 1..Len(y.waiters), NEW j \in 1..Len(y.waiters),
                        y.waiters[i] = y.waiters[j]
                 PROVE  i = j
      OBVIOUS
    <3> HIDE DEF n
    <3>4. CASE i = n + 1
      <4>1. j \notin 1..n
        BY <3>2, <3>3, <3>4
      <4> QED
        BY <3>3, <3>4, <4>1
    <3>5. CASE j = n + 1
      <4>1. i \notin 1..n
        BY <3>2, <3>3, <3>5
      <4> QED
        BY <3>3, <3>5, <4>1
    <3>6. CASE i # n + 1 /\ j # n + 1
      <4>1. i \in 1..n /\ j \in 1..n
        BY <3>3, <3>6
      <4>2. x.waiters[i] = x.waiters[j]
        BY <3>2, <4>1
      <4> QED
        BY <3>1, <4>1, <4>2
    <3> QED
      BY <3>4, <3>5, <3>6
  <2>7. \A q \in Requests :
          hd2[q] = e /\ ph2[q] \in {"queued", "woken"}
            => \E i \in 1..Len(y.waiters) : y.waiters[i] = q
    <3> SUFFICES ASSUME NEW q \in Requests, hd2[q] = e,
                        ph2[q] \in {"queued", "woken"}
                 PROVE  \E i \in 1..Len(y.waiters) : y.waiters[i] = q
      OBVIOUS
    <3>1. CASE q = r
      <4>1. n + 1 \in 1..Len(y.waiters)
        BY <1>3, <2>1
      <4>2. y.waiters[n + 1] = q
        BY <3>1, <2>1
      <4> QED
        BY <4>1, <4>2
    <3>2. CASE q # r
      <4>1. PICK i \in 1..n : x.waiters[i] = q
        BY <3>2, <1>4 DEF EntryOK
      <4> QED
        BY <4>1, <1>3, <2>1
    <3> QED
      BY <3>1, <3>2
  <2>8. \A q \in Requests :
          hd2[q] = e /\ ph2[q] = "woken" => ~y.locked /\ y.waiters[1] = q
    <3> SUFFICES ASSUME NEW q \in Requests, hd2[q] = e, ph2[q] = "woken"
                 PROVE  ~y.locked /\ y.waiters[1] = q
      OBVIOUS
    <3>1. q # r /\ hd[q] = e /\ ph[q] = "woken"
      BY <1>4, <2>1
    <3>2. ~x.locked /\ x.waiters[1] = q
      BY <3>1 DEF EntryOK
    <3>3. n > 0
      BY <3>1, <1>3 DEF EntryOK
    <3> QED
      BY <3>2, <3>3, <1>3, <2>1
  <2>9. ~y.locked /\ Len(y.waiters) > 0 => ph2[y.waiters[1]] = "woken"
    <3> SUFFICES ASSUME ~y.locked
                 PROVE  ph2[y.waiters[1]] = "woken"
      OBVIOUS
    <3>1. n > 0
      BY <1>3, <1>7, <2>1 DEF LockFree
    <3>2. ph[x.waiters[1]] = "woken"
      BY <3>1, <2>1 DEF EntryOK
    <3> QED
      BY <3>1, <3>2, <1>3, <1>4, <2>1, <2>2
  <2> QED
    BY <1>2, <2>3, <2>4, <2>5, <2>6, <2>7, <2>8, <2>9 DEF EntryOK
<1> QED
  BY <1>6, <1>7

\* A request that joins a session leaves the invariant true, given that the
\* table and the objects it finds are right.
LEMMA JoinKeeps ==
  ASSUME IInv, NEW r \in Requests, NEW s \in Sessions, phase[r] = "idle",
         NEW objs \in [Entries -> EntryRecord],
         \A e \in Entries : EntryOK(objs[e], e, phase, held),
         NEW e0 \in Entries, NEW found \in EntryRecord,
         EntryOK(found, e0, phase, held),
         table' \in [Sessions -> Entries \cup {NoEntry}],
         table'[s] = e0,
         \A u, v \in Sessions : table'[u] # NoEntry /\ table'[u] = table'[v] => u = v,
         \A q \in Requests : phase[q] # "idle" => table'[key[q]] = held[q],
         Join(r, s, e0, found, objs)
  PROVE  IInv'
<1> DEFINE x == [found EXCEPT !.users = @ + 1]
<1>1. held[r] = NoEntry
  BY DEF IInv, RequestOK
<1>2. /\ x \in EntryRecord /\ x.users = found.users + 1
      /\ x.waiters = found.waiters /\ x.locked = found.locked
  <2>1. found.users + 1 \in Nat
    BY DEF EntryRecord
  <2> QED
    BY <2>1, UsersChanged
<1>3. LockFree(x) <=> LockFree(found)
  BY <1>2 DEF LockFree
<1>4. /\ key' = [key EXCEPT ![r] = s]
      /\ held' = [held EXCEPT ![r] = e0]
      /\ view' = view
  BY DEF Join
<1>5. \E y \in EntryRecord, b \in {"body", "queued"} :
        /\ EntryOK(y, e0, phase', held')
        /\ entry' = [objs EXCEPT ![e0] = y]
        /\ phase' = [phase EXCEPT ![r] = b]
        /\ now' \in 0..MaxClock
  <2>1. CASE LockFree(x)
    <3>1. PICK t \in LaterReadings :
            /\ now' = t
            /\ entry' = [objs EXCEPT ![e0] = Opened(x, t)]
            /\ phase' = [phase EXCEPT ![r] = "body"]
      BY <2>1 DEF Join
    <3>2. t \in 0..MaxClock /\ t \in Nat
      BY LimitsAssumption DEF LaterReadings, IInv, TypeOK
    <3> HIDE DEF x
    <3>3. /\ Opened(x, t) \in EntryRecord
          /\ Opened(x, t).users = found.users + 1
          /\ Opened(x, t).waiters = found.waiters
          /\ Opened(x, t).locked
      <4>1. x \in EntryRecord /\ t \in Nat
        BY <1>2, <3>2
      <4>2. /\ Opened(x, t) \in EntryRecord
            /\ Opened(x, t).users = x.users
            /\ Opened(x, t).waiters = x.waiters
            /\ Opened(x, t).locked
        BY <4>1, OpenedEntry
      <4> QED
        BY <1>2, <4>2
    <3> DEFINE y == Opened(x, t)
    <3> HIDE DEF y
    <3>4. Joined(found, y, e0, r, phase, held, phase', held')
      BY <1>1, <1>3, <1>4, <2>1, <3>1, <3>3 DEF Joined, y
    <3>5. EntryOK(y, e0, phase', held')
      BY <3>3, <3>4, JoinEntry DEF IInv, TypeOK, y
    <3> QED
      BY <3>1, <3>2, <3>3, <3>5 DEF y
  <2>2. CASE ~LockFree(x)
    <3> DEFINE y == [x EXCEPT !.waiters = Append(@, r)]
    <3>1. /\ entry' = [objs EXCEPT ![e0] = y]
          /\ phase' = [phase EXCEPT ![r] = "queued"]
          /\ now' = now
      BY <2>2 DEF Join
    <3>2. Append(x.waiters, r) \in Seq(Requests)
      BY <1>2 DEF EntryRecord
    <3> HIDE DEF x
    <3>3. /\ y \in EntryRecord
          /\ y.users = found.users + 1
          /\ y.waiters = Append(found.waiters, r)
          /\ y.locked = found.locked
      <4>1. /\ y \in EntryRecord
            /\ y.users = x.users /\ y.waiters = Append(x.waiters, r)
            /\ y.locked = x.locked
        BY <1>2, <3>2 DEF EntryRecord
      <4> HIDE DEF y
      <4> QED
        BY <1>2, <4>1
    <3> HIDE DEF y
    <3>4. Joined(found, y, e0, r, phase, held, phase', held')
      BY <1>1, <1>3, <1>4, <2>2, <3>1, <3>3 DEF Joined
    <3>5. EntryOK(y, e0, phase', held')
      BY <3>3, <3>4, JoinEntry DEF IInv, TypeOK
    <3> QED
      BY <3>1, <3>3, <3>5 DEF IInv, TypeOK
  <2> QED
    BY <2>1, <2>2
<1>6. PICK y \in EntryRecord, b \in {"body", "queued"} :
        /\ EntryOK(y, e0, phase', held')
        /\ entry' = [objs EXCEPT ![e0] = y]
        /\ phase' = [phase EXCEPT ![r] = b]
        /\ now' \in 0..MaxClock
  BY <1>5
<1>7. TypeOK'
  BY <1>4, <1>6 DEF IInv, TypeOK, Phases
<1>8. OneSessionEach'
  BY DEF OneSessionEach
<1>9. \A q \in Requests : RequestOK(q)'
  BY <1>4, <1>6, EntriesAssumption DEF RequestOK, IInv, TypeOK
<1>10. \A e \in Entries \ {e0} : \A q \in Requests :
         /\ held'[q] = e <=> held[q] = e
         /\ held[q] = e => phase'[q] = phase[q]
  BY <1>1, <1>4, <1>6, EntriesAssumption DEF IInv, TypeOK
<1>11. ASSUME NEW e \in Entries
       PROVE  EntryOK(entry'[e], e, phase', held')
  <2>1. CASE e = e0
    BY <1>6, <2>1
  <2>2. CASE e # e0
    <3>1. entry'[e] = objs[e] /\ objs[e] \in EntryRecord
      BY <1>6, <2>2
    <3>2. EntryOK(objs[e], e, phase', held')
      BY <1>10, <2>2, <3>1, UnaffectedEntry
    <3> QED
      BY <3>1, <3>2
  <2> QED
    BY <2>1, <2>2
<1> QED
  BY <1>7, <1>8, <1>9, <1>11 DEF IInv, EntryOK

\* The entry an idle request may join is never one another request is using
\* under a different session, and a purged table stays well formed when the
\* new entry is stored in it.
LEMMA EnterKeeps ==
  ASSUME IInv, NEW r \in Requests, NEW s \in Sessions, Enter(r, s)
  PROVE  IInv'
<1> DEFINE purged == Purged(now)
<1>1. phase[r] = "idle"
  BY DEF Enter
<1>2. Thinned(purged)
  BY PurgedThinned
<1>3. CASE purged[s] # NoEntry
  <2> DEFINE e0 == purged[s]
  <2>1. table' = purged /\ Join(r, s, e0, entry[e0], Objects(purged))
    BY <1>3 DEF Enter
  <2>2. e0 \in Entries /\ entry[e0] \in EntryRecord /\ EntryOK(entry[e0], e0, phase, held)
    BY <1>2, <1>3 DEF Thinned, IInv, TypeOK
  <2>3. table' \in [Sessions -> Entries \cup {NoEntry}] /\ table'[s] = e0
    BY <1>2, <2>1 DEF Thinned
  <2>4. /\ \A u, v \in Sessions : table'[u] # NoEntry /\ table'[u] = table'[v] => u = v
        /\ \A q \in Requests : phase[q] # "idle" => table'[key[q]] = held[q]
        /\ Objects(purged) \in [Entries -> EntryRecord]
        /\ \A e \in Entries : EntryOK(Objects(purged)[e], e, phase, held)
    BY <1>2, <2>1, ThinnedKeeps
  <2> HIDE DEF purged, e0
  <2> QED
    BY <1>1, <2>1, <2>2, <2>3, <2>4, JoinKeeps
<1>4. CASE purged[s] = NoEntry
  <2>1. PICK room \in RoomFor(purged) :
          /\ Entries \ Reachable(room) # {}
          /\ table' = [room EXCEPT ![s] = Fresh(room)]
          /\ Join(r, s, Fresh(room), NewEntry(now), Objects(room))
    BY <1>4 DEF Enter
  <2>2. Thinned(room)
    BY <1>2, <2>1, RoomThinned
  <2> DEFINE e0 == Fresh(room)
  <2>3. e0 \in Entries \ Reachable(room)
    BY <2>1 DEF Fresh
  <2>4. /\ \A u \in Sessions : room[u] # e0
        /\ \A q \in Requests : held[q] # e0
    BY <2>3 DEF Reachable
  <2>5. NewEntry(now) \in EntryRecord /\ EntryOK(NewEntry(now), e0, phase, held)
    BY <2>4, NewEntryOK DEF IInv, TypeOK
  <2>6. room[s] = NoEntry
    <3>1. room = purged \/ \E v \in Sessions : room = [purged EXCEPT ![v] = NoEntry]
      BY <2>1 DEF RoomFor
    <3> QED
      BY <1>2, <1>4, <3>1 DEF Thinned
  <2>7. /\ \A u, v \in Sessions : room[u] # NoEntry /\ room[u] = room[v] => u = v
        /\ \A q \in Requests : phase[q] # "idle" => room[key[q]] = held[q]
        /\ Objects(room) \in [Entries -> EntryRecord]
        /\ \A e \in Entries : EntryOK(Objects(room)[e], e, phase, held)
    BY <2>2, ThinnedKeeps
  <2> HIDE DEF purged, e0
  <2>8. table' \in [Sessions -> Entries \cup {NoEntry}] /\ table'[s] = e0
    BY <2>1, <2>2, <2>3 DEF Thinned, e0
  <2>9. \A u, v \in Sessions : table'[u] # NoEntry /\ table'[u] = table'[v] => u = v
    BY <2>1, <2>2, <2>4, <2>7 DEF Thinned, e0
  <2>10. ASSUME NEW q \in Requests, phase[q] # "idle"
         PROVE  table'[key[q]] = held[q]
    <3>1. key[q] \in Sessions /\ room[key[q]] = held[q] /\ held[q] # NoEntry
      BY <2>7, <2>10 DEF IInv, RequestOK
    <3>2. key[q] # s
      BY <2>6, <3>1
    <3> QED
      BY <2>1, <2>2, <3>1, <3>2 DEF Thinned
  <2>11. Join(r, s, e0, NewEntry(now), Objects(room))
    BY <2>1 DEF e0
  <2> QED
    BY <1>1, <2>3, <2>5, <2>7, <2>8, <2>9, <2>10, <2>11, JoinKeeps
<1> QED
  BY <1>3, <1>4

-----------------------------------------------------------------------------
(* Waiting, being woken, being cancelled *)

\* Removing the request at position k moves the later ones up.
At(w, k, r) ==
  /\ k \in 1..Len(w)
  /\ w[k] = r
  /\ \A i, j \in 1..Len(w) : w[i] = w[j] => i = j

LEMMA WithoutIs ==
  ASSUME NEW w \in Seq(Requests), NEW k, NEW r, At(w, k, r)
  PROVE  /\ Without(w, r) \in Seq(Requests)
         /\ Len(Without(w, r)) = Len(w) - 1
         /\ \A j \in 1..(k - 1) : Without(w, r)[j] = w[j]
         /\ \A j \in k..(Len(w) - 1) : Without(w, r)[j] = w[j + 1]
<1> DEFINE i == CHOOSE j \in 1..Len(w) : w[j] = r
           a == SubSeq(w, 1, k - 1)
           b == SubSeq(w, k + 1, Len(w))
<1>1. i = k
  BY DEF At
<1>2. Without(w, r) = a \o b
  BY <1>1 DEF Without
<1>3. Len(w) \in Nat /\ k \in Nat /\ k >= 1 /\ k <= Len(w)
  BY DEF At
<1>4. a \in Seq(Requests) /\ Len(a) = k - 1 /\ \A j \in 1..(k - 1) : a[j] = w[j]
  BY <1>3
<1>5. b \in Seq(Requests) /\ Len(b) = Len(w) - k
      /\ \A j \in 1..(Len(w) - k) : b[j] = w[j + k]
  BY <1>3
<1> HIDE DEF a, b
<1>6. Without(w, r) \in Seq(Requests) /\ Len(Without(w, r)) = Len(w) - 1
  BY <1>2, <1>3, <1>4, <1>5
<1>7. \A j \in 1..(k - 1) : Without(w, r)[j] = w[j]
  BY <1>2, <1>3, <1>4, <1>5
<1>8. ASSUME NEW j \in k..(Len(w) - 1)
      PROVE  Without(w, r)[j] = w[j + 1]
  <2>1. j - (k - 1) \in 1..(Len(w) - k)
    BY <1>3
  <2>2. Without(w, r)[j] = b[j - (k - 1)]
    BY <1>2, <1>3, <1>4, <1>5
  <2> QED
    BY <1>3, <1>5, <2>1, <2>2
<1> QED
  BY <1>6, <1>7, <1>8

\* What follows describes how one request r of an entry moves on: x and y are
\* the entry before and after, n the new queue.
Resumed(x, y, e, r, ph, hd, ph2) ==
  /\ EntryOK(x, e, ph, hd)
  /\ hd[r] = e /\ ph[r] = "woken"
  /\ y.users = x.users /\ y.locked /\ y.waiters = Without(x.waiters, r)
  /\ ph2 = [ph EXCEPT ![r] = "body"]

LEMMA ResumedEntry ==
  ASSUME NEW x \in EntryRecord, NEW y \in EntryRecord, NEW e \in Entries,
         NEW r \in Requests, NEW ph \in [Requests -> Phases], NEW hd, NEW ph2,
         Resumed(x, y, e, r, ph, hd, ph2)
  PROVE  EntryOK(y, e, ph2, hd)
<1> DEFINE w == x.waiters
           v == y.waiters
<1>1. w \in Seq(Requests) /\ Len(w) \in Nat
  BY DEF EntryRecord
<1>2. ~x.locked /\ w[1] = r /\ \E i \in 1..Len(w) : w[i] = r
  BY DEF Resumed, EntryOK
<1>3. 1 \in 1..Len(w)
  BY <1>1, <1>2
<1>4. \A i, j \in 1..Len(w) : w[i] = w[j] => i = j
  BY DEF Resumed, EntryOK
<1>5. Len(v) = Len(w) - 1 /\ \A j \in 1..(Len(w) - 1) : v[j] = w[j + 1]
  <2>1. v = Without(w, r)
    BY DEF Resumed
  <2>2. At(w, 1, r)
    BY <1>2, <1>3, <1>4 DEF At
  <2> HIDE DEF w, v
  <2> QED
    BY <1>1, <2>1, <2>2, WithoutIs
<1>6. \A q \in Requests \ {r} : ph2[q] = ph[q]
  BY DEF Resumed
<1>7. ph2[r] = "body"
  BY DEF Resumed
<1>8. \A i \in 1..Len(v) : v[i] \in Requests \ {r}
  <2> SUFFICES ASSUME NEW i \in 1..Len(v) PROVE v[i] \in Requests \ {r}
    OBVIOUS
  <2>1. i \in 1..(Len(w) - 1) /\ i + 1 \in 1..Len(w) /\ i + 1 # 1
    BY <1>1, <1>5
  <2>2. v[i] = w[i + 1]
    BY <1>5, <2>1
  <2>3. w[i + 1] \in Requests
    BY <1>1, <2>1
  <2>4. w[i + 1] # w[1]
    BY <1>3, <1>4, <2>1
  <2> HIDE DEF w, v
  <2> QED
    BY <1>2, <2>2, <2>3, <2>4
<1>9. \A q \in Requests : hd[q] = e /\ ph2[q] = "body" => q = r
  BY <1>2, <1>6 DEF Resumed, EntryOK
<1>10. y.users = Cardinality({q \in Requests : hd[q] = e})
  BY DEF Resumed, EntryOK
<1>11. y.locked <=> \E q \in Requests : hd[q] = e /\ ph2[q] = "body"
  BY <1>7 DEF Resumed
<1>12. \A i \in 1..Len(v) : hd[v[i]] = e /\ ph2[v[i]] \in {"queued", "woken"}
  <2>1. \A i \in 1..Len(w) : hd[w[i]] = e /\ ph[w[i]] \in {"queued", "woken"}
    BY DEF Resumed, EntryOK
  <2> QED
    BY <2>1, <1>1, <1>5, <1>6, <1>8
<1>13. \A i, j \in 1..Len(v) : v[i] = v[j] => i = j
  BY <1>1, <1>4, <1>5
<1>14. ASSUME NEW q \in Requests, hd[q] = e, ph2[q] \in {"queued", "woken"}
       PROVE  \E i \in 1..Len(v) : v[i] = q
  <2>1. q # r /\ ph[q] \in {"queued", "woken"}
    BY <1>6, <1>7, <1>14
  <2>2. PICK i \in 1..Len(w) : w[i] = q
    BY <1>14, <2>1 DEF Resumed, EntryOK
  <2>3. i # 1 /\ i - 1 \in 1..Len(v) /\ v[i - 1] = q
    BY <1>1, <1>2, <1>5, <2>1, <2>2
  <2> QED
    BY <2>3
<1>15. \A q \in Requests : hd[q] = e => ph2[q] # "woken"
  BY <1>2, <1>6, <1>7 DEF Resumed, EntryOK
<1>16. \A p, q \in Requests :
         hd[p] = e /\ hd[q] = e /\ ph2[p] = "body" /\ ph2[q] = "body" => p = q
  BY <1>9
<1>17. y.locked
  BY DEF Resumed
<1> QED
  BY <1>10, <1>11, <1>12, <1>13, <1>14, <1>15, <1>16, <1>17 DEF EntryOK

\* Request r has left entry e, which is now y; the remaining requests are the
\* others, and the first of the queue has been woken if the lock is free.
Departed(y, e, r, ph, hd, ph2, hd2) ==
  /\ y.users = Cardinality({q \in Requests \ {r} : hd[q] = e})
  /\ y.locked <=> \E q \in Requests \ {r} : hd[q] = e /\ ph[q] = "body"
  /\ \A p, q \in Requests \ {r} :
       hd[p] = e /\ hd[q] = e /\ ph[p] = "body" /\ ph[q] = "body" => p = q
  /\ \A i \in 1..Len(y.waiters) :
       /\ y.waiters[i] \in Requests \ {r}
       /\ hd[y.waiters[i]] = e
       /\ ph[y.waiters[i]] \in {"queued", "woken"}
  /\ \A i, j \in 1..Len(y.waiters) : y.waiters[i] = y.waiters[j] => i = j
  /\ \A q \in Requests \ {r} :
       hd[q] = e /\ ph[q] \in {"queued", "woken"}
         => \E i \in 1..Len(y.waiters) : y.waiters[i] = q
  /\ \A q \in Requests \ {r} :
       hd[q] = e /\ ph[q] = "woken" => ~y.locked /\ y.waiters[1] = q
  /\ ph2 = IF y.locked THEN [ph EXCEPT ![r] = "idle"]
                       ELSE WakeFirst(y.waiters, [ph EXCEPT ![r] = "idle"])
  /\ hd2 = [hd EXCEPT ![r] = NoEntry]

LEMMA DepartedEntry ==
  ASSUME NEW y \in EntryRecord, NEW e \in Entries, NEW r \in Requests,
         NEW ph \in [Requests -> Phases],
         NEW hd \in [Requests -> Entries \cup {NoEntry}],
         NEW ph2, NEW hd2,
         Departed(y, e, r, ph, hd, ph2, hd2)
  PROVE  EntryOK(y, e, ph2, hd2)
<1> DEFINE v == y.waiters
<1>1. v \in Seq(Requests) /\ Len(v) \in Nat
  BY DEF EntryRecord
<1>2. hd2[r] # e /\ \A q \in Requests \ {r} : hd2[q] = hd[q]
  BY EntriesAssumption DEF Departed
<1>3. {q \in Requests : hd2[q] = e} = {q \in Requests \ {r} : hd[q] = e}
  BY <1>2
<1>4. y.users = Cardinality({q \in Requests : hd2[q] = e})
  BY <1>3 DEF Departed
<1> DEFINE O == {q \in Requests \ {r} : hd[q] = e}
<1>7. \A q \in Requests : hd2[q] = e <=> q \in O
  BY <1>2
<1>8. \A p, q \in O : ph[p] = "body" /\ ph[q] = "body" => p = q
  BY DEF Departed
<1>9. \A q \in O : ph[q] \in {"queued", "woken"} => \E i \in 1..Len(v) : v[i] = q
  BY DEF Departed
<1>10. \A q \in O : ph[q] = "woken" => ~y.locked /\ v[1] = q
  BY DEF Departed
<1>5. CASE y.locked \/ Len(v) = 0
  <2>1. ph2 = [ph EXCEPT ![r] = "idle"]
    BY <1>1, <1>5 DEF Departed, WakeFirst
  <2>2. \A q \in Requests \ {r} : ph2[q] = ph[q]
    BY <2>1
  <2>10. \A q \in O : ph2[q] = ph[q]
    BY <2>2
  <2>3. y.locked <=> \E q \in Requests : hd2[q] = e /\ ph2[q] = "body"
    BY <1>2, <2>2 DEF Departed
  <2>4. \A p, q \in Requests :
          hd2[p] = e /\ hd2[q] = e /\ ph2[p] = "body" /\ ph2[q] = "body" => p = q
    BY <1>7, <1>8, <2>10
  <2>5. \A i \in 1..Len(v) : hd2[v[i]] = e /\ ph2[v[i]] \in {"queued", "woken"}
    BY <1>2, <2>2 DEF Departed
  <2>6. \A i, j \in 1..Len(v) : v[i] = v[j] => i = j
    BY DEF Departed
  <2>7. \A q \in Requests :
          hd2[q] = e /\ ph2[q] \in {"queued", "woken"}
            => \E i \in 1..Len(v) : v[i] = q
    BY <1>7, <1>9, <2>10
  <2>8. \A q \in Requests :
          hd2[q] = e /\ ph2[q] = "woken" => ~y.locked /\ v[1] = q
    BY <1>7, <1>10, <2>10
  <2>9. ~(~y.locked /\ Len(v) > 0)
    BY <1>1, <1>5
  <2> QED
    BY <1>4, <2>3, <2>4, <2>5, <2>6, <2>7, <2>8, <2>9 DEF EntryOK
<1>6. CASE ~y.locked /\ Len(v) # 0
  <2> DEFINE h == v[1]
  <2>1. 1 \in 1..Len(v) /\ v # << >>
    BY <1>1, <1>6
  <2>2. h \in Requests \ {r} /\ hd[h] = e /\ ph[h] \in {"queued", "woken"}
    BY <2>1 DEF Departed
  <2>3. ph2 = [[ph EXCEPT ![r] = "idle"] EXCEPT ![h] = "woken"]
    BY <1>6, <2>1 DEF Departed, WakeFirst
  <2>4. ph2[h] = "woken" /\ \A q \in Requests \ {r, h} : ph2[q] = ph[q]
    BY <2>2, <2>3
  <2>5. \A q \in Requests \ {r} : hd[q] = e => ph[q] # "body"
    BY <1>6 DEF Departed
  <2>6. \A q \in Requests : hd2[q] = e => ph2[q] # "body"
    BY <1>2, <2>4, <2>5
  <2>7. \A i \in 1..Len(v) : hd2[v[i]] = e /\ ph2[v[i]] \in {"queued", "woken"}
    BY <1>2, <2>4 DEF Departed
  <2>8. \A i, j \in 1..Len(v) : v[i] = v[j] => i = j
    BY DEF Departed
  <2>9. \A q \in Requests :
          hd2[q] = e /\ ph2[q] \in {"queued", "woken"}
            => \E i \in 1..Len(v) : v[i] = q
    <3> SUFFICES ASSUME NEW q \in Requests, hd2[q] = e, ph2[q] \in {"queued", "woken"}
                 PROVE  \E i \in 1..Len(v) : v[i] = q
      OBVIOUS
    <3>1. CASE q = h
      BY <2>1, <3>1
    <3>2. CASE q # h
      BY <1>2, <2>4, <3>2 DEF Departed
    <3> QED
      BY <3>1, <3>2
  <2>10. \A q \in Requests :
          hd2[q] = e /\ ph2[q] = "woken" => v[1] = q
    BY <1>7, <1>10, <2>4
  <2>11. y.locked <=> \E q \in Requests : hd2[q] = e /\ ph2[q] = "body"
    BY <1>6, <2>6
  <2> QED
    BY <1>4, <1>6, <2>4, <2>6, <2>7, <2>8, <2>9, <2>10, <2>11 DEF EntryOK
<1> QED
  BY <1>1, <1>5, <1>6

\* Leaving the body: r was the one request with the lock.
LEMMA LeftEntry ==
  ASSUME NEW x \in EntryRecord, NEW y \in EntryRecord, NEW e \in Entries,
         NEW r \in Requests, NEW ph \in [Requests -> Phases],
         NEW hd \in [Requests -> Entries \cup {NoEntry}], NEW ph2, NEW hd2,
         EntryOK(x, e, ph, hd), hd[r] = e, ph[r] = "body",
         y.users = x.users - 1, ~y.locked, y.waiters = x.waiters,
         ph2 = WakeFirst(x.waiters, [ph EXCEPT ![r] = "idle"]),
         hd2 = [hd EXCEPT ![r] = NoEntry]
  PROVE  Departed(y, e, r, ph, hd, ph2, hd2)
<1> DEFINE S == {q \in Requests : hd[q] = e}
<1>1. {q \in Requests \ {r} : hd[q] = e} = S \ {r} /\ S \in SUBSET Requests /\ r \in S
  OBVIOUS
<1>2. x.users = Cardinality(S)
  BY DEF EntryOK
<1>3. y.users = Cardinality({q \in Requests \ {r} : hd[q] = e})
  BY <1>1, <1>2, OneLess
<1>4. x.waiters \in Seq(Requests)
  BY DEF EntryRecord
<1>5. \A q \in Requests \ {r} : hd[q] = e => ph[q] # "body"
  BY DEF EntryOK
<1>6. \A q \in Requests : hd[q] = e => ph[q] # "woken"
  BY DEF EntryOK
<1>7. \A i \in 1..Len(x.waiters) :
        /\ x.waiters[i] \in Requests \ {r}
        /\ hd[x.waiters[i]] = e
        /\ ph[x.waiters[i]] \in {"queued", "woken"}
  BY <1>4 DEF EntryOK
<1>8. \A i, j \in 1..Len(x.waiters) : x.waiters[i] = x.waiters[j] => i = j
  BY DEF EntryOK
<1>9. \A q \in Requests \ {r} :
        hd[q] = e /\ ph[q] \in {"queued", "woken"}
          => \E i \in 1..Len(x.waiters) : x.waiters[i] = q
  BY DEF EntryOK
<1>10. y.locked <=> \E q \in Requests \ {r} : hd[q] = e /\ ph[q] = "body"
  BY <1>5
<1> QED
  BY <1>3, <1>5, <1>6, <1>7, <1>8, <1>9, <1>10 DEF Departed

\* A cancelled waiter leaves the queue wherever it stands in it.
Cancelled(x, y, e, r, ph, hd, ph2, hd2) ==
  /\ EntryOK(x, e, ph, hd)
  /\ hd[r] = e /\ ph[r] \in {"queued", "woken"}
  /\ y.users = x.users - 1 /\ y.locked = x.locked
  /\ y.waiters = Without(x.waiters, r)
  /\ ph2 = IF y.locked THEN [ph EXCEPT ![r] = "idle"]
                       ELSE WakeFirst(y.waiters, [ph EXCEPT ![r] = "idle"])
  /\ hd2 = [hd EXCEPT ![r] = NoEntry]

LEMMA CancelledEntry ==
  ASSUME NEW x \in EntryRecord, NEW y \in EntryRecord, NEW e \in Entries,
         NEW r \in Requests, NEW ph \in [Requests -> Phases],
         NEW hd \in [Requests -> Entries \cup {NoEntry}], NEW ph2, NEW hd2,
         Cancelled(x, y, e, r, ph, hd, ph2, hd2)
  PROVE  Departed(y, e, r, ph, hd, ph2, hd2)
<1> DEFINE S == {q \in Requests : hd[q] = e}
           w == x.waiters
           v == y.waiters
<1>1. {q \in Requests \ {r} : hd[q] = e} = S \ {r} /\ S \in SUBSET Requests /\ r \in S
  BY DEF Cancelled
<1>2. x.users = Cardinality(S)
  BY DEF Cancelled, EntryOK
<1>3. y.users = Cardinality({q \in Requests \ {r} : hd[q] = e})
  BY <1>1, <1>2, OneLess DEF Cancelled
<1>4. w \in Seq(Requests) /\ Len(w) \in Nat
  BY DEF EntryRecord
<1>5. \A i, j \in 1..Len(w) : w[i] = w[j] => i = j
  BY DEF Cancelled, EntryOK
<1>6. PICK k \in 1..Len(w) : w[k] = r
  BY DEF Cancelled, EntryOK
<1>7. /\ Len(v) = Len(w) - 1
      /\ \A j \in 1..(k - 1) : v[j] = w[j]
      /\ \A j \in k..(Len(w) - 1) : v[j] = w[j + 1]
  <2>1. v = Without(w, r)
    BY DEF Cancelled
  <2>2. At(w, k, r)
    BY <1>5, <1>6 DEF At
  <2> HIDE DEF w, v, S
  <2>3. /\ Len(Without(w, r)) = Len(w) - 1
        /\ \A j \in 1..(k - 1) : Without(w, r)[j] = w[j]
        /\ \A j \in k..(Len(w) - 1) : Without(w, r)[j] = w[j + 1]
    BY <1>4, <2>2, WithoutIs
  <2> QED
    BY <2>1, <2>3
<1> DEFINE from(j) == IF j < k THEN j ELSE j + 1
<1>8. \A j \in 1..Len(v) : from(j) \in 1..Len(w) /\ from(j) # k /\ v[j] = w[from(j)]
  BY <1>4, <1>7
<1>9. \A i \in 1..Len(w) :
        w[i] \in Requests /\ hd[w[i]] = e /\ ph[w[i]] \in {"queued", "woken"}
  BY <1>4 DEF Cancelled, EntryOK
<1>10. \A j \in 1..Len(v) :
         /\ v[j] \in Requests \ {r}
         /\ hd[v[j]] = e
         /\ ph[v[j]] \in {"queued", "woken"}
  <2>1. \A j \in 1..Len(v) : v[j] # r
    <3> HIDE DEF w, v, from
    <3> QED
      BY <1>5, <1>6, <1>8
  <2>2. SUFFICES ASSUME NEW j \in 1..Len(v)
                 PROVE  /\ v[j] \in Requests
                        /\ hd[v[j]] = e
                        /\ ph[v[j]] \in {"queued", "woken"}
    BY <2>1
  <2>3. PICK i \in 1..Len(w) : v[j] = w[i]
    <3> HIDE DEF w, v, from
    <3> QED
      BY <1>8
  <2> HIDE DEF w, v
  <2> QED
    BY <1>9, <2>3
<1>11. \A i, j \in 1..Len(v) : v[i] = v[j] => i = j
  <2>1. \A i, j \in 1..Len(v) : from(i) = from(j) => i = j
    BY <1>4, <1>7
  <2> HIDE DEF w, v, from
  <2> QED
    BY <1>5, <1>8, <2>1
<1>12. ASSUME NEW q \in Requests \ {r}, hd[q] = e, ph[q] \in {"queued", "woken"}
       PROVE  \E j \in 1..Len(v) : v[j] = q
  <2>1. PICK i \in 1..Len(w) : w[i] = q
    BY <1>12 DEF Cancelled, EntryOK
  <2>2. i # k
    BY <1>6, <2>1
  <2>3. CASE i < k
    BY <1>4, <1>7, <2>1, <2>3
  <2>4. CASE i > k
    <3>1. i - 1 \in 1..Len(v) /\ v[i - 1] = q
      BY <1>4, <1>7, <2>1, <2>4
    <3> QED
      BY <3>1
  <2> QED
    BY <2>2, <2>3, <2>4, <1>4
<1>13. ASSUME NEW q \in Requests \ {r}, hd[q] = e, ph[q] = "woken"
       PROVE  ~y.locked /\ v[1] = q
  <2>1. ~x.locked /\ w[1] = q
    BY <1>13 DEF Cancelled, EntryOK
  <2>2. k # 1
    BY <1>6, <2>1
  <2> QED
    BY <1>4, <1>7, <2>1, <2>2 DEF Cancelled
<1>14. y.locked <=> \E q \in Requests \ {r} : hd[q] = e /\ ph[q] = "body"
  BY DEF Cancelled, EntryOK
<1>15. \A p, q \in Requests \ {r} :
         hd[p] = e /\ hd[q] = e /\ ph[p] = "body" /\ ph[q] = "body" => p = q
  BY DEF Cancelled, EntryOK
<1>16. /\ ph2 = IF y.locked THEN [ph EXCEPT ![r] = "idle"]
                            ELSE WakeFirst(y.waiters, [ph EXCEPT ![r] = "idle"])
       /\ hd2 = [hd EXCEPT ![r] = NoEntry]
  BY DEF Cancelled
<1> QED
  BY <1>3, <1>10, <1>11, <1>12, <1>13, <1>14, <1>15, <1>16 DEF Departed

\* Only requests of the same entry are woken by one that departs.
OnlyWaken(e, r, ph, hd, ph2) ==
  /\ ph2 \in [Requests -> Phases]
  /\ ph2[r] = "idle"
  /\ \A q \in Requests \ {r} :
       \/ ph2[q] = ph[q]
       \/ hd[q] = e /\ ph[q] # "idle" /\ ph2[q] = "woken"

LEMMA DepartedPhases ==
  ASSUME NEW y \in EntryRecord, NEW e, NEW r \in Requests,
         NEW ph \in [Requests -> Phases], NEW hd, NEW ph2, NEW hd2,
         Departed(y, e, r, ph, hd, ph2, hd2)
  PROVE  OnlyWaken(e, r, ph, hd, ph2)
<1> DEFINE v == y.waiters
           gone == [ph EXCEPT ![r] = "idle"]
<1>1. v \in Seq(Requests) /\ Len(v) \in Nat
  BY DEF EntryRecord
<1>2. gone \in [Requests -> Phases]
  BY DEF Phases
<1>3. CASE y.locked \/ v = << >>
  <2>1. ph2 = gone
    BY <1>3 DEF Departed, WakeFirst
  <2> QED
    BY <1>2, <2>1 DEF OnlyWaken
<1>4. CASE ~y.locked /\ v # << >>
  <2>1. 1 \in 1..Len(v) /\ Head(v) = v[1]
    BY <1>1, <1>4
  <2>2. v[1] \in Requests \ {r} /\ hd[v[1]] = e /\ ph[v[1]] \in {"queued", "woken"}
    BY <2>1 DEF Departed
  <2>3. ph2 = [gone EXCEPT ![v[1]] = "woken"]
    BY <1>4, <2>1 DEF Departed, WakeFirst
  <2> QED
    BY <1>2, <2>2, <2>3 DEF Phases, OnlyWaken
<1> QED
  BY <1>3, <1>4

\* The invariant survives a step that ends a request's use of its entry.
LEMMA DepartKeeps ==
  ASSUME IInv, NEW r \in Requests, NEW y \in EntryRecord,
         NEW e0 \in Entries, held[r] = e0,
         Departed(y, e0, r, phase, held, phase', held'),
         entry' = [entry EXCEPT ![e0] = y],
         key' = [key EXCEPT ![r] = NoEntry],
         view' \in [Requests -> (Nat \X Context) \cup {NoView}],
         now' = now, table' = table
  PROVE  IInv'
<1>1. phase \in [Requests -> Phases] /\ held \in [Requests -> Entries \cup {NoEntry}]
  BY DEF IInv, TypeOK
<1>2. EntryOK(y, e0, phase', held')
  BY <1>1, DepartedEntry
<1>3. /\ phase' \in [Requests -> Phases]
      /\ phase'[r] = "idle"
      /\ \A q \in Requests \ {r} :
           \/ phase'[q] = phase[q]
           \/ held[q] = e0 /\ phase[q] # "idle" /\ phase'[q] = "woken"
  <2>1. OnlyWaken(e0, r, phase, held, phase')
    BY <1>1, DepartedPhases
  <2> QED
    BY <2>1 DEF OnlyWaken
<1>4. held' = [held EXCEPT ![r] = NoEntry]
  BY DEF Departed
<1>5. TypeOK'
  BY <1>1, <1>3, <1>4 DEF IInv, TypeOK
<1>6. OneSessionEach'
  BY DEF IInv, OneSessionEach
<1>7. ASSUME NEW q \in Requests PROVE RequestOK(q)'
  <2>1. CASE q = r
    BY <1>1, <1>3, <1>4, <2>1 DEF RequestOK
  <2>2. CASE q # r
    <3>1. RequestOK(q)
      BY DEF IInv
    <3>2. key'[q] = key[q] /\ held'[q] = held[q]
      BY <1>4, <2>2 DEF IInv, TypeOK
    <3>3. phase'[q] = "idle" <=> phase[q] = "idle"
      BY <1>3, <2>2
    <3> QED
      BY <3>1, <3>2, <3>3 DEF RequestOK
  <2> QED
    BY <2>1, <2>2
<1>8. ASSUME NEW e \in Entries
      PROVE  EntryOK(entry'[e], e, phase', held')
  <2>1. CASE e = e0
    BY <1>2, <2>1 DEF IInv, TypeOK
  <2>2. CASE e # e0
    <3>1. entry'[e] = entry[e] /\ entry[e] \in EntryRecord
      BY <2>2 DEF IInv, TypeOK
    <3>2. EntryOK(entry[e], e, phase, held)
      BY DEF IInv
    <3>3. \A q \in Requests : held'[q] = e <=> held[q] = e
      BY <1>1, <1>4, <2>2, EntriesAssumption
    <3>4. \A q \in Requests : held[q] = e => phase'[q] = phase[q]
      BY <1>3, <2>2
    <3> QED
      BY <3>1, <3>2, <3>3, <3>4, UnaffectedEntry
  <2> QED
    BY <2>1, <2>2
<1>9. \A q \in Requests : RequestOK(q)'
  BY <1>7
<1>10. \A e \in Entries : EntryOK(entry[e], e, phase, held)'
  BY <1>8 DEF EntryOK
<1> HIDE DEF OneSessionEach
<1> QED
  BY <1>5, <1>6, <1>9, <1>10 DEF IInv

LEMMA CancelKeeps ==
  ASSUME IInv, NEW r \in Requests, Cancel(r)
  PROVE  IInv'
<1> DEFINE e0 == held[r]
           x == entry[e0]
           n == x.users - 1
           y == [x EXCEPT !.waiters = Without(x.waiters, r), !.users = n]
<1>1. phase[r] \in {"queued", "woken"}
  BY DEF Cancel
<1>2. e0 \in Entries
  BY <1>1 DEF IInv, TypeOK, RequestOK
<1>3. x \in EntryRecord /\ EntryOK(x, e0, phase, held)
  BY <1>2 DEF IInv, TypeOK
<1>4. entry' = [entry EXCEPT ![e0] = y]
  BY <1>2 DEF Cancel, IInv, TypeOK
<1>5. Without(x.waiters, r) \in Seq(Requests)
  <2> DEFINE w == x.waiters
  <2>1. PICK k \in 1..Len(w) : w[k] = r
    BY <1>1, <1>3 DEF EntryOK
  <2>2. w \in Seq(Requests) /\ At(w, k, r)
    BY <1>3, <2>1 DEF At, EntryOK, EntryRecord
  <2> HIDE DEF w, x
  <2>3. Without(w, r) \in Seq(Requests)
    BY <2>2, WithoutIs
  <2> QED
    BY <2>3 DEF w
<1>6. /\ y \in EntryRecord
      /\ y.users = n
      /\ y.locked = x.locked
      /\ y.waiters = Without(x.waiters, r)
  <2>1. n \in Nat
    BY <1>2, UserCounted
  <2> HIDE DEF x, n
  <2> QED
    BY <1>3, <1>5, <2>1 DEF EntryRecord
<1>7. /\ phase' = IF y.locked THEN [phase EXCEPT ![r] = "idle"]
                     ELSE WakeFirst(y.waiters, [phase EXCEPT ![r] = "idle"])
      /\ held' = [held EXCEPT ![r] = NoEntry]
  BY <1>6 DEF Cancel
<1>8. phase \in [Requests -> Phases] /\ held \in [Requests -> Entries \cup {NoEntry}]
  BY DEF IInv, TypeOK
<1>9. /\ key' = [key EXCEPT ![r] = NoEntry]
      /\ view' \in [Requests -> (Nat \X Context) \cup {NoView}]
      /\ now' = now /\ table' = table /\ held[r] = e0
  BY DEF Cancel, IInv, TypeOK
<1>12. y.users = x.users - 1
  BY <1>6
<1> HIDE DEF x, y, e0, n
<1>10. Cancelled(x, y, e0, r, phase, held, phase', held')
  BY <1>1, <1>3, <1>6, <1>7, <1>9, <1>12 DEF Cancelled
<1>11. Departed(y, e0, r, phase, held, phase', held')
  BY <1>2, <1>3, <1>6, <1>8, <1>10, CancelledEntry
<1> QED
  BY <1>2, <1>4, <1>6, <1>9, <1>11, DepartKeeps

LEMMA LeaveKeeps ==
  ASSUME IInv, NEW r \in Requests, Leave(r)
  PROVE  IInv'
<1> DEFINE e0 == held[r]
           x == entry[e0]
           n == x.users - 1
           y == [x EXCEPT !.last = now, !.locked = FALSE, !.users = n]
<1>1. phase[r] = "body"
  BY DEF Leave
<1>2. e0 \in Entries
  BY <1>1 DEF IInv, TypeOK, RequestOK
<1>3. x \in EntryRecord /\ EntryOK(x, e0, phase, held)
  BY <1>2 DEF IInv, TypeOK
<1>4. entry' = [entry EXCEPT ![e0] = y]
  BY <1>2 DEF Leave, IInv, TypeOK
<1>5. now \in Nat
  BY DEF IInv, TypeOK
<1>6. /\ y \in EntryRecord
      /\ y.users = n
      /\ ~y.locked
      /\ y.waiters = x.waiters
  <2>1. n \in Nat
    BY <1>2, UserCounted
  <2> HIDE DEF x, n
  <2> QED
    BY <1>3, <1>5, <2>1 DEF EntryRecord
<1>7. /\ phase' = WakeFirst(x.waiters, [phase EXCEPT ![r] = "idle"])
      /\ held' = [held EXCEPT ![r] = NoEntry]
  BY DEF Leave
<1>8. phase \in [Requests -> Phases] /\ held \in [Requests -> Entries \cup {NoEntry}]
  BY DEF IInv, TypeOK
<1>9. /\ key' = [key EXCEPT ![r] = NoEntry]
      /\ view' \in [Requests -> (Nat \X Context) \cup {NoView}]
      /\ now' = now /\ table' = table /\ held[r] = e0
  BY DEF Leave, IInv, TypeOK
<1>12. y.users = x.users - 1
  BY <1>6
<1> HIDE DEF x, y, e0, n
<1>10. Departed(y, e0, r, phase, held, phase', held')
  BY <1>1, <1>2, <1>3, <1>6, <1>7, <1>8, <1>9, <1>12, LeftEntry
<1> QED
  BY <1>2, <1>4, <1>6, <1>9, <1>10, DepartKeeps

LEMMA ResumeKeeps ==
  ASSUME IInv, NEW r \in Requests, Resume(r)
  PROVE  IInv'
<1> DEFINE e0 == held[r]
           x == entry[e0]
           o == Opened(x, now)
           rest == Without(o.waiters, r)
           y == [o EXCEPT !.waiters = rest]
<1>1. phase[r] = "woken"
  BY DEF Resume
<1>2. e0 \in Entries
  BY <1>1 DEF IInv, TypeOK, RequestOK
<1>3. x \in EntryRecord /\ EntryOK(x, e0, phase, held)
  BY <1>2 DEF IInv, TypeOK
<1>4. /\ o \in EntryRecord /\ o.users = x.users
      /\ o.waiters = x.waiters /\ o.locked
  <2>1. now \in Nat
    BY DEF IInv, TypeOK
  <2> HIDE DEF x
  <2> QED
    BY <1>3, <2>1, OpenedEntry
<1>5. entry' = [entry EXCEPT ![e0] = y]
  BY DEF Resume
<1>6. rest \in Seq(Requests)
  <2> DEFINE w == x.waiters
  <2>1. PICK k \in 1..Len(w) : w[k] = r
    BY <1>1, <1>3 DEF EntryOK
  <2>2. w \in Seq(Requests) /\ At(w, k, r)
    BY <1>3, <2>1 DEF At, EntryOK, EntryRecord
  <2> HIDE DEF w, x, o
  <2>3. Without(w, r) \in Seq(Requests)
    BY <2>2, WithoutIs
  <2> QED
    BY <1>4, <2>3 DEF w
<1>7. /\ y \in EntryRecord /\ y.users = x.users /\ y.locked
      /\ y.waiters = Without(x.waiters, r)
  <2> HIDE DEF o, x
  <2>1. o.waiters = x.waiters
    BY <1>4
  <2>2. rest = Without(x.waiters, r)
    BY <2>1
  <2> HIDE DEF rest
  <2>3. /\ y \in EntryRecord /\ y.users = o.users /\ y.locked = o.locked
        /\ y.waiters = rest
    BY <1>4, <1>6 DEF EntryRecord
  <2> QED
    BY <1>4, <2>2, <2>3
<1>8. phase' = [phase EXCEPT ![r] = "body"] /\ UNCHANGED <<now, table, key, held, view>>
  BY DEF Resume
<1> HIDE DEF x, y, e0, o, rest
<1>9. Resumed(x, y, e0, r, phase, held, phase')
  BY <1>1, <1>3, <1>7, <1>8 DEF Resumed, e0
<1>10. EntryOK(y, e0, phase', held)
  <2>1. phase \in [Requests -> Phases]
    BY DEF IInv, TypeOK
  <2> QED
    BY <1>2, <1>3, <1>7, <1>9, <2>1, ResumedEntry
<1>11. TypeOK'
  BY <1>2, <1>5, <1>7, <1>8 DEF IInv, TypeOK, Phases
<1>12. OneSessionEach'
  BY <1>8 DEF IInv, OneSessionEach
<1>13. \A q \in Requests : RequestOK(q)'
  BY <1>1, <1>8 DEF IInv, TypeOK, RequestOK
<1>14. ASSUME NEW e \in Entries
       PROVE  EntryOK(entry'[e], e, phase', held')
  <2>1. CASE e = e0
    <3>1. entry'[e] = y
      BY <1>2, <1>5, <2>1 DEF IInv, TypeOK
    <3>2. EntryOK(y, e, phase', held')
      BY <1>8, <1>10, <2>1 DEF EntryOK
    <3> QED
      BY <3>1, <3>2
  <2>2. CASE e # e0
    <3>1. entry'[e] = entry[e] /\ entry[e] \in EntryRecord
      BY <1>5, <2>2 DEF IInv, TypeOK
    <3>2. EntryOK(entry[e], e, phase, held)
      BY DEF IInv
    <3>3. \A q \in Requests : held'[q] = e <=> held[q] = e
      BY <1>8
    <3>4. \A q \in Requests : held[q] = e => phase'[q] = phase[q]
      BY <1>8, <2>2 DEF e0
    <3> QED
      BY <3>1, <3>2, <3>3, <3>4, UnaffectedEntry
  <2> QED
    BY <2>1, <2>2
<1>15. \A e \in Entries : EntryOK(entry[e], e, phase, held)'
  BY <1>14 DEF EntryOK
<1> QED
  BY <1>11, <1>12, <1>13, <1>15 DEF IInv

-----------------------------------------------------------------------------
(* Reading and changing the session *)

\* A change of an entry that leaves its users, lock and queue alone.
SameUse(x, y) ==
  /\ y \in EntryRecord
  /\ y.users = x.users /\ y.locked = x.locked /\ y.waiters = x.waiters

LEMMA SameUseEntry ==
  ASSUME NEW x, NEW y, NEW e, NEW ph, NEW hd,
         SameUse(x, y), EntryOK(x, e, ph, hd)
  PROVE  EntryOK(y, e, ph, hd)
BY DEF SameUse, EntryOK

\* A method called from the body finds the entry its request refers to.
LEMMA OwnEntry ==
  ASSUME IInv, NEW r \in Requests, phase[r] = "body"
  PROVE  EntryOf(r) = held[r] /\ held[r] \in Entries
<1>1. Thinned(Purged(now))
  BY PurgedThinned
<1>2. Purged(now)[key[r]] = held[r]
  BY <1>1, ThinnedKeeps
<1> QED
  BY <1>2 DEF EntryOf, IInv, TypeOK, RequestOK

\* The purge a method runs, and the change it makes to its own entry.
LEMMA PurgeKeeps ==
  ASSUME IInv, table' = Purged(now),
         NEW f \in [Entries -> EntryRecord], entry' = f,
         \A e \in Entries : EntryOK(f[e], e, phase, held),
         UNCHANGED <<now, phase, key, held>>,
         view' \in [Requests -> (Nat \X Context) \cup {NoView}]
  PROVE  IInv'
<1>1. Thinned(Purged(now))
  BY PurgedThinned
<1>2. /\ \A s, u \in Sessions :
           table'[s] # NoEntry /\ table'[s] = table'[u] => s = u
      /\ \A r \in Requests : phase[r] # "idle" => table'[key[r]] = held[r]
  BY <1>1, ThinnedKeeps
<1>3. TypeOK'
  BY <1>1 DEF IInv, TypeOK, Thinned
<1>4. OneSessionEach'
  BY <1>2 DEF OneSessionEach
<1>5. \A r \in Requests : RequestOK(r)'
  BY <1>2 DEF IInv, RequestOK
<1>6. ASSUME NEW e \in Entries
      PROVE  EntryOK(entry'[e], e, phase', held')
  <2>1. EntryOK(f[e], e, phase', held')
    BY UnaffectedEntry
  <2> QED
    BY <2>1
<1>7. \A e \in Entries : EntryOK(entry[e], e, phase, held)'
  BY <1>6 DEF EntryOK
<1> QED
  BY <1>3, <1>4, <1>5, <1>7 DEF IInv

LEMMA TouchKeeps ==
  ASSUME IInv, NEW r \in Requests, NEW x, SameUse(entry[held[r]], x), Touch(r, x)
  PROVE  IInv'
<1> DEFINE e0 == held[r]
           objs == Objects(Purged(now))
           y == [x EXCEPT !.last = now]
           f == [objs EXCEPT ![e0] = y]
<1>1. e0 \in Entries /\ EntryOf(r) = e0
  BY OwnEntry DEF Touch
<1>2. Thinned(Purged(now))
  BY PurgedThinned
<1>3. objs \in [Entries -> EntryRecord] /\ \A e \in Entries : EntryOK(objs[e], e, phase, held)
  BY <1>2, ThinnedKeeps
<1>4. SameUse(entry[e0], y)
  <2>1. now \in Nat
    BY DEF IInv, TypeOK
  <2> HIDE DEF e0
  <2>2. SameUse(entry[e0], x)
    BY DEF e0
  <2> QED
    BY <2>1, <2>2 DEF SameUse, EntryRecord
<1>5. EntryOK(y, e0, phase, held) /\ y \in EntryRecord
  <2>1. EntryOK(entry[e0], e0, phase, held)
    BY <1>1 DEF IInv
  <2>2. y \in EntryRecord
    BY <1>4 DEF SameUse
  <2> HIDE DEF y, e0
  <2> QED
    BY <1>4, <2>1, <2>2, SameUseEntry
<1> HIDE DEF objs, y
<1>6. f \in [Entries -> EntryRecord]
  BY <1>3, <1>5
<1>7. \A e \in Entries : EntryOK(f[e], e, phase, held)
  BY <1>1, <1>3, <1>5
<1>8. entry' = f /\ table' = Purged(now) /\ UNCHANGED <<now, phase, key, held>>
  BY <1>1 DEF Touch, objs, y
<1>9. view' \in [Requests -> (Nat \X Context) \cup {NoView}]
  <2>1. <<x.revision, x.context>> \in Nat \X Context
    BY DEF SameUse, EntryRecord
  <2> QED
    BY <2>1 DEF Touch, IInv, TypeOK
<1> HIDE DEF f
<1> QED
  BY <1>6, <1>7, <1>8, <1>9, PurgeKeeps

LEMMA ReadKeeps ==
  ASSUME IInv, NEW r \in Requests, Read(r)
  PROVE  IInv'
<1>1. EntryOf(r) = held[r] /\ held[r] \in Entries
  BY OwnEntry DEF Read, Touch
<1>2. SameUse(entry[held[r]], entry[held[r]])
  BY <1>1 DEF SameUse, IInv, TypeOK
<1>3. Touch(r, entry[held[r]])
  BY <1>1 DEF Read
<1> QED
  BY <1>2, <1>3, TouchKeeps

LEMMA PutKeeps ==
  ASSUME IInv, NEW r \in Requests, NEW c \in Contexts, Put(r, c)
  PROVE  IInv'
<1> DEFINE x == [entry[held[r]] EXCEPT !.context = c]
<1>1. EntryOf(r) = held[r] /\ held[r] \in Entries
  BY OwnEntry DEF Put, Touch
<1>2. SameUse(entry[held[r]], x)
  <2>1. entry[held[r]] \in EntryRecord /\ c \in Context
    BY <1>1 DEF IInv, TypeOK, Context
  <2> QED
    BY <2>1 DEF SameUse, EntryRecord
<1>3. Touch(r, x)
  BY <1>1 DEF Put
<1> HIDE DEF x
<1> QED
  BY <1>2, <1>3, TouchKeeps

\* The queue of exchanges stays a sequence of revisions.
LEMMA NewestType ==
  ASSUME NEW q \in Seq(Nat)
  PROVE  Newest(q) \in Seq(Nat)
BY LimitsAssumption DEF Newest

LEMMA AppendKeeps ==
  ASSUME IInv, NEW r \in Requests, AppendExchange(r)
  PROVE  IInv'
<1> DEFINE e == entry[held[r]]
           n == e.revision + 1
           q == Newest(Append(e.recent, n))
           x == [e EXCEPT !.recent = q, !.revision = n]
<1>1. EntryOf(r) = held[r] /\ held[r] \in Entries
  BY OwnEntry DEF AppendExchange, Touch
<1>2. e \in EntryRecord
  BY <1>1 DEF IInv, TypeOK
<1>3. n \in Nat /\ Append(e.recent, n) \in Seq(Nat)
  BY <1>2 DEF EntryRecord
<1>4. q \in Seq(Nat)
  BY <1>3, NewestType
<1>5. Touch(r, x)
  BY <1>1 DEF AppendExchange, Appended
<1> HIDE DEF e, n, q
<1>6. SameUse(e, x)
  BY <1>2, <1>3, <1>4 DEF SameUse, EntryRecord
<1> HIDE DEF x
<1> QED
  BY <1>5, <1>6, TouchKeeps DEF e

LEMMA RefuseKeeps ==
  ASSUME IInv, table' = Purged(now), entry' = Objects(Purged(now)),
         UNCHANGED <<now, phase, key, held, view>>
  PROVE  IInv'
<1>1. Thinned(Purged(now))
  BY PurgedThinned
<1> DEFINE f == Objects(Purged(now))
<1>2. f \in [Entries -> EntryRecord] /\ \A e \in Entries : EntryOK(f[e], e, phase, held)
  BY <1>1, ThinnedKeeps
<1>3. view' \in [Requests -> (Nat \X Context) \cup {NoView}]
  BY DEF IInv, TypeOK
<1> HIDE DEF f
<1>4. entry' = f
  BY DEF f
<1> QED
  BY <1>2, <1>3, <1>4, PurgeKeeps

LEMMA FrameKeeps ==
  ASSUME IInv, TypeOK', UNCHANGED <<table, entry, phase, key, held>>
  PROVE  IInv'
<1>1. OneSessionEach' /\ \A r \in Requests : RequestOK(r)'
  BY DEF IInv, OneSessionEach, RequestOK
<1>2. ASSUME NEW e \in Entries
      PROVE  EntryOK(entry'[e], e, phase', held')
  <2>1. entry[e] \in EntryRecord /\ EntryOK(entry[e], e, phase, held)
    BY DEF IInv, TypeOK
  <2>2. EntryOK(entry[e], e, phase', held')
    BY <2>1, UnaffectedEntry
  <2> QED
    BY <2>2
<1>3. \A e \in Entries : EntryOK(entry[e], e, phase, held)'
  BY <1>2 DEF EntryOK
<1> QED
  BY <1>1, <1>3 DEF IInv

LEMMA TickKeeps ==
  ASSUME IInv, Tick
  PROVE  IInv'
<1>1. TypeOK'
  BY LimitsAssumption DEF IInv, TypeOK, Tick
<1> QED
  BY <1>1, FrameKeeps DEF Tick

-----------------------------------------------------------------------------
(* The theorems *)

LEMMA InitIInv ==
  ASSUME Init
  PROVE  IInv
<1>1. Blank \in EntryRecord
  BY DEF Blank, NewEntry, EntryRecord, Context
<1>2. TypeOK
  BY <1>1, LimitsAssumption DEF Init, TypeOK, Phases
<1>3. OneSessionEach /\ \A r \in Requests : RequestOK(r)
  BY DEF Init, OneSessionEach, RequestOK
<1>4. ASSUME NEW e \in Entries
      PROVE  EntryOK(entry[e], e, phase, held)
  <2>1. \A r \in Requests : held[r] # e
    BY EntriesAssumption DEF Init
  <2>2. EntryOK(NewEntry(0), e, phase, held)
    BY <2>1, NewEntryOK
  <2>3. entry[e] = NewEntry(0)
    BY DEF Init, Blank
  <2> QED
    BY <2>2, <2>3
<1> QED
  BY <1>2, <1>3, <1>4 DEF IInv

LEMMA StepIInv ==
  ASSUME IInv, [Next]_vars
  PROVE  IInv'
<1>1. CASE UNCHANGED vars
  <2>1. TypeOK'
    BY <1>1 DEF IInv, TypeOK, vars
  <2> QED
    BY <1>1, <2>1, FrameKeeps DEF vars
<1>2. CASE Tick
  BY <1>2, TickKeeps
<1>3. ASSUME NEW r \in Requests, Step(r)
      PROVE  IInv'
  <2>1. ASSUME NEW s \in Sessions, Enter(r, s) PROVE IInv'
    BY <2>1, EnterKeeps
  <2>2. ASSUME NEW s \in Sessions, Refuse(r, s) PROVE IInv'
    BY <2>2, RefuseKeeps DEF Refuse
  <2>3. CASE Resume(r)
    BY <2>3, ResumeKeeps
  <2>4. CASE Cancel(r)
    BY <2>4, CancelKeeps
  <2>5. CASE Read(r)
    BY <2>5, ReadKeeps
  <2>6. ASSUME NEW c \in Contexts, Put(r, c) PROVE IInv'
    BY <2>6, PutKeeps
  <2>7. CASE AppendExchange(r)
    BY <2>7, AppendKeeps
  <2>8. CASE RefuseExchange(r)
    BY <2>8, RefuseKeeps DEF RefuseExchange
  <2>9. CASE Leave(r)
    BY <2>9, LeaveKeeps
  <2> QED
    BY <1>3, <2>1, <2>2, <2>3, <2>4, <2>5, <2>6, <2>7, <2>8, <2>9 DEF Step
<1> QED
  BY <1>1, <1>2, <1>3 DEF Next

\* The inductive invariant holds of every behaviour of the store: users are
\* counted exactly, the lock and its queue agree with what the requests do,
\* and no request loses its entry.
THEOREM Inductive == Spec => []IInv
<1>1. Init => IInv
  BY InitIInv
<1>2. IInv /\ [Next]_vars => IInv'
  BY StepIInv
<1> QED
  BY <1>1, <1>2, PTL DEF Spec

\* Every variable keeps its type, for any sessions, requests and limits.
THEOREM TypeCorrect == Spec => []TypeOK
<1>1. IInv => TypeOK
  BY DEF IInv
<1> QED
  BY <1>1, Inductive, PTL

\* No purge or eviction takes a session's entry from a request that waits for
\* it or runs with it.
THEOREM Pinned == Spec => []EntryPinned
<1>1. IInv => EntryPinned
  BY DEF IInv, RequestOK, EntryPinned
<1> QED
  BY <1>1, Inductive, PTL

LEMMA OneInBody ==
  ASSUME IInv
  PROVE  MutualExclusion
<1> SUFFICES ASSUME NEW r \in Requests, NEW q \in Requests,
                    InBody(r), InBody(q), key[r] = key[q]
             PROVE  r = q
  BY DEF MutualExclusion
<1>1. held[r] = held[q] /\ held[r] \in Entries
  BY DEF IInv, TypeOK, RequestOK, InBody
<1> QED
  BY <1>1 DEF IInv, EntryOK, InBody

\* Two requests are never inside `serialized` for the same session.
THEOREM Exclusion == Spec => []MutualExclusion
<1>1. IInv => MutualExclusion
  BY OneInBody
<1> QED
  BY <1>1, Inductive, PTL

\* Whenever a request waits for a session, another one holds the session's lock
\* or has been woken to take it: no cancellation, release or reset in place
\* leaves a queue behind a free lock.
THEOREM WakeUpKept == Spec => []NoWakeUpLost
<1>1. ASSUME IInv PROVE NoWakeUpLost
  <2> SUFFICES ASSUME NEW r \in Requests, phase[r] = "queued"
               PROVE  \E q \in Requests : held[q] = held[r] /\ phase[q] \in {"woken", "body"}
    BY DEF NoWakeUpLost
  <2> DEFINE x == entry[held[r]]
  <2>1. held[r] \in Entries
    BY <1>1 DEF IInv, TypeOK, RequestOK
  <2>2. EntryOK(x, held[r], phase, held) /\ x.waiters \in Seq(Requests)
    BY <1>1, <2>1 DEF IInv, TypeOK, EntryRecord
  <2>3. \E i \in 1..Len(x.waiters) : x.waiters[i] = r
    BY <2>2 DEF EntryOK
  <2>4. CASE x.locked
    BY <2>2, <2>4 DEF EntryOK
  <2>5. CASE ~x.locked
    <3>1. Len(x.waiters) > 0 /\ 1 \in 1..Len(x.waiters) /\ x.waiters[1] \in Requests
      BY <2>2, <2>3
    <3>2. held[x.waiters[1]] = held[r] /\ phase[x.waiters[1]] = "woken"
      BY <2>2, <2>5, <3>1 DEF EntryOK
    <3> QED
      BY <3>1, <3>2
  <2> QED
    BY <2>4, <2>5
<1> QED
  BY <1>1, Inductive, PTL

-----------------------------------------------------------------------------
(* Memories *)

ViewOf(x) == <<x.revision, x.context>>

SameMemory(x, y) ==
  x.context = y.context /\ x.recent = y.recent /\ x.revision = y.revision

Unwritten(x) == x.context = NoContext /\ x.recent = << >> /\ x.revision = 0

\* y is x with another context saved, or with an exchange recorded.
Written(x, y) ==
  \/ y.recent = x.recent /\ y.revision = x.revision
  \/ /\ y.recent = Newest(Append(x.recent, x.revision + 1))
     /\ y.revision = x.revision + 1

Unowned(e) == \A q \in Requests : held[q] = e => ~InBody(q)

\* The memory of entry e was kept, or dropped while nobody owned it.
Spared(e) ==
  \/ SameMemory(entry'[e], entry[e])
  \/ Unwritten(entry'[e]) /\ Unowned(e)

\* What became of the memory of entry e: it was spared, or its owner wrote it
\* and looked at what it wrote.
Fate(e) ==
  \/ Spared(e)
  \/ \E r \in Requests :
       /\ InBody(r) /\ held[r] = e
       /\ Written(entry[e], entry'[e])
       /\ view'[r] = ViewOf(entry'[e])

\* A request that has a view after the step was in the body and stays there,
\* and kept the view or has just got it.
Watched(q) ==
  view'[q] # NoView =>
    /\ InBody(q) /\ phase'[q] = "body" /\ held'[q] = held[q]
    /\ \/ view'[q] = view[q]
       \/ view'[q] = ViewOf(entry'[held[q]])

\* Only a request in the body has a view, and it is what its entry holds.
Seen(q) ==
  view[q] # NoView => InBody(q) /\ view[q] = ViewOf(entry[held[q]])

VInv == \A q \in Requests : Seen(q)

Accounted ==
  /\ \A e \in Entries : Fate(e)
  /\ \A q \in Requests : Watched(q)

\* No request is in the body for session s.
Abandoned(s) == \A q \in Requests : InBody(q) => key[q] # s

\* What became of the table: a session kept its entry, or nobody owned it and
\* it lost the entry or got one that holds nothing yet.
TableFate(s) ==
  \/ table'[s] = table[s]
  \/ /\ Abandoned(s)
     /\ \/ table'[s] = NoEntry
        \/ table'[s] \in Entries /\ Unwritten(entry'[table'[s]])

\* The same of a step that writes no memory.
AllSpared ==
  /\ \A e \in Entries : Spared(e)
  /\ \A q \in Requests : Watched(q)

\* The same of a step of request r that leaves its own entry with context c and
\* revision n.
OneWritten(r, c, n) ==
  /\ Accounted
  /\ \A e \in Entries \ {held[r]} : Spared(e)
  /\ entry'[held[r]].context = c
  /\ entry'[held[r]].revision = n

LEMMA SparedAccounted ==
  ASSUME AllSpared
  PROVE  Accounted
BY DEF AllSpared, Accounted, Fate

-----------------------------------------------------------------------------
(* The fate of memories in each action *)

\* Deleting sessions leaves the objects that requests refer to.
LEMMA ObjectsFate ==
  ASSUME NEW tab, NEW e \in Entries
  PROVE  \/ Objects(tab)[e] = entry[e]
         \/ Unwritten(Objects(tab)[e]) /\ Unowned(e)
BY DEF Objects, Reachable, Blank, NewEntry, Unwritten, Unowned

LEMMA OpenedFate ==
  ASSUME NEW x \in EntryRecord, NEW t
  PROVE  SameMemory(Opened(x, t), x) \/ Unwritten(Opened(x, t))
<1>1. CASE t - x.last >= Ttl
  <2>1. Opened(x, t) = [x EXCEPT !.context = NoContext, !.recent = << >>,
                                 !.revision = 0, !.last = t, !.locked = TRUE]
    BY <1>1 DEF Opened
  <2> QED
    BY <2>1 DEF Unwritten, EntryRecord
<1>2. CASE ~(t - x.last >= Ttl)
  <2>1. Opened(x, t) = [x EXCEPT !.last = t, !.locked = TRUE]
    BY <1>2 DEF Opened
  <2> QED
    BY <2>1 DEF SameMemory, EntryRecord
<1> QED
  BY <1>1, <1>2

\* A request that enters takes a free lock, so nobody owns the session, or
\* leaves the memory alone.
LEMMA JoinFate ==
  ASSUME IInv, VInv, NEW r \in Requests, NEW s \in Sessions, phase[r] = "idle",
         NEW objs \in [Entries -> EntryRecord],
         \A e \in Entries : objs[e] = entry[e] \/ (Unwritten(objs[e]) /\ Unowned(e)),
         NEW e0 \in Entries, NEW found \in EntryRecord,
         found = entry[e0] \/ (Unwritten(found) /\ Unowned(e0)),
         EntryOK(found, e0, phase, held),
         Join(r, s, e0, found, objs)
  PROVE  /\ AllSpared
         /\ SameMemory(entry'[e0], found) \/ Unwritten(entry'[e0])
<1> DEFINE x == [found EXCEPT !.users = @ + 1]
<1>1. x \in EntryRecord /\ SameMemory(x, found) /\ x.locked = found.locked
  <2>1. found.users + 1 \in Nat
    BY DEF EntryRecord
  <2> QED
    BY <2>1 DEF EntryRecord, SameMemory
<1>2. PICK y, b :
        /\ entry' = [objs EXCEPT ![e0] = y]
        /\ phase' = [phase EXCEPT ![r] = b]
        /\ SameMemory(y, found) \/ (Unwritten(y) /\ Unowned(e0))
  <2>1. CASE LockFree(x)
    <3>1. PICK t \in LaterReadings :
            /\ entry' = [objs EXCEPT ![e0] = Opened(x, t)]
            /\ phase' = [phase EXCEPT ![r] = "body"]
      BY <2>1 DEF Join
    <3>2. SameMemory(Opened(x, t), x) \/ Unwritten(Opened(x, t))
      BY <1>1, OpenedFate
    <3>3. Unowned(e0)
      BY <1>1, <2>1 DEF LockFree, EntryOK, Unowned, InBody
    <3> HIDE DEF x
    <3> QED
      BY <1>1, <3>1, <3>2, <3>3 DEF SameMemory
  <2>2. CASE ~LockFree(x)
    <3> DEFINE y == [x EXCEPT !.waiters = Append(@, r)]
    <3>1. /\ entry' = [objs EXCEPT ![e0] = y]
          /\ phase' = [phase EXCEPT ![r] = "queued"]
      BY <2>2 DEF Join
    <3>2. SameMemory(y, found)
      BY <1>1 DEF SameMemory, EntryRecord
    <3> HIDE DEF x, y
    <3> QED
      BY <3>1, <3>2
  <2> QED
    BY <2>1, <2>2
<1> HIDE DEF x
<1>3. ASSUME NEW e \in Entries PROVE Spared(e)
  <2>1. CASE e = e0
    <3>1. entry'[e] = y
      BY <1>2, <2>1
    <3>2. CASE Unwritten(y) /\ Unowned(e0)
      BY <2>1, <3>1, <3>2 DEF Spared
    <3>3. CASE SameMemory(y, found) /\ found = entry[e0]
      BY <2>1, <3>1, <3>3 DEF Spared
    <3>4. CASE SameMemory(y, found) /\ Unwritten(found) /\ Unowned(e0)
      <4>1. Unwritten(y)
        BY <3>4 DEF SameMemory, Unwritten
      <4> QED
        BY <3>2, <3>4, <4>1
    <3> QED
      BY <1>2, <3>2, <3>3, <3>4
  <2>2. CASE e # e0
    <3>1. entry'[e] = objs[e]
      BY <1>2, <2>2
    <3> QED
      BY <3>1 DEF Spared, SameMemory
  <2> QED
    BY <2>1, <2>2
<1>4. ASSUME NEW q \in Requests PROVE Watched(q)
  <2> SUFFICES ASSUME view'[q] # NoView
               PROVE  /\ InBody(q) /\ phase'[q] = "body" /\ held'[q] = held[q]
                      /\ view'[q] = view[q]
    BY DEF Watched
  <2>1. view' = view /\ held' = [held EXCEPT ![r] = e0]
    BY DEF Join
  <2>2. InBody(q) /\ q # r
    BY <2>1 DEF VInv, Seen, InBody
  <2> QED
    BY <1>2, <2>1, <2>2 DEF InBody, IInv, TypeOK
<1>5. SameMemory(entry'[e0], found) \/ Unwritten(entry'[e0])
  BY <1>2
<1> QED
  BY <1>3, <1>4, <1>5 DEF AllSpared

LEMMA ThinnedAbandons ==
  ASSUME IInv, NEW tab, Thinned(tab), NEW s \in Sessions
  PROVE  /\ tab[s] = table[s] \/ tab[s] = NoEntry
         /\ tab[s] = NoEntry => Abandoned(s)
<1>1. \A q \in Requests :
        InBody(q) /\ key[q] = s => held[q] = table[s] /\ held[q] # NoEntry
  BY DEF IInv, RequestOK, InBody
<1> QED
  BY <1>1 DEF Thinned, Abandoned

LEMMA EnterFate ==
  ASSUME IInv, VInv, NEW r \in Requests, NEW s \in Sessions, Enter(r, s)
  PROVE  AllSpared /\ \A u \in Sessions : TableFate(u)
<1> DEFINE purged == Purged(now)
<1>1. phase[r] = "idle"
  BY DEF Enter
<1>2. Thinned(purged)
  BY PurgedThinned
<1>3. CASE purged[s] # NoEntry
  <2> DEFINE e0 == purged[s]
             objs == Objects(purged)
  <2>1. Join(r, s, e0, entry[e0], objs)
    BY <1>3 DEF Enter
  <2>2. e0 \in Entries /\ entry[e0] \in EntryRecord /\ EntryOK(entry[e0], e0, phase, held)
    BY <1>2, <1>3 DEF Thinned, IInv, TypeOK
  <2>3. objs \in [Entries -> EntryRecord]
    BY <1>2, ThinnedKeeps
  <2>4. \A e \in Entries : objs[e] = entry[e] \/ (Unwritten(objs[e]) /\ Unowned(e))
    BY ObjectsFate
  <2>5. \A u \in Sessions : TableFate(u)
    BY <1>2, <1>3, ThinnedAbandons DEF Enter, TableFate
  <2> HIDE DEF e0, objs
  <2> QED
    BY <1>1, <2>1, <2>2, <2>3, <2>4, <2>5, JoinFate
<1>4. CASE purged[s] = NoEntry
  <2>1. PICK room \in RoomFor(purged) :
          /\ Entries \ Reachable(room) # {}
          /\ table' = [room EXCEPT ![s] = Fresh(room)]
          /\ Join(r, s, Fresh(room), NewEntry(now), Objects(room))
    BY <1>4 DEF Enter
  <2> DEFINE e0 == Fresh(room)
             objs == Objects(room)
             new == NewEntry(now)
  <2>2. Thinned(room)
    BY <1>2, <2>1, RoomThinned
  <2>3. e0 \in Entries \ Reachable(room)
    BY <2>1 DEF Fresh
  <2>4. \A q \in Requests : held[q] # e0
    BY <2>3 DEF Reachable
  <2>5. new \in EntryRecord /\ EntryOK(new, e0, phase, held)
    BY <2>4, NewEntryOK DEF IInv, TypeOK
  <2>6. Unwritten(new) /\ Unowned(e0)
    BY <2>4 DEF NewEntry, Unwritten, Unowned
  <2>7. objs \in [Entries -> EntryRecord]
    BY <2>2, ThinnedKeeps
  <2>8. \A e \in Entries : objs[e] = entry[e] \/ (Unwritten(objs[e]) /\ Unowned(e))
    BY ObjectsFate
  <2>9. Join(r, s, e0, new, objs)
    BY <2>1
  <2>10. table' = [room EXCEPT ![s] = e0]
    BY <2>1
  <2>11. Abandoned(s)
    BY <1>2, <1>4, ThinnedAbandons
  <2> HIDE DEF e0, objs, new
  <2>12. AllSpared /\ (SameMemory(entry'[e0], new) \/ Unwritten(entry'[e0]))
    BY <1>1, <2>3, <2>5, <2>6, <2>7, <2>8, <2>9, JoinFate
  <2>13. Unwritten(entry'[e0])
    BY <2>6, <2>12 DEF SameMemory, Unwritten
  <2>14. ASSUME NEW u \in Sessions PROVE TableFate(u)
    <3>1. CASE u = s
      BY <2>2, <2>3, <2>10, <2>11, <2>13, <3>1 DEF TableFate, Thinned
    <3>2. CASE u # s
      <4>1. table'[u] = room[u]
        BY <2>2, <2>10, <3>2 DEF Thinned
      <4> QED
        BY <2>2, <4>1, ThinnedAbandons DEF TableFate
    <3> QED
      BY <3>1, <3>2
  <2> QED
    BY <2>12, <2>14
<1> QED
  BY <1>3, <1>4


\* A request that takes the lock or leaves changes one entry, and no memory but
\* by a reset that opens a session nobody is in.
LEMMA OneEntryFate ==
  ASSUME IInv, VInv, NEW e0 \in Entries, NEW y,
         entry' = [entry EXCEPT ![e0] = y],
         SameMemory(y, entry[e0]) \/ (Unwritten(y) /\ Unowned(e0))
  PROVE  \A e \in Entries : Spared(e)
<1> SUFFICES ASSUME NEW e \in Entries PROVE Spared(e)
  OBVIOUS
<1>1. entry \in [Entries -> EntryRecord]
  BY DEF IInv, TypeOK
<1>2. CASE e = e0
  <2>1. entry'[e] = y
    BY <1>1, <1>2
  <2> QED
    BY <1>2, <2>1 DEF Spared
<1>3. CASE e # e0
  <2>1. entry'[e] = entry[e]
    BY <1>1, <1>3
  <2> QED
    BY <2>1 DEF Spared, SameMemory
<1> QED
  BY <1>2, <1>3

LEMMA ResumeFate ==
  ASSUME IInv, VInv, NEW r \in Requests, Resume(r)
  PROVE  AllSpared
<1> DEFINE x == entry[held[r]]
           o == Opened(x, now)
           rest == Without(o.waiters, r)
           y == [o EXCEPT !.waiters = rest]
<1>1. held[r] \in Entries /\ phase[r] = "woken"
  BY DEF Resume, IInv, TypeOK, RequestOK
<1>2. x \in EntryRecord /\ EntryOK(x, held[r], phase, held) /\ now \in Nat
  BY <1>1 DEF IInv, TypeOK
<1>3. entry' = [entry EXCEPT ![held[r]] = y]
  BY DEF Resume
<1>4. SameMemory(y, x) \/ Unwritten(y)
  <2> HIDE DEF x, rest
  <2>1. o \in EntryRecord /\ (SameMemory(o, x) \/ Unwritten(o))
    BY <1>2, OpenedEntry, OpenedFate
  <2> HIDE DEF o
  <2>2. SameMemory(y, o)
    BY <2>1 DEF SameMemory, EntryRecord
  <2> QED
    BY <2>1, <2>2 DEF SameMemory, Unwritten
<1>5. Unowned(held[r])
  BY <1>1, <1>2 DEF EntryOK, Unowned, InBody
<1> HIDE DEF y
<1>6. \A e \in Entries : Spared(e)
  BY <1>1, <1>3, <1>4, <1>5, OneEntryFate
<1>7. ASSUME NEW q \in Requests PROVE Watched(q)
  <2> SUFFICES ASSUME view[q] # NoView
               PROVE  InBody(q) /\ phase'[q] = "body"
    BY DEF Watched, Resume
  <2> QED
    BY <1>1 DEF VInv, Seen, InBody, Resume, IInv, TypeOK
<1> QED
  BY <1>6, <1>7 DEF AllSpared

\* A request that leaves may wake another, but takes no one out of the body.
LEMMA DepartFate ==
  ASSUME IInv, VInv, NEW r \in Requests, held[r] \in Entries,
         NEW n, NEW w, NEW t, NEW l, NEW y,
         y = [entry[held[r]] EXCEPT !.waiters = w, !.last = t, !.locked = l, !.users = n],
         entry' = [entry EXCEPT ![held[r]] = y],
         \A q \in Requests \ {r} : phase[q] = "body" => phase'[q] = "body",
         held' = [held EXCEPT ![r] = NoEntry],
         view' = [view EXCEPT ![r] = NoView]
  PROVE  AllSpared
<1>1. SameMemory(y, entry[held[r]])
  BY DEF SameMemory, IInv, TypeOK, EntryRecord
<1>2. \A e \in Entries : Spared(e)
  BY <1>1, OneEntryFate
<1>3. ASSUME NEW q \in Requests PROVE Watched(q)
  <2> SUFFICES ASSUME view'[q] # NoView
               PROVE  /\ InBody(q) /\ phase'[q] = "body" /\ held'[q] = held[q]
                      /\ view'[q] = view[q]
    BY DEF Watched
  <2>1. q # r /\ view'[q] = view[q] /\ held'[q] = held[q]
    BY DEF IInv, TypeOK
  <2> QED
    BY <2>1 DEF VInv, Seen, InBody
<1> QED
  BY <1>2, <1>3 DEF AllSpared

LEMMA LeaveFate ==
  ASSUME IInv, VInv, NEW r \in Requests, Leave(r)
  PROVE  AllSpared
<1> DEFINE x == entry[held[r]]
           n == x.users - 1
<1>1. held[r] \in Entries
  BY DEF Leave, IInv, TypeOK, RequestOK
<1>2. x \in EntryRecord /\ EntryOK(x, held[r], phase, held)
  BY <1>1 DEF IInv, TypeOK
<1>3. entry' = [entry EXCEPT ![held[r]] =
                  [x EXCEPT !.waiters = x.waiters, !.last = now, !.locked = FALSE,
                            !.users = n]]
  BY <1>1, <1>2 DEF Leave, EntryRecord, IInv, TypeOK
<1>4. \A q \in Requests \ {r} : phase[q] = "body" => phase'[q] = "body"
  <2>1. phase' = WakeFirst(x.waiters, [phase EXCEPT ![r] = "idle"])
    BY DEF Leave
  <2>2. x.waiters # << >> => phase[Head(x.waiters)] \in {"queued", "woken"}
    <3>1. x.waiters # << >> => /\ 1 \in 1..Len(x.waiters)
                               /\ Head(x.waiters) = x.waiters[1]
      BY <1>2 DEF EntryRecord
    <3> QED
      BY <1>2, <3>1 DEF EntryOK
  <2> HIDE DEF x
  <2> QED
    BY <2>1, <2>2 DEF WakeFirst, IInv, TypeOK
<1>5. held' = [held EXCEPT ![r] = NoEntry] /\ view' = [view EXCEPT ![r] = NoView]
  BY DEF Leave
<1> HIDE DEF n
<1> QED
  BY <1>1, <1>3, <1>4, <1>5, DepartFate

\* A queue without one of its requests is a queue of waiting requests still.
LEMMA WithoutWaits ==
  ASSUME IInv, NEW r \in Requests, held[r] \in Entries, phase[r] \in {"queued", "woken"},
         NEW rest, rest = Without(entry[held[r]].waiters, r)
  PROVE  /\ rest \in Seq(Requests)
         /\ rest # << >> => phase[Head(rest)] \in {"queued", "woken"}
<1> DEFINE x == entry[held[r]]
           w == x.waiters
<1>1. x \in EntryRecord /\ EntryOK(x, held[r], phase, held)
  BY DEF IInv, TypeOK
<1>2. PICK k \in 1..Len(w) : w[k] = r
  BY <1>1 DEF EntryOK
<1>3. w \in Seq(Requests) /\ At(w, k, r)
  BY <1>1, <1>2 DEF At, EntryOK, EntryRecord
<1>4. \A i \in 1..Len(w) : phase[w[i]] \in {"queued", "woken"}
  BY <1>1 DEF EntryOK
<1>5. rest = Without(w, r)
  OBVIOUS
<1> HIDE DEF w, x
<1>6. /\ rest \in Seq(Requests) /\ Len(rest) = Len(w) - 1
      /\ \A j \in 1..(k - 1) : rest[j] = w[j]
      /\ \A j \in k..(Len(w) - 1) : rest[j] = w[j + 1]
  BY <1>3, <1>5, WithoutIs
<1> SUFFICES ASSUME rest # << >>
             PROVE  phase[Head(rest)] \in {"queued", "woken"}
  BY <1>6
<1>7. Head(rest) = rest[1] /\ Len(rest) >= 1 /\ Len(w) \in Nat
  BY <1>3, <1>6
<1>8. CASE k = 1
  <2>1. rest[1] = w[2] /\ 2 \in 1..Len(w)
    BY <1>6, <1>7, <1>8
  <2> QED
    BY <1>4, <1>7, <2>1
<1>9. CASE k # 1
  <2>1. rest[1] = w[1] /\ 1 \in 1..Len(w)
    BY <1>2, <1>6, <1>7, <1>9
  <2> QED
    BY <1>4, <1>7, <2>1
<1> QED
  BY <1>8, <1>9

LEMMA CancelFate ==
  ASSUME IInv, VInv, NEW r \in Requests, Cancel(r)
  PROVE  AllSpared
<1> DEFINE x == entry[held[r]]
           w == x.waiters
           rest == Without(w, r)
           n == x.users - 1
<1>1. held[r] \in Entries /\ phase[r] \in {"queued", "woken"}
  BY DEF Cancel, IInv, TypeOK, RequestOK
<1>2. x \in EntryRecord /\ EntryOK(x, held[r], phase, held)
  BY <1>1 DEF IInv, TypeOK
<1>3. entry' = [entry EXCEPT ![held[r]] =
                  [x EXCEPT !.waiters = rest, !.last = x.last, !.locked = x.locked,
                            !.users = n]]
  BY <1>1, <1>2 DEF Cancel, EntryRecord, IInv, TypeOK
<1>4. \A q \in Requests \ {r} : phase[q] = "body" => phase'[q] = "body"
  <2>1. rest # << >> => phase[Head(rest)] \in {"queued", "woken"}
    BY <1>1, WithoutWaits
  <2>2. phase' = IF x.locked THEN [phase EXCEPT ![r] = "idle"]
                             ELSE WakeFirst(rest, [phase EXCEPT ![r] = "idle"])
    BY DEF Cancel
  <2> HIDE DEF rest, w, x
  <2> QED
    BY <2>1, <2>2 DEF WakeFirst, IInv, TypeOK
<1>5. held' = [held EXCEPT ![r] = NoEntry] /\ view' = [view EXCEPT ![r] = NoView]
  <2>1. view[r] = NoView
    BY <1>1 DEF VInv, Seen, InBody
  <2> QED
    BY <2>1 DEF Cancel, IInv, TypeOK
<1> HIDE DEF n, rest, w
<1> QED
  BY <1>1, <1>3, <1>4, <1>5, DepartFate

\* A method called from the body writes the memory of its own session only, and
\* its request then has the view of what is there.
LEMMA TouchFate ==
  ASSUME IInv, VInv, NEW r \in Requests, NEW x \in EntryRecord, Touch(r, x),
         Written(entry[held[r]], x)
  PROVE  OneWritten(r, x.context, x.revision)
<1> DEFINE e0 == held[r]
           objs == Objects(Purged(now))
           y == [x EXCEPT !.last = now]
<1>1. e0 \in Entries /\ EntryOf(r) = e0 /\ InBody(r)
  BY OwnEntry DEF Touch, InBody
<1>2. objs \in [Entries -> EntryRecord]
  BY PurgedThinned, ThinnedKeeps
<1>3. SameMemory(y, x)
  BY DEF SameMemory, EntryRecord
<1>4. entry' = [objs EXCEPT ![e0] = y]
  BY <1>1 DEF Touch
<1>5. view' = [view EXCEPT ![r] = <<x.revision, x.context>>] /\ UNCHANGED <<phase, held>>
  BY DEF Touch
<1> HIDE DEF y
<1>6. entry'[e0] = y /\ view'[r] = ViewOf(y)
  BY <1>1, <1>2, <1>3, <1>4, <1>5 DEF IInv, TypeOK, ViewOf, SameMemory
<1>7. ASSUME NEW e \in Entries
      PROVE  Fate(e) /\ (e # e0 => Spared(e))
  <2>1. CASE e = e0
    <3>1. Written(entry[e], y)
      BY <1>3, <2>1 DEF Written, SameMemory
    <3> QED
      BY <1>1, <1>6, <2>1, <3>1 DEF Fate
  <2>2. CASE e # e0
    <3>1. entry'[e] = objs[e]
      BY <1>2, <1>4, <2>2
    <3> HIDE DEF e0
    <3>2. objs[e] = entry[e] \/ (Unwritten(objs[e]) /\ Unowned(e))
      BY ObjectsFate
    <3> HIDE DEF objs
    <3> QED
      BY <3>1, <3>2 DEF Fate, Spared, SameMemory
  <2> QED
    BY <2>1, <2>2
<1>8. ASSUME NEW q \in Requests PROVE Watched(q)
  <2>1. CASE q = r
    BY <1>1, <1>5, <1>6, <2>1 DEF Watched, InBody
  <2>2. CASE q # r
    BY <1>5, <2>2 DEF Watched, VInv, Seen, InBody, IInv, TypeOK
  <2> QED
    BY <2>1, <2>2
<1>9. entry'[e0].context = x.context /\ entry'[e0].revision = x.revision
  BY <1>3, <1>6 DEF SameMemory
<1> QED
  BY <1>7, <1>8, <1>9 DEF Accounted, OneWritten

LEMMA ReadFate ==
  ASSUME IInv, VInv, NEW r \in Requests, Read(r)
  PROVE  OneWritten(r, entry[held[r]].context, entry[held[r]].revision)
<1>1. EntryOf(r) = held[r] /\ held[r] \in Entries
  BY OwnEntry DEF Read, Touch
<1>2. entry[held[r]] \in EntryRecord /\ Touch(r, entry[held[r]])
  BY <1>1 DEF Read, IInv, TypeOK
<1>3. Written(entry[held[r]], entry[held[r]])
  BY DEF Written
<1> QED
  BY <1>2, <1>3, TouchFate

LEMMA PutFate ==
  ASSUME IInv, VInv, NEW r \in Requests, NEW c \in Contexts, Put(r, c)
  PROVE  OneWritten(r, c, entry[held[r]].revision)
<1> DEFINE x == [entry[held[r]] EXCEPT !.context = c]
<1>1. EntryOf(r) = held[r] /\ held[r] \in Entries
  BY OwnEntry DEF Put, Touch
<1>2. /\ x \in EntryRecord /\ Written(entry[held[r]], x)
      /\ x.context = c /\ x.revision = entry[held[r]].revision
  <2>1. entry[held[r]] \in EntryRecord /\ c \in Context
    BY <1>1 DEF IInv, TypeOK, Context
  <2> QED
    BY <2>1 DEF EntryRecord, Written
<1>3. Touch(r, x)
  BY <1>1 DEF Put
<1> HIDE DEF x
<1> QED
  BY <1>2, <1>3, TouchFate

LEMMA AppendFate ==
  ASSUME IInv, VInv, NEW r \in Requests, AppendExchange(r)
  PROVE  OneWritten(r, entry[held[r]].context, entry[held[r]].revision + 1)
<1> DEFINE e == entry[held[r]]
           n == e.revision + 1
           q == Newest(Append(e.recent, n))
           x == [e EXCEPT !.recent = q, !.revision = n]
<1>1. EntryOf(r) = held[r] /\ held[r] \in Entries
  BY OwnEntry DEF AppendExchange, Touch
<1>2. e \in EntryRecord
  BY <1>1 DEF IInv, TypeOK
<1>3. n \in Nat /\ Append(e.recent, n) \in Seq(Nat)
  BY <1>2 DEF EntryRecord
<1>4. q \in Seq(Nat)
  BY <1>3, NewestType
<1>5. Touch(r, x)
  BY <1>1 DEF AppendExchange, Appended
<1>6. /\ x \in EntryRecord
      /\ x.context = e.context /\ x.recent = q /\ x.revision = n
  <2> HIDE DEF e, n, q
  <2> QED
    BY <1>2, <1>3, <1>4 DEF EntryRecord
<1>7. Written(e, x)
  <2> HIDE DEF x
  <2> QED
    BY <1>6 DEF Written
<1> HIDE DEF x
<1> QED
  BY <1>5, <1>6, <1>7, TouchFate

\* A step that only purges, or that touches no entry and no request.
LEMMA QuietFate ==
  ASSUME IInv, VInv, UNCHANGED <<phase, held, view>>,
         entry' = entry \/ entry' = Objects(Purged(now))
  PROVE  AllSpared
<1>1. ASSUME NEW e \in Entries PROVE Spared(e)
  <2>1. CASE entry' = entry
    BY <2>1 DEF Spared, SameMemory
  <2>2. CASE entry' = Objects(Purged(now))
    <3>1. entry'[e] = entry[e] \/ (Unwritten(entry'[e]) /\ Unowned(e))
      BY <2>2, ObjectsFate
    <3> QED
      BY <3>1 DEF Spared, SameMemory
  <2> QED
    BY <2>1, <2>2
<1>2. \A q \in Requests : Watched(q)
  BY DEF Watched, VInv, Seen, InBody
<1> QED
  BY <1>1, <1>2 DEF AllSpared

LEMMA StepFate ==
  ASSUME IInv, VInv, [Next]_vars
  PROVE  Accounted
<1>1. CASE UNCHANGED vars
  BY <1>1, QuietFate, SparedAccounted DEF vars
<1>2. CASE Tick
  BY <1>2, QuietFate, SparedAccounted DEF Tick
<1>3. ASSUME NEW r \in Requests, Step(r)
      PROVE  Accounted
  <2>1. ASSUME NEW s \in Sessions, Enter(r, s) PROVE Accounted
    BY <2>1, EnterFate, SparedAccounted
  <2>2. ASSUME NEW s \in Sessions, Refuse(r, s) PROVE Accounted
    BY <2>2, QuietFate, SparedAccounted DEF Refuse
  <2>3. CASE Resume(r)
    BY <2>3, ResumeFate, SparedAccounted
  <2>4. CASE Cancel(r)
    BY <2>4, CancelFate, SparedAccounted
  <2>5. CASE Read(r)
    BY <2>5, ReadFate DEF OneWritten
  <2>6. ASSUME NEW c \in Contexts, Put(r, c) PROVE Accounted
    BY <2>6, PutFate DEF OneWritten
  <2>7. CASE AppendExchange(r)
    BY <2>7, AppendFate DEF OneWritten
  <2>8. CASE RefuseExchange(r)
    BY <2>8, QuietFate, SparedAccounted DEF RefuseExchange
  <2>9. CASE Leave(r)
    BY <2>9, LeaveFate, SparedAccounted
  <2> QED
    BY <1>3, <2>1, <2>2, <2>3, <2>4, <2>5, <2>6, <2>7, <2>8, <2>9 DEF Step
<1> QED
  BY <1>1, <1>2, <1>3 DEF Next

-----------------------------------------------------------------------------
(* Views *)

\* Nobody writes a memory that another request has a view of: the one who
\* writes is in the body with that very entry, and so is the one who has the
\* view, so they are the same.
\* Views stay what the entries hold when every memory is accounted for.
LEMMA KeepsVInv ==
  ASSUME IInv, VInv, Accounted
  PROVE  VInv'
<1>2. SUFFICES ASSUME NEW q \in Requests, view'[q] # NoView
               PROVE  InBody(q)' /\ view'[q] = ViewOf(entry'[held'[q]])
  BY DEF VInv, Seen, ViewOf
<1>3. /\ InBody(q) /\ phase'[q] = "body" /\ held'[q] = held[q]
      /\ \/ view'[q] = view[q]
         \/ view'[q] = ViewOf(entry'[held[q]])
  BY <1>2 DEF Accounted, Watched
<1>4. held[q] \in Entries
  BY <1>3 DEF IInv, TypeOK, RequestOK, InBody
<1>5. CASE view'[q] = view[q]
  <2>1. view[q] = ViewOf(entry[held[q]])
    BY <1>2, <1>5 DEF VInv, Seen
  <2>2. ~Unowned(held[q])
    BY <1>3 DEF Unowned
  <2>3. CASE SameMemory(entry'[held[q]], entry[held[q]])
    BY <1>3, <1>5, <2>1, <2>3 DEF SameMemory, ViewOf, InBody
  <2>4. ASSUME NEW r \in Requests, InBody(r), held[r] = held[q],
               view'[r] = ViewOf(entry'[held[q]])
        PROVE  view'[q] = ViewOf(entry'[held'[q]])
    <3>1. EntryOK(entry[held[q]], held[q], phase, held)
      BY <1>4 DEF IInv
    <3>2. r = q
      BY <1>3, <2>4, <3>1 DEF EntryOK, InBody
    <3> QED
      BY <1>3, <2>4, <3>2
  <2>5. Fate(held[q])
    BY <1>4 DEF Accounted
  <2> QED
    BY <1>3, <2>2, <2>3, <2>4, <2>5 DEF Fate, Spared, InBody
<1>6. CASE view'[q] = ViewOf(entry'[held[q]])
  BY <1>3, <1>6 DEF InBody
<1> QED
  BY <1>3, <1>5, <1>6

LEMMA StepVInv ==
  ASSUME IInv, VInv, [Next]_vars
  PROVE  VInv'
BY StepFate, KeepsVInv

\* What a request read from its session is still there when it uses it.
THEOREM Views == Spec => []ViewCurrent
<1>1. Init => IInv /\ VInv
  BY InitIInv DEF Init, VInv, Seen
<1>2. IInv /\ VInv /\ [Next]_vars => IInv' /\ VInv'
  BY StepIInv, StepVInv
<1>3. IInv /\ VInv => ViewCurrent
  <2> SUFFICES ASSUME IInv, VInv, NEW r \in Requests, InBody(r), view[r] # NoView
               PROVE  view[r] = <<entry[table[key[r]]].revision,
                                  entry[table[key[r]]].context>>
    BY DEF ViewCurrent
  <2>1. table[key[r]] = held[r]
    BY DEF IInv, RequestOK, InBody
  <2> QED
    BY <2>1 DEF VInv, Seen, ViewOf
<1> QED
  BY <1>1, <1>2, <1>3, PTL DEF Spec

-----------------------------------------------------------------------------
(* Exchanges *)

\* q holds the newest exchanges of a session whose revision is n.
Latest(q, n) ==
  /\ Len(q) = IF n < MaxRecent THEN n ELSE MaxRecent
  /\ \A i \in 1..Len(q) : q[i] = n - Len(q) + i

\* Recording one exchange more keeps the newest.
LEMMA RecordedLatest ==
  ASSUME NEW q \in Seq(Nat), NEW n \in Nat, Latest(q, n)
  PROVE  Latest(Newest(Append(q, n + 1)), n + 1)
<1> DEFINE a == Append(q, n + 1)
<1>1. /\ a \in Seq(Nat) /\ Len(a) = Len(q) + 1 /\ Len(q) \in Nat
      /\ a[Len(q) + 1] = n + 1
      /\ \A i \in 1..Len(q) : a[i] = q[i]
  OBVIOUS
<1>2. \A i \in 1..Len(a) : a[i] = n + 1 - Len(a) + i
  <2> SUFFICES ASSUME NEW i \in 1..Len(a)
               PROVE  a[i] = n + 1 - Len(a) + i
    OBVIOUS
  <2> HIDE DEF a
  <2>1. CASE i = Len(q) + 1
    BY <1>1, <2>1
  <2>2. CASE i # Len(q) + 1
    <3>1. i \in 1..Len(q)
      BY <1>1, <2>2
    <3>2. a[i] = q[i] /\ q[i] = n - Len(q) + i
      BY <1>1, <3>1 DEF Latest
    <3> QED
      BY <1>1, <3>2
  <2> QED
    BY <2>1, <2>2
<1> HIDE DEF a
<1>3. CASE Len(a) > MaxRecent
  <2> DEFINE b == SubSeq(a, Len(a) - MaxRecent + 1, Len(a))
  <2>1. /\ Len(b) = MaxRecent
        /\ \A i \in 1..MaxRecent : b[i] = a[Len(a) - MaxRecent + i]
    BY <1>1, <1>3, LimitsAssumption, SMTT(20)
  <2>2. Newest(a) = b
    BY <1>3 DEF Newest
  <2>3. n + 1 >= MaxRecent
    BY <1>1, <1>3, LimitsAssumption DEF Latest
  <2> HIDE DEF b
  <2>4. \A i \in 1..MaxRecent : b[i] = n + 1 - MaxRecent + i
    <3> SUFFICES ASSUME NEW i \in 1..MaxRecent
                 PROVE  b[i] = n + 1 - MaxRecent + i
      OBVIOUS
    <3> DEFINE j == Len(a) - MaxRecent + i
    <3>1. j \in 1..Len(a)
      BY <1>1, <1>3, LimitsAssumption
    <3>2. a[j] = n + 1 - Len(a) + j
      BY <1>2, <3>1
    <3>3. b[i] = a[j]
      BY <2>1
    <3>4. n + 1 - Len(a) + j = n + 1 - MaxRecent + i
      BY <1>1, LimitsAssumption
    <3> QED
      BY <3>2, <3>3, <3>4
  <2>5. Latest(b, n + 1)
    BY <2>1, <2>3, <2>4, LimitsAssumption DEF Latest
  <2> QED
    BY <2>2, <2>5 DEF a
<1>4. CASE ~(Len(a) > MaxRecent)
  <2>1. Newest(a) = a
    BY <1>4 DEF Newest
  <2>2. Len(a) = IF n + 1 < MaxRecent THEN n + 1 ELSE MaxRecent
    BY <1>1, <1>4, LimitsAssumption DEF Latest
  <2>3. Latest(a, n + 1)
    BY <1>2, <2>2 DEF Latest
  <2> QED
    BY <2>1, <2>3 DEF a
<1> QED
  BY <1>3, <1>4

RInv == \A e \in Entries : Latest(entry[e].recent, entry[e].revision)

LEMMA StepRInv ==
  ASSUME IInv, VInv, RInv, [Next]_vars
  PROVE  RInv'
<1>1. SUFFICES ASSUME NEW e \in Entries
               PROVE  Latest(entry'[e].recent, entry'[e].revision)
  BY DEF RInv, Latest
<1>2. /\ Latest(entry[e].recent, entry[e].revision)
      /\ entry[e].recent \in Seq(Nat) /\ entry[e].revision \in Nat
  BY DEF RInv, IInv, TypeOK, EntryRecord
<1>3. Fate(e)
  BY StepFate DEF Accounted
<1>4. CASE SameMemory(entry'[e], entry[e])
  BY <1>2, <1>4 DEF SameMemory
<1>5. CASE Unwritten(entry'[e])
  BY <1>5, LimitsAssumption DEF Unwritten, Latest
<1>6. CASE Written(entry[e], entry'[e])
  BY <1>2, <1>6, RecordedLatest DEF Written
<1> QED
  BY <1>3, <1>4, <1>5, <1>6 DEF Fate, Spared

\* The exchanges a session keeps are its newest, with none missing.
THEOREM Exchanges == Spec => []RecentIsNewest
<1>1. Init => IInv /\ VInv /\ RInv
  <2>1. Init => IInv /\ VInv
    BY InitIInv DEF Init, VInv, Seen
  <2>2. Init => RInv
    BY LimitsAssumption DEF Init, RInv, Latest, Blank, NewEntry
  <2> QED
    BY <2>1, <2>2
<1>2. IInv /\ VInv /\ RInv /\ [Next]_vars => IInv' /\ VInv' /\ RInv'
  BY StepIInv, StepVInv, StepRInv
<1>3. IInv /\ RInv => RecentIsNewest
  BY DEF RInv, Latest, RecentIsNewest, IInv, TypeOK, Present
<1> QED
  BY <1>1, <1>2, <1>3, PTL DEF Spec

-----------------------------------------------------------------------------
(* Capacity *)

\* Deleting sessions leaves no more of them; making room leaves room.
LEMMA ThinnedFewer ==
  ASSUME NEW tab, Thinned(tab), Bounded
  PROVE  /\ IsFiniteSet(Present(tab))
         /\ Cardinality(Present(tab)) <= MaxSessions
<1>1. Present(tab) \subseteq Present(table) /\ IsFiniteSet(Present(table))
  BY SessionsAssumption, FS_Subset DEF Thinned, Present
<1>2. /\ IsFiniteSet(Present(tab))
      /\ Cardinality(Present(tab)) <= Cardinality(Present(table))
      /\ Cardinality(Present(tab)) \in Nat /\ Cardinality(Present(table)) \in Nat
  BY <1>1, FS_Subset, FS_CardinalityType
<1> QED
  BY <1>2, LimitsAssumption DEF Bounded

LEMMA RoomIsLeft ==
  ASSUME NEW tab, Thinned(tab), Bounded, NEW room \in RoomFor(tab)
  PROVE  Cardinality(Present(room)) + 1 <= MaxSessions
<1>1. IsFiniteSet(Present(tab)) /\ Cardinality(Present(tab)) <= MaxSessions
  BY ThinnedFewer
<1>2. Cardinality(Present(tab)) \in Nat
  BY <1>1, FS_CardinalityType
<1>3. CASE ~Full(tab)
  <2>1. room = tab
    BY <1>3 DEF RoomFor
  <2> QED
    BY <1>2, <1>3, <2>1, LimitsAssumption DEF Full
<1>4. CASE Full(tab)
  <2>1. PICK v \in Sessions : IsVictim(tab, v) /\ room = [tab EXCEPT ![v] = NoEntry]
    BY <1>4 DEF RoomFor
  <2>2. v \in Present(tab) /\ Present(room) = Present(tab) \ {v}
    BY <2>1 DEF IsVictim, Candidates, Present, Thinned
  <2>3. Cardinality(Present(room)) = Cardinality(Present(tab)) - 1
    BY <1>1, <2>2, FS_RemoveElement
  <2> QED
    BY <1>1, <1>2, <2>3, LimitsAssumption
<1> QED
  BY <1>3, <1>4

LEMMA EnterBounded ==
  ASSUME IInv, Bounded, NEW r \in Requests, NEW s \in Sessions, Enter(r, s)
  PROVE  Bounded'
<1> DEFINE purged == Purged(now)
<1>1. Thinned(purged)
  BY PurgedThinned
<1>2. CASE purged[s] # NoEntry
  <2>1. table' = purged
    BY <1>2 DEF Enter
  <2> QED
    BY <1>1, <2>1, ThinnedFewer DEF Bounded, Present
<1>3. CASE purged[s] = NoEntry
  <2>1. PICK room \in RoomFor(purged) : table' = [room EXCEPT ![s] = Fresh(room)]
    BY <1>3 DEF Enter
  <2>2. Cardinality(Present(room)) + 1 <= MaxSessions
    BY <1>1, <2>1, RoomIsLeft
  <2>3. Thinned(room)
    BY <1>1, <2>1, RoomThinned
  <2>4. IsFiniteSet(Present(room)) /\ Cardinality(Present(room)) \in Nat
    BY <2>3, ThinnedFewer, FS_CardinalityType
  <2>5. Present(table') \subseteq Present(room) \cup {s}
    BY <2>1, <2>3 DEF Present, Thinned
  <2>6. /\ IsFiniteSet(Present(room) \cup {s})
        /\ Cardinality(Present(room) \cup {s}) <= Cardinality(Present(room)) + 1
    <3> DEFINE S == Present(room)
    <3> HIDE DEF S
    <3>1. IsFiniteSet(S) /\ Cardinality(S) \in Nat
      BY <2>4 DEF S
    <3>2. /\ IsFiniteSet(S \cup {s})
          /\ \/ Cardinality(S \cup {s}) = Cardinality(S)
             \/ Cardinality(S \cup {s}) = Cardinality(S) + 1
      BY <3>1, FS_AddElement
    <3> QED
      BY <3>1, <3>2 DEF S
  <2>7. /\ Cardinality(Present(table')) <= Cardinality(Present(room) \cup {s})
        /\ Cardinality(Present(table')) \in Nat
        /\ Cardinality(Present(room) \cup {s}) \in Nat
    BY <2>5, <2>6, FS_Subset, FS_CardinalityType
  <2> QED
    BY <2>2, <2>4, <2>6, <2>7, LimitsAssumption DEF Bounded, Present
<1> QED
  BY <1>2, <1>3

LEMMA StepBounded ==
  ASSUME IInv, Bounded, [Next]_vars
  PROVE  Bounded'
<1>1. CASE table' = table
  BY <1>1 DEF Bounded, Present
<1>2. CASE table' = Purged(now)
  BY <1>2, PurgedThinned, ThinnedFewer DEF Bounded, Present
<1>3. CASE \E r \in Requests, s \in Sessions : Enter(r, s)
  BY <1>3, EnterBounded
<1>4. table' = table \/ table' = Purged(now)
        \/ \E r \in Requests, s \in Sessions : Enter(r, s)
  BY DEF Next, Step, vars, Tick, Refuse, Resume, Cancel, Leave, Read, Put,
         AppendExchange, RefuseExchange, Touch
<1> QED
  BY <1>1, <1>2, <1>3, <1>4

\* The store never holds more sessions than it has room for.
THEOREM WithinBound == Spec => []Bounded
<1>1. Init => Bounded
  <2> SUFFICES ASSUME Init PROVE Bounded
    OBVIOUS
  <2>1. Present(table) = {}
    BY DEF Init, Present
  <2>2. Cardinality(Present(table)) = 0
    BY <2>1, FS_EmptySet
  <2> QED
    BY <2>2, LimitsAssumption DEF Bounded
<1>2. IInv /\ Bounded /\ [Next]_vars => Bounded'
  BY StepBounded
<1> QED
  BY <1>1, <1>2, Inductive, PTL DEF Spec

-----------------------------------------------------------------------------
(* Forgetting *)

LEMMA StepTable ==
  ASSUME IInv, VInv, [Next]_vars
  PROVE  \A s \in Sessions : TableFate(s)
<1>1. CASE table' = table
  BY <1>1 DEF TableFate
<1>2. CASE table' = Purged(now)
  BY <1>2, PurgedThinned, ThinnedAbandons DEF TableFate
<1>3. CASE \E r \in Requests, s \in Sessions : Enter(r, s)
  BY <1>3, EnterFate
<1>4. table' = table \/ table' = Purged(now)
        \/ \E r \in Requests, s \in Sessions : Enter(r, s)
  BY DEF Next, Step, vars, Tick, Refuse, Resume, Cancel, Leave, Read, Put,
         AppendExchange, RefuseExchange, Touch
<1> QED
  BY <1>1, <1>2, <1>3, <1>4

\* The purge deletes expired sessions that nobody refers to.
LEMMA PurgeForCause ==
  ASSUME IInv, NEW s \in Sessions, table[s] # NoEntry, Purged(now)[s] # table[s]
  PROVE  /\ \A r \in Requests : held[r] # table[s]
         /\ now - entry[table[s]].last >= Ttl
<1>1. s \in Expired(now)
  BY DEF Purged
<1>2. table[s] \in Entries /\ IsIdle(table[s])
  BY <1>1 DEF Expired, IInv, TypeOK
<1> QED
  BY <1>1, <1>2, IdleIsFree DEF Expired

\* A store that is still full after the purge had nothing to purge.
LEMMA FullHasNoExpired ==
  ASSUME IInv, Bounded, Full(Purged(now))
  PROVE  /\ Purged(now) = table
         /\ Cardinality(Present(table) \ Expired(now)) = MaxSessions
<1> DEFINE P == Present(table)
           E == Expired(now)
           S == P \ E
<1>1. Present(Purged(now)) = S
  BY DEF Present, Purged, Expired
<1>2. IsFiniteSet(P) /\ IsFiniteSet(S) /\ E \subseteq P
  BY SessionsAssumption, FS_Subset DEF Present, Expired
<1>3. Cardinality(P) <= MaxSessions /\ Cardinality(S) >= MaxSessions
  BY <1>1 DEF Bounded, Full
<1> HIDE DEF P, E
<1>4. Cardinality(P) \in Nat /\ Cardinality(S) \in Nat /\ Cardinality(S) <= Cardinality(P)
  BY <1>2, FS_Subset, FS_CardinalityType
<1>5. Cardinality(S) = MaxSessions /\ Cardinality(S) = Cardinality(P)
  BY <1>3, <1>4, LimitsAssumption
<1>6. S = P
  BY <1>2, <1>5, FS_Subset
<1>7. E = {}
  BY <1>2, <1>6
<1>8. Purged(now) = table
  BY <1>7 DEF E, Purged, IInv, TypeOK
<1> QED
  BY <1>5, <1>8 DEF P, E

\* A session makes room only when no request refers to it, and only for want
\* of a less recently used one.
LEMMA EvictForCause ==
  ASSUME IInv, Bounded, NEW room \in RoomFor(Purged(now)), NEW s \in Sessions,
         table[s] # NoEntry, room[s] # Purged(now)[s]
  PROVE  /\ \A r \in Requests : held[r] # table[s]
         /\ Cardinality(Present(table) \ Expired(now)) = MaxSessions
         /\ \A u \in Candidates(table) : entry[table[s]].last <= entry[table[u]].last
<1>1. Full(Purged(now))
  BY DEF RoomFor
<1>2. /\ Purged(now) = table
      /\ Cardinality(Present(table) \ Expired(now)) = MaxSessions
  BY <1>1, FullHasNoExpired
<1>3. PICK v \in Sessions : IsVictim(table, v) /\ room = [table EXCEPT ![v] = NoEntry]
  BY <1>1, <1>2 DEF RoomFor
<1>4. s = v
  BY <1>2, <1>3 DEF IInv, TypeOK
<1>5. table[s] \in Entries /\ IsIdle(table[s])
  BY <1>3, <1>4 DEF IsVictim, Candidates, IInv, TypeOK
<1>6. \A u \in Candidates(table) : table[u] \in Entries
  BY DEF Candidates, Present, IInv, TypeOK
<1>7. \A e \in Entries : entry[e].last \in Nat
  BY DEF IInv, TypeOK, EntryRecord
<1>8. \A u \in Candidates(table) : entry[table[s]].last <= entry[table[u]].last
  BY <1>3, <1>4, <1>5, <1>6, <1>7 DEF IsVictim
<1> QED
  BY <1>2, <1>5, <1>8, IdleIsFree

LEMMA StepForCause ==
  ASSUME IInv, Bounded, [Next]_vars
  PROVE  ForCause
<1> SUFFICES ASSUME NEW s \in Sessions, table[s] # NoEntry, table'[s] # table[s]
             PROVE  /\ \A r \in Requests : held[r] # table[s]
                    /\ \/ now - entry[table[s]].last >= Ttl
                       \/ /\ Cardinality(Present(table) \ Expired(now)) = MaxSessions
                          /\ \A u \in Candidates(table) :
                               entry[table[s]].last <= entry[table[u]].last
  BY DEF ForCause
<1>1. CASE table' = Purged(now)
  BY <1>1, PurgeForCause
<1>2. ASSUME NEW r \in Requests, NEW t \in Sessions, Enter(r, t), table' # Purged(now)
      PROVE  \E room \in RoomFor(Purged(now)) :
               Purged(now)[t] = NoEntry /\ table' = [room EXCEPT ![t] = Fresh(room)]
  BY <1>2 DEF Enter
<1>3. ASSUME NEW t \in Sessions, NEW room \in RoomFor(Purged(now)),
             Purged(now)[t] = NoEntry, table' = [room EXCEPT ![t] = Fresh(room)]
      PROVE  room[s] # table[s]
  <2>1. Thinned(room) /\ Thinned(Purged(now))
    BY PurgedThinned, RoomThinned
  <2>2. CASE s = t
    <3>1. room[s] = NoEntry
      BY <1>3, <2>2 DEF RoomFor, Thinned, Purged
    <3> QED
      BY <3>1
  <2>3. CASE s # t
    BY <1>3, <2>1, <2>3 DEF Thinned
  <2> QED
    BY <2>2, <2>3
<1>4. ASSUME NEW room \in RoomFor(Purged(now)), room[s] # table[s]
      PROVE  /\ \A r \in Requests : held[r] # table[s]
             /\ \/ now - entry[table[s]].last >= Ttl
                \/ /\ Cardinality(Present(table) \ Expired(now)) = MaxSessions
                   /\ \A u \in Candidates(table) :
                        entry[table[s]].last <= entry[table[u]].last
  <2>1. CASE Purged(now)[s] # table[s]
    BY <2>1, PurgeForCause
  <2>2. CASE Purged(now)[s] = table[s]
    BY <1>4, <2>2, EvictForCause
  <2> QED
    BY <2>1, <2>2
<1>5. table' = Purged(now) \/ \E r \in Requests, t \in Sessions : Enter(r, t)
  BY DEF Next, Step, vars, Tick, Refuse, Resume, Cancel, Leave, Read, Put,
         AppendExchange, RefuseExchange, Touch
<1> QED
  BY <1>1, <1>2, <1>3, <1>4, <1>5

\* A session in use is never forgotten, and an idle one only when it expired or
\* when it was the least recently used of a full store that needed room.
THEOREM ForgetsForCause == Spec => ForgottenForCause
<1>1. IInv /\ Bounded /\ [Next]_vars => [ForCause]_vars
  BY StepForCause
<1> QED
  BY <1>1, Inductive, WithinBound, PTL DEF Spec, ForgottenForCause

-----------------------------------------------------------------------------
(* The store implements Conversation *)

\* Request r is in the body for session s, when requests are in phases ph with
\* the session ids ky.
Inside(ph, ky, r, s) == ph[r] = "body" /\ ky[r] = s

OwnerIn(ph, ky) ==
  [s \in Sessions |->
     IF \E r \in Requests : Inside(ph, ky, r, s)
       THEN CHOOSE r \in Requests : Inside(ph, ky, r, s)
       ELSE NoEntry]

Exclusive(ph, ky) ==
  \A s \in Sessions, r, q \in Requests :
    Inside(ph, ky, r, s) /\ Inside(ph, ky, q, s) => r = q

LEMMA OwnerIs ==
  ASSUME NEW ph, NEW ky, Exclusive(ph, ky), NEW s \in Sessions
  PROVE  /\ \A r \in Requests : Inside(ph, ky, r, s) <=> OwnerIn(ph, ky)[s] = r
         /\ OwnerIn(ph, ky)[s] = NoEntry <=> \A r \in Requests : ~Inside(ph, ky, r, s)
<1>1. CASE \E r \in Requests : Inside(ph, ky, r, s)
  <2> DEFINE o == CHOOSE r \in Requests : Inside(ph, ky, r, s)
  <2>1. OwnerIn(ph, ky)[s] = o
    BY <1>1 DEF OwnerIn
  <2>2. o \in Requests /\ Inside(ph, ky, o, s)
    BY <1>1
  <2> HIDE DEF o
  <2>3. \A r \in Requests : Inside(ph, ky, r, s) => r = o
    BY <2>2 DEF Exclusive
  <2> QED
    BY <2>1, <2>2, <2>3, EntriesAssumption
<1>2. CASE \A r \in Requests : ~Inside(ph, ky, r, s)
  <2>1. OwnerIn(ph, ky)[s] = NoEntry
    BY <1>2 DEF OwnerIn
  <2> QED
    BY <1>2, <2>1, EntriesAssumption
<1> QED
  BY <1>1, <1>2

\* Owners are a function of who is inside what.
LEMMA SameOwners ==
  ASSUME NEW ph, NEW ky, NEW ph2, NEW ky2, Exclusive(ph, ky), Exclusive(ph2, ky2),
         \A r \in Requests, s \in Sessions : Inside(ph2, ky2, r, s) <=> Inside(ph, ky, r, s)
  PROVE  OwnerIn(ph2, ky2) = OwnerIn(ph, ky)
<1>1. ASSUME NEW s \in Sessions PROVE OwnerIn(ph2, ky2)[s] = OwnerIn(ph, ky)[s]
  <2>1. CASE OwnerIn(ph, ky)[s] = NoEntry
    BY <2>1, OwnerIs
  <2>2. CASE OwnerIn(ph, ky)[s] # NoEntry
    <3>1. PICK r \in Requests : Inside(ph, ky, r, s)
      BY <2>2, OwnerIs
    <3> QED
      BY <3>1, OwnerIs
  <2> QED
    BY <2>1, <2>2
<1> QED
  BY <1>1 DEF OwnerIn

\* One request enters a session nobody is inside.
LEMMA OwnerBegins ==
  ASSUME NEW ph, NEW ky, NEW ph2, NEW ky2, Exclusive(ph, ky), Exclusive(ph2, ky2),
         NEW q \in Requests, NEW u \in Sessions,
         \A r \in Requests \ {q}, s \in Sessions :
           Inside(ph2, ky2, r, s) <=> Inside(ph, ky, r, s),
         \A s \in Sessions : ~Inside(ph, ky, q, s),
         \A r \in Requests : ~Inside(ph, ky, r, u),
         \A s \in Sessions : Inside(ph2, ky2, q, s) <=> s = u
  PROVE  /\ OwnerIn(ph, ky)[u] = NoEntry
         /\ \A s \in Sessions : OwnerIn(ph, ky)[s] # q
         /\ OwnerIn(ph2, ky2) = [OwnerIn(ph, ky) EXCEPT ![u] = q]
<1>1. OwnerIn(ph, ky)[u] = NoEntry
  BY OwnerIs
<1>2. \A s \in Sessions : OwnerIn(ph, ky)[s] # q
  BY OwnerIs
<1>3. ASSUME NEW s \in Sessions
      PROVE  OwnerIn(ph2, ky2)[s] = IF s = u THEN q ELSE OwnerIn(ph, ky)[s]
  <2>1. CASE s = u
    BY <2>1, OwnerIs
  <2>2. CASE s # u /\ OwnerIn(ph, ky)[s] = NoEntry
    <3>1. \A r \in Requests : ~Inside(ph2, ky2, r, s)
      BY <2>2, OwnerIs
    <3> QED
      BY <2>2, <3>1, OwnerIs
  <2>3. CASE s # u /\ OwnerIn(ph, ky)[s] # NoEntry
    <3>1. PICK r \in Requests : Inside(ph, ky, r, s)
      BY <2>3, OwnerIs
    <3>2. r # q
      BY <3>1
    <3>3. Inside(ph2, ky2, r, s)
      BY <3>1, <3>2
    <3> QED
      BY <2>3, <3>1, <3>3, OwnerIs
  <2> QED
    BY <2>1, <2>2, <2>3
<1>4. OwnerIn(ph2, ky2) = [OwnerIn(ph, ky) EXCEPT ![u] = q]
  BY <1>3 DEF OwnerIn
<1> QED
  BY <1>1, <1>2, <1>4

\* The one request inside a session leaves it.
LEMMA OwnerEnds ==
  ASSUME NEW ph, NEW ky, NEW ph2, NEW ky2, Exclusive(ph, ky), Exclusive(ph2, ky2),
         NEW q \in Requests, NEW u \in Sessions,
         \A r \in Requests \ {q}, s \in Sessions :
           Inside(ph2, ky2, r, s) <=> Inside(ph, ky, r, s),
         \A s \in Sessions : Inside(ph, ky, q, s) <=> s = u,
         \A s \in Sessions : ~Inside(ph2, ky2, q, s)
  PROVE  /\ OwnerIn(ph, ky)[u] # NoEntry
         /\ OwnerIn(ph2, ky2) = [OwnerIn(ph, ky) EXCEPT ![u] = NoEntry]
<1>1. OwnerIn(ph, ky)[u] # NoEntry
  BY OwnerIs
<1>2. \A r \in Requests : ~Inside(ph2, ky2, r, u)
  <2> SUFFICES ASSUME NEW r \in Requests, Inside(ph2, ky2, r, u)
               PROVE  FALSE
    OBVIOUS
  <2>1. r # q
    OBVIOUS
  <2>2. Inside(ph, ky, r, u) /\ Inside(ph, ky, q, u)
    BY <2>1
  <2> QED
    BY <2>1, <2>2 DEF Exclusive
<1>3. ASSUME NEW s \in Sessions
      PROVE  OwnerIn(ph2, ky2)[s] = IF s = u THEN NoEntry ELSE OwnerIn(ph, ky)[s]
  <2>1. CASE s = u
    BY <1>2, <2>1, OwnerIs
  <2>2. CASE s # u /\ OwnerIn(ph, ky)[s] = NoEntry
    <3>1. \A r \in Requests : ~Inside(ph2, ky2, r, s)
      BY <2>2, OwnerIs
    <3> QED
      BY <2>2, <3>1, OwnerIs
  <2>3. CASE s # u /\ OwnerIn(ph, ky)[s] # NoEntry
    <3>1. PICK r \in Requests : Inside(ph, ky, r, s)
      BY <2>3, OwnerIs
    <3>2. r # q
      BY <2>3, <3>1
    <3>3. Inside(ph2, ky2, r, s)
      BY <3>1, <3>2
    <3> QED
      BY <2>3, <3>1, <3>3, OwnerIs
  <2> QED
    BY <2>1, <2>2, <2>3
<1>4. OwnerIn(ph2, ky2) = [OwnerIn(ph, ky) EXCEPT ![u] = NoEntry]
  BY <1>3 DEF OwnerIn
<1> QED
  BY <1>1, <1>4

LEMMA OwnerDefined == Owner = OwnerIn(phase, key)
BY DEF Owner, OwnerIn, Inside, InBody

\* What a session remembers is as it was, or was forgotten while nobody owned it.
MemoryKept(s) ==
  \/ Memory'[s] = Memory[s]
  \/ Memory'[s] = Promise!Forgotten /\ Abandoned(s)

LEMMA SparedMemory ==
  ASSUME IInv, NEW s \in Sessions, TableFate(s),
         \A e \in Entries : table[s] = e => Spared(e)
  PROVE  MemoryKept(s)
<1>1. CASE table'[s] = table[s] /\ table[s] = NoEntry
  BY <1>1 DEF MemoryKept, Memory
<1>2. CASE table'[s] = table[s] /\ table[s] # NoEntry
  <2> DEFINE e == table[s]
  <2>1. e \in Entries /\ Spared(e)
    BY <1>2 DEF IInv, TypeOK
  <2>2. /\ Memory[s] = [context |-> entry[e].context, revision |-> entry[e].revision]
        /\ Memory'[s] = [context |-> entry'[e].context, revision |-> entry'[e].revision]
    BY <1>2 DEF Memory
  <2>3. Unowned(e) => Abandoned(s)
    BY DEF Unowned, Abandoned, IInv, RequestOK, InBody
  <2> HIDE DEF e
  <2> QED
    BY <2>1, <2>2, <2>3 DEF Spared, SameMemory, Unwritten, MemoryKept, Promise!Forgotten
<1>3. CASE Abandoned(s) /\ table'[s] = NoEntry
  BY <1>3 DEF MemoryKept, Memory, Promise!Forgotten
<1>4. CASE /\ Abandoned(s)
           /\ table'[s] \in Entries /\ Unwritten(entry'[table'[s]])
  <2>1. table'[s] # NoEntry
    BY <1>4, EntriesAssumption
  <2> QED
    BY <1>4, <2>1 DEF MemoryKept, Memory, Promise!Forgotten, Unwritten
<1> QED
  BY <1>1, <1>2, <1>3, <1>4 DEF TableFate

\* Nobody owns an abandoned session.
LEMMA AbandonedUnowned ==
  ASSUME MutualExclusion, NEW s \in Sessions
  PROVE  Abandoned(s) <=> Owner[s] = NoEntry
<1>1. Exclusive(phase, key)
  BY DEF MutualExclusion, Exclusive, Inside, InBody
<1>2. Abandoned(s) <=> \A r \in Requests : ~Inside(phase, key, r, s)
  BY DEF Abandoned, Inside, InBody
<1> QED
  BY <1>1, <1>2, OwnerIs, OwnerDefined

\* The sessions a step forgot, seen from outside.
Dropped == {s \in Sessions : Abandoned(s) /\ Memory'[s] = Promise!Forgotten}

LEMMA KeptIsWithout ==
  ASSUME MutualExclusion, NEW s \in Sessions, MemoryKept(s)
  PROVE  Memory'[s] = Promise!Without(Dropped)[s]
BY DEF MemoryKept, Dropped, Promise!Without

LEMMA DroppedUnowned ==
  ASSUME MutualExclusion
  PROVE  Dropped \in SUBSET {s \in Sessions : Owner[s] = NoEntry}
BY AbandonedUnowned DEF Dropped

LEMMA AllSparedMemory ==
  ASSUME IInv, MutualExclusion, AllSpared, \A s \in Sessions : TableFate(s)
  PROVE  Memory' = Promise!Without(Dropped)
<1>1. \A s \in Sessions : Memory'[s] = Promise!Without(Dropped)[s]
  BY SparedMemory, KeptIsWithout DEF AllSpared
<1> QED
  BY <1>1 DEF Memory, Promise!Without

\* A method writes the memory of the session its request owns.
LEMMA WrittenMemory ==
  ASSUME IInv, MutualExclusion, NEW r \in Requests, InBody(r), NEW c, NEW n,
         OneWritten(r, c, n), \A s \in Sessions : TableFate(s)
  PROVE  /\ key[r] \in Sessions /\ Owner[key[r]] # NoEntry
         /\ Memory[key[r]] = [context  |-> entry[held[r]].context,
                              revision |-> entry[held[r]].revision]
         /\ Memory' = [Promise!Without(Dropped) EXCEPT
                         ![key[r]] = [context |-> c, revision |-> n]]
         /\ Promise!Without(Dropped)[key[r]] = Memory[key[r]]
<1> DEFINE u == key[r]
           e == held[r]
<1>1. u \in Sessions /\ table[u] = e /\ e \in Entries /\ e # NoEntry
  BY EntriesAssumption DEF IInv, TypeOK, RequestOK, InBody
<1>2. ~Abandoned(u)
  BY DEF Abandoned
<1>3. table'[u] = e
  BY <1>1, <1>2 DEF TableFate
<1>4. Memory[u] = [context |-> entry[e].context, revision |-> entry[e].revision]
  BY <1>1 DEF Memory
<1>5. Memory'[u] = [context |-> c, revision |-> n]
  BY <1>1, <1>3 DEF Memory, OneWritten
<1>6. ASSUME NEW s \in Sessions, s # u
      PROVE  Memory'[s] = Promise!Without(Dropped)[s]
  <2>1. table[s] # e
    BY <1>1, <1>6 DEF IInv, OneSessionEach
  <2>2. MemoryKept(s)
    BY <2>1, SparedMemory DEF OneWritten
  <2> QED
    BY <2>2, KeptIsWithout
<1>7. Promise!Without(Dropped)[u] = Memory[u]
  BY <1>1, <1>2 DEF Dropped, Promise!Without
<1>8. Owner[u] # NoEntry
  BY <1>1, <1>2, AbandonedUnowned
<1>9. Memory' = [Promise!Without(Dropped) EXCEPT ![u] = [context |-> c, revision |-> n]]
  <2> DEFINE W == Promise!Without(Dropped)
  <2>1. W = [s \in Sessions |-> W[s]] /\ Memory' = [s \in Sessions |-> Memory'[s]]
    BY DEF Promise!Without, Memory
  <2> HIDE DEF W, u
  <2>2. \A s \in Sessions : s # u => Memory'[s] = W[s]
    BY <1>6 DEF W
  <2> QED
    BY <1>1, <1>5, <2>1, <2>2 DEF W
<1> QED
  BY <1>1, <1>4, <1>7, <1>8, <1>9

LEMMA NowExclusive ==
  ASSUME MutualExclusion, MutualExclusion'
  PROVE  Exclusive(phase, key) /\ Exclusive(phase', key')
BY DEF MutualExclusion, Exclusive, Inside, InBody

\* A step that lets nobody in or out and writes nothing.
LEMMA QuietPromise ==
  ASSUME IInv, MutualExclusion, MutualExclusion', AllSpared,
         \A s \in Sessions : TableFate(s),
         \A q \in Requests, s \in Sessions :
           Inside(phase', key', q, s) <=> Inside(phase, key, q, s)
  PROVE  Promise!Next
<1>1. Owner' = Owner
  BY NowExclusive, SameOwners DEF Owner, OwnerIn, Inside, InBody
<1>2. Memory' = Promise!Without(Dropped)
  BY AllSparedMemory
<1> QED
  BY <1>1, <1>2, DroppedUnowned DEF Promise!Next

\* A step that lets a request into a session nobody owns.
LEMMA BeginPromise ==
  ASSUME IInv, MutualExclusion, MutualExclusion', AllSpared,
         \A s \in Sessions : TableFate(s),
         NEW r \in Requests, NEW u \in Sessions, ~InBody(r), Abandoned(u),
         phase'[r] = "body", key'[r] = u,
         \A q \in Requests \ {r}, s \in Sessions :
           Inside(phase', key', q, s) <=> Inside(phase, key, q, s)
  PROVE  Promise!Next
<1>1. /\ OwnerIn(phase, key)[u] = NoEntry
      /\ \A s \in Sessions : OwnerIn(phase, key)[s] # r
      /\ OwnerIn(phase', key') = [OwnerIn(phase, key) EXCEPT ![u] = r]
  <2>1. \A s \in Sessions : ~Inside(phase, key, r, s)
    BY DEF Inside, InBody
  <2>2. \A q \in Requests : ~Inside(phase, key, q, u)
    BY DEF Inside, InBody, Abandoned
  <2>3. \A s \in Sessions : Inside(phase', key', r, s) <=> s = u
    BY DEF Inside
  <2> QED
    BY <2>1, <2>2, <2>3, NowExclusive, OwnerBegins
<1>2. Owner' = OwnerIn(phase', key') /\ Owner = OwnerIn(phase, key)
  BY DEF Owner, OwnerIn, Inside, InBody
<1>3. Promise!Begin(r, u)
  BY <1>1, <1>2 DEF Promise!Begin
<1>4. Memory' = Promise!Without(Dropped)
  BY AllSparedMemory
<1> QED
  BY <1>3, <1>4, DroppedUnowned DEF Promise!Next

\* A step that lets the owner of a session out.
LEMMA EndPromise ==
  ASSUME IInv, MutualExclusion, MutualExclusion', AllSpared,
         \A s \in Sessions : TableFate(s),
         NEW r \in Requests, InBody(r), phase'[r] # "body",
         \A q \in Requests \ {r}, s \in Sessions :
           Inside(phase', key', q, s) <=> Inside(phase, key, q, s)
  PROVE  Promise!Next
<1> DEFINE u == key[r]
<1>1. u \in Sessions
  BY DEF IInv, RequestOK, InBody
<1>2. /\ OwnerIn(phase, key)[u] # NoEntry
      /\ OwnerIn(phase', key') = [OwnerIn(phase, key) EXCEPT ![u] = NoEntry]
  <2>1. \A s \in Sessions : Inside(phase, key, r, s) <=> s = u
    BY DEF Inside, InBody
  <2>2. \A s \in Sessions : ~Inside(phase', key', r, s)
    BY DEF Inside
  <2> QED
    BY <1>1, <2>1, <2>2, NowExclusive, OwnerEnds
<1>3. Owner' = OwnerIn(phase', key') /\ Owner = OwnerIn(phase, key)
  BY DEF Owner, OwnerIn, Inside, InBody
<1>4. Promise!End(u)
  BY <1>2, <1>3 DEF Promise!End
<1>5. Memory' = Promise!Without(Dropped)
  BY AllSparedMemory
<1> QED
  BY <1>1, <1>4, <1>5, DroppedUnowned DEF Promise!Next

\* A method of the owner: it changes the context, or the revision by one, or
\* neither.
LEMMA WritePromise ==
  ASSUME IInv, MutualExclusion, MutualExclusion', NEW r \in Requests, InBody(r),
         NEW c, NEW n, OneWritten(r, c, n), UNCHANGED <<phase, key>>,
         \A s \in Sessions : TableFate(s),
         \/ c = entry[held[r]].context /\ n = entry[held[r]].revision
         \/ c \in Contexts /\ n = entry[held[r]].revision
         \/ c = entry[held[r]].context /\ n = entry[held[r]].revision + 1
  PROVE  Promise!Next
<1> DEFINE u == key[r]
           W == Promise!Without(Dropped)
           x == entry[held[r]].context
           v == entry[held[r]].revision
<1>1. /\ u \in Sessions /\ Owner[u] # NoEntry
      /\ W[u] = [context |-> x, revision |-> v]
      /\ Memory' = [W EXCEPT ![u] = [context |-> c, revision |-> n]]
  BY WrittenMemory
<1>2. Owner' = Owner
  BY NowExclusive, SameOwners DEF Owner, OwnerIn, Inside, InBody
<1>3. Dropped \in SUBSET {s \in Sessions : Owner[s] = NoEntry}
  BY DroppedUnowned
<1>4. W = [s \in Sessions |-> W[s]]
  BY DEF Promise!Without
<1> HIDE DEF u, x, v
<1>5. CASE c = x /\ n = v
  <2>1. Memory' = W
    <3> HIDE DEF W
    <3> QED
      BY <1>1, <1>4, <1>5
  <2> QED
    BY <1>2, <1>3, <2>1 DEF Promise!Next
<1>6. CASE c \in Contexts /\ n = v
  <2>1. Memory' = [W EXCEPT ![u].context = c]
    <3>1. [W[u] EXCEPT !.context = c] = [context |-> c, revision |-> v]
      BY <1>1
    <3> HIDE DEF W
    <3>2. [W EXCEPT ![u].context = c] = [W EXCEPT ![u] = [context |-> c, revision |-> v]]
      BY <3>1
    <3> QED
      BY <1>1, <1>6, <3>2
  <2>2. Promise!Save(u, c, W)
    BY <1>1, <2>1 DEF Promise!Save
  <2> HIDE DEF W
  <2> QED
    BY <1>1, <1>2, <1>3, <1>6, <2>2 DEF Promise!Next, W
<1>7. CASE c = x /\ n = v + 1
  <2>1. Memory' = [W EXCEPT ![u].revision = @ + 1]
    <3>1. [W[u] EXCEPT !.revision = @ + 1] = [context |-> x, revision |-> v + 1]
      BY <1>1
    <3> HIDE DEF W
    <3>2. [W EXCEPT ![u].revision = @ + 1]
            = [W EXCEPT ![u] = [context |-> x, revision |-> v + 1]]
      BY <3>1
    <3> QED
      BY <1>1, <1>7, <3>2
  <2>2. Promise!Record(u, W)
    BY <1>1, <2>1 DEF Promise!Record
  <2> HIDE DEF W
  <2> QED
    BY <1>1, <1>2, <1>3, <2>2 DEF Promise!Next, W
<1> QED
  BY <1>5, <1>6, <1>7 DEF x, v

LEMMA EnterPromise ==
  ASSUME IInv, VInv, MutualExclusion, MutualExclusion',
         NEW r \in Requests, NEW s \in Sessions, Enter(r, s)
  PROVE  Promise!Next
<1>1. AllSpared /\ \A u \in Sessions : TableFate(u)
  BY EnterFate
<1>2. /\ phase[r] = "idle" /\ key' = [key EXCEPT ![r] = s]
      /\ \/ phase' = [phase EXCEPT ![r] = "body"]
         \/ phase' = [phase EXCEPT ![r] = "queued"]
  BY DEF Enter, Join
<1>3. /\ \A q \in Requests \ {r}, u \in Sessions :
           Inside(phase', key', q, u) <=> Inside(phase, key, q, u)
      /\ key'[r] = s /\ ~InBody(r)
  BY <1>2 DEF Inside, InBody, IInv, TypeOK
<1>4. CASE phase' = [phase EXCEPT ![r] = "queued"]
  <2>1. \A u \in Sessions : ~Inside(phase', key', r, u) /\ ~Inside(phase, key, r, u)
    BY <1>2, <1>4 DEF Inside, IInv, TypeOK
  <2> QED
    BY <1>1, <1>3, <2>1, QuietPromise
<1>5. CASE phase' = [phase EXCEPT ![r] = "body"]
  <2>1. phase'[r] = "body"
    BY <1>5 DEF IInv, TypeOK
  <2>2. Abandoned(s)
    <3> SUFFICES ASSUME NEW q \in Requests, InBody(q), key[q] = s
                 PROVE  FALSE
      BY DEF Abandoned
    <3>1. q # r
      BY <1>3
    <3>2. InBody(q)' /\ InBody(r)' /\ key'[q] = s
      BY <1>2, <1>5, <2>1, <3>1 DEF InBody, IInv, TypeOK
    <3> QED
      BY <1>3, <3>1, <3>2 DEF MutualExclusion
  <2> QED
    BY <1>1, <1>3, <2>1, <2>2, BeginPromise
<1> QED
  BY <1>2, <1>4, <1>5

LEMMA ResumePromise ==
  ASSUME IInv, VInv, MutualExclusion, MutualExclusion', NEW r \in Requests, Resume(r)
  PROVE  Promise!Next
<1>1. AllSpared /\ \A u \in Sessions : TableFate(u)
  BY ResumeFate DEF Resume, TableFate
<1>2. /\ phase[r] = "woken" /\ key' = key /\ phase' = [phase EXCEPT ![r] = "body"]
      /\ phase'[r] = "body"
  BY DEF Resume, IInv, TypeOK
<1>3. key[r] \in Sessions /\ ~InBody(r)
  BY <1>2 DEF IInv, RequestOK, InBody
<1>4. \A q \in Requests \ {r}, u \in Sessions :
        Inside(phase', key', q, u) <=> Inside(phase, key, q, u)
  BY <1>2 DEF Inside, IInv, TypeOK
<1>5. Abandoned(key[r])
  <2> SUFFICES ASSUME NEW q \in Requests, InBody(q), key[q] = key[r]
               PROVE  FALSE
    BY DEF Abandoned
  <2>1. q # r
    BY <1>3
  <2>2. InBody(q)' /\ InBody(r)' /\ key'[q] = key'[r]
    BY <1>2, <2>1 DEF InBody, IInv, TypeOK
  <2> QED
    BY <2>1, <2>2 DEF MutualExclusion
<1> QED
  BY <1>1, <1>2, <1>3, <1>4, <1>5, BeginPromise

\* Waking the first waiter lets nobody in yet.
LEMMA WakeOwners ==
  ASSUME IInv, NEW r \in Requests, NEW w \in Seq(Requests),
         \/ phase' = [phase EXCEPT ![r] = "idle"]
         \/ phase' = WakeFirst(w, [phase EXCEPT ![r] = "idle"]),
         w # << >> => phase[Head(w)] \in {"queued", "woken"},
         key' = [key EXCEPT ![r] = NoEntry]
  PROVE  /\ phase'[r] # "body"
         /\ \A q \in Requests \ {r}, u \in Sessions :
              Inside(phase', key', q, u) <=> Inside(phase, key, q, u)
BY DEF WakeFirst, Inside, IInv, TypeOK

\* The first of a queue waits.
LEMMA HeadWaits ==
  ASSUME NEW x \in EntryRecord, NEW e, EntryOK(x, e, phase, held)
  PROVE  /\ x.waiters \in Seq(Requests)
         /\ x.waiters # << >> => phase[Head(x.waiters)] \in {"queued", "woken"}
<1>1. x.waiters \in Seq(Requests)
  BY DEF EntryRecord
<1>2. x.waiters # << >> => 1 \in 1..Len(x.waiters) /\ Head(x.waiters) = x.waiters[1]
  BY <1>1
<1> QED
  BY <1>1, <1>2 DEF EntryOK

LEMMA LeavePromise ==
  ASSUME IInv, VInv, MutualExclusion, MutualExclusion', NEW r \in Requests, Leave(r)
  PROVE  Promise!Next
<1> DEFINE w == entry[held[r]].waiters
<1>1. AllSpared /\ \A u \in Sessions : TableFate(u)
  BY LeaveFate DEF Leave, TableFate
<1>2. InBody(r) /\ held[r] \in Entries
  BY DEF Leave, InBody, IInv, TypeOK, RequestOK
<1>3. /\ phase' = WakeFirst(w, [phase EXCEPT ![r] = "idle"])
      /\ key' = [key EXCEPT ![r] = NoEntry]
  BY DEF Leave
<1>4. w \in Seq(Requests) /\ (w # << >> => phase[Head(w)] \in {"queued", "woken"})
  BY <1>2, HeadWaits DEF IInv, TypeOK
<1> HIDE DEF w
<1> QED
  BY <1>1, <1>2, <1>3, <1>4, WakeOwners, EndPromise

LEMMA CancelPromise ==
  ASSUME IInv, VInv, MutualExclusion, MutualExclusion', NEW r \in Requests, Cancel(r)
  PROVE  Promise!Next
<1> DEFINE w == Without(entry[held[r]].waiters, r)
<1>1. AllSpared /\ \A u \in Sessions : TableFate(u)
  BY CancelFate DEF Cancel, TableFate
<1>2. phase[r] \in {"queued", "woken"} /\ held[r] \in Entries
  BY DEF Cancel, IInv, TypeOK, RequestOK
<1>3. /\ \/ phase' = [phase EXCEPT ![r] = "idle"]
         \/ phase' = WakeFirst(w, [phase EXCEPT ![r] = "idle"])
      /\ key' = [key EXCEPT ![r] = NoEntry]
  BY DEF Cancel
<1>4. w \in Seq(Requests) /\ (w # << >> => phase[Head(w)] \in {"queued", "woken"})
  BY <1>2, WithoutWaits
<1> HIDE DEF w
<1>5. /\ phase'[r] # "body"
      /\ \A q \in Requests \ {r}, u \in Sessions :
           Inside(phase', key', q, u) <=> Inside(phase, key, q, u)
  BY <1>3, <1>4, WakeOwners
<1>6. \A u \in Sessions : ~Inside(phase', key', r, u) /\ ~Inside(phase, key, r, u)
  BY <1>2, <1>5 DEF Inside
<1>7. \A q \in Requests, u \in Sessions :
        Inside(phase', key', q, u) <=> Inside(phase, key, q, u)
  BY <1>5, <1>6
<1> QED
  BY <1>1, <1>7, QuietPromise

LEMMA StepPromise ==
  ASSUME IInv, VInv, MutualExclusion, MutualExclusion', [Next]_vars
  PROVE  [Promise!Next]_(Promise!vars)
<1>1. CASE UNCHANGED vars
  BY <1>1 DEF vars, Promise!vars, Owner, Memory, InBody
<1>2. CASE Tick
  BY <1>2 DEF Tick, Promise!vars, Owner, Memory, InBody
<1>3. ASSUME NEW r \in Requests, Step(r)
      PROVE  Promise!Next
  <2>1. \A u \in Sessions : TableFate(u)
    BY <1>3, StepTable DEF Next
  <2>2. ASSUME NEW s \in Sessions, Enter(r, s) PROVE Promise!Next
    BY <2>2, EnterPromise
  <2>3. ASSUME UNCHANGED <<phase, key, held, view>>, entry' = Objects(Purged(now))
        PROVE  Promise!Next
    BY <2>1, <2>3, QuietFate, QuietPromise DEF Inside
  <2>4. CASE Resume(r)
    BY <2>4, ResumePromise
  <2>5. CASE Cancel(r)
    BY <2>5, CancelPromise
  <2>6. CASE Leave(r)
    BY <2>6, LeavePromise
  <2>7. CASE Read(r)
    <3>1. OneWritten(r, entry[held[r]].context, entry[held[r]].revision)
      BY <2>7, ReadFate
    <3>2. InBody(r) /\ UNCHANGED <<phase, key>>
      BY <2>7 DEF Read, Touch, InBody
    <3> QED
      BY <2>1, <3>1, <3>2, WritePromise
  <2>8. ASSUME NEW c \in Contexts, Put(r, c) PROVE Promise!Next
    <3>1. OneWritten(r, c, entry[held[r]].revision)
      BY <2>8, PutFate
    <3>2. InBody(r) /\ UNCHANGED <<phase, key>>
      BY <2>8 DEF Put, Touch, InBody
    <3> QED
      BY <2>1, <3>1, <3>2, WritePromise
  <2>9. CASE AppendExchange(r)
    <3>1. OneWritten(r, entry[held[r]].context, entry[held[r]].revision + 1)
      BY <2>9, AppendFate
    <3>2. InBody(r) /\ UNCHANGED <<phase, key>>
      BY <2>9 DEF AppendExchange, Touch, InBody
    <3> QED
      BY <2>1, <3>1, <3>2, WritePromise
  <2> QED
    BY <1>3, <2>2, <2>3, <2>4, <2>5, <2>6, <2>7, <2>8, <2>9
       DEF Step, Refuse, RefuseExchange
<1> QED
  BY <1>1, <1>2, <1>3 DEF Next

\* Every step of the store is a step of the abstract conversation store or
\* changes nothing there: with its entries, locks, purges and evictions it
\* remembers and forgets as Conversation says.
THEOREM Implements == Spec => KeepsPromise
<1>1. Init => Promise!Init
  <2> SUFFICES ASSUME Init PROVE Promise!Init
    OBVIOUS
  <2>1. \A r \in Requests : ~InBody(r)
    BY DEF Init, InBody
  <2>2. Owner = [s \in Sessions |-> NoEntry]
    BY <2>1 DEF Owner
  <2>3. Memory = [s \in Sessions |-> Promise!Forgotten]
    BY DEF Init, Memory, Promise!Forgotten
  <2> QED
    BY <2>2, <2>3 DEF Promise!Init
<1>2. /\ IInv /\ VInv /\ MutualExclusion /\ MutualExclusion' /\ [Next]_vars
      => [Promise!Next]_(Promise!vars)
  BY StepPromise
<1>3. Init => VInv
  BY DEF Init, VInv, Seen
<1>4. IInv /\ VInv /\ [Next]_vars => VInv'
  BY StepVInv
<1> QED
  BY <1>1, <1>2, <1>3, <1>4, Inductive, Exclusion, PTL DEF Spec, KeepsPromise, Promise!Spec

================================================================================
