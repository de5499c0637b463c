-------------------------- MODULE LockManagerProofs --------------------------
(***************************************************************************)
(* Proofs about the lock manager, for every set of processes and names,    *)
(* every number of locks and depth of trees, in four parts.                *)
(*                                                                         *)
(* The database keeps its types, every lock is on the queue its state      *)
(* names, once, and on no other, and the locks held on a resource are at   *)
(* modes that may be held together.  None of these is inductive by itself: *)
(* taking a lock off a queue gives a queue only if the lock is on it, so   *)
(* types need the queues; regrant grants what is queued, so the held modes *)
(* need them too; and every operation reads a lock's resource, so each     *)
(* lock's must exist.  DB puts these together, for any value of locks and  *)
(* resources, because the steps of an operation pass such values on to one *)
(* another.                                                                *)
(*                                                                         *)
(* The counts are exact, and every sublock has its parent, held, above it. *)
(* Each needs the other.  A lock's count is right after its ID is used     *)
(* again only because no sublock outlives its parent; $DEQ takes no parent *)
(* from under its sublocks only because the count is right.  Tree puts     *)
(* them together for any set G of locks that are going (removeWhere's),    *)
(* and is inductive on top of DB.                                          *)
(*                                                                         *)
(* No grant is lost: whatever was called last, the request at the head of  *)
(* a resource's queue is one that cannot be granted.  A call that takes    *)
(* something out of a queue's way ends with regrant, which leaves a head   *)
(* it could not grant; a call that does not takes nothing out of any       *)
(* queue's way, and puts a request at the head of an empty queue only when *)
(* it cannot be granted.  Then the action properties: every step, a call   *)
(* or a pass of removeWhere, either changes no lock or is a Step, which    *)
(* makes one change of one lock, and ends by granting requests from the    *)
(* head of that lock's resource's queue and telling the holders in the way *)
(* of the others.  Each property follows from that shape.                  *)
(*                                                                         *)
(* Last, the processes that wait for locks (LockClients).  No wake-up is   *)
(* lost: whoever stops being queued is told of a completion in the same    *)
(* step, and a lock keeps its owner, so it is left to show whose the newly *)
(* queued request is.                                                      *)
(***************************************************************************)
EXTENDS LockClients, QueueLemmas, FiniteSetTheorems

Members(L, r, st) == {l \in DOMAIN L : L[l].resource = r /\ L[l].state = st}

LocksOK(L) == DOMAIN L \subseteq Id /\ \A l \in DOMAIN L : L[l] \in LockRecord

ResourcesOK(R) == DOMAIN R \subseteq Resource /\ \A r \in DOMAIN R : R[r] \in ResourceRecord

Located(L, R) == \A l \in DOMAIN L : L[l].resource \in DOMAIN R

QueuesHold(L, R) ==
  \A r \in DOMAIN R :
    /\ IsInjective(R[r].converting)
    /\ IsInjective(R[r].waiting)
    /\ ToSet(R[r].converting) = Members(L, r, "Converting")
    /\ ToSet(R[r].waiting) = Members(L, r, "Waiting")

ModesSettled(L) ==
  \A l \in DOMAIN L :
    /\ L[l].state = "Granted" => L[l].requested = L[l].mode
    /\ L[l].state = "Converting" => ~NoMoreRestrictive(L[l].requested, L[l].mode)

HoldersCompatible(L) ==
  \A l, o \in DOMAIN L :
    /\ l # o
    /\ L[l].resource = L[o].resource
    /\ L[l].state # "Waiting"
    /\ L[o].state # "Waiting"
    => Compatible(L[l].mode, L[o].mode)

DB(L, R) ==
  /\ LocksOK(L)
  /\ ResourcesOK(R)
  /\ Located(L, R)
  /\ QueuesHold(L, R)
  /\ ModesSettled(L)
  /\ HoldersCompatible(L)

AllEvents == [kind : EventKind, lock : Id]

IInv ==
  /\ DB(locks, resources)
  /\ lastID \in 0 .. MaxId
  /\ doomed \subseteq [lock : DOMAIN locks, queued : BOOLEAN]
  /\ \A d, e \in doomed : d.lock = e.lock => d = e
  /\ events \subseteq AllEvents

\* The invariant says at least what the three properties say.
LEMMA IInvMeans == IInv => TypeOK /\ QueuesMatchStates /\ GrantedCompatible
<1> SUFFICES ASSUME IInv PROVE TypeOK /\ QueuesMatchStates /\ GrantedCompatible
  OBVIOUS
<1>1. TypeOK
  BY DEF IInv, DB, LocksOK, ResourcesOK, AllEvents, TypeOK
<1>2. QueuesMatchStates
  BY DEF IInv, DB, QueuesHold, Members, ModesSettled, QueuesMatchStates
<1>3. GrantedCompatible
  BY DEF IInv, DB, HoldersCompatible, GrantedCompatible
<1> QED
  BY <1>1, <1>2, <1>3

-----------------------------------------------------------------------------
(* Modes *)

\* The table of modes is symmetric.
LEMMA CompatibleSymmetric ==
  ASSUME NEW m \in Mode, NEW n \in Mode
  PROVE  Compatible(m, n) <=> Compatible(n, m)
  BY DEF Compatible, Share, Mode, NL, CR, CW, PR, PW, EX

-----------------------------------------------------------------------------
(* regrant: how many requests it grants *)

\* regrant's loop ends somewhere: some prefix of the queue is granted and
\* the request after it is not.
LEMMA GrantCountIs ==
  ASSUME NEW L, NEW q, NEW r, Len(q) \in Nat
  PROVE  /\ GrantCount(L, q, r) \in 0 .. Len(q)
         /\ \A i \in 1 .. GrantCount(L, q, r) : GrantableAt(L, q, r, i)
         /\ GrantCount(L, q, r) < Len(q) => ~GrantableAt(L, q, r, GrantCount(L, q, r) + 1)
<1> DEFINE T == {k \in 0 .. Len(q) : k < Len(q) => ~GrantableAt(L, q, r, k + 1)}
<1>1. Len(q) \in T /\ T \subseteq Nat
  OBVIOUS
<1> HIDE DEF T
<1>2. PICK k \in T : \A j \in T : k <= j
  BY <1>1, LeastOf
<1>3. k \in 0 .. Len(q) /\ (k < Len(q) => ~GrantableAt(L, q, r, k + 1))
  BY DEF T
<1>4. ASSUME NEW i \in 1 .. k
      PROVE  GrantableAt(L, q, r, i)
  <2>1. i - 1 \in 0 .. Len(q) /\ i - 1 < Len(q) /\ (i - 1) + 1 = i /\ ~(k <= i - 1)
    BY <1>3
  <2>2. i - 1 \notin T
    BY <1>2, <2>1
  <2> QED
    BY <2>1, <2>2 DEF T
<1>5. \E n \in 0 .. Len(q) : IsGrantCount(L, q, r, n)
  BY <1>3, <1>4 DEF IsGrantCount
<1>6. GrantCount(L, q, r) \in 0 .. Len(q) /\ IsGrantCount(L, q, r, GrantCount(L, q, r))
  BY <1>5 DEF GrantCount
<1> QED
  BY <1>6 DEF IsGrantCount

-----------------------------------------------------------------------------
(* What leaves the queues alone *)

\* Neither a change of what the queues and modes do not depend on nor a
\* resource deleted that no lock is on disturbs the database.
LEMMA UntouchedQueues ==
  ASSUME NEW L, NEW R, NEW L2, NEW R2, DB(L, R),
         DOMAIN L2 = DOMAIN L,
         \A l \in DOMAIN L :
           /\ L2[l] \in LockRecord
           /\ L2[l].resource = L[l].resource
           /\ L2[l].state = L[l].state
           /\ L2[l].mode = L[l].mode
           /\ L2[l].requested = L[l].requested,
         DOMAIN R2 \subseteq DOMAIN R,
         Located(L, R2),
         \A r \in DOMAIN R2 :
           /\ R2[r] \in ResourceRecord
           /\ R2[r].converting = R[r].converting
           /\ R2[r].waiting = R[r].waiting
  PROVE  DB(L2, R2)
<1>1. LocksOK(L2) /\ ResourcesOK(R2) /\ Located(L2, R2)
  BY DEF DB, LocksOK, ResourcesOK, Located
<1>2. \A r, st : Members(L2, r, st) = Members(L, r, st)
  BY DEF Members
<1>3. QueuesHold(L2, R2)
  BY <1>2 DEF DB, QueuesHold
<1>4. ModesSettled(L2)
  BY DEF DB, ModesSettled
<1>5. HoldersCompatible(L2)
  BY DEF DB, HoldersCompatible
<1> QED
  BY <1>1, <1>3, <1>4, <1>5 DEF DB

\* What every operation ends with (blockingNotices).
LEMMA FinishKeeps ==
  ASSUME NEW L, NEW R, NEW r, NEW evs, DB(L, R), evs \subseteq AllEvents,
         Finish(L, R, r, evs)
  PROVE  DB(locks', resources') /\ DOMAIN locks' = DOMAIN L /\ events' \subseteq AllEvents
<1> DEFINE told == ToNotify(L, R, r)
           N == [l \in DOMAIN L |->
                   IF l \in told THEN [L[l] EXCEPT !.notified = TRUE] ELSE L[l]]
<1>1. locks' = N /\ resources' = R /\ events' = evs \cup {Event("Blocking", h) : h \in told}
  BY DEF Finish, BlockingNotices
<1>2. told \subseteq DOMAIN L
  BY DEF ToNotify, Holders
<1> HIDE DEF told
<1>3. ASSUME NEW l \in DOMAIN L
      PROVE  /\ N[l] \in LockRecord
             /\ N[l].resource = L[l].resource
             /\ N[l].state = L[l].state
             /\ N[l].mode = L[l].mode
             /\ N[l].requested = L[l].requested
  <2>1. L[l] \in LockRecord
    BY DEF DB, LocksOK
  <2>2. CASE l \in told
    <3>1. N[l] = [L[l] EXCEPT !.notified = TRUE]
      BY <2>2
    <3> QED
      BY <2>1, <3>1 DEF LockRecord
  <2>3. CASE l \notin told
    <3>1. N[l] = L[l]
      BY <2>3
    <3> QED
      BY <2>1, <3>1
  <2> QED
    BY <2>2, <2>3
<1>4. DOMAIN N = DOMAIN L
  OBVIOUS
<1> HIDE DEF N
<1>5. \A x \in DOMAIN R :
        /\ R[x] \in ResourceRecord
        /\ R[x].converting = R[x].converting
        /\ R[x].waiting = R[x].waiting
  BY DEF DB, ResourcesOK
<1>6. Located(L, R)
  BY DEF DB
<1>7. DB(N, R)
  BY <1>3, <1>4, <1>5, <1>6, UntouchedQueues
<1>8. events' \subseteq AllEvents
  <2>1. \A h \in told : Event("Blocking", h) \in AllEvents
    BY <1>2 DEF DB, LocksOK, Event, AllEvents, EventKind
  <2> QED
    BY <1>1, <2>1
<1> QED
  BY <1>1, <1>4, <1>7, <1>8

-----------------------------------------------------------------------------
(* regrant *)

\* q is the queue of resource r: the conversions c and then the waiting
\* requests w, each of them once, each a lock on r that is not granted.
IsQueue(L, r, c, w, q) ==
  /\ c \in Seq(Id) /\ w \in Seq(Id)
  /\ IsInjective(c) /\ ToSet(c) = Members(L, r, "Converting")
  /\ IsInjective(w) /\ ToSet(w) = Members(L, r, "Waiting")
  /\ Len(c) \in Nat /\ Len(w) \in Nat /\ Len(q) \in Nat /\ Len(q) = Len(c) + Len(w)
  /\ \A i \in 1 .. Len(c) : q[i] = c[i]
  /\ \A i \in 1 .. Len(w) : q[Len(c) + i] = w[i]
  /\ \A i \in 1 .. Len(q) :
       q[i] \in DOMAIN L /\ L[q[i]].resource = r /\ L[q[i]].state # "Granted"
  /\ \A i, j \in 1 .. Len(q) : q[i] = q[j] => i = j

\* Every resource's queue is one.
LEMMA QueueOf ==
  ASSUME NEW L, NEW R, NEW r \in DOMAIN R, DB(L, R)
  PROVE  IsQueue(L, r, R[r].converting, R[r].waiting, Queue(R, r))
<1> DEFINE c == R[r].converting
           w == R[r].waiting
           q == Queue(R, r)
<1>1. /\ c \in Seq(Id) /\ w \in Seq(Id)
      /\ IsInjective(c) /\ ToSet(c) = Members(L, r, "Converting")
      /\ IsInjective(w) /\ ToSet(w) = Members(L, r, "Waiting")
  BY DEF DB, ResourcesOK, ResourceRecord, QueuesHold
<1>2. q = c \o w
  BY DEF Queue
<1> HIDE DEF c, w, q
<1>3. ToSet(c) \cap ToSet(w) = {}
  BY <1>1 DEF Members
<1>4. /\ Len(c) \in Nat /\ Len(w) \in Nat /\ Len(q) = Len(c) + Len(w) /\ q \in Seq(Id)
      /\ \A i \in 1 .. Len(c) : q[i] = c[i]
      /\ \A i \in 1 .. Len(w) : q[Len(c) + i] = w[i]
      /\ \A i \in 1 .. Len(q) : q[i] \in ToSet(c) \cup ToSet(w)
      /\ \A i, j \in 1 .. Len(q) : q[i] = q[j] => i = j
  BY <1>1, <1>2, <1>3, QueueAfterQueue
<1>5. \A i \in 1 .. Len(q) :
        q[i] \in DOMAIN L /\ L[q[i]].resource = r /\ L[q[i]].state # "Granted"
  BY <1>1, <1>4 DEF Members
<1>6. Len(q) \in Nat
  BY <1>4, LenProperties
<1>7. IsQueue(L, r, c, w, q)
  BY <1>1, <1>4, <1>5, <1>6 DEF IsQueue
<1> QED
  BY <1>7 DEF c, w, q

\* A lock granted is at the mode it asks for (grant).
LEMMA GrantedRecordIs ==
  ASSUME NEW L, NEW R, NEW l, NEW up \in BOOLEAN,
         L[l] \in LockRecord, R[L[l].resource] \in ResourceRecord
  PROVE  LET g == GrantedRecord(L, R, l, up)
         IN /\ g \in LockRecord
            /\ g.resource = L[l].resource
            /\ g.state = "Granted"
            /\ g.mode = L[l].requested
            /\ g.requested = L[l].requested
<1> DEFINE b == R[L[l].resource]
           g == GrantedRecord(L, R, l, up)
           val == IF L[l].valblk /\ up THEN b.value ELSE L[l].value
           bad == (L[l].valblk /\ up) /\ b.invalid
<1>1. g = [L[l] EXCEPT !.mode = L[l].requested, !.state = "Granted", !.notified = FALSE,
                       !.value = val, !.notValid = bad]
  BY DEF GrantedRecord
<1>2. val \in Value
  BY DEF LockRecord, ResourceRecord
<1>3. bad \in BOOLEAN
  OBVIOUS
<1> HIDE DEF g, val, bad
<1> QED
  <2> DEFINE k == L[l]
  <2>1. k \in LockRecord /\ g = [k EXCEPT !.mode = k.requested, !.state = "Granted", !.notified = FALSE,
                                        !.value = val, !.notValid = bad]
    BY <1>1
  <2> HIDE DEF k
  <2>2. /\ g \in LockRecord /\ g.resource = k.resource /\ g.state = "Granted"
        /\ g.mode = k.requested /\ g.requested = k.requested
    BY <1>2, <1>3, <2>1 DEF LockRecord, State
  <2> QED
    BY <2>2 DEF g, k

\* The first k requests of queue q.
FirstOf(q, k) == {q[i] : i \in 1 .. k}

\* What regrant makes of the locks L: of r's queue q, conversions c and then
\* waiting requests w, it grants the first k, the set G, in L2.
IsRegrant(L, r, c, w, q, k, G, L2) ==
  /\ IsQueue(L, r, c, w, q)
  /\ k \in 0 .. Len(q)
  /\ \A i \in 1 .. k : GrantableAt(L, q, r, i)
  /\ k < Len(q) => ~GrantableAt(L, q, r, k + 1)
  /\ \A l \in G : \E i \in 1 .. k : i \in 1 .. Len(q) /\ l = q[i]
  /\ \A l \in G : l \in DOMAIN L /\ L[l].resource = r /\ L[l].state # "Granted"
  /\ \A i \in 1 .. Len(q) : q[i] \in G <=> i <= k
  /\ DOMAIN L2 = DOMAIN L
  /\ \A l \in DOMAIN L :
       /\ L2[l] \in LockRecord
       /\ L2[l].resource = L[l].resource
       /\ l \notin G => L2[l] = L[l]
       /\ l \in G => /\ L2[l].state = "Granted"
                    /\ L2[l].mode = L[l].requested
                    /\ L2[l].requested = L[l].requested

LEMMA RegrantIs ==
  ASSUME NEW L, NEW R, NEW r \in DOMAIN R, DB(L, R)
  PROVE  IsRegrant(L, r, R[r].converting, R[r].waiting, Queue(R, r), GrantCount(L, Queue(R, r), r),
                   FirstOf(Queue(R, r), GrantCount(L, Queue(R, r), r)), Regrant(L, R, r).locks)
<1> DEFINE c == R[r].converting
           w == R[r].waiting
           q == Queue(R, r)
           k == GrantCount(L, q, r)
           G == FirstOf(q, k)
           up(l) == L[l].state = "Waiting" \/ L[l].requested > L[l].mode
           L2 == [l \in DOMAIN L |-> IF l \in G THEN GrantedRecord(L, R, l, up(l)) ELSE L[l]]
<1>1. IsQueue(L, r, c, w, q) /\ k = GrantCount(L, q, r)
  BY QueueOf
<1> HIDE DEF k, c, w, q
<1>2. /\ Len(q) \in Nat
      /\ \A i \in 1 .. Len(q) :
           q[i] \in DOMAIN L /\ L[q[i]].resource = r /\ L[q[i]].state # "Granted"
      /\ \A i, j \in 1 .. Len(q) : q[i] = q[j] => i = j
  BY <1>1 DEF IsQueue
<1>3. /\ k \in 0 .. Len(q) /\ \A i \in 1 .. k : GrantableAt(L, q, r, i)
      /\ k < Len(q) => ~GrantableAt(L, q, r, k + 1)
  BY <1>1, <1>2, GrantCountIs
<1>4. k \in 0 .. Len(q) /\ Len(q) \in Nat /\ \A i \in 1 .. k : i \in 1 .. Len(q)
  BY <1>2, <1>3
<1>5. \A l : l \in G <=> \E i \in 1 .. k : l = q[i]
  BY DEF FirstOf
<1> HIDE DEF G
<1>6. \A l \in G : \E i \in 1 .. k : i \in 1 .. Len(q) /\ l = q[i]
  BY <1>4, <1>5
<1>7. \A l \in G : l \in DOMAIN L /\ L[l].resource = r /\ L[l].state # "Granted"
  <2>1. \A i \in 1 .. Len(q) :
          q[i] \in DOMAIN L /\ L[q[i]].resource = r /\ L[q[i]].state # "Granted"
    BY <1>2
  <2> QED
    BY <1>6, <2>1
<1>8. \A i \in 1 .. Len(q) : q[i] \in G <=> i <= k
  <2>1. ASSUME NEW i \in 1 .. Len(q), q[i] \in G
        PROVE  i <= k
    <3>1. PICK j \in 1 .. k : q[i] = q[j]
      BY <1>5, <2>1
    <3>2. i = j
      BY <1>2, <1>4, <3>1
    <3> QED
      BY <1>4, <3>2
  <2>2. ASSUME NEW i \in 1 .. Len(q), i <= k
        PROVE  q[i] \in G
    <3>1. i \in 1 .. k
      BY <1>4, <2>2
    <3> QED
      BY <1>5, <3>1
  <2> QED
    BY <2>1, <2>2
<1>9. ASSUME NEW l \in DOMAIN L
      PROVE  /\ L2[l] \in LockRecord
             /\ L2[l].resource = L[l].resource
             /\ l \notin G => L2[l] = L[l]
             /\ l \in G => /\ L2[l].state = "Granted"
                          /\ L2[l].mode = L[l].requested
                          /\ L2[l].requested = L[l].requested
  <2>1. L[l] \in LockRecord /\ R[L[l].resource] \in ResourceRecord /\ up(l) \in BOOLEAN
    BY DEF DB, LocksOK, ResourcesOK, Located
  <2> HIDE DEF up
  <2>2. CASE l \in G
    <3>1. L2[l] = GrantedRecord(L, R, l, up(l))
      BY <2>2
    <3> QED
      BY <2>1, <2>2, <3>1, GrantedRecordIs
  <2>3. CASE l \notin G
    BY <2>1, <2>3
  <2> QED
    BY <2>2, <2>3
<1>10. DOMAIN L2 = DOMAIN L
  OBVIOUS
<1>11. Regrant(L, R, r).locks = L2
  BY DEF Regrant, FirstOf, G, k, q
<1> HIDE DEF L2
<1>12. \A l \in DOMAIN L :
         /\ L2[l] \in LockRecord
         /\ L2[l].resource = L[l].resource
         /\ l \notin G => L2[l] = L[l]
         /\ l \in G => /\ L2[l].state = "Granted"
                      /\ L2[l].mode = L[l].requested
                      /\ L2[l].requested = L[l].requested
  BY <1>9
<1>13. IsRegrant(L, r, c, w, q, k, G, L2)
  BY <1>1, <1>3, <1>6, <1>7, <1>8, <1>10, <1>12, ZenonT(60) DEF IsRegrant
<1> QED
  BY <1>11, <1>13 DEF c, w, q, k, G

\* The requests granted leave the queues, the rest stay in them, and the
\* modes held afterwards may be held together.
LEMMA RegrantKeeps ==
  ASSUME NEW L, NEW R, NEW r \in DOMAIN R, DB(L, R)
  PROVE  LET g == Regrant(L, R, r)
         IN /\ DB(g.locks, g.resources)
            /\ DOMAIN g.locks = DOMAIN L
            /\ g.events \subseteq AllEvents
<1> DEFINE c == R[r].converting
           w == R[r].waiting
           q == Queue(R, r)
           k == GrantCount(L, q, r)
           G == FirstOf(q, k)
           L2 == Regrant(L, R, r).locks
           n == IF k > Len(c) THEN k - Len(c) ELSE 0
           lc == SubSeq(c, k + 1, Len(c))
           lw == SubSeq(w, n + 1, Len(w))
           R2 == [R EXCEPT ![r].converting = lc, ![r].waiting = lw]
<1>1. IsRegrant(L, r, c, w, q, k, G, L2)
  BY RegrantIs
<1>2. /\ Regrant(L, R, r).resources = R2
       /\ Regrant(L, R, r).events = {Event("Granted", l) : l \in G}
  BY DEF Regrant, LeftConverting, LeftWaiting, FirstOf
<1> HIDE DEF k, c, w, q, G, L2
<1>3. /\ c \in Seq(Id) /\ w \in Seq(Id)
      /\ Len(c) \in Nat /\ Len(w) \in Nat /\ Len(q) \in Nat /\ Len(q) = Len(c) + Len(w)
      /\ \A i \in 1 .. Len(c) : q[i] = c[i]
      /\ \A i \in 1 .. Len(w) : q[Len(c) + i] = w[i]
      /\ \A i, j \in 1 .. Len(q) : q[i] = q[j] => i = j
  BY <1>1 DEF IsRegrant, IsQueue
<1>4. /\ IsInjective(c) /\ ToSet(c) = Members(L, r, "Converting")
      /\ IsInjective(w) /\ ToSet(w) = Members(L, r, "Waiting")
      /\ ToSet(c) = {c[i] : i \in 1 .. Len(c)}
      /\ ToSet(w) = {w[i] : i \in 1 .. Len(w)}
  BY <1>1, <1>3, LenProperties DEF IsRegrant, IsQueue, ToSet
<1>5. k \in 0 .. Len(q) /\ \A i \in 1 .. k : GrantableAt(L, q, r, i)
  BY <1>1 DEF IsRegrant
<1>6. k \in Nat
  BY <1>3, <1>5
<1>7. n \in Nat /\ \A i \in 1 .. Len(w) : i <= n <=> Len(c) + i <= k
  BY <1>3, <1>5
<1> HIDE DEF n
<1>8. \A l \in G : \E i \in 1 .. k : i \in 1 .. Len(q) /\ l = q[i]
  BY <1>1 DEF IsRegrant
<1>9. \A l \in G : l \in DOMAIN L /\ L[l].resource = r /\ L[l].state # "Granted"
  BY <1>1 DEF IsRegrant
<1>10. \A i \in 1 .. Len(q) : q[i] \in G <=> i <= k
  BY <1>1 DEF IsRegrant
<1>11. \A l \in DOMAIN L :
        /\ L2[l] \in LockRecord
        /\ L2[l].resource = L[l].resource
        /\ l \notin G => L2[l] = L[l]
        /\ l \in G => /\ L2[l].state = "Granted"
                     /\ L2[l].mode = L[l].requested
                     /\ L2[l].requested = L[l].requested
  BY <1>1 DEF IsRegrant
<1>12. DOMAIN L2 = DOMAIN L
  BY <1>1 DEF IsRegrant
<1>13. \A x, st : st # "Granted" => Members(L2, x, st) = Members(L, x, st) \ G
  BY <1>11, <1>12 DEF Members
<1>14. QueuesHold(L2, R2) /\ ResourcesOK(R2) /\ DOMAIN R2 = DOMAIN R
  <2>1. /\ lc \in Seq(Id) /\ IsInjective(lc)
        /\ \A x : x \in ToSet(lc) <=> \E i \in k + 1 .. Len(c) : x = c[i]
    BY <1>3, <1>6, <1>4, RestOfQueue
  <2>2. ToSet(lc) = ToSet(c) \ G
    <3>1. \A i \in 1 .. Len(c) : c[i] \in G <=> i <= k
      BY <1>3, <1>10
    <3>2. \A i : i \in k + 1 .. Len(c) <=> i \in 1 .. Len(c) /\ ~(i <= k)
      BY <1>3, <1>5
    <3> HIDE DEF lc
    <3> QED
      BY <1>4, <2>1, <3>1, <3>2
  <2>4. /\ lw \in Seq(Id) /\ IsInjective(lw)
        /\ \A x : x \in ToSet(lw) <=> \E i \in n + 1 .. Len(w) : x = w[i]
    BY <1>3, <1>7, <1>4, RestOfQueue
  <2>5. ToSet(lw) = ToSet(w) \ G
    <3>1. ASSUME NEW i \in 1 .. Len(w)
          PROVE  w[i] \in G <=> i <= n
      <4>1. Len(c) + i \in 1 .. Len(q) /\ q[Len(c) + i] = w[i]
        BY <1>3
      <4> QED
        BY <4>1, <1>10, <1>7
    <3>2. \A i : i \in n + 1 .. Len(w) <=> i \in 1 .. Len(w) /\ ~(i <= n)
      BY <1>3, <1>7
    <3> HIDE DEF lw
    <3> QED
      BY <1>4, <2>4, <3>1, <3>2
  <2> HIDE DEF lc, lw
  <2>6. DOMAIN R2 = DOMAIN R /\ \A x \in DOMAIN R \ {r} : R2[x] = R[x]
    OBVIOUS
  <2>7. /\ R[r] \in ResourceRecord
        /\ R2[r] = [R[r] EXCEPT !.converting = lc, !.waiting = lw]
    BY DEF DB, ResourcesOK
  <2>8. R2[r] \in ResourceRecord /\ R2[r].converting = lc /\ R2[r].waiting = lw
    BY <2>1, <2>4, <2>7 DEF ResourceRecord
  <2> HIDE DEF R2
  <2>9. ResourcesOK(R2)
    BY <2>6, <2>8 DEF DB, ResourcesOK
  <2>10. ASSUME NEW x \in DOMAIN R2
         PROVE  /\ IsInjective(R2[x].converting)
                /\ IsInjective(R2[x].waiting)
                /\ ToSet(R2[x].converting) = Members(L2, x, "Converting")
                /\ ToSet(R2[x].waiting) = Members(L2, x, "Waiting")
    <3>1. CASE x = r
      <4>1. ToSet(c) = Members(L, r, "Converting") /\ ToSet(w) = Members(L, r, "Waiting")
        BY <1>4
      <4>2. Members(L2, r, "Converting") = ToSet(lc) /\ Members(L2, r, "Waiting") = ToSet(lw)
        BY <1>13, <2>2, <2>5, <4>1
      <4> QED
        BY <3>1, <2>1, <2>4, <2>8, <4>2
    <3>2. CASE x # r
      <4>1. Members(L, x, "Converting") \cap G = {} /\ Members(L, x, "Waiting") \cap G = {}
        BY <3>2, <1>9 DEF Members
      <4>2. /\ Members(L2, x, "Converting") = Members(L, x, "Converting")
            /\ Members(L2, x, "Waiting") = Members(L, x, "Waiting")
        <5>1. "Converting" # "Granted" /\ "Waiting" # "Granted"
          OBVIOUS
        <5> QED
          BY <4>1, <5>1, <1>13
      <4>3. x \in DOMAIN R /\ R2[x] = R[x]
        BY <3>2, <2>6
      <4> QED
        BY <4>2, <4>3 DEF DB, QueuesHold
    <3> QED
      BY <3>1, <3>2
  <2> QED
    BY <2>6, <2>9, <2>10 DEF QueuesHold
<1> HIDE DEF R2
<1>15. LocksOK(L2) /\ Located(L2, R2) /\ ModesSettled(L2)
  BY <1>11, <1>12, <1>14 DEF DB, LocksOK, Located, ModesSettled
<1>16. ASSUME NEW l \in DOMAIN L2, NEW o \in DOMAIN L2, l # o,
              L2[l].resource = L2[o].resource,
              L2[l].state # "Waiting", L2[o].state # "Waiting"
       PROVE  Compatible(L2[l].mode, L2[o].mode)
  <2> DEFINE grantedAfter(x, y) == x \in G /\ (y \in G => \E i, j \in 1 .. k : j < i /\ q[i] = x /\ q[j] = y)
  <2>1. ASSUME NEW x \in DOMAIN L, NEW y \in DOMAIN L, x # y, grantedAfter(x, y),
               L[y].resource = r, L2[y].state # "Waiting"
        PROVE  Compatible(L2[x].mode, L2[y].mode)
    <3>1. PICK i \in 1 .. k : q[i] = x /\ (y \in G => \E j \in 1 .. k : j < i /\ q[j] = y)
      BY <2>1, <1>8
    <3>2. y \in (Holders(L, r) \cup {q[j] : j \in 1 .. (i - 1)}) \ {q[i]}
      BY <2>1, <3>1, <1>5, <1>11 DEF Holders
    <3>3. Compatible(L[x].requested, PrefixMode(L, q, i, y))
      BY <1>5, <3>1, <3>2 DEF GrantableAt
    <3>4. L2[x].mode = L[x].requested
      BY <2>1, <1>11
    <3>5. PrefixMode(L, q, i, y) = L2[y].mode
      <4>1. CASE y \in G
        BY <4>1, <3>1, <1>5, <1>11 DEF PrefixMode
      <4>2. CASE y \notin G
        <5>1. ~ \E j \in 1 .. (i - 1) : q[j] = y
          BY <4>2, <1>5, <1>10
        <5> QED
          BY <4>2, <5>1, <1>11 DEF PrefixMode
      <4> QED
        BY <4>1, <4>2
    <3> QED
      BY <3>3, <3>4, <3>5
  <2>2. l \in DOMAIN L /\ o \in DOMAIN L /\ L[l].resource = L[o].resource
    BY <1>11, <1>12, <1>16
  <2>3. L2[l].mode \in Mode /\ L2[o].mode \in Mode
    BY <2>2, <1>11 DEF LockRecord
  <2>4. CASE l \notin G /\ o \notin G
    BY <2>2, <2>4, <1>11, <1>16 DEF DB, HoldersCompatible
  <2>5. CASE grantedAfter(l, o)
    BY <2>1, <2>2, <2>5, <1>9, <1>16
  <2>6. CASE grantedAfter(o, l)
    <3>1. Compatible(L2[o].mode, L2[l].mode)
      BY <2>1, <2>2, <2>6, <1>9, <1>16
    <3> QED
      BY <3>1, <2>3, CompatibleSymmetric
  <2>7. l \in G /\ o \in G => grantedAfter(l, o) \/ grantedAfter(o, l)
    <3>1. SUFFICES ASSUME l \in G, o \in G
                   PROVE  grantedAfter(l, o) \/ grantedAfter(o, l)
      OBVIOUS
    <3>2. PICK i \in 1 .. k, j \in 1 .. k : q[i] = l /\ q[j] = o
      BY <3>1, <1>8
    <3>3. i < j \/ j < i
      BY <3>2, <1>5, <1>16
    <3> QED
      BY <3>1, <3>2, <3>3
  <2> QED
    BY <2>4, <2>5, <2>6, <2>7
<1>17. DB(L2, R2)
  BY <1>14, <1>15, <1>16 DEF DB, HoldersCompatible
<1>18. {Event("Granted", l) : l \in G} \subseteq AllEvents
  BY <1>9 DEF DB, LocksOK, Event, AllEvents, EventKind
<1> QED
  BY <1>12, <1>17, <1>18, <1>2 DEF L2

\* What a call that may let requests through ends with.
LEMMA SettleKeeps ==
  ASSUME NEW L, NEW R, NEW r \in DOMAIN R, NEW evs, DB(L, R), evs \subseteq AllEvents,
         Settle(L, R, r, evs)
  PROVE  DB(locks', resources') /\ DOMAIN locks' = DOMAIN L /\ events' \subseteq AllEvents
<1> DEFINE g == Regrant(L, R, r)
<1>1. DB(g.locks, g.resources) /\ DOMAIN g.locks = DOMAIN L /\ g.events \subseteq AllEvents
  BY RegrantKeeps
<1>2. Finish(g.locks, g.resources, r, evs \cup g.events)
  BY DEF Settle
<1> HIDE DEF g
<1>3. evs \cup g.events \subseteq AllEvents
  BY <1>1
<1> QED
  BY <1>1, <1>2, <1>3, FinishKeeps

-----------------------------------------------------------------------------
(* Locks that leave their queue *)

\* A queued lock taken off its queue is on none, and the others stay.
LEMMA UnqueueHolds ==
  ASSUME NEW L, NEW R, NEW l \in DOMAIN L, DB(L, R)
  PROVE  /\ DOMAIN Unqueue(L, R, l) = DOMAIN R
         /\ ResourcesOK(Unqueue(L, R, l))
         /\ \A r \in DOMAIN R :
              /\ IsInjective(Unqueue(L, R, l)[r].converting)
              /\ IsInjective(Unqueue(L, R, l)[r].waiting)
              /\ ToSet(Unqueue(L, R, l)[r].converting) = Members(L, r, "Converting") \ {l}
              /\ ToSet(Unqueue(L, R, l)[r].waiting) = Members(L, r, "Waiting") \ {l}
<1> DEFINE x == L[l].resource
           R2 == Unqueue(L, R, l)
           st == L[l].state
<1>1. x \in DOMAIN R /\ st \in State
  BY DEF DB, Located, LocksOK, LockRecord
<1>2. \A r \in DOMAIN R :
        /\ R[r] \in ResourceRecord
        /\ R[r].converting \in Seq(Id) /\ R[r].waiting \in Seq(Id)
        /\ IsInjective(R[r].converting)
        /\ IsInjective(R[r].waiting)
        /\ ToSet(R[r].converting) = Members(L, r, "Converting")
        /\ ToSet(R[r].waiting) = Members(L, r, "Waiting")
  BY DEF DB, ResourcesOK, QueuesHold, ResourceRecord
<1>3. \A r, s : l \in Members(L, r, s) => r = x /\ s = st
  BY DEF Members
<1>4. \A s : s = st => l \in Members(L, x, s)
  BY DEF Members
<1>5. CASE st = "Granted"
  <2>1. R2 = R
    BY <1>5 DEF Unqueue
  <2>2. \A r : l \notin Members(L, r, "Converting") /\ l \notin Members(L, r, "Waiting")
    BY <1>3, <1>5
  <2> QED
    BY <1>2, <2>1, <2>2 DEF DB
<1>6. CASE st = "Converting"
  <2> DEFINE q == Without(R[x].converting, l)
  <2>1. q \in Seq(Id) /\ IsInjective(q) /\ ToSet(q) = Members(L, x, "Converting") \ {l}
    <3>1. /\ R[x].converting \in Seq(Id) /\ IsInjective(R[x].converting)
          /\ ToSet(R[x].converting) = Members(L, x, "Converting")
      BY <1>1, <1>2
    <3>2. l \in ToSet(R[x].converting)
      BY <3>1, <1>4, <1>6
    <3>3. q \in Seq(Id) /\ IsInjective(q) /\ ToSet(q) = ToSet(R[x].converting) \ {l}
      BY <3>1, <3>2, RemoveMember DEF Without
    <3> QED
      BY <3>1, <3>3
  <2> HIDE DEF q
  <2>2. R2 = [R EXCEPT ![x].converting = q]
    BY <1>6 DEF Unqueue, q
  <2>3. DOMAIN R2 = DOMAIN R /\ \A r \in DOMAIN R \ {x} : R2[r] = R[r]
    BY <2>2
  <2>4. R2[x] = [R[x] EXCEPT !.converting = q]
    BY <1>1, <2>2
  <2>5. R2[x] \in ResourceRecord /\ R2[x].converting = q /\ R2[x].waiting = R[x].waiting
    BY <1>1, <1>2, <2>1, <2>4 DEF ResourceRecord
  <2> HIDE DEF R2, x, st
  <2>6. ResourcesOK(R2)
    BY <1>2, <2>3, <2>5 DEF DB, ResourcesOK
  <2>7. \A r : l \notin Members(L, r, "Waiting")
    BY <1>3, <1>6
  <2>8. \A r \in DOMAIN R \ {x} : l \notin Members(L, r, "Converting")
    BY <1>3
  <2>9. ASSUME NEW r \in DOMAIN R
        PROVE  /\ IsInjective(R2[r].converting)
               /\ IsInjective(R2[r].waiting)
               /\ ToSet(R2[r].converting) = Members(L, r, "Converting") \ {l}
               /\ ToSet(R2[r].waiting) = Members(L, r, "Waiting") \ {l}
    <3>1. CASE r = x
      BY <3>1, <1>2, <2>1, <2>5, <2>7
    <3>2. CASE r # x
      <4>1. R2[r] = R[r]
        BY <3>2, <2>3
      <4> QED
        BY <3>2, <4>1, <1>2, <2>7, <2>8
    <3> QED
      BY <3>1, <3>2
  <2> QED
    BY <2>3, <2>6, <2>9 DEF R2
<1>7. CASE st = "Waiting"
  <2> DEFINE q == Without(R[x].waiting, l)
  <2>1. q \in Seq(Id) /\ IsInjective(q) /\ ToSet(q) = Members(L, x, "Waiting") \ {l}
    <3>1. /\ R[x].waiting \in Seq(Id) /\ IsInjective(R[x].waiting)
          /\ ToSet(R[x].waiting) = Members(L, x, "Waiting")
      BY <1>1, <1>2
    <3>2. l \in ToSet(R[x].waiting)
      BY <3>1, <1>4, <1>7
    <3>3. q \in Seq(Id) /\ IsInjective(q) /\ ToSet(q) = ToSet(R[x].waiting) \ {l}
      BY <3>1, <3>2, RemoveMember DEF Without
    <3> QED
      BY <3>1, <3>3
  <2> HIDE DEF q
  <2>2. R2 = [R EXCEPT ![x].waiting = q]
    BY <1>7 DEF Unqueue, q
  <2>3. DOMAIN R2 = DOMAIN R /\ \A r \in DOMAIN R \ {x} : R2[r] = R[r]
    BY <2>2
  <2>4. R2[x] = [R[x] EXCEPT !.waiting = q]
    BY <1>1, <2>2
  <2>5. R2[x] \in ResourceRecord /\ R2[x].waiting = q /\ R2[x].converting = R[x].converting
    BY <1>1, <1>2, <2>1, <2>4 DEF ResourceRecord
  <2> HIDE DEF R2, x, st
  <2>6. ResourcesOK(R2)
    BY <1>2, <2>3, <2>5 DEF DB, ResourcesOK
  <2>7. \A r : l \notin Members(L, r, "Converting")
    BY <1>3, <1>7
  <2>8. \A r \in DOMAIN R \ {x} : l \notin Members(L, r, "Waiting")
    BY <1>3
  <2>9. ASSUME NEW r \in DOMAIN R
        PROVE  /\ IsInjective(R2[r].converting)
               /\ IsInjective(R2[r].waiting)
               /\ ToSet(R2[r].converting) = Members(L, r, "Converting") \ {l}
               /\ ToSet(R2[r].waiting) = Members(L, r, "Waiting") \ {l}
    <3>1. CASE r = x
      BY <3>1, <1>2, <2>1, <2>5, <2>7
    <3>2. CASE r # x
      <4>1. R2[r] = R[r]
        BY <3>2, <2>3
      <4> QED
        BY <3>2, <4>1, <1>2, <2>7, <2>8
    <3> QED
      BY <3>1, <3>2
  <2> QED
    BY <2>3, <2>6, <2>9 DEF R2
<1> QED
  BY <1>1, <1>5, <1>6, <1>7 DEF State

\* The locks with l's conversion called off.
CalledOff(l) == [locks EXCEPT ![l].state = "Granted", ![l].requested = locks[l].mode]

\* A conversion called off leaves the lock as it was granted (Cancel, refuse).
LEMMA CalledOffKeeps ==
  ASSUME NEW l \in DOMAIN locks, DB(locks, resources), locks[l].state = "Converting"
  PROVE  /\ DB(CalledOff(l), Unqueue(locks, resources, l))
         /\ DOMAIN CalledOff(l) = DOMAIN locks
         /\ \A x \in DOMAIN locks \ {l} : CalledOff(l)[x] = locks[x]
         /\ locks[l].resource \in DOMAIN Unqueue(locks, resources, l)
<1> DEFINE L == locks
           L2 == CalledOff(l)
           R2 == Unqueue(locks, resources, l)
<1>1. /\ DOMAIN R2 = DOMAIN resources
      /\ ResourcesOK(R2)
      /\ \A r \in DOMAIN resources :
           /\ IsInjective(R2[r].converting)
           /\ IsInjective(R2[r].waiting)
           /\ ToSet(R2[r].converting) = Members(L, r, "Converting") \ {l}
           /\ ToSet(R2[r].waiting) = Members(L, r, "Waiting") \ {l}
  BY UnqueueHolds
<1>2. locks[l] \in LockRecord /\ l \in Id /\ locks[l].resource \in DOMAIN resources
  BY DEF DB, LocksOK, Located
<1>3. DOMAIN L2 = DOMAIN L /\ \A x \in DOMAIN L \ {l} : L2[x] = L[x]
  BY DEF CalledOff
<1>4. /\ L2[l] \in LockRecord
      /\ L2[l].resource = L[l].resource
      /\ L2[l].state = "Granted"
      /\ L2[l].mode = L[l].mode
      /\ L2[l].requested = L[l].mode
  <2>1. L2[l] = [L[l] EXCEPT !.state = "Granted", !.requested = L[l].mode]
    BY DEF CalledOff
  <2> HIDE DEF L2
  <2> QED
    BY <1>2, <2>1 DEF LockRecord, State
<1> HIDE DEF L2, R2
<1>5. LocksOK(L2) /\ Located(L2, R2) /\ ModesSettled(L2)
  BY <1>1, <1>3, <1>4 DEF DB, LocksOK, Located, ModesSettled
<1>6. \A r : /\ Members(L2, r, "Converting") = Members(L, r, "Converting") \ {l}
             /\ Members(L2, r, "Waiting") = Members(L, r, "Waiting") \ {l}
  BY <1>3, <1>4 DEF Members
<1>7. QueuesHold(L2, R2)
  BY <1>1, <1>6 DEF QueuesHold
<1>8. \A x \in DOMAIN L :
        /\ L2[x].resource = L[x].resource
        /\ L2[x].mode = L[x].mode
        /\ L2[x].state # "Waiting" <=> L[x].state # "Waiting"
  BY <1>3, <1>4
<1>9. HoldersCompatible(L2)
  BY <1>3, <1>8 DEF DB, HoldersCompatible
<1>10. DB(L2, R2)
  BY <1>1, <1>5, <1>7, <1>9 DEF DB
<1> QED
  BY <1>1, <1>2, <1>3, <1>10 DEF L2, R2

LEMMA UnconvertKeeps ==
  ASSUME NEW l \in DOMAIN locks, NEW kind \in EventKind, DB(locks, resources),
         locks[l].state = "Converting", Unconvert(l, kind)
  PROVE  DB(locks', resources') /\ DOMAIN locks' = DOMAIN locks /\ events' \subseteq AllEvents
<1>1. Settle(CalledOff(l), Unqueue(locks, resources, l), locks[l].resource, {Event(kind, l)})
  BY DEF Unconvert, CalledOff
<1>2. {Event(kind, l)} \subseteq AllEvents
  BY DEF Event, AllEvents, DB, LocksOK
<1> QED
  BY <1>1, <1>2, CalledOffKeeps, SettleKeeps

\* What is left of the resources once those no lock needs are deleted.
LEMMA DeleteIfUnusedKeeps ==
  ASSUME NEW L, NEW R, NEW r, DB(L, R)
  PROVE  DB(L, DeleteIfUnused(L, R, r))
<1> DEFINE gone == Deleted(L, R, r)
           R2 == DeleteIfUnused(L, R, r)
<1>1. \A x \in gone : x \in DOMAIN R /\ \A l \in DOMAIN L : L[l].resource # x
  <2> SUFFICES ASSUME NEW x \in gone
               PROVE  x \in DOMAIN R /\ \A l \in DOMAIN L : L[l].resource # x
    OBVIOUS
  <2>1. x \in DOMAIN R /\ IsPrefix(x, r)
    BY DEF Deleted
  <2>2. IsPrefix(x, x)
    <3>1. x \in Seq(AccessMode \X Name)
      BY <2>1 DEF DB, ResourcesOK, Resource
    <3>2. Len(x) \in Nat
      BY <3>1, LenProperties
    <3> QED
      BY <3>2 DEF IsPrefix
  <2>3. Unused(L, R, x, r)
    BY <2>1, <2>2 DEF Deleted
  <2> QED
    BY <2>1, <2>3 DEF Unused
<1>2. DOMAIN R2 = DOMAIN R \ gone
  BY DEF DeleteIfUnused
<1>3. ASSUME NEW x \in DOMAIN R2
      PROVE  /\ R2[x] \in ResourceRecord
             /\ R2[x].converting = R[x].converting
             /\ R2[x].waiting = R[x].waiting
  <2>1. R[x] \in ResourceRecord
    BY <1>2 DEF DB, ResourcesOK
  <2>2. R2[x] = R[x] \/ R2[x] = [R[x] EXCEPT !.children = @ - 1]
    BY <1>2 DEF DeleteIfUnused
  <2> HIDE DEF R2
  <2> QED
    BY <2>1, <2>2 DEF ResourceRecord
<1> HIDE DEF gone, R2
<1>4. Located(L, R2)
  BY <1>1, <1>2 DEF DB, Located
<1>5. \A l \in DOMAIN L :
        /\ L[l] \in LockRecord
        /\ L[l].resource = L[l].resource
        /\ L[l].state = L[l].state
        /\ L[l].mode = L[l].mode
        /\ L[l].requested = L[l].requested
  BY DEF DB, LocksOK
<1>6. DB(L, R2)
  BY <1>2, <1>3, <1>4, <1>5, UntouchedQueues
<1> QED
  BY <1>6 DEF R2

\* A lock taken off its queue and out of the database.
LEMMA DropLockKeeps ==
  ASSUME NEW L, NEW R, NEW l \in DOMAIN L, DB(L, R)
  PROVE  /\ DB(DropLock(L, l), Unqueue(L, R, l))
         /\ DOMAIN DropLock(L, l) = DOMAIN L \ {l}
<1> DEFINE L2 == DropLock(L, l)
           R2 == Unqueue(L, R, l)
<1>1. /\ DOMAIN R2 = DOMAIN R
      /\ ResourcesOK(R2)
      /\ \A r \in DOMAIN R :
           /\ IsInjective(R2[r].converting)
           /\ IsInjective(R2[r].waiting)
           /\ ToSet(R2[r].converting) = Members(L, r, "Converting") \ {l}
           /\ ToSet(R2[r].waiting) = Members(L, r, "Waiting") \ {l}
  BY UnqueueHolds
<1>2. DOMAIN L2 = DOMAIN L \ {l}
  BY DEF DropLock
<1>3. ASSUME NEW x \in DOMAIN L2
      PROVE  /\ L2[x] \in LockRecord
             /\ L2[x].resource = L[x].resource
             /\ L2[x].state = L[x].state
             /\ L2[x].mode = L[x].mode
             /\ L2[x].requested = L[x].requested
  <2>1. L[x] \in LockRecord
    BY <1>2 DEF DB, LocksOK
  <2>2. L2[x] = L[x] \/ L2[x] = [L[x] EXCEPT !.sublocks = @ - 1]
    BY <1>2 DEF DropLock
  <2> HIDE DEF L2
  <2> QED
    BY <2>1, <2>2 DEF LockRecord
<1> HIDE DEF L2, R2
<1>4. LocksOK(L2) /\ Located(L2, R2) /\ ModesSettled(L2)
  BY <1>1, <1>2, <1>3 DEF DB, LocksOK, Located, ModesSettled
<1>5. \A r, st : Members(L2, r, st) = Members(L, r, st) \ {l}
  BY <1>2, <1>3 DEF Members
<1>6. QueuesHold(L2, R2)
  BY <1>1, <1>5 DEF QueuesHold
<1>7. HoldersCompatible(L2)
  BY <1>2, <1>3 DEF DB, HoldersCompatible
<1>8. DB(L2, R2)
  BY <1>1, <1>4, <1>6, <1>7 DEF DB
<1> QED
  BY <1>2, <1>8 DEF L2, R2

\* A lock removed (remove), whoever asks for it.
LEMMA RemoveLockKeeps ==
  ASSUME NEW L, NEW R, NEW l \in DOMAIN L, NEW kind \in EventKind, DB(L, R),
         RemoveLock(L, R, l, kind)
  PROVE  DB(locks', resources') /\ DOMAIN locks' = DOMAIN L \ {l} /\ events' \subseteq AllEvents
<1> DEFINE r == L[l].resource
           left == DropLock(L, l)
           rest == DeleteIfUnused(left, Unqueue(L, R, l), r)
           evs == IF L[l].state = "Granted" THEN {} ELSE {Event(kind, l)}
<1>1. DB(left, rest) /\ DOMAIN left = DOMAIN L \ {l}
  BY DropLockKeeps, DeleteIfUnusedKeeps
<1>2. evs \subseteq AllEvents
  BY DEF DB, LocksOK, Event, AllEvents
<1>3. IF r \in DOMAIN rest
      THEN Settle(left, rest, r, evs)
      ELSE locks' = left /\ resources' = rest /\ events' = evs
  BY DEF RemoveLock
<1> HIDE DEF r, left, rest, evs
<1>4. CASE r \in DOMAIN rest
  BY <1>1, <1>2, <1>3, <1>4, SettleKeeps
<1>5. CASE r \notin DOMAIN rest
  BY <1>1, <1>2, <1>3, <1>5
<1> QED
  BY <1>4, <1>5

-----------------------------------------------------------------------------
(* Value blocks *)

\* A store to a value block, or its invalidation, leaves the queues alone.
LEMMA StoreKeeps ==
  ASSUME NEW R2, DB(locks, resources), DOMAIN R2 = DOMAIN resources,
         \A r \in DOMAIN resources :
           \/ R2[r] = resources[r]
           \/ \E v \in Value : R2[r] = [resources[r] EXCEPT !.value = v, !.invalid = FALSE]
           \/ R2[r] = [resources[r] EXCEPT !.invalid = TRUE]
  PROVE  DB(locks, R2)
<1>1. \A l \in DOMAIN locks : locks[l] \in LockRecord /\ locks[l].resource \in DOMAIN R2
  BY DEF DB, LocksOK, Located
<1>2. ASSUME NEW r \in DOMAIN R2
      PROVE  /\ R2[r] \in ResourceRecord
             /\ R2[r].converting = resources[r].converting
             /\ R2[r].waiting = resources[r].waiting
  <2>1. resources[r] \in ResourceRecord
    BY DEF DB, ResourcesOK
  <2> QED
    BY <2>1 DEF ResourceRecord
<1>3. Located(locks, R2)
  BY <1>1 DEF Located
<1> QED
  BY <1>1, <1>2, <1>3, UntouchedQueues

-----------------------------------------------------------------------------
(* The calls *)

\* $DEQ of one lock.
LEMMA DequeueKeeps ==
  ASSUME NEW o, NEW l, NEW how, NEW v \in Value, DB(locks, resources), Dequeue(o, l, how, v)
  PROVE  DB(locks', resources') /\ events' \subseteq AllEvents
<1> DEFINE R2 == StoreBack(l, how, v)
           r == locks[l].resource
<1>1. l \in DOMAIN locks /\ RemoveLock(locks, R2, l, "Aborted")
  BY DEF Dequeue
<1>2. r \in DOMAIN resources
  BY <1>1 DEF DB, Located
<1>3. \/ R2 = resources
      \/ R2 = [resources EXCEPT ![r].value = v, ![r].invalid = FALSE]
      \/ R2 = [resources EXCEPT ![r].invalid = TRUE]
  BY DEF StoreBack
<1> HIDE DEF R2, r
<1>4. DOMAIN R2 = DOMAIN resources
  BY <1>3
<1>5. ASSUME NEW x \in DOMAIN resources
      PROVE  \/ R2[x] = resources[x]
             \/ \E u \in Value : R2[x] = [resources[x] EXCEPT !.value = u, !.invalid = FALSE]
             \/ R2[x] = [resources[x] EXCEPT !.invalid = TRUE]
  BY <1>3
<1>6. DB(locks, R2)
  BY <1>4, <1>5, StoreKeeps
<1> QED
  BY <1>1, <1>6, RemoveLockKeeps DEF EventKind

\* A conversion granted at once: its new mode goes with every other held on
\* the resource, because it conflicts with nothing the old one did not, or
\* because each of them was looked at.
LEMMA ConvertedKeeps ==
  ASSUME NEW l \in DOMAIN locks, NEW R, NEW L2, DB(locks, R),
         DOMAIN L2 = DOMAIN locks,
         \A x \in DOMAIN locks \ {l} : L2[x] = locks[x],
         L2[l] \in LockRecord,
         locks[l].state = "Granted",
         L2[l].resource = locks[l].resource,
         L2[l].state = "Granted",
         L2[l].requested = L2[l].mode,
         \/ NoMoreRestrictive(L2[l].mode, locks[l].mode)
         \/ CompatibleWithAll(locks, locks[l].resource, l, L2[l].mode)
  PROVE  DB(L2, R)
<1>1. LocksOK(L2) /\ Located(L2, R) /\ ModesSettled(L2)
  BY DEF DB, LocksOK, Located, ModesSettled
<1>2. \A r, st : Members(L2, r, st) = Members(locks, r, st)
  BY DEF Members
<1>3. QueuesHold(L2, R)
  BY <1>2 DEF DB, QueuesHold
<1>4. ASSUME NEW o \in DOMAIN locks, o # l, locks[o].resource = locks[l].resource,
             locks[o].state # "Waiting"
      PROVE  Compatible(L2[l].mode, locks[o].mode) /\ Compatible(locks[o].mode, L2[l].mode)
  <2>1. locks[o].mode \in Mode /\ L2[l].mode \in Mode /\ locks[l].mode \in Mode
    BY DEF DB, LocksOK, LockRecord
  <2>2. Compatible(locks[l].mode, locks[o].mode)
    BY <1>4 DEF DB, HoldersCompatible
  <2>3. o \in Holders(locks, locks[l].resource) \ {l}
    BY <1>4 DEF Holders
  <2>4. Compatible(L2[l].mode, locks[o].mode)
    BY <2>1, <2>2, <2>3 DEF NoMoreRestrictive, CompatibleWithAll
  <2> QED
    BY <2>1, <2>4, CompatibleSymmetric
<1>5. ASSUME NEW x \in DOMAIN L2, NEW o \in DOMAIN L2, x # o,
             L2[x].resource = L2[o].resource, L2[x].state # "Waiting", L2[o].state # "Waiting"
      PROVE  Compatible(L2[x].mode, L2[o].mode)
  <2>1. CASE x = l
    BY <1>4, <1>5, <2>1
  <2>2. CASE o = l
    BY <1>4, <1>5, <2>2
  <2>3. CASE x # l /\ o # l
    BY <1>5, <2>3 DEF DB, HoldersCompatible
  <2> QED
    BY <2>1, <2>2, <2>3
<1> QED
  BY <1>1, <1>3, <1>5 DEF DB, HoldersCompatible

\* A granted lock's conversion queued.
LEMMA QueueConversionKeeps ==
  ASSUME NEW l \in DOMAIN locks, NEW L2, NEW r, DB(locks, resources),
         DOMAIN L2 = DOMAIN locks,
         \A x \in DOMAIN locks \ {l} : L2[x] = locks[x],
         L2[l] \in LockRecord,
         r = locks[l].resource,
         locks[l].state = "Granted",
         L2[l].resource = r,
         L2[l].state = "Converting",
         L2[l].mode = locks[l].mode,
         ~NoMoreRestrictive(L2[l].requested, L2[l].mode)
  PROVE  DB(L2, [resources EXCEPT ![r].converting = Append(@, l)])
<1> DEFINE q == Append(resources[r].converting, l)
           R2 == [resources EXCEPT ![r].converting = q]
<1>1. r \in DOMAIN resources /\ resources[r] \in ResourceRecord /\ l \in Id
  BY DEF DB, Located, ResourcesOK, LocksOK
<1>2. q \in Seq(Id) /\ IsInjective(q)
      /\ ToSet(q) = Members(locks, r, "Converting") \cup {l}
  <2>1. /\ resources[r].converting \in Seq(Id)
        /\ IsInjective(resources[r].converting)
        /\ ToSet(resources[r].converting) = Members(locks, r, "Converting")
    BY <1>1 DEF ResourceRecord, DB, QueuesHold
  <2>2. l \notin Members(locks, r, "Converting")
    BY DEF Members
  <2> QED
    BY <1>1, <2>1, <2>2, AppendToQueue
<1> HIDE DEF q
<1>3. DOMAIN R2 = DOMAIN resources /\ \A x \in DOMAIN resources \ {r} : R2[x] = resources[x]
  OBVIOUS
<1>4. R2[r] = [resources[r] EXCEPT !.converting = q]
  BY <1>1
<1> HIDE DEF R2
<1>5. R2[r] \in ResourceRecord /\ R2[r].converting = q /\ R2[r].waiting = resources[r].waiting
  BY <1>1, <1>2, <1>4 DEF ResourceRecord
<1>6. LocksOK(L2) /\ ResourcesOK(R2) /\ Located(L2, R2) /\ ModesSettled(L2)
  BY <1>1, <1>3, <1>5 DEF DB, LocksOK, ResourcesOK, Located, ModesSettled
<1>7. /\ \A x : Members(L2, x, "Waiting") = Members(locks, x, "Waiting")
      /\ \A x : x # r => Members(L2, x, "Converting") = Members(locks, x, "Converting")
      /\ Members(L2, r, "Converting") = Members(locks, r, "Converting") \cup {l}
  BY DEF Members
<1>8. ASSUME NEW x \in DOMAIN R2
      PROVE  /\ IsInjective(R2[x].converting)
             /\ IsInjective(R2[x].waiting)
             /\ ToSet(R2[x].converting) = Members(L2, x, "Converting")
             /\ ToSet(R2[x].waiting) = Members(L2, x, "Waiting")
  <2>1. CASE x = r
    BY <2>1, <1>1, <1>2, <1>5, <1>7 DEF DB, QueuesHold
  <2>2. CASE x # r
    <3>1. x \in DOMAIN resources /\ R2[x] = resources[x]
      BY <2>2, <1>3
    <3> QED
      BY <2>2, <3>1, <1>7 DEF DB, QueuesHold
  <2> QED
    BY <2>1, <2>2
<1>9. \A x \in DOMAIN locks :
        /\ L2[x].resource = locks[x].resource
        /\ L2[x].mode = locks[x].mode
        /\ L2[x].state # "Waiting" <=> locks[x].state # "Waiting"
  OBVIOUS
<1>10. HoldersCompatible(L2)
  BY <1>9 DEF DB, HoldersCompatible
<1>11. DB(L2, R2)
  BY <1>6, <1>8, <1>10 DEF DB, QueuesHold
<1> QED
  BY <1>11 DEF R2, q

\* The locks with l asking for m (Convert's first assignments), with the
\* conversion granted, and with it queued.
Asking(l, m, blk, vb) ==
  [locks EXCEPT ![l].valblk = vb, ![l].blocking = blk, ![l].requested = m]

Converted(l, m, blk, vb, v) ==
  [Asking(l, m, blk, vb) EXCEPT
     ![l] = GrantedRecord(Asking(l, m, blk, vb), StoreDown(l, m, vb, v), l, m > locks[l].mode)]

AskedFor(l, m, blk, vb) == [Asking(l, m, blk, vb) EXCEPT ![l].state = "Converting"]

\* An asking lock is as it was but for what it asks for.
LEMMA AskingIs ==
  ASSUME NEW l \in DOMAIN locks, NEW m \in Mode, NEW blk \in BOOLEAN, NEW vb \in BOOLEAN,
         DB(locks, resources), locks[l].state = "Granted", NEW L, L = Asking(l, m, blk, vb)
  PROVE  /\ DOMAIN L = DOMAIN locks /\ \A x \in DOMAIN locks \ {l} : L[x] = locks[x]
         /\ L[l] \in LockRecord
         /\ L[l].resource = locks[l].resource /\ L[l].state = "Granted"
         /\ L[l].mode = locks[l].mode /\ L[l].requested = m
<1>1. locks[l] \in LockRecord
  BY DEF DB, LocksOK
<1>2. /\ DOMAIN L = DOMAIN locks /\ \A x \in DOMAIN locks \ {l} : L[x] = locks[x]
      /\ L[l] = [locks[l] EXCEPT !.valblk = vb, !.blocking = blk, !.requested = m]
  BY DEF Asking
<1> QED
  BY <1>1, <1>2 DEF LockRecord

\* A conversion granted at once.
LEMMA GrantConversionKeeps ==
  ASSUME NEW l \in DOMAIN locks, NEW m \in Mode, NEW blk \in BOOLEAN, NEW vb \in BOOLEAN,
         NEW v \in Value, DB(locks, resources), locks[l].state = "Granted", ConvertGrantable(l, m)
  PROVE  /\ DB(Converted(l, m, blk, vb, v), StoreDown(l, m, vb, v))
         /\ DOMAIN Converted(l, m, blk, vb, v) = DOMAIN locks
         /\ \A x \in DOMAIN locks \ {l} : Converted(l, m, blk, vb, v)[x] = locks[x]
         /\ locks[l].resource \in DOMAIN StoreDown(l, m, vb, v)
<1> DEFINE r == locks[l].resource
           L == Asking(l, m, blk, vb)
           R == StoreDown(l, m, vb, v)
           up == m > locks[l].mode
           L2 == Converted(l, m, blk, vb, v)
<1>1. DB(locks, R) /\ DOMAIN R = DOMAIN resources
  <2>1. R = resources \/ R = [resources EXCEPT ![r].value = v, ![r].invalid = FALSE]
    BY DEF StoreDown
  <2> HIDE DEF R, r
  <2>2. DOMAIN R = DOMAIN resources
    BY <2>1
  <2>3. ASSUME NEW x \in DOMAIN resources
        PROVE  \/ R[x] = resources[x]
               \/ \E u \in Value : R[x] = [resources[x] EXCEPT !.value = u, !.invalid = FALSE]
               \/ R[x] = [resources[x] EXCEPT !.invalid = TRUE]
    BY <2>1
  <2> QED
    BY <2>2, <2>3, StoreKeeps
<1>2. r \in DOMAIN R /\ R[r] \in ResourceRecord /\ up \in BOOLEAN
  BY <1>1 DEF DB, ResourcesOK, Located
<1>3. /\ DOMAIN L = DOMAIN locks /\ \A x \in DOMAIN locks \ {l} : L[x] = locks[x]
      /\ L[l] \in LockRecord
      /\ L[l].resource = r /\ L[l].requested = m
  BY AskingIs
<1> HIDE DEF L, R
<1>4. /\ DOMAIN L2 = DOMAIN locks /\ \A x \in DOMAIN locks \ {l} : L2[x] = locks[x]
      /\ L2[l] = GrantedRecord(L, R, l, up)
  BY <1>3 DEF Converted, L, R
<1> HIDE DEF L2, up
<1>5. /\ L2[l] \in LockRecord
      /\ L2[l].resource = r /\ L2[l].state = "Granted"
      /\ L2[l].mode = m /\ L2[l].requested = m
  BY <1>2, <1>3, <1>4, GrantedRecordIs
<1>6. NoMoreRestrictive(m, locks[l].mode) \/ CompatibleWithAll(locks, r, l, m)
  BY DEF ConvertGrantable
<1>7. DB(L2, R)
  BY <1>1, <1>4, <1>5, <1>6, ConvertedKeeps
<1> QED
  BY <1>2, <1>4, <1>7 DEF L2, R

\* A conversion queued.
LEMMA AskedForKeeps ==
  ASSUME NEW l \in DOMAIN locks, NEW m \in Mode, NEW blk \in BOOLEAN, NEW vb \in BOOLEAN,
         DB(locks, resources), locks[l].state = "Granted", ~ConvertGrantable(l, m)
  PROVE  LET L == AskedFor(l, m, blk, vb)
             r == locks[l].resource
         IN /\ DB(L, [resources EXCEPT ![r].converting = Append(@, l)])
            /\ DOMAIN L = DOMAIN locks
            /\ \A x \in DOMAIN locks \ {l} : L[x] = locks[x]
            /\ L[l].resource = r /\ L[l].state = "Converting"
            /\ L[l].mode = locks[l].mode /\ L[l].requested = m
<1> DEFINE A == Asking(l, m, blk, vb)
           L == AskedFor(l, m, blk, vb)
           r == locks[l].resource
<1>1. /\ DOMAIN A = DOMAIN locks /\ \A x \in DOMAIN locks \ {l} : A[x] = locks[x]
      /\ A[l] \in LockRecord
      /\ A[l].resource = r /\ A[l].mode = locks[l].mode /\ A[l].requested = m
  BY AskingIs
<1> HIDE DEF A
<1>2. /\ DOMAIN L = DOMAIN locks /\ \A x \in DOMAIN locks \ {l} : L[x] = locks[x]
      /\ L[l] = [A[l] EXCEPT !.state = "Converting"]
  BY <1>1 DEF AskedFor, A
<1> HIDE DEF L
<1>3. /\ L[l] \in LockRecord
      /\ L[l].resource = r /\ L[l].state = "Converting"
      /\ L[l].mode = locks[l].mode /\ L[l].requested = m
  BY <1>1, <1>2 DEF LockRecord, State
<1>4. ~NoMoreRestrictive(m, locks[l].mode)
  BY DEF ConvertGrantable
<1>5. DB(L, [resources EXCEPT ![r].converting = Append(@, l)])
  BY <1>2, <1>3, <1>4, QueueConversionKeeps
<1> QED
  BY <1>2, <1>3, <1>5 DEF L

\* What Convert comes to.
LEMMA ConvertSteps ==
  ASSUME NEW o, NEW l, NEW m, NEW blk, NEW vb, NEW v, Convert(o, l, m, blk, vb, v)
  PROVE  LET r == locks[l].resource
         IN /\ l \in DOMAIN locks /\ locks[l].state = "Granted"
            /\ ConvertGrantable(l, m)
                 => Settle(Converted(l, m, blk, vb, v), StoreDown(l, m, vb, v), r, {})
            /\ ~ConvertGrantable(l, m)
                 => Finish(AskedFor(l, m, blk, vb),
                           [resources EXCEPT ![r].converting = Append(@, l)], r, {})
  BY DEF Convert, Converted, AskedFor, Asking

\* $ENQ with LCK$M_CONVERT.
LEMMA ConvertKeeps ==
  ASSUME NEW o, NEW l, NEW m \in Mode, NEW blk \in BOOLEAN, NEW vb \in BOOLEAN, NEW v \in Value,
         DB(locks, resources), Convert(o, l, m, blk, vb, v)
  PROVE  DB(locks', resources') /\ DOMAIN locks' = DOMAIN locks /\ events' \subseteq AllEvents
<1>1. /\ l \in DOMAIN locks /\ locks[l].state = "Granted" /\ {} \subseteq AllEvents
  BY ConvertSteps
<1>2. CASE ConvertGrantable(l, m)
  <2>1. Settle(Converted(l, m, blk, vb, v), StoreDown(l, m, vb, v), locks[l].resource, {})
    BY <1>2, ConvertSteps
  <2>2. /\ DB(Converted(l, m, blk, vb, v), StoreDown(l, m, vb, v))
        /\ DOMAIN Converted(l, m, blk, vb, v) = DOMAIN locks
        /\ locks[l].resource \in DOMAIN StoreDown(l, m, vb, v)
    BY <1>1, <1>2, GrantConversionKeeps
  <2> QED
    BY <1>1, <2>1, <2>2, SettleKeeps
<1>3. CASE ~ConvertGrantable(l, m)
  <2> DEFINE R == [resources EXCEPT ![locks[l].resource].converting = Append(@, l)]
  <2>1. Finish(AskedFor(l, m, blk, vb), R, locks[l].resource, {})
    BY <1>3, ConvertSteps
  <2>2. DB(AskedFor(l, m, blk, vb), R) /\ DOMAIN AskedFor(l, m, blk, vb) = DOMAIN locks
    BY <1>1, <1>3, AskedForKeeps
  <2> HIDE DEF R
  <2> QED
    BY <1>1, <2>1, <2>2, FinishKeeps
<1> QED
  BY <1>2, <1>3

\* A fresh resource has nobody on it.
LEMMA WithResourceKeeps ==
  ASSUME NEW r \in Resource, DB(locks, resources)
  PROVE  DB(locks, WithResource(resources, r)) /\ r \in DOMAIN WithResource(resources, r)
<1> DEFINE R2 == WithResource(resources, r)
<1>1. CASE r \in DOMAIN resources
  BY <1>1 DEF WithResource
<1>2. CASE r \notin DOMAIN resources
  <2>1. /\ DOMAIN R2 = DOMAIN resources \cup {r}
        /\ R2[r] = NewResource
        /\ \A x \in DOMAIN resources :
             R2[x] = resources[x] \/ R2[x] = [resources[x] EXCEPT !.children = @ + 1]
    BY <1>2 DEF WithResource
  <2> HIDE DEF R2
  <2>2. /\ R2[r] \in ResourceRecord
        /\ R2[r].converting = <<>> /\ R2[r].waiting = <<>>
    BY <2>1, ConstantsOK DEF NewResource, ResourceRecord
  <2>3. ASSUME NEW x \in DOMAIN resources
        PROVE  /\ R2[x] \in ResourceRecord
               /\ R2[x].converting = resources[x].converting
               /\ R2[x].waiting = resources[x].waiting
    <3>1. resources[x] \in ResourceRecord
      BY DEF DB, ResourcesOK
    <3> QED
      BY SMTT(30), <2>1, <3>1 DEF ResourceRecord
  <2>4. ResourcesOK(R2) /\ Located(locks, R2)
    BY <2>1, <2>2, <2>3 DEF DB, ResourcesOK, Located
  <2>5. Members(locks, r, "Converting") = {} /\ Members(locks, r, "Waiting") = {}
    BY <1>2 DEF DB, Located, Members
  <2>6. IsInjective(<<>>) /\ ToSet(<<>>) = {}
    BY DEF IsInjective, ToSet
  <2>7. QueuesHold(locks, R2)
    BY <2>1, <2>2, <2>3, <2>5, <2>6 DEF DB, QueuesHold
  <2> QED
    BY <2>1, <2>4, <2>7 DEF DB, R2
<1> QED
  BY <1>1, <1>2

\* A new lock granted at once.
LEMMA NewGrantKeeps ==
  ASSUME NEW l \in Id, l \notin DOMAIN locks, NEW L2, NEW R, NEW r \in DOMAIN R, DB(locks, R),
         DOMAIN L2 = DOMAIN locks \cup {l},
         \A x \in DOMAIN locks :
           /\ L2[x] \in LockRecord
           /\ L2[x].resource = locks[x].resource
           /\ L2[x].state = locks[x].state
           /\ L2[x].mode = locks[x].mode
           /\ L2[x].requested = locks[x].requested,
         L2[l] \in LockRecord,
         L2[l].resource = r,
         L2[l].state = "Granted",
         L2[l].requested = L2[l].mode,
         CompatibleWithAll(locks, r, NoLock, L2[l].mode)
  PROVE  DB(L2, R)
<1>1. LocksOK(L2) /\ Located(L2, R) /\ ModesSettled(L2)
  BY DEF DB, LocksOK, Located, ModesSettled
<1>2. \A x : /\ Members(L2, x, "Converting") = Members(locks, x, "Converting")
             /\ Members(L2, x, "Waiting") = Members(locks, x, "Waiting")
  BY DEF Members
<1>3. QueuesHold(L2, R)
  BY <1>2 DEF DB, QueuesHold
<1>4. ASSUME NEW o \in DOMAIN locks, locks[o].resource = r, locks[o].state # "Waiting"
      PROVE  Compatible(L2[l].mode, locks[o].mode) /\ Compatible(locks[o].mode, L2[l].mode)
  <2>1. locks[o].mode \in Mode /\ L2[l].mode \in Mode
    BY DEF DB, LocksOK, LockRecord
  <2>2. o # NoLock
    BY ConstantsOK DEF DB, LocksOK, Id, NoLock
  <2>3. o \in Holders(locks, r) \ {NoLock}
    BY <1>4, <2>2 DEF Holders
  <2> QED
    BY <2>1, <2>3, CompatibleSymmetric DEF CompatibleWithAll
<1>5. ASSUME NEW x \in DOMAIN L2, NEW o \in DOMAIN L2, x # o,
             L2[x].resource = L2[o].resource, L2[x].state # "Waiting", L2[o].state # "Waiting"
      PROVE  Compatible(L2[x].mode, L2[o].mode)
  <2>1. CASE x = l
    BY <1>4, <1>5, <2>1
  <2>2. CASE o = l
    BY <1>4, <1>5, <2>2
  <2>3. CASE x # l /\ o # l
    BY <1>5, <2>3 DEF DB, HoldersCompatible
  <2> QED
    BY <2>1, <2>2, <2>3
<1> QED
  BY <1>1, <1>3, <1>5 DEF DB, HoldersCompatible

\* A new request queued.
LEMMA NewRequestKeeps ==
  ASSUME NEW l \in Id, l \notin DOMAIN locks, NEW L2, NEW R, NEW r \in DOMAIN R, DB(locks, R),
         DOMAIN L2 = DOMAIN locks \cup {l},
         \A x \in DOMAIN locks :
           /\ L2[x] \in LockRecord
           /\ L2[x].resource = locks[x].resource
           /\ L2[x].state = locks[x].state
           /\ L2[x].mode = locks[x].mode
           /\ L2[x].requested = locks[x].requested,
         L2[l] \in LockRecord,
         L2[l].resource = r,
         L2[l].state = "Waiting"
  PROVE  DB(L2, [R EXCEPT ![r].waiting = Append(@, l)])
<1> DEFINE q == Append(R[r].waiting, l)
           R2 == [R EXCEPT ![r].waiting = q]
<1>1. R[r] \in ResourceRecord
  BY DEF DB, ResourcesOK
<1>2. q \in Seq(Id) /\ IsInjective(q) /\ ToSet(q) = Members(locks, r, "Waiting") \cup {l}
  <2>1. /\ R[r].waiting \in Seq(Id)
        /\ IsInjective(R[r].waiting)
        /\ ToSet(R[r].waiting) = Members(locks, r, "Waiting")
    BY <1>1 DEF ResourceRecord, DB, QueuesHold
  <2>2. l \notin Members(locks, r, "Waiting")
    BY DEF Members
  <2> QED
    BY <2>1, <2>2, AppendToQueue
<1> HIDE DEF q
<1>3. DOMAIN R2 = DOMAIN R /\ \A x \in DOMAIN R \ {r} : R2[x] = R[x]
  OBVIOUS
<1>4. R2[r] = [R[r] EXCEPT !.waiting = q]
  OBVIOUS
<1> HIDE DEF R2
<1>5. R2[r] \in ResourceRecord /\ R2[r].waiting = q /\ R2[r].converting = R[r].converting
  BY <1>1, <1>2, <1>4 DEF ResourceRecord
<1>6. LocksOK(L2) /\ ResourcesOK(R2) /\ Located(L2, R2) /\ ModesSettled(L2)
  BY <1>3, <1>5 DEF DB, LocksOK, ResourcesOK, Located, ModesSettled
<1>7. /\ \A x : Members(L2, x, "Converting") = Members(locks, x, "Converting")
      /\ \A x : x # r => Members(L2, x, "Waiting") = Members(locks, x, "Waiting")
      /\ Members(L2, r, "Waiting") = Members(locks, r, "Waiting") \cup {l}
  BY DEF Members
<1>8. ASSUME NEW x \in DOMAIN R2
      PROVE  /\ IsInjective(R2[x].converting)
             /\ IsInjective(R2[x].waiting)
             /\ ToSet(R2[x].converting) = Members(L2, x, "Converting")
             /\ ToSet(R2[x].waiting) = Members(L2, x, "Waiting")
  <2>1. CASE x = r
    BY <2>1, <1>2, <1>5, <1>7 DEF DB, QueuesHold
  <2>2. CASE x # r
    <3>1. x \in DOMAIN R /\ R2[x] = R[x]
      BY <2>2, <1>3
    <3> QED
      BY <2>2, <3>1, <1>7 DEF DB, QueuesHold
  <2> QED
    BY <2>1, <2>2
<1>9. HoldersCompatible(L2)
  BY DEF DB, HoldersCompatible
<1>10. DB(L2, R2)
  BY <1>6, <1>8, <1>9 DEF DB, QueuesHold
<1> QED
  BY <1>10 DEF R2, q

\* A request's resource: a root, or one below its parent's.
LEMMA RequestResourceIsResource ==
  ASSUME NEW p \in DOMAIN locks \cup {NoLock}, NEW a \in AccessMode, NEW n \in Name, LocksOK(locks)
  PROVE  RequestResource(p, a, n) \in Resource /\ LockAccessMode(p, a) \in AccessMode
<1>1. CASE p = NoLock
  BY <1>1 DEF RequestResource, LockAccessMode, Resource
<1>2. CASE p # NoLock
  <2>1. /\ locks[p].resource \in Seq(AccessMode \X Name)
        /\ locks[p].amode \in AccessMode
    BY <1>2 DEF LocksOK, LockRecord, Resource
  <2>2. /\ RequestResource(p, a, n) = Append(locks[p].resource, <<locks[p].amode, n>>)
        /\ LockAccessMode(p, a) = locks[p].amode
    BY <1>2 DEF RequestResource, LockAccessMode
  <2>3. <<locks[p].amode, n>> \in AccessMode \X Name
    BY <2>1
  <2>4. /\ Append(locks[p].resource, <<locks[p].amode, n>>) \in Seq(AccessMode \X Name)
        /\ Append(locks[p].resource, <<locks[p].amode, n>>) # <<>>
    BY <2>1, <2>3, AppendProperties
  <2> QED
    BY <2>1, <2>2, <2>4 DEF Resource
<1> QED
  BY <1>1, <1>2

\* The locks with a new one, waiting.
LEMMA AddedIs ==
  ASSUME NEW l \in Id, l \notin DOMAIN locks, NEW rec, LocksOK(locks)
  PROVE  /\ DOMAIN AddLock(locks, l, rec) = DOMAIN locks \cup {l}
         /\ AddLock(locks, l, rec)[l] = rec
         /\ \A x \in DOMAIN locks :
              /\ AddLock(locks, l, rec)[x] \in LockRecord
              /\ AddLock(locks, l, rec)[x].resource = locks[x].resource
              /\ AddLock(locks, l, rec)[x].state = locks[x].state
              /\ AddLock(locks, l, rec)[x].mode = locks[x].mode
              /\ AddLock(locks, l, rec)[x].requested = locks[x].requested
<1> DEFINE L == AddLock(locks, l, rec)
<1>1. /\ DOMAIN L = DOMAIN locks \cup {l}
      /\ L[l] = rec
      /\ \A x \in DOMAIN locks : L[x] = locks[x] \/ L[x] = [locks[x] EXCEPT !.sublocks = @ + 1]
  BY DEF AddLock
<1> HIDE DEF L
<1>2. ASSUME NEW x \in DOMAIN locks
      PROVE  /\ L[x] \in LockRecord
             /\ L[x].resource = locks[x].resource
             /\ L[x].state = locks[x].state
             /\ L[x].mode = locks[x].mode
             /\ L[x].requested = locks[x].requested
  <2>1. locks[x] \in LockRecord
    BY DEF LocksOK
  <2> QED
    BY <1>1, <2>1 DEF LockRecord
<1> QED
  BY <1>1, <1>2 DEF L

\* The same with the new lock granted.
AddGranted(R, l, rec) ==
  [AddLock(locks, l, rec) EXCEPT ![l] = GrantedRecord(AddLock(locks, l, rec), R, l, TRUE)]

LEMMA AddGrantedKeeps ==
  ASSUME NEW l \in Id, l \notin DOMAIN locks, NEW rec \in LockRecord, NEW R, DB(locks, R),
         rec.resource \in DOMAIN R,
         CompatibleWithAll(locks, rec.resource, NoLock, rec.requested)
  PROVE  /\ DB(AddGranted(R, l, rec), R)
         /\ \A x \in DOMAIN locks :
              /\ x \in DOMAIN AddGranted(R, l, rec)
              /\ AddGranted(R, l, rec)[x] = AddLock(locks, l, rec)[x]
<1> DEFINE r == rec.resource
           L == AddLock(locks, l, rec)
           L2 == AddGranted(R, l, rec)
           up == TRUE
<1>1. /\ DOMAIN L = DOMAIN locks \cup {l} /\ L[l] = rec
      /\ \A x \in DOMAIN locks :
           /\ L[x] \in LockRecord
           /\ L[x].resource = locks[x].resource
           /\ L[x].state = locks[x].state
           /\ L[x].mode = locks[x].mode
           /\ L[x].requested = locks[x].requested
  BY AddedIs DEF DB
<1>2. R[r] \in ResourceRecord /\ up \in BOOLEAN
  BY DEF DB, ResourcesOK
<1> HIDE DEF L
<1>3. /\ DOMAIN L2 = DOMAIN locks \cup {l}
      /\ L2[l] = GrantedRecord(L, R, l, up)
      /\ \A x \in DOMAIN locks : L2[x] = L[x]
  BY <1>1 DEF AddGranted, L
<1> HIDE DEF L2, up
<1>4. /\ L2[l] \in LockRecord
      /\ L2[l].resource = r /\ L2[l].state = "Granted"
      /\ L2[l].mode = rec.requested /\ L2[l].requested = rec.requested
  <2>1. L[l] \in LockRecord /\ R[L[l].resource] \in ResourceRecord
    BY <1>1, <1>2
  <2> QED
    BY <1>1, <1>2, <1>3, <2>1, GrantedRecordIs
<1>5. \A x \in DOMAIN locks :
        /\ L2[x] \in LockRecord
        /\ L2[x].resource = locks[x].resource
        /\ L2[x].state = locks[x].state
        /\ L2[x].mode = locks[x].mode
        /\ L2[x].requested = locks[x].requested
  BY <1>1, <1>3
<1>6. DB(L2, R)
  BY <1>3, <1>4, <1>5, NewGrantKeeps
<1> QED
  BY <1>3, <1>6 DEF L, L2

\* The new lock of a request, and what Enqueue comes to.
RequestLock(o, m, n, a, p, blk, vb) ==
  NewLock(o, m, RequestResource(p, a, n), LockAccessMode(p, a), p, blk, vb)

LEMMA EnqueueAsSteps ==
  ASSUME NEW l, NEW o, NEW m, NEW n, NEW a, NEW p, NEW blk, NEW vb,
         EnqueueAs(l, o, m, n, a, p, blk, vb)
  PROVE  LET r == RequestResource(p, a, n)
             R == WithResource(resources, r)
             rec == RequestLock(o, m, n, a, p, blk, vb)
         IN /\ EnqueueGrantable(R, r, m) => Finish(AddGranted(R, l, rec), R, r, {})
            /\ ~EnqueueGrantable(R, r, m)
                 => Finish(AddLock(locks, l, rec), [R EXCEPT ![r].waiting = Append(@, l)], r, {})
  BY DEF EnqueueAs, AddGranted, RequestLock

LEMMA EnqueueSteps ==
  ASSUME NEW o, NEW m, NEW n, NEW a, NEW p, NEW blk, NEW vb, Enqueue(o, m, n, a, p, blk, vb)
  PROVE  LET r == RequestResource(p, a, n)
             R == WithResource(resources, r)
             rec == RequestLock(o, m, n, a, p, blk, vb)
         IN \E l \in Id \ DOMAIN locks :
              /\ lastID' = l
              /\ EnqueueGrantable(R, r, m) => Finish(AddGranted(R, l, rec), R, r, {})
              /\ ~EnqueueGrantable(R, r, m)
                   => Finish(AddLock(locks, l, rec), [R EXCEPT ![r].waiting = Append(@, l)], r, {})
<1>1. PICK l \in Id \ DOMAIN locks : lastID' = l /\ EnqueueAs(l, o, m, n, a, p, blk, vb)
  BY DEF Enqueue, NewID
<1> QED
  BY <1>1, EnqueueAsSteps

LEMMA RequestLockIs ==
  ASSUME NEW o \in Owner, NEW m \in Mode, NEW n \in Name, NEW a \in AccessMode,
         NEW p \in DOMAIN locks \cup {NoLock}, NEW blk \in BOOLEAN, NEW vb \in BOOLEAN,
         LocksOK(locks)
  PROVE  LET rec == RequestLock(o, m, n, a, p, blk, vb)
         IN /\ rec \in LockRecord
            /\ rec.resource = RequestResource(p, a, n)
            /\ rec.resource \in Resource
            /\ rec.state = "Waiting" /\ rec.requested = m
<1>1. RequestResource(p, a, n) \in Resource /\ LockAccessMode(p, a) \in AccessMode
  BY RequestResourceIsResource
<1>2. p \in Id \cup {NoLock}
  BY DEF LocksOK
<1> QED
  BY <1>1, <1>2, ConstantsOK DEF RequestLock, NewLock, LockRecord, State, Mode, NL, EX

\* $ENQ of a new lock.
LEMMA EnqueueAsKeeps ==
  ASSUME NEW l \in Id, l \notin DOMAIN locks, NEW o \in Owner, NEW m \in Mode, NEW n \in Name, NEW a \in AccessMode,
         NEW p \in DOMAIN locks \cup {NoLock}, NEW blk \in BOOLEAN, NEW vb \in BOOLEAN,
         DB(locks, resources), EnqueueAs(l, o, m, n, a, p, blk, vb)
  PROVE  DB(locks', resources') /\ events' \subseteq AllEvents
<1> DEFINE r == RequestResource(p, a, n)
           R == WithResource(resources, r)
           rec == RequestLock(o, m, n, a, p, blk, vb)
<1>1. /\ EnqueueGrantable(R, r, m) => Finish(AddGranted(R, l, rec), R, r, {})
      /\ ~EnqueueGrantable(R, r, m)
           => Finish(AddLock(locks, l, rec), [R EXCEPT ![r].waiting = Append(@, l)], r, {})
  BY EnqueueAsSteps
<1>2. /\ rec \in LockRecord /\ rec.resource = r /\ r \in Resource
      /\ rec.state = "Waiting" /\ rec.requested = m
  BY RequestLockIs DEF DB
<1> HIDE DEF rec, r
<1>3. DB(locks, R) /\ r \in DOMAIN R
  BY <1>2, WithResourceKeeps
<1> HIDE DEF R
<1>4. {} \subseteq AllEvents
  OBVIOUS
<1>5. CASE EnqueueGrantable(R, r, m)
  <2>1. DB(AddGranted(R, l, rec), R)
    BY <1>2, <1>3, <1>5, AddGrantedKeeps DEF EnqueueGrantable
  <2>2. DB(locks', resources') /\ events' \subseteq AllEvents
    BY <1>1, <1>4, <1>5, <2>1, FinishKeeps
  <2> QED
    BY <1>4, <2>2
<1>6. CASE ~EnqueueGrantable(R, r, m)
  <2> DEFINE L == AddLock(locks, l, rec)
             R2 == [R EXCEPT ![r].waiting = Append(@, l)]
  <2>1. /\ DOMAIN L = DOMAIN locks \cup {l} /\ L[l] = rec
        /\ \A x \in DOMAIN locks :
             /\ L[x] \in LockRecord
             /\ L[x].resource = locks[x].resource
             /\ L[x].state = locks[x].state
             /\ L[x].mode = locks[x].mode
             /\ L[x].requested = locks[x].requested
    BY AddedIs DEF DB
  <2> HIDE DEF L
  <2>2. DB(L, R2)
    BY <1>2, <1>3, <2>1, NewRequestKeeps
  <2> HIDE DEF R2
  <2>3. Finish(L, R2, r, {})
    BY <1>1, <1>6 DEF L, R2
  <2>4. DB(locks', resources') /\ events' \subseteq AllEvents
    BY <1>4, <2>2, <2>3, FinishKeeps
  <2> QED
    BY <1>4, <2>4
<1> QED
  BY <1>5, <1>6

LEMMA EnqueueKeeps ==
  ASSUME NEW o \in Owner, NEW m \in Mode, NEW n \in Name, NEW a \in AccessMode,
         NEW p \in DOMAIN locks \cup {NoLock}, NEW blk \in BOOLEAN, NEW vb \in BOOLEAN,
         DB(locks, resources), Enqueue(o, m, n, a, p, blk, vb)
  PROVE  DB(locks', resources') /\ lastID' \in 0 .. MaxId /\ events' \subseteq AllEvents
<1>1. PICK l \in Id \ DOMAIN locks : lastID' = l /\ EnqueueAs(l, o, m, n, a, p, blk, vb)
  BY DEF Enqueue, NewID
<1>2. l \in Id /\ l \notin DOMAIN locks /\ l \in 0 .. MaxId
  BY ConstantsOK DEF Id
<1> QED
  BY <1>1, <1>2, EnqueueAsKeeps

\* removeWhere starts with locks there are, each of them once.
LEMMA RemoveWhereDoomed ==
  ASSUME NEW match, match \subseteq DOMAIN locks, RemoveWhere(match)
  PROVE  /\ doomed' \subseteq [lock : DOMAIN locks, queued : BOOLEAN]
         /\ \A d, e \in doomed' : d.lock = e.lock => d = e
<1>1. \A l \in match : [lock |-> l, queued |-> locks[l].state # "Granted"]
                        \in [lock : DOMAIN locks, queued : BOOLEAN]
  OBVIOUS
<1>2. \A d \in doomed' : \E l \in match :
        d = [lock |-> l, queued |-> locks[l].state # "Granted"]
  BY DEF RemoveWhere
<1>3. ASSUME NEW d \in doomed', NEW e \in doomed', d.lock = e.lock
      PROVE  d = e
  <2>1. PICK l \in match : d = [lock |-> l, queued |-> locks[l].state # "Granted"]
    BY <1>2
  <2>2. PICK k \in match : e = [lock |-> k, queued |-> locks[k].state # "Granted"]
    BY <1>2
  <2>3. l = k
    BY <1>3, <2>1, <2>2
  <2> QED
    BY <2>1, <2>2, <2>3
<1> QED
  BY <1>1, <1>2, <1>3

\* One pass of removeWhere's loop leaves locks there are to remove.
LEMMA RemoveNextKeeps ==
  ASSUME IInv, RemoveNext
  PROVE  IInv'
<1>1. PICK d \in doomed : /\ doomed' = doomed \ {d}
                          /\ RemoveLock(locks, resources, d.lock, "Aborted")
                          /\ lastID' = lastID
  BY DEF RemoveNext
<1>2. d.lock \in DOMAIN locks /\ DB(locks, resources)
  BY DEF IInv
<1>3. /\ DB(locks', resources')
      /\ DOMAIN locks' = DOMAIN locks \ {d.lock}
      /\ events' \subseteq AllEvents
  BY <1>1, <1>2, RemoveLockKeeps DEF EventKind
<1>4. ASSUME NEW e \in doomed'
      PROVE  e \in [lock : DOMAIN locks', queued : BOOLEAN]
  <2>1. e \in doomed /\ e # d /\ e \in [lock : DOMAIN locks, queued : BOOLEAN]
    BY <1>1 DEF IInv
  <2>2. e.lock # d.lock
    BY <2>1 DEF IInv
  <2> QED
    BY <1>3, <2>1, <2>2
<1>5. \A x, y \in doomed' : x.lock = y.lock => x = y
  BY <1>1 DEF IInv
<1> QED
  BY <1>1, <1>3, <1>4, <1>5 DEF IInv

-----------------------------------------------------------------------------
(* The theorems *)

LEMMA InitHolds == Init => IInv
<1> SUFFICES ASSUME Init PROVE IInv
  OBVIOUS
<1>1. DOMAIN locks = {} /\ DOMAIN resources = {} /\ doomed = {} /\ events = {} /\ lastID = 0
  BY DEF Init
<1>2. DB(locks, resources)
  BY <1>1 DEF DB, LocksOK, ResourcesOK, Located, QueuesHold, ModesSettled, HoldersCompatible
<1> QED
  BY <1>1, <1>2, ConstantsOK DEF IInv

\* A call of a process keeps the invariant.
LEMMA CallKeeps ==
  ASSUME NEW o \in Owner, IInv, doomed = {}, Call(o)
  PROVE  IInv'
<1>1. DB(locks, resources) /\ lastID \in 0 .. MaxId
  BY DEF IInv
<1>2. ASSUME DB(locks', resources'), lastID' \in 0 .. MaxId, events' \subseteq AllEvents,
             doomed' = {}
      PROVE  IInv'
  BY <1>2 DEF IInv
<1>3. CASE EnqueueAny(o)
  <2>1. PICK m \in RequestMode, n \in Name, a \in AccessMode, p \in DOMAIN locks \cup {NoLock},
             blk \in Notice, vb \in ValBlk : Enqueue(o, m, n, a, p, blk, vb)
    BY <1>3 DEF EnqueueAny
  <2>2. m \in Mode /\ blk \in BOOLEAN /\ vb \in BOOLEAN
    BY ConstantsOK
  <2>3. DB(locks', resources') /\ lastID' \in 0 .. MaxId /\ events' \subseteq AllEvents
    BY <1>1, <2>1, <2>2, EnqueueKeeps
  <2>4. doomed' = {}
    BY <2>1 DEF Enqueue, EnqueueAs
  <2> QED
    BY <1>2, <2>3, <2>4
<1>4. CASE ConvertAny(o)
  <2>1. PICK l \in DOMAIN locks, m \in RequestMode, blk \in Notice, vb \in ValBlk, v \in Value :
               Convert(o, l, m, blk, vb, v)
    BY <1>4 DEF ConvertAny
  <2>2. m \in Mode /\ blk \in BOOLEAN /\ vb \in BOOLEAN
    BY ConstantsOK
  <2>3. DB(locks', resources') /\ events' \subseteq AllEvents
    BY <1>1, <2>1, <2>2, ConvertKeeps
  <2>4. doomed' = {} /\ lastID' = lastID
    BY <2>1 DEF Convert
  <2> QED
    BY <1>1, <1>2, <2>3, <2>4
<1>5. CASE \E l \in DOMAIN locks : Cancel(o, l)
  <2>1. PICK l \in DOMAIN locks : Cancel(o, l)
    BY <1>5
  <2>2. locks[l].state = "Converting" /\ Unconvert(l, "Canceled")
    BY <2>1 DEF Cancel
  <2>3. DB(locks', resources') /\ events' \subseteq AllEvents
    BY <1>1, <2>2, UnconvertKeeps DEF EventKind
  <2>4. doomed' = {} /\ lastID' = lastID
    BY <2>1 DEF Cancel
  <2> QED
    BY <1>1, <1>2, <2>3, <2>4
<1>6. CASE DequeueAny(o)
  <2>1. PICK l \in DOMAIN locks, how \in {"keep", "store", "invalidate"}, v \in Value :
               Dequeue(o, l, how, v)
    BY <1>6 DEF DequeueAny
  <2>2. DB(locks', resources') /\ events' \subseteq AllEvents
    BY <1>1, <2>1, DequeueKeeps
  <2>3. doomed' = {} /\ lastID' = lastID
    BY <2>1 DEF Dequeue
  <2> QED
    BY <1>1, <1>2, <2>2, <2>3
<1>7. ASSUME NEW match, match \subseteq DOMAIN locks, RemoveWhere(match),
             DB(locks', resources'), DOMAIN locks' = DOMAIN locks, events' = {}, lastID' = lastID
      PROVE  IInv'
  <2>1. /\ doomed' \subseteq [lock : DOMAIN locks', queued : BOOLEAN]
        /\ \A d, e \in doomed' : d.lock = e.lock => d = e
    BY <1>7, RemoveWhereDoomed
  <2> QED
    BY <1>1, <1>7, <2>1 DEF IInv
<1>8. CASE \E a \in AccessMode : DequeueAll(o, a)
  <2>1. PICK a \in AccessMode : DequeueAll(o, a)
    BY <1>8
  <2> DEFINE match == {l \in DOMAIN locks : locks[l].owner = o /\ locks[l].amode >= a}
  <2>2. match \subseteq DOMAIN locks
    OBVIOUS
  <2>3. /\ RemoveWhere(match) /\ locks' = locks /\ resources' = resources
        /\ events' = {} /\ lastID' = lastID
    BY <2>1 DEF DequeueAll
  <2> HIDE DEF match
  <2> QED
    BY <1>1, <1>7, <2>2, <2>3
<1>9. CASE \E p \in DOMAIN locks : DequeueSublocks(o, p)
  <2>1. PICK p \in DOMAIN locks : DequeueSublocks(o, p)
    BY <1>9
  <2> DEFINE match == Below(p) \ {p}
  <2>2. match \subseteq DOMAIN locks
    BY DEF Below
  <2>3. /\ RemoveWhere(match) /\ locks' = locks /\ resources' = resources
        /\ events' = {} /\ lastID' = lastID
    BY <2>1 DEF DequeueSublocks
  <2> HIDE DEF match
  <2> QED
    BY <1>1, <1>7, <2>2, <2>3
<1>10. CASE \E abnormal \in BOOLEAN : Release(o, abnormal)
  <2>1. PICK abnormal \in BOOLEAN : Release(o, abnormal)
    BY <1>10
  <2> DEFINE mine == {l \in DOMAIN locks : locks[l].owner = o}
  <2>2. mine \subseteq DOMAIN locks
    OBVIOUS
  <2>3. /\ RemoveWhere(mine) /\ locks' = locks /\ events' = {} /\ lastID' = lastID
        /\ DOMAIN resources' = DOMAIN resources
        /\ \A r \in DOMAIN resources :
             \/ resources'[r] = resources[r]
             \/ resources'[r] = [resources[r] EXCEPT !.invalid = TRUE]
    BY <2>1 DEF Release
  <2> HIDE DEF mine
  <2>4. DB(locks, resources')
    BY <1>1, <2>3, StoreKeeps
  <2> QED
    BY <1>7, <2>2, <2>3, <2>4
<1> QED
  BY <1>3, <1>4, <1>5, <1>6, <1>8, <1>9, <1>10 DEF Call

\* A deadlock's victim refused keeps the invariant.
LEMMA CheckDeadlocksKeeps ==
  ASSUME IInv, doomed = {}, CheckDeadlocks
  PROVE  IInv'
<1>1. PICK t \in DOMAIN locks : Refuse(t)
  BY DEF CheckDeadlocks
<1>2. DB(locks, resources) /\ lastID \in 0 .. MaxId
  BY DEF IInv
<1>3. DB(locks', resources') /\ events' \subseteq AllEvents
  <2>1. CASE locks[t].state = "Converting"
    <3>1. Unconvert(t, "Deadlock")
      BY <1>1, <2>1 DEF Refuse
    <3> QED
      BY <1>2, <2>1, <3>1, UnconvertKeeps DEF EventKind
  <2>2. CASE locks[t].state # "Converting"
    <3>1. RemoveLock(locks, resources, t, "Deadlock")
      BY <1>1, <2>2 DEF Refuse
    <3> QED
      BY <1>2, <3>1, RemoveLockKeeps DEF EventKind
  <2> QED
    BY <2>1, <2>2
<1>4. lastID' = lastID /\ doomed' = {}
  BY <1>1 DEF Refuse
<1> QED
  BY <1>2, <1>3, <1>4 DEF IInv

LEMMA NextKeeps ==
  ASSUME IInv, Next
  PROVE  IInv'
<1>1. CASE doomed = {} /\ \E o \in Owner : Call(o)
  BY <1>1, CallKeeps
<1>2. CASE doomed = {} /\ CheckDeadlocks
  BY <1>2, CheckDeadlocksKeeps
<1>3. CASE RemoveNext
  BY <1>3, RemoveNextKeeps
<1> QED
  BY <1>1, <1>2, <1>3 DEF Next

\* The inductive invariant holds in every reachable state: between calls
\* and between the passes of removeWhere.
THEOREM LockManagerInv == Spec => []IInv
<1>1. IInv /\ [Next]_vars => IInv'
  <2>1. IInv /\ UNCHANGED vars => IInv'
    BY DEF IInv, vars
  <2> QED
    BY <2>1, NextKeeps
<1> QED
  BY <1>1, InitHolds, PTL DEF Spec

\* The lock database keeps its types, whatever calls are made: no call
\* looks for a lock or a resource that has gone, or takes a lock off a
\* queue it is not on.
THEOREM LockManagerTypeCorrect == Spec => []TypeOK
<1>1. IInv => TypeOK
  BY IInvMeans
<1> QED
  BY <1>1, LockManagerInv, PTL

\* Every lock is on the queue its state names, once, and on no other.
THEOREM QueuesAlwaysMatch == Spec => []QueuesMatchStates
<1>1. IInv => QueuesMatchStates
  BY IInvMeans
<1> QED
  BY <1>1, LockManagerInv, PTL

\* Mutual exclusion: locks held on one resource are at compatible modes.
THEOREM HeldLocksCompatible == Spec => []GrantedCompatible
<1>1. IInv => GrantedCompatible
  BY IInvMeans
<1> QED
  BY <1>1, LockManagerInv, PTL

-----------------------------------------------------------------------------
(* Reference counts, and the trees of resources and of locks *)

Children(L, p) == {s \in DOMAIN L : L[s].parent = p}

Subs(R, r) == {x \in DOMAIN R : Len(x) > 1 /\ Front(x) = r}

LocksCounted(L) == \A l \in DOMAIN L : L[l].sublocks = Cardinality(Children(L, l))

\* Every resource's parent exists, and counts it.
Nodes(R) ==
  /\ IsFiniteSet(DOMAIN R)
  /\ \A r \in DOMAIN R :
       /\ R[r].children = Cardinality(Subs(R, r))
       /\ Len(r) > 1 => Front(r) \in DOMAIN R

Named(L, r) == \E l \in DOMAIN L : L[l].resource = r

\* Nothing but x exists that nothing names.
UsedBut(L, R, x) == \A r \in DOMAIN R : r # x => Subs(R, r) # {} \/ Named(L, r)

Used(L, R) == \A r \in DOMAIN R : Subs(R, r) # {} \/ Named(L, r)

\* Lock l's parent p holds its place above it.
Above(L, p, l) ==
  /\ L[p].owner = L[l].owner
  /\ L[p].amode = L[l].amode
  /\ L[p].state # "Waiting"
  /\ L[p].resource = Front(L[l].resource)

\* A sublock has its parent, unless both are among the locks G that go.
Placed(L, G) ==
  \A l \in DOMAIN L :
    LET p == L[l].parent
    IN p # NoLock =>
         /\ p \in DOMAIN L => Above(L, p, l)
         /\ (p \in DOMAIN L /\ p \notin G) \/ l \in G

Going == {d.lock : d \in doomed}

Tree(L, R, G) == LocksCounted(L) /\ Nodes(R) /\ Used(L, R) /\ Placed(L, G)

TreeInv == IInv /\ Tree(locks, resources, Going)

LEMMA TreeInvMeans == TreeInv => CountsExact /\ SublocksUnderParents
<1> SUFFICES ASSUME TreeInv PROVE CountsExact /\ SublocksUnderParents
  OBVIOUS
<1>1. /\ LocksCounted(locks) /\ Nodes(resources) /\ Used(locks, resources)
      /\ Placed(locks, Going) /\ Located(locks, resources)
  BY DEF TreeInv, Tree, IInv, DB
<1>2. CountsExact
  BY <1>1 DEF CountsExact, LocksCounted, Nodes, Used, Named, Located, Children, Subs
<1>3. \A x : x \in Going <=> \E d \in doomed : d.lock = x
  BY DEF Going
<1>4. SublocksUnderParents
  BY <1>1, <1>3 DEF SublocksUnderParents, Placed, Above
<1> QED
  BY <1>2, <1>4

-----------------------------------------------------------------------------
(* Paths *)

LEMMA PrefixMeans ==
  ASSUME NEW S, NEW s \in Seq(S), NEW t \in Seq(S)
  PROVE  IsPrefix(s, t) <=> Len(s) <= Len(t) /\ \A i \in 1 .. Len(s) : s[i] = t[i]
<1>1. Len(s) \in Nat /\ Len(t) \in Nat /\ SubSeq(s, 1, Len(s)) = s
  BY SubSeqFull, LenProperties
<1>2. ASSUME Len(s) <= Len(t)
      PROVE  s = SubSeq(t, 1, Len(s)) <=> \A i \in 1 .. Len(s) : s[i] = t[i]
  <2> DEFINE u == SubSeq(t, 1, Len(s))
  <2>1. /\ u \in Seq(S) /\ Len(u) = Len(s)
        /\ \A i \in 1 .. Len(s) : u[i] = t[i]
    <3>1. \A i \in 1 .. Len(s) : t[i] \in S
      BY <1>1, <1>2, ElementOfSeq
    <3> QED
      BY <1>1, <1>2, <3>1, SubSeqProperties
  <2> HIDE DEF u
  <2>2. (\A i \in 1 .. Len(s) : s[i] = u[i]) => s = u
    BY <2>1, SeqEqual
  <2> QED
    BY <2>1, <2>2 DEF u
<1> QED
  BY <1>1, <1>2 DEF IsPrefix

LEMMA FrontMeans ==
  ASSUME NEW S, NEW s \in Seq(S), s # <<>>
  PROVE  /\ Front(s) \in Seq(S) /\ Len(Front(s)) = Len(s) - 1
         /\ \A i \in 1 .. Len(s) - 1 : Front(s)[i] = s[i]
         /\ Len(s) \in Nat \ {0}
<1>1. Len(s) \in Nat \ {0} /\ \A i \in 1 .. Len(s) : s[i] \in S
  BY EmptySeq, LenProperties, ElementOfSeq
<1> DEFINE n == Len(s) - 1
<1>2. n \in Nat /\ n - 1 + 1 = n /\ n <= Len(s) /\ 1 \in 1 .. n + 1 /\ \A i \in 1 .. n : s[i] \in S
  BY <1>1
<1> HIDE DEF n
<1>3. /\ SubSeq(s, 1, n) \in Seq(S)
      /\ Len(SubSeq(s, 1, n)) = IF 1 <= n THEN n - 1 + 1 ELSE 0
      /\ \A i \in 1 .. n - 1 + 1 : SubSeq(s, 1, n)[i] = s[1 + i - 1]
  BY <1>1, <1>2, SubSeqProperties
<1>4. /\ SubSeq(s, 1, n) \in Seq(S) /\ Len(SubSeq(s, 1, n)) = n
      /\ \A i \in 1 .. n : SubSeq(s, 1, n)[i] = s[i]
  BY <1>2, <1>3
<1> QED
  BY <1>1, <1>4 DEF Front, n

\* The paths that lead to r form a chain, ordered by their lengths.
LEMMA PathsTo ==
  ASSUME NEW S, NEW r \in Seq(S)
  PROVE  /\ IsPrefix(r, r)
         /\ \A x, y \in Seq(S) : IsPrefix(x, y) /\ IsPrefix(y, r) => IsPrefix(x, r)
         /\ \A x, y \in Seq(S) :
              IsPrefix(x, r) /\ IsPrefix(y, r) /\ Len(x) <= Len(y) => IsPrefix(x, y)
         /\ \A x \in Seq(S) : IsPrefix(x, r) /\ Len(x) >= Len(r) => x = r
         /\ \A x \in Seq(S) : IsPrefix(x, r) => Len(x) <= Len(r)
<1>1. \A x, y \in Seq(S) :
        IsPrefix(x, y) <=> Len(x) <= Len(y) /\ \A i \in 1 .. Len(x) : x[i] = y[i]
  BY PrefixMeans
<1>2. \A x \in Seq(S) : Len(x) \in Nat
  BY LenProperties
<1>3. IsPrefix(r, r)
  BY <1>1, <1>2
<1>4. ASSUME NEW x \in Seq(S), NEW y \in Seq(S), IsPrefix(x, y), IsPrefix(y, r)
      PROVE  IsPrefix(x, r)
  <2>1. /\ Len(x) \in Nat /\ Len(y) \in Nat /\ Len(r) \in Nat
        /\ Len(x) <= Len(y) /\ Len(y) <= Len(r)
        /\ \A i \in 1 .. Len(x) : x[i] = y[i]
        /\ \A i \in 1 .. Len(y) : y[i] = r[i]
    BY <1>1, <1>2, <1>4
  <2>2. Len(x) <= Len(r) /\ \A i \in 1 .. Len(x) : i \in 1 .. Len(y)
    BY <2>1
  <2>3. \A i \in 1 .. Len(x) : x[i] = r[i]
    BY <2>1, <2>2
  <2> QED
    BY <1>1, <2>2, <2>3
<1>5. ASSUME NEW x \in Seq(S), NEW y \in Seq(S), IsPrefix(x, r), IsPrefix(y, r), Len(x) <= Len(y)
      PROVE  IsPrefix(x, y)
  <2>1. /\ Len(x) \in Nat /\ Len(y) \in Nat
        /\ \A i \in 1 .. Len(x) : x[i] = r[i]
        /\ \A i \in 1 .. Len(y) : y[i] = r[i]
    BY <1>1, <1>2, <1>5
  <2>2. \A i \in 1 .. Len(x) : i \in 1 .. Len(y)
    BY <1>5, <2>1
  <2>3. \A i \in 1 .. Len(x) : x[i] = y[i]
    BY <2>1, <2>2
  <2> QED
    BY <1>1, <1>5, <2>3
<1>6. ASSUME NEW x \in Seq(S), IsPrefix(x, r), Len(x) >= Len(r)
      PROVE  x = r
  <2>1. Len(x) = Len(r) /\ \A i \in 1 .. Len(x) : x[i] = r[i]
    BY <1>1, <1>2, <1>6
  <2> QED
    BY <2>1, SeqEqual
<1>7. \A x \in Seq(S) : IsPrefix(x, r) => Len(x) <= Len(r)
  BY <1>1
<1> QED
  BY <1>3, <1>4, <1>5, <1>6, <1>7

\* A path's front is its one prefix that is shorter by one.
LEMMA FrontIsPrefix ==
  ASSUME NEW S, NEW x \in Seq(S), x # <<>>, NEW g \in Seq(S)
  PROVE  Len(g) = Len(x) + 1 /\ IsPrefix(x, g) <=> Len(g) > 1 /\ Front(g) = x
<1>1. Len(x) \in Nat \ {0} /\ Len(g) \in Nat
  BY FrontMeans, LenProperties
<1>2. ASSUME Len(g) > 1
      PROVE  /\ Front(g) \in Seq(S) /\ Len(Front(g)) = Len(g) - 1
             /\ \A i \in 1 .. Len(g) - 1 : Front(g)[i] = g[i]
  <2>1. g # <<>>
    BY <1>2, EmptySeq
  <2> QED
    BY <2>1, FrontMeans
<1>3. ASSUME Len(g) = Len(x) + 1, IsPrefix(x, g)
      PROVE  Len(g) > 1 /\ Front(g) = x
  <2>1. Len(g) > 1 /\ Len(g) - 1 = Len(x)
    BY <1>1, <1>3
  <2>2. \A i \in 1 .. Len(x) : x[i] = Front(g)[i]
    BY <1>2, <1>3, <2>1, PrefixMeans
  <2> QED
    BY <1>2, <2>1, <2>2, SeqEqual
<1>4. ASSUME Len(g) > 1, Front(g) = x
      PROVE  Len(g) = Len(x) + 1 /\ IsPrefix(x, g)
  <2>1. Len(g) = Len(x) + 1 /\ Len(x) <= Len(g)
    BY <1>1, <1>2, <1>4
  <2>2. \A i \in 1 .. Len(x) : x[i] = g[i]
    BY <1>1, <1>2, <1>4, <2>1
  <2> QED
    BY <2>1, <2>2, PrefixMeans
<1> QED
  BY <1>3, <1>4

\* A resource's ancestors exist.
LEMMA AncestorsExist ==
  ASSUME NEW R, ResourcesOK(R), Nodes(R), NEW r \in DOMAIN R, NEW x \in Resource, IsPrefix(x, r)
  PROVE  x \in DOMAIN R
<1> DEFINE S == AccessMode \X Name
           T == {n \in Nat : \E y \in DOMAIN R : Len(y) = n /\ IsPrefix(x, y)}
<1>1. /\ x \in Seq(S) /\ x # <<>> /\ Len(x) \in Nat \ {0}
      /\ \A y \in DOMAIN R : y \in Seq(S) /\ y # <<>> /\ Len(y) \in Nat
  BY EmptySeq, LenProperties DEF ResourcesOK, Resource
<1>2. T \subseteq Nat /\ T # {}
  BY <1>1
<1> HIDE DEF S
<1>3. PICK k \in T : \A j \in T : k <= j
  BY <1>2, LeastOf
<1>4. PICK y \in DOMAIN R : Len(y) = k /\ IsPrefix(x, y)
  OBVIOUS
<1>5. CASE Len(y) <= Len(x)
  BY <1>1, <1>4, <1>5, PathsTo
<1>6. CASE Len(y) > Len(x)
  <2> DEFINE z == Front(y)
  <2>1. z \in Seq(S) /\ Len(z) = k - 1 /\ \A i \in 1 .. k - 1 : z[i] = y[i]
    BY <1>1, <1>4, FrontMeans
  <2>2. z \in DOMAIN R
    BY <1>1, <1>4, <1>6 DEF Nodes
  <2>3. Len(x) <= k - 1 /\ k - 1 \in Nat
    BY <1>1, <1>4, <1>6
  <2>4. IsPrefix(x, y) => \A i \in 1 .. Len(x) : x[i] = y[i]
    BY <1>1, PrefixMeans
  <2>5. \A i \in 1 .. Len(x) : x[i] = z[i]
    BY <1>1, <1>4, <2>1, <2>3, <2>4
  <2>6. IsPrefix(x, z)
    BY <1>1, <2>1, <2>3, <2>5, PrefixMeans
  <2>7. k - 1 \in T
    BY <2>1, <2>2, <2>3, <2>6
  <2> QED
    BY <1>2, <1>3, <2>7
<1> QED
  BY <1>1, <1>4, <1>5, <1>6

-----------------------------------------------------------------------------
(* Resources that nothing names are deleted *)

LEMMA SubsFinite ==
  ASSUME NEW R, NEW r, Nodes(R)
  PROVE  IsFiniteSet(Subs(R, r)) /\ Cardinality(Subs(R, r)) \in Nat
<1>1. Subs(R, r) \in SUBSET DOMAIN R
  BY DEF Subs
<1> QED
  BY <1>1, FS_Subset, FS_CardinalityType DEF Nodes

\* What deleteIfUnused deletes: a path up from r of which nothing is named,
\* and nothing is the parent of anything that stays.
LEMMA DeletedIs ==
  ASSUME NEW L, NEW R, NEW r \in DOMAIN R, ResourcesOK(R), Nodes(R), UsedBut(L, R, r),
         NEW gone, gone = Deleted(L, R, r)
  PROVE  /\ \A x \in gone : x \in DOMAIN R /\ IsPrefix(x, r)
         /\ \A x \in gone : ~Named(L, x)
         /\ \A x \in DOMAIN R \ gone : Len(x) > 1 => Front(x) \notin gone
         /\ \A x \in DOMAIN R \ gone : Named(L, x) \/ Subs(R, x) \ gone # {}
<1> DEFINE S == AccessMode \X Name
<1>1. r \in Seq(S) /\ \A x \in DOMAIN R : x \in Seq(S) /\ x # <<>> /\ x \in Resource /\ Len(x) \in Nat
  BY LenProperties DEF ResourcesOK, Resource
<1> HIDE DEF S
<1>2. \A x : x \in gone <=>
        /\ x \in DOMAIN R /\ IsPrefix(x, r)
        /\ \A y \in DOMAIN R : IsPrefix(x, y) /\ IsPrefix(y, r) => Unused(L, R, y, r)
  BY DEF Deleted
<1>3. \A x : Unused(L, R, x, r)
        <=> ~Named(L, x) /\ R[x].children = IF x = r THEN 0 ELSE 1
  BY DEF Unused, Named
<1>4. \A x \in gone : ~Named(L, x) /\ R[x].children = IF x = r THEN 0 ELSE 1
  <2> SUFFICES ASSUME NEW x \in gone PROVE Unused(L, R, x, r)
    BY <1>3
  <2>1. x \in DOMAIN R /\ IsPrefix(x, r) /\ IsPrefix(x, x)
    BY <1>1, <1>2, PathsTo
  <2> QED
    BY <1>2, <2>1
\* The next resource on the way from x down to r.
<1>5. ASSUME NEW x \in DOMAIN R, IsPrefix(x, r), x # r
      PROVE  \E y \in Subs(R, x) : /\ IsPrefix(y, r)
                                   /\ \A z \in DOMAIN R : IsPrefix(x, z) /\ IsPrefix(z, r)
                                        => z = x \/ IsPrefix(y, z)
  <2>1. /\ x \in Seq(S) /\ r \in Seq(S) /\ Len(x) \in Nat /\ Len(r) \in Nat
        /\ Len(x) < Len(r) /\ \A i \in 1 .. Len(r) : r[i] \in S
    <3>1. Len(x) >= Len(r) => x = r
      BY <1>1, <1>5, PathsTo
    <3> QED
      BY <1>1, <1>5, <3>1, ElementOfSeq, LenProperties
  <2> DEFINE n == Len(x) + 1
             y == SubSeq(r, 1, n)
  <2>2. n \in Nat /\ n <= Len(r) /\ 1 <= n /\ n - 1 + 1 = n /\ \A i \in 1 .. n : i \in 1 .. Len(r)
    BY <2>1
  <2>3. y \in Seq(S) /\ Len(y) = n /\ \A i \in 1 .. n : y[i] = r[i]
    <3> HIDE DEF n
    <3>1. \A i \in 1 .. n : r[i] \in S
      BY <2>1, <2>2
    <3>2. /\ SubSeq(r, 1, n) \in Seq(S)
          /\ Len(SubSeq(r, 1, n)) = IF 1 <= n THEN n - 1 + 1 ELSE 0
          /\ \A i \in 1 .. n - 1 + 1 : SubSeq(r, 1, n)[i] = r[1 + i - 1]
      BY <2>2, <3>1, SubSeqProperties
    <3> QED
      BY <2>2, <3>2
  <2> HIDE DEF y
  <2>4. IsPrefix(y, r) /\ y # <<>>
    BY <2>1, <2>2, <2>3, PrefixMeans, EmptySeq
  <2>5. y \in DOMAIN R
    <3>1. y \in Resource
      BY <2>3, <2>4 DEF Resource, S
    <3> QED
      BY <2>4, <3>1, AncestorsExist
  <2>6. IsPrefix(x, y)
    BY <1>5, <2>1, <2>2, <2>3, <2>4, PathsTo
  <2>7. y \in Subs(R, x)
    BY <1>1, <2>3, <2>5, <2>6, FrontIsPrefix DEF Subs
  <2>8. ASSUME NEW z \in DOMAIN R, IsPrefix(x, z), IsPrefix(z, r), z # x
        PROVE  IsPrefix(y, z)
    <3>1. z \in Seq(S) /\ Len(z) \in Nat /\ Len(x) <= Len(z)
      BY <1>1, <2>8, PathsTo
    <3>2. Len(z) # Len(x)
      BY <1>1, <2>1, <2>8, <3>1, PathsTo
    <3>3. Len(y) <= Len(z)
      BY <2>1, <2>3, <3>1, <3>2
    <3> QED
      BY <2>1, <2>3, <2>4, <2>8, <3>1, <3>3, PathsTo
  <2> QED
    BY <2>4, <2>7, <2>8
<1>6. ASSUME NEW x \in DOMAIN R, IsPrefix(x, r), x # r, Unused(L, R, x, r),
             NEW y \in Subs(R, x), y \in gone
      PROVE  x \in gone
  <2>1. PICK u \in Subs(R, x) : /\ IsPrefix(u, r)
                                /\ \A z \in DOMAIN R : IsPrefix(x, z) /\ IsPrefix(z, r)
                                     => z = x \/ IsPrefix(u, z)
    BY <1>5, <1>6
  <2>2. Cardinality(Subs(R, x)) = 1 /\ IsFiniteSet(Subs(R, x))
    BY <1>3, <1>6, SubsFinite DEF Nodes
  <2>3. u = y
    <3>1. PICK w : Subs(R, x) = {w}
      BY <2>2, FS_Singleton
    <3> QED
      BY <3>1, <2>1, <1>6
  <2>4. \A z \in DOMAIN R : IsPrefix(x, z) /\ IsPrefix(z, r) => Unused(L, R, z, r)
    BY <1>2, <1>6, <2>1, <2>3
  <2> QED
    BY <1>2, <1>6, <2>4
<1>7. ASSUME NEW x \in DOMAIN R, x \notin gone, Len(x) > 1, Front(x) \in gone
      PROVE  FALSE
  <2> DEFINE p == Front(x)
  <2>1. p \in DOMAIN R /\ IsPrefix(p, r) /\ x \in Subs(R, p)
    BY <1>2, <1>7 DEF Subs
  <2>2. R[p].children = Cardinality(Subs(R, p)) /\ IsFiniteSet(Subs(R, p))
    BY <2>1, SubsFinite DEF Nodes
  <2>3. p # r
    BY <1>4, <1>7, <2>1, <2>2, FS_EmptySet
  <2> HIDE DEF p
  <2>4. PICK u \in Subs(R, p) : /\ IsPrefix(u, r)
                                /\ \A z \in DOMAIN R : IsPrefix(p, z) /\ IsPrefix(z, r)
                                     => z = p \/ IsPrefix(u, z)
    BY <1>5, <2>1, <2>3
  <2>5. Cardinality(Subs(R, p)) = 1
    BY <1>4, <1>7, <2>2, <2>3 DEF p
  <2>6. u = x
    <3>1. PICK w : Subs(R, p) = {w}
      BY <2>2, <2>5, FS_Singleton
    <3> QED
      BY <2>1, <2>4, <3>1
  <2>7. \A z \in DOMAIN R : IsPrefix(x, z) /\ IsPrefix(z, r) => Unused(L, R, z, r)
    <3> SUFFICES ASSUME NEW z \in DOMAIN R, IsPrefix(x, z), IsPrefix(z, r)
                 PROVE  Unused(L, R, z, r)
      OBVIOUS
    <3>1. IsPrefix(p, x)
      BY <1>1, <1>7, <2>1, FrontIsPrefix DEF p
    <3>2. IsPrefix(p, z)
      BY <1>1, <2>1, <3>1, PathsTo
    <3> QED
      BY <1>2, <1>7, <3>2 DEF p
  <2> QED
    BY <1>2, <1>7, <2>4, <2>6, <2>7
<1>8. ASSUME NEW x \in DOMAIN R, x \notin gone, ~Named(L, x), Subs(R, x) \ gone = {}
      PROVE  FALSE
  <2>1. R[x].children = Cardinality(Subs(R, x)) /\ IsFiniteSet(Subs(R, x))
    BY SubsFinite DEF Nodes
  <2>2. \A y \in Subs(R, x) : y \in gone
    BY <1>8
  <2>3. CASE x = r
    <3>1. Subs(R, r) = {}
      <4> SUFFICES ASSUME NEW y \in Subs(R, r) PROVE FALSE
        OBVIOUS
      <4>1. y \in Seq(S) /\ Len(y) = Len(r) + 1 /\ Len(y) <= Len(r)
        BY <1>1, <1>2, <2>2, <2>3, FrontIsPrefix, PathsTo DEF Subs
      <4> QED
        BY <1>1, <4>1
    <3>2. Unused(L, R, r, r)
      BY <1>3, <1>8, <2>1, <2>3, <3>1, FS_EmptySet
    <3>3. \A z \in DOMAIN R : IsPrefix(r, z) /\ IsPrefix(z, r) => z = r
      BY <1>1, PathsTo
    <3> QED
      BY <1>1, <1>2, <1>8, <2>3, <3>2, <3>3, PathsTo
  <2>4. CASE x # r
    <3>1. PICK y \in Subs(R, x) : TRUE
      BY <1>8, <2>4 DEF UsedBut
    <3>2. y \in gone /\ y \in DOMAIN R /\ Len(y) > 1 /\ Front(y) = x
      BY <2>2 DEF Subs
    <3>3. IsPrefix(x, y) /\ IsPrefix(y, r)
      BY <1>1, <1>2, <3>2, FrontIsPrefix
    <3>4. IsPrefix(x, r)
      BY <1>1, <3>2, <3>3, PathsTo
    <3>5. \A u \in Subs(R, x) : u = y
      <4> SUFFICES ASSUME NEW u \in Subs(R, x) PROVE u = y
        OBVIOUS
      <4>1. /\ u \in Seq(S) /\ y \in Seq(S) /\ Len(u) = Len(x) + 1 /\ Len(y) = Len(x) + 1
            /\ IsPrefix(u, r) /\ IsPrefix(y, r)
        BY <1>1, <1>2, <2>2, <3>2, FrontIsPrefix DEF Subs
      <4>2. IsPrefix(u, y)
        BY <1>1, <4>1, PathsTo
      <4> QED
        BY <4>1, <4>2, PathsTo, <1>1
    <3>6. Subs(R, x) = {y}
      BY <3>1, <3>5
    <3>7. Unused(L, R, x, r)
      BY <1>3, <1>8, <2>1, <2>4, <3>6, FS_Singleton
    <3> QED
      BY <1>6, <1>8, <2>4, <3>2, <3>4, <3>6, <3>7
  <2> QED
    BY <2>3, <2>4
<1> QED
  BY <1>2, <1>4, <1>7, <1>8
\* What is left is counted, and used.
LEMMA DeletionKeeps ==
  ASSUME NEW L, NEW R, NEW r \in DOMAIN R, ResourcesOK(R), Nodes(R), UsedBut(L, R, r),
         NEW R2, R2 = DeleteIfUnused(L, R, r)
  PROVE  Nodes(R2) /\ Used(L, R2)
<1> DEFINE S == AccessMode \X Name
           gone == Deleted(L, R, r)
<1>1. /\ \A x \in gone : x \in DOMAIN R /\ IsPrefix(x, r)
      /\ \A x \in DOMAIN R \ gone : Len(x) > 1 => Front(x) \notin gone
      /\ \A x \in DOMAIN R \ gone : Named(L, x) \/ Subs(R, x) \ gone # {}
  BY DeletedIs
<1>2. /\ DOMAIN R2 = DOMAIN R \ gone
      /\ \A x \in DOMAIN R2 :
           R2[x] = IF \E g \in gone : Len(g) = Len(x) + 1 /\ IsPrefix(x, g)
                   THEN [R[x] EXCEPT !.children = @ - 1] ELSE R[x]
  BY DEF DeleteIfUnused
<1> HIDE DEF gone
<1>3. r \in Seq(S) /\ \A x \in DOMAIN R : x \in Seq(S) /\ x # <<>> /\ Len(x) \in Nat
  BY LenProperties DEF ResourcesOK, Resource
<1> HIDE DEF S
<1>4. IsFiniteSet(DOMAIN R2)
  BY <1>2, FS_Subset DEF Nodes
<1>5. \A x : Subs(R2, x) = Subs(R, x) \ gone
  BY <1>2 DEF Subs
<1>6. ASSUME NEW x \in DOMAIN R2
      PROVE  R2[x].children = Cardinality(Subs(R2, x))
  <2>1. /\ x \in DOMAIN R /\ R[x].children = Cardinality(Subs(R, x))
        /\ IsFiniteSet(Subs(R, x)) /\ R[x] \in ResourceRecord
    BY <1>2, SubsFinite DEF Nodes, ResourcesOK
  <2>2. \A g \in gone : Len(g) = Len(x) + 1 /\ IsPrefix(x, g) <=> g \in Subs(R, x)
    BY <1>1, <1>3, <2>1, FrontIsPrefix DEF Subs
  <2>3. CASE \E g \in gone : g \in Subs(R, x)
    <3>1. PICK g \in gone : g \in Subs(R, x)
      BY <2>3
    <3>2. ASSUME NEW h \in gone, h \in Subs(R, x)
          PROVE  h = g
      <4>1. /\ h \in Seq(S) /\ g \in Seq(S) /\ Len(h) = Len(x) + 1 /\ Len(g) = Len(x) + 1
            /\ IsPrefix(h, r) /\ IsPrefix(g, r)
        BY <1>1, <1>3, <2>2, <3>1, <3>2
      <4>2. IsPrefix(h, g)
        BY <1>3, <2>1, <4>1, PathsTo
      <4> QED
        BY <1>3, <2>1, <4>1, <4>2, PathsTo
    <3>3. Subs(R2, x) = Subs(R, x) \ {g}
      BY <1>5, <3>1, <3>2
    <3>4. R2[x].children = R[x].children - 1
      BY <1>2, <2>1, <2>2, <3>1 DEF ResourceRecord
    <3> QED
      BY <2>1, <3>1, <3>3, <3>4, FS_RemoveElement
  <2>4. CASE \A g \in gone : g \notin Subs(R, x)
    <3>1. Subs(R2, x) = Subs(R, x)
      BY <1>5, <2>4
    <3>2. R2[x] = R[x]
      BY <1>2, <2>2, <2>4
    <3> QED
      BY <2>1, <3>1, <3>2
  <2> QED
    BY <2>3, <2>4
<1>7. \A x \in DOMAIN R2 : Len(x) > 1 => Front(x) \in DOMAIN R2
  BY <1>1, <1>2 DEF Nodes
<1>8. Used(L, R2)
  BY <1>1, <1>2, <1>5 DEF Used
<1> QED
  BY <1>4, <1>6, <1>7, <1>8 DEF Nodes

-----------------------------------------------------------------------------
(* What a call's granting, queueing and telling leave as it was *)

\* A lock keeps its place in the tree, and is not queued anew.
SamePlace(new, old) ==
  /\ new.owner = old.owner
  /\ new.amode = old.amode
  /\ new.parent = old.parent
  /\ new.resource = old.resource
  /\ new.sublocks = old.sublocks
  /\ new.state = "Waiting" => old.state = "Waiting"

SameLocks(L2, L) == DOMAIN L2 = DOMAIN L /\ \A l \in DOMAIN L : SamePlace(L2[l], L[l])

SameNodes(R2, R) ==
  DOMAIN R2 = DOMAIN R /\ \A r \in DOMAIN R : R2[r].children = R[r].children

LEMMA SameTree ==
  ASSUME NEW L, NEW R, NEW G, NEW L2, NEW R2,
         Tree(L, R, G), SameLocks(L2, L), SameNodes(R2, R)
  PROVE  Tree(L2, R2, G)
<1>1. \A p : Children(L2, p) = Children(L, p)
  BY DEF Children, SameLocks, SamePlace
<1>2. \A r : Subs(R2, r) = Subs(R, r)
  BY DEF Subs, SameNodes
<1>3. \A r : Named(L2, r) <=> Named(L, r)
  BY DEF Named, SameLocks, SamePlace
<1>4. LocksCounted(L2)
  BY <1>1 DEF Tree, LocksCounted, SameLocks, SamePlace
<1>5. Nodes(R2)
  BY <1>2 DEF Tree, Nodes, SameNodes
<1>6. Used(L2, R2)
  BY <1>2, <1>3 DEF Tree, Used, SameNodes
<1>7. Placed(L2, G)
  BY DEF Tree, Placed, Above, SameLocks, SamePlace
<1> QED
  BY <1>4, <1>5, <1>6, <1>7 DEF Tree

LEMMA SameTransitive ==
  ASSUME NEW L, NEW L1, NEW L2, SameLocks(L1, L), SameLocks(L2, L1)
  PROVE  SameLocks(L2, L)
  BY DEF SameLocks, SamePlace

LEMMA FinishSame ==
  ASSUME NEW L, NEW R, NEW r, NEW evs, LocksOK(L), Finish(L, R, r, evs)
  PROVE  SameLocks(locks', L) /\ resources' = R
<1>1. /\ DOMAIN locks' = DOMAIN L
      /\ \A l \in DOMAIN L : locks'[l] = L[l] \/ locks'[l] = [L[l] EXCEPT !.notified = TRUE]
      /\ resources' = R
  BY DEF Finish, BlockingNotices
<1>2. ASSUME NEW l \in DOMAIN L
      PROVE  SamePlace(locks'[l], L[l])
  <2>1. L[l] \in LockRecord
    BY DEF LocksOK
  <2> QED
    BY <1>1, <2>1 DEF SamePlace, LockRecord
<1> QED
  BY <1>1, <1>2 DEF SameLocks

\* The record of a lock granted keeps its place.
LEMMA GrantedInPlace ==
  ASSUME NEW L, NEW R, NEW l, NEW up, L[l] \in LockRecord
  PROVE  SamePlace(GrantedRecord(L, R, l, up), L[l])
<1> DEFINE rec == L[l]
           v == IF rec.valblk /\ up THEN R[rec.resource].value ELSE rec.value
           nv == (rec.valblk /\ up) /\ R[rec.resource].invalid
<1>1. GrantedRecord(L, R, l, up)
        = [rec EXCEPT !.mode = rec.requested, !.state = "Granted", !.notified = FALSE,
                      !.value = v, !.notValid = nv]
  BY DEF GrantedRecord, LockRecord
<1>2. rec \in LockRecord
  OBVIOUS
<1> HIDE DEF rec, v, nv
<1> QED
  BY <1>1, <1>2 DEF SamePlace, LockRecord, rec

LEMMA SettleSame ==
  ASSUME NEW L, NEW R, NEW r \in DOMAIN R, NEW evs, DB(L, R), Settle(L, R, r, evs)
  PROVE  SameLocks(locks', L) /\ SameNodes(resources', R)
<1> DEFINE g == Regrant(L, R, r)
<1>1. DB(g.locks, g.resources) /\ DOMAIN g.locks = DOMAIN L
  BY RegrantKeeps
<1>2. Finish(g.locks, g.resources, r, evs \cup g.events)
  BY DEF Settle
<1>3. \A l \in DOMAIN L :
        g.locks[l] = L[l] \/ \E up : g.locks[l] = GrantedRecord(L, R, l, up)
  BY DEF Regrant
<1>4. \E c, w : g.resources = [R EXCEPT ![r].converting = c, ![r].waiting = w]
  BY DEF Regrant
<1> HIDE DEF g
<1>5. SameLocks(g.locks, L)
  <2> SUFFICES ASSUME NEW l \in DOMAIN L PROVE SamePlace(g.locks[l], L[l])
    BY <1>1 DEF SameLocks
  <2>1. L[l] \in LockRecord
    BY DEF DB, LocksOK
  <2> QED
    BY <1>3, <2>1, GrantedInPlace DEF SamePlace
<1>6. SameNodes(g.resources, R)
  <2>1. \A x \in DOMAIN R : R[x] \in ResourceRecord
    BY DEF DB, ResourcesOK
  <2> QED
    BY <1>4, <2>1 DEF SameNodes, ResourceRecord
<1>7. SameLocks(locks', g.locks) /\ resources' = g.resources
  BY <1>1, <1>2, FinishSame DEF DB
<1> QED
  BY <1>5, <1>6, <1>7, SameTransitive
-----------------------------------------------------------------------------
(* Locks removed *)

LEMMA LockIDs ==
  ASSUME NEW L, LocksOK(L)
  PROVE  /\ IsFiniteSet(DOMAIN L) /\ NoLock \notin DOMAIN L
         /\ \A p : IsFiniteSet(Children(L, p)) /\ Cardinality(Children(L, p)) \in Nat
<1>1. IsFiniteSet(Id) /\ NoLock \notin Id /\ DOMAIN L \in SUBSET Id
  BY ConstantsOK, FS_Interval DEF Id, NoLock, LocksOK
<1>2. IsFiniteSet(DOMAIN L)
  BY <1>1, FS_Subset
<1>3. \A p : Children(L, p) \in SUBSET DOMAIN L
  BY DEF Children
<1> QED
  BY <1>1, <1>2, <1>3, FS_Subset, FS_CardinalityType

LEMMA UnqueueSame ==
  ASSUME NEW L, NEW R, NEW l \in DOMAIN L, DB(L, R)
  PROVE  SameNodes(Unqueue(L, R, l), R)
<1> DEFINE U == Unqueue(L, R, l)
           r == L[l].resource
<1>1. L[l].state \in State /\ \A x \in DOMAIN R : R[x] \in ResourceRecord
  BY DEF DB, LocksOK, ResourcesOK, LockRecord
<1>2. \/ U = R
      \/ U = [R EXCEPT ![r].converting = Without(@, l)]
      \/ U = [R EXCEPT ![r].waiting = Without(@, l)]
  BY <1>1 DEF Unqueue, State
<1> HIDE DEF U, r
<1>3. CASE U = R
  BY <1>3 DEF SameNodes, U
<1>4. CASE U = [R EXCEPT ![r].converting = Without(@, l)]
  <2>1. SameNodes(U, R)
    BY <1>1, <1>4 DEF SameNodes, ResourceRecord
  <2> QED
    BY <2>1 DEF U
<1>5. CASE U = [R EXCEPT ![r].waiting = Without(@, l)]
  <2>1. SameNodes(U, R)
    BY <1>1, <1>5 DEF SameNodes, ResourceRecord
  <2> QED
    BY <2>1 DEF U
<1> QED
  BY <1>2, <1>3, <1>4, <1>5

SameResources(L2, L) == \A x \in DOMAIN L2 : L2[x].resource = L[x].resource

\* A lock taken out leaves its parent's count right, and whoever was below
\* it goes too.
LEMMA DropLockTree ==
  ASSUME NEW L, NEW l \in DOMAIN L, NEW G, LocksOK(L), LocksCounted(L), Placed(L, G),
         Children(L, l) \subseteq G,
         NEW L2, L2 = DropLock(L, l)
  PROVE  /\ DOMAIN L2 = DOMAIN L \ {l}
         /\ LocksCounted(L2) /\ Placed(L2, G \ {l})
         /\ SameResources(L2, L)
<1>1. /\ DOMAIN L2 = DOMAIN L \ {l}
      /\ \A x \in DOMAIN L2 :
           L2[x] = IF x = L[l].parent THEN [L[x] EXCEPT !.sublocks = @ - 1] ELSE L[x]
  BY DEF DropLock
<1>2. ASSUME NEW x \in DOMAIN L2
      PROVE  /\ L2[x].owner = L[x].owner /\ L2[x].amode = L[x].amode
             /\ L2[x].state = L[x].state /\ L2[x].resource = L[x].resource
             /\ L2[x].parent = L[x].parent
             /\ L2[x].sublocks = IF x = L[l].parent THEN L[x].sublocks - 1 ELSE L[x].sublocks
  <2>1. L[x] \in LockRecord
    BY <1>1 DEF LocksOK
  <2> QED
    BY <1>1, <2>1 DEF LockRecord
<1>3. \A x : Children(L2, x) = Children(L, x) \ {l}
  BY <1>1, <1>2 DEF Children
<1>4. LocksCounted(L2)
  <2> SUFFICES ASSUME NEW x \in DOMAIN L2
               PROVE  L2[x].sublocks = Cardinality(Children(L2, x))
    BY DEF LocksCounted
  <2>1. L[x].sublocks = Cardinality(Children(L, x)) /\ IsFiniteSet(Children(L, x))
    BY <1>1, LockIDs DEF LocksCounted
  <2>2. l \in Children(L, x) <=> x = L[l].parent
    BY DEF Children
  <2> QED
    BY <1>2, <1>3, <2>1, <2>2, FS_RemoveElement
<1>5. Placed(L2, G \ {l})
  <2> SUFFICES ASSUME NEW x \in DOMAIN L2, L2[x].parent # NoLock
               PROVE  /\ L2[x].parent \in DOMAIN L2 => Above(L2, L2[x].parent, x)
                      /\ \/ L2[x].parent \in DOMAIN L2 /\ L2[x].parent \notin G \ {l}
                         \/ x \in G \ {l}
    BY DEF Placed
  <2> DEFINE p == L[x].parent
  <2>1. /\ p = L2[x].parent /\ x \in DOMAIN L /\ x # l
        /\ p \in DOMAIN L => Above(L, p, x)
        /\ (p \in DOMAIN L /\ p \notin G) \/ x \in G
    BY <1>1, <1>2 DEF Placed
  <2>2. p \in DOMAIN L2 => Above(L2, p, x)
    BY <1>1, <1>2, <2>1 DEF Above
  <2>3. p = l => x \in G
    BY <2>1 DEF Children
  <2> QED
    BY <1>1, <2>1, <2>2, <2>3
<1> QED
  BY <1>1, <1>2, <1>4, <1>5 DEF SameResources

LEMMA RemoveLockTree ==
  ASSUME NEW L, NEW R, NEW l \in DOMAIN L, NEW kind \in EventKind, NEW G, DB(L, R), Tree(L, R, G),
         Children(L, l) \subseteq G, RemoveLock(L, R, l, kind)
  PROVE  Tree(locks', resources', G \ {l})
<1> DEFINE r == L[l].resource
           left == DropLock(L, l)
           off == Unqueue(L, R, l)
           rest == DeleteIfUnused(left, off, r)
           evs == IF L[l].state = "Granted" THEN {} ELSE {Event(kind, l)}
<1>1. DB(left, off) /\ DB(left, rest)
  BY DropLockKeeps, DeleteIfUnusedKeeps
<1>2. SameNodes(off, R) /\ r \in DOMAIN R
  BY UnqueueSame DEF DB, Located
<1>3. /\ DOMAIN left = DOMAIN L \ {l}
      /\ LocksCounted(left) /\ Placed(left, G \ {l})
      /\ SameResources(left, L)
  <2>1. LocksOK(L) /\ LocksCounted(L) /\ Placed(L, G) /\ left = DropLock(L, l)
    BY DEF DB, Tree
  <2> HIDE DEF left
  <2> QED
    BY <2>1, DropLockTree, Zenon
<1>4. IF r \in DOMAIN rest
      THEN Settle(left, rest, r, evs)
      ELSE locks' = left /\ resources' = rest /\ events' = evs
  BY DEF RemoveLock
<1>5. rest = DeleteIfUnused(left, off, r) /\ r = L[l].resource
  OBVIOUS
<1> HIDE DEF r, left, off, rest, evs
<1>6. Nodes(off) /\ UsedBut(left, off, r)
  <2>1. \A x : Subs(off, x) = Subs(R, x)
    BY <1>2 DEF Subs, SameNodes
  <2>2. Nodes(off)
    BY <1>2, <2>1 DEF Tree, Nodes, SameNodes
  <2>3. \A x : x # r /\ Named(L, x) => Named(left, x)
    BY <1>3, <1>5 DEF Named, SameResources
  <2> QED
    BY <1>2, <2>1, <2>2, <2>3 DEF Tree, Used, UsedBut, SameNodes
<1>7. Nodes(rest) /\ Used(left, rest)
  BY <1>1, <1>2, <1>5, <1>6, DeletionKeeps DEF DB, SameNodes
<1>8. Tree(left, rest, G \ {l})
  BY <1>3, <1>7 DEF Tree
<1>9. CASE r \in DOMAIN rest
  BY <1>1, <1>4, <1>8, <1>9, SettleSame, SameTree
<1>10. CASE r \notin DOMAIN rest
  BY <1>4, <1>8, <1>10
<1> QED
  BY <1>9, <1>10

\* Value blocks are no part of the tree.
LEMMA StoreSame ==
  ASSUME NEW R2, ResourcesOK(resources), DOMAIN R2 = DOMAIN resources,
         \A r \in DOMAIN resources :
           \/ R2[r] = resources[r]
           \/ \E v \in Value : R2[r] = [resources[r] EXCEPT !.value = v, !.invalid = FALSE]
           \/ R2[r] = [resources[r] EXCEPT !.invalid = TRUE]
  PROVE  SameNodes(R2, resources)
<1>1. \A r \in DOMAIN resources : resources[r] \in ResourceRecord
  BY DEF ResourcesOK
<1> QED
  BY <1>1 DEF SameNodes, ResourceRecord

LEMMA SameLocksRefl ==
  ASSUME NEW L PROVE SameLocks(L, L)
  BY DEF SameLocks, SamePlace

-----------------------------------------------------------------------------
(* The calls *)

\* $DEQ of one lock: it has no sublocks, because its count says so.
LEMMA DequeueTree ==
  ASSUME NEW o, NEW l, NEW how, NEW v \in Value, NEW G, DB(locks, resources),
         Tree(locks, resources, G), Dequeue(o, l, how, v)
  PROVE  Tree(locks', resources', G \ {l})
<1> DEFINE R2 == StoreBack(l, how, v)
           r == locks[l].resource
<1>1. l \in DOMAIN locks /\ locks[l].sublocks = 0 /\ RemoveLock(locks, R2, l, "Aborted")
  BY DEF Dequeue
<1>2. r \in DOMAIN resources
  BY <1>1 DEF DB, Located
<1>3. \/ R2 = resources
      \/ R2 = [resources EXCEPT ![r].value = v, ![r].invalid = FALSE]
      \/ R2 = [resources EXCEPT ![r].invalid = TRUE]
  BY DEF StoreBack
<1> HIDE DEF R2, r
<1>4. DOMAIN R2 = DOMAIN resources
  BY <1>3
<1>5. ASSUME NEW x \in DOMAIN resources
      PROVE  \/ R2[x] = resources[x]
             \/ \E u \in Value : R2[x] = [resources[x] EXCEPT !.value = u, !.invalid = FALSE]
             \/ R2[x] = [resources[x] EXCEPT !.invalid = TRUE]
  BY <1>3
<1>6. DB(locks, R2) /\ SameNodes(R2, resources)
  BY <1>4, <1>5, StoreKeeps, StoreSame DEF DB
<1>7. Tree(locks, R2, G)
  BY <1>6, SameTree, SameLocksRefl
<1>8. Children(locks, l) = {}
  BY <1>1, LockIDs, FS_EmptySet DEF Tree, LocksCounted, DB
<1> QED
  BY <1>1, <1>6, <1>7, <1>8, RemoveLockTree DEF EventKind

LEMMA CalledOffTree ==
  ASSUME NEW l \in DOMAIN locks, NEW kind \in EventKind, NEW G, DB(locks, resources),
         Tree(locks, resources, G), locks[l].state = "Converting", Unconvert(l, kind)
  PROVE  Tree(locks', resources', G)
<1>1. Settle(CalledOff(l), Unqueue(locks, resources, l), locks[l].resource, {Event(kind, l)})
  BY DEF Unconvert, CalledOff
<1>2. /\ DB(CalledOff(l), Unqueue(locks, resources, l))
      /\ locks[l].resource \in DOMAIN Unqueue(locks, resources, l)
  BY CalledOffKeeps
<1>3. SameLocks(CalledOff(l), locks)
  <2>1. locks[l] \in LockRecord
    BY DEF DB, LocksOK
  <2> QED
    BY <2>1 DEF CalledOff, SameLocks, SamePlace, LockRecord
<1>4. Tree(CalledOff(l), Unqueue(locks, resources, l), G)
  BY <1>3, UnqueueSame, SameTree
<1> QED
  BY <1>1, <1>2, <1>4, SettleSame, SameTree

LEMMA ConvertTree ==
  ASSUME NEW o, NEW l, NEW m \in Mode, NEW blk \in BOOLEAN, NEW vb \in BOOLEAN, NEW v \in Value,
         NEW G, DB(locks, resources), Tree(locks, resources, G), Convert(o, l, m, blk, vb, v)
  PROVE  Tree(locks', resources', G)
<1> DEFINE r == locks[l].resource
<1>1. l \in DOMAIN locks /\ locks[l].state = "Granted" /\ r \in DOMAIN resources
  BY ConvertSteps DEF DB, Located
<1>2. locks[l] \in LockRecord
  BY <1>1 DEF DB, LocksOK
<1>3. CASE ConvertGrantable(l, m)
  <2> DEFINE L2 == Converted(l, m, blk, vb, v)
             R2 == StoreDown(l, m, vb, v)
  <2>1. Settle(L2, R2, r, {})
    BY <1>3, ConvertSteps
  <2>2. DB(L2, R2) /\ r \in DOMAIN R2
    BY <1>1, <1>3, GrantConversionKeeps
  <2>3. SameLocks(L2, locks)
    <3> DEFINE L == Asking(l, m, blk, vb)
               up == m > locks[l].mode
    <3>1. DOMAIN L = DOMAIN locks /\ L[l] \in LockRecord /\ SameLocks(L, locks)
      BY <1>1, <1>2 DEF Asking, SameLocks, SamePlace, LockRecord
    <3>2. L2 = [L EXCEPT ![l] = GrantedRecord(L, R2, l, up)]
      BY DEF Converted
    <3> HIDE DEF L, R2, up
    <3>3. SamePlace(GrantedRecord(L, R2, l, up), L[l])
      BY <3>1, GrantedInPlace
    <3>4. SameLocks(L2, L)
      BY <1>1, <3>1, <3>2, <3>3 DEF SameLocks, SamePlace
    <3> QED
      BY <3>1, <3>4, SameTransitive
  <2>4. SameNodes(R2, resources)
    <3>1. R2 = resources \/ R2 = [resources EXCEPT ![r].value = v, ![r].invalid = FALSE]
      BY DEF StoreDown
    <3>2. \A x \in DOMAIN resources : resources[x] \in ResourceRecord
      BY DEF DB, ResourcesOK
    <3>3. SameNodes([resources EXCEPT ![r].value = v, ![r].invalid = FALSE], resources)
      BY <3>2 DEF SameNodes, ResourceRecord
    <3>4. SameNodes(resources, resources)
      BY DEF SameNodes
    <3> HIDE DEF R2
    <3> QED
      BY <3>1, <3>3, <3>4
  <2> HIDE DEF L2, R2
  <2>5. Tree(L2, R2, G)
    BY <2>3, <2>4, SameTree
  <2> QED
    BY <2>1, <2>2, <2>5, SettleSame, SameTree
<1>4. CASE ~ConvertGrantable(l, m)
  <2> DEFINE L2 == AskedFor(l, m, blk, vb)
             R2 == [resources EXCEPT ![r].converting = Append(@, l)]
  <2>1. Finish(L2, R2, r, {})
    BY <1>4, ConvertSteps
  <2>2. DB(L2, R2)
    BY <1>1, <1>4, AskedForKeeps
  <2>3. SameLocks(L2, locks)
    BY <1>1, <1>2 DEF AskedFor, Asking, SameLocks, SamePlace, LockRecord
  <2>4. SameNodes(R2, resources)
    <3>1. \A x \in DOMAIN resources : resources[x] \in ResourceRecord
      BY DEF DB, ResourcesOK
    <3> QED
      BY <3>1 DEF SameNodes, ResourceRecord
  <2> HIDE DEF L2, R2
  <2>5. Tree(L2, R2, G)
    BY <2>3, <2>4, SameTree
  <2>6. SameLocks(locks', L2) /\ SameNodes(resources', R2)
    BY <2>1, <2>2, FinishSame DEF DB, SameNodes
  <2> QED
    BY <2>5, <2>6, SameTree
<1> QED
  BY <1>3, <1>4
\* A fresh resource has nothing below it, and its parent counts it.
LEMMA WithResourceTree ==
  ASSUME NEW R, NEW r \in Resource, ResourcesOK(R), Nodes(R), NEW L, Used(L, R),
         Len(r) > 1 => Front(r) \in DOMAIN R,
         NEW R2, R2 = WithResource(R, r)
  PROVE  Nodes(R2) /\ UsedBut(L, R2, r) /\ DOMAIN R2 = DOMAIN R \cup {r}
<1>1. CASE r \in DOMAIN R
  <2>1. R2 = R
    BY <1>1 DEF WithResource
  <2> QED
    BY <1>1, <2>1 DEF Used, UsedBut
<1>2. CASE r \notin DOMAIN R
  <2>1. /\ DOMAIN R2 = DOMAIN R \cup {r} /\ R2[r] = NewResource
        /\ \A x \in DOMAIN R :
             R2[x] = IF x = Front(r) THEN [R[x] EXCEPT !.children = @ + 1] ELSE R[x]
    BY <1>2 DEF WithResource
  <2>2. \A x \in DOMAIN R : R[x] \in ResourceRecord /\ x \in Resource
    BY DEF ResourcesOK
  <2>3. Front(r) \in DOMAIN R => Len(r) > 1
    <3>1. r \in Seq(AccessMode \X Name) /\ r # <<>>
      BY DEF Resource
    <3>2. Len(r) \in Nat \ {0} /\ Front(r) \in Seq(AccessMode \X Name) /\ Len(Front(r)) = Len(r) - 1
      BY <3>1, FrontMeans
    <3>3. Front(r) \in DOMAIN R => Len(Front(r)) # 0
      BY <2>2, <3>2, EmptySeq DEF Resource
    <3> QED
      BY <3>2, <3>3
  <2>4. \A x : Subs(R2, x) = IF Len(r) > 1 /\ x = Front(r) THEN Subs(R, x) \cup {r} ELSE Subs(R, x)
    BY <2>1 DEF Subs
  <2>5. Subs(R, r) = {} /\ r \notin Subs(R, Front(r))
    BY <1>2 DEF Subs, Nodes
  <2>6. Front(r) # r
    <3>1. r \in Seq(AccessMode \X Name) /\ r # <<>>
      BY DEF Resource
    <3>2. Len(r) \in Nat \ {0} /\ Len(Front(r)) = Len(r) - 1
      BY <3>1, FrontMeans
    <3> QED
      BY <3>2
  <2>7. IsFiniteSet(DOMAIN R2)
    BY <2>1, FS_AddElement DEF Nodes
  <2>8. R2[r].children = Cardinality(Subs(R2, r))
    BY <2>1, <2>4, <2>5, <2>6, FS_EmptySet DEF NewResource
  <2>9. ASSUME NEW x \in DOMAIN R
        PROVE  R2[x].children = Cardinality(Subs(R2, x))
    <3>1. R[x].children = Cardinality(Subs(R, x)) /\ IsFiniteSet(Subs(R, x))
      BY SubsFinite DEF Nodes
    <3>2. CASE x = Front(r)
      <4>1. R2[x].children = R[x].children + 1
        BY <2>1, <2>2, <3>2 DEF ResourceRecord
      <4>2. Subs(R2, x) = Subs(R, x) \cup {r} /\ r \notin Subs(R, x)
        BY <2>3, <2>4, <2>5, <3>2
      <4> QED
        BY <3>1, <4>1, <4>2, FS_AddElement
    <3>3. CASE x # Front(r)
      BY <2>1, <2>4, <3>1, <3>3
    <3> QED
      BY <3>2, <3>3
  <2>10. \A x \in DOMAIN R2 : Len(x) > 1 => Front(x) \in DOMAIN R2
    BY <2>1 DEF Nodes
  <2>11. Nodes(R2)
    BY <2>1, <2>7, <2>8, <2>9, <2>10 DEF Nodes
  <2>12. UsedBut(L, R2, r)
    BY <2>1, <2>4 DEF Used, UsedBut
  <2> QED
    BY <2>1, <2>11, <2>12
<1> QED
  BY <1>1, <1>2

\* A new lock is counted by its parent, and has no sublocks: none was left
\* behind by a lock that had its ID before.
LEMMA AddLockTree ==
  ASSUME NEW L, NEW l \in Id, l \notin DOMAIN L, LocksOK(L), LocksCounted(L), Placed(L, {}),
         NEW rec, rec.sublocks = 0,
         rec.parent # NoLock =>
           /\ rec.parent \in DOMAIN L
           /\ L[rec.parent].owner = rec.owner
           /\ L[rec.parent].amode = rec.amode
           /\ L[rec.parent].state # "Waiting"
           /\ L[rec.parent].resource = Front(rec.resource),
         NEW L2, L2 = AddLock(L, l, rec)
  PROVE  /\ DOMAIN L2 = DOMAIN L \cup {l} /\ L2[l] = rec
         /\ LocksCounted(L2) /\ Placed(L2, {})
<1>1. /\ DOMAIN L2 = DOMAIN L \cup {l} /\ L2[l] = rec
      /\ \A x \in DOMAIN L :
           L2[x] = IF x = rec.parent THEN [L[x] EXCEPT !.sublocks = @ + 1] ELSE L[x]
  BY DEF AddLock
<1>2. ASSUME NEW x \in DOMAIN L
      PROVE  /\ L2[x].owner = L[x].owner /\ L2[x].amode = L[x].amode
             /\ L2[x].state = L[x].state /\ L2[x].resource = L[x].resource
             /\ L2[x].parent = L[x].parent
             /\ L2[x].sublocks = IF x = rec.parent THEN L[x].sublocks + 1 ELSE L[x].sublocks
  <2>1. L[x] \in LockRecord
    BY DEF LocksOK
  <2> QED
    BY <1>1, <2>1 DEF LockRecord
<1>3. l # NoLock /\ rec.parent # l
  BY ConstantsOK DEF Id, NoLock
<1>4. \A x : Children(L2, x) = IF x = rec.parent THEN Children(L, x) \cup {l} ELSE Children(L, x)
  BY <1>1, <1>2 DEF Children
<1>5. Children(L, l) = {}
  BY <1>3 DEF Children, Placed
<1>6. LocksCounted(L2)
  <2>1. L2[l].sublocks = Cardinality(Children(L2, l))
    BY <1>1, <1>3, <1>4, <1>5, FS_EmptySet
  <2>2. ASSUME NEW x \in DOMAIN L
        PROVE  L2[x].sublocks = Cardinality(Children(L2, x))
    <3>1. /\ L[x].sublocks = Cardinality(Children(L, x)) /\ IsFiniteSet(Children(L, x))
          /\ l \notin Children(L, x)
      BY LockIDs DEF LocksCounted, Children
    <3> QED
      BY <1>2, <1>4, <3>1, FS_AddElement
  <2> QED
    BY <1>1, <2>1, <2>2 DEF LocksCounted
<1>7. Placed(L2, {})
  <2> SUFFICES ASSUME NEW x \in DOMAIN L2, L2[x].parent # NoLock
               PROVE  L2[x].parent \in DOMAIN L2 /\ Above(L2, L2[x].parent, x)
    BY DEF Placed
  <2>1. CASE x = l
    BY <1>1, <1>2, <2>1 DEF Above
  <2>2. CASE x # l
    <3>1. /\ x \in DOMAIN L /\ L2[x].parent = L[x].parent
          /\ L[x].parent \in DOMAIN L /\ Above(L, L[x].parent, x)
      BY <1>1, <1>2, <2>2 DEF Placed
    <3> QED
      BY <1>1, <1>2, <3>1 DEF Above
  <2> QED
    BY <2>1, <2>2
<1> QED
  BY <1>1, <1>2, <1>6, <1>7

LEMMA EnqueueAsTree ==
  ASSUME NEW l \in Id, l \notin DOMAIN locks, NEW o \in Owner, NEW m \in Mode, NEW n \in Name, NEW a \in AccessMode,
         NEW p \in DOMAIN locks \cup {NoLock}, NEW blk \in BOOLEAN, NEW vb \in BOOLEAN,
         DB(locks, resources), Tree(locks, resources, {}),
         EnqueueAs(l, o, m, n, a, p, blk, vb)
  PROVE  Tree(locks', resources', {})
<1> DEFINE r == RequestResource(p, a, n)
           R == WithResource(resources, r)
           rec == RequestLock(o, m, n, a, p, blk, vb)
<1>1. /\ EnqueueGrantable(R, r, m) => Finish(AddGranted(R, l, rec), R, r, {})
      /\ ~EnqueueGrantable(R, r, m)
           => Finish(AddLock(locks, l, rec), [R EXCEPT ![r].waiting = Append(@, l)], r, {})
  BY EnqueueAsSteps
<1>2. ParentOK(o, p)
  BY DEF EnqueueAs
<1>3. /\ rec \in LockRecord /\ rec.resource = r /\ r \in Resource
      /\ rec.state = "Waiting" /\ rec.requested = m
  BY RequestLockIs DEF DB
<1>4. rec.parent = p /\ rec.sublocks = 0 /\ rec.owner = o /\ rec.amode = LockAccessMode(p, a)
  BY DEF RequestLock, NewLock
<1>5. p # NoLock =>
        /\ p \in DOMAIN locks
        /\ locks[p].owner = o /\ locks[p].state # "Waiting"
        /\ locks[p].amode = LockAccessMode(p, a)
        /\ locks[p].resource = Front(r)
  <2> SUFFICES ASSUME p # NoLock
               PROVE  /\ p \in DOMAIN locks
                      /\ locks[p].owner = o /\ locks[p].state # "Waiting"
                      /\ locks[p].amode = LockAccessMode(p, a)
                      /\ locks[p].resource = Front(r)
    OBVIOUS
  <2>1. p \in DOMAIN locks /\ locks[p].owner = o /\ locks[p].state # "Waiting"
    BY <1>2 DEF ParentOK
  <2>2. locks[p].resource \in Seq(AccessMode \X Name) /\ locks[p].amode \in AccessMode
    BY <2>1 DEF DB, LocksOK, LockRecord, Resource
  <2> DEFINE q == locks[p].resource
             e == <<locks[p].amode, n>>
  <2>3. r = Append(q, e) /\ LockAccessMode(p, a) = locks[p].amode
    BY DEF RequestResource, LockAccessMode
  <2>4. q \in Seq(AccessMode \X Name) /\ e \in AccessMode \X Name
    BY <2>2
  <2> HIDE DEF q, e
  <2>5. Front(Append(q, e)) = q
    <3>1. /\ Append(q, e) \in Seq(AccessMode \X Name) /\ Append(q, e) # <<>>
          /\ Len(Append(q, e)) = Len(q) + 1 /\ Len(q) \in Nat
          /\ \A i \in 1 .. Len(q) : Append(q, e)[i] = q[i]
      BY <2>4, AppendProperties, LenProperties
    <3> DEFINE f == Append(q, e)
    <3> HIDE DEF f
    <3>2. /\ Front(f) \in Seq(AccessMode \X Name) /\ Len(Front(f)) = Len(f) - 1
          /\ \A i \in 1 .. Len(f) - 1 : Front(f)[i] = f[i]
      BY <3>1, FrontMeans DEF f
    <3>3. Len(Front(f)) = Len(q) /\ \A i \in 1 .. Len(q) : Front(f)[i] = q[i]
      <4>1. Len(f) - 1 = Len(q) /\ \A i \in 1 .. Len(q) : f[i] = q[i]
        BY <3>1 DEF f
      <4> QED
        BY <3>2, <4>1
    <3>4. Front(f) = q
      BY <2>4, <3>2, <3>3, SeqEqual
    <3> QED
      BY <3>4 DEF f
  <2> QED
    BY <2>1, <2>3, <2>5 DEF q
<1>6. Len(r) > 1 => Front(r) \in DOMAIN resources
  <2>1. p = NoLock => Len(r) = 1
    BY DEF RequestResource
  <2>2. p # NoLock => Front(r) \in DOMAIN resources
    BY <1>5 DEF DB, Located
  <2> HIDE DEF r
  <2>3. CASE p = NoLock
    <3> DEFINE k == Len(r)
    <3>1. k = 1
      BY <2>1, <2>3
    <3> HIDE DEF k
    <3>2. ~(k > 1)
      BY <3>1
    <3> QED
      BY <3>2 DEF k
  <2> QED
    BY <2>2, <2>3
<1>7. R = WithResource(resources, r)
  OBVIOUS
<1> HIDE DEF rec, r, R
<1>8. Nodes(R) /\ UsedBut(locks, R, r) /\ r \in DOMAIN R
  <2>1. ResourcesOK(resources) /\ Nodes(resources) /\ Used(locks, resources)
    BY DEF DB, Tree
  <2>2. Nodes(R) /\ UsedBut(locks, R, r) /\ DOMAIN R = DOMAIN resources \cup {r}
    BY <1>3, <1>6, <1>7, <2>1, WithResourceTree, Zenon
  <2> QED
    BY <2>2
<1>9. DB(locks, R)
  BY <1>3, <1>7, WithResourceKeeps
<1> DEFINE L == AddLock(locks, l, rec)
<1>10. L = AddLock(locks, l, rec)
  OBVIOUS
<1>11. /\ DOMAIN L = DOMAIN locks \cup {l} /\ L[l] = rec
       /\ \A x \in DOMAIN locks :
            /\ L[x] \in LockRecord
            /\ L[x].resource = locks[x].resource
            /\ L[x].state = locks[x].state
            /\ L[x].mode = locks[x].mode
            /\ L[x].requested = locks[x].requested
  BY AddedIs DEF DB
<1>12. LocksCounted(L) /\ Placed(L, {})
  <2>1. L = AddLock(locks, l, rec) /\ LocksOK(locks) /\ LocksCounted(locks) /\ Placed(locks, {})
    BY DEF DB, Tree
  <2>2. rec.parent # NoLock =>
          /\ rec.parent \in DOMAIN locks
          /\ locks[rec.parent].owner = rec.owner
          /\ locks[rec.parent].amode = rec.amode
          /\ locks[rec.parent].state # "Waiting"
          /\ locks[rec.parent].resource = Front(rec.resource)
    BY <1>3, <1>4, <1>5
  <2>3. l \in Id /\ l \notin DOMAIN locks /\ rec.sublocks = 0
    BY <1>4
  <2> HIDE DEF L
  <2> QED
    BY <2>1, <2>2, <2>3, AddLockTree, Zenon
<1> HIDE DEF L
<1>13. Used(L, R)
  BY <1>3, <1>8, <1>11 DEF Used, UsedBut, Named
<1>14. Tree(L, R, {})
  BY <1>8, <1>12, <1>13 DEF Tree
<1>15. CASE EnqueueGrantable(R, r, m)
  <2> DEFINE L2 == AddGranted(R, l, rec)
  <2>1. DB(L2, R)
    BY <1>3, <1>8, <1>9, <1>15, AddGrantedKeeps DEF EnqueueGrantable
  <2>2. L2 = [L EXCEPT ![l] = GrantedRecord(L, R, l, TRUE)]
    BY <1>10 DEF AddGranted
  <2>3. SamePlace(GrantedRecord(L, R, l, TRUE), L[l])
    BY <1>3, <1>11, GrantedInPlace
  <2>4. Finish(L2, R, r, {})
    BY <1>1, <1>15
  <2> HIDE DEF L2
  <2>5. SameLocks(L2, L)
    BY <1>11, <2>2, <2>3 DEF SameLocks, SamePlace
  <2>6. SameLocks(locks', L2) /\ resources' = R
    BY <2>1, <2>4, FinishSame DEF DB
  <2> QED
    BY <1>14, <2>5, <2>6, SameTransitive, SameTree DEF SameNodes
<1>16. CASE ~EnqueueGrantable(R, r, m)
  <2> DEFINE R2 == [R EXCEPT ![r].waiting = Append(@, l)]
  <2>1. SameNodes(R2, R)
    <3>1. \A x \in DOMAIN R : R[x] \in ResourceRecord
      BY <1>9 DEF DB, ResourcesOK
    <3> QED
      BY <3>1 DEF SameNodes, ResourceRecord
  <2>2. Finish(L, R2, r, {})
    BY <1>1, <1>10, <1>16
  <2>3. LocksOK(L)
    BY <1>3, <1>11 DEF DB, LocksOK
  <2> HIDE DEF R2
  <2>4. SameLocks(locks', L) /\ resources' = R2
    BY <2>2, <2>3, FinishSame
  <2> QED
    BY <1>14, <2>1, <2>4, SameTree
<1> QED
  BY <1>15, <1>16

LEMMA EnqueueTree ==
  ASSUME NEW o \in Owner, NEW m \in Mode, NEW n \in Name, NEW a \in AccessMode,
         NEW p \in DOMAIN locks \cup {NoLock}, NEW blk \in BOOLEAN, NEW vb \in BOOLEAN,
         DB(locks, resources), Tree(locks, resources, {}), Enqueue(o, m, n, a, p, blk, vb)
  PROVE  Tree(locks', resources', {})
<1>1. PICK l \in Id \ DOMAIN locks : EnqueueAs(l, o, m, n, a, p, blk, vb)
  BY DEF Enqueue, NewID
<1> QED
  BY <1>1, EnqueueAsTree

\* removeWhere takes with each lock those below it.
LEMMA RemoveWhereTree ==
  ASSUME NEW match, NEW R2, Tree(locks, resources, {}), SameNodes(R2, resources),
         RemoveWhere(match), locks' = locks, resources' = R2,
         \A l \in DOMAIN locks :
           locks[l].parent # NoLock /\ locks[l].parent \in match => l \in match
  PROVE  Tree(locks', resources', Going')
<1>1. Going' = match
  <2> DEFINE entry(l) == [lock |-> l, queued |-> locks[l].state # "Granted"]
  <2>1. doomed' = {entry(l) : l \in match} /\ \A l : entry(l).lock = l
    BY DEF RemoveWhere
  <2> HIDE DEF entry
  <2>2. {d.lock : d \in doomed'} = match
    BY <2>1
  <2> QED
    BY <2>2 DEF Going
<1>2. Placed(locks, match)
  BY DEF Tree, Placed
<1>3. Tree(locks, R2, {})
  BY SameTree, SameLocksRefl
<1> QED
  BY <1>1, <1>2, <1>3 DEF Tree

\* Nothing is below itself: each sublock's path is longer than its parent's.
LEMMA BelowCloses ==
  ASSUME NEW p \in DOMAIN locks, LocksOK(locks), Placed(locks, {}),
         NEW l \in DOMAIN locks, locks[l].parent # NoLock, locks[l].parent \in Below(p) \ {p}
  PROVE  l \in Below(p) \ {p}
<1> DEFINE closed(S) == {s \in DOMAIN locks : locks[s].parent \in S \cup {p}} \subseteq S
           S0 == {x \in DOMAIN locks : Len(locks[x].resource) > Len(locks[p].resource)}
<1>1. \A x : x \in Below(p)
        <=> x \in DOMAIN locks /\ \A S \in SUBSET DOMAIN locks : closed(S) => x \in S
  BY DEF Below
<1>2. \A S \in SUBSET DOMAIN locks : closed(S) => l \in S
  BY <1>1
<1>3. NoLock \notin DOMAIN locks
  BY LockIDs
<1>4. \A x \in DOMAIN locks :
        locks[x].resource \in Resource /\ Len(locks[x].resource) \in Nat
  BY LenProperties DEF LocksOK, LockRecord, Resource
<1>5. closed(S0)
  <2> SUFFICES ASSUME NEW s \in DOMAIN locks, locks[s].parent \in S0 \cup {p}
               PROVE  Len(locks[s].resource) > Len(locks[p].resource)
    OBVIOUS
  <2> DEFINE q == locks[s].parent
             r == locks[s].resource
  <2>1. q \in DOMAIN locks /\ q # NoLock /\ Len(locks[q].resource) >= Len(locks[p].resource)
    BY <1>3, <1>4
  <2>2. locks[q].resource = Front(r)
    BY <2>1 DEF Placed, Above
  <2>3. r \in Seq(AccessMode \X Name) /\ r # <<>>
    BY <1>4 DEF Resource
  <2>4. Len(Front(r)) = Len(r) - 1 /\ Len(r) \in Nat
    BY <2>3, FrontMeans
  <2> HIDE DEF q, r
  <2>5. Len(r) > Len(locks[p].resource)
    BY <1>4, <2>1, <2>2, <2>4
  <2> QED
    BY <2>5 DEF r
<1>6. p \notin Below(p)
  <2>1. S0 \in SUBSET DOMAIN locks /\ p \notin S0
    BY <1>4
  <2> HIDE DEF S0
  <2> QED
    BY <1>1, <1>5, <2>1
<1> QED
  BY <1>1, <1>2, <1>6

LEMMA CallTree ==
  ASSUME NEW o \in Owner, TreeInv, doomed = {}, Call(o)
  PROVE  Tree(locks', resources', Going')
<1>1. DB(locks, resources) /\ Tree(locks, resources, {})
  BY DEF TreeInv, IInv, Going
<1>2. ASSUME Tree(locks', resources', {}), doomed' = {}
      PROVE  Tree(locks', resources', Going')
  BY <1>2 DEF Going
<1>3. CASE EnqueueAny(o)
  <2>1. PICK m \in RequestMode, n \in Name, a \in AccessMode, p \in DOMAIN locks \cup {NoLock},
             blk \in Notice, vb \in ValBlk : Enqueue(o, m, n, a, p, blk, vb)
    BY <1>3 DEF EnqueueAny
  <2>2. m \in Mode /\ blk \in BOOLEAN /\ vb \in BOOLEAN
    BY ConstantsOK
  <2>3. doomed' = {}
    BY <2>1 DEF Enqueue, EnqueueAs
  <2> QED
    BY <1>1, <1>2, <2>1, <2>2, <2>3, EnqueueTree
<1>4. CASE ConvertAny(o)
  <2>1. PICK l \in DOMAIN locks, m \in RequestMode, blk \in Notice, vb \in ValBlk, v \in Value :
               Convert(o, l, m, blk, vb, v)
    BY <1>4 DEF ConvertAny
  <2>2. m \in Mode /\ blk \in BOOLEAN /\ vb \in BOOLEAN
    BY ConstantsOK
  <2>3. doomed' = {}
    BY <2>1 DEF Convert
  <2> QED
    BY <1>1, <1>2, <2>1, <2>2, <2>3, ConvertTree
<1>5. CASE \E l \in DOMAIN locks : Cancel(o, l)
  <2>1. PICK l \in DOMAIN locks : Cancel(o, l)
    BY <1>5
  <2>2. locks[l].state = "Converting" /\ Unconvert(l, "Canceled") /\ doomed' = {}
    BY <2>1 DEF Cancel
  <2> QED
    BY <1>1, <1>2, <2>2, CalledOffTree DEF EventKind
<1>6. CASE DequeueAny(o)
  <2>1. PICK l \in DOMAIN locks, how \in {"keep", "store", "invalidate"}, v \in Value :
               Dequeue(o, l, how, v)
    BY <1>6 DEF DequeueAny
  <2>2. Tree(locks', resources', {} \ {l}) /\ {} \ {l} = {}
    BY <1>1, <2>1, DequeueTree
  <2>3. doomed' = {}
    BY <2>1 DEF Dequeue
  <2> QED
    BY <1>2, <2>2, <2>3
<1>7. Placed(locks, {}) /\ NoLock \notin DOMAIN locks /\ SameNodes(resources, resources)
  BY <1>1, LockIDs DEF Tree, DB, SameNodes
<1>8. CASE \E a \in AccessMode : DequeueAll(o, a)
  <2>1. PICK a \in AccessMode : DequeueAll(o, a)
    BY <1>8
  <2> DEFINE match == {l \in DOMAIN locks : locks[l].owner = o /\ locks[l].amode >= a}
  <2>2. RemoveWhere(match) /\ locks' = locks /\ resources' = resources
    BY <2>1 DEF DequeueAll
  <2>3. \A l \in DOMAIN locks :
          locks[l].parent # NoLock /\ locks[l].parent \in match => l \in match
    BY <1>7 DEF Placed, Above
  <2> HIDE DEF match
  <2> QED
    BY <1>1, <1>7, <2>2, <2>3, RemoveWhereTree
<1>9. CASE \E p \in DOMAIN locks : DequeueSublocks(o, p)
  <2>1. PICK p \in DOMAIN locks : DequeueSublocks(o, p)
    BY <1>9
  <2> DEFINE match == Below(p) \ {p}
  <2>2. RemoveWhere(match) /\ locks' = locks /\ resources' = resources
    BY <2>1 DEF DequeueSublocks
  <2>3. \A l \in DOMAIN locks :
          locks[l].parent # NoLock /\ locks[l].parent \in match => l \in match
    BY <1>1, <1>7, BelowCloses DEF DB
  <2> HIDE DEF match
  <2> QED
    BY <1>1, <1>7, <2>2, <2>3, RemoveWhereTree
<1>10. CASE \E abnormal \in BOOLEAN : Release(o, abnormal)
  <2>1. PICK abnormal \in BOOLEAN : Release(o, abnormal)
    BY <1>10
  <2> DEFINE mine == {l \in DOMAIN locks : locks[l].owner = o}
  <2>2. /\ RemoveWhere(mine) /\ locks' = locks
        /\ DOMAIN resources' = DOMAIN resources
        /\ \A r \in DOMAIN resources :
             \/ resources'[r] = resources[r]
             \/ resources'[r] = [resources[r] EXCEPT !.invalid = TRUE]
    BY <2>1 DEF Release
  <2>3. \A l \in DOMAIN locks :
          locks[l].parent # NoLock /\ locks[l].parent \in mine => l \in mine
    BY <1>7 DEF Placed, Above
  <2> HIDE DEF mine
  <2>4. SameNodes(resources', resources)
    BY <1>1, <2>2, StoreSame DEF DB
  <2> QED
    BY <1>1, <2>2, <2>3, <2>4, RemoveWhereTree
<1> QED
  BY <1>3, <1>4, <1>5, <1>6, <1>8, <1>9, <1>10 DEF Call

\* A request refused has no sublocks: a waiting lock is nobody's parent.
LEMMA CheckDeadlocksTree ==
  ASSUME TreeInv, doomed = {}, CheckDeadlocks
  PROVE  Tree(locks', resources', Going')
<1>1. PICK t \in DOMAIN locks : Refuse(t)
  BY DEF CheckDeadlocks
<1>2. DB(locks, resources) /\ Tree(locks, resources, {}) /\ Going' = {}
  BY <1>1 DEF TreeInv, IInv, Going, Refuse
<1>3. locks[t].state # "Granted"
  BY <1>1 DEF Refuse, Queued
<1>4. CASE locks[t].state = "Converting"
  <2>1. Unconvert(t, "Deadlock")
    BY <1>1, <1>4 DEF Refuse
  <2> QED
    BY <1>2, <1>4, <2>1, CalledOffTree DEF EventKind
<1>5. CASE locks[t].state # "Converting"
  <2>1. RemoveLock(locks, resources, t, "Deadlock")
    BY <1>1, <1>5 DEF Refuse
  <2>2. locks[t].state = "Waiting"
    BY <1>2, <1>3, <1>5 DEF DB, LocksOK, LockRecord, State
  <2>3. NoLock \notin DOMAIN locks /\ Placed(locks, {})
    BY <1>2, LockIDs DEF DB, Tree
  <2>4. Children(locks, t) \subseteq {}
    BY <2>2, <2>3 DEF Children, Placed, Above
  <2>5. Tree(locks', resources', {} \ {t}) /\ {} \ {t} = {}
    BY <1>2, <2>1, <2>4, RemoveLockTree DEF EventKind
  <2> QED
    BY <1>2, <2>5
<1> QED
  BY <1>4, <1>5

LEMMA RemoveNextTree ==
  ASSUME TreeInv, RemoveNext
  PROVE  Tree(locks', resources', Going')
<1>1. PICK d \in doomed : /\ doomed' = doomed \ {d}
                          /\ RemoveLock(locks, resources, d.lock, "Aborted")
  BY DEF RemoveNext
<1> DEFINE l == d.lock
<1>2. /\ DB(locks, resources) /\ Tree(locks, resources, Going) /\ l \in DOMAIN locks
      /\ \A e \in doomed : e.lock = l => e = d
  BY DEF TreeInv, IInv
<1>3. Going' = Going \ {l} /\ l \in Going
  BY <1>1, <1>2 DEF Going
<1>4. NoLock \notin DOMAIN locks /\ Placed(locks, Going)
  BY <1>2, LockIDs DEF DB, Tree
<1>5. Children(locks, l) \subseteq Going
  BY <1>2, <1>3, <1>4 DEF Children, Placed
<1>6. RemoveLock(locks, resources, l, "Aborted")
  BY <1>1
<1> HIDE DEF l
<1>7. Tree(locks', resources', Going \ {l})
  BY <1>2, <1>5, <1>6, RemoveLockTree DEF EventKind
<1> QED
  BY <1>3, <1>7

LEMMA InitTree == Init => TreeInv
<1> SUFFICES ASSUME Init PROVE TreeInv
  OBVIOUS
<1>1. DOMAIN locks = {} /\ DOMAIN resources = {} /\ IInv
  BY InitHolds DEF Init
<1>2. Tree(locks, resources, Going)
  BY <1>1, FS_EmptySet DEF Tree, LocksCounted, Nodes, Used, Placed
<1> QED
  BY <1>1, <1>2 DEF TreeInv

-----------------------------------------------------------------------------
(* The theorems *)

\* The trees of locks and of resources are sound in every reachable state.
THEOREM TreesAreSound == Spec => []TreeInv
<1>1. TreeInv /\ [Next]_vars => Tree(locks, resources, Going)'
  <2> SUFFICES ASSUME TreeInv, [Next]_vars PROVE Tree(locks', resources', Going')
    OBVIOUS
  <2>1. CASE doomed = {} /\ \E o \in Owner : Call(o)
    BY <2>1, CallTree
  <2>2. CASE doomed = {} /\ CheckDeadlocks
    BY <2>2, CheckDeadlocksTree
  <2>3. CASE RemoveNext
    BY <2>3, RemoveNextTree
  <2>4. CASE UNCHANGED vars
    BY <2>4 DEF TreeInv, vars, Going
  <2> QED
    BY <2>1, <2>2, <2>3, <2>4 DEF Next
<1>2. IInv /\ [Next]_vars /\ IInv' /\ Tree(locks, resources, Going)' => TreeInv'
  BY DEF TreeInv
<1>3. TreeInv => IInv
  BY DEF TreeInv
<1> QED
  BY <1>1, <1>2, <1>3, InitTree, LockManagerInv, PTL DEF Spec

\* The counts kept beside the maps are exact: a lock's of its sublocks, a
\* resource's of its sub-resources; and a resource exists exactly while a
\* lock or a sub-resource names it (sublocks, children, deleteIfUnused).
THEOREM CountsAreExact == Spec => []CountsExact
<1>1. TreeInv => CountsExact
  BY TreeInvMeans
<1> QED
  BY <1>1, TreesAreSound, PTL

\* No sublock outlives its parent, but within removeWhere when it goes too
\* (Enqueue, Dequeue's ErrSublocks, removeWhere).
THEOREM NoSublockLeftBehind == Spec => []SublocksUnderParents
<1>1. TreeInv => SublocksUnderParents
  BY TreeInvMeans
<1> QED
  BY <1>1, TreesAreSound, PTL

-----------------------------------------------------------------------------
(* What a step does, and may not do. *)

\* The queue of r is empty or headed by a request that cannot be granted.
Stuck(L, R, r) == Queue(R, r) # <<>> => ~GrantableAt(L, Queue(R, r), r, 1)

AllStuck(L, R) == \A r \in DOMAIN R : Stuck(L, R, r)
AllStuckBut(L, R, x) == \A r \in DOMAIN R : r # x => Stuck(L, R, r)

\* The head of a queue is granted if it is compatible with every holder.
LEMMA HeadGrantable ==
  ASSUME NEW L, NEW q, NEW r
  PROVE  GrantableAt(L, q, r, 1)
           <=> \A o \in Holders(L, r) \ {q[1]} : Compatible(L[q[1]].requested, L[o].mode)
<1>1. 1 .. (1 - 1) = {}
  OBVIOUS
<1>2. {q[j] : j \in 1 .. (1 - 1)} = {} /\ \A o : PrefixMode(L, q, 1, o) = L[o].mode
  BY <1>1 DEF PrefixMode
<1> QED
  BY <1>2 DEF GrantableAt

\* A stuck queue stays stuck while its head asks for the same mode and
\* nobody it could not be granted beside leaves.
LEMMA StaysStuck ==
  ASSUME NEW L, NEW R, NEW L2, NEW R2, NEW r,
         Stuck(L, R, r),
         Queue(R, r) # <<>> <=> Queue(R2, r) # <<>>,
         Queue(R2, r)[1] = Queue(R, r)[1],
         L2[Queue(R, r)[1]].requested = L[Queue(R, r)[1]].requested,
         Holders(L, r) \subseteq Holders(L2, r),
         \A o \in Holders(L, r) : L2[o].mode = L[o].mode
  PROVE  Stuck(L2, R2, r)
  BY HeadGrantable DEF Stuck

\* A queue that is not empty has a head, and it is a lock.
LEMMA HeadIsLock ==
  ASSUME NEW L, NEW R, NEW r \in DOMAIN R, DB(L, R), Queue(R, r) # <<>>
  PROVE  /\ Queue(R, r)[1] \in DOMAIN L
         /\ L[Queue(R, r)[1]].resource = r
         /\ L[Queue(R, r)[1]].state # "Granted"
<1> DEFINE c == R[r].converting
           w == R[r].waiting
           q == Queue(R, r)
<1>1. IsQueue(L, r, c, w, q)
  BY QueueOf
<1>2. q = c \o w
  BY DEF Queue
<1> HIDE DEF c, w, q
<1>3. q \in Seq(Id)
  BY <1>1, <1>2, ConcatProperties DEF IsQueue
<1>4. Len(q) \in Nat /\ (q # <<>> => Len(q) # 0)
  BY <1>3, EmptySeq, LenProperties
<1>5. q # <<>> => 1 \in 1 .. Len(q)
  BY <1>4
<1>6. q # <<>> => q[1] \in DOMAIN L /\ L[q[1]].resource = r /\ L[q[1]].state # "Granted"
  BY <1>1, <1>5 DEF IsQueue
<1> QED
  BY <1>6 DEF q

\* A queue stays stuck through a change that keeps the locks on its
\* resource as far as queues and modes go.
LEMMA UntouchedAt ==
  ASSUME NEW L, NEW R, NEW L2, NEW R2, NEW r \in DOMAIN R, DB(L, R), Stuck(L, R, r),
         R2[r].converting = R[r].converting,
         R2[r].waiting = R[r].waiting,
         \A l \in DOMAIN L :
           L[l].resource = r =>
             /\ l \in DOMAIN L2
             /\ L2[l].resource = r
             /\ L2[l].state = L[l].state
             /\ L2[l].mode = L[l].mode
             /\ L2[l].requested = L[l].requested
  PROVE  Stuck(L2, R2, r)
<1>1. Queue(R2, r) = Queue(R, r)
  BY DEF Queue
<1>2. CASE Queue(R, r) = <<>>
  BY <1>1, <1>2 DEF Stuck
<1>3. CASE Queue(R, r) # <<>>
  <2>1. Queue(R, r)[1] \in DOMAIN L /\ L[Queue(R, r)[1]].resource = r
    BY <1>3, HeadIsLock
  <2>2. Holders(L, r) \subseteq Holders(L2, r) /\ \A o \in Holders(L, r) : L2[o].mode = L[o].mode
    BY DEF Holders
  <2> QED
    BY <1>1, <2>1, <2>2, StaysStuck
<1> QED
  BY <1>2, <1>3

-----------------------------------------------------------------------------
(* What every call ends with *)

LEMMA FinishStuck ==
  ASSUME NEW L, NEW R, NEW r, NEW evs, DB(L, R), AllStuck(L, R), Finish(L, R, r, evs)
  PROVE  AllStuck(locks', resources')
<1> DEFINE told == ToNotify(L, R, r)
<1>1. /\ resources' = R
      /\ locks' = [l \in DOMAIN L |->
                     IF l \in told THEN [L[l] EXCEPT !.notified = TRUE] ELSE L[l]]
  BY DEF Finish, BlockingNotices
<1> HIDE DEF told
<1>2. ASSUME NEW l \in DOMAIN L
      PROVE  /\ l \in DOMAIN locks'
             /\ locks'[l].resource = L[l].resource
             /\ locks'[l].state = L[l].state
             /\ locks'[l].mode = L[l].mode
             /\ locks'[l].requested = L[l].requested
  <2>1. L[l] \in LockRecord
    BY DEF DB, LocksOK
  <2>2. locks'[l] = [L[l] EXCEPT !.notified = TRUE] \/ locks'[l] = L[l]
    BY <1>1
  <2>3. l \in DOMAIN locks'
    BY <1>1
  <2> QED
    BY <2>1, <2>2, <2>3 DEF LockRecord
<1>3. ASSUME NEW x \in DOMAIN R
      PROVE  Stuck(locks', R, x)
  <2>1. Stuck(L, R, x)
    BY DEF AllStuck
  <2> QED
    BY <1>2, <2>1, UntouchedAt
<1> QED
  BY <1>1, <1>3 DEF AllStuck

\* What is left of a queue past its first n entries begins with the next.
Rest(q, n) == SubSeq(q, n + 1, Len(q))

LEMMA RestBegins ==
  ASSUME NEW S, NEW q \in Seq(S), NEW n \in Nat
  PROVE  /\ Rest(q, n) \in Seq(S)
         /\ n < Len(q) => /\ Len(Rest(q, n)) # 0
                          /\ Rest(q, n)[1] = q[n + 1]
         /\ ~(n < Len(q)) => Len(Rest(q, n)) = 0
<1> DEFINE s == SubSeq(q, n + 1, Len(q))
<1>1. Len(q) \in Nat /\ \A i \in 1 .. Len(q) : q[i] \in S
  BY LenProperties, ElementOfSeq
<1>2. \A i \in n + 1 .. Len(q) : q[i] \in S
  BY <1>1
<1>3. /\ s \in Seq(S)
      /\ Len(s) = IF n + 1 <= Len(q) THEN Len(q) - (n + 1) + 1 ELSE 0
      /\ \A i \in 1 .. Len(q) - (n + 1) + 1 : s[i] = q[(n + 1) + i - 1]
  BY <1>1, <1>2, SubSeqProperties
<1> HIDE DEF s, Rest
<1>4. Len(q) \in Nat
  BY <1>1
<1>5. CASE n < Len(q)
  <2>1. n + 1 <= Len(q) /\ 1 \in 1 .. Len(q) - (n + 1) + 1 /\ (n + 1) + 1 - 1 = n + 1
    BY <1>4, <1>5
  <2>2. s[1] = q[n + 1]
    BY <1>3, <2>1
  <2>3. Len(s) = Len(q) - (n + 1) + 1
    BY <1>3, <2>1
  <2>4. Len(s) # 0
    BY <1>4, <1>5, <2>3
  <2> QED
    BY <1>3, <1>5, <2>2, <2>4 DEF s, Rest
<1>6. CASE ~(n < Len(q))
  <2>1. ~(n + 1 <= Len(q))
    BY <1>4, <1>6
  <2> QED
    BY <1>3, <1>6, <2>1 DEF s, Rest
<1> QED
  BY <1>5, <1>6

\* One queue after another begins with the first, or, if it is empty, with
\* the second.
LEMMA BothBegin ==
  ASSUME NEW S, NEW a \in Seq(S), NEW b \in Seq(S)
  PROVE  /\ Len(a) # 0 => (a \o b)[1] = a[1]
         /\ Len(a) = 0 /\ Len(b) # 0 => (a \o b)[1] = b[1]
         /\ a \o b # <<>> <=> Len(a) # 0 \/ Len(b) # 0
<1> DEFINE z == a \o b
<1>1. Len(a) \in Nat /\ Len(b) \in Nat
  BY LenProperties
<1>2. /\ z \in Seq(S) /\ Len(z) = Len(a) + Len(b)
      /\ \A i \in 1 .. Len(a) + Len(b) : z[i] = IF i <= Len(a) THEN a[i] ELSE b[i - Len(a)]
  BY ConcatProperties
<1> HIDE DEF z
<1>3. z # <<>> <=> Len(z) # 0
  BY <1>2, EmptySeq
<1>4. Len(z) # 0 <=> Len(a) # 0 \/ Len(b) # 0
  BY <1>1, <1>2
<1>5. Len(a) # 0 => z[1] = a[1]
  <2>1. Len(a) # 0 => 1 \in 1 .. Len(a) + Len(b) /\ 1 <= Len(a)
    BY <1>1
  <2> QED
    BY <1>2, <2>1
<1>6. Len(a) = 0 /\ Len(b) # 0 => z[1] = b[1]
  <2>1. Len(a) = 0 /\ Len(b) # 0 => 1 \in 1 .. Len(a) + Len(b) /\ ~(1 <= Len(a)) /\ 1 - Len(a) = 1
    BY <1>1
  <2> QED
    BY <1>2, <2>1
<1> QED
  BY <1>3, <1>4, <1>5, <1>6 DEF z

\* The head of what regrant leaves queued is the request it stopped at.
LEMMA StopsAt ==
  ASSUME NEW L, NEW r, NEW c, NEW w, NEW q, IsQueue(L, r, c, w, q), NEW k \in Nat, NEW n \in Nat,
         k < Len(c) => n = 0,
         ~(k < Len(c)) => n = k - Len(c),
         Rest(c, k) \o Rest(w, n) # <<>>
  PROVE  k < Len(q) /\ (Rest(c, k) \o Rest(w, n))[1] = q[k + 1]
<1> DEFINE a == Rest(c, k)
           b == Rest(w, n)
<1>1. /\ c \in Seq(Id) /\ w \in Seq(Id)
      /\ Len(c) \in Nat /\ Len(w) \in Nat /\ Len(q) = Len(c) + Len(w)
  BY DEF IsQueue
<1>2. /\ \A i \in 1 .. Len(c) : q[i] = c[i]
      /\ \A i \in 1 .. Len(w) : q[Len(c) + i] = w[i]
  BY DEF IsQueue
<1>3. /\ a \in Seq(Id)
      /\ k < Len(c) => Len(a) # 0 /\ a[1] = c[k + 1]
      /\ ~(k < Len(c)) => Len(a) = 0
  BY <1>1, RestBegins
<1>4. /\ b \in Seq(Id)
      /\ n < Len(w) => Len(b) # 0 /\ b[1] = w[n + 1]
      /\ ~(n < Len(w)) => Len(b) = 0
  BY <1>1, RestBegins
<1>5. a \o b # <<>>
  OBVIOUS
<1> HIDE DEF a, b
<1>6. /\ Len(a) # 0 => (a \o b)[1] = a[1]
      /\ Len(a) = 0 /\ Len(b) # 0 => (a \o b)[1] = b[1]
      /\ Len(a) # 0 \/ Len(b) # 0
  BY <1>3, <1>4, <1>5, BothBegin
<1>7. CASE k < Len(c)
  <2>1. k + 1 \in 1 .. Len(c) /\ k < Len(q)
    BY <1>1, <1>7
  <2>2. (a \o b)[1] = q[k + 1]
    BY <1>2, <1>3, <1>6, <1>7, <2>1
  <2> QED
    BY <2>1, <2>2 DEF a, b
<1>8. CASE ~(k < Len(c))
  <2>1. n < Len(w) /\ Len(a) = 0 /\ Len(b) # 0 /\ b[1] = w[n + 1]
    BY <1>3, <1>4, <1>6, <1>8
  <2>2. n + 1 \in 1 .. Len(w) /\ Len(c) + (n + 1) = k + 1 /\ k < Len(q)
    BY <1>1, <1>8, <2>1
  <2>3. q[Len(c) + (n + 1)] = w[n + 1]
    BY <1>2, <2>2
  <2>4. (a \o b)[1] = q[k + 1]
    BY <1>6, <2>1, <2>2, <2>3
  <2> QED
    BY <2>2, <2>4 DEF a, b
<1> QED
  BY <1>7, <1>8

\* regrant leaves its resource's queue stuck, and no other any less so.
LEMMA RegrantStuck ==
  ASSUME NEW L, NEW R, NEW r \in DOMAIN R, DB(L, R), AllStuckBut(L, R, r)
  PROVE  AllStuck(Regrant(L, R, r).locks, Regrant(L, R, r).resources)
<1> DEFINE c == R[r].converting
           w == R[r].waiting
           q == Queue(R, r)
           k == GrantCount(L, q, r)
           G == FirstOf(q, k)
           L2 == Regrant(L, R, r).locks
           R2 == Regrant(L, R, r).resources
           n == IF k > Len(c) THEN k - Len(c) ELSE 0
           lc == Rest(c, k)
           lw == Rest(w, n)
<1>1. IsRegrant(L, r, c, w, q, k, G, L2)
  BY RegrantIs
<1>2. R2 = [R EXCEPT ![r].converting = lc, ![r].waiting = lw]
  BY DEF Regrant, LeftConverting, LeftWaiting, Rest
<1>3. R[r] \in ResourceRecord
  BY DEF DB, ResourcesOK
<1> HIDE DEF L2, R2
<1>4. /\ DOMAIN R2 = DOMAIN R
      /\ \A x \in DOMAIN R \ {r} : R2[x] = R[x]
      /\ R2[r] = [R[r] EXCEPT !.converting = lc, !.waiting = lw]
  BY <1>2
<1> HIDE DEF k, c, w, q, G
<1>5. Queue(R2, r) = lc \o lw
  <2> HIDE DEF lc, lw
  <2>1. R2[r].converting = lc /\ R2[r].waiting = lw
    BY <1>3, <1>4 DEF ResourceRecord
  <2> QED
    BY <2>1 DEF Queue
<1>6. /\ IsQueue(L, r, c, w, q)
      /\ k \in 0 .. Len(q)
      /\ k < Len(q) => ~GrantableAt(L, q, r, k + 1)
  BY <1>1 DEF IsRegrant
<1>7. /\ \A l \in G : l \in DOMAIN L /\ L[l].resource = r /\ L[l].state # "Granted"
      /\ \A i \in 1 .. Len(q) : q[i] \in G <=> i <= k
      /\ DOMAIN L2 = DOMAIN L
      /\ \A l \in DOMAIN L :
           /\ L2[l].resource = L[l].resource
           /\ l \notin G => L2[l] = L[l]
           /\ l \in G => /\ L2[l].state = "Granted"
                        /\ L2[l].mode = L[l].requested
                        /\ L2[l].requested = L[l].requested
  BY <1>1 DEF IsRegrant
<1>8. /\ Len(c) \in Nat /\ Len(w) \in Nat /\ Len(q) \in Nat
      /\ \A i \in 1 .. Len(q) : q[i] \in DOMAIN L
  BY <1>6 DEF IsQueue
<1>9. /\ k \in Nat /\ n \in Nat
      /\ ~(k < Len(c)) => n = k - Len(c)
      /\ k < Len(c) => n = 0
  <2>1. k \in Nat
    BY <1>6, <1>8
  <2> QED
    BY <1>8, <2>1
<1> HIDE DEF n
<1>10. ASSUME NEW x \in DOMAIN R2, x # r
       PROVE  Stuck(L2, R2, x)
  <2>1. x \in DOMAIN R /\ Stuck(L, R, x) /\ R2[x] = R[x]
    BY <1>4, <1>10 DEF AllStuckBut
  <2>2. \A l \in DOMAIN L : L[l].resource = x => l \notin G /\ L2[l] = L[l] /\ l \in DOMAIN L2
    BY <1>7, <1>10
  <2> QED
    BY <2>1, <2>2, UntouchedAt
<1>11. ASSUME Queue(R2, r) # <<>>, GrantableAt(L2, Queue(R2, r), r, 1)
       PROVE  FALSE
  <2> DEFINE h == q[k + 1]
  <2>1. k < Len(q) /\ Queue(R2, r)[1] = h
    <3>1. IsQueue(L, r, c, w, q) /\ Rest(c, k) \o Rest(w, n) # <<>>
      BY <1>5, <1>6, <1>11
    <3>2. k < Len(q) /\ (Rest(c, k) \o Rest(w, n))[1] = h
      BY <1>9, <3>1, StopsAt
    <3> QED
      BY <1>5, <3>2
  <2>2. k + 1 \in 1 .. Len(q)
    BY <1>8, <1>9, <2>1
  <2>3. ~(k + 1 <= k)
    BY <1>9
  <2>4. h \in DOMAIN L /\ h \notin G /\ L2[h] = L[h]
    BY <1>7, <1>8, <2>2, <2>3
  <2>5. \A o \in Holders(L2, r) \ {h} : Compatible(L[h].requested, L2[o].mode)
    BY <1>11, <2>1, <2>4, HeadGrantable
  <2>6. ASSUME NEW o \in (Holders(L, r) \cup {q[j] : j \in 1 .. ((k + 1) - 1)}) \ {h}
        PROVE  Compatible(L[h].requested, PrefixMode(L, q, k + 1, o))
    <3>1. (k + 1) - 1 = k /\ \A j \in 1 .. k : j \in 1 .. Len(q) /\ j <= k
      BY <1>8, <1>9, <2>1
    <3>2. (\E j \in 1 .. ((k + 1) - 1) : q[j] = o) <=> o \in G
      <4>1. o \in G => \E j \in 1 .. k : o = q[j]
        BY <1>1 DEF IsRegrant
      <4>2. \A j \in 1 .. k : q[j] \in G
        BY <1>7, <3>1
      <4> QED
        BY <3>1, <4>1, <4>2
    <3>3. CASE o \in G
      <4>1. PrefixMode(L, q, k + 1, o) = L[o].requested
        BY <3>2, <3>3 DEF PrefixMode
      <4>2. o \in Holders(L2, r) \ {h} /\ L2[o].mode = L[o].requested
        BY <1>7, <3>3 DEF Holders
      <4> QED
        BY <2>5, <4>1, <4>2
    <3>4. CASE o \notin G
      <4>1. PrefixMode(L, q, k + 1, o) = L[o].mode
        BY <3>2, <3>4 DEF PrefixMode
      <4>2. o \in Holders(L, r)
        BY <3>2, <3>4
      <4>3. o \in Holders(L2, r) \ {h} /\ L2[o].mode = L[o].mode
        BY <1>7, <3>4, <4>2 DEF Holders
      <4> QED
        BY <2>5, <4>1, <4>3
    <3> QED
      BY <3>3, <3>4
  <2>7. GrantableAt(L, q, r, k + 1)
    BY <2>6 DEF GrantableAt
  <2> QED
    BY <1>6, <2>1, <2>7
<1>12. Stuck(L2, R2, r)
  BY <1>11 DEF Stuck
<1> QED
  BY <1>10, <1>12 DEF AllStuck, L2, R2

LEMMA SettleStuck ==
  ASSUME NEW L, NEW R, NEW r \in DOMAIN R, NEW evs, DB(L, R), AllStuckBut(L, R, r),
         Settle(L, R, r, evs)
  PROVE  AllStuck(locks', resources')
<1> DEFINE g == Regrant(L, R, r)
<1>1. DB(g.locks, g.resources) /\ AllStuck(g.locks, g.resources)
  BY RegrantKeeps, RegrantStuck
<1>2. Finish(g.locks, g.resources, r, evs \cup g.events)
  BY DEF Settle
<1> HIDE DEF g
<1> QED
  BY <1>1, <1>2, FinishStuck

-----------------------------------------------------------------------------
(* The calls *)

\* A store to a value block changes nothing (Convert, Dequeue, Release).
LEMMA StoreStuck ==
  ASSUME NEW R2, DB(locks, resources), AllStuck(locks, resources),
         DOMAIN R2 = DOMAIN resources,
         \A r \in DOMAIN resources :
           \/ R2[r] = resources[r]
           \/ \E v \in Value : R2[r] = [resources[r] EXCEPT !.value = v, !.invalid = FALSE]
           \/ R2[r] = [resources[r] EXCEPT !.invalid = TRUE]
  PROVE  AllStuck(locks, R2)
<1> SUFFICES ASSUME NEW r \in DOMAIN R2 PROVE Stuck(locks, R2, r)
  BY DEF AllStuck
<1>1. resources[r] \in ResourceRecord /\ Stuck(locks, resources, r)
  BY DEF DB, ResourcesOK, AllStuck
<1>2. R2[r].converting = resources[r].converting /\ R2[r].waiting = resources[r].waiting
  BY <1>1 DEF ResourceRecord
<1> QED
  BY <1>1, <1>2, UntouchedAt

\* A conversion called off.
LEMMA UnconvertStuck ==
  ASSUME NEW l \in DOMAIN locks, NEW kind, DB(locks, resources), AllStuck(locks, resources),
         locks[l].state = "Converting", Unconvert(l, kind)
  PROVE  AllStuck(locks', resources')
<1> DEFINE L2 == CalledOff(l)
           R2 == Unqueue(locks, resources, l)
           r == locks[l].resource
<1>1. Settle(L2, R2, r, {Event(kind, l)})
  BY DEF Unconvert, CalledOff
<1>2. /\ DB(L2, R2) /\ DOMAIN L2 = DOMAIN locks /\ r \in DOMAIN R2
      /\ \A x \in DOMAIN locks \ {l} : L2[x] = locks[x]
  BY CalledOffKeeps
<1>3. DOMAIN R2 = DOMAIN resources /\ \A x \in DOMAIN resources \ {r} : R2[x] = resources[x]
  <2>1. DOMAIN R2 = DOMAIN resources
    BY UnqueueHolds
  <2>2. R2 = [resources EXCEPT ![r].converting = Without(@, l)]
    BY DEF Unqueue
  <2> QED
    BY <2>1, <2>2
<1> HIDE DEF L2, R2
<1>4. ASSUME NEW x \in DOMAIN R2, x # r
      PROVE  Stuck(L2, R2, x)
  <2>1. x \in DOMAIN resources /\ R2[x] = resources[x] /\ Stuck(locks, resources, x)
    BY <1>3, <1>4 DEF AllStuck
  <2>2. \A y \in DOMAIN locks : locks[y].resource = x => y \in DOMAIN L2 /\ L2[y] = locks[y]
    BY <1>2, <1>4
  <2> QED
    BY <2>1, <2>2, UntouchedAt
<1> QED
  BY <1>1, <1>2, <1>4, SettleStuck DEF AllStuckBut

\* A lock removed.
LEMMA RemoveLockStuck ==
  ASSUME NEW L, NEW R, NEW l \in DOMAIN L, NEW kind, DB(L, R), AllStuck(L, R),
         RemoveLock(L, R, l, kind)
  PROVE  AllStuck(locks', resources')
<1> DEFINE r == L[l].resource
           left == DropLock(L, l)
           R2 == Unqueue(L, R, l)
           rest == DeleteIfUnused(left, R2, r)
           evs == IF L[l].state = "Granted" THEN {} ELSE {Event(kind, l)}
<1>1. DB(left, R2) /\ DB(left, rest) /\ DOMAIN left = DOMAIN L \ {l}
  BY DropLockKeeps, DeleteIfUnusedKeeps
<1>2. IF r \in DOMAIN rest
      THEN Settle(left, rest, r, evs)
      ELSE locks' = left /\ resources' = rest /\ events' = evs
  BY DEF RemoveLock
<1>3. ASSUME NEW x \in DOMAIN left
      PROVE  /\ left[x].resource = L[x].resource
             /\ left[x].state = L[x].state
             /\ left[x].mode = L[x].mode
             /\ left[x].requested = L[x].requested
  <2>1. L[x] \in LockRecord
    BY <1>1 DEF DB, LocksOK
  <2>2. left[x] = L[x] \/ left[x] = [L[x] EXCEPT !.sublocks = @ - 1]
    BY <1>1 DEF DropLock
  <2> HIDE DEF left
  <2> QED
    BY <2>1, <2>2 DEF LockRecord
<1>4. DOMAIN R2 = DOMAIN R /\ \A x \in DOMAIN R \ {r} : R2[x] = R[x]
  <2>1. DOMAIN R2 = DOMAIN R
    BY UnqueueHolds
  <2>2. L[l].state \in State
    BY DEF DB, LocksOK, LockRecord
  <2>3. \/ R2 = R
        \/ R2 = [R EXCEPT ![r].converting = Without(@, l)]
        \/ R2 = [R EXCEPT ![r].waiting = Without(@, l)]
    BY <2>2 DEF Unqueue, State
  <2> HIDE DEF R2, r
  <2> QED
    BY <2>1, <2>3
<1>5. ASSUME NEW x \in DOMAIN rest
      PROVE  /\ x \in DOMAIN R2
             /\ rest[x].converting = R2[x].converting
             /\ rest[x].waiting = R2[x].waiting
  <2>1. x \in DOMAIN R2
    BY DEF DeleteIfUnused
  <2>2. R2[x] \in ResourceRecord
    BY <1>1, <2>1 DEF DB, ResourcesOK
  <2>3. rest[x] = R2[x] \/ rest[x] = [R2[x] EXCEPT !.children = @ - 1]
    BY DEF DeleteIfUnused
  <2> HIDE DEF rest, R2
  <2> QED
    BY <2>1, <2>2, <2>3 DEF ResourceRecord
<1> HIDE DEF r, left, R2, rest, evs
<1>6. ASSUME NEW x \in DOMAIN rest, x # r
      PROVE  Stuck(left, rest, x)
  <2>1. /\ x \in DOMAIN R /\ Stuck(L, R, x)
        /\ rest[x].converting = R[x].converting
        /\ rest[x].waiting = R[x].waiting
    BY <1>4, <1>5, <1>6 DEF AllStuck
  <2>2. \A y \in DOMAIN L : L[y].resource = x => y \in DOMAIN left
    BY <1>1, <1>6 DEF r
  <2> QED
    BY <1>3, <2>1, <2>2, UntouchedAt
<1>7. CASE r \in DOMAIN rest
  BY <1>1, <1>2, <1>6, <1>7, SettleStuck DEF AllStuckBut
<1>8. CASE r \notin DOMAIN rest
  BY <1>2, <1>6, <1>8 DEF AllStuck
<1> QED
  BY <1>7, <1>8

LEMMA DequeueStuck ==
  ASSUME NEW o, NEW l, NEW how, NEW v \in Value, DB(locks, resources),
         AllStuck(locks, resources), Dequeue(o, l, how, v)
  PROVE  AllStuck(locks', resources')
<1> DEFINE R2 == StoreBack(l, how, v)
           r == locks[l].resource
<1>1. l \in DOMAIN locks /\ RemoveLock(locks, R2, l, "Aborted")
  BY DEF Dequeue
<1>2. r \in DOMAIN resources
  BY <1>1 DEF DB, Located
<1>3. \/ R2 = resources
      \/ R2 = [resources EXCEPT ![r].value = v, ![r].invalid = FALSE]
      \/ R2 = [resources EXCEPT ![r].invalid = TRUE]
  BY DEF StoreBack
<1> HIDE DEF R2, r
<1>4. DOMAIN R2 = DOMAIN resources
  BY <1>3
<1>5. ASSUME NEW x \in DOMAIN resources
      PROVE  \/ R2[x] = resources[x]
             \/ \E u \in Value : R2[x] = [resources[x] EXCEPT !.value = u, !.invalid = FALSE]
             \/ R2[x] = [resources[x] EXCEPT !.invalid = TRUE]
  BY <1>3
<1>6. DB(locks, R2) /\ AllStuck(locks, R2)
  BY <1>4, <1>5, StoreKeeps, StoreStuck
<1> QED
  BY <1>1, <1>6, RemoveLockStuck

\* A queue that grows keeps its head; a new one has what it was made with.
LEMMA AppendHead ==
  ASSUME NEW S, NEW q \in Seq(S), NEW e \in S
  PROVE  /\ Append(q, e) \in Seq(S) /\ Len(Append(q, e)) # 0
         /\ Len(q) # 0 => Append(q, e)[1] = q[1]
         /\ Len(q) = 0 => Append(q, e)[1] = e
<1> DEFINE z == Append(q, e)
<1>1. Len(q) \in Nat
  BY LenProperties
<1>2. /\ z \in Seq(S) /\ Len(z) = Len(q) + 1
      /\ \A i \in 1 .. Len(q) : z[i] = q[i]
      /\ z[Len(q) + 1] = e
  BY AppendProperties
<1> HIDE DEF z
<1>3. Len(z) # 0 /\ (Len(q) # 0 => 1 \in 1 .. Len(q)) /\ (Len(q) = 0 => Len(q) + 1 = 1)
  BY <1>1, <1>2
<1>4. Len(q) # 0 => z[1] = q[1]
  BY <1>2, <1>3
<1>5. Len(q) = 0 => z[1] = e
  BY <1>2, <1>3
<1> QED
  BY <1>2, <1>3, <1>4, <1>5 DEF z

\* A queue headed by a request that goes with somebody's mode is stuck.
LEMMA HeadBlocked ==
  ASSUME NEW L, NEW R, NEW r, NEW l, NEW o, Queue(R, r)[1] = l,
         o \in Holders(L, r), o # l, ~Compatible(L[l].requested, L[o].mode)
  PROVE  Stuck(L, R, r)
  BY HeadGrantable DEF Stuck

\* A conversion queued on r behind others, or because it could not be granted.
LEMMA ConversionQueuedStuck ==
  ASSUME NEW l \in DOMAIN locks, NEW m \in Mode, NEW L2, NEW R2, DB(locks, resources),
         AllStuck(locks, resources), locks[l].state = "Granted", ~ConvertGrantable(l, m),
         R2 = [resources EXCEPT ![locks[l].resource].converting = Append(@, l)],
         DOMAIN L2 = DOMAIN locks,
         \A x \in DOMAIN locks \ {l} : L2[x] = locks[x],
         L2[l].resource = locks[l].resource, L2[l].state = "Converting",
         L2[l].mode = locks[l].mode, L2[l].requested = m
  PROVE  AllStuck(L2, R2)
<1> DEFINE r == locks[l].resource
           c == resources[r].converting
           w == resources[r].waiting
<1>1. /\ r \in DOMAIN resources /\ resources[r] \in ResourceRecord
      /\ c \in Seq(Id) /\ w \in Seq(Id) /\ l \in Id
  BY DEF DB, Located, ResourcesOK, LocksOK, ResourceRecord
<1>2. /\ DOMAIN R2 = DOMAIN resources
      /\ \A x \in DOMAIN resources \ {r} : R2[x] = resources[x]
      /\ R2[r] = [resources[r] EXCEPT !.converting = Append(c, l)]
  BY <1>1
<1>3. R2[r].converting = Append(c, l) /\ R2[r].waiting = w
  BY <1>1, <1>2 DEF ResourceRecord
<1>4. Queue(R2, r) = Append(c, l) \o w /\ Queue(resources, r) = c \o w
  BY <1>3 DEF Queue
<1>5. ~NoMoreRestrictive(m, locks[l].mode) /\ ~(c = <<>> /\ CompatibleWithAll(locks, r, l, m))
  BY DEF ConvertGrantable
<1> HIDE DEF r, c, w
<1>6. ASSUME NEW x \in DOMAIN R2, x # r
      PROVE  Stuck(L2, R2, x)
  <2>1. x \in DOMAIN resources /\ R2[x] = resources[x] /\ Stuck(locks, resources, x)
    BY <1>2, <1>6 DEF AllStuck
  <2>2. \A y \in DOMAIN locks : locks[y].resource = x => y \in DOMAIN L2 /\ L2[y] = locks[y]
    BY <1>6 DEF r
  <2> QED
    BY <2>1, <2>2, UntouchedAt
<1>7. /\ Holders(locks, r) \subseteq Holders(L2, r)
      /\ \A o \in Holders(locks, r) : L2[o].mode = locks[o].mode
  BY DEF Holders
<1>8. /\ Append(c, l) \in Seq(Id) /\ Len(Append(c, l)) # 0
      /\ Len(c) # 0 => Append(c, l)[1] = c[1]
      /\ Len(c) = 0 => Append(c, l)[1] = l
  BY <1>1, AppendHead
<1>9. Queue(R2, r) # <<>> /\ Queue(R2, r)[1] = Append(c, l)[1]
  <2> DEFINE d == Append(c, l)
  <2>1. d \in Seq(Id) /\ Len(d) # 0 /\ Queue(R2, r) = d \o w
    BY <1>4, <1>8
  <2> HIDE DEF d
  <2>2. d \o w # <<>> /\ (d \o w)[1] = d[1]
    BY <1>1, <2>1, BothBegin
  <2> QED
    BY <2>1, <2>2 DEF d
<1>10. ASSUME Len(c) # 0
       PROVE  Stuck(L2, R2, r)
  <2>1. Queue(resources, r) # <<>> /\ Queue(resources, r)[1] = c[1]
    BY <1>1, <1>4, <1>10, BothBegin
  <2>2. c[1] \in DOMAIN locks /\ locks[c[1]].state # "Granted"
    BY <1>1, <2>1, HeadIsLock
  <2>3. c[1] # l /\ L2[c[1]] = locks[c[1]]
    BY <2>2
  <2>4. Queue(R2, r)[1] = c[1] /\ Stuck(locks, resources, r)
    BY <1>1, <1>8, <1>9, <1>10 DEF AllStuck
  <2> QED
    BY <1>7, <1>9, <2>1, <2>3, <2>4, StaysStuck
<1>11. ASSUME Len(c) = 0
       PROVE  Stuck(L2, R2, r)
  <2>1. c = <<>>
    BY <1>1, <1>11, EmptySeq
  <2>2. PICK o \in Holders(locks, r) \ {l} : ~Compatible(m, locks[o].mode)
    BY <1>5, <2>1 DEF CompatibleWithAll
  <2>3. Queue(R2, r)[1] = l
    BY <1>8, <1>9, <1>11
  <2>4. o \in Holders(L2, r) /\ o # l /\ ~Compatible(L2[l].requested, L2[o].mode)
    BY <1>7, <2>2
  <2> QED
    BY <2>3, <2>4, HeadBlocked
<1> QED
  BY <1>2, <1>6, <1>10, <1>11 DEF AllStuck

LEMMA ConvertStuck ==
  ASSUME NEW o, NEW l, NEW m \in Mode, NEW blk \in BOOLEAN, NEW vb \in BOOLEAN, NEW v \in Value,
         DB(locks, resources), AllStuck(locks, resources), Convert(o, l, m, blk, vb, v)
  PROVE  AllStuck(locks', resources')
<1>1. l \in DOMAIN locks /\ locks[l].state = "Granted"
  BY ConvertSteps
<1>2. CASE ConvertGrantable(l, m)
  <2> DEFINE r == locks[l].resource
             L2 == Converted(l, m, blk, vb, v)
             R == StoreDown(l, m, vb, v)
  <2>1. Settle(L2, R, r, {})
    BY <1>2, ConvertSteps
  <2>2. /\ DB(L2, R) /\ r \in DOMAIN R
        /\ DOMAIN L2 = DOMAIN locks /\ \A x \in DOMAIN locks \ {l} : L2[x] = locks[x]
    BY <1>1, <1>2, GrantConversionKeeps
  <2>3. R = resources \/ R = [resources EXCEPT ![r].value = v, ![r].invalid = FALSE]
    BY DEF StoreDown
  <2> HIDE DEF L2, R
  <2>4. /\ DOMAIN R = DOMAIN resources
        /\ \A x \in DOMAIN resources \ {r} : R[x] = resources[x]
    BY <2>3
  <2> HIDE DEF r
  <2>5. ASSUME NEW x \in DOMAIN R, x # r
        PROVE  Stuck(L2, R, x)
    <3>1. x \in DOMAIN resources /\ R[x] = resources[x] /\ Stuck(locks, resources, x)
      BY <2>4, <2>5 DEF AllStuck
    <3>2. \A y \in DOMAIN locks : locks[y].resource = x => y \in DOMAIN L2 /\ L2[y] = locks[y]
      BY <2>2, <2>5 DEF r
    <3> QED
      BY <3>1, <3>2, UntouchedAt
  <2> QED
    BY <2>1, <2>2, <2>5, SettleStuck DEF AllStuckBut
<1>3. CASE ~ConvertGrantable(l, m)
  <2> DEFINE r == locks[l].resource
             L2 == AskedFor(l, m, blk, vb)
             R2 == [resources EXCEPT ![r].converting = Append(@, l)]
  <2>1. Finish(L2, R2, r, {})
    BY <1>3, ConvertSteps
  <2>2. /\ DB(L2, R2)
        /\ DOMAIN L2 = DOMAIN locks /\ \A x \in DOMAIN locks \ {l} : L2[x] = locks[x]
        /\ L2[l].resource = locks[l].resource /\ L2[l].state = "Converting"
        /\ L2[l].mode = locks[l].mode /\ L2[l].requested = m
    BY <1>1, <1>3, AskedForKeeps
  <2>3. R2 = [resources EXCEPT ![locks[l].resource].converting = Append(@, l)]
    OBVIOUS
  <2> HIDE DEF L2, R2
  <2>4. AllStuck(L2, R2)
    BY <1>1, <1>3, <2>2, <2>3, ConversionQueuedStuck
  <2> QED
    BY <2>1, <2>2, <2>4, FinishStuck
<1> QED
  BY <1>2, <1>3

\* A fresh resource has an empty queue, and the others keep theirs.
LEMMA WithResourceStuck ==
  ASSUME NEW r, DB(locks, resources), AllStuck(locks, resources)
  PROVE  AllStuck(locks, WithResource(resources, r))
<1> DEFINE R2 == WithResource(resources, r)
<1>1. CASE r \in DOMAIN resources
  BY <1>1 DEF WithResource
<1>2. CASE r \notin DOMAIN resources
  <2>1. /\ DOMAIN R2 = DOMAIN resources \cup {r}
        /\ R2[r] = NewResource
        /\ \A x \in DOMAIN resources :
             R2[x] = resources[x] \/ R2[x] = [resources[x] EXCEPT !.children = @ + 1]
    BY <1>2 DEF WithResource
  <2> HIDE DEF R2
  <2>2. R2[r].converting = <<>> /\ R2[r].waiting = <<>>
    BY <2>1 DEF NewResource
  <2>3. Queue(R2, r) = <<>>
    BY <2>2 DEF Queue
  <2>4. ASSUME NEW x \in DOMAIN resources
        PROVE  Stuck(locks, R2, x)
    <3>1. resources[x] \in ResourceRecord /\ Stuck(locks, resources, x)
      BY DEF DB, ResourcesOK, AllStuck
    <3>2. R2[x].converting = resources[x].converting /\ R2[x].waiting = resources[x].waiting
      BY <2>1, <3>1 DEF ResourceRecord
    <3> QED
      BY <3>1, <3>2, UntouchedAt
  <2>5. Stuck(locks, R2, r)
    BY <2>3 DEF Stuck
  <2> QED
    BY <2>1, <2>4, <2>5 DEF AllStuck, R2
<1> QED
  BY <1>1, <1>2

\* A new lock granted at once, when nothing is queued on its resource.
LEMMA NewGrantStuck ==
  ASSUME NEW L2, NEW R, NEW r, DB(locks, R), AllStuck(locks, R), Queue(R, r) = <<>>,
         \A x \in DOMAIN locks :
           /\ x \in DOMAIN L2
           /\ L2[x].resource = locks[x].resource
           /\ L2[x].state = locks[x].state
           /\ L2[x].mode = locks[x].mode
           /\ L2[x].requested = locks[x].requested
  PROVE  AllStuck(L2, R)
<1> SUFFICES ASSUME NEW x \in DOMAIN R PROVE Stuck(L2, R, x)
  BY DEF AllStuck
<1>1. Stuck(locks, R, x)
  BY DEF AllStuck
<1> QED
  BY <1>1, UntouchedAt

\* A new request queued behind others, or because it could not be granted.
LEMMA NewRequestStuck ==
  ASSUME NEW l \in Id, l \notin DOMAIN locks, NEW L2, NEW R, NEW R2, NEW r \in DOMAIN R,
         NEW m, DB(locks, R), AllStuck(locks, R), ~EnqueueGrantable(R, r, m),
         R2 = [R EXCEPT ![r].waiting = Append(@, l)],
         \A x \in DOMAIN locks :
           /\ x \in DOMAIN L2
           /\ L2[x].resource = locks[x].resource
           /\ L2[x].state = locks[x].state
           /\ L2[x].mode = locks[x].mode
           /\ L2[x].requested = locks[x].requested,
         L2[l].requested = m
  PROVE  AllStuck(L2, R2)
<1> DEFINE c == R[r].converting
           w == R[r].waiting
           d == Append(w, l)
<1>1. R[r] \in ResourceRecord /\ c \in Seq(Id) /\ w \in Seq(Id)
  BY DEF DB, ResourcesOK, ResourceRecord
<1>2. /\ DOMAIN R2 = DOMAIN R
      /\ \A x \in DOMAIN R \ {r} : R2[x] = R[x]
      /\ R2[r] = [R[r] EXCEPT !.waiting = d]
  OBVIOUS
<1>3. R2[r].converting = c /\ R2[r].waiting = d
  BY <1>1, <1>2 DEF ResourceRecord
<1>4. Queue(R2, r) = c \o d /\ Queue(R, r) = c \o w
  BY <1>3 DEF Queue
<1>5. /\ d \in Seq(Id) /\ Len(d) # 0
      /\ Len(w) # 0 => d[1] = w[1]
      /\ Len(w) = 0 => d[1] = l
  BY <1>1, AppendHead
<1> HIDE DEF c, w, d
<1>6. ASSUME NEW x \in DOMAIN R2, x # r
      PROVE  Stuck(L2, R2, x)
  <2>1. x \in DOMAIN R /\ R2[x] = R[x] /\ Stuck(locks, R, x)
    BY <1>2, <1>6 DEF AllStuck
  <2> QED
    BY <2>1, UntouchedAt
<1>7. /\ Holders(locks, r) \subseteq Holders(L2, r)
      /\ \A o \in Holders(locks, r) : o \in DOMAIN locks /\ L2[o].mode = locks[o].mode
  BY DEF Holders
<1>8. /\ Queue(R2, r) # <<>>
      /\ Len(c) # 0 => Queue(R2, r)[1] = c[1]
      /\ Len(c) = 0 => Queue(R2, r)[1] = d[1]
  <2>1. /\ c \o d # <<>>
        /\ Len(c) # 0 => (c \o d)[1] = c[1]
        /\ Len(c) = 0 => (c \o d)[1] = d[1]
    BY <1>1, <1>5, BothBegin
  <2> QED
    BY <1>4, <2>1
<1>9. /\ Queue(R, r) # <<>> <=> Len(c) # 0 \/ Len(w) # 0
      /\ Len(c) # 0 => Queue(R, r)[1] = c[1]
      /\ Len(c) = 0 /\ Len(w) # 0 => Queue(R, r)[1] = w[1]
  <2>1. /\ c \o w # <<>> <=> Len(c) # 0 \/ Len(w) # 0
        /\ Len(c) # 0 => (c \o w)[1] = c[1]
        /\ Len(c) = 0 /\ Len(w) # 0 => (c \o w)[1] = w[1]
    BY <1>1, BothBegin
  <2> QED
    BY <1>4, <2>1
<1>10. ASSUME Queue(R, r) # <<>>
       PROVE  Stuck(L2, R2, r)
  <2>1. Queue(R, r)[1] \in DOMAIN locks
    BY <1>10, HeadIsLock
  <2>2. Queue(R2, r)[1] = Queue(R, r)[1] /\ Stuck(locks, R, r)
    BY <1>5, <1>8, <1>9, <1>10 DEF AllStuck
  <2> QED
    BY <1>7, <1>8, <1>10, <2>1, <2>2, StaysStuck
<1>11. ASSUME Queue(R, r) = <<>>
       PROVE  Stuck(L2, R2, r)
  <2>1. Len(c) = 0 /\ Len(w) = 0
    BY <1>9, <1>11
  <2>2. PICK o \in Holders(locks, r) \ {NoLock} : ~Compatible(m, locks[o].mode)
    BY <1>11 DEF EnqueueGrantable, CompatibleWithAll
  <2>3. Queue(R2, r)[1] = l
    BY <1>5, <1>8, <2>1
  <2>4. o \in Holders(L2, r) /\ o # l /\ ~Compatible(L2[l].requested, L2[o].mode)
    BY <1>7, <2>2
  <2> QED
    BY <2>3, <2>4, HeadBlocked
<1> QED
  BY <1>2, <1>6, <1>10, <1>11 DEF AllStuck

LEMMA EnqueueStuck ==
  ASSUME NEW o \in Owner, NEW m \in Mode, NEW n \in Name, NEW a \in AccessMode,
         NEW p \in DOMAIN locks \cup {NoLock}, NEW blk \in BOOLEAN, NEW vb \in BOOLEAN,
         DB(locks, resources), AllStuck(locks, resources), Enqueue(o, m, n, a, p, blk, vb)
  PROVE  AllStuck(locks', resources')
<1> DEFINE r == RequestResource(p, a, n)
           R == WithResource(resources, r)
           rec == RequestLock(o, m, n, a, p, blk, vb)
<1>1. PICK l \in Id \ DOMAIN locks :
        /\ lastID' = l
        /\ EnqueueGrantable(R, r, m) => Finish(AddGranted(R, l, rec), R, r, {})
        /\ ~EnqueueGrantable(R, r, m)
             => Finish(AddLock(locks, l, rec), [R EXCEPT ![r].waiting = Append(@, l)], r, {})
  BY EnqueueSteps
<1>2. /\ rec \in LockRecord /\ rec.resource = r /\ r \in Resource
      /\ rec.state = "Waiting" /\ rec.requested = m
  BY RequestLockIs DEF DB
<1> HIDE DEF rec, r
<1>3. DB(locks, R) /\ r \in DOMAIN R /\ AllStuck(locks, R)
  BY <1>2, WithResourceKeeps, WithResourceStuck
<1> HIDE DEF R
<1>4. LocksOK(locks) /\ l \in Id /\ l \notin DOMAIN locks
  BY DEF DB
<1> DEFINE L == AddLock(locks, l, rec)
<1>5. DOMAIN L = DOMAIN locks \cup {l} /\ L[l] = rec
  BY <1>4, AddedIs
<1>6. ASSUME NEW x \in DOMAIN locks
      PROVE  /\ L[x] \in LockRecord
             /\ L[x].resource = locks[x].resource
             /\ L[x].state = locks[x].state
             /\ L[x].mode = locks[x].mode
             /\ L[x].requested = locks[x].requested
  <2>1. L[x] = locks[x] \/ L[x] = [locks[x] EXCEPT !.sublocks = @ + 1]
    BY <1>4 DEF AddLock
  <2>2. locks[x] \in LockRecord
    BY <1>4 DEF LocksOK
  <2> HIDE DEF L
  <2> QED
    BY <2>1, <2>2 DEF LockRecord
<1>7. CASE EnqueueGrantable(R, r, m)
  <2> DEFINE L2 == AddGranted(R, l, rec)
  <2>1. DB(L2, R) /\ \A x \in DOMAIN locks : x \in DOMAIN L2 /\ L2[x] = L[x]
    BY <1>2, <1>3, <1>7, AddGrantedKeeps DEF EnqueueGrantable
  <2>2. Finish(L2, R, r, {}) /\ Queue(R, r) = <<>>
    BY <1>1, <1>7 DEF EnqueueGrantable
  <2> HIDE DEF L2, L
  <2>3. AllStuck(L2, R)
    BY <1>3, <1>5, <1>6, <2>1, <2>2, NewGrantStuck
  <2> QED
    BY <2>1, <2>2, <2>3, FinishStuck
<1>8. CASE ~EnqueueGrantable(R, r, m)
  <2> DEFINE R2 == [R EXCEPT ![r].waiting = Append(@, l)]
  <2>1. Finish(L, R2, r, {})
    BY <1>1, <1>8
  <2> HIDE DEF L
  <2>2. DB(L, R2)
    BY <1>2, <1>3, <1>4, <1>5, <1>6, NewRequestKeeps
  <2>3. R2 = [R EXCEPT ![r].waiting = Append(@, l)]
    OBVIOUS
  <2> HIDE DEF R2
  <2>4. AllStuck(L, R2)
    <3>1. /\ l \in Id /\ l \notin DOMAIN locks /\ L[l].requested = m
          /\ \A x \in DOMAIN locks :
               /\ x \in DOMAIN L
               /\ L[x].resource = locks[x].resource
               /\ L[x].state = locks[x].state
               /\ L[x].mode = locks[x].mode
               /\ L[x].requested = locks[x].requested
      BY <1>2, <1>4, <1>5, <1>6
    <3> QED
      BY <1>3, <1>8, <2>3, <3>1, NewRequestStuck
  <2> QED
    BY <2>1, <2>2, <2>4, FinishStuck
<1> QED
  BY <1>7, <1>8

-----------------------------------------------------------------------------
(* The theorem *)

LEMMA CallStuck ==
  ASSUME NEW o \in Owner, DB(locks, resources), AllStuck(locks, resources), Call(o)
  PROVE  AllStuck(locks', resources')
<1>1. CASE EnqueueAny(o)
  <2>1. PICK m \in RequestMode, n \in Name, a \in AccessMode, p \in DOMAIN locks \cup {NoLock},
             blk \in Notice, vb \in ValBlk : Enqueue(o, m, n, a, p, blk, vb)
    BY <1>1 DEF EnqueueAny
  <2>2. m \in Mode /\ blk \in BOOLEAN /\ vb \in BOOLEAN
    BY ConstantsOK
  <2> QED
    BY <2>1, <2>2, EnqueueStuck
<1>2. CASE ConvertAny(o)
  <2>1. PICK l \in DOMAIN locks, m \in RequestMode, blk \in Notice, vb \in ValBlk, v \in Value :
               Convert(o, l, m, blk, vb, v)
    BY <1>2 DEF ConvertAny
  <2>2. m \in Mode /\ blk \in BOOLEAN /\ vb \in BOOLEAN
    BY ConstantsOK
  <2> QED
    BY <2>1, <2>2, ConvertStuck
<1>3. CASE \E l \in DOMAIN locks : Cancel(o, l)
  <2>1. PICK l \in DOMAIN locks : Cancel(o, l)
    BY <1>3
  <2>2. locks[l].state = "Converting" /\ Unconvert(l, "Canceled")
    BY <2>1 DEF Cancel
  <2> QED
    BY <2>2, UnconvertStuck
<1>4. CASE DequeueAny(o)
  <2>1. PICK l \in DOMAIN locks, how \in {"keep", "store", "invalidate"}, v \in Value :
               Dequeue(o, l, how, v)
    BY <1>4 DEF DequeueAny
  <2> QED
    BY <2>1, DequeueStuck
<1>5. CASE \E a \in AccessMode : DequeueAll(o, a)
  <2>1. locks' = locks /\ resources' = resources
    BY <1>5 DEF DequeueAll
  <2> QED
    BY <2>1
<1>6. CASE \E p \in DOMAIN locks : DequeueSublocks(o, p)
  <2>1. locks' = locks /\ resources' = resources
    BY <1>6 DEF DequeueSublocks
  <2> QED
    BY <2>1
<1>7. CASE \E abnormal \in BOOLEAN : Release(o, abnormal)
  <2>1. /\ locks' = locks
        /\ DOMAIN resources' = DOMAIN resources
        /\ \A r \in DOMAIN resources :
             \/ resources'[r] = resources[r]
             \/ resources'[r] = [resources[r] EXCEPT !.invalid = TRUE]
    BY <1>7 DEF Release
  <2>2. AllStuck(locks, resources')
    BY <2>1, StoreStuck
  <2> QED
    BY <2>1, <2>2
<1> QED
  BY <1>1, <1>2, <1>3, <1>4, <1>5, <1>6, <1>7 DEF Call

LEMMA CheckDeadlocksStuck ==
  ASSUME DB(locks, resources), AllStuck(locks, resources), CheckDeadlocks
  PROVE  AllStuck(locks', resources')
<1>1. PICK t \in DOMAIN locks : Refuse(t)
  BY DEF CheckDeadlocks
<1>2. CASE locks[t].state = "Converting"
  <2>1. Unconvert(t, "Deadlock")
    BY <1>1, <1>2 DEF Refuse
  <2> QED
    BY <1>2, <2>1, UnconvertStuck
<1>3. CASE locks[t].state # "Converting"
  <2>1. RemoveLock(locks, resources, t, "Deadlock")
    BY <1>1, <1>3 DEF Refuse
  <2> QED
    BY <2>1, RemoveLockStuck
<1> QED
  BY <1>2, <1>3

LEMMA RemoveNextStuck ==
  ASSUME IInv, AllStuck(locks, resources), RemoveNext
  PROVE  AllStuck(locks', resources')
<1>1. PICK d \in doomed : RemoveLock(locks, resources, d.lock, "Aborted")
  BY DEF RemoveNext
<1>2. d.lock \in DOMAIN locks /\ DB(locks, resources)
  BY DEF IInv
<1> QED
  BY <1>1, <1>2, RemoveLockStuck

\* No grant is lost: whichever call came last, and between the passes of
\* removeWhere, the request at the head of a queue is one that cannot be
\* granted (regrant, at the end of every call that takes something away).
THEOREM NoGrantLost == Spec => []NoLostGrant
<1>1. Init => AllStuck(locks, resources)
  BY DEF Init, AllStuck
<1>2. ASSUME IInv, AllStuck(locks, resources), [Next]_vars
      PROVE  AllStuck(locks, resources)'
  <2>1. DB(locks, resources)
    BY <1>2 DEF IInv
  <2>2. AllStuck(locks', resources') <=> AllStuck(locks, resources)'
    BY DEF AllStuck, Stuck, Queue, GrantableAt, Holders, PrefixMode
  <2>3. CASE doomed = {} /\ \E o \in Owner : Call(o)
    BY <1>2, <2>1, <2>2, <2>3, CallStuck
  <2>4. CASE doomed = {} /\ CheckDeadlocks
    BY <1>2, <2>1, <2>2, <2>4, CheckDeadlocksStuck
  <2>5. CASE RemoveNext
    BY <1>2, <2>2, <2>5, RemoveNextStuck
  <2>6. CASE UNCHANGED vars
    BY <1>2, <2>2, <2>6 DEF vars
  <2> QED
    BY <1>2, <2>3, <2>4, <2>5, <2>6 DEF Next
<1>3. AllStuck(locks, resources) => NoLostGrant
  BY DEF AllStuck, Stuck, NoLostGrant
<1> QED
  BY <1>1, <1>2, <1>3, LockManagerInv, PTL DEF Spec

-----------------------------------------------------------------------------
(* How a step ends                                                         *)
(*                                                                         *)
(* A step changes one lock on one resource r, which makes L and R of the   *)
(* database, and then ends: regrant grants the set G of r's requests, and  *)
(* the holders in B are told that they block one.                          *)

\* a is queued before b on r.
Before(R, r, a, b) ==
  \E i, j \in 1 .. Len(Queue(R, r)) : i < j /\ Queue(R, r)[i] = a /\ Queue(R, r)[j] = b

\* h asked for a blocking AST, and its mode is in the way of the request q.
InTheWay(L, h, q) ==
  /\ L[h].blocking
  /\ L[h].state # "Waiting"
  /\ L[q].state # "Granted"
  /\ L[q].resource = L[h].resource
  /\ q # h
  /\ ~Compatible(L[q].requested, L[h].mode)

\* A lock that the end of a step does not grant, but for its notices.
KeptAs(new, old) ==
  /\ new.resource = old.resource
  /\ new.state = old.state
  /\ new.mode = old.mode
  /\ new.requested = old.requested
  /\ new.blocking = old.blocking

\* The step ends; evs are the events from before its end.
Ends(L, R, r, evs, G, B) ==
  /\ G \subseteq DOMAIN L /\ B \subseteq DOMAIN L
  /\ \A g \in G : L[g].resource = r /\ L[g].state # "Granted"
  /\ \A a, b : Before(R, r, a, b) /\ b \in G => a \in G
  /\ events' = evs \cup {Event("Granted", g) : g \in G} \cup {Event("Blocking", h) : h \in B}
  /\ DOMAIN locks' = DOMAIN L
  /\ \A x \in DOMAIN L \ G :
       /\ KeptAs(locks'[x], L[x])
       /\ locks'[x].notified <=> x \in B \/ L[x].notified
  /\ \A x \in G :
       /\ locks'[x].resource = r
       /\ locks'[x].state = "Granted"
       /\ locks'[x].mode = L[x].requested
       /\ locks'[x].requested = L[x].requested
       /\ locks'[x].notified <=> x \in B
  /\ \A h, q \in DOMAIN L :
       InTheWay(locks', h, q) /\ locks'[h].resource = r
         => h \in B \/ (h \notin G /\ L[h].notified)
  /\ DOMAIN resources' = DOMAIN R
  /\ \A x \in DOMAIN R :
       resources'[x].value = R[x].value /\ resources'[x].invalid = R[x].invalid

\* A queued lock is in its resource's queue.
LEMMA InQueue ==
  ASSUME NEW L, NEW R, DB(L, R), NEW l \in DOMAIN L, L[l].state # "Granted"
  PROVE  l \in ToSet(Queue(R, L[l].resource))
<1> DEFINE r == L[l].resource
           c == R[r].converting
           w == R[r].waiting
<1>1. r \in DOMAIN R /\ L[l].state \in State
  BY DEF DB, Located, LocksOK, LockRecord
<1>2. IsQueue(L, r, c, w, Queue(R, r)) /\ Queue(R, r) = c \o w
  BY <1>1, QueueOf DEF Queue
<1>3. l \in Members(L, r, "Converting") \/ l \in Members(L, r, "Waiting")
  BY <1>1 DEF Members, State
<1>4. l \in ToSet(c) \/ l \in ToSet(w)
  BY <1>2, <1>3 DEF IsQueue
<1>5. /\ c \in Seq(Id) /\ w \in Seq(Id) /\ Len(c) \in Nat /\ Len(w) \in Nat
      /\ Len(Queue(R, r)) = Len(c) + Len(w)
      /\ \A i \in 1 .. Len(c) : Queue(R, r)[i] = c[i]
      /\ \A i \in 1 .. Len(w) : Queue(R, r)[Len(c) + i] = w[i]
  BY <1>2 DEF IsQueue
<1> HIDE DEF c, w, r
<1> DEFINE q == Queue(R, r)
<1>6. q \in Seq(Id)
  BY <1>2, <1>5, ConcatProperties
<1>7. \A i \in 1 .. Len(q) : q[i] \in ToSet(q)
  BY <1>6, MembersOfSeq
<1>8. CASE l \in ToSet(c)
  <2>1. PICK i \in 1 .. Len(c) : c[i] = l
    BY <1>5, <1>8, MembersOfSeq
  <2> HIDE DEF q
  <2>2. i \in 1 .. Len(q) /\ q[i] = l
    BY <1>5, <2>1 DEF q
  <2> QED
    BY <1>7, <2>2 DEF q, r
<1>9. CASE l \in ToSet(w)
  <2>1. PICK i \in 1 .. Len(w) : w[i] = l
    BY <1>5, <1>9, MembersOfSeq
  <2> HIDE DEF q
  <2>2. Len(c) + i \in 1 .. Len(q) /\ q[Len(c) + i] = l
    BY <1>5, <2>1 DEF q
  <2> QED
    BY <1>7, <2>2 DEF q, r
<1> QED
  BY <1>4, <1>8, <1>9

\* A queued lock's resource has it at some place in its queue, and at one.
LEMMA PlaceInQueue ==
  ASSUME NEW L, NEW R, NEW r \in DOMAIN R, DB(L, R)
  PROVE  /\ Queue(R, r) \in Seq(Id) /\ Len(Queue(R, r)) \in Nat
         /\ \A i \in 1 .. Len(Queue(R, r)) :
              /\ Queue(R, r)[i] \in DOMAIN L
              /\ L[Queue(R, r)[i]].resource = r
              /\ L[Queue(R, r)[i]].state # "Granted"
         /\ \A i, j \in 1 .. Len(Queue(R, r)) : Queue(R, r)[i] = Queue(R, r)[j] => i = j
         /\ \A l \in DOMAIN L : L[l].resource = r /\ L[l].state # "Granted"
              => \E i \in 1 .. Len(Queue(R, r)) : Queue(R, r)[i] = l
<1>1. IsQueue(L, r, R[r].converting, R[r].waiting, Queue(R, r))
  BY QueueOf
<1>2. R[r].converting \in Seq(Id) /\ R[r].waiting \in Seq(Id)
  BY <1>1 DEF IsQueue
<1>3. Queue(R, r) \in Seq(Id)
  BY <1>2, ConcatProperties DEF Queue
<1>4. /\ Len(Queue(R, r)) \in Nat
      /\ \A i \in 1 .. Len(Queue(R, r)) :
              /\ Queue(R, r)[i] \in DOMAIN L
              /\ L[Queue(R, r)[i]].resource = r
              /\ L[Queue(R, r)[i]].state # "Granted"
      /\ \A i, j \in 1 .. Len(Queue(R, r)) : Queue(R, r)[i] = Queue(R, r)[j] => i = j
  BY <1>1 DEF IsQueue
<1>5. ASSUME NEW l \in DOMAIN L, L[l].resource = r, L[l].state # "Granted"
      PROVE  \E i \in 1 .. Len(Queue(R, r)) : Queue(R, r)[i] = l
  <2>1. l \in ToSet(Queue(R, r))
    BY <1>5, InQueue
  <2> QED
    BY <1>3, <2>1, MembersOfSeq
<1> QED
  BY <1>3, <1>4, <1>5

\* Queue order is what QueuedAhead compares.
LEMMA BeforeIsAhead ==
  ASSUME NEW L, NEW R, NEW r \in DOMAIN R, DB(L, R), NEW a, NEW b, Before(R, r, a, b)
  PROVE  /\ a \in DOMAIN L /\ L[a].resource = r /\ L[a].state # "Granted"
         /\ b \in DOMAIN L /\ L[b].resource = r /\ L[b].state # "Granted"
         /\ QueuedAhead(L, R, a, b)
<1> DEFINE q == Queue(R, r)
<1>1. /\ \A i \in 1 .. Len(q) : q[i] \in DOMAIN L /\ L[q[i]].resource = r /\ L[q[i]].state # "Granted"
      /\ \A i, j \in 1 .. Len(q) : q[i] = q[j] => i = j
  BY PlaceInQueue
<1>2. PICK i \in 1 .. Len(q), j \in 1 .. Len(q) : i < j /\ q[i] = a /\ q[j] = b
  BY DEF Before
<1>3. Position(R, r, a) = i /\ Position(R, r, b) = j
  BY <1>1, <1>2 DEF Position
<1> QED
  BY <1>1, <1>2, <1>3 DEF QueuedAhead

\* The blocking notices of a call that grants nothing.
LEMMA FinishEnds ==
  ASSUME NEW L, NEW R, NEW r, NEW evs, DB(L, R), Finish(L, R, r, evs)
  PROVE  Ends(L, R, r, evs, {}, ToNotify(L, R, r))
<1> DEFINE B == ToNotify(L, R, r)
           N == [l \in DOMAIN L |->
                   IF l \in B THEN [L[l] EXCEPT !.notified = TRUE] ELSE L[l]]
<1>1. locks' = N /\ resources' = R /\ events' = evs \cup {Event("Blocking", h) : h \in B}
  BY DEF Finish, BlockingNotices
<1>2. B \subseteq DOMAIN L
  BY DEF ToNotify, Holders
<1>3. ASSUME NEW h \in DOMAIN L, NEW q \in DOMAIN L, InTheWay(L, h, q), L[h].resource = r,
             h \notin B
      PROVE  L[h].notified
  <2>1. h \in Holders(L, r) /\ L[h].blocking
    BY <1>3 DEF Holders, InTheWay
  <2>2. q \in ToSet(Queue(R, r)) \ {h} /\ ~Compatible(L[q].requested, L[h].mode)
    BY <1>3, InQueue DEF InTheWay
  <2> QED
    BY <1>3, <2>1, <2>2 DEF ToNotify
<1> HIDE DEF B
<1>4. DOMAIN N = DOMAIN L
  OBVIOUS
<1>5. ASSUME NEW x \in DOMAIN L
      PROVE  KeptAs(N[x], L[x]) /\ (N[x].notified <=> x \in B \/ L[x].notified)
  <2>1. L[x] \in LockRecord
    BY DEF DB, LocksOK
  <2>2. CASE x \in B
    <3>1. N[x] = [L[x] EXCEPT !.notified = TRUE]
      BY <2>2
    <3> QED
      BY <2>1, <2>2, <3>1 DEF LockRecord, KeptAs
  <2>3. CASE x \notin B
    BY <2>1, <2>3 DEF KeptAs
  <2> QED
    BY <2>2, <2>3
<1> HIDE DEF N
<1>6. ASSUME NEW h \in DOMAIN L, NEW q \in DOMAIN L, InTheWay(N, h, q), N[h].resource = r
      PROVE  h \in B \/ L[h].notified
  <2>1. KeptAs(N[h], L[h]) /\ KeptAs(N[q], L[q])
    BY <1>5
  <2>2. InTheWay(L, h, q) /\ L[h].resource = r
    BY <1>6, <2>1 DEF InTheWay, KeptAs
  <2> QED
    BY <1>3, <2>2
<1>7. events' = evs \cup {Event("Granted", g) : g \in {}} \cup {Event("Blocking", h) : h \in B}
  BY <1>1
<1>8. \A h, q \in DOMAIN L :
        InTheWay(locks', h, q) /\ locks'[h].resource = r => h \in B \/ (h \notin {} /\ L[h].notified)
  BY <1>1, <1>6
<1>9. \A x \in DOMAIN L \ {} :
        /\ KeptAs(locks'[x], L[x])
        /\ locks'[x].notified <=> x \in B \/ L[x].notified
  BY <1>1, <1>5
<1>10. Ends(L, R, r, evs, {}, B)
  BY <1>1, <1>2, <1>4, <1>7, <1>8, <1>9 DEF Ends
<1> QED
  BY <1>10 DEF B

\* A lock regrant grants keeps what it asked for a blocking AST, and has not
\* been told of any lock it blocks at its new mode.
LEMMA GrantedAnew ==
  ASSUME NEW L, NEW R, NEW l, NEW up, L[l] \in LockRecord, NEW g, g = GrantedRecord(L, R, l, up)
  PROVE  g.notified = FALSE
  BY DEF GrantedRecord, LockRecord

\* What regrant does: it grants the first requests of the queue, the set G,
\* leaves every other lock as it was, and the value blocks too.
Grants(L, R, r, G, L2, R2, evs) ==
  /\ G \subseteq DOMAIN L
  /\ \A l \in G : L[l].resource = r /\ L[l].state # "Granted"
  /\ \A a, b : Before(R, r, a, b) /\ b \in G => a \in G
  /\ evs = {Event("Granted", l) : l \in G}
  /\ DOMAIN L2 = DOMAIN L
  /\ \A x \in DOMAIN L \ G : L2[x] = L[x]
  /\ \A x \in G : /\ L2[x].resource = r
                  /\ L2[x].state = "Granted"
                  /\ L2[x].mode = L[x].requested
                  /\ L2[x].requested = L[x].requested
                  /\ L2[x].notified = FALSE
  /\ DOMAIN R2 = DOMAIN R
  /\ \A x \in DOMAIN R : /\ R2[x].value = R[x].value
                         /\ R2[x].invalid = R[x].invalid

LEMMA RegrantGrants ==
  ASSUME NEW L, NEW R, NEW r \in DOMAIN R, DB(L, R)
  PROVE  Grants(L, R, r, FirstOf(Queue(R, r), GrantCount(L, Queue(R, r), r)),
                Regrant(L, R, r).locks, Regrant(L, R, r).resources, Regrant(L, R, r).events)
<1> DEFINE q == Queue(R, r)
           k == GrantCount(L, q, r)
           G == FirstOf(q, k)
           g == Regrant(L, R, r)
           L2 == g.locks
           R2 == g.resources
<1>1. IsRegrant(L, r, R[r].converting, R[r].waiting, q, k, G, L2)
  BY RegrantIs
<1>2. g.events = {Event("Granted", l) : l \in G}
  BY DEF Regrant, FirstOf
<1>3. ASSUME NEW x \in G
      PROVE  L2[x].notified = FALSE
  <2>1. x \in DOMAIN L
    BY <1>1 DEF IsRegrant
  <2>2. \E up : L2[x] = GrantedRecord(L, R, x, up)
    BY <2>1 DEF Regrant, FirstOf
  <2>3. L[x] \in LockRecord
    BY <2>1 DEF DB, LocksOK
  <2>4. PICK up : L2[x] = GrantedRecord(L, R, x, up)
    BY <2>2
  <2> QED
    BY <2>3, <2>4, GrantedAnew
<1>4. R2 = [R EXCEPT ![r].converting = LeftConverting(R, r, k), ![r].waiting = LeftWaiting(R, r, k)]
  BY DEF Regrant
<1> HIDE DEF G, k, L2, R2
<1>5. ASSUME NEW x \in DOMAIN R
      PROVE  R2[x].value = R[x].value /\ R2[x].invalid = R[x].invalid
  <2>1. R[x] \in ResourceRecord
    BY DEF DB, ResourcesOK
  <2>2. \/ R2[x] = R[x]
        \/ R2[x] = [R[x] EXCEPT !.converting = LeftConverting(R, r, k), !.waiting = LeftWaiting(R, r, k)]
    BY <1>4
  <2> QED
    BY <2>1, <2>2 DEF ResourceRecord
<1>6. DOMAIN R2 = DOMAIN R
  BY <1>4
<1>7. /\ \A l \in G : l \in DOMAIN L /\ L[l].resource = r /\ L[l].state # "Granted"
      /\ \A i \in 1 .. Len(q) : q[i] \in G <=> i <= k
      /\ DOMAIN L2 = DOMAIN L
      /\ \A l \in DOMAIN L :
           /\ L2[l].resource = L[l].resource
           /\ l \notin G => L2[l] = L[l]
           /\ l \in G => /\ L2[l].state = "Granted"
                        /\ L2[l].mode = L[l].requested
                        /\ L2[l].requested = L[l].requested
  BY <1>1 DEF IsRegrant
<1>8. Len(q) \in Nat /\ k \in 0 .. Len(q)
  BY <1>1 DEF IsRegrant, IsQueue
<1>9. ASSUME NEW a, NEW b, Before(R, r, a, b), b \in G
      PROVE  a \in G
  <2>1. PICK i \in 1 .. Len(q), j \in 1 .. Len(q) : i < j /\ q[i] = a /\ q[j] = b
    BY <1>9 DEF Before
  <2>2. j <= k
    BY <1>7, <1>9, <2>1
  <2>3. i <= k
    BY <1>8, <2>1, <2>2
  <2> QED
    BY <1>7, <2>1, <2>3
<1>10. \A x \in G : /\ L2[x].resource = r /\ L2[x].state = "Granted"
                   /\ L2[x].mode = L[x].requested
                   /\ L2[x].requested = L[x].requested
                   /\ L2[x].notified = FALSE
  BY <1>3, <1>7
<1>11. Grants(L, R, r, G, L2, R2, g.events)
  BY <1>2, <1>5, <1>6, <1>7, <1>9, <1>10 DEF Grants
<1> QED
  BY <1>11 DEF G, k, L2, R2

\* The grants and blocking notices of a call that takes something away.
LEMMA SettleEnds ==
  ASSUME NEW L, NEW R, NEW r \in DOMAIN R, NEW evs, DB(L, R), Settle(L, R, r, evs)
  PROVE  \E G, B : Ends(L, R, r, evs, G, B)
<1> DEFINE g == Regrant(L, R, r)
           L2 == g.locks
           R2 == g.resources
           E == g.events
           G == FirstOf(Queue(R, r), GrantCount(L, Queue(R, r), r))
           B == ToNotify(L2, R2, r)
<1>1. Grants(L, R, r, G, L2, R2, E)
  BY RegrantGrants
<1>2. DB(L2, R2)
  BY RegrantKeeps
<1>3. Finish(L2, R2, r, evs \cup E)
  BY DEF Settle
<1> HIDE DEF g, G
<1>4. Ends(L2, R2, r, evs \cup E, {}, B)
  BY <1>2, <1>3, FinishEnds
<1> HIDE DEF L2, R2, E, B
<1>5. /\ B \subseteq DOMAIN L
      /\ events' = evs \cup {Event("Granted", x) : x \in G} \cup {Event("Blocking", h) : h \in B}
      /\ DOMAIN locks' = DOMAIN L
  BY <1>1, <1>4 DEF Ends, Grants
<1>6. \A x \in DOMAIN L2 : KeptAs(locks'[x], L2[x]) /\ (locks'[x].notified <=> x \in B \/ L2[x].notified)
  BY <1>4 DEF Ends
<1>7. \A x \in DOMAIN L \ G : KeptAs(locks'[x], L[x]) /\ (locks'[x].notified <=> x \in B \/ L[x].notified)
  BY <1>1, <1>6 DEF Grants
<1>8. \A x \in G : /\ locks'[x].resource = r
                   /\ locks'[x].state = "Granted"
                   /\ locks'[x].mode = L[x].requested
                   /\ locks'[x].requested = L[x].requested
                   /\ locks'[x].notified <=> x \in B
  BY <1>1, <1>6 DEF KeptAs, Grants
<1>9. ASSUME NEW h \in DOMAIN L, NEW q \in DOMAIN L,
             InTheWay(locks', h, q), locks'[h].resource = r, h \notin B
      PROVE  h \notin G /\ L[h].notified
  <2>1. L2[h].notified
    BY <1>1, <1>4, <1>9 DEF Ends, Grants
  <2> QED
    BY <1>1, <1>9, <2>1 DEF Grants
<1>10. DOMAIN resources' = DOMAIN R
  BY <1>1, <1>4 DEF Ends, Grants
<1>11. \A x \in DOMAIN R : resources'[x].value = R[x].value /\ resources'[x].invalid = R[x].invalid
  BY <1>1, <1>4 DEF Ends, Grants
<1>12. Ends(L, R, r, evs, G, B)
  BY <1>1, <1>5, <1>7, <1>8, <1>9, <1>10, <1>11 DEF Ends, Grants
<1> QED
  BY <1>12

-----------------------------------------------------------------------------
(* The steps *)

\* A lock that a call is not about, before the call's end.
Untouched(new, old) == KeptAs(new, old) /\ (new.notified <=> old.notified)

\* What a call makes of its lock l before its end, and the events it returns.
NewLockAsked(l, L, R, r, evs, G) ==       \* $ENQ: granted, or queued
  /\ l \notin DOMAIN locks /\ l \in DOMAIN L
  /\ ~L[l].notified
  /\ L[l].state = "Granted" => Queue(R, r) = <<>>
  /\ evs = {} /\ G = {}

ConversionQueued(l, L, evs, G) ==
  /\ l \in DOMAIN locks /\ locks[l].state = "Granted"
  /\ l \in DOMAIN L /\ L[l].state = "Converting" /\ L[l].mode = locks[l].mode
  /\ L[l].notified <=> locks[l].notified
  /\ evs = {} /\ G = {}

ConversionGranted(l, L, evs) ==
  /\ l \in DOMAIN locks /\ locks[l].state = "Granted"
  /\ l \in DOMAIN L /\ L[l].state = "Granted" /\ ~L[l].notified
  /\ evs = {}

ConversionCalledOff(l, L, evs) ==
  /\ l \in DOMAIN locks /\ locks[l].state = "Converting"
  /\ l \in DOMAIN L /\ L[l].state = "Granted" /\ L[l].mode = locks[l].mode
  /\ L[l].notified <=> locks[l].notified
  /\ evs = {Event("Canceled", l)} \/ evs = {Event("Deadlock", l)}

LockRemoved(l, L, evs) ==
  /\ l \in DOMAIN locks /\ l \notin DOMAIN L
  /\ locks[l].state = "Granted" => evs = {}
  /\ locks[l].state # "Granted" => evs = {Event("Aborted", l)} \/ evs = {Event("Deadlock", l)}

OneChange(l, L, R, r, evs, G) ==
  \/ NewLockAsked(l, L, R, r, evs, G)
  \/ ConversionQueued(l, L, evs, G)
  \/ ConversionGranted(l, L, evs)
  \/ ConversionCalledOff(l, L, evs)
  \/ LockRemoved(l, L, evs)

\* The value blocks that change are written by l, a writer giving up its lock.
StoredBy(l, L, R, r) ==
  \A x \in DOMAIN R \cap DOMAIN resources :
    R[x].value # resources[x].value \/ R[x].invalid # resources[x].invalid
      => /\ x = r /\ l \in DOMAIN locks
         /\ locks[l].state # "Waiting" /\ Writes(locks[l].mode)
         /\ l \in DOMAIN L => L[l].state = "Granted" /\ L[l].mode < locks[l].mode

KeepsOrder(R, r) == \A a, b : Before(R, r, a, b) => Before(resources, r, a, b)

Step(l, L, R, r, evs, G, B) ==
  /\ DB(L, R)
  /\ Ends(L, R, r, evs, G, B)
  /\ l \in DOMAIN locks => locks[l].resource = r
  /\ l \in DOMAIN L => L[l].resource = r
  /\ \A x \in DOMAIN locks \ {l} : x \in DOMAIN L /\ Untouched(L[x], locks[x])
  /\ DOMAIN L \ {l} \subseteq DOMAIN locks
  /\ OneChange(l, L, R, r, evs, G)
  /\ G # {} => r \in DOMAIN resources /\ KeepsOrder(R, r)
  /\ StoredBy(l, L, R, r)

\* A call or a pass changes one lock, or only what the lock is not: the list
\* of locks to remove, or which value blocks are valid.
SomeStep == \E l, L, R, r, evs, G, B : Step(l, L, R, r, evs, G, B)

\* Only its count of sublocks tells such a lock from what it was.
LEMMA RecountedUntouched ==
  ASSUME NEW old \in LockRecord, NEW n, NEW new, new = old \/ new = [old EXCEPT !.sublocks = n]
  PROVE  Untouched(new, old)
  BY DEF LockRecord, Untouched, KeptAs

\* A queue with an entry taken out keeps the order of the others.
OneOut(q2, q, p) ==
  /\ p \in 1 .. Len(q) /\ Len(q2) = Len(q) - 1
  /\ \A j \in 1 .. Len(q) - 1 : q2[j] = IF j < p THEN q[j] ELSE q[j + 1]

LEMMA WithoutOneOut ==
  ASSUME NEW q \in Seq(Id), NEW l \in ToSet(q)
  PROVE  Without(q, l) \in Seq(Id) /\ \E p : OneOut(Without(q, l), q, p)
<1> DEFINE p == CHOOSE i \in 1 .. Len(q) : q[i] = l
<1>1. p \in 1 .. Len(q)
  BY MembersOfSeq
<1>2. Without(q, l) = RemoveAt(q, p)
  BY DEF Without
<1> HIDE DEF p
<1>3. RemoveAt(q, p) \in Seq(Id) /\ OneOut(RemoveAt(q, p), q, p)
  BY <1>1, RemoveAtEntries DEF OneOut
<1> QED
  BY <1>2, <1>3

LEMMA OneOutOfBoth ==
  ASSUME NEW c \in Seq(Id), NEW w \in Seq(Id), NEW c2 \in Seq(Id), NEW w2 \in Seq(Id), NEW p,
         \/ OneOut(c2, c, p) /\ w2 = w
         \/ OneOut(w2, w, p) /\ c2 = c
  PROVE  \E x : OneOut(c2 \o w2, c \o w, x)
<1> DEFINE q == c \o w
           q2 == c2 \o w2
<1>1. /\ Len(c) \in Nat /\ Len(w) \in Nat /\ Len(c2) \in Nat /\ Len(w2) \in Nat
      /\ Len(q) = Len(c) + Len(w) /\ Len(q2) = Len(c2) + Len(w2)
      /\ \A i \in 1 .. Len(c) + Len(w) : q[i] = IF i <= Len(c) THEN c[i] ELSE w[i - Len(c)]
      /\ \A i \in 1 .. Len(c2) + Len(w2) : q2[i] = IF i <= Len(c2) THEN c2[i] ELSE w2[i - Len(c2)]
  BY LenProperties, ConcatProperties
<1> HIDE DEF q, q2
<1>2. CASE OneOut(c2, c, p) /\ w2 = w
  <2>1. p \in 1 .. Len(c) /\ Len(c2) = Len(c) - 1 /\ Len(w2) = Len(w)
    BY <1>2 DEF OneOut
  <2>2. p \in 1 .. Len(q) /\ Len(q2) = Len(q) - 1
    BY <1>1, <2>1
  <2>3. ASSUME NEW j \in 1 .. Len(q) - 1
        PROVE  q2[j] = IF j < p THEN q[j] ELSE q[j + 1]
    <3>1. CASE j <= Len(c) - 1
      <4>1. q2[j] = c2[j] /\ j \in 1 .. Len(c) - 1
        BY <1>1, <2>1, <3>1
      <4>2. c2[j] = IF j < p THEN c[j] ELSE c[j + 1]
        BY <1>2, <4>1 DEF OneOut
      <4>3. q[j] = c[j] /\ q[j + 1] = c[j + 1]
        BY <1>1, <3>1, <4>1
      <4> QED
        BY <4>1, <4>2, <4>3, SMTT(60)
    <3>2. CASE ~(j <= Len(c) - 1)
      <4>1. q2[j] = w[j - Len(c2)] /\ q[j + 1] = w[(j + 1) - Len(c)] /\ j - Len(c2) = (j + 1) - Len(c)
        BY <1>1, <1>2, <2>1, <3>2
      <4>2. ~(j < p)
        BY <1>1, <2>1, <3>2
      <4> QED
        BY <4>1, <4>2
    <3> QED
      BY <3>1, <3>2
  <2> QED
    BY <2>2, <2>3 DEF OneOut, q, q2
<1>3. CASE OneOut(w2, w, p) /\ c2 = c
  <2>1. p \in 1 .. Len(w) /\ Len(w2) = Len(w) - 1 /\ Len(c2) = Len(c)
    BY <1>3 DEF OneOut
  <2> DEFINE x == Len(c) + p
  <2>2. x \in 1 .. Len(q) /\ Len(q2) = Len(q) - 1
    BY <1>1, <2>1
  <2>3. ASSUME NEW j \in 1 .. Len(q) - 1
        PROVE  q2[j] = IF j < x THEN q[j] ELSE q[j + 1]
    <3>1. CASE j <= Len(c)
      <4>1. q2[j] = c[j] /\ q[j] = c[j] /\ j < x
        BY <1>1, <1>3, <2>1, <3>1
      <4> QED
        BY <4>1
    <3>2. CASE ~(j <= Len(c))
      <4> j \in 1 .. Len(c2) + Len(w2) /\ ~(j <= Len(c2)) /\ Len(c2) = Len(c)
        BY <1>1, <2>1, <3>2
      <4>1. q2[j] = w2[j - Len(c)] /\ j - Len(c) \in 1 .. Len(w) - 1
        <5>1. q2[j] = w2[j - Len(c2)]
          BY <1>1
        <5> QED
          BY <1>1, <2>1, <3>2, <5>1
      <4>2. w2[j - Len(c)] = IF j - Len(c) < p THEN w[j - Len(c)] ELSE w[(j - Len(c)) + 1]
        BY <1>3, <4>1 DEF OneOut
      <4>3. q[j] = w[j - Len(c)] /\ q[j + 1] = w[(j + 1) - Len(c)] /\ (j + 1) - Len(c) = (j - Len(c)) + 1
        <5>1. /\ j \in 1 .. Len(c) + Len(w) /\ ~(j <= Len(c))
              /\ j + 1 \in 1 .. Len(c) + Len(w) /\ ~(j + 1 <= Len(c))
          BY <1>1, <2>1, <3>2
        <5>2. q[j] = w[j - Len(c)] /\ q[j + 1] = w[(j + 1) - Len(c)]
          BY <1>1, <5>1
        <5> QED
          BY <1>1, <5>2
      <4>4. j - Len(c) < p <=> j < x
        BY <1>1, <2>1
      <4> QED
        BY <4>1, <4>2, <4>3, <4>4
    <3> QED
      BY <3>1, <3>2
  <2> HIDE DEF x
  <2> QED
    BY <2>2, <2>3 DEF OneOut, q, q2
<1> QED
  BY <1>2, <1>3

\* A lock taken off its queue leaves the rest in order.
LEMMA UnqueueKeepsOrder ==
  ASSUME NEW L, NEW R, NEW l \in DOMAIN L, DB(L, R), NEW a, NEW b,
         Before(Unqueue(L, R, l), L[l].resource, a, b)
  PROVE  Before(R, L[l].resource, a, b)
<1> DEFINE r == L[l].resource
           c == R[r].converting
           w == R[r].waiting
           R2 == Unqueue(L, R, l)
           c2 == R2[r].converting
           w2 == R2[r].waiting
           q == Queue(R, r)
           q2 == Queue(R2, r)
<1>1. r \in DOMAIN R /\ L[l].state \in State /\ R[r] \in ResourceRecord
  BY DEF DB, Located, LocksOK, LockRecord, ResourcesOK
<1>2. c \in Seq(Id) /\ w \in Seq(Id) /\ q = c \o w /\ q2 = c2 \o w2
  BY <1>1 DEF ResourceRecord, Queue
<1>3. IsQueue(L, r, c, w, q)
  BY <1>1, QueueOf
<1>4. /\ L[l].state = "Granted" => c2 = c /\ w2 = w
      /\ L[l].state = "Converting" => c2 = Without(c, l) /\ w2 = w
      /\ L[l].state = "Waiting" => w2 = Without(w, l) /\ c2 = c
  BY <1>1 DEF Unqueue, ResourceRecord
<1>5. /\ L[l].state = "Converting" => l \in ToSet(c)
      /\ L[l].state = "Waiting" => l \in ToSet(w)
  BY <1>3 DEF IsQueue, Members
<1> HIDE DEF c, w, R2, c2, w2, r
<1>6. CASE L[l].state = "Granted"
  BY <1>2, <1>4, <1>6 DEF Before, R2, r
<1>7. CASE L[l].state # "Granted"
  <2>1. \E x : OneOut(q2, q, x)
    <3>1. CASE L[l].state = "Converting"
      <4>1. c2 \in Seq(Id) /\ w2 \in Seq(Id) /\ \E p : OneOut(c2, c, p) /\ w2 = w
        BY <1>2, <1>4, <1>5, <3>1, WithoutOneOut
      <4> QED
        BY <1>2, <4>1, OneOutOfBoth
    <3>2. CASE L[l].state = "Waiting"
      <4>1. c2 \in Seq(Id) /\ w2 \in Seq(Id) /\ \E p : OneOut(w2, w, p) /\ c2 = c
        BY <1>2, <1>4, <1>5, <3>2, WithoutOneOut
      <4> QED
        BY <1>2, <4>1, OneOutOfBoth
    <3> QED
      BY <1>1, <1>7, <3>1, <3>2 DEF State
  <2>2. PICK x : OneOut(q2, q, x)
    BY <2>1
  <2>3. Len(q) \in Nat
    BY <1>3 DEF IsQueue
  <2>4. PICK i \in 1 .. Len(q2), j \in 1 .. Len(q2) : i < j /\ q2[i] = a /\ q2[j] = b
    BY DEF Before, R2, r
  <2> HIDE DEF q, q2
  <2> DEFINE old(n) == IF n < x THEN n ELSE n + 1
  <2>5. x \in 1 .. Len(q) /\ Len(q2) = Len(q) - 1 /\ i \in 1 .. Len(q) - 1 /\ j \in 1 .. Len(q) - 1
    BY <2>2, <2>4 DEF OneOut
  <2>6. q[old(i)] = a /\ q[old(j)] = b
    BY <2>2, <2>4, <2>5 DEF OneOut
  <2>7. old(i) \in 1 .. Len(q) /\ old(j) \in 1 .. Len(q) /\ old(i) < old(j)
    BY <2>3, <2>4, <2>5
  <2> HIDE DEF old
  <2> QED
    BY <2>6, <2>7 DEF Before, q, r
<1> QED
  BY <1>6, <1>7

\* A conversion called off.
LEMMA UnconvertStep ==
  ASSUME NEW l \in DOMAIN locks, NEW kind \in {"Canceled", "Deadlock"}, DB(locks, resources),
         locks[l].state = "Converting", Unconvert(l, kind)
  PROVE  SomeStep
<1> DEFINE L == CalledOff(l)
           R == Unqueue(locks, resources, l)
           r == locks[l].resource
           evs == {Event(kind, l)}
<1>1. /\ DB(L, R) /\ DOMAIN L = DOMAIN locks /\ r \in DOMAIN R
      /\ \A x \in DOMAIN locks \ {l} : L[x] = locks[x]
  BY CalledOffKeeps
<1>2. Settle(L, R, r, evs)
  BY DEF Unconvert, CalledOff
<1>3. PICK G, B : Ends(L, R, r, evs, G, B)
  BY <1>1, <1>2, SettleEnds
<1>4. locks[l] \in LockRecord /\ r \in DOMAIN resources
  BY DEF DB, LocksOK, Located
<1>5. /\ L[l].state = "Granted" /\ L[l].mode = locks[l].mode /\ L[l].resource = r
      /\ L[l].notified <=> locks[l].notified
  <2>1. L[l] = [locks[l] EXCEPT !.state = "Granted", !.requested = locks[l].mode]
    BY DEF CalledOff
  <2> HIDE DEF L
  <2> QED
    BY <1>4, <2>1 DEF LockRecord
<1>6. StoredBy(l, L, R, r)
  <2>1. R = [resources EXCEPT ![r].converting = Without(@, l)]
    BY DEF Unqueue
  <2> HIDE DEF R
  <2>2. ASSUME NEW x \in DOMAIN resources
        PROVE  R[x].value = resources[x].value /\ R[x].invalid = resources[x].invalid
    <3>1. resources[x] \in ResourceRecord
      BY DEF DB, ResourcesOK
    <3> QED
      BY <2>1, <3>1 DEF ResourceRecord
  <2> QED
    BY <2>2 DEF StoredBy
<1> HIDE DEF L, R
<1>7. OneChange(l, L, R, r, evs, G)
  BY <1>1, <1>5 DEF OneChange, ConversionCalledOff
<1>8. \A x \in DOMAIN locks \ {l} : x \in DOMAIN L /\ Untouched(L[x], locks[x])
  BY <1>1 DEF Untouched, KeptAs
<1>9. KeepsOrder(R, r)
  BY UnqueueKeepsOrder DEF KeepsOrder, R
<1>10. Step(l, L, R, r, evs, G, B)
  BY <1>1, <1>3, <1>4, <1>5, <1>6, <1>7, <1>8, <1>9 DEF Step
<1> QED
  BY <1>10 DEF SomeStep

\* The resources left once unused ones are deleted are as they were.
LEMMA LeftAsTheyWere ==
  ASSUME NEW L, NEW R, NEW r, DB(L, R), NEW rest, rest = DeleteIfUnused(L, R, r),
         NEW x \in DOMAIN rest
  PROVE  /\ x \in DOMAIN R
         /\ rest[x].converting = R[x].converting /\ rest[x].waiting = R[x].waiting
         /\ rest[x].value = R[x].value /\ rest[x].invalid = R[x].invalid
<1>1. x \in DOMAIN R /\ (rest[x] = R[x] \/ rest[x] = [R[x] EXCEPT !.children = @ - 1])
  BY DEF DeleteIfUnused
<1>2. R[x] \in ResourceRecord
  BY <1>1 DEF DB, ResourcesOK
<1> QED
  BY <1>1, <1>2 DEF ResourceRecord

\* A call that ends without looking at anyone, its resource deleted.
LEMMA NobodyLeft ==
  ASSUME NEW L, NEW R, NEW r, NEW evs, DB(L, R), r \notin DOMAIN R,
         locks' = L, resources' = R, events' = evs
  PROVE  Ends(L, R, r, evs, {}, {})
<1>1. \A h \in DOMAIN L : L[h].resource # r
  BY DEF DB, Located
<1>2. events' = evs \cup {Event("Granted", g) : g \in {}} \cup {Event("Blocking", h) : h \in {}}
  OBVIOUS
<1>3. \A x \in DOMAIN L \ {} : KeptAs(locks'[x], L[x]) /\ (locks'[x].notified <=> x \in {} \/ L[x].notified)
  BY DEF KeptAs
<1>4. \A h, q \in DOMAIN L :
        InTheWay(locks', h, q) /\ locks'[h].resource = r => h \in {} \/ (h \notin {} /\ L[h].notified)
  BY <1>1
<1> QED
  BY <1>2, <1>3, <1>4 DEF Ends

\* A lock removed.  R is the resources once the lock's value block is stored.
LEMMA RemoveLockStep ==
  ASSUME NEW l \in DOMAIN locks, NEW kind \in {"Aborted", "Deadlock"}, NEW R, DB(locks, R),
         RemoveLock(locks, R, l, kind), locks[l].resource \in DOMAIN resources,
         \A x \in DOMAIN resources :
           /\ R[x].converting = resources[x].converting
           /\ R[x].waiting = resources[x].waiting
           /\ R[x].value # resources[x].value \/ R[x].invalid # resources[x].invalid
                => x = locks[l].resource /\ locks[l].state # "Waiting" /\ Writes(locks[l].mode)
  PROVE  SomeStep
<1> DEFINE r == locks[l].resource
           left == DropLock(locks, l)
           R2 == Unqueue(locks, R, l)
           rest == DeleteIfUnused(left, R2, r)
           evs == IF locks[l].state = "Granted" THEN {} ELSE {Event(kind, l)}
<1>1. DB(left, R2) /\ DB(left, rest) /\ DOMAIN left = DOMAIN locks \ {l}
  BY DropLockKeeps, DeleteIfUnusedKeeps
<1>2. IF r \in DOMAIN rest
      THEN Settle(left, rest, r, evs)
      ELSE locks' = left /\ resources' = rest /\ events' = evs
  BY DEF RemoveLock
<1>3. \E G, B : Ends(left, rest, r, evs, G, B) /\ (G # {} => r \in DOMAIN rest)
  <2> HIDE DEF left, rest, evs, r
  <2>1. CASE r \in DOMAIN rest
    BY <1>1, <1>2, <2>1, SettleEnds
  <2>2. CASE r \notin DOMAIN rest
    BY <1>1, <1>2, <2>2, NobodyLeft
  <2> QED
    BY <2>1, <2>2
<1>4. PICK G, B : Ends(left, rest, r, evs, G, B) /\ (G # {} => r \in DOMAIN rest)
  BY <1>3
<1>5. ASSUME NEW x \in DOMAIN left
      PROVE  Untouched(left[x], locks[x])
  <2>1. locks[x] \in LockRecord
    BY <1>1 DEF DB, LocksOK
  <2>2. left[x] = locks[x] \/ left[x] = [locks[x] EXCEPT !.sublocks = locks[x].sublocks - 1]
    BY <1>1 DEF DropLock
  <2> HIDE DEF left
  <2> QED
    BY <2>1, <2>2, RecountedUntouched
<1>6. ASSUME NEW x \in DOMAIN rest
      PROVE  /\ x \in DOMAIN R2
             /\ rest[x].converting = R2[x].converting /\ rest[x].waiting = R2[x].waiting
             /\ rest[x].value = R2[x].value /\ rest[x].invalid = R2[x].invalid
  <2> HIDE DEF left, R2
  <2> QED
    BY <1>1, LeftAsTheyWere
<1>7. ASSUME NEW x \in DOMAIN R
      PROVE  R2[x].value = R[x].value /\ R2[x].invalid = R[x].invalid
  <2>1. R[x] \in ResourceRecord /\ locks[l].state \in State
    BY DEF DB, ResourcesOK, LocksOK, LockRecord
  <2>2. \/ R2 = R
        \/ R2 = [R EXCEPT ![r].converting = Without(@, l)]
        \/ R2 = [R EXCEPT ![r].waiting = Without(@, l)]
    BY <2>1 DEF Unqueue, State
  <2> HIDE DEF R2, r
  <2> QED
    BY <2>1, <2>2 DEF ResourceRecord
<1>8. DOMAIN R2 = DOMAIN R
  BY UnqueueHolds
<1>9. StoredBy(l, left, rest, r)
  BY <1>1, <1>6, <1>7, <1>8 DEF StoredBy
<1>10. ASSUME r \in DOMAIN rest
       PROVE  KeepsOrder(rest, r)
  <2>1. Queue(rest, r) = Queue(R2, r) /\ Queue(R, r) = Queue(resources, r)
    BY <1>6, <1>10 DEF Queue
  <2>2. ASSUME NEW a, NEW b, Before(rest, r, a, b)
        PROVE  Before(resources, r, a, b)
    <3>1. Before(R2, r, a, b)
      BY <2>1, <2>2 DEF Before
    <3>2. Before(R, r, a, b)
      BY <3>1, UnqueueKeepsOrder
    <3> QED
      BY <2>1, <3>2 DEF Before
  <2> QED
    BY <2>2 DEF KeepsOrder
<1> HIDE DEF left, rest, R2
<1>11. OneChange(l, left, rest, r, evs, G)
  BY <1>1 DEF OneChange, LockRemoved
<1> HIDE DEF evs
<1>12. Step(l, left, rest, r, evs, G, B)
  BY <1>1, <1>4, <1>5, <1>9, <1>10, <1>11 DEF Step
<1> QED
  BY <1>12 DEF SomeStep

LEMMA DequeueStep ==
  ASSUME NEW o, NEW l, NEW how, NEW v \in Value, DB(locks, resources), Dequeue(o, l, how, v)
  PROVE  SomeStep
<1> DEFINE R == StoreBack(l, how, v)
           r == locks[l].resource
<1>1. l \in DOMAIN locks /\ RemoveLock(locks, R, l, "Aborted")
  BY DEF Dequeue
<1>2. r \in DOMAIN resources
  BY <1>1 DEF DB, Located
<1>3. \/ R = resources
      \/ /\ locks[l].state # "Waiting" /\ Writes(locks[l].mode)
         /\ \/ R = [resources EXCEPT ![r].value = v, ![r].invalid = FALSE]
            \/ R = [resources EXCEPT ![r].invalid = TRUE]
  BY DEF StoreBack
<1> HIDE DEF R
<1>4. DOMAIN R = DOMAIN resources
  BY <1>3
<1>5. ASSUME NEW x \in DOMAIN resources
      PROVE  \/ R[x] = resources[x]
             \/ \E u \in Value : R[x] = [resources[x] EXCEPT !.value = u, !.invalid = FALSE]
             \/ R[x] = [resources[x] EXCEPT !.invalid = TRUE]
  BY <1>3
<1>6. DB(locks, R)
  BY <1>4, <1>5, StoreKeeps
<1>7. ASSUME NEW x \in DOMAIN resources
      PROVE  /\ R[x].converting = resources[x].converting
             /\ R[x].waiting = resources[x].waiting
             /\ R[x].value # resources[x].value \/ R[x].invalid # resources[x].invalid
                  => x = r /\ locks[l].state # "Waiting" /\ Writes(locks[l].mode)
  <2>1. resources[x] \in ResourceRecord
    BY DEF DB, ResourcesOK
  <2>2. x # r => R[x] = resources[x]
    BY <1>3
  <2> HIDE DEF r
  <2> QED
    BY <1>3, <1>5, <2>1, <2>2 DEF ResourceRecord
<1> QED
  BY <1>1, <1>2, <1>6, <1>7, RemoveLockStep

\* The same lock removed by removeWhere, or refused.
LEMMA RemoveStep ==
  ASSUME NEW l \in DOMAIN locks, NEW kind \in {"Aborted", "Deadlock"}, DB(locks, resources),
         RemoveLock(locks, resources, l, kind)
  PROVE  SomeStep
<1>1. locks[l].resource \in DOMAIN resources
  BY DEF DB, Located
<1> QED
  BY <1>1, RemoveLockStep

\* A conversion granted at once.
LEMMA ConversionGrantedStep ==
  ASSUME NEW l \in DOMAIN locks, NEW m \in Mode, NEW blk \in BOOLEAN, NEW vb \in BOOLEAN,
         NEW v \in Value, DB(locks, resources), locks[l].state = "Granted", ConvertGrantable(l, m),
         Settle(Converted(l, m, blk, vb, v), StoreDown(l, m, vb, v), locks[l].resource, {})
  PROVE  SomeStep
<1> DEFINE r == locks[l].resource
           A == Asking(l, m, blk, vb)
           L == Converted(l, m, blk, vb, v)
           R == StoreDown(l, m, vb, v)
           up == m > locks[l].mode
<1>1. /\ DB(L, R) /\ r \in DOMAIN R
      /\ DOMAIN L = DOMAIN locks /\ \A x \in DOMAIN locks \ {l} : L[x] = locks[x]
  BY GrantConversionKeeps
<1>2. PICK G, B : Ends(L, R, r, {}, G, B)
  BY <1>1, SettleEnds
<1>3. /\ DOMAIN A = DOMAIN locks /\ A[l] \in LockRecord
      /\ A[l].resource = r /\ A[l].requested = m
  BY AskingIs
<1>4. \/ R = resources
      \/ /\ Writes(locks[l].mode) /\ m < locks[l].mode
         /\ R = [resources EXCEPT ![r].value = v, ![r].invalid = FALSE]
  BY DEF StoreDown
<1>5. r \in DOMAIN resources
  BY DEF DB, Located
<1>6. L[l] = GrantedRecord(A, R, l, up)
  <2> HIDE DEF A, R, up
  <2> QED
    BY <1>3 DEF Converted, A, R, up
<1> HIDE DEF A, L, R
<1>7. L[l].notified = FALSE
  BY <1>3, <1>6, GrantedAnew
<1>8. L[l].resource = r /\ L[l].state = "Granted" /\ L[l].mode = m
  <2>1. R[r] \in ResourceRecord /\ up \in BOOLEAN
    BY <1>1 DEF DB, ResourcesOK
  <2> HIDE DEF up, r
  <2> QED
    BY <1>3, <1>6, <2>1, GrantedRecordIs
<1>9. ASSUME NEW x \in DOMAIN resources
      PROVE  /\ R[x].converting = resources[x].converting
             /\ R[x].waiting = resources[x].waiting
             /\ R[x].value # resources[x].value \/ R[x].invalid # resources[x].invalid
                  => x = r /\ Writes(locks[l].mode) /\ m < locks[l].mode
  <2>1. resources[x] \in ResourceRecord
    BY DEF DB, ResourcesOK
  <2> HIDE DEF r
  <2> QED
    BY <1>4, <2>1 DEF ResourceRecord
<1>10. KeepsOrder(R, r)
  BY <1>5, <1>9 DEF KeepsOrder, Before, Queue
<1>11. StoredBy(l, L, R, r)
  BY <1>1, <1>8, <1>9 DEF StoredBy
<1>12. OneChange(l, L, R, r, {}, G)
  BY <1>1, <1>7, <1>8 DEF OneChange, ConversionGranted
<1>13. \A x \in DOMAIN locks \ {l} : x \in DOMAIN L /\ Untouched(L[x], locks[x])
  BY <1>1 DEF Untouched, KeptAs
<1>14. Step(l, L, R, r, {}, G, B)
  BY <1>1, <1>2, <1>5, <1>8, <1>10, <1>11, <1>12, <1>13 DEF Step
<1> QED
  BY <1>14 DEF SomeStep

\* A conversion queued.
LEMMA ConversionQueuedStep ==
  ASSUME NEW l \in DOMAIN locks, NEW m \in Mode, NEW blk \in BOOLEAN, NEW vb \in BOOLEAN,
         DB(locks, resources), locks[l].state = "Granted", ~ConvertGrantable(l, m),
         NEW r, r = locks[l].resource,
         Finish(AskedFor(l, m, blk, vb), [resources EXCEPT ![r].converting = Append(@, l)], r, {})
  PROVE  SomeStep
<1> DEFINE L == AskedFor(l, m, blk, vb)
           R == [resources EXCEPT ![r].converting = Append(@, l)]
           B == ToNotify(L, R, r)
<1>1. /\ DB(L, R)
      /\ DOMAIN L = DOMAIN locks /\ \A x \in DOMAIN locks \ {l} : L[x] = locks[x]
      /\ L[l].resource = r /\ L[l].state = "Converting" /\ L[l].mode = locks[l].mode
  BY AskedForKeeps
<1>2. L[l].notified <=> locks[l].notified
  <2>1. locks[l] \in LockRecord
    BY DEF DB, LocksOK
  <2>2. L[l] = [[locks[l] EXCEPT !.valblk = vb, !.blocking = blk, !.requested = m] EXCEPT !.state = "Converting"]
    BY DEF AskedFor, Asking
  <2> HIDE DEF L
  <2> QED
    BY <2>1, <2>2 DEF LockRecord
<1>3. ASSUME NEW x \in DOMAIN resources
      PROVE  R[x].value = resources[x].value /\ R[x].invalid = resources[x].invalid
  <2>1. resources[x] \in ResourceRecord
    BY DEF DB, ResourcesOK
  <2> QED
    BY <2>1 DEF ResourceRecord
<1> HIDE DEF L, R
<1>4. Ends(L, R, r, {}, {}, B)
  BY <1>1, FinishEnds DEF L, R
<1>5. StoredBy(l, L, R, r)
  BY <1>3 DEF StoredBy
<1>6. OneChange(l, L, R, r, {}, {})
  BY <1>1, <1>2 DEF OneChange, ConversionQueued
<1>7. \A x \in DOMAIN locks \ {l} : x \in DOMAIN L /\ Untouched(L[x], locks[x])
  BY <1>1 DEF Untouched, KeptAs
<1> HIDE DEF B
<1>8. Step(l, L, R, r, {}, {}, B)
  BY <1>1, <1>4, <1>5, <1>6, <1>7 DEF Step
<1> QED
  BY <1>8 DEF SomeStep

LEMMA ConvertStep ==
  ASSUME NEW o, NEW l, NEW m \in Mode, NEW blk \in BOOLEAN, NEW vb \in BOOLEAN, NEW v \in Value,
         DB(locks, resources), Convert(o, l, m, blk, vb, v)
  PROVE  SomeStep
<1>1. l \in DOMAIN locks /\ locks[l].state = "Granted"
  BY ConvertSteps
<1>2. CASE ConvertGrantable(l, m)
  <2>1. Settle(Converted(l, m, blk, vb, v), StoreDown(l, m, vb, v), locks[l].resource, {})
    BY <1>2, ConvertSteps
  <2> QED
    BY <1>1, <1>2, <2>1, ConversionGrantedStep
<1>3. CASE ~ConvertGrantable(l, m)
  <2> DEFINE r == locks[l].resource
  <2>1. Finish(AskedFor(l, m, blk, vb), [resources EXCEPT ![r].converting = Append(@, l)], r, {})
    BY <1>3, ConvertSteps
  <2> HIDE DEF r
  <2>2. r = locks[l].resource
    BY DEF r
  <2> QED
    BY <1>1, <1>3, <2>1, <2>2, ConversionQueuedStep
<1> QED
  BY <1>2, <1>3

\* $ENQ of a new lock.
LEMMA EnqueueStep ==
  ASSUME NEW o \in Owner, NEW m \in Mode, NEW n \in Name, NEW a \in AccessMode,
         NEW p \in DOMAIN locks \cup {NoLock}, NEW blk \in BOOLEAN, NEW vb \in BOOLEAN,
         DB(locks, resources), Enqueue(o, m, n, a, p, blk, vb)
  PROVE  SomeStep
<1> DEFINE r == RequestResource(p, a, n)
           R == WithResource(resources, r)
           rec == RequestLock(o, m, n, a, p, blk, vb)
<1>1. PICK l \in Id \ DOMAIN locks :
        /\ lastID' = l
        /\ EnqueueGrantable(R, r, m) => Finish(AddGranted(R, l, rec), R, r, {})
        /\ ~EnqueueGrantable(R, r, m)
             => Finish(AddLock(locks, l, rec), [R EXCEPT ![r].waiting = Append(@, l)], r, {})
  BY EnqueueSteps
<1>2. /\ rec \in LockRecord /\ rec.resource = r /\ r \in Resource
      /\ rec.state = "Waiting" /\ rec.requested = m
  BY RequestLockIs DEF DB
<1>3. ~rec.notified
  BY DEF RequestLock, NewLock
<1>4. DB(locks, R) /\ r \in DOMAIN R
  BY <1>2, WithResourceKeeps
<1>5. ASSUME NEW x \in DOMAIN resources
      PROVE  R[x].value = resources[x].value /\ R[x].invalid = resources[x].invalid
  <2>1. resources[x] \in ResourceRecord
    BY DEF DB, ResourcesOK
  <2>2. R[x] = resources[x] \/ R[x] = [resources[x] EXCEPT !.children = @ + 1]
    BY DEF WithResource
  <2> HIDE DEF R
  <2> QED
    BY <2>1, <2>2 DEF ResourceRecord
<1> HIDE DEF rec, r, R
<1> DEFINE L == AddLock(locks, l, rec)
<1>6. /\ DOMAIN L = DOMAIN locks \cup {l} /\ L[l] = rec
      /\ \A x \in DOMAIN locks :
           /\ L[x] \in LockRecord
           /\ L[x].resource = locks[x].resource
           /\ L[x].state = locks[x].state
           /\ L[x].mode = locks[x].mode
           /\ L[x].requested = locks[x].requested
  <2>1. LocksOK(locks) /\ l \in Id /\ l \notin DOMAIN locks
    BY DEF DB
  <2> QED
    BY <1>2, <2>1, AddedIs
<1>7. ASSUME NEW x \in DOMAIN locks
      PROVE  Untouched(L[x], locks[x])
  <2>1. L[x] = locks[x] \/ L[x] = [locks[x] EXCEPT !.sublocks = locks[x].sublocks + 1]
    BY DEF AddLock
  <2>2. locks[x] \in LockRecord
    BY DEF DB, LocksOK
  <2> HIDE DEF L
  <2> QED
    BY <2>1, <2>2, RecountedUntouched
<1>8. CASE EnqueueGrantable(R, r, m)
  <2> DEFINE L2 == AddGranted(R, l, rec)
             B == ToNotify(L2, R, r)
             up == TRUE
  <2>1. DB(L2, R) /\ \A x \in DOMAIN locks : x \in DOMAIN L2 /\ L2[x] = L[x]
    BY <1>2, <1>4, <1>8, AddGrantedKeeps DEF EnqueueGrantable
  <2>2. Finish(L2, R, r, {}) /\ Queue(R, r) = <<>>
    BY <1>1, <1>8 DEF EnqueueGrantable
  <2>3. DOMAIN L2 = DOMAIN locks \cup {l} /\ L2[l] = GrantedRecord(L, R, l, up)
    <3> HIDE DEF L
    <3> QED
      BY <1>6 DEF AddGranted, L
  <2> HIDE DEF L2, up, L
  <2>4. L2[l].notified = FALSE /\ L2[l].resource = r /\ L2[l].state = "Granted"
    <3>1. R[r] \in ResourceRecord /\ up \in BOOLEAN
      BY <1>4 DEF DB, ResourcesOK, up
    <3>2. L2[l].resource = r /\ L2[l].state = "Granted"
      BY <1>2, <1>6, <2>3, <3>1, GrantedRecordIs
    <3>3. L2[l].notified = FALSE
      <4>1. L[l] \in LockRecord /\ L2[l] = GrantedRecord(L, R, l, up)
        BY <1>2, <1>6, <2>3
      <4> QED
        BY <4>1, GrantedAnew
    <3> QED
      BY <3>2, <3>3
  <2>5. Ends(L2, R, r, {}, {}, B)
    BY <2>1, <2>2, FinishEnds
  <2>6. StoredBy(l, L2, R, r)
    BY <1>5 DEF StoredBy
  <2>7. OneChange(l, L2, R, r, {}, {})
    BY <1>1, <2>2, <2>3, <2>4 DEF OneChange, NewLockAsked
  <2>8. \A x \in DOMAIN locks \ {l} : x \in DOMAIN L2 /\ Untouched(L2[x], locks[x])
    BY <1>7, <2>1
  <2> HIDE DEF B
  <2>9. Step(l, L2, R, r, {}, {}, B)
    BY <1>1, <2>1, <2>3, <2>4, <2>5, <2>6, <2>7, <2>8 DEF Step
  <2> QED
    BY <2>9 DEF SomeStep
<1>9. CASE ~EnqueueGrantable(R, r, m)
  <2> DEFINE R2 == [R EXCEPT ![r].waiting = Append(@, l)]
             B == ToNotify(L, R2, r)
  <2>1. Finish(L, R2, r, {})
    BY <1>1, <1>9
  <2>2. ASSUME NEW x \in DOMAIN R
        PROVE  R2[x].value = R[x].value /\ R2[x].invalid = R[x].invalid
    <3>1. R[x] \in ResourceRecord
      BY <1>4 DEF DB, ResourcesOK
    <3> QED
      BY <3>1 DEF ResourceRecord
  <2>3. DOMAIN R2 = DOMAIN R
    OBVIOUS
  <2> HIDE DEF L
  <2>4. DB(L, R2)
    BY <1>2, <1>4, <1>6, NewRequestKeeps
  <2> HIDE DEF R2
  <2>5. Ends(L, R2, r, {}, {}, B)
    BY <2>1, <2>4, FinishEnds
  <2>6. StoredBy(l, L, R2, r)
    BY <1>5, <2>2, <2>3 DEF StoredBy
  <2>7. OneChange(l, L, R2, r, {}, {})
    BY <1>1, <1>2, <1>3, <1>6 DEF OneChange, NewLockAsked
  <2> HIDE DEF B
  <2>8. Step(l, L, R2, r, {}, {}, B)
    BY <1>1, <1>2, <1>6, <1>7, <2>4, <2>5, <2>6, <2>7 DEF Step
  <2> QED
    BY <2>8 DEF SomeStep
<1> QED
  BY <1>8, <1>9

\* A call that changes no lock: DequeueAll, DequeueSublocks and Release only
\* list what removeWhere is to remove, and Release marks value blocks invalid.
NoStep ==
  /\ locks' = locks /\ events' = {} /\ DOMAIN resources' = DOMAIN resources
  /\ \A x \in DOMAIN resources :
       /\ resources'[x].value = resources[x].value
       /\ resources'[x].invalid # resources[x].invalid
            => \E l \in Holders(locks, x) : Writes(locks[l].mode)

LEMMA ReleaseStep ==
  ASSUME NEW o, NEW abnormal, DB(locks, resources), Release(o, abnormal)
  PROVE  NoStep
<1>1. /\ locks' = locks /\ events' = {} /\ DOMAIN resources' = DOMAIN resources
      /\ \A x \in DOMAIN resources :
           \/ resources'[x] = resources[x]
           \/ /\ resources'[x] = [resources[x] EXCEPT !.invalid = TRUE]
              /\ \E l \in DOMAIN locks : /\ locks[l].state # "Waiting" /\ Writes(locks[l].mode)
                                         /\ x = locks[l].resource
  BY DEF Release
<1>2. ASSUME NEW x \in DOMAIN resources
      PROVE  /\ resources'[x].value = resources[x].value
             /\ resources'[x].invalid # resources[x].invalid
                  => \E l \in Holders(locks, x) : Writes(locks[l].mode)
  <2>1. resources[x] \in ResourceRecord
    BY DEF DB, ResourcesOK
  <2> QED
    BY <1>1, <2>1 DEF ResourceRecord, Holders
<1> QED
  BY <1>1, <1>2 DEF NoStep

LEMMA CallStep ==
  ASSUME NEW o \in Owner, DB(locks, resources), Call(o)
  PROVE  SomeStep \/ NoStep
<1>1. CASE EnqueueAny(o)
  <2>1. PICK m \in RequestMode, n \in Name, a \in AccessMode, p \in DOMAIN locks \cup {NoLock},
             blk \in Notice, vb \in ValBlk : Enqueue(o, m, n, a, p, blk, vb)
    BY <1>1 DEF EnqueueAny
  <2>2. m \in Mode /\ blk \in BOOLEAN /\ vb \in BOOLEAN
    BY ConstantsOK
  <2> QED
    BY <2>1, <2>2, EnqueueStep
<1>2. CASE ConvertAny(o)
  <2>1. PICK l \in DOMAIN locks, m \in RequestMode, blk \in Notice, vb \in ValBlk, v \in Value :
               Convert(o, l, m, blk, vb, v)
    BY <1>2 DEF ConvertAny
  <2>2. m \in Mode /\ blk \in BOOLEAN /\ vb \in BOOLEAN
    BY ConstantsOK
  <2> QED
    BY <2>1, <2>2, ConvertStep
<1>3. CASE \E l \in DOMAIN locks : Cancel(o, l)
  <2>1. PICK l \in DOMAIN locks : Cancel(o, l)
    BY <1>3
  <2>2. locks[l].state = "Converting" /\ Unconvert(l, "Canceled")
    BY <2>1 DEF Cancel
  <2> QED
    BY <2>2, UnconvertStep
<1>4. CASE DequeueAny(o)
  <2>1. PICK l \in DOMAIN locks, how \in {"keep", "store", "invalidate"}, v \in Value :
               Dequeue(o, l, how, v)
    BY <1>4 DEF DequeueAny
  <2> QED
    BY <2>1, DequeueStep
<1>5. CASE \E a \in AccessMode : DequeueAll(o, a)
  BY <1>5 DEF DequeueAll, NoStep
<1>6. CASE \E p \in DOMAIN locks : DequeueSublocks(o, p)
  BY <1>6 DEF DequeueSublocks, NoStep
<1>7. CASE \E abnormal \in BOOLEAN : Release(o, abnormal)
  BY <1>7, ReleaseStep
<1> QED
  BY <1>1, <1>2, <1>3, <1>4, <1>5, <1>6, <1>7 DEF Call

LEMMA NextSteps ==
  ASSUME IInv, Next
  PROVE  SomeStep \/ NoStep
<1>1. DB(locks, resources)
  BY DEF IInv
<1>2. CASE \E o \in Owner : Call(o)
  BY <1>1, <1>2, CallStep
<1>3. CASE CheckDeadlocks
  <2>1. PICK t \in DOMAIN locks : Refuse(t)
    BY <1>3 DEF CheckDeadlocks
  <2>2. CASE locks[t].state = "Converting"
    <3>1. Unconvert(t, "Deadlock")
      BY <2>1, <2>2 DEF Refuse
    <3> QED
      BY <1>1, <2>2, <3>1, UnconvertStep
  <2>3. CASE locks[t].state # "Converting"
    <3>1. RemoveLock(locks, resources, t, "Deadlock")
      BY <2>1, <2>3 DEF Refuse
    <3> QED
      BY <1>1, <3>1, RemoveStep
  <2> QED
    BY <2>2, <2>3
<1>4. CASE RemoveNext
  <2>1. PICK d \in doomed : RemoveLock(locks, resources, d.lock, "Aborted")
    BY <1>4 DEF RemoveNext
  <2>2. d.lock \in DOMAIN locks
    BY DEF IInv
  <2> QED
    BY <1>1, <2>1, <2>2, RemoveStep
<1> QED
  BY <1>2, <1>3, <1>4 DEF Next

-----------------------------------------------------------------------------
(* What a step means *)

LEMMA EventsDiffer ==
  ASSUME NEW k, NEW l, NEW k2, NEW l2, Event(k, l) = Event(k2, l2)
  PROVE  k = k2 /\ l = l2
  BY DEF Event

\* A step's lock is not one that its end grants: those were queued before,
\* as they are when they are granted.
LEMMA GrantedWereQueued ==
  ASSUME NEW l, NEW L, NEW R, NEW r, NEW evs, NEW G, NEW B, Step(l, L, R, r, evs, G, B),
         NEW g \in G
  PROVE  g # l /\ g \in DOMAIN locks /\ g \in DOMAIN L /\ Untouched(L[g], locks[g]) /\ locks[g].state # "Granted"
<1>1. g \in DOMAIN L /\ L[g].state # "Granted"
  BY DEF Step, Ends
<1>2. g # l
  BY <1>1 DEF Step, OneChange, NewLockAsked, ConversionQueued, ConversionGranted, ConversionCalledOff, LockRemoved
<1>3. g \in DOMAIN locks /\ Untouched(L[g], locks[g])
  BY <1>1, <1>2 DEF Step
<1> QED
  BY <1>1, <1>2, <1>3 DEF Untouched, KeptAs

\* The events of a step.
LEMMA StepEvents ==
  ASSUME NEW l, NEW L, NEW R, NEW r, NEW evs, NEW G, NEW B, Step(l, L, R, r, evs, G, B)
  PROVE  /\ \A g \in G : Event("Granted", g) \in events'
         /\ \A e \in evs : e \in events'
         /\ \A h \in B : Event("Blocking", h) \in events'
         /\ \A e \in events' :
              \/ e.kind = "Granted" /\ e.lock \in G /\ e = Event("Granted", e.lock)
              \/ e.kind = "Blocking"
              \/ e \in evs /\ e.lock = l /\ e.kind \in {"Canceled", "Aborted", "Deadlock"}
                   /\ e.kind # "Granted" /\ e.kind # "Blocking"
<1>1. events' = evs \cup {Event("Granted", g) : g \in G} \cup {Event("Blocking", h) : h \in B}
  BY DEF Step, Ends
<1>2. \A e \in evs : e = Event("Canceled", l) \/ e = Event("Aborted", l) \/ e = Event("Deadlock", l)
  BY DEF Step, OneChange, NewLockAsked, ConversionQueued, ConversionGranted, ConversionCalledOff, LockRemoved
<1>3. \A k, x : Event(k, x).kind = k /\ Event(k, x).lock = x
  BY DEF Event
<1> QED
  BY <1>1, <1>2, <1>3

-----------------------------------------------------------------------------
(* Queues are first come, first served *)

LEMMA StepInOrder ==
  ASSUME IInv, SomeStep,
         NEW l \in Queued(locks) \cap Queued(locks'), NEW g \in DOMAIN locks',
         locks'[g].resource = locks[l].resource,
         Event("Granted", g) \in events' \/ (g \notin DOMAIN locks /\ locks'[g].state = "Granted")
  PROVE  g \in Queued(locks) /\ QueuedAhead(locks, resources, g, l)
<1>1. PICK s, L, R, r, evs, G, B : Step(s, L, R, r, evs, G, B)
  BY DEF SomeStep
<1>2. DB(locks, resources) /\ DB(L, R)
  BY <1>1 DEF IInv, Step
<1>3. /\ l \in DOMAIN locks /\ locks[l].state # "Granted"
      /\ l \in DOMAIN L /\ locks'[l].state # "Granted"
      /\ g \in DOMAIN L
  BY <1>1 DEF Queued, Step, Ends
<1>4. l \notin G
  BY <1>1, <1>3 DEF Step, Ends
<1>5. L[l].state # "Granted" /\ KeptAs(locks'[l], L[l])
  BY <1>1, <1>3, <1>4 DEF Step, Ends, KeptAs
<1>6. l # s
  BY <1>1, <1>3, <1>5 DEF Step, OneChange, NewLockAsked, ConversionQueued, ConversionGranted, ConversionCalledOff, LockRemoved
<1>7. KeptAs(L[l], locks[l])
  BY <1>1, <1>3, <1>6 DEF Step, Untouched
<1>8. CASE g \in G
  <2>1. g \in DOMAIN locks /\ KeptAs(L[g], locks[g]) /\ locks[g].state # "Granted"
    BY <1>1, <1>8, GrantedWereQueued DEF Untouched
  <2>2. L[g].resource = r /\ L[g].state # "Granted" /\ L[l].resource = r /\ locks[l].resource = r
    BY <1>1, <1>7, <1>8 DEF Step, Ends, KeptAs
  <2>3. r \in DOMAIN R /\ r \in DOMAIN resources
    BY <1>2, <1>3, <2>2 DEF DB, Located
  <2> DEFINE q == Queue(R, r)
  <2>4. PICK i \in 1 .. Len(q), j \in 1 .. Len(q) : q[i] = g /\ q[j] = l
    <3>1. \E i \in 1 .. Len(q) : q[i] = g
      BY <1>2, <1>3, <2>2, <2>3, PlaceInQueue
    <3>2. \E j \in 1 .. Len(q) : q[j] = l
      BY <1>2, <1>3, <1>5, <2>2, <2>3, PlaceInQueue
    <3> QED
      BY <3>1, <3>2
  <2>5. Len(q) \in Nat
    BY <1>2, <2>3, PlaceInQueue
  <2>6. i # j
    BY <1>4, <1>8, <2>4
  <2>7. CASE j < i
    <3>1. Before(R, r, l, g)
      BY <2>4, <2>7 DEF Before
    <3>2. l \in G
      BY <1>1, <1>8, <3>1 DEF Step, Ends
    <3> QED
      BY <1>4, <3>2
  <2>8. CASE i < j
    <3>1. Before(R, r, g, l)
      BY <2>4, <2>8 DEF Before
    <3>2. KeepsOrder(R, r)
      BY <1>1, <1>8 DEF Step
    <3>3. Before(resources, r, g, l)
      BY <3>1, <3>2 DEF KeepsOrder
    <3> QED
      BY <1>2, <2>1, <2>3, <3>3, BeforeIsAhead DEF Queued
  <2> QED
    BY <2>5, <2>6, <2>7, <2>8
<1>9. CASE g \notin G
  <2>1. Event("Granted", g) \notin events'
    <3>1. Event("Granted", g).kind = "Granted" /\ Event("Granted", g).lock = g
      BY DEF Event
    <3> QED
      BY <1>1, <1>9, <3>1, StepEvents
  <2>2. g = s /\ g \notin DOMAIN locks
    BY <1>1, <1>3, <2>1 DEF Step
  <2>3. L[g].state = "Granted" /\ L[g].resource = r /\ locks'[g].resource = r
    BY <1>1, <1>3, <1>9, <2>1, <2>2 DEF Step, Ends, KeptAs
  <2>4. Queue(R, r) = <<>>
    BY <1>1, <2>2, <2>3 DEF Step, OneChange, NewLockAsked, ConversionQueued, ConversionGranted, ConversionCalledOff, LockRemoved
  <2>5. L[l].resource = r
    BY <1>7, <2>3 DEF KeptAs
  <2>6. r \in DOMAIN R
    BY <1>2, <1>3, <2>5 DEF DB, Located
  <2>7. PICK i \in 1 .. Len(Queue(R, r)) : Queue(R, r)[i] = l
    BY <1>2, <1>3, <1>5, <2>5, <2>6, PlaceInQueue
  <2>8. Len(<<>>) = 0 /\ 1 .. 0 = {}
    OBVIOUS
  <2> QED
    BY <2>4, <2>7, <2>8
<1> QED
  BY <1>8, <1>9

\* Queues are first come, first served, whoever asks for what: no request is
\* granted past one that stays queued.
NothingPassed ==
  \A l \in Queued(locks) \cap Queued(locks'), g \in DOMAIN locks' :
    /\ locks'[g].resource = locks[l].resource
    /\ Event("Granted", g) \in events' \/ (g \notin DOMAIN locks /\ locks'[g].state = "Granted")
    => g \in Queued(locks) /\ QueuedAhead(locks, resources, g, l)

THEOREM NobodyOvertakes == Spec => NoOvertaking
<1>1. IInv /\ [Next]_vars => [NothingPassed]_vars
  <2> SUFFICES ASSUME IInv, Next PROVE NothingPassed
    OBVIOUS
  <2>1. CASE SomeStep
    BY <2>1, StepInOrder DEF NothingPassed
  <2>2. CASE NoStep
    BY <2>2 DEF NothingPassed, NoStep
  <2> QED
    BY <2>1, <2>2, NextSteps
<1> QED
  BY <1>1, LockManagerInv, PTL DEF Spec, NoOvertaking, NothingPassed

-----------------------------------------------------------------------------
(* Every queued request completes once *)

LEMMA ModeNotAsked ==
  ASSUME NEW L, NEW R, DB(L, R), NEW l \in DOMAIN L, L[l].state = "Converting"
  PROVE  L[l].mode # L[l].requested
<1>1. ~NoMoreRestrictive(L[l].requested, L[l].mode)
  BY DEF DB, ModesSettled
<1> QED
  BY <1>1 DEF NoMoreRestrictive

\* Who stops being queued in a step: those its end grants, and its lock if
\* its request is called off or removed.
LEMMA StepOver ==
  ASSUME NEW l, NEW L, NEW R, NEW r, NEW evs, NEW G, NEW B, Step(l, L, R, r, evs, G, B)
  PROVE  \A x : x \in Queued(locks) \ Queued(locks')
                  <=> \/ x \in G
                      \/ x = l /\ (\/ ConversionCalledOff(l, L, evs)
                                   \/ LockRemoved(l, L, evs) /\ locks[l].state # "Granted")
<1>1. /\ DOMAIN locks' = DOMAIN L
      /\ \A x \in DOMAIN L \ G : locks'[x].state = L[x].state
      /\ \A x \in G : x \in DOMAIN L /\ locks'[x].state = "Granted"
  BY DEF Step, Ends, KeptAs
<1>2. \A x \in G : x # l /\ x \in DOMAIN locks /\ locks[x].state # "Granted"
  BY GrantedWereQueued
<1>3. \A x \in DOMAIN locks \ {l} : x \in DOMAIN L /\ L[x].state = locks[x].state
  BY DEF Step, Untouched, KeptAs
<1>4. ASSUME NEW x, x # l
      PROVE  x \in Queued(locks) \ Queued(locks') <=> x \in G
  BY <1>1, <1>2, <1>3, <1>4 DEF Queued
<1>5. l \notin G
  BY <1>2
<1>6. l \in Queued(locks) \ Queued(locks')
        <=> \/ ConversionCalledOff(l, L, evs)
            \/ LockRemoved(l, L, evs) /\ locks[l].state # "Granted"
  <2>1. OneChange(l, L, R, r, evs, G)
    BY DEF Step
  <2>2. CASE NewLockAsked(l, L, R, r, evs, G)
    BY <2>2 DEF NewLockAsked, ConversionCalledOff, LockRemoved, Queued
  <2>3. CASE ConversionQueued(l, L, evs, G)
    BY <2>3 DEF ConversionQueued, ConversionCalledOff, LockRemoved, Queued
  <2>4. CASE ConversionGranted(l, L, evs)
    BY <2>4 DEF ConversionGranted, ConversionCalledOff, LockRemoved, Queued
  <2>5. CASE ConversionCalledOff(l, L, evs)
    BY <1>1, <1>5, <2>5 DEF ConversionCalledOff, Queued
  <2>6. CASE LockRemoved(l, L, evs)
    BY <1>1, <2>6 DEF LockRemoved, ConversionCalledOff, Queued
  <2> QED
    BY <2>1, <2>2, <2>3, <2>4, <2>5, <2>6 DEF OneChange
<1> QED
  BY <1>4, <1>5, <1>6

LEMMA StepCompletes ==
  ASSUME IInv, SomeStep
  PROVE  CompletesOnce
<1>1. PICK s, L, R, r, evs, G, B : Step(s, L, R, r, evs, G, B)
  BY DEF SomeStep
<1> DEFINE told(l) == {e \in events' : e.lock = l /\ e.kind # "Blocking"}
           over == Queued(locks) \ Queued(locks')
           off == ConversionCalledOff(s, L, evs)
           gone == LockRemoved(s, L, evs) /\ locks[s].state # "Granted"
<1>2. \A x : x \in over <=> x \in G \/ (x = s /\ (off \/ gone))
  BY <1>1, StepOver
<1>3. ASSUME NEW e
      PROVE  e \in events' /\ e.kind # "Blocking"
               <=> (\E g \in G : e = Event("Granted", g)) \/ e \in evs
  <2>1. \A k, x : Event(k, x).kind = k /\ Event(k, x).lock = x
    BY DEF Event
  <2>2. events' = evs \cup {Event("Granted", g) : g \in G} \cup {Event("Blocking", h) : h \in B}
    BY <1>1 DEF Step, Ends
  <2>3. \A x \in evs : x.kind # "Blocking"
    BY <1>1, <2>1 DEF Step, OneChange, NewLockAsked, ConversionQueued, ConversionGranted, ConversionCalledOff, LockRemoved
  <2> QED
    BY <2>1, <2>2, <2>3
<1>4. \A x \in evs : x.lock = s /\ (off \/ gone)
  <2>1. \A k, x : Event(k, x).kind = k /\ Event(k, x).lock = x
    BY DEF Event
  <2> QED
    BY <1>1, <2>1 DEF Step, OneChange, NewLockAsked, ConversionQueued, ConversionGranted, ConversionCalledOff, LockRemoved
<1>5. \A g \in G : Event("Granted", g).lock = g /\ g # s
  BY <1>1, GrantedWereQueued DEF Event
<1>6. ASSUME NEW l \in over
      PROVE  \E k \in Outcome(l) : told(l) = {Event(k, l)}
  <2>1. CASE l \in G
    <3>1. told(l) = {Event("Granted", l)}
      BY <1>3, <1>4, <1>5, <2>1
    <3>2. l \in DOMAIN L /\ l \in DOMAIN locks' /\ locks'[l].mode = L[l].requested
      BY <1>1, <2>1 DEF Step, Ends
    <3>3. locks'[l].mode = locks[l].requested
      BY <1>1, <2>1, <3>2, GrantedWereQueued DEF Untouched, KeptAs
    <3> QED
      BY <3>1, <3>2, <3>3 DEF Outcome
  <2>2. CASE l = s /\ off
    <3>1. PICK k \in {"Canceled", "Deadlock"} : evs = {Event(k, l)}
      BY <2>2 DEF ConversionCalledOff
    <3>2. l \notin G
      BY <1>5, <2>2
    <3>3. told(l) = {Event(k, l)}
      BY <1>3, <1>4, <1>5, <2>2, <3>1, <3>2
    <3>4. l \in DOMAIN locks' /\ locks'[l].mode = L[l].mode
      BY <1>1, <2>2, <3>2 DEF Step, Ends, KeptAs, ConversionCalledOff
    <3>5. locks'[l].mode # locks[l].requested
      BY <2>2, <3>4, ModeNotAsked DEF ConversionCalledOff, IInv
    <3> QED
      BY <3>1, <3>3, <3>4, <3>5 DEF Outcome
  <2>3. CASE l = s /\ gone
    <3>1. PICK k \in {"Aborted", "Deadlock"} : evs = {Event(k, l)}
      BY <2>3 DEF LockRemoved
    <3>2. told(l) = {Event(k, l)}
      BY <1>3, <1>4, <1>5, <2>3, <3>1
    <3>3. l \notin DOMAIN locks'
      BY <1>1, <2>3 DEF Step, Ends, LockRemoved
    <3>4. k \in Outcome(l)
      BY <3>1, <3>3 DEF Outcome
    <3> QED
      BY <3>2, <3>4
  <2> QED
    BY <1>2, <2>1, <2>2, <2>3
<1>7. ASSUME NEW l \in Id \ over
      PROVE  told(l) = {}
  BY <1>2, <1>3, <1>4, <1>5
<1> QED
  BY <1>6, <1>7 DEF CompletesOnce

LEMMA NextCompletes ==
  ASSUME IInv, Next
  PROVE  CompletesOnce
<1>1. CASE SomeStep
  BY <1>1, StepCompletes
<1>2. CASE NoStep
  <2>1. Queued(locks) \ Queued(locks') = {}
    BY <1>2 DEF NoStep
  <2> QED
    BY <1>2, <2>1 DEF CompletesOnce, NoStep
<1> QED
  BY <1>1, <1>2, NextSteps

\* Every queued request completes once, and is told what became of it.
THEOREM EveryRequestCompletesOnce == Spec => CompletionMatches
<1>1. IInv /\ [Next]_vars => [CompletesOnce]_vars
  BY NextCompletes
<1> QED
  BY <1>1, LockManagerInv, PTL DEF Spec, CompletionMatches

-----------------------------------------------------------------------------
(* removeWhere grants nothing it is about to remove *)

\* A lock to remove that was granted when removeWhere listed it is granted yet.
DoomedStayGranted == \A d \in doomed : ~d.queued => locks[d.lock].state = "Granted"

\* One pass of the loop: its lock is the step's, and nothing it grants is
\* among the granted locks left to remove.
LEMMA PassGrants ==
  ASSUME IInv, DoomedStayGranted, RemoveNext,
         NEW e \in doomed', ~e.queued
  PROVE  /\ Event("Granted", e.lock) \notin events'
         /\ locks'[e.lock].state = "Granted"
<1>1. PICK d \in doomed : /\ doomed' = doomed \ {d}
                          /\ RemoveLock(locks, resources, d.lock, "Aborted")
  BY DEF RemoveNext
<1>2. d.lock \in DOMAIN locks /\ DB(locks, resources)
  BY DEF IInv
<1>3. DOMAIN locks' = DOMAIN locks \ {d.lock}
  BY <1>1, <1>2, RemoveLockKeeps DEF EventKind
<1>4. SomeStep
  BY <1>1, <1>2, RemoveStep
<1>5. PICK l, L, R, r, evs, G, B : Step(l, L, R, r, evs, G, B)
  BY <1>4 DEF SomeStep
<1>6. e \in doomed /\ e.lock \in DOMAIN locks /\ e.lock # d.lock
  BY <1>1 DEF IInv
<1>7. l = d.lock
  BY <1>2, <1>3, <1>5 DEF Step, Ends
<1>8. locks[e.lock].state = "Granted"
  BY <1>6 DEF DoomedStayGranted
<1>9. e.lock \notin G
  BY <1>5, <1>8, GrantedWereQueued
<1>10. e.lock \in DOMAIN L /\ L[e.lock].state = "Granted"
  BY <1>5, <1>6, <1>7, <1>8 DEF Step, Untouched, KeptAs
<1>11. locks'[e.lock].state = "Granted"
  BY <1>5, <1>9, <1>10 DEF Step, Ends, KeptAs
<1>12. Event("Granted", e.lock) \notin events'
  <2>1. Event("Granted", e.lock).kind = "Granted" /\ Event("Granted", e.lock).lock = e.lock
    BY DEF Event
  <2> QED
    BY <1>5, <1>9, <2>1, StepEvents
<1> QED
  BY <1>11, <1>12

LEMMA ListedGranted ==
  ASSUME NEW match, RemoveWhere(match), locks' = locks
  PROVE  DoomedStayGranted'
<1>1. \A d \in doomed' : \E l \in match : d = [lock |-> l, queued |-> locks[l].state # "Granted"]
  BY DEF RemoveWhere
<1>2. ASSUME NEW d \in doomed', ~d.queued
      PROVE  locks'[d.lock].state = "Granted"
  <2>1. PICK l \in match : d = [lock |-> l, queued |-> locks[l].state # "Granted"]
    BY <1>1
  <2>2. d.lock = l /\ d.queued = (locks[l].state # "Granted")
    BY <2>1
  <2> QED
    BY <1>2, <2>2
<1> QED
  BY <1>2 DEF DoomedStayGranted

THEOREM DoomedAreNotGranted == Spec => NoGrantOfDoomed
<1> DEFINE NoneGranted ==
             \A d \in doomed \ doomed' :
               ~d.queued => \A e \in doomed' : Event("Granted", e.lock) \notin events'
<1>1. Init => DoomedStayGranted
  BY DEF Init, DoomedStayGranted
<1>2. IInv /\ DoomedStayGranted /\ [Next]_vars => DoomedStayGranted'
  <2> SUFFICES ASSUME IInv, DoomedStayGranted, [Next]_vars PROVE DoomedStayGranted'
    OBVIOUS
  <2>1. CASE doomed = {} /\ \E o \in Owner : Call(o)
    <3>1. PICK o \in Owner : Call(o)
      BY <2>1
    <3>2. doomed' = {} \/ (locks' = locks /\ \E match : RemoveWhere(match))
      <4>1. CASE EnqueueAny(o)
        BY <2>1, <4>1 DEF EnqueueAny, Enqueue, EnqueueAs
      <4>2. CASE ConvertAny(o)
        BY <2>1, <4>2 DEF ConvertAny, Convert
      <4>3. CASE \E l \in DOMAIN locks : Cancel(o, l)
        BY <2>1, <4>3 DEF Cancel
      <4>4. CASE DequeueAny(o)
        BY <2>1, <4>4 DEF DequeueAny, Dequeue
      <4>5. CASE \E a \in AccessMode : DequeueAll(o, a)
        BY <4>5 DEF DequeueAll
      <4>6. CASE \E p \in DOMAIN locks : DequeueSublocks(o, p)
        BY <4>6 DEF DequeueSublocks
      <4>7. CASE \E abnormal \in BOOLEAN : Release(o, abnormal)
        BY <4>7 DEF Release
      <4> QED
        BY <3>1, <4>1, <4>2, <4>3, <4>4, <4>5, <4>6, <4>7 DEF Call
    <3> QED
      BY <3>2, ListedGranted DEF DoomedStayGranted
  <2>2. CASE doomed = {} /\ CheckDeadlocks
    BY <2>2 DEF CheckDeadlocks, Refuse, DoomedStayGranted
  <2>3. CASE RemoveNext
    BY <2>3, PassGrants DEF DoomedStayGranted
  <2>4. CASE UNCHANGED vars
    BY <2>4 DEF vars, DoomedStayGranted
  <2> QED
    BY <2>1, <2>2, <2>3, <2>4 DEF Next
<1>3. IInv /\ DoomedStayGranted /\ [Next]_vars => [NoneGranted]_vars
  <2> SUFFICES ASSUME IInv, DoomedStayGranted, Next,
                      NEW d \in doomed \ doomed', ~d.queued, NEW e \in doomed'
               PROVE  Event("Granted", e.lock) \notin events'
    OBVIOUS
  <2>1. RemoveNext
    BY DEF Next
  <2>2. ~e.queued
    <3>1. PICK x \in doomed : doomed' = doomed \ {x} /\ \A y \in doomed \ {x} : GoesBefore(x, y)
      BY <2>1 DEF RemoveNext
    <3>2. x = d /\ e \in doomed \ {d}
      BY <3>1
    <3>3. GoesBefore(d, e)
      BY <3>1, <3>2
    <3>4. d.queued \in BOOLEAN /\ e.queued \in BOOLEAN
      BY <3>2 DEF IInv
    <3> QED
      BY <3>3, <3>4 DEF GoesBefore
  <2> QED
    BY <2>1, <2>2, PassGrants
<1> QED
  BY <1>1, <1>2, <1>3, LockManagerInv, PTL DEF Spec, NoGrantOfDoomed

-----------------------------------------------------------------------------
(* No blocking notice is lost *)

\* Every holder in a queued request's way has been told so at its mode.
AllTold(L) == \A h, q \in DOMAIN L : InTheWay(L, h, q) => L[h].notified

\* What a step leaves: every holder in a queued request's way is told of it
\* in the step, or was told before and holds the mode it held then.
LEMMA StepTells ==
  ASSUME IInv, AllTold(locks), SomeStep, NEW h \in DOMAIN locks', NEW q \in DOMAIN locks',
         InTheWay(locks', h, q)
  PROVE  /\ locks'[h].notified
         /\ \/ Event("Blocking", h) \in events'
            \/ h \in DOMAIN locks /\ locks[h].notified /\ locks[h].mode = locks'[h].mode
<1>1. PICK l, L, R, r, evs, G, B : Step(l, L, R, r, evs, G, B)
  BY DEF SomeStep
<1>2. h \in DOMAIN L /\ q \in DOMAIN L
  BY <1>1 DEF Step, Ends
<1>3. ASSUME h \notin G, L[h].notified, ~(h \in B)
      PROVE  h \in DOMAIN locks /\ locks[h].notified /\ locks[h].mode = locks'[h].mode
  <2>1. locks'[h].mode = L[h].mode /\ locks'[h].state = L[h].state
    BY <1>1, <1>2, <1>3 DEF Step, Ends, KeptAs
  <2>2. CASE h = l
    BY <1>1, <1>2, <1>3, <2>1, <2>2
       DEF Step, OneChange, NewLockAsked, ConversionQueued, ConversionGranted, ConversionCalledOff, LockRemoved
  <2>3. CASE h # l
    BY <1>1, <1>2, <1>3, <2>1, <2>3 DEF Step, Untouched, KeptAs
  <2> QED
    BY <2>2, <2>3
<1>4. \A x \in B : Event("Blocking", x) \in events'
  BY <1>1, StepEvents
<1>5. CASE h \in B
  <2>1. locks'[h].notified
    BY <1>1, <1>2, <1>5 DEF Step, Ends
  <2> QED
    BY <1>4, <1>5, <2>1
<1>6. CASE h \notin B /\ h \notin G /\ L[h].notified
  <2>1. locks'[h].notified
    BY <1>1, <1>2, <1>6 DEF Step, Ends
  <2> QED
    BY <1>3, <1>6, <2>1
<1>7. CASE locks'[h].resource = r
  BY <1>1, <1>2, <1>5, <1>6, <1>7 DEF Step, Ends
<1>8. CASE locks'[h].resource # r
  <2>1. \A x \in DOMAIN L : locks'[x].resource # r => x \notin G /\ KeptAs(locks'[x], L[x]) /\ x # l
    BY <1>1 DEF Step, Ends, KeptAs
  <2>2. locks'[q].resource = locks'[h].resource
    BY DEF InTheWay
  <2>3. /\ h \notin G /\ h # l /\ KeptAs(locks'[h], L[h])
        /\ q # l /\ KeptAs(locks'[q], L[q])
    BY <1>2, <1>8, <2>1, <2>2
  <2>4. /\ h \in DOMAIN locks /\ Untouched(L[h], locks[h])
        /\ q \in DOMAIN locks /\ Untouched(L[q], locks[q])
    BY <1>1, <1>2, <2>3 DEF Step
  <2>5. InTheWay(locks, h, q)
    BY <2>3, <2>4 DEF InTheWay, Untouched, KeptAs
  <2>6. L[h].notified
    BY <2>4, <2>5 DEF AllTold, Untouched
  <2> QED
    BY <1>5, <1>6, <2>3, <2>6
<1> QED
  BY <1>7, <1>8

\* No blocking notice is lost: a holder that asked for one and is in a queued
\* request's way is told in the step that makes it so, unless it was told
\* since it was granted at its mode (blockingNotices, grant).
THEOREM NoNoticeMissed == Spec => NoMissedNotice
<1> DEFINE Told ==
             \A h \in DOMAIN locks' :
               /\ locks'[h].blocking
               /\ locks'[h].state # "Waiting"
               /\ \E q \in Queued(locks') \ {h} :
                    /\ locks'[q].resource = locks'[h].resource
                    /\ ~Compatible(locks'[q].requested, locks'[h].mode)
               => \/ Event("Blocking", h) \in events'
                  \/ /\ h \in DOMAIN locks
                     /\ locks[h].notified
                     /\ locks[h].mode = locks'[h].mode
<1>1. Init => AllTold(locks)
  BY DEF Init, AllTold
<1>2. AllTold(locks') <=> AllTold(locks)'
  BY DEF AllTold, InTheWay
<1>3. IInv /\ AllTold(locks) /\ [Next]_vars => AllTold(locks)'
  <2> SUFFICES ASSUME IInv, AllTold(locks), [Next]_vars PROVE AllTold(locks')
    BY <1>2
  <2>1. CASE SomeStep
    BY <2>1, StepTells DEF AllTold
  <2>2. CASE NoStep
    BY <2>2 DEF NoStep
  <2>3. CASE UNCHANGED vars
    BY <2>3 DEF vars
  <2> QED
    BY <2>1, <2>2, <2>3, NextSteps
<1>4. IInv /\ AllTold(locks) /\ [Next]_vars => [Told]_vars
  <2> SUFFICES ASSUME IInv, AllTold(locks), Next, NEW h \in DOMAIN locks',
                      locks'[h].blocking, locks'[h].state # "Waiting",
                      NEW q \in Queued(locks') \ {h},
                      locks'[q].resource = locks'[h].resource,
                      ~Compatible(locks'[q].requested, locks'[h].mode)
               PROVE  \/ Event("Blocking", h) \in events'
                      \/ h \in DOMAIN locks /\ locks[h].notified /\ locks[h].mode = locks'[h].mode
    OBVIOUS
  <2>1. q \in DOMAIN locks' /\ InTheWay(locks', h, q)
    BY DEF Queued, InTheWay
  <2>2. CASE SomeStep
    BY <2>1, <2>2, StepTells
  <2>3. CASE NoStep
    BY <2>1, <2>3 DEF NoStep, AllTold
  <2> QED
    BY <2>2, <2>3, NextSteps
<1> QED
  BY <1>1, <1>3, <1>4, LockManagerInv, PTL DEF Spec, NoMissedNotice

-----------------------------------------------------------------------------
(* Value blocks *)

\* The value block changes only by a writer giving up its write lock, and is
\* marked invalid only while a writer holds it (Convert, Dequeue, Release).
THEOREM OnlyWritersStoreValues == Spec => OnlyWritersStore
<1> DEFINE Stored ==
             \A r \in DOMAIN resources \cap DOMAIN resources' :
               LET writers == {l \in Holders(locks, r) : Writes(locks[l].mode)}
               IN /\ resources'[r].value # resources[r].value
                       => \E l \in writers : l \notin DOMAIN locks' \/ locks'[l].mode < locks[l].mode
                  /\ resources'[r].invalid # resources[r].invalid => writers # {}
<1>1. IInv /\ [Next]_vars => [Stored]_vars
  <2> SUFFICES ASSUME IInv, Next, NEW x \in DOMAIN resources \cap DOMAIN resources',
                      NEW W, W = {l \in Holders(locks, x) : Writes(locks[l].mode)}
               PROVE  /\ resources'[x].value # resources[x].value
                           => \E l \in W : l \notin DOMAIN locks' \/ locks'[l].mode < locks[l].mode
                      /\ resources'[x].invalid # resources[x].invalid => W # {}
    OBVIOUS
  <2>1. CASE SomeStep
    <3>1. PICK l, L, R, r, evs, G, B : Step(l, L, R, r, evs, G, B)
      BY <2>1 DEF SomeStep
    <3>2. x \in DOMAIN R /\ resources'[x].value = R[x].value /\ resources'[x].invalid = R[x].invalid
      BY <3>1 DEF Step, Ends
    <3>3. ASSUME resources'[x].value # resources[x].value \/ resources'[x].invalid # resources[x].invalid
          PROVE  l \in W /\ (l \notin DOMAIN locks' \/ locks'[l].mode < locks[l].mode)
      <4>1. /\ x = r /\ l \in DOMAIN locks
            /\ locks[l].state # "Waiting" /\ Writes(locks[l].mode)
            /\ l \in DOMAIN L => L[l].state = "Granted" /\ L[l].mode < locks[l].mode
        BY <3>1, <3>2, <3>3 DEF Step, StoredBy
      <4>2. l \in W
        BY <3>1, <4>1 DEF Step, Holders
      <4>3. l \in DOMAIN L => l \notin G
        BY <3>1, <4>1 DEF Step, Ends
      <4>4. l \in DOMAIN L => locks'[l].mode = L[l].mode
        BY <3>1, <4>3 DEF Step, Ends, KeptAs
      <4>5. DOMAIN locks' = DOMAIN L
        BY <3>1 DEF Step, Ends
      <4> QED
        BY <4>1, <4>2, <4>4, <4>5
    <3> QED
      BY <3>3
  <2>2. CASE NoStep
    BY <2>2 DEF NoStep
  <2> QED
    BY <2>1, <2>2, NextSteps
<1> QED
  BY <1>1, LockManagerInv, PTL DEF Spec, OnlyWritersStore

-----------------------------------------------------------------------------
(* Whose a lock is.                                                           *)

\* The end of a call leaves nothing new in the database, nobody queued anew
\* and every lock its owner's.
Follows(L2, L) ==
  /\ DOMAIN L2 \subseteq DOMAIN L
  /\ \A x \in DOMAIN L2 :
       /\ L2[x].owner = L[x].owner
       /\ L[x].state = "Granted" => L2[x].state = "Granted"

\* A call of o's: the request that it queues is o's.
OwnedBy(L2, L, o) ==
  \A x \in DOMAIN L2 :
    /\ x \in DOMAIN L => L2[x].owner = L[x].owner
    /\ x \in Queued(L2) \ Queued(L) => L2[x].owner = o

OwnersKept == \A x \in DOMAIN locks \cap DOMAIN locks' : locks'[x].owner = locks[x].owner

-----------------------------------------------------------------------------
(* How a call ends *)

LEMMA FollowsOwned ==
  ASSUME NEW L, NEW L1, NEW L2, NEW o, OwnedBy(L1, L, o), Follows(L2, L1)
  PROVE  OwnedBy(L2, L, o)
  BY DEF OwnedBy, Follows, Queued

LEMMA FollowsTransitive ==
  ASSUME NEW L, NEW L1, NEW L2, Follows(L1, L), Follows(L2, L1)
  PROVE  Follows(L2, L)
  BY DEF Follows

LEMMA FinishFollows ==
  ASSUME NEW L, NEW R, NEW r, NEW evs, LocksOK(L), Finish(L, R, r, evs)
  PROVE  Follows(locks', L)
<1>1. /\ DOMAIN locks' = DOMAIN L
      /\ \A l \in DOMAIN L : locks'[l] = L[l] \/ locks'[l] = [L[l] EXCEPT !.notified = TRUE]
  BY DEF Finish, BlockingNotices
<1>2. \A l \in DOMAIN L : L[l] \in LockRecord
  BY DEF LocksOK
<1> QED
  BY <1>1, <1>2 DEF Follows, LockRecord

\* A grant changes neither the owner, nor what is granted already.
LEMMA GrantedOwner ==
  ASSUME NEW L, NEW R, NEW l, NEW up, L[l] \in LockRecord
  PROVE  /\ GrantedRecord(L, R, l, up).owner = L[l].owner
         /\ GrantedRecord(L, R, l, up).state = "Granted"
<1> DEFINE rec == L[l]
           v == IF rec.valblk /\ up THEN R[rec.resource].value ELSE rec.value
           nv == (rec.valblk /\ up) /\ R[rec.resource].invalid
<1>1. GrantedRecord(L, R, l, up)
        = [rec EXCEPT !.mode = rec.requested, !.state = "Granted", !.notified = FALSE,
                      !.value = v, !.notValid = nv]
  BY DEF GrantedRecord, LockRecord
<1>2. rec \in LockRecord
  OBVIOUS
<1> HIDE DEF rec, v, nv
<1> QED
  BY <1>1, <1>2 DEF LockRecord, rec

LEMMA SettleFollows ==
  ASSUME NEW L, NEW R, NEW r \in DOMAIN R, NEW evs, DB(L, R), Settle(L, R, r, evs)
  PROVE  Follows(locks', L)
<1> DEFINE g == Regrant(L, R, r)
<1>1. DB(g.locks, g.resources) /\ DOMAIN g.locks = DOMAIN L
  BY RegrantKeeps
<1>2. Finish(g.locks, g.resources, r, evs \cup g.events)
  BY DEF Settle
<1>3. \A l \in DOMAIN L :
        g.locks[l] = L[l] \/ \E up : g.locks[l] = GrantedRecord(L, R, l, up)
  BY DEF Regrant
<1> HIDE DEF g
<1>4. \A l \in DOMAIN L : L[l] \in LockRecord
  BY DEF DB, LocksOK
<1>5. Follows(g.locks, L)
  BY <1>1, <1>3, <1>4, GrantedOwner DEF Follows
<1>6. Follows(locks', g.locks)
  BY <1>1, <1>2, FinishFollows DEF DB
<1> QED
  BY <1>5, <1>6, FollowsTransitive

-----------------------------------------------------------------------------
(* The calls *)

LEMMA UnconvertFollows ==
  ASSUME NEW l \in DOMAIN locks, NEW kind, DB(locks, resources),
         locks[l].state = "Converting", Unconvert(l, kind)
  PROVE  Follows(locks', locks)
<1>1. Settle(CalledOff(l), Unqueue(locks, resources, l), locks[l].resource, {Event(kind, l)})
  BY DEF Unconvert, CalledOff
<1>2. /\ DB(CalledOff(l), Unqueue(locks, resources, l))
      /\ locks[l].resource \in DOMAIN Unqueue(locks, resources, l)
  BY CalledOffKeeps
<1>3. Follows(CalledOff(l), locks)
  <2>1. locks[l] \in LockRecord
    BY DEF DB, LocksOK
  <2> QED
    BY <2>1 DEF CalledOff, Follows, LockRecord
<1> QED
  BY <1>1, <1>2, <1>3, SettleFollows, FollowsTransitive

LEMMA RemoveLockFollows ==
  ASSUME NEW R, NEW l \in DOMAIN locks, NEW kind, DB(locks, R), RemoveLock(locks, R, l, kind)
  PROVE  Follows(locks', locks)
<1> DEFINE r == locks[l].resource
           left == DropLock(locks, l)
           rest == DeleteIfUnused(left, Unqueue(locks, R, l), r)
           evs == IF locks[l].state = "Granted" THEN {} ELSE {Event(kind, l)}
<1>1. DB(left, rest)
  BY DropLockKeeps, DeleteIfUnusedKeeps
<1>2. Follows(left, locks)
  <2>1. /\ DOMAIN left = DOMAIN locks \ {l}
        /\ \A x \in DOMAIN left :
             left[x] = locks[x] \/ left[x] = [locks[x] EXCEPT !.sublocks = @ - 1]
    BY DEF DropLock
  <2>2. \A x \in DOMAIN locks : locks[x] \in LockRecord
    BY DEF DB, LocksOK
  <2> HIDE DEF left
  <2> QED
    BY <2>1, <2>2 DEF Follows, LockRecord
<1>3. IF r \in DOMAIN rest
      THEN Settle(left, rest, r, evs)
      ELSE locks' = left /\ resources' = rest /\ events' = evs
  BY DEF RemoveLock
<1> HIDE DEF r, left, rest, evs
<1> QED
  BY <1>1, <1>2, <1>3, SettleFollows, FollowsTransitive

LEMMA DequeueFollows ==
  ASSUME NEW o, NEW l, NEW how, NEW v \in Value, DB(locks, resources), Dequeue(o, l, how, v)
  PROVE  Follows(locks', locks)
<1> DEFINE R2 == StoreBack(l, how, v)
           r == locks[l].resource
<1>1. l \in DOMAIN locks /\ RemoveLock(locks, R2, l, "Aborted")
  BY DEF Dequeue
<1>2. \/ R2 = resources
      \/ R2 = [resources EXCEPT ![r].value = v, ![r].invalid = FALSE]
      \/ R2 = [resources EXCEPT ![r].invalid = TRUE]
  BY DEF StoreBack
<1> HIDE DEF R2, r
<1>3. DOMAIN R2 = DOMAIN resources
  BY <1>2
<1>4. ASSUME NEW x \in DOMAIN resources
      PROVE  \/ R2[x] = resources[x]
             \/ \E u \in Value : R2[x] = [resources[x] EXCEPT !.value = u, !.invalid = FALSE]
             \/ R2[x] = [resources[x] EXCEPT !.invalid = TRUE]
  BY <1>2
<1>5. DB(locks, R2)
  BY <1>3, <1>4, StoreKeeps
<1> QED
  BY <1>1, <1>5, RemoveLockFollows

LEMMA ConvertOwned ==
  ASSUME NEW o, NEW l, NEW m \in Mode, NEW blk \in BOOLEAN, NEW vb \in BOOLEAN, NEW v \in Value,
         DB(locks, resources), Convert(o, l, m, blk, vb, v)
  PROVE  OwnedBy(locks', locks, o)
<1> DEFINE r == locks[l].resource
           L == Asking(l, m, blk, vb)
<1>1. /\ l \in DOMAIN locks /\ locks[l].owner = o
      /\ locks[l].state = "Granted" /\ r \in DOMAIN resources
  BY ConvertSteps DEF Convert, DB, Located
<1>2. locks[l] \in LockRecord
  BY <1>1 DEF DB, LocksOK
<1>3. /\ DOMAIN L = DOMAIN locks
      /\ L[l] \in LockRecord /\ L[l].owner = o
      /\ \A x \in DOMAIN locks \ {l} : L[x] = locks[x]
  BY <1>1, <1>2 DEF Asking, LockRecord
<1>4. CASE ConvertGrantable(l, m)
  <2> DEFINE L2 == Converted(l, m, blk, vb, v)
             R2 == StoreDown(l, m, vb, v)
             up == m > locks[l].mode
  <2>1. Settle(L2, R2, r, {}) /\ DB(L2, R2) /\ r \in DOMAIN R2
    BY <1>1, <1>4, ConvertSteps, GrantConversionKeeps
  <2>2. L2 = [L EXCEPT ![l] = GrantedRecord(L, R2, l, up)]
    BY DEF Converted
  <2> HIDE DEF L, L2, R2, up
  <2>3. OwnedBy(L2, locks, o)
    <3>1. GrantedRecord(L, R2, l, up).owner = o /\ GrantedRecord(L, R2, l, up).state = "Granted"
      BY <1>3, GrantedOwner
    <3> QED
      BY <1>1, <1>3, <2>2, <3>1 DEF OwnedBy, Queued
  <2> QED
    BY <2>1, <2>3, SettleFollows, FollowsOwned
<1>5. CASE ~ConvertGrantable(l, m)
  <2> DEFINE L2 == AskedFor(l, m, blk, vb)
             R2 == [resources EXCEPT ![r].converting = Append(@, l)]
  <2>1. Finish(L2, R2, r, {}) /\ DB(L2, R2)
    BY <1>1, <1>5, ConvertSteps, AskedForKeeps
  <2>2. L2 = [L EXCEPT ![l].state = "Converting"]
    BY DEF AskedFor
  <2> HIDE DEF L, L2, R2
  <2>3. OwnedBy(L2, locks, o)
    BY <1>1, <1>3, <2>2 DEF OwnedBy, Queued, LockRecord
  <2> QED
    BY <2>1, <2>3, FinishFollows, FollowsOwned DEF DB
<1> QED
  BY <1>4, <1>5

LEMMA EnqueueOwned ==
  ASSUME NEW o \in Owner, NEW m \in Mode, NEW n \in Name, NEW a \in AccessMode,
         NEW p \in DOMAIN locks \cup {NoLock}, NEW blk \in BOOLEAN, NEW vb \in BOOLEAN,
         DB(locks, resources), Enqueue(o, m, n, a, p, blk, vb)
  PROVE  OwnedBy(locks', locks, o)
<1> DEFINE r == RequestResource(p, a, n)
           R == WithResource(resources, r)
           rec == RequestLock(o, m, n, a, p, blk, vb)
<1>1. PICK l \in Id \ DOMAIN locks :
        /\ EnqueueGrantable(R, r, m) => Finish(AddGranted(R, l, rec), R, r, {})
        /\ ~EnqueueGrantable(R, r, m)
             => Finish(AddLock(locks, l, rec), [R EXCEPT ![r].waiting = Append(@, l)], r, {})
  BY EnqueueSteps
<1>2. /\ rec \in LockRecord /\ rec.resource = r /\ r \in Resource
      /\ rec.requested = m /\ rec.owner = o
  <2>1. LocksOK(locks)
    BY DEF DB
  <2>2. rec \in LockRecord /\ rec.resource = r /\ rec.resource \in Resource
    BY <2>1, RequestLockIs
  <2>3. rec.requested = m /\ rec.owner = o
    BY DEF RequestLock, NewLock
  <2> QED
    BY <2>2, <2>3
<1>3. R = WithResource(resources, r)
  OBVIOUS
<1> HIDE DEF rec, r, R
<1> DEFINE L == AddLock(locks, l, rec)
<1>4. /\ DOMAIN L = DOMAIN locks \cup {l}
      /\ L[l] = rec
      /\ \A x \in DOMAIN locks :
           /\ L[x] \in LockRecord
           /\ L[x].owner = locks[x].owner
           /\ L[x].state = locks[x].state
  <2>1. /\ DOMAIN L = DOMAIN locks \cup {l}
        /\ L[l] = rec
        /\ \A x \in DOMAIN locks : L[x] = locks[x] \/ L[x] = [locks[x] EXCEPT !.sublocks = @ + 1]
    BY DEF AddLock
  <2>2. \A x \in DOMAIN locks : locks[x] \in LockRecord
    BY DEF DB, LocksOK
  <2> HIDE DEF L
  <2> QED
    BY <2>1, <2>2 DEF LockRecord
<1>5. LocksOK(L) /\ OwnedBy(L, locks, o)
  BY <1>2, <1>4 DEF DB, LocksOK, OwnedBy, Queued
<1>6. CASE EnqueueGrantable(R, r, m)
  <2> DEFINE L2 == AddGranted(R, l, rec)
             up == TRUE
             new == GrantedRecord(L, R, l, up)
  <2>1. DB(locks, R) /\ r \in DOMAIN R
    BY <1>2, <1>3, WithResourceKeeps DEF WithResource
  <2>2. DB(L2, R) /\ Finish(L2, R, r, {})
    BY <1>1, <1>2, <1>6, <2>1, AddGrantedKeeps DEF EnqueueGrantable
  <2>3. L2 = [L EXCEPT ![l] = new]
    BY DEF AddGranted
  <2>4. new.owner = o /\ new.state = "Granted"
    <3>1. L[l] \in LockRecord /\ L[l].owner = o
      BY <1>2, <1>4
    <3> HIDE DEF L, up
    <3> QED
      BY <3>1, GrantedOwner
  <2> HIDE DEF L, L2, new
  <2>5. OwnedBy(L2, locks, o)
    BY <1>4, <2>3, <2>4 DEF OwnedBy, Queued
  <2> QED
    BY <2>2, <2>5, FinishFollows, FollowsOwned DEF DB
<1>7. CASE ~EnqueueGrantable(R, r, m)
  <2>1. Finish(L, [R EXCEPT ![r].waiting = Append(@, l)], r, {})
    BY <1>1, <1>7
  <2> HIDE DEF L
  <2> QED
    BY <1>5, <2>1, FinishFollows, FollowsOwned
<1> QED
  BY <1>6, <1>7

\* A call on locks other than a request keeps to what is there.
LEMMA RemovalFollows ==
  ASSUME NEW o, DB(locks, resources),
         \/ DequeueAny(o)
         \/ \E a \in AccessMode : DequeueAll(o, a)
         \/ \E p \in DOMAIN locks : DequeueSublocks(o, p)
         \/ \E abnormal \in BOOLEAN : Release(o, abnormal)
  PROVE  Follows(locks', locks)
<1>1. CASE DequeueAny(o)
  BY <1>1, DequeueFollows DEF DequeueAny
<1>2. CASE locks' = locks
  BY <1>2 DEF Follows
<1> QED
  BY <1>1, <1>2 DEF DequeueAll, DequeueSublocks, Release

LEMMA RequestOwned ==
  ASSUME NEW o \in Owner, DB(locks, resources), EnqueueAny(o) \/ ConvertAny(o)
  PROVE  OwnedBy(locks', locks, o)
<1>1. RequestMode \subseteq Mode /\ Notice \subseteq BOOLEAN /\ ValBlk \subseteq BOOLEAN
  BY ConstantsOK
<1>2. CASE EnqueueAny(o)
  BY <1>1, <1>2, EnqueueOwned DEF EnqueueAny
<1>3. CASE ConvertAny(o)
  BY <1>1, <1>3, ConvertOwned DEF ConvertAny
<1> QED
  BY <1>2, <1>3

LEMMA RefuseFollows ==
  ASSUME NEW t, DB(locks, resources), Refuse(t)
  PROVE  Follows(locks', locks)
<1>1. t \in DOMAIN locks
  BY DEF Refuse, Queued
<1>2. CASE locks[t].state = "Converting"
  BY <1>1, <1>2, UnconvertFollows DEF Refuse
<1>3. CASE locks[t].state # "Converting"
  BY <1>1, <1>3, RemoveLockFollows DEF Refuse
<1> QED
  BY <1>2, <1>3

LEMMA PassFollows ==
  ASSUME IInv, RemoveNext
  PROVE  Follows(locks', locks)
<1>1. PICK d \in doomed : RemoveLock(locks, resources, d.lock, "Aborted")
  BY DEF RemoveNext
<1>2. d.lock \in DOMAIN locks /\ DB(locks, resources)
  BY DEF IInv
<1> QED
  BY <1>1, <1>2, RemoveLockFollows

-----------------------------------------------------------------------------
(* The clients *)

\* What a client's step is: a step of the lock manager whose events are
\* delivered, then a wait for what it queued, if anything.
LEMMA ClientSteps ==
  ASSUME IInv, ClientNext
  PROVE  /\ Next
         /\ \/ Deliver /\ Follows(locks', locks)
            \/ \E o \in Owner :
                 /\ OwnedBy(locks', locks, o)
                 /\ \/ Deliver
                    \/ \E l \in Queued(locks') \ Queued(locks) :
                         awaited' = [Woken EXCEPT ![o] = l]
<1>1. DB(locks, resources)
  BY DEF IInv
<1>2. ASSUME NEW o \in Owner, EnqW(o)
      PROVE  /\ doomed = {} /\ Call(o)
             /\ OwnedBy(locks', locks, o)
             /\ \/ Deliver
                \/ \E l \in Queued(locks') \ Queued(locks) : awaited' = [Woken EXCEPT ![o] = l]
  <2>1. doomed = {} /\ (EnqueueAny(o) \/ ConvertAny(o))
    BY <1>2 DEF EnqW, FreeToCall
  <2>2. OwnedBy(locks', locks, o)
    BY <1>1, <2>1, RequestOwned
  <2> QED
    BY <1>2, <2>1, <2>2 DEF EnqW, Call
<1>3. ASSUME NEW o \in Owner,
             \/ \E l \in DOMAIN locks : Give(o, l)
             \/ \E a \in AccessMode : GiveAll(o, a)
             \/ \E p \in DOMAIN locks : GiveSublocks(o, p)
             \/ DeleteProcess(o)
      PROVE  doomed = {} /\ Call(o) /\ Deliver /\ Follows(locks', locks)
  <2>1. doomed = {} /\ Deliver
    BY <1>3 DEF Give, GiveAll, GiveSublocks, DeleteProcess, FreeToCall
  <2>2. \/ DequeueAny(o)
        \/ \E a \in AccessMode : DequeueAll(o, a)
        \/ \E p \in DOMAIN locks : DequeueSublocks(o, p)
        \/ \E abnormal \in BOOLEAN : Release(o, abnormal)
    BY <1>3, ConstantsOK DEF Give, GiveAll, GiveSublocks, DeleteProcess, DequeueAny
  <2>3. Follows(locks', locks)
    BY <1>1, <2>2, RemovalFollows
  <2> QED
    BY <2>1, <2>2, <2>3 DEF Call
<1>4. ASSUME RundownPass
      PROVE  RemoveNext /\ Deliver /\ Follows(locks', locks)
  BY <1>4, PassFollows DEF RundownPass
<1>5. ASSUME NEW t, Search(t)
      PROVE  doomed = {} /\ CheckDeadlocks /\ Deliver /\ Follows(locks', locks)
  BY <1>1, <1>5, RefuseFollows DEF Search, CheckDeadlocks
<1>6. \/ \E o \in Owner : EnqW(o)
      \/ \E o \in Owner :
           \/ \E l \in DOMAIN locks : Give(o, l)
           \/ \E a \in AccessMode : GiveAll(o, a)
           \/ \E p \in DOMAIN locks : GiveSublocks(o, p)
           \/ DeleteProcess(o)
      \/ RundownPass
      \/ \E t \in Id : Search(t)
  BY DEF ClientNext
<1> QED
  BY <1>2, <1>3, <1>4, <1>5, <1>6 DEF Next

\* A request that is no longer queued has had its completion delivered.
LEMMA OverIsCompleted ==
  ASSUME CompletesOnce, NEW l \in Queued(locks), l \notin Queued(locks')
  PROVE  Completed(l)
<1>1. PICK k \in Outcome(l) : {e \in events' : e.lock = l /\ e.kind # "Blocking"} = {Event(k, l)}
  BY DEF CompletesOnce
<1> QED
  BY <1>1 DEF Completed

ClientInv ==
  /\ IInv
  /\ awaited \in [Owner -> Id \cup {NoLock}]
  /\ WaitsAreQueued

LEMMA QueuedAreIDs ==
  ASSUME IInv
  PROVE  Queued(locks) \subseteq Id
  BY DEF IInv, DB, LocksOK, Queued

\* A step keeps every wait on a queued request of the waiter's.
LEMMA ClientStepKeeps ==
  ASSUME ClientInv, ClientNext, IInv', CompletesOnce
  PROVE  ClientInv'
<1>1. /\ Woken \in [Owner -> Id \cup {NoLock}]
      /\ \A p \in Owner :
           Woken[p] # NoLock => /\ Woken[p] = awaited[p]
                                /\ awaited[p] \in Queued(locks) \cap Queued(locks')
                                /\ locks[awaited[p]].owner = p
  BY OverIsCompleted DEF ClientInv, Woken, WaitsAreQueued
<1>2. Queued(locks') \subseteq Id /\ Queued(locks') \subseteq DOMAIN locks' /\ Queued(locks) \subseteq DOMAIN locks
  BY DEF IInv, DB, LocksOK, Queued
<1>3. ASSUME OwnersKept, Deliver
      PROVE  ClientInv'
  <2>1. awaited' = Woken
    BY <1>3 DEF Deliver
  <2>2. WaitsAreQueued'
    BY <1>1, <1>2, <1>3, <2>1 DEF WaitsAreQueued, OwnersKept
  <2> QED
    BY <1>1, <2>1, <2>2 DEF ClientInv
<1>4. ASSUME NEW o \in Owner, OwnedBy(locks', locks, o),
             NEW l \in Queued(locks') \ Queued(locks), awaited' = [Woken EXCEPT ![o] = l]
      PROVE  ClientInv'
  <2>1. locks'[l].owner = o /\ l \in Id
    BY <1>2, <1>4 DEF OwnedBy
  <2>2. \A p \in Owner : awaited'[p] = IF p = o THEN l ELSE Woken[p]
    BY <1>1, <1>4
  <2>3. WaitsAreQueued'
    BY <1>1, <1>2, <1>4, <2>1, <2>2 DEF WaitsAreQueued, OwnedBy
  <2>4. awaited' \in [Owner -> Id \cup {NoLock}]
    BY <1>1, <1>4, <2>1
  <2> QED
    BY <2>3, <2>4 DEF ClientInv
<1>5. /\ Follows(locks', locks) => OwnersKept
      /\ \A o : OwnedBy(locks', locks, o) => OwnersKept
  BY DEF Follows, OwnedBy, OwnersKept
<1> QED
  BY <1>3, <1>4, <1>5, ClientSteps DEF ClientInv

-----------------------------------------------------------------------------
(* The theorems *)

\* No wake-up is lost: whoever waits in $ENQW waits for a request of its own
\* that is still queued, however its request ended (complete, waitOnLock).
THEOREM NoWakeUpLost == ClientSpec => []WaitsAreQueued
<1>1. ClientInit => ClientInv
  BY InitHolds DEF ClientInit, ClientInv, WaitsAreQueued
<1>2. ClientInv /\ [ClientNext]_clientVars => ClientInv'
  <2> SUFFICES ASSUME ClientInv, [ClientNext]_clientVars PROVE ClientInv'
    OBVIOUS
  <2>1. CASE ClientNext
    <3>1. IInv /\ Next
      BY <2>1, ClientSteps DEF ClientInv
    <3>2. IInv' /\ CompletesOnce
      BY <3>1, NextKeeps, NextCompletes
    <3> QED
      BY <2>1, <3>2, ClientStepKeeps
  <2>2. CASE UNCHANGED clientVars
    BY <2>2 DEF clientVars, ClientInv, IInv, WaitsAreQueued
  <2> QED
    BY <2>1, <2>2
<1>3. ClientInv => WaitsAreQueued
  BY DEF ClientInv
<1> QED
  BY <1>1, <1>2, <1>3, PTL DEF ClientSpec
=============================================================================
