----------------------------- MODULE LockClients -----------------------------
(***************************************************************************)
(* Processes that take locks with $ENQW (internal/corevms/enq.go).         *)
(*                                                                         *)
(* A process whose request is queued waits in LEF until the request is     *)
(* done, and issues no other call meanwhile: complete, which Deliver calls *)
(* for each event that ends the request, sets done.  Each process has one  *)
(* wait at a time here; the code's are a stack, because an AST routine may *)
(* issue a $ENQW of its own.  Status blocks, event flags and quotas are    *)
(* left out.                                                               *)
(***************************************************************************)
EXTENDS LockManager

VARIABLE awaited  \* enqWaits: the queued request each process waits for

clientVars == <<locks, resources, lastID, doomed, events, awaited>>

FreeToCall(o) == doomed = {} /\ awaited[o] = NoLock

\* Mutant: only a grant ends the wait.
CompletedByGrant(l) == Event("Granted", l) \in events'

\* complete: an event other than a blocking notice ends its lock's request.
Completed(l) == \E e \in events' : e.lock = l /\ e.kind # "Blocking"

\* Deliver: each process whose request is over is made computable.
Woken == [p \in Owner |-> IF Completed(awaited[p]) THEN NoLock ELSE awaited[p]]

Deliver == awaited' = Woken

\* $ENQW: a request not granted at once is waited for.
EnqW(o) ==
  /\ FreeToCall(o)
  /\ EnqueueAny(o) \/ ConvertAny(o)
  /\ LET queued == Queued(locks') \ Queued(locks)
     IN IF queued = {}
        THEN Deliver
        ELSE \E l \in queued : awaited' = [Woken EXCEPT ![o] = l]

\* $DEQ of one lock (with no value block).
Give(o, l) == FreeToCall(o) /\ Dequeue(o, l, "keep", ZeroValue) /\ Deliver

\* $DEQ with LCK$M_DEQALL of the locks at access mode a and above: for user
\* mode, what image rundown does (dequeueUserLocks).
GiveAll(o, a) == FreeToCall(o) /\ DequeueAll(o, a) /\ Deliver

GiveSublocks(o, p) == FreeToCall(o) /\ DequeueSublocks(o, p) /\ Deliver

\* Process deletion (releaseLocks), of a waiting process too.
DeleteProcess(o) ==
  /\ doomed = {}
  /\ Release(o, TRUE)
  /\ Deliver

RundownPass == RemoveNext /\ Deliver

\* checkDeadlocks, at one request whose due time has passed.
Search(t) ==
  /\ doomed = {}
  /\ t \in DOMAIN locks
  /\ Refuse(t)
  /\ Deliver

ClientInit == Init /\ awaited = [o \in Owner |-> NoLock]

ClientNext ==
  \/ \E o \in Owner :
       \/ EnqW(o)
       \/ \E l \in DOMAIN locks : Give(o, l)
       \/ \E a \in AccessMode : GiveAll(o, a)
       \/ \E p \in DOMAIN locks : GiveSublocks(o, p)
       \/ DeleteProcess(o)
  \/ RundownPass
  \/ \E t \in Id : Search(t)

\* What liveness needs.  A rundown runs to its end.  A process that is free
\* again and again gives its locks up in time: what a program that uses
\* locks promises (at its image's exit, if not before), not the lock manager.
\* Each queued request is searched from every DEADLOCK_WAIT.  All
\* three are strong fairness, a call being disabled while a rundown is under
\* way; the guards are written out, and are the enabling conditions.
CanGiveAll(o, a) ==
  FreeToCall(o) /\ \E l \in DOMAIN locks : locks[l].owner = o /\ locks[l].amode >= a

CanSearch(t) ==
  doomed = {} /\ t \in Queued(locks) /\ FindDeadlock(locks, resources, t)

ClientFairness ==
  /\ []<>(doomed # {}) => []<><<RundownPass>>_clientVars
  /\ \A o \in Owner, a \in AccessMode :
       []<>CanGiveAll(o, a) => []<><<GiveAll(o, a)>>_clientVars
  /\ \A t \in Id : []<>CanSearch(t) => []<><<Search(t)>>_clientVars

ClientSpec == ClientInit /\ [][ClientNext]_clientVars /\ ClientFairness

-----------------------------------------------------------------------------
\* No wake-up is lost: a process waits only for a request of its own that is
\* still queued, so some call to come can still end its wait (complete,
\* waitOnLock; a rundown and a deadlock's victim included).
WaitsAreQueued ==
  \A o \in Owner : awaited[o] # NoLock =>
    awaited[o] \in Queued(locks) /\ locks[awaited[o]].owner = o

\* Every $ENQW returns: granted, or refused to break a deadlock, or given up.
\* It rests on first-come-first-served queues, on the searches finding every
\* deadlock (NoUndetectedDeadlock, so on the modes in use), and on each
\* grant being made when it can be.
EveryRequestCompletes ==
  \A o \in Owner : awaited[o] # NoLock ~> awaited[o] = NoLock
=============================================================================
