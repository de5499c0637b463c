----------------------------- MODULE LockManager -----------------------------
(***************************************************************************)
(* The lock manager (internal/lck): the database of resources and locks    *)
(* that $ENQ, $DEQ and RMS's record locks share.                           *)
(*                                                                         *)
(* A Manager method runs to completion on the one goroutine that runs      *)
(* every process, so a method is one action.  The exception is the loop    *)
(* of removeWhere ($DEQ with LCK$M_DEQALL, and a process's rundown): one   *)
(* action collects the locks to remove in doomed, and RemoveNext is one    *)
(* pass of the loop.  Nothing else is enabled until doomed is empty, so    *)
(* the passes happen in the code's order and no other call falls between   *)
(* them; the invariants are checked, and proved, after every pass.         *)
(*                                                                         *)
(* A call that fails (a bad mode, a lock that is not the caller's,         *)
(* NOQUEUE on a request that cannot be granted at once, ...) changes       *)
(* nothing: it is a stuttering step.                                       *)
(***************************************************************************)
EXTENDS LockModes, Sequences, FiniteSets, SequencesExt

CONSTANTS
  Owner,        \* processes (lck.Owner)
  Name,         \* resource names, each with the UIC group it is named in
  AccessMode,   \* access modes in use, a subset of 0 (kernel) .. 3 (user)
  RequestMode,  \* lock modes requested
  MaxId,        \* the largest lock ID: 2^32 - 1 in the code
  MaxDepth,     \* bound: how deep sub-resources nest
  Value,        \* contents a value block may have
  ZeroValue,    \* the contents of a new resource's value block
  ValBlk,       \* choices of LCK$M_VALBLK
  Notice        \* choices of asking for a blocking AST

ASSUME ConstantsOK ==
  /\ AccessMode \subseteq 0 .. 3
  /\ RequestMode \subseteq Mode
  /\ MaxId \in Nat \ {0}
  /\ MaxDepth \in Nat \ {0}
  /\ ZeroValue \in Value
  /\ ValBlk \subseteq BOOLEAN
  /\ Notice \subseteq BOOLEAN

VARIABLES
  locks,      \* Manager.locks: the locks in the database, by ID
  resources,  \* Manager.resources: the resources that exist, by key
  lastID,     \* Manager.lastID
  doomed,     \* removeWhere's locks still to remove
  events      \* the events the last call, or pass, returned

vars == <<locks, resources, lastID, doomed, events>>

Id == 1 .. MaxId
NoLock == 0

\* A resource key: the path of names down from a root resource, each with
\* the access mode it is named in.  Its parent resource is its Front.
Resource == Seq(AccessMode \X Name) \ {<<>>}

State == {"Granted", "Converting", "Waiting"}
EventKind == {"Granted", "Blocking", "Aborted", "Canceled", "Deadlock"}

LockRecord ==
  [owner : Owner, amode : AccessMode, mode : Mode, requested : Mode,
   state : State, parent : Id \cup {NoLock}, resource : Resource,
   blocking : BOOLEAN, notified : BOOLEAN, valblk : BOOLEAN,
   value : Value, notValid : BOOLEAN, sublocks : Int]

\* The granted queue's order does not matter to the code, so it is not
\* kept: the granted locks are those whose state says so.
ResourceRecord ==
  [converting : Seq(Id), waiting : Seq(Id), children : Int,
   value : Value, invalid : BOOLEAN]

NewResource ==
  [converting |-> <<>>, waiting |-> <<>>, children |-> 0,
   value |-> ZeroValue, invalid |-> FALSE]

Event(kind, l) == [kind |-> kind, lock |-> l]

-----------------------------------------------------------------------------
(* Operators on a database: L is a value of locks, R of resources.  The    *)
(* steps of an operation pass them on to one another.                      *)

\* The locks held on r: granted, or converting and keeping their mode.
Holders(L, r) ==
  {l \in DOMAIN L : L[l].resource = r /\ L[l].state # "Waiting"}

\* The requests queued on r, in the order they are considered.
Queue(R, r) == R[r].converting \o R[r].waiting

CompatibleWithAll(L, r, l, m) ==
  \A o \in Holders(L, r) \ {l} : Compatible(m, L[o].mode)

\* Mutant: a new grant does not take its last notice back.
GrantedStillNotified(L, R, l, up) ==
  LET rec == L[l]
      copy == rec.valblk /\ up
  IN [rec EXCEPT
        !.mode = rec.requested,
        !.state = "Granted",
        !.value = IF copy THEN R[rec.resource].value ELSE @,
        !.notValid = copy /\ R[rec.resource].invalid]

\* Lock l granted at its requested mode.
GrantedRecord(L, R, l, up) ==
  LET rec == L[l]
      copy == rec.valblk /\ up
  IN [rec EXCEPT
        !.mode = rec.requested,
        !.state = "Granted",
        !.notified = FALSE,
        !.value = IF copy THEN R[rec.resource].value ELSE @,
        !.notValid = copy /\ R[rec.resource].invalid]

\* Mutant: what regrant's loop has granted so far is not seen by its next pass.
ModeBeforeRegrant(L, q, i, o) == L[o].mode

\* regrant's loop grants the queue's longest prefix each of whose requests
\* is compatible with every other holder, the ones granted before it in
\* the same loop included.
PrefixMode(L, q, i, o) ==
  IF \E j \in 1 .. (i - 1) : q[j] = o THEN L[o].requested ELSE L[o].mode

GrantableAt(L, q, r, i) ==
  \A o \in (Holders(L, r) \cup {q[j] : j \in 1 .. (i - 1)}) \ {q[i]} :
     Compatible(L[q[i]].requested, PrefixMode(L, q, i, o))

IsGrantCount(L, q, r, k) ==
  /\ \A i \in 1 .. k : GrantableAt(L, q, r, i)
  /\ k < Len(q) => ~GrantableAt(L, q, r, k + 1)

GrantCount(L, q, r) == CHOOSE k \in 0 .. Len(q) : IsGrantCount(L, q, r, k)

\* The queue entries past the first k of the whole queue.
LeftConverting(R, r, k) == SubSeq(R[r].converting, k + 1, Len(R[r].converting))
LeftWaiting(R, r, k) ==
  LET n == Len(R[r].converting)
  IN SubSeq(R[r].waiting, (IF k > n THEN k - n ELSE 0) + 1, Len(R[r].waiting))

Regrant(L, R, r) ==
  LET q == Queue(R, r)
      k == GrantCount(L, q, r)
      granted == {q[i] : i \in 1 .. k}
      up(l) == L[l].state = "Waiting" \/ L[l].requested > L[l].mode
  IN [locks |-> [l \in DOMAIN L |->
                   IF l \in granted THEN GrantedRecord(L, R, l, up(l)) ELSE L[l]],
      resources |-> [R EXCEPT ![r].converting = LeftConverting(R, r, k),
                              ![r].waiting = LeftWaiting(R, r, k)],
      events |-> {Event("Granted", l) : l \in granted}]

\* Holders on r to be told that they block a queued request.
ToNotify(L, R, r) ==
  {h \in Holders(L, r) :
     /\ L[h].blocking
     /\ ~L[h].notified
     /\ \E q \in ToSet(Queue(R, r)) \ {h} :
           ~Compatible(L[q].requested, L[h].mode)}

BlockingNotices(L, R, r) ==
  LET told == ToNotify(L, R, r)
  IN [locks |-> [l \in DOMAIN L |->
                   IF l \in told THEN [L[l] EXCEPT !.notified = TRUE] ELSE L[l]],
      events |-> {Event("Blocking", h) : h \in told}]

\* What a call leaves behind: the database after its blocking notices.
Finish(L, R, r, evs) ==
  LET n == BlockingNotices(L, R, r)
  IN /\ locks' = n.locks
     /\ resources' = R
     /\ events' = evs \cup n.events

\* The same, after granting what can be granted on r.
Settle(L, R, r, evs) ==
  LET g == Regrant(L, R, r)
  IN Finish(g.locks, g.resources, r, evs \cup g.events)

\* q without its one occurrence of l.
Without(q, l) == RemoveAt(q, CHOOSE i \in 1 .. Len(q) : q[i] = l)

\* R with the queued lock l off its queue.
Unqueue(L, R, l) ==
  CASE L[l].state = "Granted"    -> R
    [] L[l].state = "Converting" -> [R EXCEPT ![L[l].resource].converting = Without(@, l)]
    [] L[l].state = "Waiting"    -> [R EXCEPT ![L[l].resource].waiting = Without(@, l)]

-----------------------------------------------------------------------------
(* Enqueue *)

\* An ID's place among those newID tries: lastID + 1 first, modulo 2^32.
Turn(i) == (i + MaxId - lastID) % (MaxId + 1)

\* newID: the next ID in turn that is neither 0 nor in use.
NewID(l) ==
  /\ l \in Id \ DOMAIN locks
  /\ \A o \in Id \ DOMAIN locks : Turn(l) <= Turn(o)

\* R with r's resource in it: a fresh one joins its parent's children.
WithResource(R, r) ==
  IF r \in DOMAIN R
  THEN R
  ELSE [x \in DOMAIN R \cup {r} |->
          IF x = r THEN NewResource
          ELSE IF x = Front(r) THEN [R[x] EXCEPT !.children = @ + 1]
          ELSE R[x]]

\* A parent lock must be the caller's and granted, or converting.  Its
\* access mode replaces the request's.
ParentOK(o, p) ==
  \/ p = NoLock
  \/ p \in DOMAIN locks /\ locks[p].owner = o /\ locks[p].state # "Waiting"

RequestResource(p, a, n) ==
  IF p = NoLock
  THEN <<<<a, n>>>>
  ELSE Append(locks[p].resource, <<locks[p].amode, n>>)

\* Mutant: a sublock keeps the access mode its request names.
OwnAccessMode(p, a) == a

LockAccessMode(p, a) == IF p = NoLock THEN a ELSE locks[p].amode

NewLock(o, m, r, a, p, blk, vb) ==
  [owner |-> o, amode |-> a, mode |-> NL, requested |-> m,
   state |-> "Waiting", parent |-> p, resource |-> r,
   blocking |-> blk, notified |-> FALSE, valblk |-> vb,
   value |-> ZeroValue, notValid |-> FALSE, sublocks |-> 0]

\* L with the new record at l, counted among its parent's sublocks.
AddLock(L, l, rec) ==
  [x \in DOMAIN L \cup {l} |->
     IF x = l THEN rec
     ELSE IF x = rec.parent THEN [L[x] EXCEPT !.sublocks = @ + 1]
     ELSE L[x]]

\* Mutant: a queued conversion does not hold a new request back.
GrantableUnlessWaiting(R, r, m) ==
  R[r].waiting = <<>> /\ CompatibleWithAll(locks, r, NoLock, m)

\* A new lock is granted at once only if nothing at all is queued.
EnqueueGrantable(R, r, m) ==
  Queue(R, r) = <<>> /\ CompatibleWithAll(locks, r, NoLock, m)

\* The request becomes lock l, granted or at the end of the waiting queue.
EnqueueAs(l, o, m, n, a, p, blk, vb) ==
  /\ ParentOK(o, p)
  /\ LET r == RequestResource(p, a, n)
         R == WithResource(resources, r)
         L == AddLock(locks, l, NewLock(o, m, r, LockAccessMode(p, a), p, blk, vb))
     IN /\ Len(r) <= MaxDepth
        /\ IF EnqueueGrantable(R, r, m)
           THEN Finish([L EXCEPT ![l] = GrantedRecord(L, R, l, TRUE)], R, r, {})
           ELSE Finish(L, [R EXCEPT ![r].waiting = Append(@, l)], r, {})
  /\ UNCHANGED doomed

Enqueue(o, m, n, a, p, blk, vb) ==
  \E l \in 0 .. MaxId :
    /\ NewID(l)
    /\ lastID' = l
    /\ EnqueueAs(l, o, m, n, a, p, blk, vb)

-----------------------------------------------------------------------------
(* Convert *)

ConvertGrantable(l, m) ==
  LET r == locks[l].resource
  IN \/ NoMoreRestrictive(m, locks[l].mode)
     \/ resources[r].converting = <<>> /\ CompatibleWithAll(locks, r, l, m)

\* A PW or EX holder converting down stores its value block.
StoreDown(l, m, vb, v) ==
  LET r == locks[l].resource
  IN IF vb /\ Writes(locks[l].mode) /\ m < locks[l].mode
     THEN [resources EXCEPT ![r].value = v, ![r].invalid = FALSE]
     ELSE resources

Convert(o, l, m, blk, vb, v) ==
  /\ l \in DOMAIN locks
  /\ locks[l].owner = o
  /\ locks[l].state = "Granted"
  /\ LET r == locks[l].resource
         L == [locks EXCEPT ![l].valblk = vb, ![l].blocking = blk, ![l].requested = m]
         R == StoreDown(l, m, vb, v)
     IN IF ConvertGrantable(l, m)
        THEN Settle([L EXCEPT ![l] = GrantedRecord(L, R, l, m > locks[l].mode)], R, r, {})
        ELSE Finish([L EXCEPT ![l].state = "Converting"],
                    [resources EXCEPT ![r].converting = Append(@, l)], r, {})
  /\ UNCHANGED <<lastID, doomed>>

-----------------------------------------------------------------------------
(* Dequeue *)

\* Mutant: the requested mode is not set back.
UnconvertStillAsking(l, kind) ==
  Settle([locks EXCEPT ![l].state = "Granted"],
         Unqueue(locks, resources, l), locks[l].resource, {Event(kind, l)})

\* Mutant: nothing is granted once the conversion is out of the way.
UnconvertOnly(l, kind) ==
  Finish([locks EXCEPT ![l].state = "Granted", ![l].requested = locks[l].mode],
         Unqueue(locks, resources, l), locks[l].resource, {Event(kind, l)})

\* A queued conversion goes back to its granted mode.
Unconvert(l, kind) ==
  Settle([locks EXCEPT ![l].state = "Granted", ![l].requested = locks[l].mode],
         Unqueue(locks, resources, l), locks[l].resource, {Event(kind, l)})

\* $DEQ with LCK$M_CANCEL.  A waiting request is dequeued instead
\* (Dequeue), and a granted lock's cancel fails.
Cancel(o, l) ==
  /\ l \in DOMAIN locks
  /\ locks[l].owner = o
  /\ locks[l].state = "Converting"
  /\ Unconvert(l, "Canceled")
  /\ UNCHANGED <<lastID, doomed>>

\* Mutant: the parent still counts the sublock.
DropLockOnly(L, l) == [x \in DOMAIN L \ {l} |-> L[x]]

\* L without l, which leaves its parent's sublocks.
DropLock(L, l) ==
  [x \in DOMAIN L \ {l} |->
     IF x = L[l].parent THEN [L[x] EXCEPT !.sublocks = @ - 1] ELSE L[x]]

\* The resources deleteIfUnused deletes once no lock names r: r, if it
\* has no children, and each ancestor unused in its turn.  What goes is a
\* path up from r: x goes if every resource from x down to r is named by
\* no lock and has no child but the one below it.
Unused(L, R, x, r) ==
  /\ {l \in DOMAIN L : L[l].resource = x} = {}
  /\ R[x].children = IF x = r THEN 0 ELSE 1

Deleted(L, R, r) ==
  {x \in DOMAIN R :
     /\ IsPrefix(x, r)
     /\ \A y \in DOMAIN R : IsPrefix(x, y) /\ IsPrefix(y, r) => Unused(L, R, y, r)}

DeleteIfUnused(L, R, r) ==
  LET gone == Deleted(L, R, r)
  IN [x \in DOMAIN R \ gone |->
        IF \E g \in gone : Len(g) = Len(x) + 1 /\ IsPrefix(x, g)
        THEN [R[x] EXCEPT !.children = @ - 1]
        ELSE R[x]]

\* Mutant: only a waiting request is told that it is over.
RemoveLockQuietly(L, R, l, kind) ==
  LET r    == L[l].resource
      left == DropLock(L, l)
      rest == DeleteIfUnused(left, Unqueue(L, R, l), r)
      evs  == IF L[l].state = "Waiting" THEN {Event(kind, l)} ELSE {}
  IN IF r \in DOMAIN rest
     THEN Settle(left, rest, r, evs)
     ELSE locks' = left /\ resources' = rest /\ events' = evs

\* remove: l off its resource and out of the database, aborted if it was
\* queued, and what that lets through granted.
RemoveLock(L, R, l, kind) ==
  LET r    == L[l].resource
      left == DropLock(L, l)
      rest == DeleteIfUnused(left, Unqueue(L, R, l), r)
      evs  == IF L[l].state = "Granted" THEN {} ELSE {Event(kind, l)}
  IN IF r \in DOMAIN rest
     THEN Settle(left, rest, r, evs)
     ELSE locks' = left /\ resources' = rest /\ events' = evs

\* Mutant: a lock's requested mode decides whether it may write.
StoreBackAsRequested(l, how, v) ==
  LET r == locks[l].resource
  IN IF Writes(locks[l].requested) /\ how = "store"
     THEN [resources EXCEPT ![r].value = v, ![r].invalid = FALSE]
     ELSE resources

\* $DEQ's effect on the value block of a PW or EX lock's resource: "keep"
\* it, "store" v in it, or "invalidate" it (the code looks at that first).
StoreBack(l, how, v) ==
  LET r == locks[l].resource
      writer == locks[l].state # "Waiting" /\ Writes(locks[l].mode)
  IN CASE writer /\ how = "store"      -> [resources EXCEPT ![r].value = v, ![r].invalid = FALSE]
       [] writer /\ how = "invalidate" -> [resources EXCEPT ![r].invalid = TRUE]
       [] OTHER                        -> resources

Dequeue(o, l, how, v) ==
  /\ l \in DOMAIN locks
  /\ locks[l].owner = o
  /\ locks[l].sublocks = 0
  /\ RemoveLock(locks, StoreBack(l, how, v), l, "Aborted")
  /\ UNCHANGED <<lastID, doomed>>

-----------------------------------------------------------------------------
(* DequeueAll and Release: removeWhere *)

\* How many parents l has, counting from 1 for none.
Depth(l) == Len(locks[l].resource)

\* The locks below p, its sublocks, theirs, and so on: those in every set
\* that has p's sublocks and those of its members.
Below(p) ==
  {l \in DOMAIN locks :
     \A S \in SUBSET DOMAIN locks :
       {s \in DOMAIN locks : locks[s].parent \in S \cup {p}} \subseteq S => l \in S}

\* A lock to remove keeps the place its state gave it in the sort.
RemoveWhere(match) ==
  doomed' = {[lock |-> l, queued |-> locks[l].state # "Granted"] : l \in match}

\* Mutant: sublocks before their parents, and nothing else.
GoesBeforeByDepth(a, b) ==
  \/ Depth(a.lock) > Depth(b.lock)
  \/ Depth(a.lock) = Depth(b.lock) /\ a.lock < b.lock

\* Queued requests before granted locks, then the deepest first, then by ID.
GoesBefore(a, b) ==
  \/ a.queued /\ ~b.queued
  \/ /\ a.queued = b.queued
     /\ \/ Depth(a.lock) > Depth(b.lock)
        \/ Depth(a.lock) = Depth(b.lock) /\ a.lock < b.lock

\* $DEQ with LCK$M_DEQALL and no lock: the owner's locks at an access
\* mode and less privileged ones.
DequeueAll(o, a) ==
  /\ RemoveWhere({l \in DOMAIN locks : locks[l].owner = o /\ locks[l].amode >= a})
  /\ events' = {}
  /\ UNCHANGED <<locks, resources, lastID>>

\* The same with a lock: every sublock below it, but not it.
DequeueSublocks(o, p) ==
  /\ p \in DOMAIN locks
  /\ locks[p].owner = o
  /\ RemoveWhere(Below(p) \ {p})
  /\ events' = {}
  /\ UNCHANGED <<locks, resources, lastID>>

\* A process's rundown.  An abnormal one marks the value block of every
\* resource it could write invalid.
Release(o, abnormal) ==
  LET mine == {l \in DOMAIN locks : locks[l].owner = o}
      writers == {l \in mine : locks[l].state # "Waiting" /\ Writes(locks[l].mode)}
      spoilt == {locks[l].resource : l \in writers}
  IN /\ RemoveWhere(mine)
     /\ resources' = [r \in DOMAIN resources |->
                        IF abnormal /\ r \in spoilt
                        THEN [resources[r] EXCEPT !.invalid = TRUE]
                        ELSE resources[r]]
     /\ events' = {}
     /\ UNCHANGED <<locks, lastID>>

\* One pass of removeWhere's loop.
RemoveNext ==
  \E d \in doomed :
    /\ \A e \in doomed \ {d} : GoesBefore(d, e)
    /\ doomed' = doomed \ {d}
    /\ RemoveLock(locks, resources, d.lock, "Aborted")
    /\ UNCHANGED lastID

-----------------------------------------------------------------------------
(* Deadlock detection *)

Queued(L) == {l \in DOMAIN L : L[l].state # "Granted"}

Position(R, r, l) == CHOOSE i \in 1 .. Len(Queue(R, r)) : Queue(R, r)[i] = l

QueuedAhead(L, R, a, b) ==
  Position(R, L[b].resource, a) < Position(R, L[b].resource, b)

\* Mutant: only the locks held count.
BlocksByHolding(L, R, b, w) ==
  /\ b # w
  /\ L[b].resource = L[w].resource
  /\ L[w].state # "Granted"
  /\ L[b].state # "Waiting"
  /\ ~Compatible(L[b].mode, L[w].requested)

\* Lock b blocks the queued request w: it holds a mode w conflicts with,
\* or is queued ahead of w asking for one.
Blocks(L, R, b, w) ==
  /\ b # w
  /\ L[b].resource = L[w].resource
  /\ L[w].state # "Granted"
  /\ \/ L[b].state # "Waiting" /\ ~Compatible(L[b].mode, L[w].requested)
     \/ /\ L[b].state # "Granted"
        /\ QueuedAhead(L, R, b, w)
        /\ ~Compatible(L[b].requested, L[w].requested)

Blockers(L, R, w) == {b \in DOMAIN L : Blocks(L, R, b, w)}

OwnersOf(L, S) == {L[l].owner : l \in S}

\* Mutant: the blockers of the blockers' owners are followed no further: circles of two
\* are found, longer ones not.
FindShortDeadlock(L, R, t) ==
  LET next == OwnersOf(L, Blockers(L, R, t))
  IN  \/ L[t].owner \in next
      \/ \E w \in Queued(L) : L[w].owner \in next /\ L[t].owner \in OwnersOf(L, Blockers(L, R, w))

\* findDeadlock follows a request's blockers to their owners, and from an
\* owner to every request it has queued, each owner once, until it meets
\* the owner it started from: t is in a circle if its owner is in every
\* set of owners that holds its blockers' and is closed under that step.
\* (DeadlockSearch checks that the code's search computes this.)
FindDeadlock(L, R, t) ==
  \A S \in SUBSET Owner :
    (/\ OwnersOf(L, Blockers(L, R, t)) \subseteq S
     /\ \A w \in Queued(L) :
          L[w].owner \in S \ {L[t].owner}
            => OwnersOf(L, Blockers(L, R, w)) \subseteq S)
      => L[t].owner \in S

\* CheckDeadlocks searches from a queued request each time its due time
\* passes, and sets a new one when there is no deadlock.  The times are
\* left out: any queued request may be found due at any time.
Refuse(t) ==
  /\ t \in Queued(locks)
  /\ FindDeadlock(locks, resources, t)
  /\ IF locks[t].state = "Converting"
     THEN Unconvert(t, "Deadlock")
     ELSE RemoveLock(locks, resources, t, "Deadlock")
  /\ UNCHANGED <<lastID, doomed>>

-----------------------------------------------------------------------------
Init ==
  /\ locks = [l \in {} |-> NoLock]
  /\ resources = [r \in {} |-> NewResource]
  /\ lastID = 0
  /\ doomed = {}
  /\ events = {}

EnqueueAny(o) ==
  \E m \in RequestMode, n \in Name, a \in AccessMode, p \in DOMAIN locks \cup {NoLock},
     blk \in Notice, vb \in ValBlk : Enqueue(o, m, n, a, p, blk, vb)

ConvertAny(o) ==
  \E l \in DOMAIN locks, m \in RequestMode, blk \in Notice, vb \in ValBlk, v \in Value :
     Convert(o, l, m, blk, vb, v)

DequeueAny(o) ==
  \E l \in DOMAIN locks, how \in {"keep", "store", "invalidate"}, v \in Value :
     Dequeue(o, l, how, v)

Call(o) ==
  \/ EnqueueAny(o)
  \/ ConvertAny(o)
  \/ \E l \in DOMAIN locks : Cancel(o, l)
  \/ DequeueAny(o)
  \/ \E a \in AccessMode : DequeueAll(o, a)
  \/ \E p \in DOMAIN locks : DequeueSublocks(o, p)
  \/ \E abnormal \in BOOLEAN : Release(o, abnormal)

CheckDeadlocks == \E t \in DOMAIN locks : Refuse(t)

Next ==
  \/ doomed = {} /\ \E o \in Owner : Call(o)
  \/ doomed = {} /\ CheckDeadlocks
  \/ RemoveNext

Spec == Init /\ [][Next]_vars

-----------------------------------------------------------------------------
(* Properties *)

\* The state every variable of the database is in, between calls and
\* between the passes of removeWhere.
TypeOK ==
  /\ DOMAIN locks \subseteq Id
  /\ \A l \in DOMAIN locks : locks[l] \in LockRecord
  /\ DOMAIN resources \subseteq Resource
  /\ \A r \in DOMAIN resources : resources[r] \in ResourceRecord
  /\ lastID \in 0 .. MaxId
  /\ doomed \subseteq [lock : DOMAIN locks, queued : BOOLEAN]
  /\ events \subseteq [kind : EventKind, lock : Id]

\* What a lock manager is for: any two locks held on a resource, a
\* converting lock at the mode it keeps included, are at modes that may be
\* held together (mode.go's table; grant, Convert and regrant).
GrantedCompatible ==
  \A l, o \in DOMAIN locks :
    /\ l # o
    /\ locks[l].resource = locks[o].resource
    /\ locks[l].state # "Waiting"
    /\ locks[o].state # "Waiting"
    => Compatible(locks[l].mode, locks[o].mode)

\* A lock is on the queue its state names, once, and on no other; a lock
\* that is not converting asks for the mode it holds (the three queues of
\* a Resource against Lock.State; every append to and remove from them).
QueuesMatchStates ==
  /\ \A r \in DOMAIN resources :
       /\ IsInjective(resources[r].converting)
       /\ IsInjective(resources[r].waiting)
       /\ ToSet(resources[r].converting)
            = {l \in DOMAIN locks : locks[l].resource = r /\ locks[l].state = "Converting"}
       /\ ToSet(resources[r].waiting)
            = {l \in DOMAIN locks : locks[l].resource = r /\ locks[l].state = "Waiting"}
  /\ \A l \in DOMAIN locks :
       /\ locks[l].state = "Granted" => locks[l].requested = locks[l].mode
       /\ locks[l].state = "Converting"
            => ~NoMoreRestrictive(locks[l].requested, locks[l].mode)

\* No grant is lost: the request at the head of a resource's queue is one
\* that cannot be granted, whichever call or pass came last.  A head that
\* could be would wait for a call that need never come (regrant).
NoLostGrant ==
  \A r \in DOMAIN resources :
    LET q == Queue(resources, r)
    IN q # <<>> => ~GrantableAt(locks, q, r, 1)

\* No blocking notice is lost: a holder that asked for one and is in a queued
\* request's way is told in the step that makes it so, unless it has been
\* told since it was granted at this mode (blockingNotices, and notified in
\* grant; $ENQ's blocking AST).
NoMissedNotice ==
  [][\A h \in DOMAIN locks' :
       /\ locks'[h].blocking
       /\ locks'[h].state # "Waiting"
       /\ \E q \in Queued(locks') \ {h} :
            /\ locks'[q].resource = locks'[h].resource
            /\ ~Compatible(locks'[q].requested, locks'[h].mode)
       => \/ Event("Blocking", h) \in events'
          \/ /\ h \in DOMAIN locks
             /\ locks[h].notified
             /\ locks[h].mode = locks'[h].mode]_vars

\* The reference counts are right: what exists is what is named, and the
\* counts are how many name it.  A count too low lets a parent be dequeued
\* under its sublocks or a resource be deleted while it is locked; one too
\* high keeps it forever (sublocks, children, deleteIfUnused).
CountsExact ==
  /\ \A l \in DOMAIN locks :
       /\ locks[l].resource \in DOMAIN resources
       /\ locks[l].sublocks = Cardinality({s \in DOMAIN locks : locks[s].parent = l})
  /\ \A r \in DOMAIN resources :
       LET subs == {x \in DOMAIN resources : Len(x) > 1 /\ Front(x) = r}
       IN /\ resources[r].children = Cardinality(subs)
          /\ Len(r) > 1 => Front(r) \in DOMAIN resources
          /\ subs # {} \/ \E l \in DOMAIN locks : locks[l].resource = r

\* A sublock is its parent's owner's, at its parent's access mode, on a
\* sub-resource of the parent's; the parent is held for as long as it
\* lives.  Only within removeWhere can a sublock be without its parent, and
\* then it is going too: so a $DEQ by access mode, or a rundown, leaves no
\* sublock behind whose parent it took (Enqueue, removeWhere, ErrSublocks).
SublocksUnderParents ==
  \A l \in DOMAIN locks :
    LET p == locks[l].parent
        going(x) == \E d \in doomed : d.lock = x
    IN p # NoLock =>
         IF p \in DOMAIN locks
         THEN /\ locks[p].owner = locks[l].owner
              /\ locks[p].amode = locks[l].amode
              /\ locks[p].state # "Waiting"
              /\ locks[p].resource = Front(locks[l].resource)
              /\ going(p) => going(l)
         ELSE going(l)

\* Every queued request completes once: a request that stops being queued
\* is told so by exactly one event, the one that says what became of it, and
\* no other lock is told of a completion ($ENQ's lock status block, event
\* flag and completion AST hang on it: regrant, remove, Dequeue, refuse).
Outcome(l) ==
  IF l \notin DOMAIN locks'
  THEN {"Aborted", "Deadlock"}
  ELSE IF locks'[l].mode = locks[l].requested THEN {"Granted"} ELSE {"Canceled", "Deadlock"}

CompletesOnce ==
  LET told(l) == {e \in events' : e.lock = l /\ e.kind # "Blocking"}
      over == Queued(locks) \ Queued(locks')
  IN /\ \A l \in over : \E k \in Outcome(l) : told(l) = {Event(k, l)}
     /\ \A l \in Id \ over : told(l) = {}

CompletionMatches == [][CompletesOnce]_vars

\* Queues are first come, first served: while a request stays queued,
\* regrant grants nothing behind it, and no new request is granted past it
\* at all.  (A conversion granted at once may pass waiting requests, as
\* doc.go says.)
NoOvertaking ==
  [][\A l \in Queued(locks) \cap Queued(locks'), g \in DOMAIN locks' :
       /\ locks'[g].resource = locks[l].resource
       /\ Event("Granted", g) \in events' \/ (g \notin DOMAIN locks /\ locks'[g].state = "Granted")
       => g \in Queued(locks) /\ QueuedAhead(locks, resources, g, l)]_vars

\* The value block changes only by a writer giving up its write lock, and
\* is marked invalid only while a writer holds it: nobody else's write can
\* fall between a writer's grant and its store (Convert, Dequeue, Release).
OnlyWritersStore ==
  [][\A r \in DOMAIN resources \cap DOMAIN resources' :
       LET writers == {l \in Holders(locks, r) : Writes(locks[l].mode)}
       IN /\ resources'[r].value # resources[r].value
               => \E l \in writers : l \notin DOMAIN locks' \/ locks'[l].mode < locks[l].mode
          /\ resources'[r].invalid # resources[r].invalid => writers # {}]_vars

\* "Queued requests first, so that removing a granted lock doesn't grant
\* one about to go" (removeWhere's sort): once removeWhere removes granted
\* locks, it grants nothing it is about to remove.
NoGrantOfDoomed ==
  [][\A d \in doomed \ doomed' :
       ~d.queued => \A e \in doomed' : Event("Granted", e.lock) \notin events']_vars

\* Waiting is what regrant makes of it: a queued request waits for whoever
\* holds a mode in its way, and for everyone queued ahead of it.
HeldInTheWay(b, w) ==
  /\ b # w
  /\ locks[b].resource = locks[w].resource
  /\ locks[b].state # "Waiting"
  /\ ~Compatible(locks[w].requested, locks[b].mode)

Ahead(b, w) ==
  locks[b].resource = locks[w].resource /\ QueuedAhead(locks, resources, b, w)

\* Requests none of which can be granted before another of them is granted
\* or its owner lets go of a lock, each owner having one of them to wait for.
Deadlocked(W) ==
  \A w \in W :
    \/ \E b \in W : Ahead(b, w)
    \/ \E b \in DOMAIN locks : HeldInTheWay(b, w) /\ locks[b].owner \in OwnersOf(locks, W)

\* "A deadlock is a circle of locks each waiting for the next" (deadlock.go):
\* a search from some request of each deadlock finds it, so CheckDeadlocks
\* breaks it in time.  Blocks follows incompatible locks only, and
\* NoUndetectedDeadlock says that this is enough.
NoUndetectedDeadlock ==
  \A W \in SUBSET Queued(locks) \ {{}} :
    Deadlocked(W) => \E t \in W : FindDeadlock(locks, resources, t)
=============================================================================
