-------------------------- MODULE RecordLockProofs --------------------------
(***************************************************************************)
(* Proofs about RMS's record locks, over the proofs about the lock manager *)
(* they are taken from.                                                    *)
(*                                                                         *)
(* RmsInv relates three things a service of RMS changes one after another: *)
(* the streams' tables, the lock database, and the calls of $ENQ and $DEQ  *)
(* that are still to be made.  The locks of the database are the streams'  *)
(* but for those about to be dropped, and those about to be taken; every   *)
(* record a stream counts as locked is granted to it, or will be as soon   *)
(* as its call is made; the calls stand in an order in which no lock is    *)
(* dropped before its sublocks, and none is taken under a lock not taken.  *)
(*                                                                         *)
(* A service that decides for one stream is `Prepared`: OneStream shows    *)
(* that this is enough.  Closing many files is FilesClosed, a call of the  *)
(* lock manager CallMade.                                                  *)
(***************************************************************************)
EXTENDS RecordLocks, LockManagerProofs

-----------------------------------------------------------------------------
(* What a call of the lock manager leaves of the other locks *)

\* A lock left alone, or granted what it asks for; its count may change.
Kept(new, old) ==
  /\ new.owner = old.owner
  /\ new.amode = old.amode
  /\ new.parent = old.parent
  /\ new.resource = old.resource
  /\ new.requested = old.requested
  /\ \/ new.state = old.state /\ new.mode = old.mode
     \/ old.state # "Granted" /\ new.state = "Granted" /\ new.mode = old.requested

\* What a service leaves behind when it ends: the same locks, each in the mode
\* and the queue it was in.
LEMMA FinishKept ==
  ASSUME NEW L, NEW R, NEW r, NEW evs, LocksOK(L), Finish(L, R, r, evs)
  PROVE  /\ DOMAIN locks' = DOMAIN L
         /\ \A l \in DOMAIN L : Kept(locks'[l], L[l])
         /\ \A l \in DOMAIN L : L[l].state = locks'[l].state /\ L[l].mode = locks'[l].mode
<1>1. /\ DOMAIN locks' = DOMAIN L
      /\ \A l \in DOMAIN L :
           locks'[l] = L[l] \/ locks'[l] = [L[l] EXCEPT !.notified = TRUE]
  BY DEF Finish, BlockingNotices
<1>2. \A l \in DOMAIN L : L[l] \in LockRecord
  BY DEF LocksOK
<1> QED
  BY <1>1, <1>2 DEF Kept, LockRecord

\* A queue gone through: some waiting locks are granted what they asked for.
LEMMA SettleKept ==
  ASSUME NEW L, NEW R, NEW r \in DOMAIN R, NEW evs, DB(L, R), Settle(L, R, r, evs)
  PROVE  /\ DOMAIN locks' = DOMAIN L
         /\ \A l \in DOMAIN L : Kept(locks'[l], L[l])
<1> DEFINE g == Regrant(L, R, r)
<1>1. DB(g.locks, g.resources) /\ DOMAIN g.locks = DOMAIN L
  BY RegrantKeeps
<1>2. Finish(g.locks, g.resources, r, evs \cup g.events)
  BY DEF Settle
<1>3. \A l \in DOMAIN L : SamePlace(g.locks[l], L[l])
  <2>1. \A l \in DOMAIN L :
          g.locks[l] = L[l] \/ \E up : g.locks[l] = GrantedRecord(L, R, l, up)
    BY DEF Regrant
  <2> HIDE DEF g
  <2>2. \A l \in DOMAIN L : L[l] \in LockRecord
    BY DEF DB, LocksOK
  <2> QED
    BY <2>1, <2>2, GrantedInPlace DEF SamePlace
<1>4. \A l \in DOMAIN L :
        /\ g.locks[l].requested = L[l].requested
        /\ \/ g.locks[l].state = L[l].state /\ g.locks[l].mode = L[l].mode
           \/ L[l].state # "Granted" /\ g.locks[l].state = "Granted" /\ g.locks[l].mode = L[l].requested
  BY RegrantIs DEF IsRegrant
<1> HIDE DEF g
<1>5. /\ DOMAIN locks' = DOMAIN g.locks
      /\ \A l \in DOMAIN g.locks : Kept(locks'[l], g.locks[l])
      /\ \A l \in DOMAIN g.locks :
           g.locks[l].state = locks'[l].state /\ g.locks[l].mode = locks'[l].mode
  BY <1>1, <1>2, FinishKept DEF DB
<1> QED
  BY <1>1, <1>3, <1>4, <1>5 DEF Kept, SamePlace

\* A lock removed.
LEMMA RemoveLockKept ==
  ASSUME NEW L, NEW R, NEW l \in DOMAIN L, NEW kind \in EventKind, DB(L, R),
         RemoveLock(L, R, l, kind)
  PROVE  /\ DOMAIN locks' = DOMAIN L \ {l}
         /\ \A x \in DOMAIN L \ {l} : Kept(locks'[x], L[x])
<1> DEFINE r == L[l].resource
           left == DropLock(L, l)
           rest == DeleteIfUnused(left, Unqueue(L, R, l), r)
           evs == IF L[l].state = "Granted" THEN {} ELSE {Event(kind, l)}
<1>1. DB(left, rest) /\ DOMAIN left = DOMAIN L \ {l}
  BY DropLockKeeps, DeleteIfUnusedKeeps
<1>2. IF r \in DOMAIN rest
      THEN Settle(left, rest, r, evs)
      ELSE locks' = left /\ resources' = rest /\ events' = evs
  BY DEF RemoveLock
<1>3. \A x \in DOMAIN L \ {l} : Kept(left[x], L[x]) /\ left[x].state = L[x].state /\ left[x].mode = L[x].mode
  <2>1. \A x \in DOMAIN L \ {l} : left[x] = L[x] \/ left[x] = [L[x] EXCEPT !.sublocks = @ - 1]
    BY DEF DropLock
  <2>2. \A x \in DOMAIN L : L[x] \in LockRecord
    BY DEF DB, LocksOK
  <2> HIDE DEF left
  <2> QED
    BY <2>1, <2>2 DEF Kept, LockRecord
<1> HIDE DEF r, left, rest, evs
<1>4. CASE r \in DOMAIN rest
  <2>1. DOMAIN locks' = DOMAIN left /\ \A x \in DOMAIN left : Kept(locks'[x], left[x])
    BY <1>1, <1>2, <1>4, SettleKept
  <2> QED
    BY <1>1, <1>3, <2>1 DEF Kept
<1>5. CASE r \notin DOMAIN rest
  BY <1>1, <1>2, <1>3, <1>5
<1> QED
  BY <1>4, <1>5

\* $DEQ of a lock without sublocks.
LEMMA DequeueKept ==
  ASSUME NEW o, NEW l, DB(locks, resources), Tree(locks, resources, {}),
         Dequeue(o, l, "keep", ZeroValue)
  PROVE  /\ DB(locks', resources') /\ Tree(locks', resources', {})
         /\ DOMAIN locks' = DOMAIN locks \ {l}
         /\ \A x \in DOMAIN locks \ {l} : Kept(locks'[x], locks[x])
<1>1. ZeroValue \in Value
  BY ConstantsOK
<1>2. DB(locks', resources')
  BY <1>1, DequeueKeeps
<1>3. Tree(locks', resources', {} \ {l}) /\ {} \ {l} = {}
  BY <1>1, DequeueTree
<1>4. l \in DOMAIN locks /\ RemoveLock(locks, resources, l, "Aborted")
  BY DEF Dequeue, StoreBack
<1> QED
  BY <1>2, <1>3, <1>4, RemoveLockKept DEF EventKind

\* $ENQ of a new lock l: granted if nothing on its resource is queued, and it
\* may be held with all that are held.
LEMMA EnqueueKept ==
  ASSUME NEW l \in Id, l \notin DOMAIN locks, NEW o \in Owner, NEW m \in Mode, NEW n \in Name,
         NEW p \in DOMAIN locks \cup {NoLock}, NEW blk \in BOOLEAN, NEW vb \in BOOLEAN,
         DB(locks, resources), Tree(locks, resources, {}), 1 \in AccessMode,
         EnqueueAs(l, o, m, n, 1, p, blk, vb)
  PROVE  /\ DB(locks', resources') /\ Tree(locks', resources', {})
         /\ DOMAIN locks' = DOMAIN locks \cup {l}
         /\ \A x \in DOMAIN locks : Kept(locks'[x], locks[x])
         /\ locks'[l].owner = o
         /\ locks'[l].amode = LockAccessMode(p, 1)
         /\ locks'[l].parent = p
         /\ locks'[l].resource = RequestResource(p, 1, n)
         /\ locks'[l].requested = m
         /\ locks'[l].state \in {"Granted", "Waiting"}
         /\ (\A x \in DOMAIN locks :
               locks[x].resource = RequestResource(p, 1, n)
                 => locks[x].state = "Granted" /\ Compatible(m, locks[x].mode))
              => locks'[l].state = "Granted"
<1> DEFINE r == RequestResource(p, 1, n)
           R == WithResource(resources, r)
           rec == RequestLock(o, m, n, 1, p, blk, vb)
           L == AddLock(locks, l, rec)
           L2 == AddGranted(R, l, rec)
           R2 == [R EXCEPT ![r].waiting = Append(@, l)]
<1>1. DB(locks', resources') /\ Tree(locks', resources', {})
  BY EnqueueAsKeeps, EnqueueAsTree
<1>2. /\ EnqueueGrantable(R, r, m) => Finish(L2, R, r, {})
      /\ ~EnqueueGrantable(R, r, m) => Finish(L, R2, r, {})
  BY EnqueueAsSteps
<1>3. /\ rec \in LockRecord /\ rec.resource = r /\ r \in Resource
      /\ rec.state = "Waiting" /\ rec.requested = m
  BY RequestLockIs DEF DB
<1>4. rec.parent = p /\ rec.owner = o /\ rec.amode = LockAccessMode(p, 1)
  BY DEF RequestLock, NewLock
<1>5. DB(locks, R) /\ r \in DOMAIN R
  BY <1>3, WithResourceKeeps
<1>6. /\ DOMAIN L = DOMAIN locks \cup {l} /\ L[l] = rec
      /\ \A x \in DOMAIN locks : L[x] \in LockRecord
  BY AddedIs DEF DB
<1>7. \A x \in DOMAIN locks : Kept(L[x], locks[x]) /\ L[x].state = locks[x].state /\ L[x].mode = locks[x].mode
  <2>1. \A x \in DOMAIN locks : L[x] = locks[x] \/ L[x] = [locks[x] EXCEPT !.sublocks = @ + 1]
    BY DEF AddLock
  <2>2. \A x \in DOMAIN locks : locks[x] \in LockRecord
    BY DEF DB, LocksOK
  <2> HIDE DEF L
  <2> QED
    BY <2>1, <2>2 DEF Kept, LockRecord
<1>8. L2 = [L EXCEPT ![l] = GrantedRecord(L, R, l, TRUE)]
  BY DEF AddGranted
<1>9. (\A x \in DOMAIN locks :
         locks[x].resource = r => locks[x].state = "Granted" /\ Compatible(m, locks[x].mode))
        => EnqueueGrantable(R, r, m)
  <2> SUFFICES ASSUME \A x \in DOMAIN locks :
                        locks[x].resource = r
                          => locks[x].state = "Granted" /\ Compatible(m, locks[x].mode)
               PROVE  EnqueueGrantable(R, r, m)
    OBVIOUS
  <2> HIDE DEF r, R
  <2>1. IsQueue(locks, r, R[r].converting, R[r].waiting, Queue(R, r))
    BY <1>5, QueueOf
  <2>2. \A i \in 1 .. Len(Queue(R, r)) : FALSE
    BY <2>1 DEF IsQueue
  <2>3. Len(Queue(R, r)) = 0
    <3> DEFINE k == Len(Queue(R, r))
    <3>1. k \in Nat /\ \A i \in 1 .. k : FALSE
      BY <2>1, <2>2 DEF IsQueue
    <3> HIDE DEF k
    <3>2. k = 0
      BY <3>1
    <3> QED
      BY <3>2 DEF k
  <2>4. R[r].converting \in Seq(Id) /\ R[r].waiting \in Seq(Id)
    BY <2>1 DEF IsQueue
  <2>5. Queue(R, r) \in Seq(Id)
    BY <2>4, ConcatProperties DEF Queue
  <2>6. Queue(R, r) = <<>>
    BY <2>3, <2>5, EmptySeq
  <2>7. CompatibleWithAll(locks, r, NoLock, m)
    BY DEF CompatibleWithAll, Holders
  <2> QED
    BY <2>6, <2>7 DEF EnqueueGrantable
<1>10. rec.state = "Waiting" /\ LocksOK(L)
  BY <1>3, <1>6 DEF DB, LocksOK
<1> HIDE DEF r, R, rec, L, L2, R2
<1>11. CASE EnqueueGrantable(R, r, m)
  <2>1. DB(L2, R)
    BY <1>3, <1>5, <1>11, AddGrantedKeeps DEF EnqueueGrantable, L2
  <2>2. /\ DOMAIN locks' = DOMAIN L2
        /\ \A x \in DOMAIN L2 : Kept(locks'[x], L2[x])
        /\ \A x \in DOMAIN L2 : L2[x].state = locks'[x].state /\ L2[x].mode = locks'[x].mode
    BY <1>2, <1>11, <2>1, FinishKept DEF DB
  <2>3. /\ DOMAIN L2 = DOMAIN L
        /\ \A x \in DOMAIN locks : L2[x] = L[x]
        /\ L2[l] = GrantedRecord(L, R, l, TRUE)
    BY <1>6, <1>8
  <2>4. /\ SamePlace(L2[l], rec)
        /\ L2[l].state = "Granted" /\ L2[l].requested = m
    <3>1. L[l] \in LockRecord /\ R[L[l].resource] \in ResourceRecord
      BY <1>3, <1>5, <1>6 DEF DB, ResourcesOK
    <3> DEFINE up == TRUE
               gr == GrantedRecord(L, R, l, up)
    <3>0. up \in BOOLEAN
      OBVIOUS
    <3> HIDE DEF up
    <3>2. SamePlace(gr, L[l])
      BY <3>1, GrantedInPlace
    <3>3. gr.state = "Granted" /\ gr.requested = L[l].requested
      BY <3>0, <3>1, GrantedRecordIs
    <3> HIDE DEF gr
    <3>4. L2[l] = gr
      BY <2>3 DEF gr, up
    <3> QED
      BY <1>3, <1>6, <3>2, <3>3, <3>4
  <2>5. l \in DOMAIN L2 /\ DOMAIN locks' = DOMAIN locks \cup {l}
    BY <1>6, <2>2, <2>3
  <2>6. \A x \in DOMAIN locks : Kept(locks'[x], locks[x])
    <3>1. \A x \in DOMAIN locks : Kept(locks'[x], L[x])
      BY <1>6, <2>2, <2>3
    <3> QED
      BY <1>7, <3>1 DEF Kept
  <2>7. Kept(locks'[l], L2[l]) /\ locks'[l].state = "Granted"
    BY <2>2, <2>4, <2>5
  <2>8. /\ locks'[l].owner = o
        /\ locks'[l].amode = LockAccessMode(p, 1)
        /\ locks'[l].parent = p
        /\ locks'[l].resource = r
        /\ locks'[l].requested = m
    BY <1>3, <1>4, <2>4, <2>7 DEF Kept, SamePlace
  <2> QED
    BY <1>1, <2>5, <2>6, <2>7, <2>8 DEF r
<1>12. CASE ~EnqueueGrantable(R, r, m)
  <2>2. /\ DOMAIN locks' = DOMAIN L
        /\ \A x \in DOMAIN L : Kept(locks'[x], L[x])
        /\ \A x \in DOMAIN L : L[x].state = locks'[x].state /\ L[x].mode = locks'[x].mode
    BY <1>2, <1>10, <1>12, FinishKept
  <2> QED
    BY <1>1, <1>3, <1>4, <1>6, <1>7, <1>9, <1>12, <2>2 DEF Kept, r
<1> QED
  BY <1>11, <1>12

-----------------------------------------------------------------------------
(* The invariant *)

RecordMode == {EX, PW, PR}
FilePath == <<<<1, File>>>>
RecordPath(n) == <<<<1, File>>, <<1, n>>>>

\* RMS's locks are the NL lock a stream takes on its file, granted at once,
\* and those on records under it, which never convert.
IsFileLock(s, rec) ==
  /\ rec.owner = ProcessOf[s]
  /\ rec.amode = 1
  /\ rec.parent = NoLock
  /\ rec.resource = FilePath
  /\ rec.requested = NL
  /\ rec.state = "Granted"

IsRecordLock(s, n, rec) ==
  /\ rec.owner = ProcessOf[s]
  /\ rec.amode = 1
  /\ rec.parent = FileLock(s)
  /\ rec.resource = RecordPath(n)
  /\ rec.requested \in RecordMode
  /\ rec.state # "Converting"

LocksShaped ==
  \A l \in DOMAIN locks :
    \/ \E s \in Stream : l = FileLock(s) /\ IsFileLock(s, locks[l])
    \/ \E s \in Stream, n \in Cell : l = RecordLock(s, n) /\ IsRecordLock(s, n, locks[l])

\* A stream, and the records it has, or waits for, a lock on.
StreamRecord ==
  [file : BOOLEAN, held : SUBSET Cell, waiting : Cell \cup {None}, refused : BOOLEAN,
   limited : BOOLEAN, current : Cell \cup {None}, copy : {"as read", "changed", "put over"}]

StreamOK(st) ==
  /\ st \in StreamRecord
  /\ st.waiting \notin st.held
  /\ ~st.file => st.held = {} /\ st.waiting = None

Records(st) == st.held \cup IF st.waiting = None \/ st.refused THEN {} ELSE {st.waiting}

LocksFor(s, st) ==
  {RecordLock(s, n) : n \in Records(st)} \cup IF st.file THEN {FileLock(s)} ELSE {}

Theirs(streams) == UNION {LocksFor(s, streams[s]) : s \in Stream}

\* The locks that calls C drop and take, and those dropped before any is taken.
Drops(C) == {c.id : c \in {d \in C : d.svc = "deq"}}
Takes(C) == {c.id : c \in {d \in C : d.svc = "enq"}}
Early(C) == {c.id : c \in {d \in C : d.svc = "deq" /\ d.turn = 1}}

DropsOne(c, s) ==
  c.svc = "deq" /\ c.id \in {FileLock(s)} \cup {RecordLock(s, n) : n \in Cell}

CallOK(c) ==
  \E s \in Stream :
    \/ DropsOne(c, s) /\ c = Deq(s, c.id, c.turn) /\ c.turn \in Nat
    \/ c = Enq(s, FileLock(s), File, NL, NoLock, 2)
    \/ \E n \in Cell, m \in RecordMode : c = Enq(s, RecordLock(s, n), n, m, FileLock(s), 3)

\* A lock is dropped or taken once, and taken only if it is not there.  Of the
\* locks taken one at most is a record's; the file's is dropped last.
CallsOK(C) ==
  /\ \A c \in C : CallOK(c)
  /\ \A c, d \in C : c.id = d.id => c = d
  /\ \A c, d \in C : c.svc = "enq" /\ d.svc = "enq" /\ c.turn = d.turn => c = d
  /\ \A c, d \in C : c.svc = "deq" /\ d.svc = "enq" => c.turn \in {1, 4}
  /\ Takes(C) \cap DOMAIN locks = {}
  /\ \A c \in C, s \in Stream :
       c.svc = "deq" /\ c.id = FileLock(s) =>
         /\ \A d \in C : d.svc = "deq"
         /\ \A n \in Cell : RecordLock(s, n) \in DOMAIN locks =>
              \E d \in C : d.id = RecordLock(s, n) /\ d.turn < c.turn

\* Nothing on record n keeps a lock at mode m out.
Unopposed(n, m) ==
  \A l \in DOMAIN locks :
    locks[l].resource = RecordPath(n)
      => locks[l].state = "Granted" /\ Compatible(m, locks[l].mode)

\* A record a stream has locked: its lock is granted, or will be by a call.
HeldOK(s, n) ==
  /\ RecordLock(s, n) \in DOMAIN locks => locks[RecordLock(s, n)].state = "Granted"
  /\ \A c \in calls :
       c.svc = "enq" /\ c.id = RecordLock(s, n) => Unopposed(n, c.mode)

CopyOK(s, st) ==
  st.copy = "changed" /\ st.current \in st.held =>
    /\ RecordLock(s, st.current) \in DOMAIN locks
    /\ locks[RecordLock(s, st.current)].mode \notin {EX, PW}

QuotaOK ==
  /\ Cardinality(DOMAIN locks) <= ENQLM
  /\ Takes(calls) # {} =>
       Cardinality((DOMAIN locks \ Early(calls)) \cup Takes(calls)) <= ENQLM

RmsInv ==
  /\ DB(locks, resources) /\ Tree(locks, resources, {})
  /\ LocksShaped
  /\ cells \subseteq Cell
  /\ DOMAIN stream = Stream
  /\ \A s \in Stream : StreamOK(stream[s])
  /\ CallsOK(calls)
  /\ Theirs(stream) = (DOMAIN locks \ Drops(calls)) \cup Takes(calls)
  /\ \A s \in Stream : \A n \in stream[s].held : HeldOK(s, n)
  /\ \A s \in Stream : CopyOK(s, stream[s])
  /\ QuotaOK

-----------------------------------------------------------------------------
(* Locks and the records they are for *)

\* Every lock RMS takes has an ID of its own.
LEMMA LockNames ==
  /\ IsFiniteSet(Stream) /\ Cell \subseteq Nat \ {0} /\ None \notin Cell
  /\ \A s \in Stream : FileLock(s) \in Id
  /\ \A s \in Stream, n \in Cell : RecordLock(s, n) \in Id
  /\ \A s, t \in Stream, n \in Cell : FileLock(s) # RecordLock(t, n)
  /\ \A s, t \in Stream, n, m \in Cell : RecordLock(s, n) = RecordLock(t, m) => s = t /\ n = m
<1>1. PICK k \in Nat : Stream = 1 .. k
  BY RequestsOK
<1>2. IsFiniteSet(Stream) /\ Cardinality(Stream) = k
  BY <1>1, FS_Interval
<1>3. Cell \subseteq Nat \ {0} /\ None \notin Cell
  BY RequestsOK DEF Cell, File
<1>4. \A s \in Stream : FileLock(s) \in Id
  <2> SUFFICES ASSUME NEW s \in Stream PROVE s \in Id
    BY DEF FileLock
  <2>1. k * 0 + s \in Id
    BY <1>2, RequestsOK DEF File
  <2>2. k * 0 = 0
    OBVIOUS
  <2> QED
    BY <1>1, <2>1, <2>2
<1>5. \A s \in Stream, n \in Cell : RecordLock(s, n) \in Id
  BY RequestsOK DEF RecordLock, Cell
<1>6. ASSUME NEW n \in Nat, NEW m \in Nat, m > n, NEW s \in 1 .. k, NEW t \in 1 .. k
      PROVE  k * n + s # k * m + t
  <2>1. PICK d \in Nat : m = n + 1 + d
    <3>1. m - n - 1 \in Nat /\ m = n + 1 + (m - n - 1)
      BY <1>6
    <3> QED
      BY <3>1
  <2>2. k * m = k * n + k + k * d /\ k * d \in Nat /\ k * n \in Nat
    BY <2>1
  <2> DEFINE x == k * n
             y == k * d
  <2>3. x \in Nat /\ y \in Nat /\ k * m = x + k + y
    BY <2>2
  <2> HIDE DEF x, y
  <2>4. x + s # (x + k + y) + t
    BY <2>3
  <2> QED
    BY <2>3, <2>4 DEF x
<1>7. \A s, t \in Stream, n \in Cell : FileLock(s) # RecordLock(t, n)
  <2> SUFFICES ASSUME NEW s \in Stream, NEW t \in Stream, NEW n \in Cell
               PROVE  s # k * n + t
    BY <1>2 DEF FileLock, RecordLock
  <2>1. k * 0 + s # k * n + t
    BY <1>1, <1>3, <1>6
  <2>2. k * 0 = 0
    OBVIOUS
  <2> QED
    BY <1>1, <2>1, <2>2
<1>8. ASSUME NEW s \in Stream, NEW t \in Stream, NEW n \in Cell, NEW m \in Cell,
             RecordLock(s, n) = RecordLock(t, m)
      PROVE  s = t /\ n = m
  <2>1. k * n + s = k * m + t
    BY <1>2, <1>8 DEF RecordLock
  <2>2. n \in Nat /\ m \in Nat /\ s \in 1 .. k /\ t \in 1 .. k
    BY <1>1, <1>3
  <2>3. ~(m > n) /\ ~(n > m)
    BY <1>6, <2>1, <2>2
  <2>4. n = m
    BY <2>2, <2>3
  <2>5. k * n \in Nat
    BY <2>2
  <2> QED
    BY <2>1, <2>2, <2>4, <2>5
<1> QED
  BY <1>2, <1>3, <1>4, <1>5, <1>7, <1>8

\* RMS's resources have distinct names, and a stream's lock is on its own.
LEMMA RecordPaths ==
  /\ \A n : RecordPath(n) # FilePath
  /\ \A n, m : RecordPath(n) = RecordPath(m) => n = m
  /\ RequestResource(NoLock, 1, File) = FilePath /\ LockAccessMode(NoLock, 1) = 1
  /\ \A s \in Stream : \A n :
       FileLock(s) \in DOMAIN locks /\ IsFileLock(s, locks[FileLock(s)]) =>
         /\ RequestResource(FileLock(s), 1, n) = RecordPath(n)
         /\ LockAccessMode(FileLock(s), 1) = 1
<1>1. \A n : RecordPath(n) # FilePath
  <2> SUFFICES ASSUME NEW n, RecordPath(n) = FilePath PROVE FALSE
    OBVIOUS
  <2>1. Len(RecordPath(n)) = 2 /\ Len(FilePath) = 1
    BY DEF RecordPath, FilePath
  <2> QED
    BY <2>1
<1>2. ASSUME NEW n, NEW m, RecordPath(n) = RecordPath(m)
      PROVE  n = m
  <2>1. RecordPath(n)[2][2] = n /\ RecordPath(m)[2][2] = m
    BY DEF RecordPath
  <2> QED
    BY <1>2, <2>1
<1>3. \A s \in Stream : FileLock(s) # NoLock
  BY LockNames DEF Id, NoLock
<1>4. ASSUME NEW n PROVE Append(FilePath, <<1, n>>) = RecordPath(n)
  <2> DEFINE S == {<<1, File>>, <<1, n>>}
             e == <<1, n>>
  <2>1. FilePath \in Seq(S) /\ RecordPath(n) \in Seq(S) /\ e \in S
    BY DEF FilePath, RecordPath
  <2>2. /\ Len(FilePath) = 1 /\ FilePath[1] = <<1, File>>
        /\ Len(RecordPath(n)) = 2 /\ RecordPath(n)[1] = <<1, File>> /\ RecordPath(n)[2] = e
    BY DEF FilePath, RecordPath
  <2> HIDE DEF S, e
  <2>3. /\ Append(FilePath, e) \in Seq(S) /\ Len(Append(FilePath, e)) = 2
        /\ Append(FilePath, e)[1] = <<1, File>> /\ Append(FilePath, e)[2] = e
    BY <2>1, <2>2, AppendProperties
  <2>4. \A i \in 1 .. 2 : Append(FilePath, e)[i] = RecordPath(n)[i]
    BY <2>2, <2>3
  <2> QED
    BY <2>1, <2>2, <2>3, <2>4, SeqEqual DEF e
<1> QED
  BY <1>1, <1>2, <1>3, <1>4 DEF RequestResource, LockAccessMode, FilePath, IsFileLock

\* What RMS's locks look like lasts as long as they do.
LEMMA ShapeKept ==
  ASSUME NEW x \in DOMAIN locks, x \in DOMAIN locks', LocksShaped, Kept(locks'[x], locks[x])
  PROVE  \/ \E s \in Stream : x = FileLock(s) /\ IsFileLock(s, locks'[x])
         \/ \E s \in Stream, n \in Cell : x = RecordLock(s, n) /\ IsRecordLock(s, n, locks'[x])
<1>1. CASE \E s \in Stream : x = FileLock(s) /\ IsFileLock(s, locks[x])
  BY <1>1 DEF Kept, IsFileLock
<1>2. CASE \E s \in Stream, n \in Cell : x = RecordLock(s, n) /\ IsRecordLock(s, n, locks[x])
  BY <1>2 DEF Kept, IsRecordLock
<1> QED
  BY <1>1, <1>2 DEF LocksShaped

\* A lock for a record is that record's, and one for a file the file's.
LEMMA ShapeOf ==
  ASSUME LocksShaped, NEW s \in Stream
  PROVE  /\ FileLock(s) \in DOMAIN locks => IsFileLock(s, locks[FileLock(s)])
         /\ \A n \in Cell :
              RecordLock(s, n) \in DOMAIN locks => IsRecordLock(s, n, locks[RecordLock(s, n)])
         /\ \A l \in DOMAIN locks :
              locks[l].parent = FileLock(s) => \E n \in Cell : l = RecordLock(s, n)
<1>1. FileLock(s) \in DOMAIN locks => IsFileLock(s, locks[FileLock(s)])
  BY LockNames DEF LocksShaped, FileLock
<1>2. \A n \in Cell :
        RecordLock(s, n) \in DOMAIN locks => IsRecordLock(s, n, locks[RecordLock(s, n)])
  BY LockNames DEF LocksShaped
<1>3. \A l \in DOMAIN locks :
        locks[l].parent = FileLock(s) => \E n \in Cell : l = RecordLock(s, n)
  BY LockNames DEF LocksShaped, IsFileLock, IsRecordLock, FileLock, NoLock, Id
<1> QED
  BY <1>1, <1>2, <1>3

\* The sets of locks that the calls are about, once one of them is made.
LEMMA CallsLeft ==
  ASSUME NEW C, NEW c \in C, \A d \in C : c.id = d.id => c = d
  PROVE  /\ c.svc = "deq" => /\ Drops(C \ {c}) = Drops(C) \ {c.id}
                             /\ Takes(C \ {c}) = Takes(C)
                             /\ c.id \in Drops(C) /\ c.id \notin Takes(C)
                             /\ Early(C \ {c}) = Early(C) \ {c.id}
         /\ c.svc = "enq" => /\ Drops(C \ {c}) = Drops(C)
                             /\ Takes(C \ {c}) = Takes(C) \ {c.id}
                             /\ c.id \in Takes(C) /\ c.id \notin Drops(C)
                             /\ Early(C \ {c}) = Early(C)
<1>1. /\ \A D, x : x \in Drops(D) <=> \E d \in D : d.svc = "deq" /\ d.id = x
      /\ \A D, x : x \in Takes(D) <=> \E d \in D : d.svc = "enq" /\ d.id = x
      /\ \A D, x : x \in Early(D) <=> \E d \in D : d.svc = "deq" /\ d.turn = 1 /\ d.id = x
  BY DEF Drops, Takes, Early
<1>2. c.svc = "deq" => Drops(C \ {c}) = Drops(C) \ {c.id}
  BY <1>1
<1>3. c.svc = "deq" => Takes(C \ {c}) = Takes(C)
  <2> SUFFICES ASSUME c.svc = "deq", NEW x PROVE x \in Takes(C \ {c}) <=> x \in Takes(C)
    BY Zenon
  <2>1. \A d \in C : d.svc = "enq" => d # c
    OBVIOUS
  <2> QED
    BY <1>1, <2>1
<1>4. c.svc = "deq" => c.id \in Drops(C) /\ c.id \notin Takes(C)
  BY <1>1
<1>5. c.svc = "deq" => Early(C \ {c}) = Early(C) \ {c.id}
  BY <1>1
<1>6. c.svc = "enq" => Drops(C \ {c}) = Drops(C)
  <2> SUFFICES ASSUME c.svc = "enq", NEW x PROVE x \in Drops(C \ {c}) <=> x \in Drops(C)
    BY Zenon
  <2>1. \A d \in C : d.svc = "deq" => d # c
    OBVIOUS
  <2> QED
    BY <1>1, <2>1
<1>7. c.svc = "enq" => Takes(C \ {c}) = Takes(C) \ {c.id}
  BY <1>1
<1>8. c.svc = "enq" => c.id \in Takes(C) /\ c.id \notin Drops(C)
  BY <1>1
<1>9. c.svc = "enq" => Early(C \ {c}) = Early(C)
  <2> SUFFICES ASSUME c.svc = "enq", NEW x PROVE x \in Early(C \ {c}) <=> x \in Early(C)
    BY Zenon
  <2>1. \A d \in C : d.svc = "deq" => d # c
    OBVIOUS
  <2> QED
    BY <1>1, <2>1
<1> QED
  BY <1>2, <1>3, <1>4, <1>5, <1>6, <1>7, <1>8, <1>9

-----------------------------------------------------------------------------
(* A call made *)

\* What a call is about.
LEMMA CallIs ==
  ASSUME NEW c, CallOK(c)
  PROVE  /\ c.svc \in {"deq", "enq"} /\ c.id \in Id /\ c.turn \in Nat
         /\ c.svc = "enq" => c.turn \in {2, 3}
         /\ c.svc = "enq" /\ (\E s \in Stream, n \in Cell : c.id = RecordLock(s, n)) => c.turn = 3
<1>1. PICK s \in Stream :
        \/ DropsOne(c, s) /\ c = Deq(s, c.id, c.turn) /\ c.turn \in Nat
        \/ c = Enq(s, FileLock(s), File, NL, NoLock, 2)
        \/ \E n \in Cell, m \in RecordMode : c = Enq(s, RecordLock(s, n), n, m, FileLock(s), 3)
  BY DEF CallOK
<1>2. CASE DropsOne(c, s) /\ c = Deq(s, c.id, c.turn) /\ c.turn \in Nat
  BY <1>2, LockNames DEF DropsOne
<1>3. CASE c = Enq(s, FileLock(s), File, NL, NoLock, 2)
  BY <1>3, LockNames DEF Enq
<1>4. CASE \E n \in Cell, m \in RecordMode : c = Enq(s, RecordLock(s, n), n, m, FileLock(s), 3)
  BY <1>4, LockNames DEF Enq
<1> QED
  BY <1>1, <1>2, <1>3, <1>4

\* The locks there are, and will be, are finitely many.
LEMMA FiniteLocks ==
  ASSUME LocksOK(locks), NEW C, \A c \in C : CallOK(c)
  PROVE  /\ IsFiniteSet(DOMAIN locks) /\ IsFiniteSet((DOMAIN locks \ Early(C)) \cup Takes(C))
<1>1. IsFiniteSet(Id)
  BY FS_Interval, ConstantsOK DEF Id
<1>2. DOMAIN locks \subseteq Id /\ Takes(C) \subseteq Id
  BY CallIs DEF LocksOK, Takes
<1> QED
  BY <1>1, <1>2, FS_Subset

\* The calls still to make, once one of them is made.
LEMMA CallMadeCalls ==
  ASSUME RmsInv, NEW c \in calls, calls' = calls \ {c},
         \/ c.svc = "deq" /\ DOMAIN locks' = DOMAIN locks \ {c.id}
         \/ c.svc = "enq" /\ DOMAIN locks' = DOMAIN locks \cup {c.id}
  PROVE  CallsOK(calls)'
<1> USE DEF RmsInv
<1>1. /\ \A d \in calls' : CallOK(d)
      /\ \A d, e \in calls' : d.id = e.id => d = e
      /\ \A d, e \in calls' : d.svc = "enq" /\ e.svc = "enq" /\ d.turn = e.turn => d = e
      /\ \A d, e \in calls' : d.svc = "deq" /\ e.svc = "enq" => d.turn \in {1, 4}
  BY DEF CallsOK
<1>2. Takes(calls') \cap DOMAIN locks' = {}
  BY CallsLeft DEF CallsOK
<1>3. ASSUME NEW d \in calls', NEW s \in Stream, d.svc = "deq", d.id = FileLock(s)
      PROVE  /\ \A e \in calls' : e.svc = "deq"
             /\ \A n \in Cell : RecordLock(s, n) \in DOMAIN locks' =>
                  \E e \in calls' : e.id = RecordLock(s, n) /\ e.turn < d.turn
  <2>1. /\ \A e \in calls : e.svc = "deq"
        /\ \A n \in Cell : RecordLock(s, n) \in DOMAIN locks =>
             \E e \in calls : e.id = RecordLock(s, n) /\ e.turn < d.turn
    BY <1>3 DEF CallsOK
  <2>2. DOMAIN locks' = DOMAIN locks \ {c.id}
    BY <2>1
  <2> QED
    BY <2>1, <2>2
<1>4. (\A d : CallOK(d)' <=> CallOK(d)) /\ Takes(calls)' = Takes(calls')
  BY DEF CallOK, DropsOne, Deq, Enq, FileLock, RecordLock, RecordMode, Takes
<1> QED
  BY <1>1, <1>2, <1>3, <1>4 DEF CallsOK, FileLock, RecordLock

\* The records a stream counts as locked stay granted, or about to be, while
\* a call of another stream, or of its own, is made.
LEMMA CallMadeHeld ==
  ASSUME RmsInv, NEW c \in calls, \A d \in calls : c.turn <= d.turn,
         calls' = calls \ {c}, stream' = stream,
         \/ c.svc = "deq" /\ DOMAIN locks' = DOMAIN locks \ {c.id}
         \/ c.svc = "enq" /\ DOMAIN locks' = DOMAIN locks \cup {c.id},
         \A x \in DOMAIN locks \cap DOMAIN locks' : Kept(locks'[x], locks[x]),
         c.svc = "enq" =>
           /\ \A s \in Stream, n \in Cell :
                c.id = RecordLock(s, n) /\ Unopposed(n, c.mode) => locks'[c.id].state = "Granted"
           /\ \A s \in Stream : c.id = FileLock(s) => locks'[c.id].resource = FilePath,
         NEW s \in Stream, NEW n \in stream[s].held
  PROVE  HeldOK(s, n)'
<1> DEFINE l == RecordLock(s, n)
<1>1. n \in Cell /\ HeldOK(s, n)
  BY DEF RmsInv, StreamOK, StreamRecord
<1>2. l' = l
  BY DEF RecordLock
<1>3. l \in DOMAIN locks' => locks'[l].state = "Granted"
  <2>1. CASE l \in DOMAIN locks
    BY <1>1, <2>1 DEF HeldOK, Kept
  <2>2. CASE l \notin DOMAIN locks /\ l \in DOMAIN locks'
    <3>1. c.svc = "enq" /\ c.id = l
      BY <2>2
    <3> QED
      BY <1>1, <3>1 DEF HeldOK
  <2> QED
    BY <2>1, <2>2
<1>4. ASSUME NEW d \in calls', d.svc = "enq", d.id = l
      PROVE  Unopposed(n, d.mode)'
  <2>1. d \in calls /\ d # c /\ Unopposed(n, d.mode)
    BY <1>1, <1>4 DEF HeldOK
  <2>2. \A x \in DOMAIN locks \cap DOMAIN locks' :
          locks'[x].resource = RecordPath(n)
            => locks'[x].state = "Granted" /\ Compatible(d.mode, locks'[x].mode)
    BY <2>1 DEF Unopposed, Kept
  <2>3. CASE c.svc = "deq"
    BY <2>2, <2>3 DEF Unopposed, RecordPath
  <2>4. CASE c.svc = "enq"
    <3>1. CallOK(c) /\ CallOK(d)
      BY <2>1 DEF RmsInv, CallsOK
    <3>2. d.turn = 3 /\ c.turn \in {2, 3} /\ c.turn # d.turn
      BY <1>1, <1>4, <2>1, <2>4, <3>1, CallIs DEF RmsInv, CallsOK
    <3>3. PICK t \in Stream : c.id = FileLock(t)
      BY <2>4, <3>1, <3>2 DEF CallOK, Deq, Enq
    <3>4. locks'[c.id].resource # RecordPath(n)
      BY <2>4, <3>3, RecordPaths
    <3>5. DOMAIN locks' = DOMAIN locks \cup {c.id}
      BY <2>4
    <3> QED
      BY <2>2, <3>4, <3>5 DEF Unopposed, RecordPath
  <2> QED
    BY <2>3, <2>4
<1> QED
  BY <1>2, <1>3, <1>4 DEF HeldOK

\* A call of RMS's is made: what must be known of its effect for the whole
\* invariant to hold after it.
LEMMA CallMade ==
  ASSUME RmsInv, NEW c \in calls, \A d \in calls : c.turn <= d.turn,
         calls' = calls \ {c}, stream' = stream, cells' = cells,
         DB(locks', resources'), Tree(locks', resources', {}),
         \/ c.svc = "deq" /\ DOMAIN locks' = DOMAIN locks \ {c.id}
         \/ c.svc = "enq" /\ DOMAIN locks' = DOMAIN locks \cup {c.id},
         \A x \in DOMAIN locks \cap DOMAIN locks' : Kept(locks'[x], locks[x]),
         c.svc = "enq" =>
           /\ \A s \in Stream, n \in Cell :
                c.id = RecordLock(s, n) /\ Unopposed(n, c.mode) => locks'[c.id].state = "Granted"
           /\ \/ \E s \in Stream : c.id = FileLock(s) /\ IsFileLock(s, locks'[c.id])
              \/ \E s \in Stream, n \in Cell : c.id = RecordLock(s, n) /\ IsRecordLock(s, n, locks'[c.id])
  PROVE  RmsInv'
<1>1. LocksShaped'
  <2> SUFFICES ASSUME NEW x \in DOMAIN locks'
               PROVE  \/ \E s \in Stream : x = FileLock(s) /\ IsFileLock(s, locks'[x])
                      \/ \E s \in Stream, n \in Cell : x = RecordLock(s, n) /\ IsRecordLock(s, n, locks'[x])
    BY DEF LocksShaped, FileLock, RecordLock, IsFileLock, IsRecordLock
  <2>1. CASE x \in DOMAIN locks
    BY <2>1, ShapeKept DEF RmsInv
  <2>2. CASE x \notin DOMAIN locks
    <3>1. c.svc = "enq" /\ x = c.id
      BY <2>2
    <3> QED
      BY <3>1
  <2> QED
    BY <2>1, <2>2
<1>2. CallsOK(calls)'
  BY CallMadeCalls
<1>3. \A d \in calls : c.id = d.id => c = d
  BY DEF RmsInv, CallsOK
<1>4. Theirs(stream)' = (DOMAIN locks' \ Drops(calls')) \cup Takes(calls')
  <2>1. Theirs(stream)' = Theirs(stream)
    BY DEF Theirs, LocksFor, Records, RecordLock, FileLock
  <2>2. Theirs(stream) = (DOMAIN locks \ Drops(calls)) \cup Takes(calls)
    BY DEF RmsInv
  <2>3. CASE c.svc = "deq"
    <3>1. /\ Drops(calls') = Drops(calls) \ {c.id} /\ Takes(calls') = Takes(calls)
          /\ c.id \in Drops(calls) /\ DOMAIN locks' = DOMAIN locks \ {c.id}
      BY <1>3, <2>3, CallsLeft
    <3> QED
      BY <2>1, <2>2, <3>1
  <2>4. CASE c.svc = "enq"
    <3>1. /\ Drops(calls') = Drops(calls) /\ Takes(calls') = Takes(calls) \ {c.id}
          /\ c.id \in Takes(calls) /\ c.id \notin Drops(calls) /\ DOMAIN locks' = DOMAIN locks \cup {c.id}
      BY <1>3, <2>4, CallsLeft
    <3> QED
      BY <2>1, <2>2, <3>1
  <2> QED
    BY <2>3, <2>4
<1>5. ASSUME NEW s \in Stream, NEW n \in stream[s].held
      PROVE  HeldOK(s, n)'
  <2>1. c.svc = "enq" => \A t \in Stream : c.id = FileLock(t) => locks'[c.id].resource = FilePath
    BY LockNames DEF IsFileLock
  <2> QED
    BY <2>1, CallMadeHeld
<1>6. ASSUME NEW s \in Stream
      PROVE  CopyOK(s, stream[s])'
  <2> DEFINE st == stream[s]
             l == RecordLock(s, st.current)
  <2> SUFFICES ASSUME st.copy = "changed", st.current \in st.held
               PROVE  l \in DOMAIN locks' /\ locks'[l].mode \notin {EX, PW}
    BY DEF CopyOK, RecordLock
  <2>1. l \in DOMAIN locks /\ locks[l].mode \notin {EX, PW} /\ locks[l].state = "Granted"
    BY DEF RmsInv, CopyOK, HeldOK
  <2>2. l \in LocksFor(s, st)
    BY DEF LocksFor, Records
  <2> HIDE DEF l
  <2>3. l \notin Drops(calls)
    BY <2>1, <2>2 DEF RmsInv, CallsOK, Theirs
  <2>4. c.svc = "deq" => c.id # l
    BY <1>3, <2>3, CallsLeft
  <2> QED
    BY <2>1, <2>4 DEF Kept
<1>7. QuotaOK'
  <2>1. CASE c.svc = "deq"
    <3>1. Cardinality(DOMAIN locks') <= ENQLM
      <4>1. IsFiniteSet(DOMAIN locks) /\ DOMAIN locks' \subseteq DOMAIN locks
        BY <2>1, FiniteLocks DEF RmsInv, DB, CallsOK
      <4>2. Cardinality(DOMAIN locks') <= Cardinality(DOMAIN locks)
        BY <4>1, FS_Subset
      <4>3. Cardinality(DOMAIN locks) \in Nat /\ Cardinality(DOMAIN locks') \in Nat /\ ENQLM \in Nat
        BY <4>1, FS_Subset, FS_CardinalityType, RequestsOK
      <4> QED
        BY <4>2, <4>3 DEF RmsInv, QuotaOK
    <3>2. /\ Takes(calls') = Takes(calls)
          /\ Takes(calls) # {} =>
               (DOMAIN locks' \ Early(calls')) \cup Takes(calls')
                 = (DOMAIN locks \ Early(calls)) \cup Takes(calls)
      <4>1. Early(calls') = Early(calls) \ {c.id} /\ Takes(calls') = Takes(calls)
        BY <1>3, <2>1, CallsLeft
      <4>2. c.id \notin DOMAIN locks' /\ c.id \notin Takes(calls) /\ DOMAIN locks' = DOMAIN locks \ {c.id}
        BY <1>3, <2>1, CallsLeft
      <4>3. Takes(calls) # {} => c.id \in Early(calls) \/ c.id \notin DOMAIN locks
        <5> SUFFICES ASSUME Takes(calls) # {} PROVE c.id \in Early(calls)
          OBVIOUS
        <5>1. PICK d \in calls : d.svc = "enq"
          BY DEF Takes
        <5>2. d.turn \in {2, 3} /\ c.turn \in {1, 4} /\ c.turn <= d.turn
          BY <2>1, <5>1, CallIs DEF RmsInv, CallsOK
        <5>3. c.turn = 1
          BY <5>2
        <5> QED
          BY <2>1, <5>3 DEF Early
      <4> QED
        BY <4>1, <4>2, <4>3
    <3> QED
      BY <3>1, <3>2 DEF RmsInv, QuotaOK, Takes, Early
  <2>2. CASE c.svc = "enq"
    <3>1. Early(calls) = {}
      <4>1. CallOK(c)
        BY DEF RmsInv, CallsOK
      <4>2. c.turn \in {2, 3}
        BY <2>2, <4>1, CallIs
      <4> QED
        BY <4>2 DEF Early
    <3>2. /\ Early(calls') = {} /\ Takes(calls') = Takes(calls) \ {c.id} /\ c.id \in Takes(calls)
          /\ DOMAIN locks' = DOMAIN locks \cup {c.id}
      BY <1>3, <2>2, <3>1, CallsLeft
    <3> DEFINE T == (DOMAIN locks \ Early(calls)) \cup Takes(calls)
    <3>3. IsFiniteSet(T) /\ Cardinality(T) <= ENQLM
      BY <3>2, FiniteLocks DEF RmsInv, DB, CallsOK, QuotaOK
    <3>4. DOMAIN locks' \subseteq T /\ (DOMAIN locks' \ Early(calls')) \cup Takes(calls') = T
      BY <3>1, <3>2
    <3>5. Cardinality(DOMAIN locks') <= ENQLM
      <4>1. Cardinality(DOMAIN locks') <= Cardinality(T)
        BY <3>3, <3>4, FS_Subset
      <4>2. Cardinality(T) \in Nat /\ Cardinality(DOMAIN locks') \in Nat /\ ENQLM \in Nat
        BY <3>3, <3>4, FS_Subset, FS_CardinalityType, RequestsOK
      <4> QED
        BY <3>3, <4>1, <4>2
    <3> QED
      BY <3>3, <3>4, <3>5 DEF QuotaOK, Takes, Early
  <2> QED
    BY <2>1, <2>2
<1>8. DOMAIN stream' = Stream /\ cells' \subseteq Cell /\ \A s \in Stream : StreamOK(stream[s])'
  BY DEF RmsInv, StreamOK, StreamRecord
<1> QED
  BY <1>1, <1>2, <1>4, <1>5, <1>6, <1>7, <1>8 DEF RmsInv, Tree, LocksCounted, Nodes, Used, Placed, DB

\* A lock nothing happens to.
LEMMA KeptItself ==
  ASSUME NEW r PROVE Kept(r, r)
  BY DEF Kept

\* A lock to drop has no sublocks when its turn comes.
LEMMA DropsAreLeaves ==
  ASSUME RmsInv, NEW c \in calls, \A d \in calls : c.turn <= d.turn, c.svc = "deq",
         c.id \in DOMAIN locks
  PROVE  locks[c.id].sublocks = 0
<1>1. CallOK(c)
  BY DEF RmsInv, CallsOK
<1>2. PICK s \in Stream : DropsOne(c, s)
  BY <1>1 DEF CallOK, Enq
<1>3. Children(locks, c.id) = {}
  <2>1. CASE c.id = FileLock(s)
    <3>1. ASSUME NEW n \in Cell PROVE RecordLock(s, n) \notin DOMAIN locks
      <4> SUFFICES ASSUME RecordLock(s, n) \in DOMAIN locks PROVE FALSE
        OBVIOUS
      <4>1. PICK d \in calls : d.turn < c.turn
        BY <2>1 DEF RmsInv, CallsOK
      <4>2. c.turn <= d.turn /\ c.turn \in Nat /\ d.turn \in Nat
        BY CallIs DEF RmsInv, CallsOK
      <4> QED
        BY <4>1, <4>2
    <3> QED
      BY <2>1, <3>1, ShapeOf DEF Children, RmsInv
  <2>2. CASE \E n \in Cell : c.id = RecordLock(s, n)
    <3>1. \A l \in DOMAIN locks : locks[l].parent = NoLock \/ \E t \in Stream : locks[l].parent = FileLock(t)
      BY DEF RmsInv, LocksShaped, IsFileLock, IsRecordLock
    <3>2. c.id # NoLock /\ \A t \in Stream : c.id # FileLock(t)
      BY <2>2, LockNames DEF Id, NoLock
    <3> QED
      BY <3>1, <3>2 DEF Children
  <2> QED
    BY <1>2, <2>1, <2>2 DEF DropsOne
<1> QED
  BY <1>3, FS_EmptySet DEF RmsInv, Tree, LocksCounted

\* A file's lock taken.
LEMMA FileTaken ==
  ASSUME RmsInv, NEW s \in Stream, NEW blk \in BOOLEAN, NEW vb \in BOOLEAN, NEW l, l = FileLock(s),
         l \notin DOMAIN locks,
         EnqueueAs(l, ProcessOf[s], NL, File, 1, NoLock, blk, vb)
  PROVE  /\ DB(locks', resources') /\ Tree(locks', resources', {})
         /\ DOMAIN locks' = DOMAIN locks \cup {l}
         /\ \A x \in DOMAIN locks : Kept(locks'[x], locks[x])
         /\ IsFileLock(s, locks'[l])
<1>1. /\ l \in Id /\ ProcessOf[s] \in Owner /\ NL \in Mode /\ File \in Name
      /\ NoLock \in DOMAIN locks \cup {NoLock} /\ 1 \in AccessMode
  BY LockNames, RequestsOK DEF Mode, NL, EX
<1>2. \A x \in DOMAIN locks :
        locks[x].resource = RequestResource(NoLock, 1, File)
          => locks[x].state = "Granted" /\ Compatible(NL, locks[x].mode)
  <2> SUFFICES ASSUME NEW x \in DOMAIN locks, locks[x].resource = FilePath
               PROVE  locks[x].state = "Granted" /\ Compatible(NL, locks[x].mode)
    BY RecordPaths
  <2>1. locks[x].state = "Granted"
    BY RecordPaths DEF RmsInv, LocksShaped, IsFileLock, IsRecordLock
  <2>2. locks[x].mode \in Mode
    BY DEF RmsInv, DB, LocksOK, LockRecord
  <2> QED
    BY <2>1, <2>2 DEF Compatible, Share, Mode, NL, CR, CW, PR, PW, EX
<1>3. /\ DB(locks', resources') /\ Tree(locks', resources', {})
      /\ DOMAIN locks' = DOMAIN locks \cup {l}
      /\ \A x \in DOMAIN locks : Kept(locks'[x], locks[x])
      /\ locks'[l].owner = ProcessOf[s]
      /\ locks'[l].amode = LockAccessMode(NoLock, 1)
      /\ locks'[l].parent = NoLock
      /\ locks'[l].resource = RequestResource(NoLock, 1, File)
      /\ locks'[l].requested = NL
      /\ locks'[l].state = "Granted"
  <2>1. DB(locks, resources) /\ Tree(locks, resources, {})
    BY DEF RmsInv
  <2> DEFINE o == ProcessOf[s]
             p == NoLock
             m == NL
             n == File
  <2>2. /\ o \in Owner /\ m \in Mode /\ n \in Name /\ p \in DOMAIN locks \cup {NoLock}
        /\ EnqueueAs(l, o, m, n, 1, p, blk, vb)
        /\ \A x \in DOMAIN locks :
             locks[x].resource = RequestResource(p, 1, n)
               => locks[x].state = "Granted" /\ Compatible(m, locks[x].mode)
    BY <1>1, <1>2
  <2> HIDE DEF o, p, m, n
  <2>3. /\ DB(locks', resources') /\ Tree(locks', resources', {})
        /\ DOMAIN locks' = DOMAIN locks \cup {l}
        /\ \A x \in DOMAIN locks : Kept(locks'[x], locks[x])
        /\ locks'[l].owner = o
        /\ locks'[l].amode = LockAccessMode(p, 1)
        /\ locks'[l].parent = p
        /\ locks'[l].resource = RequestResource(p, 1, n)
        /\ locks'[l].requested = m
        /\ locks'[l].state = "Granted"
    BY <1>1, <2>1, <2>2, EnqueueKept
  <2> QED
    BY <2>3 DEF o, p, m, n
<1> QED
  BY <1>3, RecordPaths DEF IsFileLock

\* A record's.
LEMMA RecordTaken ==
  ASSUME RmsInv, NEW s \in Stream, NEW n \in Cell, NEW m \in RecordMode,
         NEW blk \in BOOLEAN, NEW vb \in BOOLEAN, NEW l, l = RecordLock(s, n), l \notin DOMAIN locks,
         EnqueueAs(l, ProcessOf[s], m, n, 1, FileLock(s), blk, vb)
  PROVE  /\ DB(locks', resources') /\ Tree(locks', resources', {})
         /\ DOMAIN locks' = DOMAIN locks \cup {l}
         /\ \A x \in DOMAIN locks : Kept(locks'[x], locks[x])
         /\ IsRecordLock(s, n, locks'[l])
         /\ Unopposed(n, m) => locks'[l].state = "Granted"
<1> DEFINE p == FileLock(s)
<1>1. /\ l \in Id /\ ProcessOf[s] \in Owner /\ m \in Mode /\ n \in Name /\ 1 \in AccessMode
  BY LockNames, RequestsOK DEF RecordMode, Mode, NL, PR, PW, EX, Cell
<1>2. p \in DOMAIN locks
  BY LockNames DEF EnqueueAs, ParentOK, Id, NoLock
<1>3. RequestResource(p, 1, n) = RecordPath(n) /\ LockAccessMode(p, 1) = 1
  BY <1>2, ShapeOf, RecordPaths DEF RmsInv
<1>4. DB(locks, resources) /\ Tree(locks, resources, {})
  BY DEF RmsInv
<1>5. /\ DB(locks', resources') /\ Tree(locks', resources', {})
      /\ DOMAIN locks' = DOMAIN locks \cup {l}
      /\ \A x \in DOMAIN locks : Kept(locks'[x], locks[x])
      /\ locks'[l].owner = ProcessOf[s]
      /\ locks'[l].amode = LockAccessMode(p, 1)
      /\ locks'[l].parent = p
      /\ locks'[l].resource = RequestResource(p, 1, n)
      /\ locks'[l].requested = m
      /\ locks'[l].state \in {"Granted", "Waiting"}
      /\ (\A x \in DOMAIN locks :
            locks[x].resource = RequestResource(p, 1, n)
              => locks[x].state = "Granted" /\ Compatible(m, locks[x].mode))
           => locks'[l].state = "Granted"
  <2>1. p \in DOMAIN locks \cup {NoLock}
    BY <1>2
  <2> HIDE DEF p
  <2>2. EnqueueAs(l, ProcessOf[s], m, n, 1, p, blk, vb)
    BY DEF p
  <2> QED
    BY <1>1, <1>4, <2>1, <2>2, EnqueueKept
<1> HIDE DEF p
<1>6. Unopposed(n, m) => locks'[l].state = "Granted"
  BY <1>3, <1>5 DEF Unopposed
<1>7. IsRecordLock(s, n, locks'[l])
  BY <1>3, <1>5 DEF IsRecordLock, p
<1> QED
  BY <1>5, <1>6, <1>7

\* RunCall: a $DEQ finds its lock without sublocks, a $ENQ finds its ID free,
\* and the database and the streams agree after either.
LEMMA RunCallKeeps ==
  ASSUME RmsInv, RunCall
  PROVE  RmsInv'
<1>1. PICK c \in calls :
        /\ \A d \in calls : c.turn <= d.turn
        /\ c.svc = "enq" => EnqueueAs(c.id, c.owner, c.mode, c.name, 1, c.parent, FALSE, FALSE)
        /\ c.svc = "deq" /\ c.id \in DOMAIN locks /\ locks[c.id].sublocks = 0
             => Dequeue(c.owner, c.id, "keep", ZeroValue)
        /\ c.svc = "deq" /\ ~(c.id \in DOMAIN locks /\ locks[c.id].sublocks = 0)
             => UNCHANGED <<locks, resources, doomed, events>>
        /\ calls' = calls \ {c}
        /\ UNCHANGED <<cells, stream>>
  BY DEF RunCall
<1>2. CallOK(c)
  BY DEF RmsInv, CallsOK
<1>3. DB(locks, resources) /\ Tree(locks, resources, {})
  BY DEF RmsInv
<1>4. CASE c.svc = "deq" /\ c.id \in DOMAIN locks
  <2>1. Dequeue(c.owner, c.id, "keep", ZeroValue)
    BY <1>1, <1>4, DropsAreLeaves
  <2>2. /\ DB(locks', resources') /\ Tree(locks', resources', {})
        /\ DOMAIN locks' = DOMAIN locks \ {c.id}
        /\ \A x \in DOMAIN locks \ {c.id} : Kept(locks'[x], locks[x])
    BY <1>3, <2>1, DequeueKept
  <2> QED
    BY <1>1, <1>4, <2>2, CallMade
<1>5. CASE c.svc = "deq" /\ c.id \notin DOMAIN locks
  <2>1. UNCHANGED <<locks, resources>>
    BY <1>1, <1>5
  <2>2. DOMAIN locks' = DOMAIN locks \ {c.id} /\ \A x \in DOMAIN locks : Kept(locks'[x], locks[x])
    BY <1>5, <2>1, KeptItself
  <2>3. DB(locks', resources') /\ Tree(locks', resources', {})
    BY <1>3, <2>1
  <2> QED
    BY <1>1, <1>5, <2>2, <2>3, CallMade
<1>6. CASE c.svc = "enq"
  <2> DEFINE no == FALSE
  <2>1. EnqueueAs(c.id, c.owner, c.mode, c.name, 1, c.parent, no, no) /\ no \in BOOLEAN
    BY <1>1, <1>6
  <2> HIDE DEF no
  <2>2. c.id \notin DOMAIN locks
    <3>1. c.id \in Takes(calls)
      BY <1>6 DEF Takes
    <3> QED
      BY <3>1 DEF RmsInv, CallsOK
  <2>3. PICK s \in Stream :
          \/ c = Enq(s, FileLock(s), File, NL, NoLock, 2)
          \/ \E n \in Cell, m \in RecordMode : c = Enq(s, RecordLock(s, n), n, m, FileLock(s), 3)
    BY <1>2, <1>6 DEF CallOK, DropsOne
  <2>4. CASE c = Enq(s, FileLock(s), File, NL, NoLock, 2)
    <3>1. c.id = FileLock(s) /\ EnqueueAs(c.id, ProcessOf[s], NL, File, 1, NoLock, no, no)
      BY <2>1, <2>4 DEF Enq
    <3>2. /\ DB(locks', resources') /\ Tree(locks', resources', {})
          /\ DOMAIN locks' = DOMAIN locks \cup {c.id}
          /\ \A x \in DOMAIN locks : Kept(locks'[x], locks[x])
          /\ IsFileLock(s, locks'[c.id])
      BY <2>1, <2>2, <3>1, FileTaken
    <3>3. \A t \in Stream, n \in Cell : c.id # RecordLock(t, n)
      BY <3>1, LockNames
    <3> QED
      BY <1>1, <1>6, <3>1, <3>2, <3>3, CallMade
  <2>5. CASE \E n \in Cell, m \in RecordMode : c = Enq(s, RecordLock(s, n), n, m, FileLock(s), 3)
    <3>1. PICK n \in Cell, m \in RecordMode : c = Enq(s, RecordLock(s, n), n, m, FileLock(s), 3)
      BY <2>5
    <3>2. /\ c.id = RecordLock(s, n) /\ c.mode = m
          /\ EnqueueAs(c.id, ProcessOf[s], m, n, 1, FileLock(s), no, no)
      BY <2>1, <3>1 DEF Enq
    <3>3. /\ DB(locks', resources') /\ Tree(locks', resources', {})
          /\ DOMAIN locks' = DOMAIN locks \cup {c.id}
          /\ \A x \in DOMAIN locks : Kept(locks'[x], locks[x])
          /\ IsRecordLock(s, n, locks'[c.id])
          /\ Unopposed(n, m) => locks'[c.id].state = "Granted"
      BY <2>1, <2>2, <3>2, RecordTaken
    <3>4. \A t \in Stream, k \in Cell : c.id = RecordLock(t, k) => k = n
      BY <3>2, LockNames
    <3> QED
      BY <1>1, <1>6, <3>2, <3>3, <3>4, CallMade
  <2> QED
    BY <2>3, <2>4, <2>5
<1>7. c.svc \in {"deq", "enq"}
  BY <1>2, CallIs
<1> QED
  BY <1>4, <1>5, <1>6, <1>7

-----------------------------------------------------------------------------
(* A service's decision: the streams changed, and calls to make *)

\* With no calls to make.
LEMMA NoCalls ==
  /\ Drops({}) = {} /\ Takes({}) = {} /\ CallsOK({})
  /\ \A C : Takes(C) = {} <=> \A c \in C : c.svc # "enq"
  BY DEF Drops, Takes, CallsOK

\* What a decision must see to.
LEMMA Decided ==
  ASSUME RmsInv, UNCHANGED <<locks, resources>>, cells' \subseteq Cell, DOMAIN stream' = Stream,
         \A s \in Stream : StreamOK(stream'[s]),
         CallsOK(calls'),
         Theirs(stream') = (DOMAIN locks \ Drops(calls')) \cup Takes(calls'),
         \A s \in Stream : \A n \in stream'[s].held :
           /\ RecordLock(s, n) \in DOMAIN locks => locks[RecordLock(s, n)].state = "Granted"
           /\ \A c \in calls' : c.svc = "enq" /\ c.id = RecordLock(s, n) => Unopposed(n, c.mode),
         \A s \in Stream : CopyOK(s, stream'[s]),
         Takes(calls') # {} =>
           Cardinality((DOMAIN locks \ Early(calls')) \cup Takes(calls')) <= ENQLM
  PROVE  RmsInv'
<1>1. DB(locks', resources') /\ Tree(locks', resources', {}) /\ LocksShaped'
  BY DEF RmsInv, LocksShaped, FileLock, RecordLock, IsFileLock, IsRecordLock, FilePath, RecordPath,
     RecordMode
<1>2. CallsOK(calls)'
  BY DEF CallsOK, CallOK, DropsOne, Deq, Enq, FileLock, RecordLock, RecordMode, Takes
<1>3. Theirs(stream)' = (DOMAIN locks' \ Drops(calls')) \cup Takes(calls')
  BY DEF Theirs, LocksFor, Records, RecordLock, FileLock
<1>4. \A s \in Stream : \A n \in stream'[s].held : HeldOK(s, n)'
  BY DEF HeldOK, RecordLock, Unopposed, RecordPath
<1>5. \A s \in Stream : CopyOK(s, stream[s])'
  BY DEF CopyOK, RecordLock
<1>6. QuotaOK'
  BY DEF RmsInv, QuotaOK, Takes, Early
<1>7. \A s \in Stream : StreamOK(stream[s])'
  BY DEF StreamOK, StreamRecord
<1> QED
  BY <1>1, <1>2, <1>3, <1>4, <1>5, <1>6, <1>7 DEF RmsInv, DB, Tree

\* A stream's lock is there if the stream has it.
LEMMA LocksAreTheirs ==
  ASSUME RmsInv, calls = {}, NEW s \in Stream
  PROVE  /\ DOMAIN locks = Theirs(stream)
         /\ FileLock(s) \in DOMAIN locks <=> stream[s].file
         /\ \A n \in Cell : RecordLock(s, n) \in DOMAIN locks <=> n \in Records(stream[s])
         /\ Records(stream[s]) \subseteq Cell
<1>1. DOMAIN locks = Theirs(stream)
  BY NoCalls DEF RmsInv
<1>2. \A t \in Stream : Records(stream[t]) \subseteq Cell
  BY DEF RmsInv, StreamOK, StreamRecord, Records
<1>3. FileLock(s) \in Theirs(stream) <=> stream[s].file
  <2>1. FileLock(s) \in LocksFor(s, stream[s]) <=> stream[s].file
    BY <1>2, LockNames DEF LocksFor
  <2>2. \A t \in Stream : FileLock(s) \in LocksFor(t, stream[t]) => t = s
    <3> SUFFICES ASSUME NEW t \in Stream, FileLock(s) \in LocksFor(t, stream[t]) PROVE t = s
      OBVIOUS
    <3>1. FileLock(s) = FileLock(t)
      BY <1>2, LockNames DEF LocksFor
    <3> QED
      BY <3>1 DEF FileLock
  <2> QED
    BY <2>1, <2>2 DEF Theirs
<1>4. ASSUME NEW n \in Cell
      PROVE  RecordLock(s, n) \in Theirs(stream) <=> n \in Records(stream[s])
  <2>1. \A t \in Stream : RecordLock(s, n) \in LocksFor(t, stream[t]) => t = s /\ n \in Records(stream[t])
    BY <1>2, LockNames DEF LocksFor
  <2>2. n \in Records(stream[s]) => RecordLock(s, n) \in LocksFor(s, stream[s])
    BY DEF LocksFor
  <2> QED
    BY <2>1, <2>2 DEF Theirs
<1> QED
  BY <1>1, <1>2, <1>3, <1>4

\* A lock that would be granted at once is unopposed.
LEMMA GrantableUnopposed ==
  ASSUME RmsInv, NEW n \in Cell, NEW m, Grantable(n, m)
  PROVE  Unopposed(n, m)
<1> SUFFICES ASSUME NEW l \in DOMAIN locks, locks[l].resource = RecordPath(n)
             PROVE  locks[l].state = "Granted" /\ Compatible(m, locks[l].mode)
  BY DEF Unopposed
<1> DEFINE r == RecordPath(n)
<1>1. DB(locks, resources) /\ r \in DOMAIN resources
  BY DEF RmsInv, DB, Located
<1>2. Queue(resources, r) = <<>> /\ CompatibleWithAll(locks, r, NoLock, m)
  BY <1>1 DEF Grantable, EnqueueGrantable, RecordPath
<1>3. IsQueue(locks, r, resources[r].converting, resources[r].waiting, Queue(resources, r))
  BY <1>1, QueueOf
<1>4. Len(resources[r].converting) = 0 /\ Len(resources[r].waiting) = 0
  <2>1. Len(<<>>) = 0
    OBVIOUS
  <2>2. /\ Len(resources[r].converting) \in Nat /\ Len(resources[r].waiting) \in Nat
        /\ 0 = Len(resources[r].converting) + Len(resources[r].waiting)
    BY <1>2, <1>3, <2>1 DEF IsQueue
  <2> DEFINE a == Len(resources[r].converting)
             b == Len(resources[r].waiting)
  <2> HIDE DEF a, b
  <2>3. a \in Nat /\ b \in Nat /\ 0 = a + b
    BY <2>2 DEF a, b
  <2>4. a = 0 /\ b = 0
    BY <2>3
  <2> QED
    BY <2>4 DEF a, b
<1>5. Members(locks, r, "Converting") = {} /\ Members(locks, r, "Waiting") = {}
  <2>1. /\ resources[r].converting \in Seq(Id) /\ resources[r].waiting \in Seq(Id)
        /\ ToSet(resources[r].converting) = Members(locks, r, "Converting")
        /\ ToSet(resources[r].waiting) = Members(locks, r, "Waiting")
    BY <1>3 DEF IsQueue
  <2>2. resources[r].converting = <<>> /\ resources[r].waiting = <<>>
    BY <1>4, <2>1, EmptySeq
  <2> QED
    BY <2>1, <2>2, MembersOfEmpty
<1>6. locks[l].state \in State /\ l # NoLock
  BY <1>1 DEF DB, LocksOK, LockRecord, Id, NoLock
<1>7. locks[l].state = "Granted"
  BY <1>5, <1>6 DEF Members, State
<1> QED
  BY <1>2, <1>6, <1>7 DEF CompatibleWithAll, Holders

\* What a service makes of a stream before it unlocks what it need not keep: st,
\* with the locks on D dropped, the file's taken (F), and those on N (T).
TakesFile(s, F) == F = {} \/ (F = {Enq(s, FileLock(s), File, NL, NoLock, 2)} /\ ~stream[s].file)

TakesRecord(s, T, N) ==
  \/ T = {} /\ N = {}
  \/ \E n \in Cell, m \in RecordMode :
       T = {Enq(s, RecordLock(s, n), n, m, FileLock(s), 3)} /\ N = {n}

HeldSoon(s, n, T) ==
  \/ n \in stream[s].held
  \/ RecordLock(s, n) \in DOMAIN locks /\ locks[RecordLock(s, n)].state = "Granted"
  \/ RecordLock(s, n) \notin DOMAIN locks /\ \A c \in T : Unopposed(n, c.mode)

Prepared(s, st, D, F, T, N) ==
  /\ StreamOK(st)
  /\ TakesFile(s, F) /\ TakesRecord(s, T, N)
  /\ st.file <=> stream[s].file \/ F # {}
  /\ D \subseteq Cell /\ D \cap Records(st) = {}
  /\ N \cap (D \cup Records(stream[s])) = {}
  /\ Records(st) = (Records(stream[s]) \ D) \cup N
  /\ \A n \in st.held : HeldSoon(s, n, T)
  /\ F \cup T # {} =>
       Cardinality((DOMAIN locks \ {RecordLock(s, n) : n \in D}) \cup Takes(F \cup T)) <= ENQLM

\* The calls of such a service, those on U unlocked last.
OwnCalls(s, D, U, F, T, N, C) ==
  /\ \A c \in C : CallOK(c)
  /\ \A c, d \in C : c.id = d.id => c = d
  /\ \A c, d \in C : c.svc = "enq" /\ d.svc = "enq" /\ c.turn = d.turn => c = d
  /\ \A c, d \in C : c.svc = "deq" /\ d.svc = "enq" => c.turn \in {1, 4}
  /\ \A c \in C, t \in Stream : c.svc = "deq" => c.id # FileLock(t)
  /\ Drops(C) = {RecordLock(s, n) : n \in D \cup U}
  /\ Early(C) = {RecordLock(s, n) : n \in D}
  /\ Takes(C) = {RecordLock(s, n) : n \in N} \cup (IF F = {} THEN {} ELSE {FileLock(s)})
  /\ Takes(C) = Takes(F \cup T)
  /\ \A c \in C : c.svc = "enq" => c \in F \cup T
  /\ \A n \in Cell, c \in C : c.svc = "enq" /\ c.id = RecordLock(s, n) => c \in T /\ n \in N

\* The calls a service for one stream leaves are such as RmsInv asks for.
LEMMA PreparedCalls ==
  ASSUME NEW s \in Stream, NEW D \in SUBSET Cell, NEW U \in SUBSET Cell, D \cap U = {},
         NEW F, NEW T, NEW N, TakesFile(s, F), TakesRecord(s, T, N), N \cap (D \cup U) = {},
         NEW C, C = Unlocking(s, D, 1) \cup F \cup T \cup Unlocking(s, U, 4)
  PROVE  OwnCalls(s, D, U, F, T, N, C)
<1>1. ASSUME NEW c \in Unlocking(s, D, 1)
      PROVE  c.svc = "deq" /\ c.turn = 1 /\ \E n \in D : c = Deq(s, RecordLock(s, n), 1) /\ c.id = RecordLock(s, n)
  BY DEF Unlocking, Deq
<1>2. ASSUME NEW c \in Unlocking(s, U, 4)
      PROVE  c.svc = "deq" /\ c.turn = 4 /\ \E n \in U : c = Deq(s, RecordLock(s, n), 4) /\ c.id = RecordLock(s, n)
  BY DEF Unlocking, Deq
<1>3. ASSUME NEW c \in F
      PROVE  /\ c.svc = "enq" /\ c.turn = 2 /\ c.id = FileLock(s) /\ F = {c}
             /\ c = Enq(s, FileLock(s), File, NL, NoLock, 2)
  BY DEF TakesFile, Enq
<1>4. ASSUME NEW c \in T
      PROVE  \E n \in Cell, m \in RecordMode :
               /\ c = Enq(s, RecordLock(s, n), n, m, FileLock(s), 3) /\ T = {c} /\ N = {n}
               /\ c.svc = "enq" /\ c.turn = 3 /\ c.id = RecordLock(s, n)
  BY DEF TakesRecord, Enq
<1>5. /\ \A n \in D : \E c \in Unlocking(s, D, 1) : c.id = RecordLock(s, n)
      /\ \A n \in U : \E c \in Unlocking(s, U, 4) : c.id = RecordLock(s, n)
      /\ \A n \in N : \E c \in T : c.id = RecordLock(s, n)
  <2>1. \A n, k : Deq(s, RecordLock(s, n), k).id = RecordLock(s, n)
    BY DEF Deq
  <2>2. ASSUME NEW n \in N
        PROVE  \E c \in T : c.id = RecordLock(s, n)
    <3>1. PICK k \in Cell, m \in RecordMode :
            T = {Enq(s, RecordLock(s, k), k, m, FileLock(s), 3)} /\ N = {k}
      BY DEF TakesRecord
    <3>2. k = n /\ Enq(s, RecordLock(s, k), k, m, FileLock(s), 3).id = RecordLock(s, k)
      BY <3>1 DEF Enq
    <3> QED
      BY <3>1, <3>2
  <2> QED
    BY <2>1, <2>2 DEF Unlocking
<1>6. \A c \in C : CallOK(c)
  <2>1. \A c \in Unlocking(s, D, 1) \cup Unlocking(s, U, 4) : CallOK(c)
    <3> SUFFICES ASSUME NEW c \in Unlocking(s, D, 1) \cup Unlocking(s, U, 4) PROVE CallOK(c)
      OBVIOUS
    <3>1. PICK n \in Cell : c.svc = "deq" /\ c.id = RecordLock(s, n) /\ c.turn \in Nat /\ c = Deq(s, c.id, c.turn)
      BY <1>1, <1>2
    <3> QED
      BY <3>1 DEF CallOK, DropsOne
  <2>2. \A c \in F \cup T : CallOK(c)
    BY <1>3, <1>4 DEF CallOK
  <2> QED
    BY <2>1, <2>2
<1>7. ASSUME NEW c \in C, NEW d \in C, c.id = d.id
      PROVE  c = d
  <2>1. CASE c \in Unlocking(s, D, 1)
    BY <1>1, <1>2, <1>3, <1>4, <1>7, <2>1, LockNames
  <2>2. CASE c \in Unlocking(s, U, 4)
    BY <1>1, <1>2, <1>3, <1>4, <1>7, <2>2, LockNames
  <2>3. CASE c \in F
    BY <1>1, <1>2, <1>3, <1>4, <1>7, <2>3, LockNames
  <2>4. CASE c \in T
    BY <1>1, <1>2, <1>3, <1>4, <1>7, <2>4, LockNames
  <2> QED
    BY <2>1, <2>2, <2>3, <2>4
<1>8. \A c, d \in C : c.svc = "enq" /\ d.svc = "enq" /\ c.turn = d.turn => c = d
  BY <1>1, <1>2, <1>3, <1>4
<1>9. \A c, d \in C : c.svc = "deq" /\ d.svc = "enq" => c.turn \in {1, 4}
  BY <1>1, <1>2, <1>3, <1>4
<1>10. \A c \in C, t \in Stream : c.svc = "deq" => c.id # FileLock(t)
  BY <1>1, <1>2, <1>3, <1>4, LockNames
<1>11. Drops(C) = {RecordLock(s, n) : n \in D \cup U}
  <2>1. ASSUME NEW x \in Drops(C)
        PROVE  \E n \in D \cup U : x = RecordLock(s, n)
    <3>1. PICK c \in C : c.svc = "deq" /\ c.id = x
      BY DEF Drops
    <3>2. c \in Unlocking(s, D, 1) \/ c \in Unlocking(s, U, 4)
      BY <1>3, <1>4, <3>1
    <3> QED
      BY <1>1, <1>2, <3>1, <3>2
  <2>2. ASSUME NEW n \in D \cup U
        PROVE  RecordLock(s, n) \in Drops(C)
    <3>1. PICK c \in C : c.svc = "deq" /\ c.id = RecordLock(s, n)
      BY <1>1, <1>2, <1>5
    <3> QED
      BY <3>1 DEF Drops
  <2> QED
    BY <2>1, <2>2
<1>12. Early(C) = {RecordLock(s, n) : n \in D}
  <2>1. ASSUME NEW x \in Early(C)
        PROVE  \E n \in D : x = RecordLock(s, n)
    <3>1. PICK c \in C : c.svc = "deq" /\ c.turn = 1 /\ c.id = x
      BY DEF Early
    <3>2. c \in Unlocking(s, D, 1)
      BY <1>2, <1>3, <1>4, <3>1
    <3> QED
      BY <1>1, <3>1, <3>2
  <2>2. ASSUME NEW n \in D
        PROVE  RecordLock(s, n) \in Early(C)
    <3>1. PICK c \in C : c.svc = "deq" /\ c.turn = 1 /\ c.id = RecordLock(s, n)
      BY <1>1, <1>5
    <3> QED
      BY <3>1 DEF Early
  <2> QED
    BY <2>1, <2>2
<1>13. \A c \in C : c.svc = "enq" <=> c \in F \cup T
  BY <1>1, <1>2, <1>3, <1>4
<1>14. Takes(C) = {c.id : c \in F \cup T} /\ Takes(C) = Takes(F \cup T)
  BY <1>13 DEF Takes
<1>15. {c.id : c \in T} = {RecordLock(s, n) : n \in N}
  BY <1>4, <1>5
<1>16. {c.id : c \in F} = IF F = {} THEN {} ELSE {FileLock(s)}
  BY <1>3
<1>17. Takes(C) = {RecordLock(s, n) : n \in N} \cup (IF F = {} THEN {} ELSE {FileLock(s)})
  <2>1. {c.id : c \in F \cup T} = {c.id : c \in T} \cup {c.id : c \in F}
    OBVIOUS
  <2> QED
    BY <1>14, <1>15, <1>16, <2>1
<1>18. \A n \in Cell, c \in C : c.svc = "enq" /\ c.id = RecordLock(s, n) => c \in T /\ n \in N
  BY <1>3, <1>4, <1>13, LockNames
<1> QED
  BY <1>6, <1>7, <1>8, <1>9, <1>10, <1>11, <1>12, <1>13, <1>14, <1>17, <1>18 DEF OwnCalls

\* A service that decides for its own stream only.
LEMMA OneStream ==
  ASSUME RmsInv, calls = {}, NEW s \in Stream, NEW st1, NEW D, NEW F, NEW T, NEW N,
         Prepared(s, st1, D, F, T, N),
         NEW U \in SUBSET Cell, U \subseteq st1.held, U \cap N = {},
         NEW st \in StreamRecord,
         st.file = st1.file, st.held = st1.held \ U, st.waiting = st1.waiting,
         st.refused = st1.refused,
         \/ st.copy = "as read"
         \/ /\ st.copy = stream[s].copy /\ st.current = stream[s].current
            /\ st.held \subseteq stream[s].held,
         stream' = [stream EXCEPT ![s] = st],
         calls' = Unlocking(s, D, 1) \cup F \cup T \cup Unlocking(s, U, 4),
         UNCHANGED <<locks, resources>>, cells' \subseteq Cell
  PROVE  RmsInv'
<1> DEFINE C == calls'
           had == Records(stream[s])
<1>1. /\ StreamOK(st1) /\ TakesFile(s, F) /\ TakesRecord(s, T, N)
      /\ st1.file <=> stream[s].file \/ F # {}
      /\ D \subseteq Cell /\ D \cap Records(st1) = {} /\ N \cap (D \cup had) = {}
      /\ Records(st1) = (had \ D) \cup N
      /\ \A n \in st1.held : HeldSoon(s, n, T)
      /\ F \cup T # {} =>
           Cardinality((DOMAIN locks \ {RecordLock(s, n) : n \in D}) \cup Takes(F \cup T)) <= ENQLM
  BY DEF Prepared
<1>2. D \cap U = {} /\ N \cap (D \cup U) = {} /\ N \subseteq Cell
  BY <1>1 DEF Records, TakesRecord
<1>3. /\ \A c \in C : CallOK(c)
      /\ \A c, d \in C : c.id = d.id => c = d
      /\ \A c, d \in C : c.svc = "enq" /\ d.svc = "enq" /\ c.turn = d.turn => c = d
      /\ \A c, d \in C : c.svc = "deq" /\ d.svc = "enq" => c.turn \in {1, 4}
      /\ \A c \in C, t \in Stream : c.svc = "deq" => c.id # FileLock(t)
      /\ Drops(C) = {RecordLock(s, n) : n \in D \cup U}
      /\ Early(C) = {RecordLock(s, n) : n \in D}
      /\ Takes(C) = {RecordLock(s, n) : n \in N} \cup (IF F = {} THEN {} ELSE {FileLock(s)})
      /\ Takes(C) = Takes(F \cup T)
      /\ \A c \in C : c.svc = "enq" => c \in F \cup T
      /\ \A n \in Cell, c \in C : c.svc = "enq" /\ c.id = RecordLock(s, n) => c \in T /\ n \in N
  <2>1. D \in SUBSET Cell /\ TakesFile(s, F) /\ TakesRecord(s, T, N)
    BY <1>1
  <2> HIDE DEF C
  <2>2. C = Unlocking(s, D, 1) \cup F \cup T \cup Unlocking(s, U, 4)
    BY DEF C
  <2>3. OwnCalls(s, D, U, F, T, N, C)
    BY <1>2, <2>1, <2>2, PreparedCalls
  <2> QED
    BY <2>3 DEF OwnCalls
<1> HIDE DEF C
<1>19. /\ \A x : x \in Drops(C) <=> \E m \in D \cup U : x = RecordLock(s, m)
       /\ \A x : x \in Takes(C) <=> (\E m \in N : x = RecordLock(s, m)) \/ (F # {} /\ x = FileLock(s))
  BY <1>3
<1>4. /\ DOMAIN locks = Theirs(stream)
      /\ FileLock(s) \in DOMAIN locks <=> stream[s].file
      /\ \A n \in Cell : RecordLock(s, n) \in DOMAIN locks <=> n \in had
      /\ had \subseteq Cell
  BY LocksAreTheirs
<1>5. Takes(C) \cap DOMAIN locks = {}
  <2>1. \A n \in N : RecordLock(s, n) \notin DOMAIN locks
    BY <1>1, <1>2, <1>4
  <2>2. F # {} => FileLock(s) \notin DOMAIN locks
    BY <1>1, <1>4 DEF TakesFile
  <2>3. \A x \in Takes(C) : (\E n \in N : x = RecordLock(s, n)) \/ (F # {} /\ x = FileLock(s))
    BY <1>3
  <2> QED
    BY <2>1, <2>2, <2>3
<1>6. CallsOK(C)
  BY <1>3, <1>5 DEF CallsOK
<1>7. DOMAIN stream = Stream /\ \A t \in Stream : StreamOK(stream[t])
  BY DEF RmsInv
<1>8. DOMAIN stream' = Stream /\ stream'[s] = st /\ \A t \in Stream \ {s} : stream'[t] = stream[t]
  BY <1>7
<1>9. StreamOK(st)
  BY <1>1 DEF StreamOK
<1>10. \A t \in Stream : StreamOK(stream'[t])
  BY <1>7, <1>8, <1>9
<1>11. Records(st) = ((had \ D) \cup N) \ U /\ Records(st) \subseteq Cell
  <2>1. Records(st) = Records(st1) \ U
    <3>1. st1.waiting \notin U
      BY <1>1 DEF StreamOK
    <3> QED
      BY <3>1 DEF Records
  <2> QED
    BY <1>1, <1>2, <1>4, <2>1
<1>12. \A t \in Stream \ {s} : \A x \in LocksFor(t, stream[t]) :
         x # FileLock(s) /\ \A n \in Cell : x # RecordLock(s, n)
  <2> SUFFICES ASSUME NEW t \in Stream, t # s, NEW x \in LocksFor(t, stream[t])
               PROVE  x # FileLock(s) /\ \A n \in Cell : x # RecordLock(s, n)
    OBVIOUS
  <2>1. Records(stream[t]) \subseteq Cell
    BY LocksAreTheirs
  <2>2. x = FileLock(t) \/ \E k \in Cell : x = RecordLock(t, k)
    BY <2>1 DEF LocksFor
  <2>3. FileLock(t) # FileLock(s)
    BY DEF FileLock
  <2> QED
    BY <2>2, <2>3, LockNames
<1>13. Theirs(stream') = (DOMAIN locks \ Drops(C)) \cup Takes(C)
  <2>1. ASSUME NEW x \in Theirs(stream')
        PROVE  x \in (DOMAIN locks \ Drops(C)) \cup Takes(C)
    <3>1. PICK t \in Stream : x \in LocksFor(t, stream'[t])
      BY DEF Theirs
    <3>2. CASE t # s
      <4>1. x \in LocksFor(t, stream[t])
        BY <1>8, <3>1, <3>2
      <4>2. x \in DOMAIN locks
        BY <1>4, <4>1 DEF Theirs
      <4>3. x \notin Drops(C)
        BY <1>1, <1>12, <1>19, <3>2, <4>1
      <4> QED
        BY <4>2, <4>3
    <3>3. CASE t = s /\ \E n \in Records(st) : x = RecordLock(s, n)
      <4>1. PICK n \in Records(st) : x = RecordLock(s, n)
        BY <3>3
      <4>2. CASE n \in N
        BY <1>3, <4>1, <4>2
      <4>3. CASE n \in had /\ n \notin D \cup U
        <5>1. x \in DOMAIN locks
          BY <1>4, <4>1, <4>3
        <5>2. x \notin Drops(C)
          <6>1. \A m \in D \cup U : m \in Cell /\ m # n
            BY <1>1, <4>3
          <6>2. n \in Cell
            BY <1>4, <4>3
          <6>3. \A m \in Cell : RecordLock(s, m) = RecordLock(s, n) => m = n
            BY <6>2, LockNames
          <6>4. \A m \in D \cup U : RecordLock(s, m) # x
            BY <4>1, <6>1, <6>3
          <6> QED
            BY <1>19, <6>4
        <5> QED
          BY <5>1, <5>2
      <4> QED
        BY <1>11, <4>2, <4>3
    <3>4. CASE t = s /\ st.file /\ x = FileLock(s)
      <4>1. stream[s].file \/ F # {}
        BY <1>1, <3>4
      <4>2. x \notin Drops(C)
        <5>1. \A m \in D \cup U : RecordLock(s, m) # x
          BY <1>1, <3>4, LockNames
        <5> QED
          BY <1>19, <5>1
      <4> QED
        BY <1>3, <1>4, <3>4, <4>1, <4>2
    <3> QED
      BY <1>8, <3>1, <3>2, <3>3, <3>4 DEF LocksFor
  <2>2. ASSUME NEW x \in DOMAIN locks \ Drops(C)
        PROVE  x \in Theirs(stream')
    <3>1. PICK t \in Stream : x \in LocksFor(t, stream[t])
      BY <1>4 DEF Theirs
    <3>2. CASE t # s
      BY <1>8, <3>1, <3>2 DEF Theirs
    <3>3. CASE t = s /\ \E n \in had : x = RecordLock(s, n)
      <4>1. PICK n \in had : x = RecordLock(s, n)
        BY <3>3
      <4>2. n \notin D \cup U
        BY <1>3, <4>1
      <4>3. x \in LocksFor(s, st)
        BY <1>11, <4>1, <4>2 DEF LocksFor
      <4> QED
        BY <1>8, <4>3 DEF Theirs
    <3>4. CASE t = s /\ stream[s].file /\ x = FileLock(s)
      <4>1. x \in LocksFor(s, st)
        BY <1>1, <3>4 DEF LocksFor
      <4> QED
        BY <1>8, <4>1 DEF Theirs
    <3> QED
      BY <3>1, <3>2, <3>3, <3>4 DEF LocksFor
  <2>3. ASSUME NEW x \in Takes(C)
        PROVE  x \in Theirs(stream')
    <3>1. x \in LocksFor(s, st)
      BY <1>1, <1>2, <1>3, <1>11 DEF LocksFor
    <3> QED
      BY <1>8, <3>1 DEF Theirs
  <2> QED
    BY <2>1, <2>2, <2>3
<1>14. \A c \in C : c.svc = "enq" => c.id \in Takes(C)
  BY DEF Takes
<1>15. ASSUME NEW t \in Stream, NEW n \in stream'[t].held
       PROVE  /\ RecordLock(t, n) \in DOMAIN locks => locks[RecordLock(t, n)].state = "Granted"
              /\ \A c \in C : c.svc = "enq" /\ c.id = RecordLock(t, n) => Unopposed(n, c.mode)
  <2>1. n \in Cell
    BY <1>10 DEF StreamOK, StreamRecord
  <2>2. \A m \in stream[t].held :
          RecordLock(t, m) \in DOMAIN locks => locks[RecordLock(t, m)].state = "Granted"
    BY DEF RmsInv, HeldOK
  <2>3. CASE t # s
    <3>1. \A c \in C : c.svc = "enq" => c.id # RecordLock(t, n)
      <4>1. \A x \in Takes(C) : x = FileLock(s) \/ \E m \in Cell : x = RecordLock(s, m)
        BY <1>2, <1>19
      <4>2. RecordLock(t, n) # FileLock(s) /\ \A m \in Cell : RecordLock(t, n) # RecordLock(s, m)
        BY <2>1, <2>3, LockNames
      <4> QED
        BY <1>14, <4>1, <4>2
    <3> QED
      BY <1>8, <2>2, <2>3, <3>1
  <2>4. CASE t = s
    <3>1. n \in st1.held /\ HeldSoon(s, n, T)
      BY <1>1, <1>8, <2>4
    <3>2. \A c \in C : c.svc = "enq" /\ c.id = RecordLock(s, n) =>
            c \in T /\ n \in N /\ RecordLock(s, n) \notin DOMAIN locks
      BY <1>3, <1>5, <1>14, <2>1
    <3>3. n \in N => n \notin stream[s].held
      BY <1>1 DEF Records
    <3> QED
      BY <2>2, <2>4, <3>1, <3>2, <3>3 DEF HeldSoon
  <2> QED
    BY <2>3, <2>4
<1>16. \A t \in Stream : CopyOK(t, stream'[t])
  <2>1. \A t \in Stream : CopyOK(t, stream[t])
    BY DEF RmsInv
  <2>2. CopyOK(s, st)
    BY <1>1, <2>1 DEF CopyOK
  <2> QED
    BY <1>8, <2>1, <2>2
<1>17. Takes(C) # {} => Cardinality((DOMAIN locks \ Early(C)) \cup Takes(C)) <= ENQLM
  <2>1. Takes(C) # {} => F \cup T # {}
    BY <1>3 DEF Takes
  <2> QED
    BY <1>1, <1>3, <2>1
<1> QED
  BY <1>6, <1>8, <1>10, <1>13, <1>15, <1>16, <1>17, Decided DEF C

\* A $GET that returns its record.
LEMMA Succeeds ==
  ASSUME RmsInv, calls = {}, NEW g \in Get, NEW st1, NEW D, NEW F, NEW T, NEW N,
         Prepared(g.stream, st1, D, F, T, N), NEW n \in Cell, N \subseteq {n},
         Succeed(g, st1, n, Unlocking(g.stream, D, 1) \cup F \cup T),
         UNCHANGED <<locks, resources, cells>>
  PROVE  RmsInv'
<1> DEFINE s == g.stream
           U == IF g.ulk THEN {} ELSE st1.held \ {n}
           st == [st1 EXCEPT !.held = @ \ U, !.current = n, !.copy = "as read"]
<1>1. s \in Stream /\ g.ulk \in BOOLEAN
  BY DEF Get
<1>2. st1 \in StreamRecord
  BY DEF Prepared, StreamOK
<1>3. U \in SUBSET Cell /\ U \subseteq st1.held /\ U \cap N = {}
  BY <1>2 DEF StreamRecord
<1>4. /\ st \in StreamRecord
      /\ st.file = st1.file /\ st.held = st1.held \ U /\ st.waiting = st1.waiting
      /\ st.refused = st1.refused /\ st.copy = "as read"
  BY <1>2 DEF StreamRecord
<1>5. /\ stream' = [stream EXCEPT ![s] = st]
      /\ calls' = Unlocking(s, D, 1) \cup F \cup T \cup Unlocking(s, U, 4)
  BY DEF Succeed, Leave
<1>6. cells' \subseteq Cell /\ Prepared(s, st1, D, F, T, N)
  BY DEF RmsInv
<1> HIDE DEF s, U, st
<1> QED
  BY <1>1, <1>3, <1>4, <1>5, <1>6, OneStream

\* A $GET that fails.
LEMMA Fails ==
  ASSUME RmsInv, calls = {}, NEW g \in Get, NEW st1, NEW D, NEW F,
         Prepared(g.stream, st1, D, F, {}, {}),
         Fail(g, st1, Unlocking(g.stream, D, 1) \cup F),
         UNCHANGED <<locks, resources, cells>>
  PROVE  RmsInv'
<1> DEFINE s == g.stream
           U == IF g.ulk THEN {} ELSE st1.held
           st == NoCurrent([st1 EXCEPT !.held = @ \ U])
           none == {}
<1>1. s \in Stream /\ g.ulk \in BOOLEAN
  BY DEF Get
<1>2. st1 \in StreamRecord
  BY DEF Prepared, StreamOK
<1>3. U \in SUBSET Cell /\ U \subseteq st1.held /\ U \cap none = {}
  BY <1>2 DEF StreamRecord
<1>4. /\ st \in StreamRecord
      /\ st.file = st1.file /\ st.held = st1.held \ U /\ st.waiting = st1.waiting
      /\ st.refused = st1.refused /\ st.copy = "as read"
  BY <1>2 DEF StreamRecord, NoCurrent
<1>5. /\ stream' = [stream EXCEPT ![s] = st]
      /\ calls' = Unlocking(s, D, 1) \cup F \cup none \cup Unlocking(s, U, 4)
  BY DEF Fail, Leave
<1>6. cells' \subseteq Cell /\ Prepared(s, st1, D, F, none, none)
  BY DEF RmsInv
<1> HIDE DEF s, U, st, none
<1> QED
  BY <1>1, <1>3, <1>4, <1>5, <1>6, OneStream

\* A $GET that waits, or is told there is no such record.
LEMMA Goes ==
  ASSUME RmsInv, calls = {}, NEW g \in Get, NEW st1, NEW D, NEW F, NEW T, NEW N,
         Prepared(g.stream, st1, D, F, T, N), NEW w,
         Leave(g, st1, Unlocking(g.stream, D, 1) \cup F \cup T, w),
         \/ st1.copy = "as read"
         \/ /\ st1.copy = stream[g.stream].copy /\ st1.current = stream[g.stream].current
            /\ st1.held \subseteq stream[g.stream].held,
         UNCHANGED <<locks, resources, cells>>
  PROVE  RmsInv'
<1> DEFINE s == g.stream
           U == {}
<1>1. s \in Stream
  BY DEF Get
<1>2. st1 \in StreamRecord
  BY DEF Prepared, StreamOK
<1>3. U \in SUBSET Cell /\ U \subseteq st1.held /\ U \cap N = {} /\ st1.held = st1.held \ U
  OBVIOUS
<1>4. Unlocking(s, U, 4) = {}
  BY DEF Unlocking
<1>5. /\ stream' = [stream EXCEPT ![s] = st1]
      /\ calls' = Unlocking(s, D, 1) \cup F \cup T \cup Unlocking(s, U, 4)
  BY <1>4 DEF Leave
<1>6. cells' \subseteq Cell /\ Prepared(s, st1, D, F, T, N)
  BY DEF RmsInv
<1>7. \/ st1.copy = "as read"
      \/ /\ st1.copy = stream[s].copy /\ st1.current = stream[s].current
         /\ st1.held \subseteq stream[s].held
  OBVIOUS
<1> HIDE DEF s, U
<1> QED
  BY <1>1, <1>2, <1>3, <1>5, <1>6, <1>7, OneStream

\* The record a request reaches is one of the file's.
LEMMA FoundIn ==
  ASSUME RmsInv, NEW g \in Get, Found(g) # None
  PROVE  Found(g) \in cells /\ Found(g) \in Cell
<1> DEFINE from == {n \in cells : IF g.rac = "key" THEN n = g.n ELSE n >= g.n}
<1>1. from \subseteq cells /\ from \subseteq Nat /\ cells \subseteq Cell
  BY LockNames DEF RmsInv
<1>2. Found(g) = IF from = {} THEN None ELSE CHOOSE n \in from : \A o \in from : n <= o
  BY DEF Found
<1> HIDE DEF from
<1>3. from # {}
  BY <1>2
<1>4. \E n \in from : \A o \in from : n <= o
  BY <1>1, <1>3, LeastOf
<1>5. Found(g) \in from
  BY <1>2, <1>3, <1>4
<1> QED
  BY <1>1, <1>5

\* A service that takes no lock.
LEMMA OnlyDrops ==
  ASSUME NEW s \in Stream, NEW st, NEW D \in SUBSET Cell, StreamOK(st),
         st.file = stream[s].file, D \cap Records(st) = {},
         Records(st) = Records(stream[s]) \ D,
         \A n \in st.held :
           \/ n \in stream[s].held
           \/ RecordLock(s, n) \in DOMAIN locks /\ locks[RecordLock(s, n)].state = "Granted"
  PROVE  Prepared(s, st, D, {}, {}, {})
BY DEF Prepared, TakesFile, TakesRecord, HeldSoon

\* What is left of a stream's locks when its wait is given up.
LEMMA GivenUp ==
  ASSUME RmsInv, NEW s \in Stream
  PROVE  /\ {stream[s].waiting} \ {None} \subseteq Cell
         /\ DropWaiting(s, 1) = Unlocking(s, {stream[s].waiting} \ {None}, 1)
         /\ StreamOK(NotWaiting(stream[s]))
         /\ StreamOK(stream[s])
         /\ NotWaiting(stream[s]).file = stream[s].file
         /\ NotWaiting(stream[s]).held = stream[s].held
         /\ Records(NotWaiting(stream[s])) = stream[s].held
         /\ stream[s].held = Records(stream[s]) \ ({stream[s].waiting} \ {None})
         /\ ({stream[s].waiting} \ {None}) \cap stream[s].held = {}
         /\ stream[s].refused => Records(stream[s]) = stream[s].held
<1> DEFINE st == stream[s]
<1>1. StreamOK(st)
  BY DEF RmsInv
<1>2. None \notin Cell
  BY LockNames
<1>3. NotWaiting(st) \in StreamRecord /\ NotWaiting(st).waiting = None
      /\ NotWaiting(st).held = st.held /\ NotWaiting(st).file = st.file
  BY <1>1 DEF StreamOK, StreamRecord, NotWaiting
<1>4. StreamOK(NotWaiting(st))
  BY <1>1, <1>2, <1>3 DEF StreamOK, StreamRecord
<1>5. st.held \subseteq Cell /\ st.waiting \in Cell \cup {None} /\ st.waiting \notin st.held
  BY <1>1 DEF StreamOK, StreamRecord
<1>6. Records(NotWaiting(st)) = st.held
  BY <1>3 DEF Records
<1>7. st.held = Records(st) \ ({st.waiting} \ {None})
  BY <1>2, <1>5 DEF Records
<1>8. st.refused => Records(st) = st.held
  BY DEF Records
<1> QED
  BY <1>1, <1>3, <1>4, <1>5, <1>6, <1>7, <1>8 DEF DropWaiting

\* $GET of a record that is not there (errRNF, errEOF, errCUR).
LEMMA MissKeeps ==
  ASSUME RmsInv, calls = {}, NEW g \in Get, Miss(g), UNCHANGED <<locks, resources, cells>>
  PROVE  RmsInv'
<1> DEFINE s == g.stream
           st == NoCurrent(stream[s])
           none == {}
<1>1. s \in Stream /\ StreamOK(stream[s])
  BY DEF Get, RmsInv
<1>2. /\ StreamOK(st) /\ st.file = stream[s].file /\ st.held = stream[s].held
      /\ Records(st) = Records(stream[s]) /\ st.copy = "as read"
  BY <1>1 DEF StreamOK, StreamRecord, NoCurrent, Records
<1>3. Prepared(s, st, none, none, none, none)
  BY <1>1, <1>2, OnlyDrops
<1>4. Unlocking(s, none, 1) \cup none \cup none = {}
  BY DEF Unlocking
<1>5. Leave(g, st, Unlocking(s, none, 1) \cup none \cup none, FALSE)
  BY <1>4 DEF Miss
<1> HIDE DEF st, none
<1> QED
  BY <1>2, <1>3, <1>5, Goes

\* The second half of a $GET that waited: refused, granted, late, or still waiting.
LEMMA ResumeKeeps ==
  ASSUME RmsInv, calls = {}, NEW g \in Get, UNCHANGED <<locks, resources, cells>>,
         ResumeRefused(g) \/ ResumeGranted(g) \/ ResumeLate(g) \/ ResumeWaiting(g)
  PROVE  RmsInv'
<1> DEFINE s == g.stream
           st == stream[s]
           none == {}
           D == {st.waiting} \ {None}
<1>1. s \in Stream /\ StreamOK(st)
  BY DEF Get, RmsInv
<1>2. /\ D \subseteq Cell
      /\ DropWaiting(s, 1) = Unlocking(s, D, 1)
      /\ StreamOK(NotWaiting(st))
      /\ NotWaiting(st).file = st.file
      /\ NotWaiting(st).held = st.held
      /\ Records(NotWaiting(st)) = st.held
      /\ st.held = Records(st) \ D
      /\ D \cap st.held = {}
      /\ st.refused => Records(st) = st.held
  BY <1>1, GivenUp
<1>3. Unlocking(s, none, 1) = {}
  BY DEF Unlocking
<1>4. st.waiting \in Cell
  BY <1>1 DEF ResumeRefused, ResumeGranted, ResumeLate, ResumeWaiting, Resumes, StreamOK, StreamRecord
<1>5. CASE ResumeRefused(g)
  <2>1. st.refused /\ Fail(g, NotWaiting(st), Unlocking(s, none, 1) \cup none)
    BY <1>3, <1>5 DEF ResumeRefused
  <2>2. Prepared(s, NotWaiting(st), none, none, none, none)
    BY <1>1, <1>2, <2>1, OnlyDrops
  <2> HIDE DEF none
  <2>3. Prepared(s, NotWaiting(st), none, none, {}, {})
    BY <2>2 DEF none
  <2> QED
    BY <2>1, <2>3, Fails
<1>6. CASE ResumeGranted(g)
  <2> DEFINE st1 == [NotWaiting(st) EXCEPT !.held = @ \cup {st.waiting}]
  <2>1. /\ ~st.refused /\ Granted(s)
        /\ Succeed(g, st1, st.waiting, Unlocking(s, none, 1) \cup none \cup none)
    BY <1>3, <1>6 DEF ResumeGranted
  <2>2. /\ st1 \in StreamRecord /\ st1.waiting = None /\ st1.file = st.file
        /\ st1.held = st.held \cup {st.waiting}
    BY <1>1, <1>4 DEF StreamOK, StreamRecord, NotWaiting
  <2>3. None \notin Cell /\ st.waiting # None
    BY <1>4, LockNames
  <2>4. StreamOK(st1) /\ Records(st1) = Records(st)
    BY <1>1, <2>1, <2>2, <2>3 DEF StreamOK, StreamRecord, Records
  <2>5. RecordLock(s, st.waiting) \in DOMAIN locks /\ locks[RecordLock(s, st.waiting)].state = "Granted"
    BY <2>1 DEF Granted
  <2>6. Prepared(s, st1, none, none, none, none)
    BY <1>1, <2>2, <2>4, <2>5, OnlyDrops
  <2> HIDE DEF st1, none
  <2>7. none \subseteq {st.waiting}
    BY DEF none
  <2> QED
    BY <1>4, <2>1, <2>6, <2>7, Succeeds
<1>7. CASE ResumeLate(g)
  <2>1. Fail(g, NotWaiting(st), Unlocking(s, D, 1) \cup none)
    BY <1>2, <1>7 DEF ResumeLate
  <2>2. Prepared(s, NotWaiting(st), D, none, none, none)
    BY <1>1, <1>2, OnlyDrops
  <2> HIDE DEF none, D
  <2>3. Prepared(s, NotWaiting(st), D, none, {}, {})
    BY <2>2 DEF none
  <2> QED
    BY <2>1, <2>3, Fails
<1>8. CASE ResumeWaiting(g)
  <2>1. Leave(g, st, Unlocking(s, none, 1) \cup none \cup none, TRUE)
    BY <1>3, <1>8 DEF ResumeWaiting
  <2>2. Prepared(s, st, none, none, none, none)
    BY <1>1, OnlyDrops
  <2> HIDE DEF none
  <2> QED
    BY <2>1, <2>2, Goes
<1> QED
  BY <1>5, <1>6, <1>7, <1>8

\* The calls with which a service comes to ask for a record's lock.
TakingFile(s) ==
  IF stream[s].file \/ ~CanLockFile(s) THEN {} ELSE {Enq(s, FileLock(s), File, NL, NoLock, 2)}

\* Of the locks that stay, the quota leaves room for those it has let be taken.
LEMMA RoomFor ==
  ASSUME RmsInv, NEW s \in Stream, NEW D, D = {stream[s].waiting} \ {None}
  PROVE  /\ TakesFile(s, TakingFile(s))
         /\ LET left == DOMAIN locks \ {RecordLock(s, n) : n \in D} IN
            /\ TakingFile(s) # {} => Cardinality(left \cup Takes(TakingFile(s))) <= ENQLM
            /\ CanLock(s) => \A n \in Cell, m \in RecordMode :
                 Cardinality(left \cup Takes(TakingFile(s)
                   \cup {Enq(s, RecordLock(s, n), n, m, FileLock(s), 3)})) <= ENQLM
<1> DEFINE left == DOMAIN locks \ {RecordLock(s, n) : n \in D}
           F == TakingFile(s)
<1>1. TakesFile(s, F)
  BY DEF TakingFile, TakesFile
<1>2. InUse(s) = Cardinality(left)
  <2>1. {RecordLock(s, n) : n \in D} =
          IF stream[s].waiting = None THEN {} ELSE {RecordLock(s, stream[s].waiting)}
    OBVIOUS
  <2> QED
    BY <2>1 DEF InUse
<1>3. IsFiniteSet(left) /\ Cardinality(left) \in Nat
  <2>1. IsFiniteSet(DOMAIN locks)
    BY FiniteLocks DEF RmsInv, DB, CallsOK
  <2>2. IsFiniteSet(left)
    BY <2>1, FS_Subset
  <2> QED
    BY <2>2, FS_CardinalityType
<1>4. ENQLM \in Nat
  BY RequestsOK
<1>10. ASSUME NEW A, IsFiniteSet(A), NEW x
       PROVE  /\ IsFiniteSet(A \cup {x})
              /\ Cardinality(A \cup {x}) <= Cardinality(A) + 1
              /\ Cardinality(A \cup {x}) \in Nat
  <2>1. Cardinality(A) \in Nat
    BY <1>10, FS_CardinalityType
  <2>2. /\ IsFiniteSet(A \cup {x})
        /\ Cardinality(A \cup {x}) = IF x \in A THEN Cardinality(A) ELSE Cardinality(A) + 1
    BY <1>10, FS_AddElement
  <2> QED
    BY <2>1, <2>2
<1>5. \A x : /\ IsFiniteSet(left \cup {x})
             /\ Cardinality(left \cup {x}) <= Cardinality(left) + 1
             /\ Cardinality(left \cup {x}) \in Nat
  BY <1>3, <1>10
<1>6. \A x, y : /\ Cardinality(left \cup {x, y}) <= Cardinality(left) + 2
                /\ Cardinality(left \cup {x, y}) \in Nat
  <2> TAKE x, y
  <2> DEFINE one == left \cup {x}
  <2>1. IsFiniteSet(one) /\ Cardinality(one) <= Cardinality(left) + 1 /\ Cardinality(one) \in Nat
    BY <1>5
  <2>2. left \cup {x, y} = one \cup {y}
    OBVIOUS
  <2> HIDE DEF one, left
  <2>3. Cardinality(one \cup {y}) <= Cardinality(one) + 1 /\ Cardinality(one \cup {y}) \in Nat
    BY <1>10, <2>1
  <2>4. Cardinality(left) \in Nat
    BY <1>3
  <2> QED
    BY <2>1, <2>2, <2>3, <2>4
<1> HIDE DEF left
<1>7. ASSUME F # {}
      PROVE  /\ Cardinality(left) < ENQLM /\ ~stream[s].file
             /\ Takes(F) = {FileLock(s)}
             /\ F = {Enq(s, FileLock(s), File, NL, NoLock, 2)}
  BY <1>2, <1>7 DEF TakingFile, CanLockFile, Takes, Enq
<1>8. F # {} => Cardinality(left \cup Takes(F)) <= ENQLM
  <2> DEFINE k == Cardinality(left)
             j == Cardinality(left \cup {FileLock(s)})
  <2>1. j <= k + 1 /\ j \in Nat /\ k \in Nat /\ (F # {} => k < ENQLM)
    BY <1>3, <1>5, <1>7
  <2> HIDE DEF k, j
  <2>2. F # {} => j <= ENQLM
    BY <1>4, <2>1
  <2> QED
    BY <1>7, <2>2 DEF j
<1>9. ASSUME CanLock(s), NEW n \in Cell, NEW m \in RecordMode
      PROVE  Cardinality(left \cup Takes(F \cup {Enq(s, RecordLock(s, n), n, m, FileLock(s), 3)})) <= ENQLM
  <2> DEFINE e == Enq(s, RecordLock(s, n), n, m, FileLock(s), 3)
  <2>1. CASE F = {}
    <3>1. Takes(F \cup {e}) = {RecordLock(s, n)}
      <4>1. e.svc = "enq" /\ e.id = RecordLock(s, n)
        BY DEF Enq
      <4> HIDE DEF e
      <4>2. F \cup {e} = {e}
        BY <2>1
      <4> QED
        BY <4>1, <4>2 DEF Takes
    <3> DEFINE k == Cardinality(left)
               j == Cardinality(left \cup {RecordLock(s, n)})
    <3>2. j <= k + 1 /\ j \in Nat /\ k \in Nat /\ k < ENQLM
      BY <1>2, <1>3, <1>5, <1>9 DEF CanLock, CanLockFile
    <3> HIDE DEF k, j
    <3>3. j <= ENQLM
      BY <1>4, <3>2
    <3> QED
      BY <3>1, <3>3 DEF j
  <2>2. CASE F # {}
    <3>1. Takes(F \cup {e}) = {FileLock(s), RecordLock(s, n)}
      <4>1. /\ e.svc = "enq" /\ e.id = RecordLock(s, n)
            /\ Enq(s, FileLock(s), File, NL, NoLock, 2).svc = "enq"
            /\ Enq(s, FileLock(s), File, NL, NoLock, 2).id = FileLock(s)
        BY DEF Enq
      <4> HIDE DEF e
      <4>2. F \cup {e} = {Enq(s, FileLock(s), File, NL, NoLock, 2), e}
        BY <1>7, <2>2
      <4> QED
        BY <4>1, <4>2 DEF Takes
    <3>2. Cardinality(left) + 1 < ENQLM
      BY <1>2, <1>7, <1>9, <2>2 DEF CanLock
    <3> DEFINE k == Cardinality(left)
               j == Cardinality(left \cup {FileLock(s), RecordLock(s, n)})
    <3>3. j <= k + 2 /\ j \in Nat /\ k \in Nat /\ k + 1 < ENQLM
      BY <1>3, <1>6, <3>2
    <3> HIDE DEF k, j
    <3>4. j <= ENQLM
      BY <1>4, <3>3
    <3> QED
      BY <3>1, <3>4 DEF j
  <2> QED
    BY <2>1, <2>2
<1> QED
  BY <1>1, <1>8, <1>9 DEF left

\* The stream of a service that has come so far.
LEMMA OpenedIs ==
  ASSUME RmsInv, calls = {}, NEW s \in Stream
  PROVE  LET D == {stream[s].waiting} \ {None} IN
         /\ AtFile(s) = Unlocking(s, D, 1) \cup TakingFile(s)
         /\ Opened(s) \in StreamRecord
         /\ Opened(s).held = stream[s].held /\ Opened(s).waiting = None
         /\ Opened(s).current = stream[s].current /\ Opened(s).copy = stream[s].copy
         /\ ~Opened(s).refused
         /\ Opened(s).file <=> stream[s].file \/ TakingFile(s) # {}
         /\ Prepared(s, Opened(s), D, TakingFile(s), {}, {})
<1> DEFINE D == {stream[s].waiting} \ {None}
           F == TakingFile(s)
           st == Opened(s)
<1>1. /\ D \subseteq Cell
      /\ DropWaiting(s, 1) = Unlocking(s, D, 1)
      /\ StreamOK(stream[s])
      /\ Records(NotWaiting(stream[s])) = stream[s].held
      /\ stream[s].held = Records(stream[s]) \ D
      /\ D \cap stream[s].held = {}
  BY GivenUp
<1>2. AtFile(s) = Unlocking(s, D, 1) \cup F
  BY <1>1 DEF AtFile, TakingFile
<1>3. /\ st \in StreamRecord
      /\ st.held = stream[s].held /\ st.waiting = None
      /\ st.current = stream[s].current /\ st.copy = stream[s].copy
      /\ ~st.refused
      /\ st.file <=> stream[s].file \/ CanLockFile(s)
  <2>1. CanLockFile(s) \in BOOLEAN
    BY DEF CanLockFile
  <2> QED
    BY <1>1, <2>1 DEF StreamOK, StreamRecord, Opened, NotWaiting
<1>4. st.file <=> stream[s].file \/ F # {}
  BY <1>3 DEF TakingFile
<1>5. StreamOK(st)
  <2>1. None \notin Cell
    BY LockNames
  <2> QED
    BY <1>1, <1>3, <2>1 DEF StreamOK, StreamRecord
<1>6. Records(st) = stream[s].held
  BY <1>3 DEF Records
<1>7. /\ TakesFile(s, F)
      /\ F # {} => Cardinality((DOMAIN locks \ {RecordLock(s, n) : n \in D}) \cup Takes(F)) <= ENQLM
  BY RoomFor
<1>8. Prepared(s, st, D, F, {}, {})
  <2>1. \A n \in st.held : HeldSoon(s, n, {})
    BY <1>3 DEF HeldSoon
  <2>2. TakesRecord(s, {}, {})
    BY DEF TakesRecord
  <2>3. F \cup {} = F
    OBVIOUS
  <2> HIDE DEF F, D, st
  <2> QED
    BY <1>1, <1>4, <1>5, <1>6, <1>7, <2>1, <2>2, <2>3 DEF Prepared
<1> QED
  BY <1>2, <1>3, <1>4, <1>8

\* It asks for record n's lock: to have it at once, or to wait for it.
LEMMA AskedIs ==
  ASSUME RmsInv, calls = {}, NEW s \in Stream, CanLock(s),
         NEW n \in Cell, n \notin stream[s].held, n # stream[s].waiting, NEW m \in RecordMode,
         NEW st \in StreamRecord,
         st.file = Opened(s).file, ~st.refused,
         \/ Unopposed(n, m) /\ st.held = stream[s].held \cup {n} /\ st.waiting = None
         \/ st.held = stream[s].held /\ st.waiting = n
  PROVE  Prepared(s, st, {stream[s].waiting} \ {None}, TakingFile(s),
                  {Enq(s, RecordLock(s, n), n, m, FileLock(s), 3)}, {n})
<1> DEFINE D == {stream[s].waiting} \ {None}
           F == TakingFile(s)
           T == {Enq(s, RecordLock(s, n), n, m, FileLock(s), 3)}
<1>1. /\ D \subseteq Cell
      /\ StreamOK(stream[s])
      /\ stream[s].held = Records(stream[s]) \ D
      /\ D \cap stream[s].held = {}
  BY GivenUp
<1>2. None \notin Cell
  BY LockNames
<1>3. Opened(s).file <=> stream[s].file \/ F # {}
  BY OpenedIs
<1>4. st.file
  BY <1>3 DEF Opened, NotWaiting, CanLock, CanLockFile, TakingFile
<1>5. StreamOK(st) /\ Records(st) = stream[s].held \cup {n}
  <2>1. stream[s].held \subseteq Cell
    BY <1>1 DEF StreamOK, StreamRecord
  <2>2. Records(st) = stream[s].held \cup {n}
    BY <1>2 DEF Records
  <2>3. st.waiting \notin st.held
    BY <1>2, <2>1
  <2> QED
    BY <1>4, <2>2, <2>3 DEF StreamOK
<1>6. n \notin D \cup Records(stream[s])
  BY <1>2 DEF Records
<1>7. RecordLock(s, n) \notin DOMAIN locks
  BY <1>6, LocksAreTheirs
<1>8. \A k \in st.held : HeldSoon(s, k, T)
  BY <1>7 DEF HeldSoon, Enq
<1>9. TakesFile(s, F) /\ TakesRecord(s, T, {n})
  BY RoomFor DEF TakesRecord
<1>10. Cardinality((DOMAIN locks \ {RecordLock(s, k) : k \in D}) \cup Takes(F \cup T)) <= ENQLM
  BY RoomFor
<1>11. /\ D \cap Records(st) = {} /\ {n} \cap (D \cup Records(stream[s])) = {}
       /\ Records(st) = (Records(stream[s]) \ D) \cup {n}
  BY <1>1, <1>5, <1>6
<1> HIDE DEF D, F, T
<1>12. Prepared(s, st, D, F, T, {n})
  BY <1>1, <1>3, <1>5, <1>8, <1>9, <1>10, <1>11 DEF Prepared
<1> QED
  BY <1>12 DEF D, F, T

\* $GET and $FIND of a record that is there (lockRecord).
LEMMA GetKeeps ==
  ASSUME RmsInv, calls = {}, NEW g \in Get, UNCHANGED <<locks, resources, cells>>,
         GetHeld(g) \/ GetOverQuota(g) \/ GetGranted(g) \/ GetWaits(g) \/ GetRefused(g)
  PROVE  RmsInv'
<1> DEFINE s == g.stream
           D == {stream[s].waiting} \ {None}
           F == TakingFile(s)
           n == Found(g)
           m == ModeOf(g)
           T == {Enq(s, RecordLock(s, n), n, m, FileLock(s), 3)}
           none == {}
<1>1. s \in Stream /\ g.mode \in {EX, PW, PR} /\ g.tmo \in BOOLEAN
  BY DEF Get
<1>2. /\ n \in Cell /\ n # stream[s].waiting
      /\ Asks(g)
  BY FoundIn DEF Asks, GetHeld, GetOverQuota, GetGranted, GetWaits, GetRefused
<1>3. /\ D \subseteq Cell
      /\ DropWaiting(s, 1) = Unlocking(s, D, 1)
      /\ StreamOK(NotWaiting(stream[s]))
      /\ NotWaiting(stream[s]).file = stream[s].file
      /\ NotWaiting(stream[s]).held = stream[s].held
      /\ Records(NotWaiting(stream[s])) = stream[s].held
      /\ stream[s].held = Records(stream[s]) \ D
      /\ D \cap stream[s].held = {}
  BY <1>1, GivenUp
<1>4. /\ AtFile(s) = Unlocking(s, D, 1) \cup F
      /\ Opened(s) \in StreamRecord
      /\ Opened(s).held = stream[s].held /\ Opened(s).waiting = None
      /\ Opened(s).current = stream[s].current /\ Opened(s).copy = stream[s].copy
      /\ ~Opened(s).refused
      /\ Prepared(s, Opened(s), D, F, {}, {})
  BY <1>1, OpenedIs
<1>5. CASE GetHeld(g)
  <2>1. Succeed(g, NotWaiting(stream[s]), n, Unlocking(s, D, 1) \cup none \cup none)
    BY <1>3, <1>5 DEF GetHeld
  <2>2. Prepared(s, NotWaiting(stream[s]), D, none, none, none)
    BY <1>1, <1>3, OnlyDrops
  <2> HIDE DEF none, D, n
  <2>3. none \subseteq {n}
    BY DEF none
  <2> QED
    BY <1>2, <2>1, <2>2, <2>3, Succeeds
<1>6. CASE GetOverQuota(g)
  <2>1. Fail(g, Opened(s), Unlocking(s, D, 1) \cup F)
    BY <1>4, <1>6 DEF GetOverQuota
  <2> HIDE DEF D, F
  <2> QED
    BY <1>4, <2>1, Fails
<1>7. ~Query(g) => m \in RecordMode /\ AtRecord(g) = Unlocking(s, D, 1) \cup F \cup T
  BY <1>1, <1>4 DEF ModeOf, RecordMode, AtRecord
<1>8. CASE GetGranted(g)
  <2> DEFINE st == [Opened(s) EXCEPT !.held = @ \cup IF Query(g) THEN {} ELSE {n}]
  <2>1. /\ n \notin stream[s].held /\ CanLock(s)
        /\ Grantable(n, m)
        /\ Succeed(g, st, n, AtRecord(g))
    BY <1>8 DEF GetGranted
  <2>2. CASE Query(g)
    <3>1. st = Opened(s)
      BY <1>4, <2>2 DEF StreamRecord
    <3>2. AtRecord(g) = Unlocking(s, D, 1) \cup F \cup none
      BY <1>4, <2>2 DEF AtRecord
    <3>3. none \subseteq {n} /\ Prepared(s, Opened(s), D, F, none, none)
      BY <1>4
    <3> HIDE DEF st
    <3>4. Succeed(g, Opened(s), n, Unlocking(s, D, 1) \cup F \cup none)
      BY <2>1, <3>1, <3>2
    <3> HIDE DEF D, F, n, none
    <3> QED
      BY <1>2, <3>3, <3>4, Succeeds
  <2>3. CASE ~Query(g)
    <3>1. /\ st \in StreamRecord /\ st.file = Opened(s).file /\ ~st.refused
          /\ st.held = stream[s].held \cup {n} /\ st.waiting = None
      BY <1>2, <1>4, <2>3 DEF StreamRecord
    <3>2. Unopposed(n, m)
      BY <1>2, <2>1, GrantableUnopposed
    <3>3. Prepared(s, st, D, F, T, {n})
      <4> HIDE DEF st, n, m
      <4> QED
        BY <1>1, <1>2, <1>7, <2>1, <2>3, <3>1, <3>2, AskedIs
    <3>4. Succeed(g, st, n, Unlocking(s, D, 1) \cup F \cup T)
      BY <1>7, <2>1, <2>3
    <3> HIDE DEF D, F, n, T, st
    <3> QED
      BY <1>2, <3>3, <3>4, Succeeds
  <2> QED
    BY <2>2, <2>3
<1>9. CASE GetWaits(g)
  <2> DEFINE st == [Opened(s) EXCEPT !.waiting = n, !.limited = g.tmo]
             w == TRUE
  <2>1. /\ n \notin stream[s].held /\ CanLock(s) /\ ~Query(g)
        /\ Leave(g, st, Unlocking(s, D, 1) \cup F \cup T, w)
    BY <1>7, <1>9 DEF GetWaits
  <2>2. /\ st \in StreamRecord /\ st.file = Opened(s).file /\ ~st.refused
        /\ st.held = stream[s].held /\ st.waiting = n
        /\ st.copy = stream[s].copy /\ st.current = stream[s].current
    BY <1>1, <1>2, <1>4 DEF StreamRecord
  <2>3. Prepared(s, st, D, F, T, {n})
    <3> HIDE DEF st, n, m
    <3> QED
      BY <1>1, <1>2, <1>7, <2>1, <2>2, AskedIs
  <2> HIDE DEF D, F, n, T, st, w
  <2> QED
    BY <2>1, <2>2, <2>3, Goes
<1>10. CASE GetRefused(g)
  <2>1. CASE g.rrl
    <3>1. Succeed(g, Opened(s), n, Unlocking(s, D, 1) \cup F \cup none)
      BY <1>4, <1>10, <2>1 DEF GetRefused
    <3>2. none \subseteq {n} /\ Prepared(s, Opened(s), D, F, none, none)
      BY <1>4
    <3> HIDE DEF D, F, n, none
    <3> QED
      BY <1>2, <3>1, <3>2, Succeeds
  <2>2. CASE ~g.rrl
    <3>1. Fail(g, Opened(s), Unlocking(s, D, 1) \cup F)
      BY <1>4, <1>10, <2>2 DEF GetRefused
    <3> HIDE DEF D, F
    <3> QED
      BY <1>4, <3>1, Fails
  <2> QED
    BY <2>1, <2>2
<1> QED
  BY <1>5, <1>6, <1>8, <1>9, <1>10

\* $GET and $FIND in all their branches.
LEMMA LocateKeeps ==
  ASSUME RmsInv, NEW g \in Gets, Locate(g)
  PROVE  RmsInv'
<1>1. g \in Get /\ calls = {} /\ UNCHANGED <<locks, resources, cells>>
  BY RequestsOK DEF Locate
<1> QED
  BY <1>1, MissKeeps, ResumeKeeps, GetKeeps DEF Locate

-----------------------------------------------------------------------------
(* The other services *)

\* Two streams' locks on one record are compatible.
LEMMA HeldTogether ==
  ASSUME RmsInv, calls = {}, NEW s \in Stream, NEW t \in Stream, s # t,
         NEW n \in Cell, n \in stream[s].held, n \in stream[t].held
  PROVE  /\ RecordLock(t, n) \in DOMAIN locks
         /\ locks[RecordLock(t, n)].mode \notin {EX, PW}
<1> DEFINE l == RecordLock(s, n)
           o == RecordLock(t, n)
<1>1. l \in DOMAIN locks /\ o \in DOMAIN locks /\ l # o
  BY LocksAreTheirs, LockNames DEF Records
<1>2. IsRecordLock(s, n, locks[l]) /\ IsRecordLock(t, n, locks[o])
  BY <1>1, ShapeOf DEF RmsInv
<1>3. locks[l].state = "Granted" /\ locks[o].state = "Granted"
  BY <1>1 DEF RmsInv, HeldOK
<1> HIDE DEF l, o
<1>4. Compatible(locks[l].mode, locks[o].mode)
  BY <1>1, <1>2, <1>3 DEF RmsInv, DB, HoldersCompatible, IsRecordLock
<1>5. locks[l].mode \in RecordMode
  BY <1>1, <1>2, <1>3 DEF RmsInv, DB, ModesSettled, IsRecordLock
<1>6. locks[o].mode \notin {EX, PW}
  BY <1>4, <1>5 DEF RecordMode, Compatible, Share, Mode, NL, CR, CW, PR, PW, EX
<1> QED
  BY <1>1, <1>6 DEF o

\* A stream loses its current record, and others the copies they have.
LEMMA StreamsLost ==
  ASSUME RmsInv, calls = {}, NEW s \in Stream, NEW n \in Cell \cup {None},
         NEW how \in {"as read", "changed", "put over"},
         how = "changed" /\ n # None => n \in stream[s].held,
         stream' = Lost(s, n, how),
         UNCHANGED <<locks, resources, calls>>, cells' \subseteq Cell
  PROVE  RmsInv'
<1>1. \A t \in Stream : stream[t] \in StreamRecord
  BY DEF RmsInv, StreamOK
<1>2. stream'[s] = NoCurrent(stream[s])
  BY DEF Lost
<1>3. ASSUME NEW t \in Stream, t # s
      PROVE  \/ stream'[t] = stream[t]
             \/ /\ n \in stream[t].held /\ stream[t].current = n
                /\ stream'[t] = [stream[t] EXCEPT !.copy = how]
  BY <1>3 DEF Lost
<1>4. DOMAIN stream' = Stream
  BY DEF Lost
<1>5. \A t \in Stream :
        /\ stream'[t].file = stream[t].file
        /\ stream'[t].held = stream[t].held
        /\ stream'[t].waiting = stream[t].waiting
        /\ stream'[t].refused = stream[t].refused
        /\ stream'[t] \in StreamRecord
  <2> SUFFICES ASSUME NEW t \in Stream
               PROVE  /\ stream'[t].file = stream[t].file
                      /\ stream'[t].held = stream[t].held
                      /\ stream'[t].waiting = stream[t].waiting
                      /\ stream'[t].refused = stream[t].refused
                      /\ stream'[t] \in StreamRecord
    OBVIOUS
  <2>1. CASE t = s
    BY <1>1, <1>2, <2>1 DEF StreamRecord, NoCurrent
  <2>2. CASE t # s /\ stream'[t] = stream[t]
    BY <1>1, <2>2
  <2>3. CASE t # s /\ stream'[t] = [stream[t] EXCEPT !.copy = how]
    BY <1>1, <2>3 DEF StreamRecord
  <2> QED
    BY <1>3, <2>1, <2>2, <2>3
<1>6. \A t \in Stream : StreamOK(stream'[t])
  BY <1>5 DEF RmsInv, StreamOK
<1>7. calls' = {} /\ CallsOK(calls') /\ Drops(calls') = {} /\ Takes(calls') = {}
  BY NoCalls
<1>8. Theirs(stream') = DOMAIN locks
  <2>1. \A t \in Stream : LocksFor(t, stream'[t]) = LocksFor(t, stream[t])
    BY <1>5 DEF LocksFor, Records
  <2>2. Theirs(stream') = Theirs(stream)
    BY <2>1 DEF Theirs
  <2> QED
    BY <2>2, LocksAreTheirs
<1>9. \A t \in Stream : CopyOK(t, stream'[t])
  <2>1. CopyOK(s, stream'[s])
    BY <1>1, <1>2 DEF CopyOK, NoCurrent, StreamRecord
  <2>2. ASSUME NEW t \in Stream, t # s
        PROVE  CopyOK(t, stream'[t])
    <3>1. CASE stream'[t] = stream[t]
      BY <3>1 DEF RmsInv
    <3>2. CASE /\ n \in stream[t].held /\ stream[t].current = n
               /\ stream'[t] = [stream[t] EXCEPT !.copy = how]
      <4>1. stream'[t].copy = how /\ stream'[t].current = n
        BY <1>1, <3>2 DEF StreamRecord
      <4>2. n \in Cell /\ n # None
        BY <1>1, <3>2, LockNames DEF StreamRecord
      <4>3. how = "changed" => n \in stream[s].held
        BY <4>2
      <4>4. how = "changed" => /\ RecordLock(t, n) \in DOMAIN locks
                               /\ locks[RecordLock(t, n)].mode \notin {EX, PW}
        BY <2>2, <3>2, <4>2, <4>3, HeldTogether
      <4> QED
        BY <4>1, <4>4 DEF CopyOK
    <3> QED
      BY <1>3, <2>2, <3>1, <3>2
  <2> QED
    BY <2>1, <2>2
<1>10. \A t \in Stream : \A k \in stream'[t].held :
         /\ RecordLock(t, k) \in DOMAIN locks => locks[RecordLock(t, k)].state = "Granted"
         /\ \A c \in calls' : c.svc = "enq" /\ c.id = RecordLock(t, k) => Unopposed(k, c.mode)
  BY <1>5, <1>7 DEF RmsInv, HeldOK
<1> QED
  BY <1>4, <1>6, <1>7, <1>8, <1>9, <1>10, Decided

\* $UPDATE, $DELETE and $PUT: no lock is touched, copies grow old.
LEMMA ChangeKeeps ==
  ASSUME RmsInv, NEW s \in Stream,
         Update(s) \/ Delete(s) \/ \E n \in Cell, uif \in Puts : Put(s, n, uif)
  PROVE  RmsInv'
<1>1. calls = {} /\ UNCHANGED <<locks, resources, calls>>
  BY DEF Update, Delete, Put, CanCall
<1>2. cells \subseteq Cell /\ stream[s] \in StreamRecord
  BY DEF RmsInv, StreamOK
<1>3. CASE Update(s) \/ Delete(s)
  <2> DEFINE n == IF Changes(s) THEN stream[s].current ELSE None
  <2>1. stream' = Lost(s, n, "changed") /\ cells' \subseteq Cell
    BY <1>2, <1>3 DEF Update, Delete, Change
  <2>2. n \in Cell \cup {None} /\ (n # None => n \in stream[s].held)
    BY <1>2 DEF StreamRecord, Changes, HasLockedRecord
  <2> HIDE DEF n
  <2> QED
    BY <1>1, <2>1, <2>2, StreamsLost
<1>4. CASE \E n \in Cell, uif \in Puts : Put(s, n, uif)
  <2>1. PICK n \in Cell, uif \in Puts : Put(s, n, uif)
    BY <1>4
  <2>2. CASE n \in cells /\ ~uif
    <3>1. stream' = Lost(s, None, "as read") /\ cells' = cells
      BY <2>1, <2>2 DEF Put
    <3> QED
      BY <1>1, <1>2, <3>1, StreamsLost
  <2>3. CASE ~(n \in cells /\ ~uif)
    <3>1. stream' = Lost(s, n, "put over") /\ cells' = cells \cup {n}
      BY <2>1, <2>3 DEF Put
    <3> QED
      BY <1>1, <1>2, <3>1, StreamsLost
  <2> QED
    BY <2>2, <2>3
<1> QED
  BY <1>3, <1>4

\* $FREE and $RELEASE: the held locks, or one of them, are let go.
LEMMA FreeKeeps ==
  ASSUME RmsInv, NEW s \in Stream, Free(s) \/ \E n \in Cell : ReleaseRecord(s, n)
  PROVE  RmsInv'
<1>1. calls = {} /\ UNCHANGED <<locks, resources>> /\ cells' \subseteq Cell
  BY DEF RmsInv, Free, ReleaseRecord, CanCall
<1>2. PICK D \in SUBSET stream[s].held :
        /\ stream' = [stream EXCEPT ![s].held = @ \ D]
        /\ calls' = Unlocking(s, D, 1)
  <2>1. CASE Free(s)
    <3> DEFINE D == stream[s].held
    <3>1. stream' = [stream EXCEPT ![s].held = @ \ D] /\ calls' = Unlocking(s, D, 1)
      BY <2>1 DEF Free
    <3> QED
      BY <3>1
  <2>2. CASE \E n \in Cell : ReleaseRecord(s, n)
    BY <2>2 DEF ReleaseRecord
  <2> QED
    BY <2>1, <2>2
<1> DEFINE st == [stream[s] EXCEPT !.held = @ \ D]
           none == {}
<1>3. StreamOK(stream[s]) /\ s \in DOMAIN stream
  BY DEF RmsInv
<1>4. /\ st \in StreamRecord /\ st.held = stream[s].held \ D /\ st.file = stream[s].file
      /\ st.waiting = stream[s].waiting /\ st.refused = stream[s].refused
      /\ st.copy = stream[s].copy /\ st.current = stream[s].current
  BY <1>3 DEF StreamOK, StreamRecord
<1>5. stream' = [stream EXCEPT ![s] = st]
  BY <1>2
<1>6. StreamOK(st) /\ Records(st) = Records(stream[s]) \ D /\ D \in SUBSET Cell
  BY <1>3, <1>4 DEF StreamOK, StreamRecord, Records
<1> HIDE DEF st
<1>7. Prepared(s, st, D, none, none, none)
  BY <1>4, <1>6, OnlyDrops
<1>8. calls' = Unlocking(s, D, 1) \cup none \cup none \cup Unlocking(s, none, 4)
  BY <1>2 DEF Unlocking
<1>9. /\ none \in SUBSET Cell /\ none \subseteq st.held /\ none \cap none = {} /\ st.held = st.held \ none
      /\ st.held \subseteq stream[s].held
  BY <1>4
<1> HIDE DEF none
<1> QED
  BY <1>1, <1>4, <1>5, <1>7, <1>8, <1>9, OneStream

\* The calls that close a stream's file.
LEMMA DropAllIs ==
  ASSUME RmsInv, NEW s \in Stream, NEW k \in Nat
  PROVE  /\ \A c \in DropAll(s, k) :
              /\ c.svc = "deq" /\ CallOK(c)
              /\ \/ c.id = FileLock(s) /\ c.turn = 3 * k + 2
                 \/ \E n \in Cell : c.id = RecordLock(s, n) /\ c.turn < 3 * k + 2
         /\ \A c, d \in DropAll(s, k) : c.id = d.id => c = d
         /\ stream[s].file =>
              /\ \E c \in DropAll(s, k) : c.id = FileLock(s)
              /\ \A n \in Records(stream[s]) :
                   \E c \in DropAll(s, k) : c.id = RecordLock(s, n) /\ c.turn < 3 * k + 2
<1> DEFINE st == stream[s]
           W == {st.waiting} \ {None}
<1>1. StreamOK(st) /\ W \subseteq Cell /\ W \cap st.held = {} /\ st.held \subseteq Cell
  BY GivenUp DEF StreamOK, StreamRecord
<1>2. /\ 3 * k \in Nat /\ 3 * k + 1 \in Nat /\ 3 * k + 2 \in Nat
      /\ 3 * k < 3 * k + 2 /\ 3 * k + 1 < 3 * k + 2
  OBVIOUS
<1>3. \A l, j : /\ Deq(s, l, j).svc = "deq" /\ Deq(s, l, j).id = l /\ Deq(s, l, j).turn = j
  BY DEF Deq
<1>4. \A l \in {FileLock(s)} \cup {RecordLock(s, n) : n \in Cell}, j \in Nat : CallOK(Deq(s, l, j))
  BY <1>3 DEF CallOK, DropsOne
<1>5. ASSUME NEW c \in DropAll(s, k)
      PROVE  \/ c = Deq(s, FileLock(s), 3 * k + 2)
             \/ \E n \in W : c = Deq(s, RecordLock(s, n), 3 * k)
             \/ \E n \in st.held : c = Deq(s, RecordLock(s, n), 3 * k + 1)
  BY DEF DropAll, DropWaiting, Unlocking
<1>6. /\ st.file => Deq(s, FileLock(s), 3 * k + 2) \in DropAll(s, k)
      /\ \A n \in W : st.file => Deq(s, RecordLock(s, n), 3 * k) \in DropAll(s, k)
      /\ \A n \in st.held : st.file => Deq(s, RecordLock(s, n), 3 * k + 1) \in DropAll(s, k)
  BY DEF DropAll, DropWaiting, Unlocking
<1>7. Records(st) \subseteq st.held \cup W
  BY <1>1, LockNames DEF Records, StreamOK, StreamRecord
<1> HIDE DEF st, W
<1>8. \A c \in DropAll(s, k) :
        /\ c.svc = "deq" /\ CallOK(c)
        /\ \/ c.id = FileLock(s) /\ c.turn = 3 * k + 2
           \/ \E n \in Cell : c.id = RecordLock(s, n) /\ c.turn < 3 * k + 2
  <2> SUFFICES ASSUME NEW c \in DropAll(s, k)
               PROVE  /\ c.svc = "deq" /\ CallOK(c)
                      /\ \/ c.id = FileLock(s) /\ c.turn = 3 * k + 2
                         \/ \E n \in Cell : c.id = RecordLock(s, n) /\ c.turn < 3 * k + 2
    OBVIOUS
  <2>1. CASE c = Deq(s, FileLock(s), 3 * k + 2)
    BY <1>2, <1>3, <1>4, <2>1
  <2>2. CASE \E n \in W : c = Deq(s, RecordLock(s, n), 3 * k)
    BY <1>1, <1>2, <1>3, <1>4, <2>2
  <2>3. CASE \E n \in st.held : c = Deq(s, RecordLock(s, n), 3 * k + 1)
    BY <1>1, <1>2, <1>3, <1>4, <2>3
  <2> QED
    BY <1>5, <2>1, <2>2, <2>3
<1>9. ASSUME NEW c \in DropAll(s, k), NEW d \in DropAll(s, k), c.id = d.id
      PROVE  c = d
  <2>1. \A n \in Cell : FileLock(s) # RecordLock(s, n)
    BY LockNames
  <2>2. \A n, m \in Cell : RecordLock(s, n) = RecordLock(s, m) => n = m
    BY LockNames
  <2>3. \A x \in {c, d} :
          \/ x = Deq(s, FileLock(s), 3 * k + 2) /\ x.id = FileLock(s)
          \/ \E n \in Cell : /\ n \in W /\ n \notin st.held /\ x.id = RecordLock(s, n)
                            /\ x = Deq(s, RecordLock(s, n), 3 * k)
          \/ \E n \in Cell : /\ n \in st.held /\ n \notin W /\ x.id = RecordLock(s, n)
                            /\ x = Deq(s, RecordLock(s, n), 3 * k + 1)
    <3> SUFFICES ASSUME NEW x \in DropAll(s, k)
                 PROVE  \/ x = Deq(s, FileLock(s), 3 * k + 2) /\ x.id = FileLock(s)
                        \/ \E n \in Cell : /\ n \in W /\ n \notin st.held /\ x.id = RecordLock(s, n)
                                          /\ x = Deq(s, RecordLock(s, n), 3 * k)
                        \/ \E n \in Cell : /\ n \in st.held /\ n \notin W /\ x.id = RecordLock(s, n)
                                          /\ x = Deq(s, RecordLock(s, n), 3 * k + 1)
      OBVIOUS
    <3>1. CASE x = Deq(s, FileLock(s), 3 * k + 2)
      BY <1>3, <3>1
    <3>2. CASE \E n \in W : x = Deq(s, RecordLock(s, n), 3 * k)
      BY <1>1, <1>3, <3>2
    <3>3. CASE \E n \in st.held : x = Deq(s, RecordLock(s, n), 3 * k + 1)
      BY <1>1, <1>3, <3>3
    <3> QED
      BY <1>5, <3>1, <3>2, <3>3
  <2>4. CASE c.id = FileLock(s)
    <3>1. \A x \in {c, d} : x.id = FileLock(s)
      BY <1>9, <2>4
    <3>2. \A x \in {c, d} : x = Deq(s, FileLock(s), 3 * k + 2)
      BY <2>1, <2>3, <3>1
    <3> QED
      BY <3>2
  <2>5. CASE \E n \in Cell : c.id = RecordLock(s, n)
    <3>1. PICK n \in Cell : c.id = RecordLock(s, n)
      BY <2>5
    <3>2. \A m \in Cell : c.id = RecordLock(s, m) => m = n
      BY <2>2, <3>1
    <3>3. \A x \in {c, d} :
            \/ /\ n \in W /\ n \notin st.held
               /\ x = Deq(s, RecordLock(s, n), 3 * k)
            \/ /\ n \in st.held /\ n \notin W
               /\ x = Deq(s, RecordLock(s, n), 3 * k + 1)
      <4>1. \A x \in {c, d} : x.id = RecordLock(s, n)
        BY <1>9, <3>1
      <4> QED
        BY <1>9, <2>1, <2>3, <3>2, <4>1
    <3> QED
      BY <3>3
  <2> QED
    BY <2>3, <2>4, <2>5
<1>10. st.file => \A n \in Records(st) :
         \E c \in DropAll(s, k) : c.id = RecordLock(s, n) /\ c.turn < 3 * k + 2
  <2> SUFFICES ASSUME st.file, NEW n \in Records(st)
               PROVE  \E c \in DropAll(s, k) : c.id = RecordLock(s, n) /\ c.turn < 3 * k + 2
    OBVIOUS
  <2>1. CASE n \in W
    BY <1>2, <1>3, <1>6, <2>1
  <2>2. CASE n \in st.held
    BY <1>2, <1>3, <1>6, <2>2
  <2> QED
    BY <1>7, <2>1, <2>2
<1>11. st.file => \E c \in DropAll(s, k) : c.id = FileLock(s)
  BY <1>3, <1>6
<1> QED
  BY <1>8, <1>9, <1>10, <1>11 DEF st

\* Some streams' files are closed, the streams one after another.
LEMMA FilesClosed ==
  ASSUME RmsInv, calls = {}, NEW mine \in SUBSET Stream, NEW place \in [mine -> Nat],
         calls' = UNION {DropAll(s, place[s]) : s \in mine},
         stream' = [s \in Stream |-> IF s \in mine THEN Closed ELSE stream[s]],
         UNCHANGED <<locks, resources, cells>>
  PROVE  RmsInv'
<1> DEFINE C == calls'
<1>1. \A c \in C : \E s \in mine : c \in DropAll(s, place[s])
  OBVIOUS
<1>2. \A s \in mine : DropAll(s, place[s]) \subseteq C
  OBVIOUS
<1> HIDE DEF C
<1>3. ASSUME NEW s \in mine
      PROVE  /\ \A c \in DropAll(s, place[s]) :
                  /\ c.svc = "deq" /\ CallOK(c)
                  /\ \/ c.id = FileLock(s) /\ c.turn = 3 * place[s] + 2
                     \/ \E n \in Cell : c.id = RecordLock(s, n) /\ c.turn < 3 * place[s] + 2
             /\ \A c, d \in DropAll(s, place[s]) : c.id = d.id => c = d
             /\ stream[s].file =>
                  /\ \E c \in DropAll(s, place[s]) : c.id = FileLock(s)
                  /\ \A n \in Records(stream[s]) :
                       \E c \in DropAll(s, place[s]) : c.id = RecordLock(s, n) /\ c.turn < 3 * place[s] + 2
  <2>1. place[s] \in Nat /\ s \in Stream
    OBVIOUS
  <2> DEFINE k == place[s]
  <2> HIDE DEF k
  <2>2. k \in Nat
    BY <2>1 DEF k
  <2>3. /\ \A c \in DropAll(s, k) :
             /\ c.svc = "deq" /\ CallOK(c)
             /\ \/ c.id = FileLock(s) /\ c.turn = 3 * k + 2
                \/ \E n \in Cell : c.id = RecordLock(s, n) /\ c.turn < 3 * k + 2
        /\ \A c, d \in DropAll(s, k) : c.id = d.id => c = d
        /\ stream[s].file =>
             /\ \E c \in DropAll(s, k) : c.id = FileLock(s)
             /\ \A n \in Records(stream[s]) :
                  \E c \in DropAll(s, k) : c.id = RecordLock(s, n) /\ c.turn < 3 * k + 2
    BY <2>1, <2>2, DropAllIs
  <2> QED
    BY <2>3 DEF k
<1>4. \A c \in C : c.svc = "deq" /\ CallOK(c)
  BY <1>1, <1>3
<1>5. ASSUME NEW c \in C, NEW s \in mine, c \in DropAll(s, place[s]),
             NEW t \in Stream, c.id = FileLock(t) \/ \E n \in Cell : c.id = RecordLock(t, n)
      PROVE  s = t
  <2>1. s \in Stream
    OBVIOUS
  <2>2. c.id = FileLock(s) \/ \E n \in Cell : c.id = RecordLock(s, n)
    BY <1>3, <1>5
  <2> QED
    BY <1>5, <2>1, <2>2, LockNames DEF FileLock
<1>6. ASSUME NEW c \in C, NEW d \in C, c.id = d.id
      PROVE  c = d
  <2>1. PICK s \in mine : c \in DropAll(s, place[s])
    BY <1>1
  <2>2. PICK t \in mine : d \in DropAll(t, place[t])
    BY <1>1
  <2>3. d.id = FileLock(t) \/ \E n \in Cell : d.id = RecordLock(t, n)
    BY <1>3, <2>2
  <2>4. s = t
    BY <1>5, <1>6, <2>1, <2>3
  <2> QED
    BY <1>3, <1>6, <2>1, <2>2, <2>4
<1>7. Takes(C) = {}
  BY <1>4 DEF Takes
<1>8. ASSUME NEW c \in C, NEW s \in Stream, c.id = FileLock(s), NEW n \in Cell,
             RecordLock(s, n) \in DOMAIN locks
      PROVE  \E d \in C : d.id = RecordLock(s, n) /\ d.turn < c.turn
  <2>1. PICK t \in mine : c \in DropAll(t, place[t])
    BY <1>1
  <2>2. t = s
    BY <1>5, <1>8, <2>1
  <2>3. n \in Records(stream[s])
    BY <1>8, LocksAreTheirs
  <2>4. stream[s].file
    BY <2>3 DEF RmsInv, StreamOK, Records
  <2>5. c.turn = 3 * place[s] + 2
    BY <1>3, <1>8, <2>1, <2>2, LockNames
  <2> QED
    BY <1>2, <1>3, <2>2, <2>3, <2>4, <2>5
<1>9. CallsOK(C)
  BY <1>4, <1>6, <1>7, <1>8 DEF CallsOK
<1>10. Closed \in StreamRecord /\ StreamOK(Closed) /\ Records(Closed) = {} /\ Closed.copy = "as read"
       /\ Closed.held = {} /\ ~Closed.file
  BY LockNames DEF StreamOK, StreamRecord, Closed, Records
<1>11. /\ \A s \in mine : stream'[s] = Closed
       /\ \A s \in Stream \ mine : stream'[s] = stream[s]
       /\ DOMAIN stream' = Stream
  OBVIOUS
<1>12. \A s \in Stream : StreamOK(stream'[s])
  BY <1>10, <1>11 DEF RmsInv
<1>13. Theirs(stream') = DOMAIN locks \ Drops(C)
  <2>1. \A x : x \in Drops(C) <=> \E c \in C : c.id = x
    BY <1>4 DEF Drops
  <2>2. DOMAIN locks = Theirs(stream)
    BY NoCalls DEF RmsInv
  <2>3. \A s \in mine : LocksFor(s, stream'[s]) = {}
    BY <1>10, <1>11 DEF LocksFor
  <2>4. \A s \in mine : \A x \in LocksFor(s, stream[s]) : x \in Drops(C)
    <3> SUFFICES ASSUME NEW s \in mine, NEW x \in LocksFor(s, stream[s]) PROVE x \in Drops(C)
      OBVIOUS
    <3>1. stream[s].file
      BY DEF LocksFor, RmsInv, StreamOK, Records
    <3>2. \E c \in DropAll(s, place[s]) : c.id = x
      BY <1>3, <3>1 DEF LocksFor
    <3> QED
      BY <1>2, <2>1, <3>2
  <2>5. \A s \in Stream \ mine : \A x \in LocksFor(s, stream[s]) : x \notin Drops(C)
    <3> SUFFICES ASSUME NEW s \in Stream \ mine, NEW x \in LocksFor(s, stream[s]), NEW c \in C, c.id = x
                 PROVE  FALSE
      BY <2>1
    <3>1. Records(stream[s]) \subseteq Cell
      BY LocksAreTheirs
    <3>2. x = FileLock(s) \/ \E n \in Cell : x = RecordLock(s, n)
      BY <3>1 DEF LocksFor
    <3>3. PICK t \in mine : c \in DropAll(t, place[t])
      BY <1>1
    <3>4. t = s
      BY <1>5, <3>2, <3>3
    <3> QED
      BY <3>4
  <2>6. ASSUME NEW x \in Theirs(stream')
        PROVE  x \in DOMAIN locks \ Drops(C)
    <3>1. PICK s \in Stream : x \in LocksFor(s, stream'[s])
      BY DEF Theirs
    <3>2. s \in Stream \ mine /\ x \in LocksFor(s, stream[s])
      BY <1>11, <2>3, <3>1
    <3> QED
      BY <2>2, <2>5, <3>2 DEF Theirs
  <2>7. ASSUME NEW x \in DOMAIN locks \ Drops(C)
        PROVE  x \in Theirs(stream')
    <3>1. PICK s \in Stream : x \in LocksFor(s, stream[s])
      BY <2>2 DEF Theirs
    <3>2. s \in Stream \ mine
      BY <2>4, <3>1
    <3>3. x \in LocksFor(s, stream'[s])
      BY <1>11, <3>1, <3>2
    <3> QED
      BY <3>3 DEF Theirs
  <2> QED
    BY <2>6, <2>7
<1>14. ASSUME NEW s \in Stream, NEW n \in stream'[s].held
       PROVE  /\ RecordLock(s, n) \in DOMAIN locks => locks[RecordLock(s, n)].state = "Granted"
              /\ \A c \in C : c.svc = "enq" /\ c.id = RecordLock(s, n) => Unopposed(n, c.mode)
  <2>1. n \in stream[s].held
    BY <1>10, <1>11
  <2> QED
    BY <1>4, <2>1 DEF RmsInv, HeldOK
<1>15. \A s \in Stream : CopyOK(s, stream'[s])
  BY <1>10, <1>11 DEF RmsInv, CopyOK
<1>16. cells' \subseteq Cell
  BY DEF RmsInv
<1> QED
  BY <1>7, <1>9, <1>11, <1>12, <1>13, <1>14, <1>15, <1>16, Decided DEF C

\* $CLOSE of one stream.
LEMMA CloseKeeps ==
  ASSUME RmsInv, NEW s \in Stream, Close(s)
  PROVE  RmsInv'
<1> DEFINE mine == {s}
           place == [t \in mine |-> 0]
<1>1. calls = {} /\ UNCHANGED <<locks, resources, cells>>
  BY DEF Close, CanCall
<1>2. mine \in SUBSET Stream /\ place \in [mine -> Nat]
  OBVIOUS
<1>3. calls' = UNION {DropAll(t, place[t]) : t \in mine}
  BY DEF Close
<1>4. stream' = [t \in Stream |-> IF t \in mine THEN Closed ELSE stream[t]]
  BY DEF Close, RmsInv
<1> HIDE DEF mine, place
<1> QED
  BY <1>1, <1>2, <1>3, <1>4, FilesClosed

\* A process's run-down: all its files, in any order.
LEMMA RundownKeeps ==
  ASSUME RmsInv, NEW p \in Owner, RundownFiles(p)
  PROVE  RmsInv'
<1> DEFINE mine == {s \in Stream : ProcessOf[s] = p}
<1>1. PICK place \in Bijection(mine, 1 .. Cardinality(mine)) :
        calls' = UNION {DropAll(s, place[s]) : s \in mine}
  BY DEF RundownFiles
<1>2. /\ calls = {} /\ UNCHANGED <<locks, resources, cells>>
      /\ stream' = [s \in Stream |-> IF s \in mine THEN Closed ELSE stream[s]]
  BY DEF RundownFiles
<1>3. mine \in SUBSET Stream
  OBVIOUS
<1> HIDE DEF mine
<1>4. Cardinality(mine) \in Nat
  <2>1. IsFiniteSet(mine)
    BY <1>3, LockNames, FS_Subset
  <2> QED
    BY <2>1, FS_CardinalityType
<1>5. place \in [mine -> 1 .. Cardinality(mine)]
  BY DEF Bijection, Injection
<1>6. place \in [mine -> Nat]
  BY <1>4, <1>5
<1> QED
  BY <1>1, <1>2, <1>3, <1>6, FilesClosed

\* A refused wait's lock is gone: others may be granted, none is lost.
LEMMA RefuseKeeps ==
  ASSUME RmsInv, NEW s \in Stream, RefuseWait(s)
  PROVE  RmsInv'
<1> DEFINE st == stream[s]
           n == st.waiting
           l == RecordLock(s, n)
           st2 == [st EXCEPT !.refused = TRUE]
<1>1. /\ calls = {} /\ calls' = {} /\ cells' = cells
      /\ n # None /\ ~st.refused
      /\ stream' = [stream EXCEPT ![s].refused = TRUE]
      /\ l \in Queued(locks)
      /\ locks[l].state # "Converting" => RemoveLock(locks, resources, l, "Deadlock")
  BY DEF RefuseWait, Refuse
<1>2. StreamOK(st) /\ DOMAIN stream = Stream
  BY DEF RmsInv
<1>3. n \in Cell /\ n \notin st.held
  BY <1>1, <1>2 DEF StreamOK, StreamRecord
<1>4. l \in DOMAIN locks
  BY <1>1 DEF Queued
<1>5. IsRecordLock(s, n, locks[l])
  BY <1>3, <1>4, ShapeOf DEF RmsInv
<1>6. RemoveLock(locks, resources, l, "Deadlock")
  BY <1>1, <1>5 DEF IsRecordLock
<1>7. /\ DB(locks, resources) /\ Tree(locks, resources, {})
      /\ "Deadlock" \in EventKind
  BY DEF RmsInv, EventKind
<1>8. /\ DB(locks', resources') /\ DOMAIN locks' = DOMAIN locks \ {l}
      /\ \A x \in DOMAIN locks \ {l} : Kept(locks'[x], locks[x])
  <2> HIDE DEF l
  <2> QED
    BY <1>4, <1>6, <1>7, RemoveLockKeeps, RemoveLockKept
<1>9. Children(locks, l) \subseteq {}
  <2> SUFFICES ASSUME NEW x \in DOMAIN locks, locks[x].parent = l PROVE FALSE
    BY DEF Children
  <2>1. l # NoLock /\ \A t \in Stream : l # FileLock(t)
    <3>1. l \in Id /\ \A t \in Stream : FileLock(t) # l
      BY <1>3, LockNames
    <3> HIDE DEF l
    <3> QED
      BY <3>1 DEF NoLock, Id
  <2> HIDE DEF l
  <2> QED
    BY <2>1 DEF RmsInv, LocksShaped, IsFileLock, IsRecordLock
<1>10. Tree(locks', resources', {})
  <2> DEFINE none == {}
  <2>1. Children(locks, l) \subseteq none /\ Tree(locks, resources, none)
    BY <1>7, <1>9
  <2>2. none \ {l} = none
    OBVIOUS
  <2> HIDE DEF l, none
  <2>3. Tree(locks', resources', none \ {l})
    BY <1>4, <1>6, <1>7, <2>1, RemoveLockTree
  <2> QED
    BY <2>2, <2>3 DEF none
<1>11. /\ stream'[s] = st2 /\ DOMAIN stream' = Stream
       /\ \A t \in Stream \ {s} : stream'[t] = stream[t]
  BY <1>1, <1>2
<1>12. /\ st2 \in StreamRecord /\ st2.file = st.file /\ st2.held = st.held
       /\ st2.waiting = n /\ st2.refused /\ st2.copy = st.copy /\ st2.current = st.current
  BY <1>2 DEF StreamOK, StreamRecord
<1> HIDE DEF st2
<1>13. \A t \in Stream : /\ StreamOK(stream'[t])
                         /\ stream'[t].held = stream[t].held /\ stream'[t].copy = stream[t].copy
                         /\ stream'[t].current = stream[t].current
  <2>1. \A t \in Stream \ {s} : StreamOK(stream'[t])
    BY <1>11 DEF RmsInv
  <2>2. StreamOK(st2)
    BY <1>2, <1>12 DEF StreamOK
  <2> QED
    BY <1>11, <1>12, <2>1, <2>2
<1>14. LocksShaped'
  <2> SUFFICES ASSUME NEW x \in DOMAIN locks'
               PROVE  \/ \E t \in Stream : x = FileLock(t) /\ IsFileLock(t, locks'[x])
                      \/ \E t \in Stream, k \in Cell : x = RecordLock(t, k) /\ IsRecordLock(t, k, locks'[x])
    BY DEF LocksShaped, FileLock, RecordLock, IsFileLock, IsRecordLock
  <2>1. x \in DOMAIN locks /\ Kept(locks'[x], locks[x])
    BY <1>8
  <2> QED
    BY <2>1, ShapeKept DEF RmsInv
<1>15. DOMAIN locks = Theirs(stream)
  BY <1>1, LocksAreTheirs
<1>16. Theirs(stream)' = DOMAIN locks'
  <2>1. Theirs(stream)' = Theirs(stream')
    BY DEF Theirs, LocksFor, Records, RecordLock, FileLock
  <2>2. Records(st2) = st.held /\ Records(st) = st.held \cup {n}
    BY <1>1, <1>12 DEF Records
  <2>3. \A t \in Stream : Records(stream[t]) \subseteq Cell
    BY <1>1, LocksAreTheirs
  <2>4. \A t \in Stream \ {s} : l \notin LocksFor(t, stream[t])
    <3>1. \A t \in Stream \ {s}, k \in Cell : l # FileLock(t) /\ l # RecordLock(t, k)
      BY <1>3, LockNames
    <3> HIDE DEF l
    <3>2. ASSUME NEW t \in Stream \ {s}, l \in LocksFor(t, stream[t])
          PROVE  FALSE
      <4>1. l = FileLock(t) \/ \E k \in Cell : l = RecordLock(t, k)
        BY <2>3, <3>2 DEF LocksFor
      <4> QED
        BY <1>3, <3>1, <4>1
    <3> QED
      BY <3>2
  <2>5. LocksFor(s, st2) = LocksFor(s, st) \ {l}
    <3>1. \A k \in st.held : k \in Cell /\ k # n /\ RecordLock(s, k) # l
      <4>1. \A k \in Cell : RecordLock(s, k) = RecordLock(s, n) => k = n
        BY <1>3, LockNames
      <4>2. \A k \in st.held : k \in Cell /\ k # n
        BY <1>2, <1>3 DEF StreamOK, StreamRecord
      <4> QED
        BY <4>1, <4>2
    <3>2. FileLock(s) # l
      BY <1>3, LockNames
    <3> QED
      BY <1>12, <2>2, <3>1, <3>2 DEF LocksFor
  <2> HIDE DEF l
  <2>6. \A x : x \in Theirs(stream') <=> \E t \in Stream : x \in LocksFor(t, stream'[t])
    BY DEF Theirs
  <2>7. \A x : x \in Theirs(stream) <=> \E t \in Stream : x \in LocksFor(t, stream[t])
    BY DEF Theirs
  <2>8. Theirs(stream') = Theirs(stream) \ {l}
    BY <1>11, <2>4, <2>5, <2>6, <2>7
  <2> QED
    BY <1>8, <1>15, <2>1, <2>8
<1>17. \A t \in Stream : \A k \in stream'[t].held : HeldOK(t, k)'
  <2> SUFFICES ASSUME NEW t \in Stream, NEW k \in stream'[t].held,
                      RecordLock(t, k) \in DOMAIN locks'
               PROVE  locks'[RecordLock(t, k)].state = "Granted"
    BY <1>1 DEF HeldOK, RecordLock
  <2>1. /\ RecordLock(t, k) \in DOMAIN locks
        /\ Kept(locks'[RecordLock(t, k)], locks[RecordLock(t, k)])
    BY <1>8
  <2>2. locks[RecordLock(t, k)].state = "Granted"
    BY <1>13, <2>1 DEF RmsInv, HeldOK
  <2> QED
    BY <2>1, <2>2 DEF Kept
<1>18. \A t \in Stream : CopyOK(t, stream[t])'
  <2> SUFFICES ASSUME NEW t \in Stream, stream'[t].copy = "changed",
                      stream'[t].current \in stream'[t].held
               PROVE  /\ RecordLock(t, stream'[t].current) \in DOMAIN locks'
                      /\ locks'[RecordLock(t, stream'[t].current)].mode \notin {EX, PW}
    BY DEF CopyOK, RecordLock
  <2> DEFINE k == stream[t].current
             x == RecordLock(t, k)
  <2>1. k = stream'[t].current /\ k \in stream[t].held /\ stream[t].copy = "changed"
    BY <1>13
  <2>2. x \in DOMAIN locks /\ locks[x].mode \notin {EX, PW} /\ locks[x].state = "Granted"
    BY <2>1 DEF RmsInv, CopyOK, HeldOK
  <2>3. x # l
    BY <1>1, <2>2 DEF Queued
  <2> HIDE DEF x, l
  <2>4. x \in DOMAIN locks' /\ Kept(locks'[x], locks[x])
    BY <1>8, <2>2, <2>3
  <2>5. locks'[x].mode \notin {EX, PW}
    BY <2>2, <2>4 DEF Kept
  <2> QED
    BY <2>1, <2>4, <2>5 DEF x
<1>19. QuotaOK'
  <2>1. IsFiniteSet(DOMAIN locks)
    BY FiniteLocks DEF RmsInv, DB, CallsOK
  <2>2. /\ Cardinality(DOMAIN locks') <= Cardinality(DOMAIN locks)
        /\ Cardinality(DOMAIN locks') \in Nat /\ Cardinality(DOMAIN locks) \in Nat
    <3>1. DOMAIN locks' \in SUBSET DOMAIN locks
      BY <1>8
    <3>2. IsFiniteSet(DOMAIN locks') /\ Cardinality(DOMAIN locks') <= Cardinality(DOMAIN locks)
      BY <2>1, <3>1, FS_Subset
    <3> QED
      BY <2>1, <3>2, FS_CardinalityType
  <2>3. Cardinality(DOMAIN locks) <= ENQLM /\ ENQLM \in Nat
    BY RequestsOK DEF RmsInv, QuotaOK
  <2>4. Cardinality(DOMAIN locks') <= ENQLM
    BY <2>2, <2>3
  <2>5. Takes(calls)' = {}
    BY <1>1 DEF Takes
  <2> QED
    BY <2>4, <2>5 DEF QuotaOK
<1>20. CallsOK(calls)' /\ Drops(calls)' = {} /\ Takes(calls)' = {}
  BY <1>1 DEF CallsOK, Drops, Takes
<1>21. cells' \subseteq Cell
  BY <1>1 DEF RmsInv
<1>22. \A t \in Stream : StreamOK(stream[t])'
  BY <1>13 DEF StreamOK, StreamRecord
<1> QED
  BY <1>8, <1>10, <1>11, <1>14, <1>16, <1>17, <1>18, <1>19, <1>20, <1>21, <1>22
     DEF RmsInv, DB, Tree

\* No file is open at the start.
LEMMA RmsInitHolds == RmsInit => RmsInv
<1> SUFFICES ASSUME RmsInit PROVE RmsInv
  OBVIOUS
<1>1. TreeInv /\ DOMAIN locks = {} /\ Going = {}
  BY InitTree DEF RmsInit, Init, Going
<1>2. DB(locks, resources) /\ Tree(locks, resources, {})
  BY <1>1 DEF TreeInv, IInv
<1>3. /\ StreamOK(Closed) /\ Records(Closed) = {} /\ ~Closed.file
      /\ Closed.copy = "as read" /\ Closed.held = {}
  BY LockNames DEF StreamOK, StreamRecord, Closed, Records
<1>4. cells = Cell /\ calls = {} /\ DOMAIN stream = Stream /\ \A s \in Stream : stream[s] = Closed
  BY DEF RmsInit
<1>5. Theirs(stream) = {}
  <2>1. \A s \in Stream : LocksFor(s, Closed) = {}
    BY <1>3 DEF LocksFor
  <2> QED
    BY <1>4, <2>1 DEF Theirs
<1>6. Drops(calls) = {} /\ Takes(calls) = {} /\ CallsOK(calls)
  BY <1>4, NoCalls
<1>7. QuotaOK
  <2>1. Cardinality(DOMAIN locks) = 0
    BY <1>1, FS_EmptySet
  <2> QED
    BY <1>6, <2>1, RequestsOK DEF QuotaOK
<1> QED
  BY <1>1, <1>2, <1>3, <1>4, <1>5, <1>6, <1>7 DEF RmsInv, LocksShaped, CopyOK, HeldOK

-----------------------------------------------------------------------------
(* The theorems *)

\* Between services, and between any two calls of one, RMS's maps and the lock
\* database agree, but for the calls still to make.
THEOREM RecordLocksSound == RmsSpec => []RmsInv
<1>1. RmsInv /\ [RmsNext]_rmsVars => RmsInv'
  <2> SUFFICES ASSUME RmsInv, [RmsNext]_rmsVars PROVE RmsInv'
    OBVIOUS
  <2>1. CASE RunCall
    BY <2>1, RunCallKeeps
  <2>2. CASE \E g \in Gets : Locate(g)
    BY <2>2, LocateKeeps
  <2>3. ASSUME NEW s \in Stream, Update(s) \/ Delete(s)
        PROVE  RmsInv'
    BY <2>3, ChangeKeeps
  <2>4. ASSUME NEW s \in Stream, \E n \in Cell, uif \in Puts : Put(s, n, uif)
        PROVE  RmsInv'
    BY <2>4, ChangeKeeps
  <2>5. ASSUME NEW s \in Stream, Free(s) \/ \E n \in Cell : ReleaseRecord(s, n)
        PROVE  RmsInv'
    BY <2>5, FreeKeeps
  <2>6. ASSUME NEW s \in Stream, Close(s)
        PROVE  RmsInv'
    BY <2>6, CloseKeeps
  <2>7. ASSUME NEW s \in Stream, RefuseWait(s)
        PROVE  RmsInv'
    BY <2>7, RefuseKeeps
  <2>8. CASE \E p \in Owner : RundownFiles(p)
    BY <2>8, RundownKeeps
  <2>9. CASE UNCHANGED rmsVars
    <3>1. UNCHANGED <<locks, resources, cells, stream, calls>>
      BY <2>9 DEF rmsVars
    <3>2. /\ DOMAIN stream = Stream /\ cells \subseteq Cell
          /\ \A s \in Stream : StreamOK(stream[s])
          /\ CallsOK(calls)
          /\ Theirs(stream) = (DOMAIN locks \ Drops(calls)) \cup Takes(calls)
          /\ \A s \in Stream : \A n \in stream[s].held :
               /\ RecordLock(s, n) \in DOMAIN locks => locks[RecordLock(s, n)].state = "Granted"
               /\ \A c \in calls : c.svc = "enq" /\ c.id = RecordLock(s, n) => Unopposed(n, c.mode)
          /\ \A s \in Stream : CopyOK(s, stream[s])
          /\ Takes(calls) # {} =>
               Cardinality((DOMAIN locks \ Early(calls)) \cup Takes(calls)) <= ENQLM
      BY DEF RmsInv, HeldOK, QuotaOK
    <3>3. /\ DOMAIN stream' = Stream /\ cells' \subseteq Cell
          /\ \A s \in Stream : StreamOK(stream'[s])
          /\ CallsOK(calls')
          /\ Theirs(stream') = (DOMAIN locks \ Drops(calls')) \cup Takes(calls')
          /\ \A s \in Stream : \A n \in stream'[s].held :
               /\ RecordLock(s, n) \in DOMAIN locks => locks[RecordLock(s, n)].state = "Granted"
               /\ \A c \in calls' : c.svc = "enq" /\ c.id = RecordLock(s, n) => Unopposed(n, c.mode)
          /\ \A s \in Stream : CopyOK(s, stream'[s])
          /\ Takes(calls') # {} =>
               Cardinality((DOMAIN locks \ Early(calls')) \cup Takes(calls')) <= ENQLM
      BY <3>1, <3>2
    <3> QED
      BY <3>1, <3>3, Decided
  <2> QED
    BY <2>1, <2>2, <2>3, <2>4, <2>5, <2>6, <2>7, <2>8, <2>9 DEF RmsNext
<1> QED
  BY <1>1, RmsInitHolds, PTL DEF RmsSpec

\* Between services each lock is one a stream holds or waits for, and each of
\* a stream's locks is there, granted if it is held (holdRecord, dropWaiting,
\* unlockRecords, release).
THEOREM LocksAreAlwaysStreams == RmsSpec => []LocksAreStreams
<1>1. RmsInv => LocksAreStreams
  <2> SUFFICES ASSUME RmsInv, calls = {}
               PROVE  /\ DOMAIN locks = UNION {LocksOf(s) : s \in Stream}
                      /\ \A s \in Stream, n \in Cell :
                           n \in stream[s].held => locks[RecordLock(s, n)].state = "Granted"
    BY DEF LocksAreStreams
  <2>1. \A s \in Stream : LocksOf(s) = LocksFor(s, stream[s])
    BY DEF LocksOf, LocksFor, Records
  <2>2. DOMAIN locks = UNION {LocksOf(s) : s \in Stream}
    BY <2>1, NoCalls DEF RmsInv, Theirs
  <2>3. ASSUME NEW s \in Stream, NEW n \in Cell, n \in stream[s].held
        PROVE  locks[RecordLock(s, n)].state = "Granted"
    <3>1. RecordLock(s, n) \in DOMAIN locks
      BY <2>3, LocksAreTheirs DEF Records
    <3> QED
      BY <2>3, <3>1 DEF RmsInv, HeldOK
  <2> QED
    BY <2>2, <2>3
<1> QED
  BY <1>1, RecordLocksSound, PTL

\* A record locked for its reader alone is not updated or deleted by another
\* before the reader does so, or lets it go (relativeUpdate, relativeDelete).
THEOREM NoUpdateLost == RmsSpec => []NoLostUpdate
<1>1. RmsInv => NoLostUpdate
  BY DEF RmsInv, NoLostUpdate, CopyOK
<1> QED
  BY <1>1, RecordLocksSound, PTL

\* The job's locks stay within its ENQLM (CanLock).
THEOREM QuotaKept == RmsSpec => []WithinQuota
<1>1. RmsInv => WithinQuota
  BY DEF RmsInv, QuotaOK, WithinQuota
<1> QED
  BY <1>1, RecordLocksSound, PTL
=============================================================================
