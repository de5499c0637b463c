---------------------------- MODULE RecordLocks ----------------------------
(***************************************************************************)
(* RMS's record locks (internal/rms/recordlock.go) on a relative file that *)
(* several streams of several processes read and write (relative.go), over *)
(* the lock manager.                                                       *)
(*                                                                         *)
(* A service runs to completion, or to the wait for a record's lock, with  *)
(* no other process in between, but makes several calls of the lock        *)
(* manager: its action decides all of them and puts them in calls, and     *)
(* RunCall makes them one by one before anything else happens, in their    *)
(* turns; what the code walks a map for comes in any order.  A wait is the *)
(* service called again when the process is next awake, and it decides     *)
(* everything anew.                                                        *)
(*                                                                         *)
(* RMS holds pointers to its locks, never their IDs, so a lock is named by *)
(* what it is for.  A stream's place in the file is the start of a         *)
(* sequential request; $FIND locks what $GET does and is not told apart.   *)
(***************************************************************************)
EXTENDS LockManager

CONSTANTS
  Stream,       \* the connected streams: 1 .. how many
  ProcessOf,    \* the process of each stream
  Writing,      \* streams whose opener asked for write access (FAB$B_FAC)
  Gets,         \* the $GETs programs issue: a subset of Get below
  Puts,         \* choices of RAB$V_UIF for $PUT by key; none: no $PUTs
  ENQLM,        \* the locks the job may have
  None

\* Names are numbers: 0 the file's, the others its cells'.
File == 0
Cell == Name \ {File}

\* A RAB: record n by key, or the first from n on; and RAB$L_ROP.
Get ==
  [stream : Stream, rac : {"key", "seq"}, n : Cell, mode : {EX, PW, PR}, nlk : BOOLEAN,
   rrl : BOOLEAN, wat : BOOLEAN, ulk : BOOLEAN, tmo : BOOLEAN]

ASSUME RequestsOK ==
  /\ Gets \subseteq Get
  /\ \E k \in 0 .. MaxId : Stream = 1 .. k
  /\ ProcessOf \in [Stream -> Owner]
  /\ Writing \subseteq Stream
  /\ Name \subseteq Nat /\ File \in Name /\ None \notin Name
  /\ 1 \in AccessMode
  /\ ENQLM \in Nat
  /\ \A s \in Stream, n \in Name : Cardinality(Stream) * n + s \in Id

VARIABLES
  cells,    \* the cells that hold a record
  stream,   \* streamLocks of each stream, and its current record
  waits,    \* the $GET each process waits in
  calls     \* the running service's calls of the lock manager still to make: a set

rmsVars == <<locks, resources, lastID, doomed, events, cells, stream, waits, calls>>

FileLock(s) == s
RecordLock(s, n) == Cardinality(Stream) * n + s

\* file: the NL lock on the file is taken.  held: the map of record locks.
\* waiting, refused, limited: the lock waited for, whether it was refused to
\* break a deadlock, and whether the wait has a deadline.  copy: the current
\* record, while it is locked, is "as read", or "changed" or "put over" by another
\* stream since.
Closed ==
  [file |-> FALSE, held |-> {}, waiting |-> None, refused |-> FALSE, limited |-> FALSE,
   current |-> None, copy |-> "as read"]

\* A call of stream s's, about lock id.
Enq(s, id, n, m, p, turn) ==
  [svc |-> "enq", owner |-> ProcessOf[s], id |-> id, turn |-> turn,
   name |-> n, mode |-> m, parent |-> p]
Deq(s, id, turn) == [svc |-> "deq", owner |-> ProcessOf[s], id |-> id, turn |-> turn]

\* The calls that drop s's locks on the records S, and a lock it waits for.
Unlocking(s, S, turn) == {Deq(s, RecordLock(s, n), turn) : n \in S}
DropWaiting(s, turn) == Unlocking(s, {stream[s].waiting} \ {None}, turn)

NoCurrent(st) == [st EXCEPT !.current = None, !.copy = "as read"]
NotWaiting(st) == [st EXCEPT !.waiting = None, !.refused = FALSE, !.limited = FALSE]

-----------------------------------------------------------------------------
(* $GET *)

\* The record a request reaches: relativeScan, or its key's cell.
Found(g) ==
  LET from == {n \in cells : IF g.rac = "key" THEN n = g.n ELSE n >= g.n}
  IN IF from = {} THEN None ELSE CHOOSE n \in from : \A o \in from : n <= o

\* How a $GET leaves stream s: st, with the calls that made it so: a wait given
\* up, the file's lock, the record's, and those unlocked in the end.
Leave(g, st, cs, wait) ==
  /\ stream' = [stream EXCEPT ![g.stream] = st]
  /\ calls' = cs
  /\ waits' = [waits EXCEPT ![ProcessOf[g.stream]] = IF wait THEN g ELSE None]

\* The record is returned: other record locks go, unless unlocked by hand.
Succeed(g, st, n, cs) ==
  LET gone == IF g.ulk THEN {} ELSE st.held \ {n}
  IN Leave(g, [st EXCEPT !.held = @ \ gone, !.current = n, !.copy = "as read"],
           cs \cup Unlocking(g.stream, gone, 4), FALSE)

\* A lock that fails unlocks every record, unless unlocked by hand.
Fail(g, st, cs) ==
  LET gone == IF g.ulk THEN {} ELSE st.held
  IN Leave(g, NoCurrent([st EXCEPT !.held = @ \ gone]),
           cs \cup Unlocking(g.stream, gone, 4), FALSE)

\* RMS$_EOF, or RMS$_RNF.
Miss(g) ==
  /\ Found(g) = None
  /\ Leave(g, NoCurrent(stream[g.stream]), {}, FALSE)

\* The stream has a lock on its way on this record: refused to break a
\* deadlock, granted, out of time, or still queued.
Granted(s) ==
  LET l == RecordLock(s, stream[s].waiting)
  IN l \in DOMAIN locks /\ locks[l].state = "Granted"

Resumes(g) == stream[g.stream].waiting # None /\ Found(g) = stream[g.stream].waiting

ResumeRefused(g) ==
  LET st == stream[g.stream]
  IN Resumes(g) /\ st.refused /\ Fail(g, NotWaiting(st), {})

ResumeGranted(g) ==
  LET st == stream[g.stream]
  IN /\ Resumes(g) /\ ~st.refused /\ Granted(g.stream)
     /\ Succeed(g, [NotWaiting(st) EXCEPT !.held = @ \cup {st.waiting}], st.waiting, {})

ResumeLate(g) ==
  LET st == stream[g.stream]
  IN /\ Resumes(g) /\ ~st.refused /\ ~Granted(g.stream)
     /\ st.limited
     /\ Fail(g, NotWaiting(st), DropWaiting(g.stream, 1))

ResumeWaiting(g) ==
  LET st == stream[g.stream]
  IN Resumes(g) /\ ~st.refused /\ ~Granted(g.stream) /\ Leave(g, st, {}, TRUE)

\* Any other record is asked for, a wait the stream was in given up first.
Asks(g) == Found(g) \notin {None, stream[g.stream].waiting}

\* A stream that cannot write takes no lock, or a PR lock if it may wait.
ReadOnly(g) == g.stream \notin Writing
Query(g) == g.nlk \/ (ReadOnly(g) /\ ~g.wat)
ModeOf(g) == IF Query(g) THEN CR ELSE IF ReadOnly(g) /\ g.mode = EX THEN PR ELSE g.mode

\* Locks of the job, once the one waited for is gone (jobLocks).
InUse(s) ==
  Cardinality(DOMAIN locks \ IF stream[s].waiting = None THEN {} ELSE {RecordLock(s, stream[s].waiting)})

\* CanLock: before the file's lock, and again before the record's.
CanLockFile(s) == InUse(s) < ENQLM

\* Mutant: the file's lock is not counted.
CanLockAtFirst(s) == CanLockFile(s)

CanLock(s) == CanLockFile(s) /\ InUse(s) + (IF stream[s].file THEN 0 ELSE 1) < ENQLM

\* The file's lock is taken the first time.
AtFile(s) ==
  DropWaiting(s, 1) \cup
    IF stream[s].file \/ ~CanLockFile(s) THEN {} ELSE {Enq(s, FileLock(s), File, NL, NoLock, 2)}
Opened(s) == [NotWaiting(stream[s]) EXCEPT !.file = @ \/ CanLockFile(s)]

AtRecord(g) ==
  LET s == g.stream
  IN AtFile(s) \cup
       IF Query(g) THEN {}
       ELSE {Enq(s, RecordLock(s, Found(g)), Found(g), ModeOf(g), FileLock(s), 3)}

\* Whether a new lock on cell n in mode m would be granted at once.  (Giving up
\* the wait for another record lets nothing go on this one.)
Grantable(n, m) ==
  LET r == <<<<1, File>>, <<1, n>>>>
  IN r \in DOMAIN resources => EnqueueGrantable(resources, r, m)

GetHeld(g) ==
  LET st == NotWaiting(stream[g.stream])
  IN Asks(g) /\ Found(g) \in st.held /\ Succeed(g, st, Found(g), DropWaiting(g.stream, 1))

GetOverQuota(g) ==
  LET s == g.stream
  IN /\ Asks(g) /\ Found(g) \notin stream[s].held
     /\ ~CanLock(s)
     /\ Fail(g, Opened(s), AtFile(s))

\* A query (RAB$V_NLK) is a CR lock taken and dropped at once.
GetGranted(g) ==
  LET s == g.stream
  IN /\ Asks(g) /\ Found(g) \notin stream[s].held /\ CanLock(s)
     /\ Grantable(Found(g), ModeOf(g))
     /\ Succeed(g, [Opened(s) EXCEPT !.held = @ \cup IF Query(g) THEN {} ELSE {Found(g)}],
                Found(g), AtRecord(g))

GetWaits(g) ==
  LET s == g.stream
  IN /\ Asks(g) /\ Found(g) \notin stream[s].held /\ CanLock(s)
     /\ ~Grantable(Found(g), ModeOf(g))
     /\ g.wat /\ ~Query(g)
     /\ Leave(g, [Opened(s) EXCEPT !.waiting = Found(g), !.limited = g.tmo], AtRecord(g), TRUE)

\* RMS$_RLK, or with RAB$V_RRL the record without its lock.
GetRefused(g) ==
  LET s == g.stream
  IN /\ Asks(g) /\ Found(g) \notin stream[s].held /\ CanLock(s)
     /\ ~Grantable(Found(g), ModeOf(g))
     /\ ~g.wat \/ Query(g)
     /\ IF g.rrl THEN Succeed(g, Opened(s), Found(g), AtFile(s)) ELSE Fail(g, Opened(s), AtFile(s))

\* relativeLocate: $GET, or a $GET that waited called again.
Locate(g) ==
  /\ calls = {}
  /\ waits[ProcessOf[g.stream]] \in {None, g}
  /\ \/ Miss(g)
     \/ ResumeRefused(g) \/ ResumeGranted(g) \/ ResumeLate(g) \/ ResumeWaiting(g)
     \/ GetHeld(g) \/ GetOverQuota(g) \/ GetGranted(g) \/ GetWaits(g) \/ GetRefused(g)
  /\ UNCHANGED <<locks, resources, lastID, doomed, events, cells>>

-----------------------------------------------------------------------------
(* The other services *)

\* A program calls nothing else while it waits in a $GET.
CanCall(s) == calls = {} /\ waits[ProcessOf[s]] = None

\* The streams once s has lost its current record and, if cell n was written,
\* what became of the copy another stream has locked.
Lost(s, n, how) ==
  [t \in Stream |->
     CASE t = s -> NoCurrent(stream[s])
       [] t # s /\ stream[t].current = n /\ n \in stream[t].held /\ stream[t].copy = "as read" ->
            [stream[t] EXCEPT !.copy = how]
       [] OTHER -> stream[t]]

\* Mutant: the record need not be locked still.
AnyCurrent(s) == stream[s].current # None

\* $UPDATE and $DELETE need a current record, locked, that is still there; they
\* leave the stream without a current record whether they succeed or fail.
HasLockedRecord(s) ==
  /\ stream[s].current # None
  /\ stream[s].current \in stream[s].held

Changes(s) == s \in Writing /\ HasLockedRecord(s) /\ stream[s].current \in cells

Change(s) ==
  stream' = Lost(s, IF Changes(s) THEN stream[s].current ELSE None, "changed")

Update(s) ==
  /\ CanCall(s)
  /\ Change(s)
  /\ UNCHANGED <<locks, resources, lastID, doomed, events, cells, waits, calls>>

Delete(s) ==
  /\ CanCall(s)
  /\ Change(s)
  /\ cells' = IF Changes(s) THEN cells \ {stream[s].current} ELSE cells
  /\ UNCHANGED <<locks, resources, lastID, doomed, events, waits, calls>>

\* $PUT, which neither asks for locks nor takes any: a record there already is
\* replaced with RAB$V_UIF, and left alone without.
Put(s, n, uif) ==
  /\ CanCall(s) /\ s \in Writing
  /\ IF n \in cells /\ ~uif
     THEN cells' = cells /\ stream' = Lost(s, None, "as read")
     ELSE cells' = cells \cup {n} /\ stream' = Lost(s, n, "put over")
  /\ UNCHANGED <<locks, resources, lastID, doomed, events, waits, calls>>

\* $FREE.
Free(s) ==
  /\ CanCall(s)
  /\ stream' = [stream EXCEPT ![s].held = {}]
  /\ calls' = Unlocking(s, stream[s].held, 1)
  /\ UNCHANGED <<locks, resources, lastID, doomed, events, cells, waits>>

\* $RELEASE.
ReleaseRecord(s, n) ==
  /\ CanCall(s)
  /\ n \in stream[s].held
  /\ stream' = [stream EXCEPT ![s].held = @ \ {n}]
  /\ calls' = Unlocking(s, {n}, 1)
  /\ UNCHANGED <<locks, resources, lastID, doomed, events, cells, waits>>

\* Mutant: the lock waited for is left behind.
DropHeld(s, k) ==
  IF stream[s].file
  THEN Unlocking(s, stream[s].held, 3 * k + 1) \cup {Deq(s, FileLock(s), 3 * k + 2)}
  ELSE {}

\* release, the k-th of its service: the lock waited for, the records' in any
\* order, and then the file's.
DropAll(s, k) ==
  IF stream[s].file
  THEN DropWaiting(s, 3 * k) \cup Unlocking(s, stream[s].held, 3 * k + 1)
         \cup {Deq(s, FileLock(s), 3 * k + 2)}
  ELSE {}

\* $CLOSE; the program may then open the file anew.
Close(s) ==
  /\ CanCall(s)
  /\ calls' = DropAll(s, 0)
  /\ stream' = [stream EXCEPT ![s] = Closed]
  /\ UNCHANGED <<locks, resources, lastID, doomed, events, cells, waits>>

\* The process is deleted, in a wait or not, and another takes its place: its
\* files are closed (Rundown), in any order, before its locks are released.
RundownFiles(p) ==
  LET mine == {s \in Stream : ProcessOf[s] = p}
  IN /\ calls = {}
     /\ \E place \in Bijection(mine, 1 .. Cardinality(mine)) :
          calls' = UNION {DropAll(s, place[s]) : s \in mine}
     /\ stream' = [s \in Stream |-> IF s \in mine THEN Closed ELSE stream[s]]
     /\ waits' = [waits EXCEPT ![p] = None]
     /\ UNCHANGED <<locks, resources, lastID, doomed, events, cells>>

-----------------------------------------------------------------------------
\* The running service's next call.  A lock refused to break a deadlock is gone
\* already, and dropping it changes nothing.
RunCall ==
  \E c \in calls :
    /\ \A d \in calls : c.turn <= d.turn
    /\ CASE c.svc = "enq" ->
              EnqueueAs(c.id, c.owner, c.mode, c.name, 1, c.parent, FALSE, FALSE)
         [] c.svc = "deq" /\ c.id \in DOMAIN locks /\ locks[c.id].sublocks = 0 ->
              Dequeue(c.owner, c.id, "keep", ZeroValue)
         [] OTHER -> UNCHANGED <<locks, resources, doomed, events>>
    /\ calls' = calls \ {c}
    /\ UNCHANGED <<lastID, cells, stream, waits>>

\* checkDeadlocks refuses a record's lock.
RefuseWait(s) ==
  /\ calls = {}
  /\ stream[s].waiting # None /\ ~stream[s].refused
  /\ Refuse(RecordLock(s, stream[s].waiting))
  /\ stream' = [stream EXCEPT ![s].refused = TRUE]
  /\ UNCHANGED <<cells, waits, calls>>

RmsInit ==
  /\ Init
  /\ cells = Cell
  /\ stream = [s \in Stream |-> Closed]
  /\ waits = [p \in Owner |-> None]
  /\ calls = {}

RmsNext ==
  \/ RunCall
  \/ \E g \in Gets : Locate(g)
  \/ \E s \in Stream :
       \/ Update(s) \/ Delete(s) \/ Free(s) \/ Close(s) \/ RefuseWait(s)
       \/ \E n \in Cell, uif \in Puts : Put(s, n, uif)
       \/ \E n \in Cell : ReleaseRecord(s, n)
  \/ \E p \in Owner : RundownFiles(p)

\* Mutant: a wait refused to break a deadlock is not over.
OverWhenGranted(p) ==
  LET s == waits[p].stream
  IN stream[s].waiting = None \/ stream[s].limited \/ Granted(s)

\* A wait is over once its lock is granted or refused, or its time is up.
Over(p) ==
  LET s == waits[p].stream
  IN stream[s].waiting = None \/ stream[s].refused \/ stream[s].limited \/ Granted(s)

Retry(p) == waits[p] # None /\ Over(p) /\ Locate(waits[p])

InDeadlock(s) ==
  LET l == RecordLock(s, stream[s].waiting)
  IN stream[s].waiting # None /\ l \in Queued(locks) /\ FindDeadlock(locks, resources, l)

AllClosed(p) == \A s \in Stream : ProcessOf[s] = p => ~stream[s].file

\* What liveness needs.  A service ends, a wait that is over is looked at, and
\* every queued request is searched from in time.  A program that runs again
\* and again has its files closed at some time: the program's promise, or its
\* image's exit, not RMS's.
Fairness ==
  /\ []<>(calls = {})
  /\ \A p \in Owner : <>[](waits[p] # None /\ Over(p)) => []<><<Retry(p)>>_rmsVars
  /\ \A s \in Stream : <>[]InDeadlock(s) => []<><<RefuseWait(s)>>_rmsVars
  /\ \A p \in Owner : []<>(waits[p] = None) => []<>AllClosed(p)

RmsSpec == RmsInit /\ [][RmsNext]_rmsVars /\ Fairness

-----------------------------------------------------------------------------
(* Properties *)

\* Between services the lock database and the streams' maps agree: each lock
\* is one a stream knows of, held or waited for, and each stream's locks are
\* there, granted if it holds them; so nothing is left locked by nobody
\* (holdRecord, dropWaiting, unlockRecords, release).
LocksOf(s) ==
  {RecordLock(s, n) : n \in stream[s].held}
    \cup (IF stream[s].file THEN {FileLock(s)} ELSE {})
    \cup (IF stream[s].waiting = None \/ stream[s].refused THEN {} ELSE {RecordLock(s, stream[s].waiting)})

LocksAreStreams ==
  calls = {} =>
    /\ DOMAIN locks = UNION {LocksOf(s) : s \in Stream}
    /\ \A s \in Stream, n \in Cell :
         n \in stream[s].held => locks[RecordLock(s, n)].state = "Granted"

\* No update is lost: a record a stream has locked for itself (EX or PW) since
\* it read it is as it read it when the stream updates or deletes it, but for
\* another's $PUT with RAB$V_UIF (relativeUpdate's and relativeDelete's test
\* of the stream's lock, and the lock manager's modes).
NoLostUpdate ==
  \A s \in Stream :
    LET n == stream[s].current
    IN calls = {} /\ n \in stream[s].held /\ locks[RecordLock(s, n)].mode \in {EX, PW}
         => stream[s].copy # "changed"

\* "every record the stream has locked is unlocked" (SysFree): once $FREE's
\* calls are made, the stream has no record's lock.
FreeUnlocksAll ==
  [][\A s \in Stream, n \in Cell :
       LET l == RecordLock(s, n)
       IN /\ Free(s)
          /\ l \in DOMAIN locks
          /\ locks[l].state = "Granted"
          => \E c \in calls' : c.svc = "deq" /\ c.id = l]_rmsVars

\* The job never has more locks than its ENQLM, though RMS takes two between
\* one count and the next (lockRecord's two tests of CanLock).
WithinQuota == Cardinality(DOMAIN locks) <= ENQLM

\* A $GET of a record by its number that waits (RAB$V_WAT) comes back, if the
\* other programs' files are closed in time: with the record, refused to break
\* a deadlock, out of time, or without the record, deleted meanwhile
\* (awaitLock, lockFound).
WaitsEnd ==
  \A p \in Owner :
    waits[p] # None /\ waits[p].rac = "key" ~> waits[p] = None \/ waits[p].rac # "key"
=============================================================================
