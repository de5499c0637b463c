---------------------------- MODULE ProcessEvents ----------------------------
(***************************************************************************)
(* What happens to processes: waits, the events that end them, timers,     *)
(* event flags, mailbox messages and I/O requests, suspension and          *)
(* deletion.  One event leads to others (a timer sets a flag, which ends   *)
(* other processes' waits), so each is an operator from a state s of all   *)
(* the processes and what they share to the state it leaves; Processes.tla *)
(* makes them the steps of the services and of the scheduling hook.        *)
(*                                                                         *)
(* What an AST calls, what a request transfers beyond its message, and     *)
(* how far a priority is boosted are left out.                             *)
(***************************************************************************)
EXTENDS Integers, FiniteSets, Sequences, SequencesExt, FiniteSetsExt, Subsequences

CONSTANTS
  Processes,   \* the process table's slots
  Owner,       \* each process's owner, or None
  Clusters,    \* the common event flag cluster numbers
  Names,       \* the names of common clusters
  Requests,    \* the I/O requests there may be at once
  Size,        \* the size of each message
  BufQuo,      \* how much the mailbox holds
  None

Kernel == 0
User == 1
Modes == {Kernel, User}
Local == 0                           \* the cluster of a process's own flags
Attentions == {"read", "write", "room"}

\* An event flag, what a process may wait for, and a pending I/O request.
Flag == [cluster : {Local} \cup Clusters, bit : Nat]

Wait == [kind : {"wake", "subprocesses"}] \cup [kind : {"request"}, request : Requests]
        \cup [kind : {"room"}, data : DOMAIN Size]
        \cup [kind : {"flags"}, cluster : {Local} \cup Clusters, mask : SUBSET Nat, all : BOOLEAN]

IORequest == [owner : Processes, done : BOOLEAN, efn : Flag, ast : BOOLEAN, mode : Modes]

Cluster == [flags : SUBSET Nat, refs : Int, permanent : BOOLEAN, marked : BOOLEAN]

ASSUME ProcessEventsAssumption ==
  /\ IsFiniteSet(Processes) /\ IsFiniteSet(Clusters) /\ IsFiniteSet(Requests)
  /\ Requests \subseteq Nat /\ Local \notin Clusters
  /\ None \notin Names /\ None \notin Requests
  /\ None \notin Wait /\ None \notin IORequest /\ None \notin Cluster
  /\ None \notin [svc : {"QIOW"}, request : Requests]
  /\ \A p \in Processes : Owner[p] # p

\* A process as $CREPRC leaves it, once it runs: calls are the routines it is in,
\* each with its mode, whether an AST called it, and the service it waits in.
NewProcess ==
  [state |-> "computable", waiting |-> None, suspended |-> FALSE, marked |-> FALSE,
   wakePending |-> FALSE, calls |-> <<[mode |-> User, ast |-> FALSE, doing |-> None]>>,
   asts |-> [m \in Modes |-> 0], enabled |-> Modes, active |-> {}, local |-> {},
   common |-> [c \in Clusters |-> None], timers |-> <<>>]

NoProcess == [NewProcess EXCEPT !.state = "gone", !.calls = <<>>]

\* The processes present, and nothing shared yet.  owed is a history that nothing
\* reads: the messages the mailbox has taken and nobody has got.
StateOf(present) ==
  [proc |-> [p \in Processes |-> IF p \in present THEN NewProcess ELSE NoProcess],
   waiters |-> 0, clusters |-> [n \in Names |-> None], io |-> [r \in Requests |-> None],
   mailbox |-> [readers |-> <<>>, messages |-> <<>>],
   attention |-> [k \in Attentions |-> {}], memory |-> present, owed |-> <<>>]

Present(s) == {p \in Processes : s.proc[p].state # "gone"}
Waits(s, p) == s.proc[p].waiting # None
Doing(s, p) == Last(s.proc[p].calls).doing
Subprocesses(s, p) == {q \in Present(s) \ {p} : Owner[q] = p}

-----------------------------------------------------------------------------
(* The mailbox: cancelled requests stay in its lists until it is next used.  *)

LiveReaders(s) == Those(s.mailbox.readers, {r \in ToSet(s.mailbox.readers) : ~s.io[r].done})
LiveMessages(s) ==
  Those(s.mailbox.messages,
        {m \in ToSet(s.mailbox.messages) : m.writer = None \/ ~s.io[m.writer].done})

\* Mutant: only cancelled messages are taken out of the lists.
PrunedMessages(s) == [s EXCEPT !.mailbox.messages = LiveMessages(s)]

Pruned(s) == [s EXCEPT !.mailbox = [readers |-> LiveReaders(s), messages |-> LiveMessages(s)]]

QueuedBytes(messages) == FoldLeft(LAMBDA n, m : n + Size[m.data], 0, messages)

HasRoom(s, data) == QueuedBytes(LiveMessages(s)) + Size[data] <= BufQuo

-----------------------------------------------------------------------------
(* Waits and the events that end them.                                        *)

\* Mutant: an AST may interrupt one of its own mode.
DeliverableBesideActive(P) ==
  {m \in Modes : /\ m <= Last(P.calls).mode
                 /\ 0 .. m \subseteq P.enabled
                 /\ P.asts[m] > 0}

\* The modes whose next AST process P could take where it is: ASTs disabled in a
\* mode hold back every less privileged mode's.
DeliverableModes(P) ==
  {m \in Modes : /\ m <= Last(P.calls).mode
                 /\ 0 .. m \subseteq P.enabled
                 /\ m \notin P.active
                 /\ P.asts[m] > 0}

CanReach(s, p, cluster) == cluster # Local => s.proc[p].common[cluster] # None

Flags(s, p, cluster) ==
  IF cluster = Local THEN s.proc[p].local ELSE s.clusters[s.proc[p].common[cluster]].flags

\* A $WFLAND's or a $WFLOR's test.
FlagsMet(flags, w) == IF w.all THEN w.mask \subseteq flags ELSE w.mask \cap flags # {}

\* Whether what process p waits for has happened.
Over(s, p) ==
  LET w == s.proc[p].waiting
  IN  CASE w.kind = "wake" -> s.proc[p].wakePending
        [] w.kind = "flags" -> CanReach(s, p, w.cluster) => FlagsMet(Flags(s, p, w.cluster), w)
        [] w.kind = "request" -> s.io[w.request].done
        [] w.kind = "room" -> LiveReaders(s) # <<>> \/ HasRoom(s, w.data)
        [] w.kind = "subprocesses" -> Subprocesses(s, p) = {}

\* A process whose image is over runs no AST.
MayGoOn(s, p) ==
  \/ Over(s, p)
  \/ s.proc[p].waiting.kind # "subprocesses" /\ DeliverableModes(s.proc[p]) # {}

WaitState(w) ==
  CASE w.kind = "wake" -> "HIB"
    [] w.kind = "flags" -> IF w.cluster = Local THEN "LEF" ELSE "CEF"
    [] w.kind = "request" -> "LEF"
    [] w.kind \in {"room", "subprocesses"} -> "MWAIT"

\* p waits for w, its service to be called again when the wait ends.
EnterWait(s, p, w) ==
  [s EXCEPT !.proc[p].state = WaitState(w),
            !.waiters = IF Waits(s, p) THEN @ ELSE @ + 1,
            !.proc[p].waiting = w]

EndWaits(s, ps) ==
  [s EXCEPT !.proc = [p \in Processes |->
                        IF p \in ps THEN [s.proc[p] EXCEPT !.waiting = None, !.state = "computable"]
                        ELSE s.proc[p]],
            !.waiters = @ - Cardinality(ps)]

\* The waiting processes an event reaches: a suspended one's is ignored.
Reached(s, ps) == {p \in ps : Waits(s, p) /\ ~s.proc[p].suspended}

ReportTo(s, ps) == EndWaits(s, {p \in Reached(s, ps) : MayGoOn(s, p)})
ReportEvent(s, p) == ReportTo(s, {p})

\* Mutant: who waits for room in the mailbox is told when there is.
WakeOthers(s) ==
  ReportTo(s, {p \in Reached(s, Present(s)) :
                 s.proc[p].waiting.kind = "room" => DeliverableModes(s.proc[p]) # {}})

WakeWaiters(s) == IF s.waiters = 0 THEN s ELSE ReportTo(s, Present(s))

RetryWaiters(s) == EndWaits(s, Reached(s, Present(s)))

-----------------------------------------------------------------------------
(* Event flags and ASTs.                                                      *)

Associates(s, name) == {p \in Present(s) : \E c \in Clusters : s.proc[p].common[c] = name}

\* Mutant: only the process that set the flag has the event.
PostFlagToItself(s, p, f) ==
  IF f.cluster = Local THEN [s EXCEPT !.proc[p].local = @ \cup {f.bit}]
  ELSE IF ~CanReach(s, p, f.cluster) THEN s
  ELSE ReportTo([s EXCEPT !.clusters[s.proc[p].common[f.cluster]].flags = @ \cup {f.bit}], {p})

\* A flag the process can't reach is left alone; one of a common cluster is
\* everyone's event who has the cluster.
PostFlag(s, p, f) ==
  IF f.cluster = Local THEN [s EXCEPT !.proc[p].local = @ \cup {f.bit}]
  ELSE IF ~CanReach(s, p, f.cluster) THEN s
  ELSE LET name == s.proc[p].common[f.cluster]
       IN  ReportTo([s EXCEPT !.clusters[name].flags = @ \cup {f.bit}], Associates(s, name))

ClearFlag(s, p, f) ==
  IF f.cluster = Local THEN [s EXCEPT !.proc[p].local = @ \ {f.bit}]
  ELSE [s EXCEPT !.clusters[s.proc[p].common[f.cluster]].flags = @ \ {f.bit}]

\* Each of the processes ps is owed one more AST.
QueueAST(s, ps, mode) ==
  [s EXCEPT !.proc = [p \in Processes |->
                        IF p \in ps THEN [s.proc[p] EXCEPT !.asts[mode] = @ + 1] ELSE s.proc[p]]]

\* Mutant: $DLCEFC's mark is forgotten with the last association.
DeleteIfTemporary(c) == IF c.refs <= 0 /\ ~c.permanent THEN None ELSE c

DeleteIfUnused(c) == IF c.refs <= 0 /\ (~c.permanent \/ c.marked) THEN None ELSE c

\* p gives up the clusters cs, or those of them it has.
Disassociate(s, p, cs) ==
  LET had(n) == {c \in cs : s.proc[p].common[c] = n}
  IN  [s EXCEPT !.proc[p].common = [c \in Clusters |-> IF c \in cs THEN None ELSE @[c]],
                !.clusters = [n \in Names |->
          IF had(n) = {} THEN s.clusters[n]
          ELSE DeleteIfUnused([s.clusters[n] EXCEPT !.refs = @ - Cardinality(had(n))])]]

-----------------------------------------------------------------------------
(* I/O requests.                                                              *)

\* The request's owner gets its flag, its AST and the event, whoever completes it.
CompleteIO(s, r) ==
  IF s.io[r].done THEN s
  ELSE LET q == s.io[r].owner
           told == IF s.io[r].ast THEN {q} ELSE {}
       IN  ReportEvent(QueueAST(PostFlag([s EXCEPT !.io[r].done = TRUE], q, s.io[r].efn),
                                told, s.io[r].mode), q)

PendingIO(s, p) == {r \in Requests : s.io[r] # None /\ s.io[r].owner = p /\ ~s.io[r].done}

DeliverAttention(s, kind) ==
  LET ps == s.attention[kind]
  IN  ReportTo(QueueAST([s EXCEPT !.attention[kind] = {}], ps, User), ps)

\* Somebody reads, or there is room: those waiting to write are told.
MailboxResourceAvailable(s) ==
  ReportTo(s, {p \in Present(s) : Waits(s, p) /\ s.proc[p].waiting.kind = "room"})

CancelIO(s, p) ==
  FoldSet(LAMBDA r, t : CompleteIO(t, r),
          [s EXCEPT !.attention = [k \in Attentions |-> @[k] \ {p}],
                    !.owed = Those(@, {m \in ToSet(@) : m.writer \notin PendingIO(s, p)})],
          PendingIO(s, p))

\* Reader r gets the oldest message.
Receive(s, r) ==
  IF s.io[r].done THEN s
  ELSE CompleteIO([s EXCEPT !.owed = IF @ = <<>> THEN @ ELSE Tail(@)], r)

\* A read: the oldest message, or its turn to get the next.
ReadMailbox(s, now, r) ==
  LET t == Pruned(s)
      m == Head(t.mailbox.messages)
      taken == [t EXCEPT !.mailbox.messages = Tail(@)]
  IN  IF t.mailbox.messages # <<>>
      THEN Receive(MailboxResourceAvailable(DeliverAttention(
             IF m.writer = None THEN taken ELSE CompleteIO(taken, m.writer), "room")), r)
      ELSE IF now THEN CompleteIO(t, r)
      ELSE MailboxResourceAvailable(DeliverAttention(
             [t EXCEPT !.mailbox.readers = Append(@, r)], "write"))

\* A write that need not wait for room: to the first reader, or into the mailbox,
\* where it is done if it is not to wait for a reader.
WriteMailbox(s, data, now, r) ==
  LET t == Pruned(s)
      m == [data |-> data, writer |-> IF now THEN None ELSE r]
      accepted == [t EXCEPT !.owed = Append(@, m)]
      queued == DeliverAttention([accepted EXCEPT !.mailbox.messages = Append(@, m)], "read")
  IN  IF t.mailbox.readers # <<>>
      THEN CompleteIO(Receive([accepted EXCEPT !.mailbox.readers = Tail(@)],
                              Head(t.mailbox.readers)), r)
      ELSE IF ~HasRoom(t, data) THEN CompleteIO(t, r)
      ELSE IF now THEN CompleteIO(queued, r) ELSE queued

\* A request nobody will look at again is forgotten.
InMailbox(s, r) == r \in ToSet(s.mailbox.readers) \/ \E m \in ToSet(s.mailbox.messages) : m.writer = r

Awaited(s, r) == \E p \in Processes : \E c \in ToSet(s.proc[p].calls) : c.doing = [svc |-> "QIOW", request |-> r]

Collected(s) ==
  [s EXCEPT !.io = [r \in Requests |->
     IF @[r] = None \/ ~@[r].done \/ InMailbox(s, r) \/ Awaited(s, r) THEN @[r] ELSE None]]

-----------------------------------------------------------------------------
(* Timers: how long each has left, late when that is not positive.            *)

\* Mutant: the repetitions missed are rounded up.
NextTimeRoundedUp(t) ==
  IF t.left <= 0 /\ t.repeat > 0
  THEN [t EXCEPT !.left = t.left - (t.left \div t.repeat) * t.repeat + t.repeat]
  ELSE t

\* A repeating wakeup that is late goes to its first repetition still to come.
NextTime(t) ==
  IF t.left <= 0 /\ t.repeat > 0
  THEN [t EXCEPT !.left = @ + ((-@) \div t.repeat) * t.repeat + t.repeat]
  ELSE t

Due(P) == {t \in ToSet(P.timers) : t.left <= 0}

Remaining(timers) ==
  LET next == [i \in DOMAIN timers |-> NextTime(timers[i])]
  IN  Those(next, {t \in ToSet(next) : t.left > 0})

\* The bits of a cluster's flags that P's due timers set.
FiredBits(P, cluster) ==
  {t.efn.bit : t \in {u \in Due(P) : ~u.wake /\ u.efn.cluster = cluster}}

\* Mutant: the AST is lost with the flag that can't be set.
FiredWithTheFlag(P) ==
  LET reached == {t \in Due(P) : ~t.wake /\ (t.efn.cluster # Local => P.common[t.efn.cluster] # None)}
  IN  [P EXCEPT !.wakePending = @ \/ \E t \in Due(P) : t.wake,
                !.local = @ \cup FiredBits(P, Local),
                !.asts = [m \in Modes |->
                            @[m] + Len(Those(P.timers, {t \in reached : t.ast /\ t.mode = m}))],
                !.timers = Remaining(@)]

\* P, and a common cluster by its name, when the due timers of P or of ps have fired:
\* wakeups are pending, flags set, but of clusters given up, and ASTs queued.
Fired(P) ==
  [P EXCEPT !.wakePending = @ \/ \E t \in Due(P) : t.wake,
            !.local = @ \cup FiredBits(P, Local),
            !.asts = [m \in Modes |->
                        @[m] + Len(Those(P.timers, {t \in Due(P) : ~t.wake /\ t.ast /\ t.mode = m}))],
            !.timers = Remaining(@)]

FiredIn(s, ps, name) ==
  UNION {FiredBits(s.proc[u[1]], u[2]) : u \in {u \in ps \X Clusters : s.proc[u[1]].common[u[2]] = name}}

Expired(s, ps) ==
  [s EXCEPT !.proc = [p \in Processes |-> IF p \in ps THEN Fired(s.proc[p]) ELSE s.proc[p]],
            !.clusters = [n \in Names |->
                            IF s.clusters[n] = None THEN None
                            ELSE [s.clusters[n] EXCEPT !.flags = @ \cup FiredIn(s, ps, n)]]]

\* Process p's expire: p has the event, and who has a cluster a flag was set in.
ExpireTimers(s, p) ==
  ReportTo(Expired(s, {p}), {p} \cup UNION {Associates(s, n) : n \in {n \in Names : FiredIn(s, {p}, n) # {}}})

\* What the scheduling hook does before each choice; every waiter is looked at, so
\* what the timers report shows nowhere.
PollEvents(s) ==
  LET polled == {WakeWaiters(t) : t \in {Expired(s, Present(s))}}  \* t: computed once
  IN  CHOOSE t \in polled : TRUE

\* n ticks go by.
Later(s, n) ==
  LET passed(t) == [t EXCEPT !.left = @ - n]
      older(P) == [P EXCEPT !.timers = [i \in DOMAIN P.timers |-> passed(P.timers[i])]]
  IN  [s EXCEPT !.proc = [p \in Processes |-> older(s.proc[p])]]

TimesLeft(s) == UNION {{t.left : t \in ToSet(s.proc[p].timers)} : p \in Present(s)}

-----------------------------------------------------------------------------
(* Suspension and deletion.                                                   *)

\* Mutant: suspension takes a waiting process's wait state too.
SuspendFromAnyState(s, p) ==
  IF s.proc[p].suspended THEN s
  ELSE [s EXCEPT !.proc[p].suspended = TRUE, !.proc[p].state = "SUSP"]

\* A process that waits keeps its wait, and one that doesn't leaves the scheduler.
Suspend(s, p) ==
  IF s.proc[p].suspended THEN s
  ELSE [s EXCEPT !.proc[p].suspended = TRUE,
                 !.proc[p].state = IF Waits(s, p) THEN @ ELSE "SUSP"]

Resumed(P) ==
  IF ~P.suspended THEN P
  ELSE [P EXCEPT !.suspended = FALSE, !.state = IF P.waiting # None THEN @ ELSE "computable"]

Resume(s, p) == [s EXCEPT !.proc[p] = Resumed(@)]

\* Those of ps that are not marked already.
Unmarked(s, ps) == {p \in ps \cap Present(s) : ~s.proc[p].marked}

Marked(s, ps) ==
  [s EXCEPT !.proc = [p \in Processes |->
     IF p \in Unmarked(s, ps) THEN [Resumed(s.proc[p]) EXCEPT !.marked = TRUE] ELSE s.proc[p]]]

\* Mutant: a waiting process is marked where it waits.
MarkWaiting(s, ps) == Marked(s, ps)

\* The processes ps are resumed and made computable, to be deleted as they get the CPU.
MarkForDeletion(s, ps) == EndWaits(Marked(s, ps), {p \in Unmarked(s, ps) : Waits(s, p)})

\* Mutant: the process's channels are not released.
RundownWithoutCancel(s, p, current) ==
  LET t == Disassociate(s, p, Clusters)
  IN  [t EXCEPT !.waiters = IF Waits(t, p) THEN @ - 1 ELSE @,
                !.proc[p] = NoProcess,
                !.memory = IF p = current THEN @ ELSE @ \ {p}]

\* A process deleted leaves nothing, but the memory the CPU may still be in.
Rundown(s, p, current) ==
  LET t == Disassociate(CancelIO(s, p), p, Clusters)
  IN  [t EXCEPT !.waiters = IF Waits(t, p) THEN @ - 1 ELSE @,
                !.proc[p] = NoProcess,
                !.memory = IF p = current THEN @ ELSE @ \ {p}]

AwaitSubprocesses(s, p) ==
  EnterWait([MarkForDeletion(s, Subprocesses(s, p)) EXCEPT !.proc[p].marked = TRUE], p,
            [kind |-> "subprocesses"])

DeleteProcess(s, p, current) ==
  IF Subprocesses(s, p) = {} THEN Rundown(s, p, current) ELSE AwaitSubprocesses(s, p)

=============================================================================
