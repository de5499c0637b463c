------------------------------ MODULE Scheduler ------------------------------
(***************************************************************************)
(* The process scheduler (internal/sched): who is current, who is          *)
(* computable and in which order, and when the current process should give *)
(* the CPU up.                                                             *)
(*                                                                         *)
(* Each operation is one action: the Scheduler runs nothing, and its       *)
(* callers are all on one goroutine.  Which wait a process is in, and the  *)
(* CPU time it has used, are only kept for others to read: left out.  A    *)
(* call that fails (no such process, a bad priority) changes nothing.      *)
(***************************************************************************)
EXTENDS Integers, Sequences, FiniteSets, SequencesExt

CONSTANTS
  Handle,         \* processes
  None,           \* no process
  MaxPriority,    \* 31 in the code
  MaxNormal,      \* the highest normal priority, 15 in the code
  Base,           \* base priorities given to Add and SetBasePriority
  DirectPriority, \* priorities given to SetCurrentPriority
  Boost,          \* the classes' increments: 0, 2, 3, 4 and 6 in the code
  Quantum         \* lengths of a quantum

Priority == 0 .. MaxPriority

ASSUME ConstantsOK ==
  /\ None \notin Handle
  /\ MaxPriority \in Nat
  /\ MaxNormal \in Priority
  /\ Base \subseteq Priority
  /\ DirectPriority \subseteq Priority
  /\ Boost \subseteq Nat
  /\ Quantum \subseteq Nat \ {0}

VARIABLES
  processes,  \* Scheduler.processes: those the scheduler knows, by handle
  queues,     \* Scheduler.queues: the computable ones, by priority
  current,    \* Scheduler.current, None for no hasCurrent
  quantum,    \* Scheduler.quantum
  reschedule  \* Scheduler.reschedule

vars == <<processes, queues, current, quantum, reschedule>>

\* "Waiting" stands for every wait state.
State == {"Current", "Computable", "Waiting"}

Process == [state : State, base : Priority, priority : Priority, quantumLeft : Int]

IsRealTime(base) == base > MaxNormal

\* Mutant: an increment is not kept out of the real-time range.
BoostedTooFar(base, now, inc) ==
  LET p == IF now > base + inc THEN now ELSE base + inc
  IN IF p > MaxPriority THEN base ELSE p

\* The priority an event's increment gives a waiting process.
Boosted(base, now, inc) ==
  LET p == IF now > base + inc THEN now ELSE base + inc
  IN IF p > MaxNormal THEN base ELSE p

-----------------------------------------------------------------------------
(* Operators on a part of the state: P is a value of processes, Q of       *)
(* queues, c of current.                                                   *)

InState(P, s) == {h \in DOMAIN P : P[h].state = s}

\* Mutant: the process stays in its queue.
LeaveQueueLate(P, Q, h) == Q

\* q without its one occurrence of h.
Without(q, h) == RemoveAt(q, CHOOSE i \in 1 .. Len(q) : q[i] = h)

\* leaveState, for the queue of a computable process.
LeaveQueue(P, Q, h) ==
  IF P[h].state = "Computable" THEN [Q EXCEPT ![P[h].priority] = Without(@, h)] ELSE Q

\* Mutant: c goes to the front of its queue.
RequeueFirst(P, Q, c) ==
  IF c = None THEN Q ELSE [Q EXCEPT ![P[c].priority] = <<c>> \o @]

\* c to the back of its queue.
Requeue(P, Q, c) ==
  IF c = None THEN Q ELSE [Q EXCEPT ![P[c].priority] = Append(@, c)]

Preempted(P, c) ==
  IF c = None THEN P ELSE [P EXCEPT ![c].state = "Computable"]

\* A newcomer at priority p takes the CPU from c.
Preempts(P, c, p) == c = None \/ p >= P[c].priority

\* makeComputable: h, which rec describes, joins its priority's queue.
MakeComputable(P, Q, c, h, rec) ==
  /\ processes' = [x \in DOMAIN P \cup {h} |->
                     IF x = h THEN [rec EXCEPT !.state = "Computable"] ELSE P[x]]
  /\ queues' = [Q EXCEPT ![rec.priority] = Append(@, h)]
  /\ reschedule' = (reschedule \/ Preempts(P, c, rec.priority))

-----------------------------------------------------------------------------
Add(h, base, inc) ==
  /\ h \notin DOMAIN processes
  /\ MakeComputable(processes, queues, current, h,
       [state |-> "Computable", base |-> base, priority |-> Boosted(base, base, inc),
        quantumLeft |-> quantum])
  /\ UNCHANGED <<current, quantum>>

\* Mutant: the CPU is freed, but no choice asked for.
GiveUpQuietly(h) ==
  /\ current' = IF h = current THEN None ELSE current
  /\ UNCHANGED reschedule

\* leaveState for the current process: the CPU is free, and a choice is due.
GiveUpCPU(h) ==
  /\ current' = IF h = current THEN None ELSE current
  /\ reschedule' = (reschedule \/ h = current)

RemoveProcess(h) ==
  /\ h \in DOMAIN processes
  /\ processes' = [x \in DOMAIN processes \ {h} |-> processes[x]]
  /\ queues' = LeaveQueue(processes, queues, h)
  /\ GiveUpCPU(h)
  /\ UNCHANGED quantum

\* Any process can be made to wait: the current one, by what it calls; a
\* computable one, by $SUSPND; a waiting one, moved to another wait.
Wait(h) ==
  /\ h \in DOMAIN processes
  /\ processes' = [processes EXCEPT ![h].state = "Waiting"]
  /\ queues' = LeaveQueue(processes, queues, h)
  /\ GiveUpCPU(h)
  /\ UNCHANGED quantum

\* An event ends a wait.
Ready(h, inc) ==
  /\ h \in InState(processes, "Waiting")
  /\ LET p == processes[h]
     IN MakeComputable(processes, queues, current, h,
          [p EXCEPT !.priority = Boosted(p.base, p.priority, inc)])
  /\ UNCHANGED <<current, quantum>>

\* The current process has run n instructions.
Charge(n) ==
  /\ current # None
  /\ LET p == processes[current]
         over == p.quantumLeft - n <= 0
     IN /\ processes' = [processes EXCEPT ![current].quantumLeft =
                            IF over THEN quantum ELSE @ - n]
        /\ reschedule' = (reschedule \/ (over /\ ~IsRealTime(p.base)))
  /\ UNCHANGED <<queues, current, quantum>>

SetQuantum(n) ==
  /\ quantum' = n
  /\ processes' = [h \in DOMAIN processes |->
                     [processes[h] EXCEPT !.quantumLeft = IF @ > n THEN n ELSE @]]
  /\ UNCHANGED <<queues, current, reschedule>>

RequestReschedule ==
  /\ reschedule' = TRUE
  /\ UNCHANGED <<processes, queues, current, quantum>>

Yield ==
  /\ processes' = Preempted(processes, current)
  /\ queues' = Requeue(processes, queues, current)
  /\ current' = None
  /\ reschedule' = TRUE
  /\ UNCHANGED quantum

\* The highest priority whose queue is not empty.
Highest(Q, p) ==
  /\ Q[p] # <<>>
  /\ \A q \in Priority : Q[q] # <<>> => q <= p

\* A normal process above its base runs at one priority lower.
Decayed(p) ==
  IF ~IsRealTime(p.base) /\ p.priority > p.base THEN p.priority - 1 ELSE p.priority

\* The current process goes to the back of its queue, and the head of the
\* highest queue becomes current; with no process computable, the CPU idles.
Reschedule ==
  /\ reschedule' = FALSE
  /\ UNCHANGED quantum
  /\ LET P == Preempted(processes, current)
         Q == Requeue(processes, queues, current)
     IN \/ /\ \A p \in Priority : Q[p] = <<>>
           /\ processes' = P
           /\ queues' = Q
           /\ current' = None
        \/ \E p \in Priority :
             /\ Highest(Q, p)
             /\ current' = Head(Q[p])
             /\ queues' = [Q EXCEPT ![p] = Tail(@)]
             /\ processes' = [P EXCEPT ![Head(Q[p])] =
                                [@ EXCEPT !.state = "Current", !.priority = Decayed(P[Head(Q[p])])]]

\* The console takes the CPU back for h.
Choose(h) ==
  /\ h \in DOMAIN processes
  /\ h # current
  /\ LET P == Preempted(processes, current)
         Q == Requeue(processes, queues, current)
     IN IF P[h].state = "Computable"
        THEN /\ processes' = [P EXCEPT ![h].state = "Current"]
             /\ queues' = LeaveQueue(P, Q, h)
             /\ current' = h
             /\ UNCHANGED reschedule
        ELSE /\ processes' = P
             /\ queues' = Q
             /\ current' = None
             /\ reschedule' = TRUE
  /\ UNCHANGED quantum

\* Mutant: a lowered current process keeps the CPU until its quantum ends.
NotOutranked(base) == FALSE

\* Some computable process has a higher priority than base.
Outranked(base) == \E p \in Priority : p > base /\ queues[p] # <<>>

\* $SETPRI.  A waiting process keeps its current priority until it runs.
SetBasePriority(h, base) ==
  /\ h \in DOMAIN processes
  /\ CASE processes[h].state = "Computable" ->
            MakeComputable(processes, LeaveQueue(processes, queues, h), current, h,
              [processes[h] EXCEPT !.base = base, !.priority = base])
       [] processes[h].state = "Current" ->
            /\ processes' = [processes EXCEPT ![h].base = base, ![h].priority = base]
            /\ reschedule' = (reschedule \/ Outranked(base))
            /\ UNCHANGED queues
       [] processes[h].state = "Waiting" ->
            /\ processes' = [processes EXCEPT ![h].base = base]
            /\ UNCHANGED <<queues, reschedule>>
  /\ UNCHANGED <<current, quantum>>

SetCurrentPriority(h, p) ==
  /\ h \in DOMAIN processes
  /\ IF processes[h].state = "Computable"
     THEN MakeComputable(processes, LeaveQueue(processes, queues, h), current, h,
            [processes[h] EXCEPT !.priority = p])
     ELSE /\ processes' = [processes EXCEPT ![h].priority = p]
          /\ UNCHANGED <<queues, reschedule>>
  /\ UNCHANGED <<current, quantum>>

-----------------------------------------------------------------------------
Init ==
  /\ processes = [h \in {} |-> None]
  /\ queues = [p \in Priority |-> <<>>]
  /\ current = None
  /\ quantum \in Quantum
  /\ reschedule = FALSE

\* What the processes, and the events they wait for, do.
TimeSharing ==
  \/ \E h \in Handle :
       \/ \E base \in Base, inc \in Boost : Add(h, base, inc)
       \/ RemoveProcess(h)
       \/ Wait(h)
       \/ \E inc \in Boost : Ready(h, inc)
  \/ \E n \in Quantum : Charge(n)
  \/ RequestReschedule
  \/ Yield
  \/ Reschedule

\* What the operator, the console and $SETPRI do.
Control ==
  \/ \E n \in Quantum : SetQuantum(n)
  \/ \E h \in Handle :
       \/ Choose(h)
       \/ \E base \in Base : SetBasePriority(h, base)
       \/ \E p \in DirectPriority : SetCurrentPriority(h, p)

Next == TimeSharing \/ Control

Spec == Init /\ [][Next]_vars

\* A time-sharing system left to itself.  The engine goes on executing (and
\* charging) the current process, and makes the choice it is asked for
\* before the next instruction (corevms's scheduling hook, scheduleStep).
TurnsSpec ==
  /\ Init
  /\ [][TimeSharing]_vars
  /\ WF_vars(\E n \in Quantum : Charge(n))
  /\ WF_vars(reschedule /\ Reschedule)

-----------------------------------------------------------------------------
(* Properties *)

\* The state every variable is in; a process's quantum is never left spent.
TypeOK ==
  /\ DOMAIN processes \subseteq Handle
  /\ \A h \in DOMAIN processes :
       /\ processes[h] \in Process
       /\ processes[h].quantumLeft \in 1 .. quantum
  /\ queues \in [Priority -> Seq(Handle)]
  /\ current \in Handle \cup {None}
  /\ quantum \in Quantum
  /\ reschedule \in BOOLEAN

\* A process is computable exactly while it is in a queue, in that of its
\* current priority only and once; and it is current exactly while it has
\* the CPU.  Otherwise a process is lost to the scheduler, or runs twice
\* (every append to, removal from and move between the queues).
QueuesHoldComputable ==
  /\ \A p \in Priority :
       /\ IsInjective(queues[p])
       /\ ToSet(queues[p]) =
            {h \in InState(processes, "Computable") : processes[h].priority = p}
  /\ InState(processes, "Current") = {current} \ {None}

\* The CPU does not idle beside a computable process: with no current
\* process and one computable, a choice has been asked for (leaveState,
\* makeComputable, Choose, and Reschedule's clearing of the request).
NoIdleBesideWork ==
  current = None /\ InState(processes, "Computable") # {} => reschedule

\* A computable or current process's priority is where the rules of boosts
\* put it: a real-time process's at its base, a normal one's from its base
\* up to the highest normal priority.
InRange(p) ==
  p.state # "Waiting" =>
    IF IsRealTime(p.base) THEN p.priority = p.base
    ELSE p.base <= p.priority /\ p.priority <= MaxNormal

\* Nothing but SetCurrentPriority takes a process's priority out of its
\* range, however waits, boosts, decay and $SETPRI across the real-time
\* boundary follow one another (boosted, Reschedule, SetBasePriority).
PrioritiesStayInRange ==
  [][\A h \in DOMAIN processes' :
       (h \in DOMAIN processes => InRange(processes[h])) =>
         \/ InRange(processes'[h])
         \/ \E p \in DirectPriority : SetCurrentPriority(h, p)]_vars

\* A computable process of a higher priority than the current one's.
Outranks(h) ==
  /\ current # None
  /\ processes[h].state = "Computable"
  /\ processes[h].priority > processes[current].priority

\* Nobody starts to outrank the process that stays current without a
\* reschedule being asked for, whether by rising or because the current one
\* falls; except by SetCurrentPriority of the current process, which asks
\* for none (makeComputable, SetBasePriority).
NoSilentOutranking ==
  [][current' = current =>
       \A h \in DOMAIN processes' :
         Outranks(h)' /\ ~(h \in DOMAIN processes /\ Outranks(h)) =>
           reschedule' \/ \E p \in DirectPriority : SetCurrentPriority(current, p)]_vars

\* Processes of equal priority take turns: in a system of one base priority
\* and no boosts, a computable process gets the CPU in time, or waits or is
\* deleted first (Charge's quantum end; Reschedule and makeComputable put
\* processes at the back only).
EqualsTakeTurns ==
  \A h \in Handle :
    h \in InState(processes, "Computable") ~> h \notin InState(processes, "Computable")

\* "Its current priority is boosted ..., but never above 15, and never below
\* what it already was" (doc.go, of a waiting normal process's event).
BoostNeverLowers ==
  [][\A h \in DOMAIN processes \cap DOMAIN processes' :
       /\ processes[h].state = "Waiting"
       /\ processes'[h].state = "Computable"
       /\ ~IsRealTime(processes[h].base)
       => processes'[h].priority >= processes[h].priority]_vars
=============================================================================
