--------------------------- MODULE SchedulerProofs ---------------------------
(***************************************************************************)
(* Proofs that the scheduler's variables keep their types, that a process  *)
(* is computable exactly while it is in its priority's queue, that the CPU *)
(* never idles beside a computable process, that priorities stay in their  *)
(* range, and that nobody outranks the current process silently, for every *)
(* set of processes and every value of the other constants.                *)
(*                                                                         *)
(* TypeOK is not inductive by itself: taking a process out of the queue    *)
(* its priority names gives a queue only if the process is in it.  Inv,    *)
(* the inductive invariant, is TypeOK and QueuesHoldComputable, stated of  *)
(* any value of the variables so that the lemmas about leaveState's and    *)
(* Reschedule's halves can be put together.                                *)
(***************************************************************************)
EXTENDS Scheduler, QueueLemmas

ProcessesOK(P, qm) ==
  /\ DOMAIN P \subseteq Handle
  /\ \A h \in DOMAIN P : P[h] \in Process /\ P[h].quantumLeft \in 1 .. qm

\* The queues hold the processes S, each in its priority's queue.
Hold(P, Q, S) ==
  /\ Q \in [Priority -> Seq(Handle)]
  /\ \A p \in Priority :
       IsInjective(Q[p]) /\ ToSet(Q[p]) = {h \in S : P[h].priority = p}

Inv(P, Q, c, qm) ==
  /\ ProcessesOK(P, qm)
  /\ Hold(P, Q, InState(P, "Computable"))
  /\ c \in Handle \cup {None}
  /\ InState(P, "Current") = {c} \ {None}
  /\ qm \in Quantum

IInv == Inv(processes, queues, current, quantum) /\ reschedule \in BOOLEAN

-----------------------------------------------------------------------------
\* The invariant says what TypeOK and QueuesHoldComputable say.
LEMMA IInvMeans == IInv <=> TypeOK /\ QueuesHoldComputable
  BY DEF IInv, Inv, ProcessesOK, Hold, TypeOK, QueuesHoldComputable

\* A boosted priority is a priority (boosted).
LEMMA BoostedIsPriority ==
  ASSUME NEW base \in Priority, NEW now \in Priority, NEW inc \in Nat
  PROVE  Boosted(base, now, inc) \in Priority
  BY ConstantsOK DEF Boosted, Priority

\* A process leaves its queue, if it is in one, and no other does (leaveState).
LEMMA LeaveQueueHolds ==
  ASSUME NEW P, NEW Q, NEW qm, NEW h \in DOMAIN P,
         ProcessesOK(P, qm), Hold(P, Q, InState(P, "Computable"))
  PROVE  Hold(P, LeaveQueue(P, Q, h), InState(P, "Computable") \ {h})
<1> DEFINE S == InState(P, "Computable")
           p == P[h].priority
<1>1. CASE P[h].state # "Computable"
  <2>1. h \notin S
    BY <1>1 DEF InState
  <2>2. S \ {h} = S
    BY <2>1
  <2> QED
    BY <1>1, <2>2 DEF LeaveQueue
<1>2. CASE P[h].state = "Computable"
  <2>1. p \in Priority /\ h \in S
    BY <1>2 DEF ProcessesOK, Process, InState
  <2>2. Q \in [Priority -> Seq(Handle)] /\ IsInjective(Q[p]) /\ h \in ToSet(Q[p])
    BY <2>1 DEF Hold
  <2>3. /\ Without(Q[p], h) \in Seq(Handle)
        /\ IsInjective(Without(Q[p], h))
        /\ ToSet(Without(Q[p], h)) = ToSet(Q[p]) \ {h}
    <3>1. Q[p] \in Seq(Handle)
      BY <2>1, <2>2
    <3> QED
      BY <2>2, <3>1, RemoveMember DEF Without
  <2>4. LeaveQueue(P, Q, h) = [Q EXCEPT ![p] = Without(Q[p], h)]
    BY <1>2 DEF LeaveQueue
  <2>5. LeaveQueue(P, Q, h) \in [Priority -> Seq(Handle)]
    BY <2>2, <2>3, <2>4
  <2>6. ASSUME NEW q \in Priority
        PROVE  /\ IsInjective(LeaveQueue(P, Q, h)[q])
               /\ ToSet(LeaveQueue(P, Q, h)[q]) = {x \in S \ {h} : P[x].priority = q}
    <3>1. CASE q = p
      BY <3>1, <2>1, <2>2, <2>3, <2>4 DEF Hold
    <3>2. CASE q # p
      <4>1. LeaveQueue(P, Q, h)[q] = Q[q]
        BY <3>2, <2>2, <2>4
      <4>2. {x \in S \ {h} : P[x].priority = q} = {x \in S : P[x].priority = q}
        BY <3>2
      <4> QED
        BY <4>1, <4>2 DEF Hold
    <3> QED
      BY <3>1, <3>2
  <2> QED
    BY <2>5, <2>6 DEF Hold
<1> QED
  BY <1>1, <1>2

\* A process that joins its priority's queue is held there (makeComputable).
LEMMA AppendHolds ==
  ASSUME NEW P, NEW P2, NEW Q, NEW S, NEW h \in Handle, h \notin S,
         Hold(P, Q, S),
         P2[h].priority \in Priority,
         \A x \in S : P2[x].priority = P[x].priority
  PROVE  Hold(P2, [Q EXCEPT ![P2[h].priority] = Append(@, h)], S \cup {h})
<1> DEFINE p == P2[h].priority
           Q2 == [Q EXCEPT ![p] = Append(@, h)]
<1>1. Q \in [Priority -> Seq(Handle)] /\ Q[p] \in Seq(Handle) /\ h \notin ToSet(Q[p])
  BY DEF Hold
<1>2. /\ Append(Q[p], h) \in Seq(Handle)
      /\ IsInjective(Append(Q[p], h))
      /\ ToSet(Append(Q[p], h)) = ToSet(Q[p]) \cup {h}
  BY <1>1, AppendToQueue DEF Hold
<1>3. Q2 \in [Priority -> Seq(Handle)]
  BY <1>1, <1>2
<1>4. ASSUME NEW q \in Priority
      PROVE  /\ IsInjective(Q2[q])
             /\ ToSet(Q2[q]) = {x \in S \cup {h} : P2[x].priority = q}
  <2>1. CASE q = p
    BY <2>1, <1>1, <1>2 DEF Hold
  <2>2. CASE q # p
    <3>1. Q2[q] = Q[q]
      BY <2>2, <1>1
    <3>2. {x \in S \cup {h} : P2[x].priority = q} = {x \in S : P[x].priority = q}
      BY <2>2
    <3> QED
      BY <3>1, <3>2 DEF Hold
  <2> QED
    BY <2>1, <2>2
<1> QED
  BY <1>3, <1>4 DEF Hold

\* With the current process back in its queue, nobody is current (the first
\* half of Reschedule, Yield and Choose).
LEMMA PreemptKeeps ==
  ASSUME NEW P, NEW Q, NEW c, NEW qm, Inv(P, Q, c, qm)
  PROVE  Inv(Preempted(P, c), Requeue(P, Q, c), None, qm)
<1> USE ConstantsOK
<1>1. CASE c = None
  BY <1>1 DEF Inv, Preempted, Requeue
<1>2. CASE c # None
  <2> DEFINE P2 == [P EXCEPT ![c].state = "Computable"]
  <2>1. c \in Handle /\ c \in InState(P, "Current")
    BY <1>2 DEF Inv
  <2>2. c \in DOMAIN P /\ P[c].state = "Current" /\ c \notin InState(P, "Computable")
    BY <2>1 DEF InState
  <2>3. Preempted(P, c) = P2 /\ Requeue(P, Q, c) = [Q EXCEPT ![P[c].priority] = Append(@, c)]
    BY <1>2 DEF Preempted, Requeue
  <2>4. /\ DOMAIN P2 = DOMAIN P
        /\ \A x \in DOMAIN P \ {c} : P2[x] = P[x]
        /\ P2[c] = [P[c] EXCEPT !.state = "Computable"]
    BY <2>2
  <2>5. P[c] \in Process
    BY <2>2 DEF Inv, ProcessesOK
  <2>6. /\ P2[c] \in Process /\ P2[c].state = "Computable"
        /\ P2[c].priority = P[c].priority /\ P2[c].quantumLeft = P[c].quantumLeft
    BY <2>4, <2>5 DEF Process, State
  <2>7. ProcessesOK(P2, qm)
    BY <2>2, <2>4, <2>6 DEF Inv, ProcessesOK
  <2>8. InState(P2, "Computable") = InState(P, "Computable") \cup {c}
    BY <2>2, <2>4, <2>6 DEF InState
  <2>9. InState(P2, "Current") = {}
    BY <2>2, <2>4, <2>6, <1>2 DEF InState, Inv
  <2>10. Hold(P2, [Q EXCEPT ![P2[c].priority] = Append(@, c)], InState(P, "Computable") \cup {c})
    <3>1. \A x \in InState(P, "Computable") : P2[x].priority = P[x].priority
      BY <2>2, <2>4 DEF InState
    <3>2. P2[c].priority \in Priority
      BY <2>6 DEF Process
    <3> HIDE DEF P2
    <3> QED
      BY <3>1, <3>2, <2>1, <2>2, AppendHolds DEF Inv
  <2> QED
    BY <2>3, <2>6, <2>7, <2>8, <2>9, <2>10 DEF Inv
<1> QED
  BY <1>1, <1>2

\* A process that was neither current nor, any more, in a queue becomes
\* computable (makeComputable, as Add, Ready and $SETPRI call it).
LEMMA MakeComputableKeeps ==
  ASSUME NEW P, NEW Q, NEW h \in Handle, NEW rec \in Process,
         rec.quantumLeft \in 1 .. quantum,
         ProcessesOK(P, quantum), quantum \in Quantum,
         Hold(P, Q, InState(P, "Computable") \ {h}),
         current \in Handle \cup {None}, h # current,
         InState(P, "Current") = {current} \ {None},
         reschedule \in BOOLEAN,
         MakeComputable(P, Q, current, h, rec),
         UNCHANGED <<current, quantum>>
  PROVE  IInv'
<1> DEFINE S == InState(P, "Computable") \ {h}
           P2 == [x \in DOMAIN P \cup {h} |->
                    IF x = h THEN [rec EXCEPT !.state = "Computable"] ELSE P[x]]
<1>1. /\ processes' = P2
      /\ queues' = [Q EXCEPT ![rec.priority] = Append(@, h)]
      /\ reschedule' \in BOOLEAN
  BY DEF MakeComputable, Preempts
<1>2. /\ DOMAIN P2 = DOMAIN P \cup {h}
      /\ \A x \in DOMAIN P \ {h} : P2[x] = P[x]
      /\ P2[h] = [rec EXCEPT !.state = "Computable"]
  OBVIOUS
<1>3. /\ P2[h] \in Process /\ P2[h].state = "Computable"
      /\ P2[h].priority = rec.priority /\ P2[h].quantumLeft = rec.quantumLeft
      /\ rec.priority \in Priority
  BY <1>2 DEF Process, State
<1> HIDE DEF P2
<1>4. ProcessesOK(P2, quantum)
  BY <1>2, <1>3 DEF ProcessesOK
<1>5. InState(P2, "Computable") = S \cup {h}
  BY <1>2, <1>3 DEF InState
<1>6. InState(P2, "Current") = InState(P, "Current")
  <2>1. h \notin InState(P, "Current")
    BY ConstantsOK
  <2> QED
    BY <1>2, <1>3, <2>1 DEF InState
<1>7. Hold(P2, [Q EXCEPT ![P2[h].priority] = Append(@, h)], S \cup {h})
  <2>1. \A x \in S : P2[x].priority = P[x].priority
    BY <1>2 DEF InState
  <2> QED
    BY <1>3, <2>1, AppendHolds
<1> QED
  BY <1>1, <1>3, <1>4, <1>5, <1>6, <1>7 DEF IInv, Inv

-----------------------------------------------------------------------------
\* The empty scheduler satisfies the invariant (New).
LEMMA InitInv == Init => IInv
<1> SUFFICES ASSUME Init PROVE IInv
  OBVIOUS
<1>1. DOMAIN processes = {}
  BY DEF Init
<1>2. InState(processes, "Computable") = {} /\ InState(processes, "Current") = {}
  BY <1>1 DEF InState
<1>3. queues \in [Priority -> Seq(Handle)] /\ \A p \in Priority : queues[p] = <<>>
  BY EmptySeq DEF Init
<1>4. ToSet(<<>>) = {} /\ IsInjective(<<>>)
  BY DEF ToSet, IsInjective
<1>5. Hold(processes, queues, InState(processes, "Computable"))
  BY <1>2, <1>3, <1>4 DEF Hold
<1> QED
  BY <1>1, <1>2, <1>5 DEF Init, IInv, Inv, ProcessesOK

\* A new process keeps the invariant (Add, which ends in makeComputable).
LEMMA AddKeeps ==
  ASSUME IInv, NEW h \in Handle, NEW base \in Base, NEW inc \in Boost, Add(h, base, inc)
  PROVE  IInv'
<1> DEFINE rec == [state |-> "Computable", base |-> base,
                   priority |-> Boosted(base, base, inc), quantumLeft |-> quantum]
<1>1. quantum \in Nat \ {0} /\ base \in Priority /\ inc \in Nat
  BY ConstantsOK DEF IInv, Inv
<1>2. rec \in Process /\ rec.quantumLeft \in 1 .. quantum
  BY <1>1, BoostedIsPriority DEF Process, State
<1>3. h \notin InState(processes, "Computable") /\ h \notin InState(processes, "Current")
  BY DEF Add, InState
<1>4. InState(processes, "Computable") \ {h} = InState(processes, "Computable")
  BY <1>3
<1>5. h # current
  BY <1>3, ConstantsOK DEF IInv, Inv
<1>6. MakeComputable(processes, queues, current, h, rec) /\ UNCHANGED <<current, quantum>>
  BY DEF Add
<1> HIDE DEF rec
<1> QED
  BY <1>2, <1>4, <1>5, <1>6, MakeComputableKeeps DEF IInv, Inv

\* The end of a wait keeps the invariant (Ready, which ends there too).
LEMMA ReadyKeeps ==
  ASSUME IInv, NEW h \in Handle, NEW inc \in Boost, Ready(h, inc)
  PROVE  IInv'
<1> DEFINE now == processes[h]
           rec == [now EXCEPT !.priority = Boosted(now.base, now.priority, inc)]
<1>1. h \in DOMAIN processes /\ now.state = "Waiting"
  BY DEF Ready, InState
<1>2. now \in Process /\ now.quantumLeft \in 1 .. quantum
  BY <1>1 DEF IInv, Inv, ProcessesOK
<1>3. Boosted(now.base, now.priority, inc) \in Priority
  <2>1. now.base \in Priority /\ now.priority \in Priority /\ inc \in Nat
    BY <1>2, ConstantsOK DEF Process
  <2> QED
    BY <2>1, BoostedIsPriority
<1>4. rec \in Process /\ rec.quantumLeft \in 1 .. quantum
  BY <1>2, <1>3 DEF Process
<1>5. h \notin InState(processes, "Computable") /\ h \notin InState(processes, "Current")
  BY <1>1 DEF InState
<1>6. InState(processes, "Computable") \ {h} = InState(processes, "Computable")
  BY <1>5
<1>7. h # current
  BY <1>5, ConstantsOK DEF IInv, Inv
<1>8. MakeComputable(processes, queues, current, h, rec) /\ UNCHANGED <<current, quantum>>
  BY DEF Ready
<1> HIDE DEF rec
<1> QED
  BY <1>4, <1>6, <1>7, <1>8, MakeComputableKeeps DEF IInv, Inv

\* A step that moves no process keeps the invariant, whatever else it
\* changes in their records (Charge, SetQuantum, and $SETPRI of a process
\* that is in no queue).
LEMMA RecordsKeep ==
  ASSUME IInv, UNCHANGED <<queues, current>>,
         quantum' \in Quantum, reschedule' \in BOOLEAN,
         DOMAIN processes' = DOMAIN processes,
         \A x \in DOMAIN processes :
           /\ processes'[x] \in Process
           /\ processes'[x].quantumLeft \in 1 .. quantum'
           /\ processes'[x].state = processes[x].state
           /\ processes[x].state = "Computable"
                => processes'[x].priority = processes[x].priority
  PROVE  IInv'
<1>1. \A s \in State : InState(processes', s) = InState(processes, s)
  BY DEF InState
<1>2. Hold(processes', queues', InState(processes', "Computable"))
  BY <1>1 DEF IInv, Inv, Hold, State, InState
<1>3. ProcessesOK(processes', quantum')
  BY DEF IInv, Inv, ProcessesOK
<1> QED
  BY <1>1, <1>2, <1>3 DEF IInv, Inv, State

\* $SETPRI of any process keeps the invariant.
LEMMA SetBasePriorityKeeps ==
  ASSUME IInv, NEW h \in Handle, NEW base \in Base, SetBasePriority(h, base)
  PROVE  IInv'
<1> DEFINE old == processes[h]
<1>1. h \in DOMAIN processes /\ old \in Process /\ old.quantumLeft \in 1 .. quantum
  BY DEF SetBasePriority, IInv, Inv, ProcessesOK
<1>2. base \in Priority
  BY ConstantsOK
<1>3. CASE old.state = "Computable"
  <2> DEFINE rec == [old EXCEPT !.base = base, !.priority = base]
             Q == LeaveQueue(processes, queues, h)
  <2>1. rec \in Process /\ rec.quantumLeft \in 1 .. quantum
    BY <1>1, <1>2 DEF Process
  <2>2. Hold(processes, Q, InState(processes, "Computable") \ {h})
    BY <1>1, LeaveQueueHolds DEF IInv, Inv
  <2>3. h # current
    BY <1>3, <1>1, ConstantsOK DEF IInv, Inv, InState
  <2>4. MakeComputable(processes, Q, current, h, rec) /\ UNCHANGED <<current, quantum>>
    BY <1>3 DEF SetBasePriority
  <2> HIDE DEF rec, Q
  <2> QED
    BY <2>1, <2>2, <2>3, <2>4, MakeComputableKeeps DEF IInv, Inv
<1>4. CASE old.state # "Computable"
  <2>1. /\ queues' = queues /\ current' = current /\ quantum' = quantum
        /\ reschedule' \in BOOLEAN
        /\ \/ processes' = [processes EXCEPT ![h].base = base, ![h].priority = base]
           \/ processes' = [processes EXCEPT ![h].base = base]
    <3>1. old.state = "Current" \/ old.state = "Waiting"
      BY <1>1, <1>4 DEF Process, State
    <3> QED
      BY <3>1 DEF SetBasePriority, IInv, Outranked
  <2>2. \A x \in DOMAIN processes :
          processes[x] \in Process /\ processes[x].quantumLeft \in 1 .. quantum
    BY DEF IInv, Inv, ProcessesOK
  <2>3. /\ DOMAIN processes' = DOMAIN processes
        /\ \A x \in DOMAIN processes \ {h} : processes'[x] = processes[x]
        /\ processes'[h] \in Process
        /\ processes'[h].state = old.state /\ processes'[h].quantumLeft = old.quantumLeft
    BY <2>1, <1>1, <1>2 DEF Process
  <2> QED
    BY <2>1, <2>2, <2>3, <1>1, <1>4, RecordsKeep DEF IInv, Inv
<1> QED
  BY <1>3, <1>4

\* Setting any process's current priority keeps the invariant.
LEMMA SetCurrentPriorityKeeps ==
  ASSUME IInv, NEW h \in Handle, NEW p \in DirectPriority, SetCurrentPriority(h, p)
  PROVE  IInv'
<1> DEFINE old == processes[h]
<1>1. h \in DOMAIN processes /\ old \in Process /\ old.quantumLeft \in 1 .. quantum
  BY DEF SetCurrentPriority, IInv, Inv, ProcessesOK
<1>2. p \in Priority
  BY ConstantsOK
<1>3. CASE old.state = "Computable"
  <2> DEFINE rec == [old EXCEPT !.priority = p]
             Q == LeaveQueue(processes, queues, h)
  <2>1. rec \in Process /\ rec.quantumLeft \in 1 .. quantum
    BY <1>1, <1>2 DEF Process
  <2>2. Hold(processes, Q, InState(processes, "Computable") \ {h})
    BY <1>1, LeaveQueueHolds DEF IInv, Inv
  <2>3. h # current
    BY <1>3, <1>1, ConstantsOK DEF IInv, Inv, InState
  <2>4. MakeComputable(processes, Q, current, h, rec) /\ UNCHANGED <<current, quantum>>
    BY <1>3 DEF SetCurrentPriority
  <2> HIDE DEF rec, Q
  <2> QED
    BY <2>1, <2>2, <2>3, <2>4, MakeComputableKeeps DEF IInv, Inv
<1>4. CASE old.state # "Computable"
  <2>1. /\ queues' = queues /\ current' = current /\ quantum' = quantum
        /\ reschedule' = reschedule
        /\ processes' = [processes EXCEPT ![h].priority = p]
    BY <1>4 DEF SetCurrentPriority
  <2>2. \A x \in DOMAIN processes :
          processes[x] \in Process /\ processes[x].quantumLeft \in 1 .. quantum
    BY DEF IInv, Inv, ProcessesOK
  <2>3. /\ DOMAIN processes' = DOMAIN processes
        /\ \A x \in DOMAIN processes \ {h} : processes'[x] = processes[x]
        /\ processes'[h] \in Process
        /\ processes'[h].state = old.state /\ processes'[h].quantumLeft = old.quantumLeft
    BY <2>1, <1>1, <1>2 DEF Process
  <2> QED
    BY <2>1, <2>2, <2>3, <1>1, <1>4, RecordsKeep DEF IInv, Inv
<1> QED
  BY <1>3, <1>4

\* A process that goes keeps the invariant: its place in a queue, or the
\* CPU, is given up with it (Remove, leaveState).
LEMMA RemoveKeeps ==
  ASSUME IInv, NEW h \in Handle, RemoveProcess(h)
  PROVE  IInv'
<1>1. /\ h \in DOMAIN processes
      /\ processes' = [x \in DOMAIN processes \ {h} |-> processes[x]]
      /\ queues' = LeaveQueue(processes, queues, h)
      /\ quantum' = quantum /\ reschedule' \in BOOLEAN
      /\ current' = IF h = current THEN None ELSE current
  BY DEF RemoveProcess, GiveUpCPU, IInv
<1>2. Hold(processes, queues', InState(processes, "Computable") \ {h})
  BY <1>1, LeaveQueueHolds DEF IInv, Inv
<1>3. /\ DOMAIN processes' = DOMAIN processes \ {h}
      /\ \A x \in DOMAIN processes' : processes'[x] = processes[x]
  BY <1>1
<1>4. \A s \in State : InState(processes', s) = InState(processes, s) \ {h}
  BY <1>3 DEF InState
<1>5. Hold(processes', queues', InState(processes', "Computable"))
  <2>1. InState(processes', "Computable") = InState(processes, "Computable") \ {h}
    BY <1>4 DEF State
  <2>2. \A x \in InState(processes', "Computable") : processes'[x] = processes[x]
    BY <1>3 DEF InState
  <2> QED
    BY <1>2, <2>1, <2>2 DEF Hold
<1>6. InState(processes', "Current") = {current'} \ {None}
  <2>1. InState(processes', "Current") = ({current} \ {None}) \ {h}
    BY <1>4 DEF State, IInv, Inv
  <2> QED
    BY <1>1, <2>1, ConstantsOK
<1>7. ProcessesOK(processes', quantum')
  BY <1>1, <1>3 DEF IInv, Inv, ProcessesOK
<1> QED
  BY <1>1, <1>5, <1>6, <1>7 DEF IInv, Inv

\* A process that waits keeps the invariant, in the same way (Wait).
LEMMA WaitKeeps ==
  ASSUME IInv, NEW h \in Handle, Wait(h)
  PROVE  IInv'
<1>1. /\ h \in DOMAIN processes
      /\ processes' = [processes EXCEPT ![h].state = "Waiting"]
      /\ queues' = LeaveQueue(processes, queues, h)
      /\ quantum' = quantum /\ reschedule' \in BOOLEAN
      /\ current' = IF h = current THEN None ELSE current
  BY DEF Wait, GiveUpCPU, IInv
<1>2. Hold(processes, queues', InState(processes, "Computable") \ {h})
  BY <1>1, LeaveQueueHolds DEF IInv, Inv
<1>3. /\ DOMAIN processes' = DOMAIN processes
      /\ \A x \in DOMAIN processes \ {h} : processes'[x] = processes[x]
      /\ processes'[h] = [processes[h] EXCEPT !.state = "Waiting"]
  BY <1>1
<1>4. processes[h] \in Process /\ processes[h].quantumLeft \in 1 .. quantum
  BY <1>1 DEF IInv, Inv, ProcessesOK
<1>5. /\ processes'[h] \in Process /\ processes'[h].state = "Waiting"
      /\ processes'[h].quantumLeft = processes[h].quantumLeft
  BY <1>3, <1>4 DEF Process, State
<1>6. \A s \in {"Computable", "Current"} : InState(processes', s) = InState(processes, s) \ {h}
  BY <1>3, <1>5 DEF InState
<1>7. Hold(processes', queues', InState(processes', "Computable"))
  <2>1. InState(processes', "Computable") = InState(processes, "Computable") \ {h}
    BY <1>6
  <2>2. \A x \in InState(processes', "Computable") : processes'[x] = processes[x]
    BY <1>3, <2>1 DEF InState
  <2> QED
    BY <1>2, <2>1, <2>2 DEF Hold
<1>8. InState(processes', "Current") = {current'} \ {None}
  <2>1. InState(processes', "Current") = ({current} \ {None}) \ {h}
    BY <1>6 DEF IInv, Inv
  <2> QED
    BY <1>1, <2>1, ConstantsOK
<1>9. ProcessesOK(processes', quantum')
  BY <1>1, <1>3, <1>4, <1>5 DEF IInv, Inv, ProcessesOK
<1> QED
  BY <1>1, <1>7, <1>8, <1>9 DEF IInv, Inv

\* Charging the current process keeps the invariant: its quantum is renewed
\* when it is spent (Charge).
LEMMA ChargeKeeps ==
  ASSUME IInv, NEW n \in Quantum, Charge(n)
  PROVE  IInv'
<1> DEFINE over == processes[current].quantumLeft - n <= 0
<1>1. /\ current \in InState(processes, "Current")
      /\ processes' = [processes EXCEPT ![current].quantumLeft = IF over THEN quantum ELSE @ - n]
      /\ reschedule' \in BOOLEAN
      /\ UNCHANGED <<queues, current, quantum>>
  BY ConstantsOK DEF Charge, IInv, Inv
<1>2. current \in DOMAIN processes
  BY <1>1 DEF InState
<1>3. processes[current] \in Process /\ processes[current].quantumLeft \in 1 .. quantum
  BY <1>2 DEF IInv, Inv, ProcessesOK
<1>4. n \in Nat \ {0} /\ quantum \in Nat \ {0}
  BY ConstantsOK DEF IInv, Inv
<1>5. (IF over THEN quantum ELSE processes[current].quantumLeft - n) \in 1 .. quantum
  BY <1>3, <1>4
<1> HIDE DEF over
<1>6. /\ DOMAIN processes' = DOMAIN processes
      /\ \A x \in DOMAIN processes \ {current} : processes'[x] = processes[x]
      /\ processes'[current] \in Process
      /\ processes'[current].state = processes[current].state
      /\ processes'[current].priority = processes[current].priority
      /\ processes'[current].quantumLeft \in 1 .. quantum
  BY <1>1, <1>2, <1>3, <1>5 DEF Process
<1>7. \A x \in DOMAIN processes :
        processes[x] \in Process /\ processes[x].quantumLeft \in 1 .. quantum
  BY DEF IInv, Inv, ProcessesOK
<1> QED
  BY <1>1, <1>6, <1>7, RecordsKeep DEF IInv, Inv

\* A new quantum keeps the invariant: what is left of the old one is cut to
\* it (SetQuantum).
LEMMA SetQuantumKeeps ==
  ASSUME IInv, NEW n \in Quantum, SetQuantum(n)
  PROVE  IInv'
<1>1. /\ quantum' = n /\ UNCHANGED <<queues, current, reschedule>>
      /\ DOMAIN processes' = DOMAIN processes
      /\ \A x \in DOMAIN processes :
           processes'[x] = [processes[x] EXCEPT !.quantumLeft = IF @ > n THEN n ELSE @]
  BY DEF SetQuantum
<1>2. n \in Nat \ {0} /\ quantum \in Nat \ {0}
  BY ConstantsOK DEF IInv, Inv
<1>3. ASSUME NEW x \in DOMAIN processes
      PROVE  /\ processes'[x] \in Process
             /\ processes'[x].state = processes[x].state
             /\ processes'[x].priority = processes[x].priority
             /\ processes'[x].quantumLeft \in 1 .. n
  <2>1. processes[x] \in Process /\ processes[x].quantumLeft \in 1 .. quantum
    BY DEF IInv, Inv, ProcessesOK
  <2>2. (IF processes[x].quantumLeft > n THEN n ELSE processes[x].quantumLeft) \in 1 .. n
    BY <1>2, <2>1
  <2> QED
    BY <1>1, <2>1, <2>2 DEF Process
<1> QED
  BY <1>1, <1>3, RecordsKeep DEF IInv

\* The current process's yield keeps the invariant (Yield).
LEMMA YieldKeeps ==
  ASSUME IInv, Yield
  PROVE  IInv'
<1>1. Inv(Preempted(processes, current), Requeue(processes, queues, current), None, quantum)
  BY PreemptKeeps DEF IInv
<1> QED
  BY <1>1 DEF IInv, Yield

\* The choice of the next process keeps the invariant: the one chosen leaves
\* its queue as it becomes current (Reschedule).
LEMMA RescheduleKeeps ==
  ASSUME IInv, Reschedule
  PROVE  IInv'
<1> DEFINE P == Preempted(processes, current)
           Q == Requeue(processes, queues, current)
<1>1. Inv(P, Q, None, quantum)
  BY PreemptKeeps DEF IInv
<1>2. reschedule' \in BOOLEAN /\ quantum' = quantum
  BY DEF Reschedule
<1>3. CASE processes' = P /\ queues' = Q /\ current' = None
  BY <1>1, <1>2, <1>3 DEF IInv
<1>4. ASSUME NEW p \in Priority,
             Highest(Q, p), current' = Head(Q[p]), queues' = [Q EXCEPT ![p] = Tail(@)],
             processes' = [P EXCEPT ![Head(Q[p])] =
               [@ EXCEPT !.state = "Current", !.priority = Decayed(P[Head(Q[p])])]]
      PROVE  IInv'
  <2> DEFINE h == Head(Q[p])
             rec == [P[h] EXCEPT !.state = "Current", !.priority = Decayed(P[h])]
             S == InState(P, "Computable")
  <2>0. /\ current' = h /\ queues' = [Q EXCEPT ![p] = Tail(Q[p])]
        /\ processes' = [P EXCEPT ![h] = rec]
    BY <1>4
  <2>1. /\ Q \in [Priority -> Seq(Handle)] /\ Q[p] \in Seq(Handle) /\ Q[p] # <<>>
        /\ IsInjective(Q[p]) /\ ToSet(Q[p]) = {x \in S : P[x].priority = p}
    BY <1>1, <1>4 DEF Highest, Inv, Hold
  <2>2. /\ h \in ToSet(Q[p]) /\ Tail(Q[p]) \in Seq(Handle) /\ IsInjective(Tail(Q[p]))
        /\ ToSet(Tail(Q[p])) = ToSet(Q[p]) \ {h}
    BY <2>1, TailOfQueue
  <2>3. h \in S /\ h \in DOMAIN P /\ P[h].priority = p /\ h \in Handle
    BY <1>1, <2>1, <2>2 DEF InState, Inv, ProcessesOK
  <2>4. P[h] \in Process /\ P[h].quantumLeft \in 1 .. quantum
    BY <1>1, <2>3 DEF Inv, ProcessesOK
  <2>5. Decayed(P[h]) \in Priority
    BY <2>4, ConstantsOK DEF Decayed, Process, Priority
  <2>6. rec \in Process /\ rec.state = "Current" /\ rec.quantumLeft = P[h].quantumLeft
    BY <2>4, <2>5 DEF Process, State
  <2>7. InState(P, "Current") = {} /\ quantum \in Quantum /\ ProcessesOK(P, quantum)
    BY <1>1 DEF Inv
  <2>8. Hold(P, Q, S)
    BY <1>1 DEF Inv
  <2> HIDE DEF rec, h, P, Q
  <2>9. /\ DOMAIN processes' = DOMAIN P /\ processes'[h] = rec
        /\ \A x \in DOMAIN P \ {h} : processes'[x] = P[x]
    BY <2>0, <2>3
  <2>10. InState(processes', "Computable") = S \ {h}
    BY <2>6, <2>9 DEF InState
  <2>11. InState(processes', "Current") = {h}
    BY <2>3, <2>6, <2>7, <2>9 DEF InState
  <2>12. Hold(processes', queues', S \ {h})
    <3>1. queues' \in [Priority -> Seq(Handle)]
      BY <2>0, <2>1, <2>2
    <3>2. ASSUME NEW q \in Priority
          PROVE  /\ IsInjective(queues'[q])
                 /\ ToSet(queues'[q]) = {x \in S \ {h} : processes'[x].priority = q}
      <4>1. \A x \in S \ {h} : processes'[x].priority = P[x].priority
        BY <2>9 DEF InState
      <4>2. CASE q = p
        <5>1. queues'[q] = Tail(Q[p])
          BY <4>2, <2>0, <2>1
        <5> QED
          BY <4>1, <4>2, <5>1, <2>1, <2>2
      <4>3. CASE q # p
        <5>1. queues'[q] = Q[q]
          BY <4>3, <2>0, <2>1
        <5>2. {x \in S \ {h} : processes'[x].priority = q} = {x \in S : P[x].priority = q}
          BY <4>1, <4>3, <2>3
        <5> QED
          BY <5>1, <5>2, <2>8 DEF Hold
      <4> QED
        BY <4>2, <4>3
    <3> QED
      BY <3>1, <3>2 DEF Hold
  <2>13. ProcessesOK(processes', quantum)
    BY <2>4, <2>6, <2>7, <2>9 DEF ProcessesOK
  <2> QED
    BY <1>2, <2>0, <2>3, <2>7, <2>10, <2>11, <2>12, <2>13, ConstantsOK DEF IInv, Inv
<1> QED
  BY <1>3, <1>4 DEF Reschedule

\* The console's choice keeps the invariant: the process chosen leaves its
\* queue, or nobody is current (Choose).
LEMMA ChooseKeeps ==
  ASSUME IInv, NEW h \in Handle, Choose(h)
  PROVE  IInv'
<1> DEFINE P == Preempted(processes, current)
           Q == Requeue(processes, queues, current)
           S == InState(P, "Computable")
<1>1. Inv(P, Q, None, quantum)
  BY PreemptKeeps DEF IInv
<1>2. reschedule' \in BOOLEAN /\ quantum' = quantum
  BY DEF Choose, IInv
<1>3. h \in DOMAIN P
  BY DEF Choose, Preempted
<1>4. CASE P[h].state # "Computable"
  <2>1. processes' = P /\ queues' = Q /\ current' = None
    BY <1>4 DEF Choose
  <2> QED
    BY <1>1, <1>2, <2>1 DEF IInv
<1>5. CASE P[h].state = "Computable"
  <2>1. /\ processes' = [P EXCEPT ![h].state = "Current"]
        /\ queues' = LeaveQueue(P, Q, h) /\ current' = h
    BY <1>5 DEF Choose
  <2>2. ProcessesOK(P, quantum) /\ Hold(P, Q, S) /\ quantum \in Quantum
        /\ InState(P, "Current") = {}
    BY <1>1 DEF Inv
  <2>3. P[h] \in Process /\ P[h].quantumLeft \in 1 .. quantum
    BY <1>3, <2>2 DEF ProcessesOK
  <2> HIDE DEF P, Q
  <2>4. Hold(P, queues', S \ {h})
    BY <1>3, <2>1, <2>2, LeaveQueueHolds
  <2>5. /\ DOMAIN processes' = DOMAIN P
        /\ \A x \in DOMAIN P \ {h} : processes'[x] = P[x]
        /\ processes'[h] = [P[h] EXCEPT !.state = "Current"]
    BY <1>3, <2>1
  <2>6. /\ processes'[h] \in Process /\ processes'[h].state = "Current"
        /\ processes'[h].quantumLeft = P[h].quantumLeft
    BY <2>3, <2>5 DEF Process, State
  <2>7. InState(processes', "Computable") = S \ {h}
    BY <2>5, <2>6 DEF InState
  <2>8. InState(processes', "Current") = {h}
    <3>1. \A x \in DOMAIN P : P[x].state # "Current"
      BY <2>2 DEF InState
    <3>2. \A x \in DOMAIN P \ {h} : processes'[x].state # "Current"
      BY <2>5, <3>1
    <3> HIDE DEF S
    <3> QED
      BY <1>3, <2>5, <2>6, <3>2 DEF InState
  <2>9. Hold(processes', queues', S \ {h})
    <3>1. \A x \in S \ {h} : processes'[x] = P[x]
      BY <2>5 DEF InState
    <3> QED
      BY <2>4, <3>1 DEF Hold
  <2>10. ProcessesOK(processes', quantum)
    BY <2>2, <2>3, <2>5, <2>6 DEF ProcessesOK
  <2> QED
    BY <1>2, <2>1, <2>2, <2>7, <2>8, <2>9, <2>10, ConstantsOK DEF IInv, Inv
<1> QED
  BY <1>4, <1>5

\* Every step of the scheduler keeps the invariant.
LEMMA NextKeeps == IInv /\ [Next]_vars => IInv'
<1> SUFFICES ASSUME IInv, [Next]_vars PROVE IInv'
  OBVIOUS
<1>1. ASSUME NEW h \in Handle, NEW base \in Base, NEW inc \in Boost, Add(h, base, inc)
      PROVE  IInv'
  BY <1>1, AddKeeps
<1>2. ASSUME NEW h \in Handle, RemoveProcess(h) PROVE IInv'
  BY <1>2, RemoveKeeps
<1>3. ASSUME NEW h \in Handle, Wait(h) PROVE IInv'
  BY <1>3, WaitKeeps
<1>4. ASSUME NEW h \in Handle, NEW inc \in Boost, Ready(h, inc) PROVE IInv'
  BY <1>4, ReadyKeeps
<1>5. ASSUME NEW n \in Quantum, Charge(n) PROVE IInv'
  BY <1>5, ChargeKeeps
<1>6. ASSUME RequestReschedule PROVE IInv'
  BY <1>6 DEF RequestReschedule, IInv
<1>7. ASSUME Yield PROVE IInv'
  BY <1>7, YieldKeeps
<1>8. ASSUME Reschedule PROVE IInv'
  BY <1>8, RescheduleKeeps
<1>9. ASSUME NEW n \in Quantum, SetQuantum(n) PROVE IInv'
  BY <1>9, SetQuantumKeeps
<1>10. ASSUME NEW h \in Handle, Choose(h) PROVE IInv'
  BY <1>10, ChooseKeeps
<1>11. ASSUME NEW h \in Handle, NEW base \in Base, SetBasePriority(h, base) PROVE IInv'
  BY <1>11, SetBasePriorityKeeps
<1>12. ASSUME NEW h \in Handle, NEW p \in DirectPriority, SetCurrentPriority(h, p)
       PROVE  IInv'
  BY <1>12, SetCurrentPriorityKeeps
<1>13. ASSUME UNCHANGED vars PROVE IInv'
  BY <1>13 DEF vars, IInv
<1> QED
  BY <1>1, <1>2, <1>3, <1>4, <1>5, <1>6, <1>7, <1>8, <1>9, <1>10, <1>11, <1>12, <1>13
  DEF Next, TimeSharing, Control

\* The scheduler's inductive invariant.
THEOREM SchedulerInv == Spec => []IInv
  BY InitInv, NextKeeps, PTL DEF Spec

\* Every variable keeps its type, and no process's quantum is left spent.
THEOREM SchedulerTypeCorrect == Spec => []TypeOK
<1>1. IInv => TypeOK
  BY IInvMeans
<1> QED
  BY SchedulerInv, <1>1, PTL

\* A process is computable exactly while it is in its priority's queue, and
\* current exactly while it has the CPU, whatever the processes, the events,
\* the operator and the console do, in whatever order.
THEOREM NoProcessLost == Spec => []QueuesHoldComputable
<1>1. IInv => QueuesHoldComputable
  BY IInvMeans
<1> QED
  BY SchedulerInv, <1>1, PTL

-----------------------------------------------------------------------------
\* A process made computable beside an idle CPU asks for a choice.
LEMMA MakeComputableAsks ==
  ASSUME NEW P, NEW Q, NEW h, NEW rec,
         MakeComputable(P, Q, current, h, rec), UNCHANGED current
  PROVE  NoIdleBesideWork'
  BY DEF MakeComputable, Preempts, NoIdleBesideWork

\* Every step leaves a choice asked for if the CPU idles beside a computable
\* process.
LEMMA NextAsks == IInv /\ IInv' /\ NoIdleBesideWork /\ [Next]_vars => NoIdleBesideWork'
<1> SUFFICES ASSUME IInv, IInv', NoIdleBesideWork, [Next]_vars,
                    current' = None, InState(processes', "Computable") # {}
             PROVE  reschedule'
  BY DEF NoIdleBesideWork
<1>1. ASSUME NEW h \in Handle, NEW base \in Base, NEW inc \in Boost, Add(h, base, inc)
      PROVE  reschedule'
  BY <1>1, MakeComputableAsks DEF Add, NoIdleBesideWork
<1>2. ASSUME NEW h \in Handle, RemoveProcess(h) PROVE reschedule'
  <2>1. InState(processes', "Computable") \subseteq InState(processes, "Computable")
    BY <1>2 DEF RemoveProcess, InState
  <2> QED
    BY <1>2, <2>1 DEF RemoveProcess, GiveUpCPU, NoIdleBesideWork
<1>3. ASSUME NEW h \in Handle, Wait(h) PROVE reschedule'
  <2>1. h \in DOMAIN processes /\ processes' = [processes EXCEPT ![h].state = "Waiting"]
    BY <1>3 DEF Wait
  <2>2. processes[h] \in Process
    BY <2>1 DEF IInv, Inv, ProcessesOK
  <2>3. InState(processes', "Computable") \subseteq InState(processes, "Computable")
    BY <2>1, <2>2 DEF InState, Process
  <2> QED
    BY <1>3, <2>3 DEF Wait, GiveUpCPU, NoIdleBesideWork
<1>4. ASSUME NEW h \in Handle, NEW inc \in Boost, Ready(h, inc) PROVE reschedule'
  BY <1>4, MakeComputableAsks DEF Ready, NoIdleBesideWork
<1>5. ASSUME NEW n \in Quantum, Charge(n) PROVE reschedule'
  BY <1>5 DEF Charge
<1>6. ASSUME RequestReschedule \/ Yield PROVE reschedule'
  BY <1>6 DEF RequestReschedule, Yield
<1>7. ASSUME Reschedule PROVE reschedule'
  <2> DEFINE P == Preempted(processes, current)
             Q == Requeue(processes, queues, current)
  <2>1. Inv(P, Q, None, quantum)
    BY PreemptKeeps DEF IInv
  <2>2. ASSUME \A p \in Priority : Q[p] = <<>>, processes' = P PROVE FALSE
    <3>1. PICK x \in InState(P, "Computable") : TRUE
      BY <2>2
    <3>2. P[x].priority \in Priority
      BY <2>1, <3>1 DEF Inv, ProcessesOK, Process, InState
    <3>3. x \in ToSet(Q[P[x].priority])
      BY <2>1, <3>1, <3>2 DEF Inv, Hold
    <3>4. Q[P[x].priority] \in Seq(Handle) /\ Q[P[x].priority] = <<>>
      BY <2>1, <2>2, <3>2 DEF Inv, Hold
    <3> QED
      BY <3>3, <3>4, MembersOfEmpty
  <2>3. ASSUME NEW p \in Priority, Highest(Q, p), current' = Head(Q[p]) PROVE FALSE
    <3>1. Q[p] \in Seq(Handle) /\ Q[p] # <<>>
      BY <2>1, <2>3 DEF Inv, Hold, Highest
    <3>2. Head(Q[p]) \in Handle
      BY <3>1, HeadTailProperties
    <3> QED
      BY <2>3, <3>2, ConstantsOK
  <2> QED
    BY <1>7, <2>2, <2>3 DEF Reschedule
<1>8. ASSUME NEW n \in Quantum, SetQuantum(n) PROVE reschedule'
  <2>1. ASSUME NEW x \in DOMAIN processes
        PROVE  x \in DOMAIN processes' /\ processes'[x].state = processes[x].state
    <3>1. processes[x] \in Process
      BY DEF IInv, Inv, ProcessesOK
    <3> QED
      BY <1>8, <3>1 DEF SetQuantum, Process
  <2>2. InState(processes', "Computable") \subseteq InState(processes, "Computable")
    BY <1>8, <2>1 DEF SetQuantum, InState
  <2> QED
    BY <1>8, <2>2 DEF SetQuantum, NoIdleBesideWork
<1>9. ASSUME NEW h \in Handle, Choose(h) PROVE reschedule'
  BY <1>9, ConstantsOK DEF Choose
<1>10. ASSUME NEW h \in Handle, NEW base \in Base, SetBasePriority(h, base)
       PROVE  reschedule'
  <2>1. h \in DOMAIN processes /\ processes[h] \in Process /\ current' = current
    BY <1>10 DEF SetBasePriority, IInv, Inv, ProcessesOK
  <2>2. CASE processes[h].state = "Computable"
    BY <1>10, <2>1, <2>2, MakeComputableAsks DEF SetBasePriority, NoIdleBesideWork
  <2>3. CASE processes[h].state = "Current"
    BY <2>1, <2>3 DEF IInv, Inv, InState
  <2>4. CASE processes[h].state = "Waiting"
    <3>1. reschedule' = reschedule /\ processes' = [processes EXCEPT ![h].base = base]
      BY <1>10, <2>4 DEF SetBasePriority
    <3>2. InState(processes', "Computable") \subseteq InState(processes, "Computable")
      BY <2>1, <3>1 DEF InState, Process
    <3> QED
      BY <2>1, <3>1, <3>2 DEF NoIdleBesideWork
  <2> QED
    BY <2>1, <2>2, <2>3, <2>4 DEF Process, State
<1>11. ASSUME NEW h \in Handle, NEW p \in DirectPriority, SetCurrentPriority(h, p)
       PROVE  reschedule'
  <2>1. h \in DOMAIN processes /\ processes[h] \in Process /\ current' = current
    BY <1>11 DEF SetCurrentPriority, IInv, Inv, ProcessesOK
  <2>2. CASE processes[h].state = "Computable"
    BY <1>11, <2>1, <2>2, MakeComputableAsks DEF SetCurrentPriority, NoIdleBesideWork
  <2>3. CASE processes[h].state # "Computable"
    <3>1. reschedule' = reschedule /\ processes' = [processes EXCEPT ![h].priority = p]
      BY <1>11, <2>3 DEF SetCurrentPriority
    <3>2. InState(processes', "Computable") \subseteq InState(processes, "Computable")
      BY <2>1, <3>1 DEF InState, Process
    <3> QED
      BY <2>1, <3>1, <3>2 DEF NoIdleBesideWork
  <2> QED
    BY <2>2, <2>3
<1>12. ASSUME UNCHANGED vars PROVE reschedule'
  BY <1>12 DEF vars, NoIdleBesideWork
<1> QED
  BY <1>1, <1>2, <1>3, <1>4, <1>5, <1>6, <1>7, <1>8, <1>9, <1>10, <1>11, <1>12
  DEF Next, TimeSharing, Control

\* The CPU never idles beside a computable process without a choice having
\* been asked for, so none waits for a reschedule nobody makes.
THEOREM NeverIdleBesideWork == Spec => []NoIdleBesideWork
<1>1. Init => NoIdleBesideWork
  BY DEF Init, NoIdleBesideWork, InState
<1> QED
  BY SchedulerInv, NextAsks, <1>1, PTL DEF Spec

-----------------------------------------------------------------------------
(* Priorities *)

\* What PrioritiesStayInRange says of a step.
RangesKept ==
  \A h \in DOMAIN processes' :
    (h \in DOMAIN processes => InRange(processes[h])) =>
      \/ InRange(processes'[h])
      \/ \E p \in DirectPriority : SetCurrentPriority(h, p)

\* A boost leaves a process in its range (boosted).
LEMMA BoostedInRange ==
  ASSUME NEW p \in Process, NEW base \in Priority, NEW now \in Priority, NEW inc \in Nat,
         p.base = base, p.priority = Boosted(base, now, inc)
  PROVE  InRange(p)
<1>1. base \in Nat /\ now \in Nat /\ inc \in Nat /\ MaxNormal \in Nat /\ MaxPriority \in Nat
  BY ConstantsOK DEF Priority
<1>2. CASE base > MaxNormal
  <2>1. Boosted(base, now, inc) = base
    BY <1>1, <1>2 DEF Boosted
  <2> QED
    BY <1>2, <2>1 DEF InRange, IsRealTime
<1>3. CASE ~(base > MaxNormal)
  <2>1. base <= Boosted(base, now, inc) /\ Boosted(base, now, inc) <= MaxNormal
    BY <1>1, <1>3 DEF Boosted
  <2> QED
    BY <1>3, <2>1 DEF InRange, IsRealTime
<1> QED
  BY <1>2, <1>3

\* A process at its base priority is in its range ($SETPRI).
LEMMA BaseInRange ==
  ASSUME NEW p \in Process, p.priority = p.base
  PROVE  InRange(p)
<1>1. p.base \in Nat /\ MaxNormal \in Nat
  BY ConstantsOK DEF Process, Priority
<1> QED
  BY <1>1 DEF InRange, IsRealTime

\* Decay leaves a process in its range (Reschedule).
LEMMA DecayedInRange ==
  ASSUME NEW p \in Process, NEW q, InRange(p), p.state # "Waiting",
         q.base = p.base, q.priority = Decayed(p)
  PROVE  InRange(q)
<1>1. p.base \in Nat /\ p.priority \in Nat /\ MaxNormal \in Nat
  BY ConstantsOK DEF Process, Priority
<1> QED
  BY <1>1 DEF InRange, IsRealTime, Decayed

\* A process that keeps its priorities stays in its range until it is woken.
LEMMA SameInRange ==
  ASSUME NEW p, NEW q, InRange(p), q.base = p.base, q.priority = p.priority,
         q.state # "Waiting" => p.state # "Waiting"
  PROVE  InRange(q)
  BY DEF InRange

\* The current process put back keeps its priorities and is not woken.
LEMMA PreemptedKeepsPriorities ==
  ASSUME IInv, NEW x \in DOMAIN processes
  PROVE  LET q == Preempted(processes, current)[x]
         IN /\ q \in Process
            /\ q.base = processes[x].base
            /\ q.priority = processes[x].priority
            /\ q.state # "Waiting" => processes[x].state # "Waiting"
<1>1. processes[x] \in Process
  BY DEF IInv, Inv, ProcessesOK
<1>2. x = current => processes[x].state = "Current"
  <2>1. InState(processes, "Current") = {current} \ {None} /\ DOMAIN processes \subseteq Handle
    BY DEF IInv, Inv, ProcessesOK
  <2> QED
    BY <2>1, ConstantsOK DEF InState
<1> DEFINE q == Preempted(processes, current)[x]
<1>3. \/ q = processes[x]
      \/ x = current /\ q = [processes[x] EXCEPT !.state = "Computable"]
  BY DEF Preempted
<1> HIDE DEF q
<1>4. q \in Process /\ q.base = processes[x].base /\ q.priority = processes[x].priority
  BY <1>1, <1>3 DEF Process, State
<1>5. q.state # "Waiting" => processes[x].state # "Waiting"
  BY <1>1, <1>2, <1>3 DEF Process, State
<1> QED
  BY <1>4, <1>5 DEF q

LEMMA NextKeepsRanges == IInv /\ [Next]_vars => RangesKept
<1> SUFFICES ASSUME IInv, [Next]_vars, NEW x \in DOMAIN processes',
                    x \in DOMAIN processes => InRange(processes[x]),
                    \A p \in DirectPriority : ~SetCurrentPriority(x, p)
             PROVE  InRange(processes'[x])
  BY DEF RangesKept
<1>0. \A h \in DOMAIN processes : processes[h] \in Process
  BY DEF IInv, Inv, ProcessesOK
<1>00. quantum \in Nat
  BY ConstantsOK DEF IInv, Inv
<1>1. ASSUME NEW h \in Handle, NEW base \in Base, NEW inc \in Boost, Add(h, base, inc)
      PROVE  InRange(processes'[x])
  <2> DEFINE rec == [state |-> "Computable", base |-> base, priority |-> Boosted(base, base, inc),
                     quantumLeft |-> quantum]
  <2>1. DOMAIN processes' = DOMAIN processes \cup {h} /\ h \notin DOMAIN processes
        /\ processes'[h] = [rec EXCEPT !.state = "Computable"]
        /\ \A y \in DOMAIN processes : processes'[y] = processes[y]
    BY <1>1 DEF Add, MakeComputable
  <2>2. base \in Priority /\ inc \in Nat /\ Boosted(base, base, inc) \in Priority
    BY ConstantsOK, BoostedIsPriority
  <2>3. rec \in Process /\ rec.base = base /\ rec.priority = Boosted(base, base, inc)
    BY <1>00, <2>2 DEF Process, State
  <2>4. processes'[h] \in Process /\ processes'[h].base = base
        /\ processes'[h].priority = Boosted(base, base, inc)
    <3> HIDE DEF rec
    <3> QED BY <2>1, <2>3 DEF Process, State
  <2>5. InRange(processes'[h])
    BY <2>2, <2>4, BoostedInRange
  <2> QED
    BY <2>1, <2>5
<1>2. ASSUME NEW h \in Handle, RemoveProcess(h) PROVE InRange(processes'[x])
  BY <1>2 DEF RemoveProcess
<1>3. ASSUME NEW h \in Handle, Wait(h) PROVE InRange(processes'[x])
  <2>1. x \in DOMAIN processes /\ processes' = [processes EXCEPT ![h].state = "Waiting"]
    BY <1>3 DEF Wait
  <2>2. \/ processes'[x] = processes[x]
        \/ processes'[x] = [processes[x] EXCEPT !.state = "Waiting"]
    BY <2>1
  <2>3. processes'[x] = processes[x] \/ processes'[x].state = "Waiting"
    BY <1>0, <2>1, <2>2 DEF Process
  <2> QED
    BY <2>1, <2>3 DEF InRange
<1>4. ASSUME NEW h \in Handle, NEW inc \in Boost, Ready(h, inc) PROVE InRange(processes'[x])
  <2> DEFINE p == processes[h]
             rec == [p EXCEPT !.priority = Boosted(p.base, p.priority, inc)]
  <2>1. h \in DOMAIN processes /\ p \in Process
    BY <1>0, <1>4 DEF Ready, InState
  <2>2. DOMAIN processes' = DOMAIN processes
        /\ processes'[h] = [rec EXCEPT !.state = "Computable"]
        /\ \A y \in DOMAIN processes \ {h} : processes'[y] = processes[y]
    BY <1>4, <2>1 DEF Ready, MakeComputable
  <2> HIDE DEF p
  <2>3. p.base \in Priority /\ p.priority \in Priority /\ inc \in Nat
    BY <2>1, ConstantsOK DEF Process
  <2>4. Boosted(p.base, p.priority, inc) \in Priority
    BY <2>3, BoostedIsPriority
  <2>5. rec \in Process /\ rec.base = p.base /\ rec.priority = Boosted(p.base, p.priority, inc)
    BY <2>1, <2>4 DEF Process, State
  <2> HIDE DEF rec
  <2>6. processes'[h] \in Process /\ processes'[h].base = p.base
        /\ processes'[h].priority = Boosted(p.base, p.priority, inc)
    BY <2>2, <2>5 DEF Process, State
  <2>7. InRange(processes'[h])
    BY <2>3, <2>6, BoostedInRange
  <2> QED
    BY <2>2, <2>7
<1>5. ASSUME NEW n \in Quantum, Charge(n) PROVE InRange(processes'[x])
  <2>1. PICK m : processes' = [processes EXCEPT ![current].quantumLeft = m]
    <3> DEFINE over == processes[current].quantumLeft - n <= 0
    <3>1. processes' = [processes EXCEPT ![current].quantumLeft = IF over THEN quantum ELSE @ - n]
      BY <1>5 DEF Charge
    <3>2. processes' = [processes EXCEPT ![current].quantumLeft =
                           IF over THEN quantum ELSE processes[current].quantumLeft - n]
      BY <3>1
    <3> QED BY <3>2
  <2>2. x \in DOMAIN processes
        /\ (processes'[x] = processes[x] \/ processes'[x] = [processes[x] EXCEPT !.quantumLeft = m])
    BY <2>1
  <2>3. processes'[x].base = processes[x].base /\ processes'[x].priority = processes[x].priority
        /\ processes'[x].state = processes[x].state
    BY <1>0, <2>2 DEF Process
  <2> QED
    BY <2>2, <2>3, SameInRange
<1>6. ASSUME RequestReschedule \/ UNCHANGED vars PROVE InRange(processes'[x])
  BY <1>6 DEF RequestReschedule, vars
<1>7. ASSUME Yield PROVE InRange(processes'[x])
  <2>1. processes' = Preempted(processes, current) /\ x \in DOMAIN processes
    BY <1>7 DEF Yield, Preempted
  <2> QED
    BY <2>1, PreemptedKeepsPriorities, SameInRange
<1>8. ASSUME Reschedule PROVE InRange(processes'[x])
  <2> DEFINE P == Preempted(processes, current)
             Q == Requeue(processes, queues, current)
  <2>1. DOMAIN P = DOMAIN processes
    BY DEF Preempted
  <2>2. ASSUME processes' = P PROVE InRange(processes'[x])
    BY <2>1, <2>2, PreemptedKeepsPriorities, SameInRange
  <2>3. ASSUME NEW p \in Priority, Highest(Q, p),
               processes' = [P EXCEPT ![Head(Q[p])] =
                                [@ EXCEPT !.state = "Current", !.priority = Decayed(P[Head(Q[p])])]]
        PROVE  InRange(processes'[x])
    <3> DEFINE g == Head(Q[p])
    <3>1. Inv(P, Q, None, quantum)
      BY PreemptKeeps DEF IInv
    <3>2. Q[p] \in Seq(Handle) /\ Q[p] # <<>>
      BY <2>3, <3>1 DEF Inv, Hold, Highest
    <3>3. g \in ToSet(Q[p])
      BY <3>2, TailOfQueue, MembersOfSeq, HeadTailProperties, LenProperties, EmptySeq
    <3>4. g \in InState(P, "Computable")
      BY <3>1, <3>3 DEF Inv, Hold
    <3> HIDE DEF g, Q
    <3>5. x \in DOMAIN P /\ x \in DOMAIN processes
      BY <2>1, <2>3
    <3>6. /\ P[x] \in Process /\ P[x].base = processes[x].base
          /\ P[x].priority = processes[x].priority
          /\ P[x].state # "Waiting" => processes[x].state # "Waiting"
      BY <3>5, PreemptedKeepsPriorities
    <3>7. InRange(P[x])
      BY <3>5, <3>6, SameInRange
    <3> HIDE DEF P
    <3>8. CASE x = g
      <4>1. processes'[x] = [P[x] EXCEPT !.state = "Current", !.priority = Decayed(P[x])]
        BY <2>3, <3>5, <3>8 DEF g
      <4>2. processes'[x].base = P[x].base /\ processes'[x].priority = Decayed(P[x])
        BY <3>6, <4>1 DEF Process
      <4>3. P[x].state # "Waiting"
        BY <3>4, <3>8 DEF InState
      <4> QED
        BY <3>6, <3>7, <4>2, <4>3, DecayedInRange
    <3>9. CASE x # g
      <4>1. processes'[x] = P[x]
        BY <2>3, <3>5, <3>9 DEF g
      <4> QED
        BY <3>7, <4>1
    <3> QED
      BY <3>8, <3>9
  <2> QED
    BY <1>8, <2>2, <2>3 DEF Reschedule
<1>9. ASSUME NEW n \in Quantum, SetQuantum(n) PROVE InRange(processes'[x])
  <2> DEFINE m == IF processes[x].quantumLeft > n THEN n ELSE processes[x].quantumLeft
  <2>1. x \in DOMAIN processes /\ processes'[x] = [processes[x] EXCEPT !.quantumLeft = m]
    BY <1>9 DEF SetQuantum
  <2> HIDE DEF m
  <2>2. processes'[x].base = processes[x].base /\ processes'[x].priority = processes[x].priority
        /\ processes'[x].state = processes[x].state
    BY <1>0, <2>1 DEF Process
  <2> QED
    BY <2>1, <2>2, SameInRange
<1>10. ASSUME NEW h \in Handle, Choose(h) PROVE InRange(processes'[x])
  <2> DEFINE P == Preempted(processes, current)
  <2>1. DOMAIN P = DOMAIN processes /\ h \in DOMAIN P
    BY <1>10 DEF Preempted, Choose
  <2>2. \/ processes' = P
        \/ P[h].state = "Computable" /\ processes' = [P EXCEPT ![h].state = "Current"]
    BY <1>10 DEF Choose
  <2>3. x \in DOMAIN P /\ x \in DOMAIN processes
    BY <2>1, <2>2
  <2>4. /\ P[x] \in Process /\ P[x].base = processes[x].base
        /\ P[x].priority = processes[x].priority
        /\ P[x].state # "Waiting" => processes[x].state # "Waiting"
    BY <2>3, PreemptedKeepsPriorities
  <2> HIDE DEF P
  <2>5. \/ processes'[x] = P[x]
        \/ P[x].state = "Computable" /\ processes'[x] = [P[x] EXCEPT !.state = "Current"]
    BY <2>2, <2>3
  <2>6. processes'[x].base = P[x].base /\ processes'[x].priority = P[x].priority
        /\ (processes'[x].state # "Waiting" => P[x].state # "Waiting")
    BY <2>4, <2>5 DEF Process
  <2> QED
    BY <2>3, <2>4, <2>6, SameInRange
<1>11. ASSUME NEW h \in Handle, NEW base \in Base, SetBasePriority(h, base)
       PROVE  InRange(processes'[x])
  <2>1. h \in DOMAIN processes /\ processes[h] \in Process /\ base \in Priority
    BY <1>0, <1>11, ConstantsOK DEF SetBasePriority
  <2>2. CASE processes[h].state = "Computable"
    <3> DEFINE rec == [processes[h] EXCEPT !.base = base, !.priority = base]
    <3>1. DOMAIN processes' = DOMAIN processes
          /\ processes'[h] = [rec EXCEPT !.state = "Computable"]
          /\ \A y \in DOMAIN processes \ {h} : processes'[y] = processes[y]
      BY <1>11, <2>1, <2>2 DEF SetBasePriority, MakeComputable
    <3>2. rec \in Process /\ rec.base = base /\ rec.priority = base
      BY <2>1 DEF Process
    <3> HIDE DEF rec
    <3>3. processes'[h] \in Process /\ processes'[h].base = base /\ processes'[h].priority = base
      BY <3>1, <3>2 DEF Process, State
    <3> QED
      BY <3>1, <3>3, BaseInRange
  <2>3. CASE processes[h].state = "Current"
    <3>1. processes' = [processes EXCEPT ![h].base = base, ![h].priority = base]
      BY <1>11, <2>3 DEF SetBasePriority
    <3>2. processes'[h] = [processes[h] EXCEPT !.base = base, !.priority = base]
          /\ DOMAIN processes' = DOMAIN processes
          /\ \A y \in DOMAIN processes \ {h} : processes'[y] = processes[y]
      BY <2>1, <3>1
    <3>3. processes'[h] \in Process /\ processes'[h].base = base /\ processes'[h].priority = base
      BY <2>1, <3>2 DEF Process
    <3> QED
      BY <3>2, <3>3, BaseInRange
  <2>4. CASE processes[h].state = "Waiting"
    <3>1. processes' = [processes EXCEPT ![h].base = base]
      BY <1>11, <2>4 DEF SetBasePriority
    <3>2. processes'[h] = [processes[h] EXCEPT !.base = base]
          /\ DOMAIN processes' = DOMAIN processes
          /\ \A y \in DOMAIN processes \ {h} : processes'[y] = processes[y]
      BY <2>1, <3>1
    <3>3. processes'[h].state = "Waiting"
      BY <2>1, <2>4, <3>2 DEF Process
    <3> QED
      BY <3>2, <3>3 DEF InRange
  <2> QED
    BY <2>1, <2>2, <2>3, <2>4 DEF Process, State
<1>12. ASSUME NEW h \in Handle, NEW p \in DirectPriority, SetCurrentPriority(h, p)
       PROVE  InRange(processes'[x])
  <2>1. x # h
    BY <1>12
  <2>2. x \in DOMAIN processes /\ processes'[x] = processes[x]
    BY <1>12, <2>1 DEF SetCurrentPriority, MakeComputable
  <2> QED
    BY <2>2
<1> QED
  BY <1>1, <1>2, <1>3, <1>4, <1>5, <1>6, <1>7, <1>8, <1>9, <1>10, <1>11, <1>12
  DEF Next, TimeSharing, Control

\* Nothing but SetCurrentPriority takes a process's priority out of its range.
THEOREM PrioritiesAlwaysInRange == Spec => PrioritiesStayInRange
<1>1. IInv /\ [Next]_vars => [RangesKept]_vars
  BY NextKeepsRanges
<1> QED
  BY SchedulerInv, <1>1, PTL DEF Spec, PrioritiesStayInRange, RangesKept

-----------------------------------------------------------------------------
(* Ranks *)

\* What NoSilentOutranking says of a step.
OutrankingAsks ==
  current' = current =>
    \A h \in DOMAIN processes' :
      Outranks(h)' /\ ~(h \in DOMAIN processes /\ Outranks(h)) =>
        reschedule' \/ \E p \in DirectPriority : SetCurrentPriority(current, p)

\* The current process is known, is in the current state and is alone in it.
LEMMA CurrentIs ==
  ASSUME IInv, current # None
  PROVE  /\ current \in DOMAIN processes
         /\ processes[current].state = "Current"
         /\ \A h \in DOMAIN processes : processes[h].state = "Current" => h = current
  BY DEF IInv, Inv, InState

\* Whoever is made computable beside a current process that it outranks
\* asks for a choice (makeComputable).
LEMMA NewcomerAsks ==
  ASSUME IInv, NEW Q, NEW h \in Handle, NEW rec \in Process,
         h # current, current' = current,
         MakeComputable(processes, Q, current, h, rec),
         NEW x \in DOMAIN processes', Outranks(x)', ~reschedule'
  PROVE  x \in DOMAIN processes /\ Outranks(x)
<1>1. current # None /\ current \in DOMAIN processes
  BY CurrentIs DEF Outranks
<1>2. /\ DOMAIN processes' = DOMAIN processes \cup {h}
      /\ \A y \in DOMAIN processes \ {h} : processes'[y] = processes[y]
      /\ processes'[h] = [rec EXCEPT !.state = "Computable"]
      /\ ~(rec.priority >= processes[current].priority)
  BY <1>1 DEF MakeComputable, Preempts
<1>3. processes'[current] = processes[current]
  BY <1>1, <1>2
<1>4. processes'[h].priority = rec.priority
  BY <1>2 DEF Process
<1>5. rec.priority \in Int /\ processes[current].priority \in Int
  BY <1>1, ConstantsOK DEF IInv, Inv, ProcessesOK, Process, Priority
<1>6. x # h
  <2>1. processes'[x].priority > processes[current].priority
    BY <1>3 DEF Outranks
  <2>2. ~(rec.priority > processes[current].priority)
    BY <1>2, <1>5
  <2> QED
    BY <1>4, <2>1, <2>2
<1> QED
  BY <1>1, <1>2, <1>3, <1>6 DEF Outranks

\* A step that changes neither states nor priorities changes no rank.
LEMMA SameRanks ==
  ASSUME IInv, current' = current, NEW x \in DOMAIN processes',
         DOMAIN processes' \subseteq DOMAIN processes,
         current # None => current \in DOMAIN processes',
         \A y \in DOMAIN processes' :
           /\ processes'[y].priority = processes[y].priority
           /\ processes'[y].state = "Computable" => processes[y].state = "Computable",
         Outranks(x)'
  PROVE  x \in DOMAIN processes /\ Outranks(x)
  BY DEF Outranks

\* Every step asks for a choice if somebody starts to outrank the process
\* that stays current, but for SetCurrentPriority of that process.
LEMMA NextAsksOutranked == IInv /\ IInv' /\ [Next]_vars => OutrankingAsks
<1> SUFFICES ASSUME IInv, IInv', [Next]_vars, current' = current, NEW x \in DOMAIN processes',
                    Outranks(x)', ~(x \in DOMAIN processes /\ Outranks(x)), ~reschedule',
                    \A p \in DirectPriority : ~SetCurrentPriority(current, p)
             PROVE  FALSE
  BY DEF OutrankingAsks
<1>1. \A h \in DOMAIN processes : processes[h] \in Process
  BY DEF IInv, Inv, ProcessesOK
<1>2. current # None /\ current \in Handle
  BY DEF Outranks, IInv, Inv
<1>3. /\ current \in DOMAIN processes
      /\ processes[current].state = "Current"
      /\ \A h \in DOMAIN processes : processes[h].state = "Current" => h = current
  BY <1>2, CurrentIs
<1>4. current \in DOMAIN processes'
  BY <1>2 DEF IInv, Inv, InState
<1>5. quantum \in Nat
  BY ConstantsOK DEF IInv, Inv
<1>6. ASSUME NEW h \in Handle, NEW base \in Base, NEW inc \in Boost, Add(h, base, inc)
      PROVE  FALSE
  <2> DEFINE rec == [state |-> "Computable", base |-> base, priority |-> Boosted(base, base, inc),
                     quantumLeft |-> quantum]
  <2>1. rec \in Process
    BY <1>5, ConstantsOK, BoostedIsPriority DEF Process, State
  <2>2. MakeComputable(processes, queues, current, h, rec) /\ h # current
    BY <1>6, <1>3 DEF Add
  <2> HIDE DEF rec
  <2> QED
    BY <2>1, <2>2, NewcomerAsks
<1>7. ASSUME NEW h \in Handle, RemoveProcess(h) PROVE FALSE
  <2>1. /\ DOMAIN processes' \subseteq DOMAIN processes
        /\ \A y \in DOMAIN processes' : processes'[y] = processes[y]
    BY <1>7 DEF RemoveProcess
  <2> QED
    BY <1>4, <2>1, SameRanks
<1>8. ASSUME NEW h \in Handle, Wait(h) PROVE FALSE
  <2>1. processes' = [processes EXCEPT ![h].state = "Waiting"]
    BY <1>8 DEF Wait
  <2>2. ASSUME NEW y \in DOMAIN processes'
        PROVE  /\ processes'[y].priority = processes[y].priority
               /\ processes'[y].state = "Computable" => processes[y].state = "Computable"
    <3>1. \/ processes'[y] = processes[y]
          \/ processes'[y] = [processes[y] EXCEPT !.state = "Waiting"]
      BY <2>1
    <3> QED
      BY <1>1, <2>1, <3>1 DEF Process
  <2> QED
    BY <1>4, <2>1, <2>2, SameRanks
<1>9. ASSUME NEW h \in Handle, NEW inc \in Boost, Ready(h, inc) PROVE FALSE
  <2> DEFINE p == processes[h]
             rec == [p EXCEPT !.priority = Boosted(p.base, p.priority, inc)]
  <2>1. h \in DOMAIN processes /\ p.state = "Waiting" /\ p \in Process
    BY <1>9, <1>1 DEF Ready, InState
  <2>2. MakeComputable(processes, queues, current, h, rec) /\ h # current
    BY <1>9, <1>3, <2>1 DEF Ready
  <2> HIDE DEF p
  <2>3. p.base \in Priority /\ p.priority \in Priority /\ inc \in Nat
    BY <2>1, ConstantsOK DEF Process
  <2>4. Boosted(p.base, p.priority, inc) \in Priority
    BY <2>3, BoostedIsPriority
  <2>5. rec \in Process
    BY <2>1, <2>4 DEF Process
  <2> HIDE DEF rec
  <2> QED
    BY <2>2, <2>5, NewcomerAsks
<1>10. ASSUME NEW n \in Quantum, Charge(n) PROVE FALSE
  <2> DEFINE m == IF processes[current].quantumLeft - n <= 0 THEN quantum
                  ELSE processes[current].quantumLeft - n
  <2>1. processes' = [processes EXCEPT ![current].quantumLeft = m]
    BY <1>10 DEF Charge
  <2> HIDE DEF m
  <2>2. ASSUME NEW y \in DOMAIN processes'
        PROVE  /\ processes'[y].priority = processes[y].priority
               /\ processes'[y].state = processes[y].state
    <3>1. \/ processes'[y] = processes[y]
          \/ processes'[y] = [processes[y] EXCEPT !.quantumLeft = m]
      BY <2>1
    <3> QED
      BY <1>1, <2>1, <3>1 DEF Process
  <2> QED
    BY <1>4, <2>1, <2>2, SameRanks
<1>11. ASSUME RequestReschedule \/ Yield PROVE FALSE
  BY <1>11 DEF RequestReschedule, Yield
<1>12. ASSUME Reschedule PROVE FALSE
  <2> DEFINE P == Preempted(processes, current)
             Q == Requeue(processes, queues, current)
  <2>1. Inv(P, Q, None, quantum)
    BY PreemptKeeps DEF IInv
  <2>2. PICK p \in Priority :
          /\ Highest(Q, p)
          /\ current = Head(Q[p])
          /\ processes' = [P EXCEPT ![Head(Q[p])] =
                             [@ EXCEPT !.state = "Current", !.priority = Decayed(P[Head(Q[p])])]]
    BY <1>12, <1>2 DEF Reschedule
  <2>3. DOMAIN P = DOMAIN processes /\ P[current] = [processes[current] EXCEPT !.state = "Computable"]
    BY <1>2, <1>3 DEF Preempted
  <2>4. Q[p] = Append(queues[p], current) \/ Q[p] = queues[p]
    <3>1. processes[current].priority \in Priority
      BY <1>1, <1>3 DEF Process
    <3> QED
      BY <1>2, <3>1 DEF Requeue, IInv, Inv, Hold
  <2>5. /\ queues[p] \in Seq(Handle) /\ Q[p] \in Seq(Handle) /\ Q[p] # <<>>
        /\ ToSet(queues[p]) = {h \in InState(processes, "Computable") : processes[h].priority = p}
    BY <2>1, <2>2 DEF Inv, Hold, Highest, IInv
  <2>6. queues[p] = <<>>
    <3>1. ASSUME queues[p] # <<>> PROVE FALSE
      <4>1. Head(Q[p]) = queues[p][1] /\ 1 \in 1 .. Len(queues[p])
        <5>1. Len(queues[p]) \in Nat /\ Len(queues[p]) # 0
          BY <2>5, <3>1, LenProperties, EmptySeq
        <5>2. Append(queues[p], current)[1] = queues[p][1]
          BY <1>2, <2>5, <5>1, AppendProperties
        <5> QED
          BY <2>4, <2>5, <5>1, <5>2 
      <4>2. current \in ToSet(queues[p])
        BY SMTT(30), <2>2, <2>5, <4>1, MembersOfSeq
      <4> QED
        BY <1>3, <2>5, <4>2 DEF InState
    <3> QED
      BY <3>1
  <2>7. processes[current].priority = p
    <3>1. current \in ToSet(Q[p])
      BY <2>2, <2>5, MembersOfSeq, HeadTailProperties, LenProperties, EmptySeq
    <3>2. P[current].priority = p
      BY <2>1, <3>1 DEF Inv, Hold
    <3> QED
      BY <1>1, <1>3, <2>3, <3>2 DEF Process
  <2>8. x \in DOMAIN P /\ P[x] \in Process /\ P[current] \in Process /\ current \in DOMAIN P
    BY <1>3, <2>1, <2>2, <2>3 DEF Inv, ProcessesOK
  <2>9. processes'[current].state = "Current" /\ processes'[current].priority = Decayed(P[current])
    <3>1. processes'[current] = [P[current] EXCEPT !.state = "Current", !.priority = Decayed(P[current])]
      BY <2>2, <2>8
    <3> HIDE DEF P
    <3> QED
      BY <2>8, <3>1 DEF Process
  <2>10. x # current /\ processes'[x] = P[x]
    BY <2>2, <2>8, <2>9 DEF Outranks
  <2>11. P[x] = processes[x]
    BY <2>10, <2>8 DEF Preempted
  <2>12. P[x].state = "Computable" /\ P[x].priority \in Priority
         /\ P[x].priority > Decayed(P[current])
    BY <2>8, <2>9, <2>10 DEF Outranks, Process
  <2>13. x \in ToSet(Q[P[x].priority])
    BY <2>1, <2>8, <2>12 DEF Inv, Hold, InState
  <2>14. Q[P[x].priority] # <<>>
    BY <2>1, <2>12, <2>13, MembersOfEmpty DEF Inv, Hold
  <2>15. P[x].priority <= p
    BY <2>2, <2>12, <2>14 DEF Highest
  <2>16. P[current].priority = p
    BY <1>1, <1>3, <2>3, <2>7 DEF Process
  <2>17. P[x].priority = p
    <3>1. p \in Int /\ P[x].priority \in Int /\ Decayed(P[current]) >= p - 1
      BY <2>12, <2>16, ConstantsOK DEF Priority, Decayed
    <3>2. Decayed(P[current]) \in Int
      BY <2>16, <3>1 DEF Decayed
    <3> HIDE DEF P
    <3> QED
      BY <2>12, <2>15, <3>1, <3>2
  <2>18. x \in ToSet(queues[p])
    BY <2>5, <2>11, <2>12, <2>17, <2>8, <2>3 DEF InState
  <2> QED
    BY <2>5, <2>6, <2>18, MembersOfEmpty
<1>13. ASSUME NEW n \in Quantum, SetQuantum(n) PROVE FALSE
  <2>1. ASSUME NEW y \in DOMAIN processes'
        PROVE  /\ processes'[y].priority = processes[y].priority
               /\ processes'[y].state = processes[y].state
    <3> DEFINE m == IF processes[y].quantumLeft > n THEN n ELSE processes[y].quantumLeft
    <3>1. y \in DOMAIN processes /\ processes'[y] = [processes[y] EXCEPT !.quantumLeft = m]
      BY <1>13 DEF SetQuantum
    <3> HIDE DEF m
    <3> QED
      BY <1>1, <3>1 DEF Process
  <2>2. DOMAIN processes' = DOMAIN processes
    BY <1>13 DEF SetQuantum
  <2> QED
    BY <1>4, <2>1, <2>2, SameRanks
<1>14. ASSUME NEW h \in Handle, Choose(h) PROVE FALSE
  BY <1>14, <1>2 DEF Choose
<1>15. ASSUME NEW h \in Handle, NEW base \in Base, SetBasePriority(h, base)
       PROVE  FALSE
  <2>1. h \in DOMAIN processes /\ processes[h] \in Process /\ base \in Priority
    BY <1>15, <1>1, ConstantsOK DEF SetBasePriority
  <2>2. CASE processes[h].state = "Computable"
    <3> DEFINE rec == [processes[h] EXCEPT !.base = base, !.priority = base]
    <3>1. rec \in Process /\ h # current
      BY <1>3, <2>1, <2>2 DEF Process
    <3>2. MakeComputable(processes, LeaveQueue(processes, queues, h), current, h, rec)
      BY <1>15, <2>2 DEF SetBasePriority
    <3> HIDE DEF rec
    <3> QED
      BY <3>1, <3>2, NewcomerAsks
  <2>3. CASE processes[h].state = "Current"
    <3>1. h = current /\ processes' = [processes EXCEPT ![h].base = base, ![h].priority = base]
          /\ ~Outranked(base)
      BY <1>15, <1>3, <2>1, <2>3 DEF SetBasePriority
    <3>2. processes'[h] = [processes[h] EXCEPT !.base = base, !.priority = base]
      BY <2>1, <3>1
    <3>3. processes'[h].priority = base /\ processes'[h].state = "Current"
      BY <2>1, <2>3, <3>2 DEF Process
    <3>4. x # h /\ x \in DOMAIN processes /\ processes'[x] = processes[x]
      BY <3>1, <3>3 DEF Outranks
    <3>5. processes[x].state = "Computable" /\ processes[x].priority > base
          /\ processes[x].priority \in Priority
      BY <1>1, <3>1, <3>3, <3>4 DEF Outranks, Process
    <3>6. x \in ToSet(queues[processes[x].priority])
      BY <3>4, <3>5 DEF IInv, Inv, Hold, InState
    <3>7. queues[processes[x].priority] # <<>>
      BY <3>5, <3>6, MembersOfEmpty DEF IInv, Inv, Hold
    <3> QED
      BY <3>1, <3>5, <3>7 DEF Outranked
  <2>4. CASE processes[h].state = "Waiting"
    <3>1. processes' = [processes EXCEPT ![h].base = base]
      BY <1>15, <2>4 DEF SetBasePriority
    <3>2. ASSUME NEW y \in DOMAIN processes'
          PROVE  /\ processes'[y].priority = processes[y].priority
                 /\ processes'[y].state = processes[y].state
      <4>1. \/ processes'[y] = processes[y]
            \/ processes'[y] = [processes[y] EXCEPT !.base = base]
        BY <3>1
      <4> QED
        BY <1>1, <3>1, <4>1 DEF Process
    <3> QED
      BY <1>4, <3>1, <3>2, SameRanks
  <2> QED
    BY <2>1, <2>2, <2>3, <2>4 DEF Process, State
<1>16. ASSUME NEW h \in Handle, NEW p \in DirectPriority, SetCurrentPriority(h, p)
       PROVE  FALSE
  <2>1. h # current /\ h \in DOMAIN processes /\ processes[h] \in Process
    BY <1>16, <1>1 DEF SetCurrentPriority
  <2>2. CASE processes[h].state = "Computable"
    <3> DEFINE rec == [processes[h] EXCEPT !.priority = p]
    <3>1. rec \in Process
      BY <2>1, ConstantsOK DEF Process
    <3>2. MakeComputable(processes, LeaveQueue(processes, queues, h), current, h, rec)
      BY <1>16, <2>2 DEF SetCurrentPriority
    <3> HIDE DEF rec
    <3> QED
      BY <2>1, <3>1, <3>2, NewcomerAsks
  <2>3. CASE processes[h].state # "Computable"
    <3>1. processes' = [processes EXCEPT ![h].priority = p]
      BY <1>16, <2>3 DEF SetCurrentPriority
    <3>2. /\ \A y \in DOMAIN processes \ {h} : processes'[y] = processes[y]
          /\ DOMAIN processes' = DOMAIN processes
          /\ processes'[h] = [processes[h] EXCEPT !.priority = p]
      BY <2>1, <3>1
    <3>3. processes'[h].state # "Computable"
      BY <2>1, <2>3, <3>2 DEF Process
    <3>4. x # h
      BY <3>3 DEF Outranks
    <3> QED
      BY <1>3, <2>1, <3>2, <3>4 DEF Outranks
  <2> QED
    BY <2>2, <2>3
<1>17. ASSUME UNCHANGED vars PROVE FALSE
  BY <1>17 DEF vars, Outranks
<1> QED
  BY <1>6, <1>7, <1>8, <1>9, <1>10, <1>11, <1>12, <1>13, <1>14, <1>15, <1>16, <1>17
  DEF Next, TimeSharing, Control

\* Nobody starts to outrank the process that stays current without a
\* reschedule being asked for.
THEOREM NobodyOutranksSilently == Spec => NoSilentOutranking
<1>1. IInv /\ IInv' /\ [Next]_vars => [OutrankingAsks]_vars
  BY NextAsksOutranked
<1> QED
  BY SchedulerInv, <1>1, PTL DEF Spec, NoSilentOutranking, OutrankingAsks
=============================================================================
