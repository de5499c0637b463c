------------------------------ MODULE Processes ------------------------------
(***************************************************************************)
(* The processes of one machine: the services their programs call, and the *)
(* scheduling hook that takes the CPU from one to another, with waits and  *)
(* the events that end them (ProcessEvents).                               *)
(*                                                                         *)
(* Which computable process the scheduler prefers is Scheduler.tla's: here *)
(* any may be chosen, and a choice be due at any time.  A process in a     *)
(* service that waits calls it again each time it is chosen.  A call that  *)
(* fails and changes nothing is a stuttering step.                         *)
(***************************************************************************)
EXTENDS ProcessEvents

CONSTANTS
  Console,     \* process 1
  Systems,     \* which processes there are, the services each calls, the requests made of
               \* those that take more than a process, the modes preempted in, and the quantum
  Efns,        \* the event flags used, each with its cluster and its bit in it
  Delays,      \* how long timers are set for
  Repeats,     \* how often wakeups repeat; 0 once
  MaxTimers,   \* how many timers a process has at once
  MaxASTs      \* how many ASTs of a mode a process is owed at once

\* The calls that take more than a process.
Call == [svc : {"WAITFR"}, cluster : {Local} \cup Clusters, mask : SUBSET Nat, all : BOOLEAN]
        \cup [svc : {"ASCEFC"}, cluster : Clusters, name : Names, permanent : BOOLEAN]
        \cup {c \in [svc : {"QIO", "QIOW"}, op : {"read", "write"}, data : DOMAIN Size \cup {None},
                    now : BOOLEAN, rwait : BOOLEAN, ast : BOOLEAN, efn : Flag] :
                c.op = "write" => c.data \in DOMAIN Size}

\* A process is there while its owner is, and nobody owns process 1.
ASSUME ProcessesAssumption ==
  /\ Console \in Processes /\ Owner[Console] \notin Processes
  /\ Efns \subseteq Flag /\ Delays \subseteq Nat \ {0} /\ Repeats \subseteq Nat
  /\ \A y \in Systems :
       /\ y.present \subseteq Processes /\ Console \in y.present
       /\ \A p \in y.present : Owner[p] \in Processes => Owner[p] \in y.present
       /\ y.quantum \in Nat \ {0} /\ y.requests \in [Processes -> SUBSET Call]

VARIABLES
  os,      \* the processes and what they share
  cpu,     \* the process it holds, whether that runs, whether a choice is being
           \* made, and the time left until the scheduling hook is called
  system   \* which of Systems this is

vars == <<os, cpu, system>>

Init ==
  /\ system \in Systems
  /\ os = StateOf(system.present)
  /\ \E p \in system.present :
       cpu = [current |-> p, running |-> FALSE, choosing |-> FALSE, budget |-> 0]

Computes(s, p) == s.proc[p].state = "computable"

\* A step of the current process leaves s: the hook is called before the next
\* if it asks for that, as it does when it has begun to wait or is gone.
Step(s, asks) ==
  /\ os' = Collected(s)
  /\ cpu' = [cpu EXCEPT !.running = Computes(os', cpu.current),
                         !.budget = IF asks \/ ~Computes(os', cpu.current) THEN 0 ELSE @]
  /\ UNCHANGED system

-----------------------------------------------------------------------------
(* The scheduling hook and the idle loop.                                     *)

\* Mutant: the quantum's rest, whatever the timers.
QuantumsRest(s) == 1 .. system.quantum

\* The time until the next call: the quantum's rest, but the next timer's at most.
Budgets(s) == {n \in 1 .. system.quantum : \A t \in TimesLeft(s) : n <= t}

Computable(s) == {p \in Processes : Computes(s, p)}

\* An instruction boundary where the hook is called: a choice is made if nobody
\* runs, and may be if who runs is in a mode that may be preempted.
Schedule ==
  /\ ~cpu.choosing /\ cpu.budget = 0
  /\ os' = PollEvents(os)
  /\ \/ /\ cpu.running => Last(os.proc[cpu.current].calls).mode \in system.preempted
        /\ cpu' = [cpu EXCEPT !.choosing = TRUE, !.running = FALSE]
     \/ /\ cpu.running
        /\ \E n \in Budgets(os') : cpu' = [cpu EXCEPT !.budget = n]
  /\ UNCHANGED system

\* The CPU goes to process p; the last one's memory, if that was deleted, is freed.
SwitchTo(s, p) ==
  IF s.proc[cpu.current].state = "gone" /\ p # cpu.current
  THEN [s EXCEPT !.memory = @ \ {cpu.current}] ELSE s

\* The scheduler's choice: a process marked for deletion is deleted, or waits for
\* its subprocesses, and another choice is made.
Choose(p) ==
  /\ cpu.choosing /\ p \in Computable(os)
  /\ \/ /\ ~os.proc[p].marked
        /\ os' = SwitchTo(os, p)
        /\ \E n \in Budgets(os') :
             cpu' = [current |-> p, running |-> TRUE, choosing |-> FALSE, budget |-> n]
     \/ /\ os.proc[p].marked
        /\ os' = Collected(WakeWaiters(DeleteProcess(SwitchTo(os, p), p, p)))
        /\ cpu' = [cpu EXCEPT !.current = p]
  /\ UNCHANGED system

Idle == cpu.choosing /\ Computable(os) = {}

\* Nobody is computable: time moves on to the next timer.
IdleUntilTimer ==
  /\ Idle /\ TimesLeft(os) # {}
  /\ \E n \in TimesLeft(os) :
       (\A t \in TimesLeft(os) : n <= t) /\ os' = PollEvents(Later(os, n))
  /\ UNCHANGED <<cpu, system>>

\* No timer brings anybody, or too many did not: every waiter tries again.
IdleRetry ==
  /\ Idle /\ os' = RetryWaiters(os) /\ os' # os
  /\ UNCHANGED <<cpu, system>>

\* The rest of the quantum's instructions run, with no tick of the clock.
QuantumEnds ==
  /\ cpu.budget > 0
  /\ cpu' = [cpu EXCEPT !.budget = 0]
  /\ UNCHANGED <<os, system>>

-----------------------------------------------------------------------------
(* The running process.                                                       *)

AtInstruction == cpu.running /\ cpu.budget > 0

\* Time passes only while instructions run, which first expire their own timers.
Tick ==
  /\ AtInstruction /\ Due(os.proc[cpu.current]) = {}
  /\ os' = Later(os, 1)
  /\ cpu' = [cpu EXCEPT !.budget = @ - 1]
  /\ UNCHANGED system

\* p's most privileged AST that it can take, if any, is called.
CallASTIn(s, p, m) ==
  [s EXCEPT !.proc[p].asts[m] = @ - 1, !.proc[p].active = @ \cup {m},
            !.proc[p].calls = Append(@, [mode |-> m, ast |-> TRUE, doing |-> None])]

CallAST(s, p) ==
  IF DeliverableModes(s.proc[p]) = {} THEN s ELSE CallASTIn(s, p, Min(DeliverableModes(s.proc[p])))

\* Before an instruction the process's due timers expire, and an AST it can take
\* is called.
NextAST(p) ==
  /\ AtInstruction /\ p = cpu.current
  /\ Due(os.proc[p]) # {} \/ DeliverableModes(os.proc[p]) # {}
  /\ Step(CallAST(ExpireTimers(os, p), p), FALSE)

\* An instruction of p.
Executes(p) ==
  /\ AtInstruction /\ p = cpu.current
  /\ Due(os.proc[p]) = {} /\ DeliverableModes(os.proc[p]) = {}

\* p calls a service, or calls again the one it waited in.
Calls(p, service) == Executes(p) /\ service \in system.services[p] /\ Doing(os, p) = None
Retries(p, call) == Executes(p) /\ Doing(os, p) = call
Attempts(p, call) == Calls(p, call.svc) \/ Retries(p, call)

In(s, p, call) ==
  LET calls == s.proc[p].calls
  IN  [s EXCEPT !.proc[p].calls = [calls EXCEPT ![Len(calls)].doing = call]]

Return(s, p) == Step(In(s, p, None), FALSE)
WaitIn(s, p, call, w) == Step(EnterWait(In(s, p, call), p, w), TRUE)

\* The processes a service may name.
Targets == Present(os)

Hiber(p) ==
  /\ Attempts(p, [svc |-> "HIBER"])
  /\ IF os.proc[p].wakePending
     THEN Return([os EXCEPT !.proc[p].wakePending = FALSE], p)
     ELSE WaitIn(os, p, [svc |-> "HIBER"], [kind |-> "wake"])

Wake(p, q) == Calls(p, "WAKE") /\ Step([os EXCEPT !.proc[q].wakePending = TRUE], q # p)

AddTimer(s, p, t) == [s EXCEPT !.proc[p].timers = Append(@, t)]

Schdwk(p, q, delay, repeat) ==
  /\ Calls(p, "SCHDWK") /\ Len(os.proc[q].timers) < MaxTimers
  /\ Step(AddTimer(os, q, [wake |-> TRUE, left |-> delay, repeat |-> repeat, own |-> p = q]), FALSE)

Canwak(p, q) ==
  /\ Calls(p, "CANWAK")
  /\ Step([os EXCEPT !.proc[q].timers = Those(@, {t \in ToSet(@) : ~t.wake})], FALSE)

Mode(p) == Last(os.proc[p].calls).mode

\* A request of p's may ask for an AST in its own mode.
MayAsk(p, ast) == ast => os.proc[p].asts[Mode(p)] < MaxASTs

Setimr(p, f, delay, ast) ==
  /\ Calls(p, "SETIMR") /\ CanReach(os, p, f.cluster)
  /\ Len(os.proc[p].timers) < MaxTimers /\ MayAsk(p, ast)
  /\ Step(AddTimer(ClearFlag(os, p, f), p,
            [wake |-> FALSE, left |-> delay, repeat |-> 0, own |-> TRUE, efn |-> f, ast |-> ast,
             mode |-> Mode(p)]), FALSE)

Cantim(p) ==
  /\ Calls(p, "CANTIM")
  /\ Step([os EXCEPT !.proc[p].timers =
            Those(@, {t \in ToSet(@) : t.wake \/ t.mode < Mode(p)})], FALSE)

FlagsOf(p) == {f \in Efns : CanReach(os, p, f.cluster)}

Setef(p, f) == Calls(p, "SETEF") /\ Step(PostFlag(os, p, f), FALSE)
Clref(p, f) == Calls(p, "CLREF") /\ Step(ClearFlag(os, p, f), FALSE)

\* $WAITFR, $WFLAND and $WFLOR; a cluster given up meanwhile fails the call.
Waitfr(p, call) ==
  /\ call.svc = "WAITFR" /\ Attempts(p, call)
  /\ IF CanReach(os, p, call.cluster) => FlagsMet(Flags(os, p, call.cluster), call)
     THEN Return(os, p)
     ELSE WaitIn(os, p, call,
            [kind |-> "flags", cluster |-> call.cluster, mask |-> call.mask, all |-> call.all])

Ascefc(p, call) ==
  /\ call.svc = "ASCEFC" /\ Calls(p, call.svc)
  /\ os.clusters[call.name] = None \/ os.proc[p].common[call.cluster] # call.name
  /\ LET made == [flags |-> {}, refs |-> 0, permanent |-> call.permanent, marked |-> FALSE]
         s == IF os.clusters[call.name] = None THEN [os EXCEPT !.clusters[call.name] = made] ELSE os
     IN  Step([Disassociate(s, p, {call.cluster}) EXCEPT !.clusters[call.name].refs = @ + 1,
                                                       !.proc[p].common[call.cluster] = call.name], FALSE)

Dacefc(p, cluster) == Calls(p, "DACEFC") /\ Step(Disassociate(os, p, {cluster}), FALSE)

Dlcefc(p, name) ==
  /\ Calls(p, "DLCEFC") /\ os.clusters[name] # None
  /\ Step([os EXCEPT !.clusters[name] = DeleteIfUnused([os.clusters[name] EXCEPT !.marked = TRUE])], FALSE)

Dclast(p, mode) ==
  /\ Calls(p, "DCLAST") /\ mode >= Mode(p) /\ os.proc[p].asts[mode] < MaxASTs
  /\ Step(QueueAST(os, {p}, mode), FALSE)

Setast(p, on) ==
  /\ Calls(p, "SETAST")
  /\ LET m == Mode(p)
     IN  Step([os EXCEPT !.proc[p].enabled = IF on THEN @ \cup {m} ELSE @ \ {m}], FALSE)

\* The end of an AST routine: what it interrupted goes on.
Clrast(p) ==
  /\ Executes(p) /\ Doing(os, p) = None
  /\ LET frame == Last(os.proc[p].calls)
     IN  /\ frame.ast /\ frame.mode \in os.proc[p].active
         /\ Step([os EXCEPT !.proc[p].active = @ \ {frame.mode},
                            !.proc[p].calls = Front(@)], FALSE)

\* $CMKRNL calls a routine in kernel mode, and is called again as it returns.
Cmkrnl(p) ==
  /\ Calls(p, "CMKRNL") /\ Mode(p) = User
  /\ Step([os EXCEPT !.proc[p].calls =
             Append(@, [mode |-> Kernel, ast |-> FALSE, doing |-> None])], FALSE)

CmkrnlReturns(p) ==
  /\ Executes(p) /\ Doing(os, p) = None
  /\ Len(os.proc[p].calls) > 1 /\ ~Last(os.proc[p].calls).ast
  /\ Step([os EXCEPT !.proc[p].calls = Front(@)], FALSE)

Suspnd(p, q) == Calls(p, "SUSPND") /\ Step(Suspend(os, q), FALSE)
ResumeProcess(p, q) == Calls(p, "RESUME") /\ Step(Resume(os, q), os.proc[q].suspended)

\* $DELPRC: of the caller, the end of its image and of the process; of another, a
\* mark.  Process 1 only ends its image, which is not modelled.
Delprc(p, q) ==
  /\ Calls(p, "DELPRC") /\ q # Console
  /\ IF q = p THEN Step(DeleteProcess(os, p, p), TRUE)
     ELSE Step(MarkForDeletion(os, {q}), ~os.proc[q].marked)

\* The console's STOP, between two instructions: a process is deleted where it is, its
\* subprocesses before it, so that each deleted has none; the CPU goes back to the console.
DeleteNow(q) ==
  /\ ~cpu.choosing /\ "STOP" \in system.services[Console]
  /\ q \in Present(os) \ {Console} /\ Subprocesses(os, q) = {}
  /\ os' = Collected(SwitchTo(Rundown(Resume(os, q), q, cpu.current), Console))
  /\ cpu' = [current |-> Console, running |-> Computes(os', Console), choosing |-> FALSE, budget |-> 0]
  /\ UNCHANGED system

\* $QIO and $QIOW to the mailbox: the request is made with its flag cleared, or
\* the call waits for room and is made afresh (and fails if the flag is out of reach).
NextRequest == Min({r \in Requests : os.io[r] = None})

Qio(p, call) ==
  /\ call.svc \in {"QIO", "QIOW"} /\ Attempts(p, call) /\ \E r \in Requests : os.io[r] = None
  /\ MayAsk(p, call.ast)
  /\ LET r == NextRequest
         cleared == ClearFlag(os, p, call.efn)
         made == [cleared EXCEPT !.io[r] =
                    [owner |-> p, done |-> FALSE, efn |-> call.efn, ast |-> call.ast,
                     mode |-> Mode(p)]]
         s == IF call.op = "read" THEN ReadMailbox(made, call.now, r)
              ELSE WriteMailbox(made, call.data, call.now, r)
     IN  IF ~CanReach(os, p, call.efn.cluster) THEN Return(os, p)
         ELSE IF call.op = "write" /\ call.rwait /\ LiveReaders(os) = <<>> /\ ~HasRoom(os, call.data)
         THEN WaitIn(Pruned(cleared), p, call, [kind |-> "room", data |-> call.data])
         ELSE IF call.svc = "QIO" \/ s.io[r].done THEN Return(s, p)
         ELSE WaitIn(s, p, [svc |-> "QIOW", request |-> r], [kind |-> "request", request |-> r])

\* A $QIOW called again: its request has completed, or it waits on.
Qiow(p, r) ==
  /\ Retries(p, [svc |-> "QIOW", request |-> r])
  /\ IF os.io[r].done THEN Return(os, p)
     ELSE WaitIn(os, p, [svc |-> "QIOW", request |-> r], [kind |-> "request", request |-> r])

Cancel(p) == Calls(p, "CANCEL") /\ Step(CancelIO(os, p), FALSE)

\* An attention AST, of user mode, for when somebody writes, reads or makes room.
Setmode(p, kind) ==
  /\ Calls(p, "SETMODE") /\ os.proc[p].asts[User] < MaxASTs
  /\ LET s == [Pruned(os) EXCEPT !.attention[kind] = @ \cup {p}]
         due == \/ kind = "read" /\ s.mailbox.messages # <<>>
                \/ kind = "write" /\ s.mailbox.readers # <<>>
     IN  Step(IF due THEN DeliverAttention(s, kind) ELSE s, FALSE)

-----------------------------------------------------------------------------

Hook == Schedule \/ IdleUntilTimer \/ IdleRetry \/ QuantumEnds \/ \E p \in Processes : Choose(p)

Wakeups(p) ==
  \/ Hiber(p)
  \/ \E q \in Targets : Wake(p, q) \/ Canwak(p, q) \/ \E d \in Delays, r \in Repeats : Schdwk(p, q, d, r)

TimerServices(p) ==
  Cantim(p) \/ \E f \in FlagsOf(p), d \in Delays, ast \in BOOLEAN : Setimr(p, f, d, ast)

FlagServices(p) ==
  \/ \E f \in FlagsOf(p) : Setef(p, f) \/ Clref(p, f)
  \/ \E call \in system.requests[p] : Waitfr(p, call) \/ Ascefc(p, call)
  \/ \E c \in Clusters : Dacefc(p, c)
  \/ \E n \in Names : Dlcefc(p, n)

ASTServices(p) ==
  \/ Clrast(p) \/ Cmkrnl(p) \/ CmkrnlReturns(p)
  \/ \E m \in Modes : Dclast(p, m)
  \/ \E on \in BOOLEAN : Setast(p, on)

ProcessServices(p) == \E q \in Targets : Suspnd(p, q) \/ ResumeProcess(p, q) \/ Delprc(p, q)

MailboxServices(p) ==
  \/ \E call \in system.requests[p] : Qio(p, call)
  \/ \E r \in Requests : Qiow(p, r)
  \/ Cancel(p)
  \/ \E k \in Attentions : Setmode(p, k)

Next ==
  \/ Hook \/ Tick
  \/ \E p \in Processes :
       \/ NextAST(p) \/ DeleteNow(p)
       \/ Wakeups(p) \/ TimerServices(p) \/ FlagServices(p) \/ ASTServices(p)
       \/ ProcessServices(p) \/ MailboxServices(p)

\* Instructions use the quantum up, and the hook is called when that has run out.
Spec == Init /\ [][Next]_vars /\ WF_vars(Hook)

\* With equal priorities, each quantum's end makes a choice, and the processes
\* that stay computable are chosen in turn.
FairSpec ==
  /\ Spec
  /\ SF_vars(Schedule /\ cpu'.choosing)
  /\ \A p \in Processes : SF_vars(Choose(p))

-----------------------------------------------------------------------------
(* Properties.                                                                *)

\* The three places that say how a process is agree: its wait, its suspension and
\* its state in the scheduler; the count of waiters is right, without which nobody
\* would look at them; and who executes is neither suspended nor to be deleted.
StatesAgree ==
  /\ os.waiters = Cardinality({p \in Processes : Waits(os, p)})
  /\ \A p \in Present(os) :
       LET P == os.proc[p]
       IN  P.state = IF Waits(os, p) THEN WaitState(P.waiting)
                     ELSE IF P.suspended THEN "SUSP" ELSE "computable"
  /\ AtInstruction => LET P == os.proc[cpu.current] IN P.state = "computable" /\ ~P.marked

\* While instructions run, no process is left in a wait that is over, or where it
\* could take an AST, whoever's service brought that about and in whatever order.
\* (Room a cancelled write leaves in the mailbox is the exception: nobody is told.)
NoWaiterOverlooked ==
  AtInstruction =>
    \A p \in Present(os) :
      Waits(os, p) /\ ~os.proc[p].suspended =>
        IF os.proc[p].waiting.kind = "room" THEN DeliverableModes(os.proc[p]) = {} ELSE ~MayGoOn(os, p)

\* A common cluster counts its associations, is there while it has any, and if it is
\* temporary or to be deleted, only then.
ClustersCounted ==
  /\ \A n \in Names :
       LET c == os.clusters[n]
           uses == {u \in Processes \X Clusters : os.proc[u[1]].common[u[2]] = n}
       IN  IF c = None THEN uses = {}
           ELSE c.refs = Cardinality(uses) /\ (uses = {} => c.permanent /\ ~c.marked)

\* An AST is active in a mode just while its routine is among the calls, once in each
\* mode, and each call is in a mode no less privileged than the one it interrupts.
ASTLevels ==
  \A p \in Present(os) :
    LET calls == os.proc[p].calls
    IN  \A m \in Modes :
          /\ Cardinality({i \in DOMAIN calls : calls[i].ast /\ calls[i].mode = m}) =
               IF m \in os.proc[p].active THEN 1 ELSE 0
          /\ \A i, j \in DOMAIN calls : i < j => calls[j].mode <= calls[i].mode

\* An owner that waits for its subprocesses to go waits for processes that are to
\* be deleted and can be: computable, waiting in turn for their own, or suspended,
\* until somebody resumes them.
DeletionGoesOn ==
  \A p \in Present(os) :
    Waits(os, p) /\ os.proc[p].waiting.kind = "subprocesses" =>
      /\ os.proc[p].marked
      /\ \A q \in Subprocesses(os, p) :
           /\ os.proc[q].marked
           /\ Waits(os, q) => os.proc[q].waiting.kind = "subprocesses"

\* The process the CPU holds keeps its memory, deleted or not; any other deleted
\* process has none, and no request, no attention AST and no subprocess.
DeletedLeavesNothing ==
  /\ cpu.current \in os.memory
  /\ os.memory \ {cpu.current} = Present(os) \ {cpu.current}
  /\ \A p \in Processes \ Present(os) :
       /\ PendingIO(os, p) = {} /\ Subprocesses(os, p) = {}
       /\ \A k \in Attentions : p \notin os.attention[k]

\* The mailbox holds the messages that were written and not yet got, in order,
\* whatever was cancelled meanwhile, and never messages beside readers; and each
\* request not yet done has its one place in the mailbox.
MailboxKeepsMessages ==
  /\ LiveMessages(os) = os.owed
  /\ LiveReaders(os) = <<>> \/ os.owed = <<>>
  /\ \A p \in Processes : \A r \in PendingIO(os, p) :
       Cardinality({i \in DOMAIN os.mailbox.readers : os.mailbox.readers[i] = r})
         + Cardinality({i \in DOMAIN os.owed : os.owed[i].writer = r}) = 1

\* While instructions run no timer is late, of whichever process, but one that another
\* process queued since the hook was last called, and the running process's own, which
\* expire before its next.
TimersOnTime ==
  AtInstruction =>
    \A p \in Present(os) \ {cpu.current} : \A t \in Due(os.proc[p]) : ~t.own

\* The ASTs of mode m that P is owed, takes, or will be owed by its timers.
ASTsToCome(P, m) ==
  P.asts[m] + Cardinality(P.active \cap {m})
    + Len(Those(P.timers, {t \in ToSet(P.timers) : ~t.wake /\ t.ast /\ t.mode = m}))

\* The step acts on p's due timers: nobody else's instruction does, which may cancel them.
Expires(p) ==
  /\ AtInstruction => p = cpu.current
  /\ Due(os.proc[p]) # {} /\ os'.proc[p].timers # os.proc[p].timers

\* Whoever has a process's timers expire, each does all it was set for: its AST is
\* called or owed, though its flag's cluster be given up, its flag set if it is not,
\* and a wakeup pending.  Only the process itself, or its deletion, takes back an AST.
TimersDeliver ==
  [][\A p \in Present(os) \cap Present(os') :
       LET P == os.proc[p]
       IN  /\ Executes(p) \/ P.marked \/ \A m \in Modes : ASTsToCome(os'.proc[p], m) >= ASTsToCome(P, m)
           /\ Expires(p) /\ ~P.marked =>
                \A t \in Due(P) :
                  IF t.wake THEN os'.proc[p].wakePending
                  ELSE CanReach(os', p, t.efn.cluster) => t.efn.bit \in Flags(os', p, t.efn.cluster)]_vars

\* A repeating wakeup keeps its beat however late it is seen: those it missed are
\* one, and the next is the first that is still to come.
WakeupsKeepTheirBeat ==
  [][\A p \in Present(os) \cap Present(os') :
       Expires(p) /\ ~os.proc[p].marked =>
         \A t \in Due(os.proc[p]) : t.wake /\ t.repeat > 0 =>
           \E n \in 1 .. t.repeat :
             /\ [t EXCEPT !.left = n] \in ToSet(os'.proc[p].timers)
             /\ (n - t.left) % t.repeat = 0]_vars

\* A wait that is over ends, if what ended it lasts and nobody suspends the process:
\* in the end somebody looks, also where nobody was told.
OverWaitsEnd ==
  \A p \in Processes :
    (Waits(os, p) /\ MayGoOn(os, p) /\ ~os.proc[p].suspended)
      ~> (Waits(os, p) => ~MayGoOn(os, p) \/ os.proc[p].suspended)

\* A process marked for deletion goes, if every process that stays computable gets
\* the CPU: it is resumed as it is marked, so that it can run.
DeletionEnds ==
  \A p \in Processes : os.proc[p].marked ~> os.proc[p].state = "gone"

=============================================================================
