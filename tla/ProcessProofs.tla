----------------------------- MODULE ProcessProofs ----
(***************************************************************************)
(* Proofs about Processes: its state stays well formed, whatever services  *)
(* are called and events happen in whatever order, and so its invariants   *)
(* hold for any processes, ownership, clusters, requests and systems.      *)
(***************************************************************************)
EXTENDS Processes, FiniteSetTheorems, QueueLemmas

-----------------------------------------------------------------------------
(* The types of the state.                                                    *)

Doings == {None} \cup [svc : {"HIBER"}] \cup [svc : {"QIOW"}, request : Requests] \cup Call

Frame == [mode : Modes, ast : BOOLEAN, doing : Doings]

Timer ==
  [wake : {TRUE}, left : Int, repeat : Nat, own : BOOLEAN]
    \cup [wake : {FALSE}, left : Int, repeat : Nat, own : BOOLEAN, efn : Flag, ast : BOOLEAN, mode : Modes]

ProcessRecord ==
  [state : {"computable", "SUSP", "gone", "HIB", "LEF", "CEF", "MWAIT"}, waiting : Wait \cup {None},
   suspended : BOOLEAN, marked : BOOLEAN, wakePending : BOOLEAN, calls : Seq(Frame),
   asts : [Modes -> Int], enabled : SUBSET Modes, active : SUBSET Modes, local : SUBSET Nat,
   common : [Clusters -> Names \cup {None}], timers : Seq(Timer)]

Message == [data : DOMAIN Size \cup {None}, writer : Requests \cup {None}]

States ==
  [proc : [Processes -> ProcessRecord], waiters : Int, clusters : [Names -> Cluster \cup {None}],
   io : [Requests -> IORequest \cup {None}],
   mailbox : [readers : Seq(Requests), messages : Seq(Message)],
   attention : [Attentions -> SUBSET Processes], memory : SUBSET Processes, owed : Seq(Message)]

CpuRecord == [current : Processes, running : BOOLEAN, choosing : BOOLEAN, budget : Nat]

-----------------------------------------------------------------------------
(* What is true of the state between two steps, in parts.                     *)

Made(s) == {r \in Requests : s.io[r] # None}

InMail(s) ==
  ToSet(s.mailbox.readers) \cup ({m.writer : m \in ToSet(s.mailbox.messages)} \ {None})

\* The mailbox names only requests there are.
MailMade(s) == InMail(s) \subseteq Made(s)

Waiters(s) == {p \in Processes : Waits(s, p)}

Counted(s) == s.waiters = Cardinality(Waiters(s))

\* A process's state says what its wait and its suspension do, and one that has gone has
\* neither a wait nor clusters.
StateFits(P) ==
  IF P.state = "gone" THEN P.waiting = None /\ \A c \in Clusters : P.common[c] = None
  ELSE P.state = IF P.waiting # None THEN WaitState(P.waiting)
                 ELSE IF P.suspended THEN "SUSP" ELSE "computable"

\* The frames of AST routines are the active modes', one each, and modes never rise.
FramesFit(P) ==
  /\ P.calls # <<>> /\ ~P.calls[1].ast
  /\ \A i, j \in DOMAIN P.calls :
       /\ i < j => P.calls[j].mode <= P.calls[i].mode
       /\ P.calls[i].ast /\ P.calls[j].ast /\ P.calls[i].mode = P.calls[j].mode => i = j
  /\ \A m \in Modes : m \in P.active <=> \E i \in DOMAIN P.calls : P.calls[i].ast /\ P.calls[i].mode = m

ProcessFits(P) == StateFits(P) /\ (P.state # "gone" => FramesFit(P))

Uses(s, n) == {u \in Processes \X Clusters : s.proc[u[1]].common[u[2]] = n}

ClusterFits(s, n) ==
  IF s.clusters[n] = None THEN Uses(s, n) = {}
  ELSE /\ s.clusters[n].refs = Cardinality(Uses(s, n))
       /\ Uses(s, n) = {} => s.clusters[n].permanent /\ ~s.clusters[n].marked

AwaitsSubprocesses(s, p) == Waits(s, p) /\ s.proc[p].waiting.kind = "subprocesses"

\* Who waits for its subprocesses is marked, and they are; who is marked waits for nothing else.
DeletionFits(s, p) ==
  /\ AwaitsSubprocesses(s, p) => s.proc[p].marked /\ \A q \in Subprocesses(s, p) : s.proc[q].marked
  /\ s.proc[p].marked /\ Waits(s, p) => AwaitsSubprocesses(s, p)

\* Nothing is left of a process that has gone.
NothingLeft(s, p) ==
  /\ PendingIO(s, p) = {} /\ Subprocesses(s, p) = {}
  /\ \A k \in Attentions : p \notin s.attention[k]

Sound(s) ==
  /\ s \in States /\ MailMade(s) /\ Counted(s)
  /\ \A p \in Processes : ProcessFits(s.proc[p])
  /\ \A n \in Names : ClusterFits(s, n)
  /\ \A p \in Processes : DeletionFits(s, p)
  /\ \A p \in Processes \ Present(s) : NothingLeft(s, p)
  /\ Console \in Present(s) /\ ~s.proc[Console].marked

\* The memory kept is that of the processes present and of the one the CPU holds.
MemoryFits(s, current) == current \in s.memory /\ s.memory \ {current} = Present(s) \ {current}

\* No timer of a process that has it for itself is due before the hook is called.
InTime(s, current, n) ==
  \A p \in Present(s) \ {current} : \A t \in ToSet(s.proc[p].timers) : t.own => n <= t.left

CpuFits(s, c) ==
  /\ MemoryFits(s, c.current)
  /\ c.running => ~c.choosing /\ Computes(s, c.current) /\ ~s.proc[c.current].marked
  /\ c.budget > 0 => c.running /\ InTime(s, c.current, c.budget)

IInv == Sound(os) /\ cpu \in CpuRecord /\ CpuFits(os, cpu) /\ system \in Systems

\* The rest of a sequence.
LEMMA MembersOfTail ==
  ASSUME NEW T, NEW q \in Seq(T), q # <<>>
  PROVE  Tail(q) \in Seq(T) /\ ToSet(Tail(q)) \subseteq ToSet(q) /\ Head(q) \in ToSet(q)
<1> DEFINE a == Tail(q)
<1>1. /\ a \in Seq(T) /\ Len(a) = Len(q) - 1 /\ Head(q) = q[1]
      /\ \A i \in 1 .. Len(a) : a[i] = q[i + 1]
      /\ Len(q) \in Nat /\ DOMAIN q = 1 .. Len(q) /\ DOMAIN a = 1 .. Len(a)
  BY LenProperties, HeadTailProperties
<1>2. Len(q) # 0
  BY EmptySeq
<1> HIDE DEF a
<1>3. ToSet(a) \subseteq ToSet(q)
  <2> SUFFICES ASSUME NEW i \in 1 .. Len(a) PROVE a[i] \in ToSet(q)
    BY <1>1 DEF ToSet
  <2> QED
    BY <1>1, <1>2 DEF ToSet
<1> QED
  BY <1>1, <1>2, <1>3 DEF ToSet, a

-----------------------------------------------------------------------------
(* What events do: end waits, and leave who is there, owns what and is marked. *)

Kept(P, Q) ==
  /\ Q.suspended = P.suspended /\ Q.marked = P.marked /\ Q.common = P.common
  /\ FramesFit(P) => FramesFit(Q)
  /\ \/ Q.waiting = P.waiting /\ Q.state = P.state
     \/ /\ P.waiting # None /\ P.state # "gone" /\ ~P.suspended
        /\ Q.waiting = None /\ Q.state = "computable"

ClusterKept(c, d) ==
  IF c = None THEN d = None
  ELSE d # None /\ d.refs = c.refs /\ d.permanent = c.permanent /\ d.marked = c.marked

RequestKept(i, j) ==
  IF i = None THEN j = None ELSE j # None /\ j.owner = i.owner /\ (i.done => j.done)

Quiet(s, t) ==
  /\ t.memory = s.memory
  /\ \A n \in Names : ClusterKept(s.clusters[n], t.clusters[n])
  /\ \A r \in Requests : RequestKept(s.io[r], t.io[r])
  /\ \A k \in Attentions : t.attention[k] \subseteq s.attention[k]
  /\ MailMade(s) => MailMade(t)
  /\ Counted(s) => Counted(t)
  /\ \A p \in Processes : Kept(s.proc[p], t.proc[p])

SameTimers(s, t) == \A p \in Processes : t.proc[p].timers = s.proc[p].timers

\* Quiet steps one after another are quiet.
LEMMA QuietTransitive ==
  ASSUME NEW s, NEW t, NEW u, Quiet(s, t), Quiet(t, u)
  PROVE  Quiet(s, u) /\ (SameTimers(s, t) /\ SameTimers(t, u) => SameTimers(s, u))
<1>1. \A p \in Processes : Kept(s.proc[p], u.proc[p])
  BY DEF Quiet, Kept
<1>2. \A n \in Names : ClusterKept(s.clusters[n], u.clusters[n])
  BY DEF Quiet, ClusterKept
<1>3. \A r \in Requests : RequestKept(s.io[r], u.io[r])
  BY DEF Quiet, RequestKept
<1>4. \A k \in Attentions : u.attention[k] \subseteq s.attention[k]
  BY DEF Quiet
<1> QED
  BY <1>1, <1>2, <1>3, <1>4 DEF Quiet, SameTimers

\* Who is there, and the subprocesses there are, stay the same.
LEMMA QuietPresent ==
  ASSUME NEW s, NEW t, Quiet(s, t)
  PROVE  /\ Present(t) = Present(s)
         /\ \A p : Subprocesses(t, p) = Subprocesses(s, p)
  BY DEF Quiet, Kept, Present, Subprocesses

\* A quiet step that keeps the types keeps the whole invariant: what it may not touch is
\* what the invariant relates across processes.
LEMMA QuietKeeps ==
  ASSUME NEW s, Sound(s), NEW t \in States, Quiet(s, t)
  PROVE  Sound(t)
<1>1. Present(t) = Present(s) /\ \A p : Subprocesses(t, p) = Subprocesses(s, p)
  BY QuietPresent
<1>2. \A p \in Processes : Kept(s.proc[p], t.proc[p])
  BY DEF Quiet
<1>3. ASSUME NEW p \in Processes
      PROVE  ProcessFits(t.proc[p])
  <2>1. ProcessFits(s.proc[p]) /\ Kept(s.proc[p], t.proc[p])
    BY <1>2 DEF Sound
  <2> QED
    BY <2>1 DEF ProcessFits, StateFits, Kept
<1>4. ASSUME NEW n \in Names
      PROVE  ClusterFits(t, n)
  <2>1. Uses(t, n) = Uses(s, n)
    BY <1>2 DEF Uses, Kept
  <2>2. ClusterFits(s, n) /\ ClusterKept(s.clusters[n], t.clusters[n])
    BY DEF Sound, Quiet
  <2> QED
    BY <2>1, <2>2 DEF ClusterFits, ClusterKept
<1>5. ASSUME NEW p \in Processes
      PROVE  DeletionFits(t, p)
  <2>1. DeletionFits(s, p)
    BY DEF Sound
  <2>2. \A q \in Processes : t.proc[q].marked = s.proc[q].marked
    BY <1>2 DEF Kept
  <2>3. t.proc[p].waiting \in {None, s.proc[p].waiting}
    BY <1>2 DEF Kept
  <2>4. AwaitsSubprocesses(t, p) => AwaitsSubprocesses(s, p)
    BY <2>3 DEF AwaitsSubprocesses, Waits
  <2>5. Waits(t, p) => Waits(s, p) /\ (AwaitsSubprocesses(s, p) => AwaitsSubprocesses(t, p))
    BY <2>3 DEF AwaitsSubprocesses, Waits
  <2>6. Subprocesses(s, p) \subseteq Processes
    BY DEF Subprocesses, Present
  <2> QED
    BY <1>1, <2>1, <2>2, <2>4, <2>5, <2>6 DEF DeletionFits
<1>6. ASSUME NEW p \in Processes \ Present(t)
      PROVE  NothingLeft(t, p)
  <2>1. NothingLeft(s, p)
    BY <1>1 DEF Sound
  <2>2. PendingIO(t, p) \subseteq PendingIO(s, p)
    BY DEF PendingIO, Quiet, RequestKept
  <2>3. \A k \in Attentions : p \notin t.attention[k]
    BY <2>1 DEF NothingLeft, Quiet
  <2> QED
    BY <1>1, <2>1, <2>2, <2>3 DEF NothingLeft
<1>7. Console \in Present(t) /\ ~t.proc[Console].marked
  BY <1>1, <1>2 DEF Sound, Kept, Present
<1> QED
  BY <1>3, <1>4, <1>5, <1>6, <1>7 DEF Sound, Quiet

Quietly(s, t) == Sound(t) /\ Quiet(s, t) /\ SameTimers(s, t)

\* So are those that queue no timer either.
LEMMA QuietlyTransitive ==
  ASSUME NEW s, NEW t, NEW u, Quietly(s, t), Quietly(t, u)
  PROVE  Quietly(s, u)
  BY QuietTransitive DEF Quietly

\* And no step at all is quiet.
LEMMA QuietlyReflexive ==
  ASSUME NEW s, Sound(s)
  PROVE  Quietly(s, s)
<1>1. \A n \in Names : ClusterKept(s.clusters[n], s.clusters[n])
  BY DEF ClusterKept
<1>2. \A r \in Requests : RequestKept(s.io[r], s.io[r])
  BY DEF RequestKept
<1>3. \A p \in Processes : Kept(s.proc[p], s.proc[p])
  BY DEF Kept
<1> QED
  BY <1>1, <1>2, <1>3 DEF Quietly, Quiet, SameTimers

\* A step that leaves everything but the processes alone, and them but for what events change.
LEMMA ProcessesQuiet ==
  ASSUME NEW s, Sound(s), NEW t \in States,
         t.memory = s.memory, t.clusters = s.clusters, t.io = s.io, t.attention = s.attention,
         t.mailbox = s.mailbox, Counted(t), \A p \in Processes : Kept(s.proc[p], t.proc[p])
  PROVE  Quiet(s, t) /\ Sound(t)
<1>1. \A n \in Names : ClusterKept(s.clusters[n], t.clusters[n])
  BY DEF ClusterKept
<1>2. \A r \in Requests : RequestKept(s.io[r], t.io[r])
  BY DEF RequestKept
<1>3. MailMade(s) => MailMade(t)
  BY DEF MailMade, InMail, Made
<1>4. Quiet(s, t)
  BY <1>1, <1>2, <1>3 DEF Quiet
<1> QED
  BY <1>4, QuietKeeps

\* Waiting processes, among those there are, are finitely many.
LEMMA WaitersFinite ==
  ASSUME NEW s
  PROVE  IsFiniteSet(Waiters(s)) /\ Cardinality(Waiters(s)) \in Nat
<1>1. Waiters(s) \in SUBSET Processes
  BY DEF Waiters
<1> QED
  BY <1>1, FS_Subset, FS_CardinalityType, ProcessEventsAssumption

\* What a set and a part of it count.
LEMMA CountWithout ==
  ASSUME NEW S, IsFiniteSet(S), NEW T \in SUBSET S
  PROVE  /\ Cardinality(S \ T) = Cardinality(S) - Cardinality(T)
         /\ Cardinality(S \ T) \in Nat /\ Cardinality(S) \in Nat /\ Cardinality(T) \in Nat
<1>1. S \ T \in SUBSET S /\ S = (S \ T) \cup T /\ (S \ T) \cap T = {}
  OBVIOUS
<1>2. IsFiniteSet(T) /\ IsFiniteSet(S \ T)
  BY <1>1, FS_Subset
<1>3. /\ Cardinality(S) \in Nat /\ Cardinality(T) \in Nat /\ Cardinality(S \ T) \in Nat
      /\ Cardinality({}) = 0
  BY <1>2, FS_CardinalityType, FS_EmptySet
<1>4. Cardinality((S \ T) \cup T) = Cardinality(S \ T) + Cardinality(T) - Cardinality((S \ T) \cap T)
  BY <1>2, FS_Union
<1>5. Cardinality(S) = Cardinality(S \ T) + Cardinality(T) - Cardinality({})
  <2>1. (S \ T) \cup T = S /\ (S \ T) \cap T = {}
    BY <1>1
  <2> QED
    BY <1>4, <2>1, Zenon
<1> QED
  BY <1>3, <1>5

\* Ending the waits of processes that events reach.
LEMMA EndWaitsQuiet ==
  ASSUME NEW s, Sound(s), NEW ps \in SUBSET Processes,
         \A p \in ps : Waits(s, p) /\ ~s.proc[p].suspended,
         NEW t, t = EndWaits(s, ps)
  PROVE  Quietly(s, t)
<1>1. s \in States
  BY DEF Sound
<1>2. /\ t.memory = s.memory /\ t.clusters = s.clusters /\ t.io = s.io /\ t.attention = s.attention
      /\ t.mailbox = s.mailbox /\ t.owed = s.owed /\ t.waiters = s.waiters - Cardinality(ps)
      /\ t.proc = [p \in Processes |->
                     IF p \in ps THEN [s.proc[p] EXCEPT !.waiting = None, !.state = "computable"]
                     ELSE s.proc[p]]
  BY <1>1 DEF EndWaits, States
<1>3. \A p \in ps : s.proc[p].state # "gone" /\ s.proc[p].waiting # None
  BY DEF Sound, ProcessFits, StateFits, Waits
<1>4. \A p \in Processes :
        IF p \in ps THEN /\ t.proc[p] = [s.proc[p] EXCEPT !.waiting = None, !.state = "computable"]
                         /\ s.proc[p] \in ProcessRecord
        ELSE t.proc[p] = s.proc[p]
  BY <1>1, <1>2 DEF States
<1>5. ASSUME NEW p \in Processes
      PROVE  Kept(s.proc[p], t.proc[p]) /\ t.proc[p].timers = s.proc[p].timers
  <2>1. CASE p \in ps
    <3> DEFINE P == s.proc[p]
               Q == t.proc[p]
    <3>1. P \in ProcessRecord /\ Q = [P EXCEPT !.waiting = None, !.state = "computable"]
      BY <1>4, <2>1
    <3>2. P.waiting # None /\ P.state # "gone" /\ ~P.suspended
      BY <1>3, <2>1
    <3> HIDE DEF P, Q
    <3>3. /\ Q.suspended = P.suspended /\ Q.marked = P.marked /\ Q.common = P.common
          /\ Q.calls = P.calls /\ Q.active = P.active /\ Q.timers = P.timers
          /\ Q.waiting = None /\ Q.state = "computable"
      BY <3>1 DEF ProcessRecord
    <3> QED
      <4>1. FramesFit(P) => FramesFit(Q)
        BY <3>3 DEF FramesFit
      <4> QED
        BY <3>2, <3>3, <4>1 DEF Kept, P, Q
  <2>2. CASE p \notin ps
    BY <1>4, <2>2 DEF Kept
  <2> QED
    BY <2>1, <2>2
<1>6. t \in States
  <2>1. Cardinality(ps) \in Nat
    BY FS_Subset, FS_CardinalityType, ProcessEventsAssumption
  <2>2. \A p \in Processes : t.proc[p] \in ProcessRecord
    <3> SUFFICES ASSUME NEW p \in Processes PROVE t.proc[p] \in ProcessRecord
      OBVIOUS
    <3>1. CASE p \in ps
      <4>1. \A P \in ProcessRecord : [P EXCEPT !.waiting = None, !.state = "computable"] \in ProcessRecord
        BY DEF ProcessRecord
      <4> QED
        BY <1>4, <3>1, <4>1
    <3>2. CASE p \notin ps
      BY <1>1, <1>4, <3>2 DEF States
    <3> QED
      BY <3>1, <3>2
  <2>3. t.proc \in [Processes -> ProcessRecord]
    BY <1>2, <2>2
  <2>4. \A a \in [Processes -> ProcessRecord], b \in Int : [s EXCEPT !.proc = a, !.waiters = b] \in States
    BY <1>1 DEF States
  <2>5. s.waiters - Cardinality(ps) \in Int
    BY <1>1, <2>1 DEF States
  <2> QED
    BY <1>2, <2>3, <2>4, <2>5 DEF EndWaits
<1>7. Counted(t)
  <2>1. Waiters(t) = Waiters(s) \ ps /\ ps \in SUBSET Waiters(s)
    BY <1>1, <1>4 DEF Waiters, Waits, ProcessRecord
  <2>2. Cardinality(Waiters(s) \ ps) = Cardinality(Waiters(s)) - Cardinality(ps)
    BY <2>1, WaitersFinite, CountWithout
  <2> QED
    BY <1>2, <2>1, <2>2 DEF Counted, Sound
<1> QED
  BY <1>2, <1>5, <1>6, <1>7, ProcessesQuiet DEF Quietly, SameTimers

\* An event of processes ps ends waits of theirs.
LEMMA ReportToQuiet ==
  ASSUME NEW s, Sound(s), NEW ps \in SUBSET Processes, NEW t, t = ReportTo(s, ps)
  PROVE  Quietly(s, t)
<1> DEFINE over == {p \in Reached(s, ps) : MayGoOn(s, p)}
<1>1. over \in SUBSET Processes /\ \A p \in over : Waits(s, p) /\ ~s.proc[p].suspended
  BY DEF Reached
<1>2. t = EndWaits(s, over)
  BY DEF ReportTo
<1> HIDE DEF over
<1> QED
  BY <1>1, <1>2, EndWaitsQuiet

-----------------------------------------------------------------------------
(* Parts of the state changed one at a time.                                  *)

\* The state's parts may be replaced one by one by others of their type.
LEMMA StateParts ==
  ASSUME NEW s \in States
  PROVE  /\ \A a \in [Processes -> ProcessRecord] : [s EXCEPT !.proc = a] \in States
         /\ \A a \in [Names -> Cluster \cup {None}] : [s EXCEPT !.clusters = a] \in States
         /\ \A a \in [Requests -> IORequest \cup {None}] : [s EXCEPT !.io = a] \in States
         /\ \A a \in [Attentions -> SUBSET Processes] : [s EXCEPT !.attention = a] \in States
         /\ \A a \in SUBSET Processes : [s EXCEPT !.memory = a] \in States
         /\ \A a \in Seq(Message) : [s EXCEPT !.owed = a] \in States
         /\ \A a \in [readers : Seq(Requests), messages : Seq(Message)] : [s EXCEPT !.mailbox = a] \in States
  BY DEF States

\* A process changed in what is nobody else's business: not its state, wait, suspension,
\* mark, or clusters.
Private(P, Q) ==
  /\ Q.state = P.state /\ Q.waiting = P.waiting /\ Q.suspended = P.suspended
  /\ Q.marked = P.marked /\ Q.common = P.common /\ (FramesFit(P) => FramesFit(Q))

\* Replacing processes' private fields is quiet.
LEMMA PrivateQuiet ==
  ASSUME NEW s, Sound(s), NEW a \in [Processes -> ProcessRecord],
         \A p \in Processes : Private(s.proc[p], a[p]),
         NEW t, t = [s EXCEPT !.proc = a]
  PROVE  Quiet(s, t) /\ Sound(t) /\ t.proc = a
<1>1. s \in States /\ t \in States
  BY StateParts DEF Sound
<1>2. /\ t.memory = s.memory /\ t.clusters = s.clusters /\ t.io = s.io /\ t.attention = s.attention
      /\ t.mailbox = s.mailbox /\ t.waiters = s.waiters /\ t.proc = a
  BY <1>1 DEF States
<1>3. \A p \in Processes : Kept(s.proc[p], t.proc[p])
  BY <1>2 DEF Kept, Private
<1>4. Counted(t)
  <2>1. Waiters(t) = Waiters(s)
    BY <1>2 DEF Waiters, Waits, Private
  <2> QED
    BY <1>2, <2>1 DEF Counted, Sound
<1> QED
  BY <1>1, <1>2, <1>3, <1>4, ProcessesQuiet

\* The same of one process alone.
LEMMA OwnQuiet ==
  ASSUME NEW s, Sound(s), NEW p \in Processes, NEW P \in ProcessRecord, Private(s.proc[p], P),
         NEW t, t = [s EXCEPT !.proc[p] = P]
  PROVE  /\ Quiet(s, t) /\ Sound(t) /\ t.proc[p] = P
         /\ \A q \in Processes \ {p} : t.proc[q] = s.proc[q]
         /\ P.timers = s.proc[p].timers => Quietly(s, t)
<1> DEFINE a == [s.proc EXCEPT ![p] = P]
<1>1. s \in States /\ s.proc \in [Processes -> ProcessRecord]
  BY DEF Sound, States
<1>2. /\ t = [s EXCEPT !.proc = a] /\ a \in [Processes -> ProcessRecord] /\ a[p] = P
      /\ \A q \in Processes \ {p} : a[q] = s.proc[q]
  BY <1>1
<1> HIDE DEF a
<1>3. \A q \in Processes : Private(s.proc[q], a[q])
  BY <1>2 DEF Private
<1>4. Quiet(s, t) /\ Sound(t) /\ t.proc = a
  <2>1. t = [s EXCEPT !.proc = a] /\ a \in [Processes -> ProcessRecord]
    BY <1>2
  <2> QED
    BY <1>3, <2>1, PrivateQuiet
<1> QED
  BY <1>2, <1>4 DEF Quietly, SameTimers

\* ASTs queued.
LEMMA QueueASTQuiet ==
  ASSUME NEW s, Sound(s), NEW ps, NEW mode \in Modes, NEW t, t = QueueAST(s, ps, mode)
  PROVE  Quietly(s, t)
<1> DEFINE owed(P) == [P EXCEPT !.asts[mode] = @ + 1]
           a == [p \in Processes |-> IF p \in ps THEN owed(s.proc[p]) ELSE s.proc[p]]
<1>1. s \in States /\ s.proc \in [Processes -> ProcessRecord]
  BY DEF Sound, States
<1>2. t = [s EXCEPT !.proc = a]
  BY <1>1 DEF QueueAST, States
<1>3. ASSUME NEW P \in ProcessRecord
      PROVE  owed(P) \in ProcessRecord /\ Private(P, owed(P)) /\ owed(P).timers = P.timers
  <2>1. owed(P) \in ProcessRecord
    <3> DEFINE asts == [P.asts EXCEPT ![mode] = @ + 1]
    <3>1. asts \in [Modes -> Int]
      BY DEF ProcessRecord
    <3>2. owed(P) = [P EXCEPT !.asts = asts]
      BY DEF ProcessRecord
    <3> HIDE DEF asts, owed
    <3> QED
      BY <3>1, <3>2 DEF ProcessRecord
  <2>2. /\ owed(P).state = P.state /\ owed(P).waiting = P.waiting /\ owed(P).suspended = P.suspended
        /\ owed(P).marked = P.marked /\ owed(P).common = P.common /\ owed(P).calls = P.calls
        /\ owed(P).active = P.active /\ owed(P).timers = P.timers
    BY DEF ProcessRecord
  <2> QED
    BY <2>1, <2>2 DEF Private, FramesFit
<1> HIDE DEF owed
<1>4. a \in [Processes -> ProcessRecord]
  BY <1>1, <1>3
<1>5. \A p \in Processes : Private(s.proc[p], a[p]) /\ a[p].timers = s.proc[p].timers
  BY <1>1, <1>3 DEF Private
<1> HIDE DEF a
<1>6. Quiet(s, t) /\ Sound(t) /\ t.proc = a
  BY <1>2, <1>4, <1>5, PrivateQuiet
<1> QED
  BY <1>5, <1>6 DEF Quietly, SameTimers

\* The flags of a common cluster changed.
LEMMA ClusterFlagsQuiet ==
  ASSUME NEW s, Sound(s), NEW n \in Names, s.clusters[n] # None, NEW flags \in SUBSET Nat,
         NEW t, t = [s EXCEPT !.clusters[n].flags = flags]
  PROVE  Quietly(s, t)
<1> DEFINE c == [s.clusters[n] EXCEPT !.flags = flags]
           a == [s.clusters EXCEPT ![n] = c]
<1>1. s \in States /\ s.clusters \in [Names -> Cluster \cup {None}]
  BY DEF Sound, States
<1>2. s.clusters[n] \in Cluster
  BY <1>1
<1>3. c \in Cluster /\ c.refs = s.clusters[n].refs /\ c.permanent = s.clusters[n].permanent
        /\ c.marked = s.clusters[n].marked
  BY <1>2 DEF Cluster
<1>4. c # None
  BY <1>3, ProcessEventsAssumption
<1> HIDE DEF c
<1>5. a \in [Names -> Cluster \cup {None}] /\ a[n] = c /\ \A m \in Names \ {n} : a[m] = s.clusters[m]
  BY <1>1, <1>3
<1>6. t = [s EXCEPT !.clusters = a]
  BY <1>1 DEF c
<1> HIDE DEF a
<1>7. t \in States
  BY <1>1, <1>5, <1>6, StateParts
<1>8. /\ t.memory = s.memory /\ t.proc = s.proc /\ t.io = s.io /\ t.attention = s.attention
      /\ t.mailbox = s.mailbox /\ t.waiters = s.waiters /\ t.clusters = a
  BY <1>1, <1>6 DEF States
<1>9. \A m \in Names : ClusterKept(s.clusters[m], t.clusters[m])
  BY <1>3, <1>4, <1>5, <1>8 DEF ClusterKept
<1>10. Quiet(s, t)
  <2>1. \A r \in Requests : RequestKept(s.io[r], t.io[r])
    BY <1>8 DEF RequestKept
  <2>2. \A p \in Processes : Kept(s.proc[p], t.proc[p])
    BY <1>8 DEF Kept
  <2>3. (MailMade(s) => MailMade(t)) /\ (Counted(s) => Counted(t))
    BY <1>8 DEF MailMade, InMail, Made, Counted, Waiters, Waits
  <2> QED
    BY <1>8, <1>9, <2>1, <2>2, <2>3 DEF Quiet
<1> QED
  BY <1>7, <1>8, <1>10, QuietKeeps DEF Quietly, SameTimers

\* A cluster that somebody has is there.
LEMMA ReachedCluster ==
  ASSUME NEW s, Sound(s), NEW p \in Processes, NEW c \in Clusters, s.proc[p].common[c] # None
  PROVE  s.proc[p].common[c] \in Names /\ s.clusters[s.proc[p].common[c]] \in Cluster
<1>1. s \in States /\ s.proc[p] \in ProcessRecord
  BY DEF Sound, States
<1>2. s.proc[p].common[c] \in Names
  BY <1>1 DEF ProcessRecord
<1>3. <<p, c>> \in Uses(s, s.proc[p].common[c])
  BY DEF Uses
<1>4. s.clusters[s.proc[p].common[c]] # None
  BY <1>2, <1>3 DEF Sound, ClusterFits
<1> QED
  BY <1>1, <1>2, <1>4 DEF States

\* A flag set, or cleared, and who has its cluster told.
LEMMA PostFlagQuiet ==
  ASSUME NEW s, Sound(s), NEW p \in Processes, NEW f \in Flag, NEW t, t = PostFlag(s, p, f)
  PROVE  Quietly(s, t)
<1>1. f.bit \in Nat /\ f.cluster \in {Local} \cup Clusters
  BY DEF Flag
<1>2. s \in States /\ s.proc[p] \in ProcessRecord
  BY DEF Sound, States
<1>3. CASE f.cluster = Local
  <2> DEFINE P == [s.proc[p] EXCEPT !.local = @ \cup {f.bit}]
  <2>1. t = [s EXCEPT !.proc[p] = P]
    BY <1>2, <1>3 DEF PostFlag, States
  <2>2. P \in ProcessRecord /\ Private(s.proc[p], P) /\ P.timers = s.proc[p].timers
    BY <1>1, <1>2 DEF ProcessRecord, Private, FramesFit
  <2> HIDE DEF P
  <2> QED
    BY <2>1, <2>2, OwnQuiet
<1>4. CASE f.cluster # Local /\ ~CanReach(s, p, f.cluster)
  BY <1>4, QuietlyReflexive DEF PostFlag
<1>5. CASE f.cluster # Local /\ CanReach(s, p, f.cluster)
  <2> DEFINE name == s.proc[p].common[f.cluster]
             flags == s.clusters[name].flags \cup {f.bit}
             u == [s EXCEPT !.clusters[name].flags = flags]
  <2>1. name \in Names /\ s.clusters[name] \in Cluster
    BY <1>1, <1>5, ReachedCluster DEF CanReach
  <2>2. flags \in SUBSET Nat /\ s.clusters[name] # None
    BY <1>1, <2>1, ProcessEventsAssumption DEF Cluster
  <2>3. t = ReportTo(u, Associates(s, name))
    BY <1>5 DEF PostFlag
  <2> HIDE DEF name, flags, u
  <2>4. Quietly(s, u)
    BY <2>1, <2>2, ClusterFlagsQuiet DEF u
  <2>5. Associates(s, name) \in SUBSET Processes
    BY DEF Associates, Present
  <2>6. Quietly(u, t)
    BY <2>3, <2>4, <2>5, ReportToQuiet DEF Quietly
  <2> QED
    BY <2>4, <2>6, QuietlyTransitive
<1> QED
  BY <1>3, <1>4, <1>5

\* Clearing an event flag is quiet.
LEMMA ClearFlagQuiet ==
  ASSUME NEW s, Sound(s), NEW p \in Processes, NEW f \in Flag, CanReach(s, p, f.cluster),
         NEW t, t = ClearFlag(s, p, f)
  PROVE  Quietly(s, t)
<1>1. f.bit \in Nat /\ f.cluster \in {Local} \cup Clusters
  BY DEF Flag
<1>2. s \in States /\ s.proc[p] \in ProcessRecord
  BY DEF Sound, States
<1>3. CASE f.cluster = Local
  <2> DEFINE P == [s.proc[p] EXCEPT !.local = @ \ {f.bit}]
  <2>1. t = [s EXCEPT !.proc[p] = P]
    BY <1>2, <1>3 DEF ClearFlag, States
  <2>2. P \in ProcessRecord /\ Private(s.proc[p], P) /\ P.timers = s.proc[p].timers
    BY <1>1, <1>2 DEF ProcessRecord, Private, FramesFit
  <2> HIDE DEF P
  <2> QED
    BY <2>1, <2>2, OwnQuiet
<1>4. CASE f.cluster # Local
  <2> DEFINE name == s.proc[p].common[f.cluster]
             flags == s.clusters[name].flags \ {f.bit}
  <2>1. name \in Names /\ s.clusters[name] \in Cluster
    BY <1>1, <1>4, ReachedCluster DEF CanReach
  <2>2. flags \in SUBSET Nat /\ s.clusters[name] # None
    BY <1>1, <2>1, ProcessEventsAssumption DEF Cluster
  <2>3. t = [s EXCEPT !.clusters[name].flags = flags]
    BY <1>4 DEF ClearFlag
  <2> HIDE DEF name, flags
  <2> QED
    BY <2>1, <2>2, <2>3, ClusterFlagsQuiet
<1> QED
  BY <1>3, <1>4

-----------------------------------------------------------------------------
(* Requests and the mailbox.                                                  *)

\* wakeWaiters is quiet.
LEMMA WakeWaitersQuiet ==
  ASSUME NEW s, Sound(s), NEW t, t = WakeWaiters(s)
  PROVE  Quietly(s, t)
<1>1. Present(s) \in SUBSET Processes
  BY DEF Present
<1> QED
  BY <1>1, ReportToQuiet, QuietlyReflexive DEF WakeWaiters

\* retryWaiters is quiet.
LEMMA RetryWaitersQuiet ==
  ASSUME NEW s, Sound(s), NEW t, t = RetryWaiters(s)
  PROVE  Quietly(s, t)
<1>1. Reached(s, Present(s)) \in SUBSET Processes
  BY DEF Present, Reached
<1>2. \A p \in Reached(s, Present(s)) : Waits(s, p) /\ ~s.proc[p].suspended
  BY DEF Reached
<1> QED
  BY <1>1, <1>2, EndWaitsQuiet DEF RetryWaiters

\* A request marked done.
LEMMA DoneQuiet ==
  ASSUME NEW s, Sound(s), NEW r \in Made(s), NEW t, t = [s EXCEPT !.io[r].done = TRUE]
  PROVE  Quietly(s, t) /\ t.io[r].done
<1> DEFINE i == [s.io[r] EXCEPT !.done = TRUE]
           a == [s.io EXCEPT ![r] = i]
<1>1. s \in States /\ s.io \in [Requests -> IORequest \cup {None}] /\ r \in Requests /\ s.io[r] \in IORequest
  BY DEF Sound, States, Made
<1>2. i \in IORequest /\ i.done /\ i.owner = s.io[r].owner
  BY <1>1 DEF IORequest
<1>3. i # None
  BY <1>2, ProcessEventsAssumption
<1> HIDE DEF i
<1>4. a \in [Requests -> IORequest \cup {None}] /\ a[r] = i /\ \A q \in Requests \ {r} : a[q] = s.io[q]
  BY <1>1, <1>2
<1>5. t = [s EXCEPT !.io = a]
  BY <1>1 DEF i
<1> HIDE DEF a
<1>6. t \in States
  <2>1. [s EXCEPT !.io = a] \in States
    BY <1>1, <1>4, StateParts
  <2> QED
    BY <1>5, <2>1
<1>7. /\ t.memory = s.memory /\ t.proc = s.proc /\ t.clusters = s.clusters /\ t.attention = s.attention
      /\ t.mailbox = s.mailbox /\ t.waiters = s.waiters /\ t.io = a
  BY <1>1, <1>5 DEF States
<1>8. \A q \in Requests : RequestKept(s.io[q], t.io[q])
  BY <1>1, <1>2, <1>3, <1>4, <1>7 DEF RequestKept, Made
<1>9. Quiet(s, t)
  <2>1. \A n \in Names : ClusterKept(s.clusters[n], t.clusters[n])
    BY <1>7 DEF ClusterKept
  <2>2. \A p \in Processes : Kept(s.proc[p], t.proc[p])
    BY <1>7 DEF Kept
  <2>3. Made(t) = Made(s)
    BY <1>8 DEF Made, RequestKept
  <2>4. (MailMade(s) => MailMade(t)) /\ (Counted(s) => Counted(t))
    BY <1>7, <2>3 DEF MailMade, InMail, Counted, Waiters, Waits
  <2> QED
    BY <1>7, <1>8, <2>1, <2>2, <2>4 DEF Quiet
<1> QED
  BY <1>2, <1>4, <1>6, <1>7, <1>9, QuietKeeps DEF Quietly, SameTimers

\* A quiet step forgets no request, no completion and no owner.
LEMMA StaysDone ==
  ASSUME NEW s, NEW t, Quietly(s, t), NEW r \in Made(s)
  PROVE  r \in Made(t) /\ (s.io[r].done => t.io[r].done) /\ t.io[r].owner = s.io[r].owner
  BY DEF Quietly, Quiet, RequestKept, Made

\* A request completed, whoever completes it.
LEMMA CompleteIOQuiet ==
  ASSUME NEW s, Sound(s), NEW r \in Made(s), NEW t, t = CompleteIO(s, r)
  PROVE  Quietly(s, t) /\ r \in Made(t) /\ t.io[r].done
<1>1. CASE s.io[r].done
  BY <1>1, QuietlyReflexive DEF CompleteIO
<1>2. CASE ~s.io[r].done
  <2> DEFINE q == s.io[r].owner
             f == s.io[r].efn
             told == IF s.io[r].ast THEN {q} ELSE {}
             mode == s.io[r].mode
             u == [s EXCEPT !.io[r].done = TRUE]
             v == PostFlag(u, q, f)
             w == QueueAST(v, told, mode)
  <2>1. s.io[r] \in IORequest
    BY DEF Sound, States, Made
  <2>2. q \in Processes /\ f \in Flag /\ mode \in Modes
    BY <2>1 DEF IORequest
  <2>3. t = ReportTo(w, {q})
    BY <1>2 DEF CompleteIO, ReportEvent
  <2> HIDE DEF q, f, told, mode, u, v, w
  <2>4. Quietly(s, u) /\ u.io[r].done
    BY DoneQuiet DEF u
  <2>5. Quietly(u, v)
    BY <2>2, <2>4, PostFlagQuiet DEF v, Quietly
  <2>6. Quietly(v, w)
    BY <2>2, <2>5, QueueASTQuiet DEF w, Quietly
  <2>7. Quietly(w, t)
    BY <2>2, <2>3, <2>6, ReportToQuiet DEF Quietly
  <2>8. Quietly(u, t)
    BY <2>5, <2>6, <2>7, QuietlyTransitive
  <2>9. r \in Made(u)
    BY <2>4, StaysDone
  <2> QED
    BY <2>4, <2>8, <2>9, QuietlyTransitive, StaysDone
<1> QED
  BY <1>1, <1>2

\* What else may change unseen: attentions dropped, the mailbox, and what it has taken.
LEMMA SharedQuiet ==
  ASSUME NEW s, Sound(s), NEW t \in States,
         t.proc = s.proc, t.memory = s.memory, t.clusters = s.clusters, t.waiters = s.waiters, t.io = s.io,
         \A k \in Attentions : t.attention[k] \subseteq s.attention[k], InMail(t) \subseteq Made(s)
  PROVE  Quietly(s, t)
<1>1. \A n \in Names : ClusterKept(s.clusters[n], t.clusters[n])
  BY DEF ClusterKept
<1>2. \A p \in Processes : Kept(s.proc[p], t.proc[p])
  BY DEF Kept
<1>3. \A r \in Requests : RequestKept(s.io[r], t.io[r])
  BY DEF RequestKept
<1>4. (MailMade(s) => MailMade(t)) /\ (Counted(s) => Counted(t))
  BY DEF MailMade, Made, Counted, Waiters, Waits
<1>5. Quiet(s, t)
  BY <1>1, <1>2, <1>3, <1>4 DEF Quiet
<1> QED
  BY <1>5, QuietKeeps DEF Quietly, SameTimers

\* Delivering attention ASTs is quiet.
LEMMA DeliverAttentionQuiet ==
  ASSUME NEW s, Sound(s), NEW kind \in Attentions, NEW t, t = DeliverAttention(s, kind)
  PROVE  Quietly(s, t)
<1> DEFINE ps == s.attention[kind]
           u == [s EXCEPT !.attention[kind] = {}]
           v == QueueAST(u, ps, User)
<1>1. s \in States
  BY DEF Sound
<1>2. ps \in SUBSET Processes
  BY <1>1 DEF States
<1>3. /\ u \in States /\ u.proc = s.proc /\ u.memory = s.memory /\ u.clusters = s.clusters
      /\ u.waiters = s.waiters /\ u.io = s.io /\ u.mailbox = s.mailbox
      /\ \A k \in Attentions : u.attention[k] \subseteq s.attention[k]
  BY <1>1 DEF States
<1>4. t = ReportTo(v, ps)
  BY DEF DeliverAttention
<1> HIDE DEF u, v, ps
<1>5. InMail(u) \subseteq Made(s)
  BY <1>3 DEF Sound, MailMade, InMail
<1>6. Quietly(s, u)
  BY <1>3, <1>5, SharedQuiet
<1>7. Quietly(u, v)
  BY <1>6, QueueASTQuiet DEF v, Quietly, Modes
<1>8. Quietly(v, t)
  BY <1>2, <1>4, <1>7, ReportToQuiet DEF Quietly
<1> QED
  BY <1>6, <1>7, <1>8, QuietlyTransitive

\* Telling the processes in RWMBX that there is room is quiet.
LEMMA ResourceQuiet ==
  ASSUME NEW s, Sound(s), NEW t, t = MailboxResourceAvailable(s)
  PROVE  Quietly(s, t)
<1> DEFINE ps == {p \in Present(s) : Waits(s, p) /\ s.proc[p].waiting.kind = "room"}
<1>1. ps \in SUBSET Processes
  BY DEF Present
<1>2. t = ReportTo(s, ps)
  BY DEF MailboxResourceAvailable
<1> HIDE DEF ps
<1> QED
  BY <1>1, <1>2, ReportToQuiet

\* Every pending request of a process cancelled, and its attentions.
CancelledBefore(s, p) ==
  [s EXCEPT !.attention = [k \in Attentions |-> s.attention[k] \ {p}],
            !.owed = Those(s.owed, {m \in ToSet(s.owed) : m.writer \notin PendingIO(s, p)})]

\* What $CANCEL does before it completes requests is quiet, and leaves the process no
\* attention AST.
LEMMA CancelledBeforeQuiet ==
  ASSUME NEW s, Sound(s), NEW p, NEW t, t = CancelledBefore(s, p)
  PROVE  /\ Quietly(s, t) /\ PendingIO(s, p) \subseteq Made(t) /\ t.io = s.io
         /\ \A k \in Attentions : p \notin t.attention[k]
<1> DEFINE a == [k \in Attentions |-> s.attention[k] \ {p}]
           o == Those(s.owed, {m \in ToSet(s.owed) : m.writer \notin PendingIO(s, p)})
<1>1. s \in States
  BY DEF Sound
<1>2. s.owed \in Seq(Message)
  BY <1>1 DEF States
<1>3. o \in Seq(Message)
  BY <1>2, ThoseAre
<1>4. t = [s EXCEPT !.attention = a, !.owed = o]
  BY DEF CancelledBefore
<1>5. \A k \in Attentions : a[k] \subseteq s.attention[k] /\ p \notin a[k]
  OBVIOUS
<1>6. a \in [Attentions -> SUBSET Processes]
  BY <1>1 DEF States
<1> HIDE DEF a, o
<1>7. /\ t \in States /\ t.proc = s.proc /\ t.memory = s.memory /\ t.clusters = s.clusters
      /\ t.waiters = s.waiters /\ t.io = s.io /\ t.mailbox = s.mailbox /\ t.attention = a
  BY <1>1, <1>3, <1>4, <1>6 DEF States
<1>8. InMail(t) \subseteq Made(s)
  BY <1>7 DEF Sound, MailMade, InMail
<1>9. Quietly(s, t)
  BY <1>5, <1>7, <1>8, SharedQuiet
<1>10. PendingIO(s, p) \subseteq Made(t)
  BY <1>7 DEF PendingIO, Made
<1> QED
  BY <1>5, <1>7, <1>9, <1>10

\* What holds before $CANCEL completes the first of a process's requests, and with one more
\* completed if it did without, holds when all are completed.
LEMMA CancelIOReaches ==
  ASSUME NEW s, Sound(s), NEW p \in Processes, NEW R, R = PendingIO(s, p), NEW G,
         \A T \in SUBSET R : G[T] \subseteq States, CancelledBefore(s, p) \in G[{}],
         \A T \in SUBSET R : \A x \in T : \A u \in G[T \ {x}] : CompleteIO(u, x) \in G[T]
  PROVE  CancelIO(s, p) \in G[R]
<1> DEFINE t == CancelIO(s, p)
           base == CancelledBefore(s, p)
           F == [z \in R \X States |-> CompleteIO(z[2], z[1])]
           ch == [T \in SUBSET R |-> CHOOSE x \in T : TRUE]
           Follows(f) == f = [T \in SUBSET R |->
                                IF T = {} THEN base
                                ELSE CompleteIO(f[T \ {CHOOSE x \in T : TRUE}], CHOOSE x \in T : TRUE)]
<1>1. base \in G[{}]
  OBVIOUS
<1>2. t = (CHOOSE f : Follows(f))[R]
  BY Zenon DEF CancelIO, CancelledBefore, FoldSet, MapThenFoldSet
<1>3. IsFiniteSet(R)
  <2>1. R \in SUBSET Requests
    BY DEF PendingIO
  <2> QED
    BY <2>1, FS_Subset, ProcessEventsAssumption
<1> HIDE DEF base, t
<1>4. \A T \in SUBSET R : T # {} => ch[T] \in T /\ ch[T] = CHOOSE x \in T : TRUE
  OBVIOUS
<1> HIDE DEF ch
<1>5. \A T \in SUBSET R : T # {} => ch[T] \in T
  BY <1>4
<1>6. ASSUME NEW T \in SUBSET R, T # {}, NEW u \in G[T \ {ch[T]}]
      PROVE  CompleteIO(u, ch[T]) \in G[T] /\ F[<<ch[T], u>>] = CompleteIO(u, ch[T])
  <2>1. ch[T] \in T /\ ch[T] \in R /\ T \ {ch[T]} \in SUBSET R
    BY <1>4, <1>6
  <2>2. u \in States
    BY <2>1
  <2>3. F[<<ch[T], u>>] = CompleteIO(u, ch[T])
    BY <2>1, <2>2
  <2> QED
    BY <2>1, <2>3
<1> HIDE DEF F
<1>7. ASSUME NEW g, \A T \in SUBSET R : g[T] = IF T = {} THEN base ELSE CompleteIO(g[T \ {ch[T]}], ch[T])
      PROVE  \A T \in SUBSET R : g[T] \in G[T]
  <2>1. g[{}] \in G[{}]
    BY <1>1, <1>7
  <2>2. \A T \in SUBSET R : T # {} /\ g[T \ {ch[T]}] \in G[T \ {ch[T]}] => g[T] \in G[T]
    BY <1>6, <1>7, ZenonT(60)
  <2> QED
    BY <1>3, <1>5, <2>1, <2>2, FoldInduction, ZenonT(90)
<1>8. ASSUME NEW g, \A T \in SUBSET R : g[T] = IF T = {} THEN base ELSE F[<<ch[T], g[T \ {ch[T]}]>>]
      PROVE  \A T \in SUBSET R : g[T] \in G[T]
  <2>1. g[{}] \in G[{}]
    BY <1>1, <1>8
  <2>2. \A T \in SUBSET R : T # {} /\ g[T \ {ch[T]}] \in G[T \ {ch[T]}] => g[T] \in G[T]
    <3> SUFFICES ASSUME NEW T \in SUBSET R, T # {}, g[T \ {ch[T]}] \in G[T \ {ch[T]}]
                 PROVE  g[T] \in G[T]
      OBVIOUS
    <3>1. CompleteIO(g[T \ {ch[T]}], ch[T]) \in G[T]
          /\ F[<<ch[T], g[T \ {ch[T]}]>>] = CompleteIO(g[T \ {ch[T]}], ch[T])
      BY <1>6
    <3> QED
      BY <1>8, <3>1
  <2> QED
    BY <1>3, <1>5, <2>1, <2>2, FoldInduction, ZenonT(90)
<1>9. \E f : Follows(f)
  <2>1. PICK g : FoldsUpTo(base, F, ch, SUBSET R, g)
    BY <1>3, <1>4, FoldExists
  <2>2. g = [T \in SUBSET R |-> IF T = {} THEN base ELSE F[<<ch[T], g[T \ {ch[T]}]>>]]
    BY <2>1 DEF FoldsUpTo
  <2>3. \A T \in SUBSET R : g[T] = IF T = {} THEN base ELSE F[<<ch[T], g[T \ {ch[T]}]>>]
    BY <2>2
  <2>4. \A T \in SUBSET R : g[T] \in G[T]
    BY <2>3, <1>8
  <2>5. \A T \in SUBSET R : T # {} => F[<<ch[T], g[T \ {ch[T]}]>>] = CompleteIO(g[T \ {ch[T]}], ch[T])
    <3> SUFFICES ASSUME NEW T \in SUBSET R, T # {}
                 PROVE  F[<<ch[T], g[T \ {ch[T]}]>>] = CompleteIO(g[T \ {ch[T]}], ch[T])
      OBVIOUS
    <3>1. g[T \ {ch[T]}] \in G[T \ {ch[T]}]
      BY <2>4
    <3> QED
      BY <1>6, <3>1
  <2>6. Follows(g)
    <3>1. \A T \in SUBSET R : T # {} => F[<<ch[T], g[T \ {ch[T]}]>>]
                                        = CompleteIO(g[T \ {CHOOSE x \in T : TRUE}], CHOOSE x \in T : TRUE)
      BY <1>4, <2>5
    <3> QED
      BY <2>2, <3>1
  <2> HIDE DEF Follows
  <2> QED
    BY <2>6
<1> DEFINE h == CHOOSE f : Follows(f)
<1>10. Follows(h)
  BY <1>9
<1> HIDE DEF h
<1>11. \A T \in SUBSET R : h[T] = IF T = {} THEN base ELSE CompleteIO(h[T \ {ch[T]}], ch[T])
  BY <1>4, <1>10
<1>12. h[R] \in G[R]
  BY <1>7, <1>11
<1> QED
  BY <1>2, <1>12 DEF h, t

\* $CANCEL is quiet, and leaves the process nothing pending: completing one request brings
\* no other back.
LEMMA CancelIOQuiet ==
  ASSUME NEW s, Sound(s), NEW p \in Processes, NEW t, t = CancelIO(s, p)
  PROVE  /\ Quietly(s, t) /\ PendingIO(t, p) = {}
         /\ \A k \in Attentions : p \notin t.attention[k]
<1> DEFINE R == PendingIO(s, p)
           base == CancelledBefore(s, p)
           G == [T \in SUBSET R |-> {u \in States : Quietly(base, u) /\ \A r \in T : u.io[r].done}]
<1>1. /\ Quietly(s, base) /\ R \subseteq Made(base) /\ base.io = s.io
      /\ \A k \in Attentions : p \notin base.attention[k]
  BY CancelledBeforeQuiet
<1> HIDE DEF base, R
<1>2. \A T \in SUBSET R : G[T] \subseteq States
  OBVIOUS
<1>3. base \in G[{}]
  BY <1>1, QuietlyReflexive DEF Quietly, Sound
<1>4. ASSUME NEW T \in SUBSET R, NEW x \in T, NEW u \in G[T \ {x}]
      PROVE  CompleteIO(u, x) \in G[T]
  <2> DEFINE v == CompleteIO(u, x)
  <2>1. u \in States /\ Quietly(base, u) /\ \A r \in T \ {x} : u.io[r].done
    BY <1>4
  <2>2. \A r \in R : r \in Made(u)
    BY <1>1, <2>1, StaysDone
  <2>3. Quietly(u, v) /\ v.io[x].done
    BY <2>1, <2>2, CompleteIOQuiet DEF Quietly
  <2> HIDE DEF v
  <2>4. \A r \in T \ {x} : v.io[r].done
    BY <2>1, <2>2, <2>3, StaysDone
  <2>5. Quietly(base, v) /\ v \in States
    BY <2>1, <2>3, QuietlyTransitive DEF Quietly, Sound
  <2>6. v \in G[T]
    BY <2>3, <2>4, <2>5
  <2> QED
    BY <2>6 DEF v
<1> HIDE DEF G
<1>5. t \in G[R]
  BY <1>2, <1>3, <1>4, CancelIOReaches DEF R, base
<1>6. Quietly(base, t) /\ \A r \in R : t.io[r].done
  <2>1. R \in SUBSET R
    OBVIOUS
  <2> QED
    BY <1>5, <2>1 DEF G
<1>7. Quietly(s, t)
  BY <1>1, <1>6, QuietlyTransitive
<1>8. PendingIO(t, p) = {}
  <2> SUFFICES ASSUME NEW r \in PendingIO(t, p) PROVE FALSE
    OBVIOUS
  <2>1. r \in Requests /\ t.io[r] # None /\ t.io[r].owner = p /\ ~t.io[r].done
    BY DEF PendingIO
  <2>2. r \in Made(s)
    BY <1>7, <2>1 DEF Quietly, Quiet, RequestKept, Made
  <2>3. r \in R
    BY <1>7, <2>1, <2>2, StaysDone DEF PendingIO, Made, R
  <2> QED
    BY <1>6, <2>1, <2>3
<1>9. \A k \in Attentions : p \notin t.attention[k]
  BY <1>1, <1>6 DEF Quietly, Quiet
<1> QED
  BY <1>7, <1>8, <1>9

\* Setting the mailbox changes nothing else.
LEMMA MailboxSet ==
  ASSUME NEW s \in States, NEW b \in [readers : Seq(Requests), messages : Seq(Message)],
         NEW t, t = [s EXCEPT !.mailbox = b]
  PROVE  /\ t \in States /\ t.proc = s.proc /\ t.memory = s.memory /\ t.clusters = s.clusters
         /\ t.waiters = s.waiters /\ t.io = s.io /\ t.attention = s.attention /\ t.mailbox = b
         /\ t.owed = s.owed
  BY DEF States

\* Setting what is owed changes nothing else.
LEMMA OwedSet ==
  ASSUME NEW s \in States, NEW x \in Seq(Message), NEW t, t = [s EXCEPT !.owed = x]
  PROVE  /\ t \in States /\ t.proc = s.proc /\ t.memory = s.memory /\ t.clusters = s.clusters
         /\ t.waiters = s.waiters /\ t.io = s.io /\ t.attention = s.attention /\ t.mailbox = s.mailbox
         /\ t.owed = x
  BY DEF States

\* What the mailbox holds.
LEMMA MailboxHolds ==
  ASSUME NEW s, Sound(s)
  PROVE  /\ s \in States /\ s.mailbox.readers \in Seq(Requests) /\ s.mailbox.messages \in Seq(Message)
         /\ s.owed \in Seq(Message)
         /\ ToSet(s.mailbox.readers) \subseteq Made(s)
         /\ \A m \in ToSet(s.mailbox.messages) : m.writer = None \/ m.writer \in Made(s)
<1>1. s \in States /\ s.mailbox \in [readers : Seq(Requests), messages : Seq(Message)]
  BY DEF Sound, States
<1>2. s.owed \in Seq(Message)
  BY <1>1 DEF States
<1> QED
  BY <1>1, <1>2 DEF Sound, MailMade, InMail

\* The mailbox and what it has taken, changed in what they name of the requests made.
LEMMA MailboxQuiet ==
  ASSUME NEW s, Sound(s), NEW t \in States,
         t.proc = s.proc, t.memory = s.memory, t.clusters = s.clusters, t.waiters = s.waiters, t.io = s.io,
         t.attention = s.attention, ToSet(t.mailbox.readers) \subseteq Made(s),
         \A m \in ToSet(t.mailbox.messages) : m.writer = None \/ m.writer \in Made(s)
  PROVE  Quietly(s, t)
<1>1. InMail(t) \subseteq Made(s)
  BY DEF InMail
<1>2. \A k \in Attentions : t.attention[k] \subseteq s.attention[k]
  OBVIOUS
<1> QED
  BY <1>1, <1>2, SharedQuiet

\* The lists less what is done.
LEMMA LiveAre ==
  ASSUME NEW s, Sound(s)
  PROVE  /\ LiveReaders(s) \in Seq(Requests) /\ ToSet(LiveReaders(s)) \subseteq ToSet(s.mailbox.readers)
         /\ LiveMessages(s) \in Seq(Message) /\ ToSet(LiveMessages(s)) \subseteq ToSet(s.mailbox.messages)
<1>1. s.mailbox.readers \in Seq(Requests) /\ s.mailbox.messages \in Seq(Message)
  BY MailboxHolds
<1>2. LiveReaders(s) \in Seq(Requests) /\ ToSet(LiveReaders(s)) \subseteq ToSet(s.mailbox.readers)
  <2> DEFINE q == s.mailbox.readers
             keep == {r \in ToSet(q) : ~s.io[r].done}
  <2>1. LiveReaders(s) = Those(q, keep)
    BY DEF LiveReaders
  <2>2. q \in Seq(Requests)
    BY <1>1
  <2> HIDE DEF keep, q
  <2>3. Those(q, keep) \in Seq(Requests) /\ ToSet(Those(q, keep)) = ToSet(q) \cap keep
    BY <2>2, ThoseAre
  <2> QED
    BY <2>1, <2>3 DEF q
<1>3. LiveMessages(s) \in Seq(Message) /\ ToSet(LiveMessages(s)) \subseteq ToSet(s.mailbox.messages)
  <2> DEFINE q == s.mailbox.messages
             keep == {m \in ToSet(q) : m.writer = None \/ ~s.io[m.writer].done}
  <2>1. LiveMessages(s) = Those(q, keep)
    BY DEF LiveMessages
  <2>2. q \in Seq(Message)
    BY <1>1
  <2> HIDE DEF keep, q
  <2>3. Those(q, keep) \in Seq(Message) /\ ToSet(Those(q, keep)) = ToSet(q) \cap keep
    BY <2>2, ThoseAre
  <2> QED
    BY <2>1, <2>3 DEF q
<1> QED
  BY <1>2, <1>3

\* prune is quiet: it drops from the lists, and adds nothing.
LEMMA PrunedQuiet ==
  ASSUME NEW s, Sound(s), NEW t, t = Pruned(s)
  PROVE  /\ Quietly(s, t) /\ t.io = s.io /\ t.proc = s.proc
         /\ t.mailbox = [readers |-> LiveReaders(s), messages |-> LiveMessages(s)]
<1> DEFINE b == [readers |-> LiveReaders(s), messages |-> LiveMessages(s)]
<1>1. b \in [readers : Seq(Requests), messages : Seq(Message)]
  BY LiveAre
<1>2. t = [s EXCEPT !.mailbox = b]
  BY DEF Pruned
<1> HIDE DEF b
<1>3. /\ t \in States /\ t.proc = s.proc /\ t.memory = s.memory /\ t.clusters = s.clusters
      /\ t.waiters = s.waiters /\ t.io = s.io /\ t.attention = s.attention /\ t.mailbox = b
  BY <1>1, <1>2, MailboxSet DEF Sound
<1>4. /\ t \in States /\ t.proc = s.proc /\ t.memory = s.memory /\ t.clusters = s.clusters
      /\ t.waiters = s.waiters /\ t.io = s.io /\ t.attention = s.attention
      /\ t.mailbox = [readers |-> LiveReaders(s), messages |-> LiveMessages(s)]
  BY <1>3 DEF b
<1>5. /\ ToSet(t.mailbox.readers) \subseteq Made(s)
      /\ \A m \in ToSet(t.mailbox.messages) : m.writer = None \/ m.writer \in Made(s)
  BY <1>4, LiveAre, MailboxHolds
<1> QED
  BY <1>4, <1>5, MailboxQuiet

\* A read that finishes is quiet, and is then done.
LEMMA ReceiveQuiet ==
  ASSUME NEW s, Sound(s), NEW r \in Made(s), NEW t, t = Receive(s, r)
  PROVE  Quietly(s, t) /\ r \in Made(t) /\ t.io[r].done
<1>1. CASE s.io[r].done
  BY <1>1, QuietlyReflexive DEF Receive
<1>2. CASE ~s.io[r].done
  <2> DEFINE o == IF s.owed = <<>> THEN s.owed ELSE Tail(s.owed)
             u == [s EXCEPT !.owed = o]
  <2>1. t = CompleteIO(u, r)
    BY <1>2 DEF Receive
  <2>2. o \in Seq(Message)
    BY MailboxHolds, MembersOfTail
  <2> HIDE DEF o
  <2>3. /\ u \in States /\ u.proc = s.proc /\ u.memory = s.memory /\ u.clusters = s.clusters
        /\ u.waiters = s.waiters /\ u.io = s.io /\ u.attention = s.attention /\ u.mailbox = s.mailbox
    BY <2>2 DEF States, Sound
  <2> HIDE DEF u
  <2>4. Quietly(s, u)
    BY <2>3, MailboxHolds, MailboxQuiet
  <2>5. Quietly(u, t) /\ r \in Made(t) /\ t.io[r].done
    BY <2>1, <2>3, <2>4, CompleteIOQuiet DEF Quietly, Made
  <2> QED
    BY <2>4, <2>5, QuietlyTransitive
<1> QED
  BY <1>1, <1>2

\* A read leaves the request made, and done or among the mailbox's readers.
LEMMA ReadMailboxQuiet ==
  ASSUME NEW s, Sound(s), NEW now, NEW r \in Made(s), NEW u, u = ReadMailbox(s, now, r)
  PROVE  Quietly(s, u)
<1> DEFINE t == Pruned(s)
           m == Head(t.mailbox.messages)
           taken == [t EXCEPT !.mailbox.messages = Tail(t.mailbox.messages)]
<1>1. Quietly(s, t) /\ Sound(t) /\ r \in Made(t)
  BY PrunedQuiet, StaysDone DEF Quietly
<1>2. CASE t.mailbox.messages # <<>>
  <2> DEFINE a == IF m.writer = None THEN taken ELSE CompleteIO(taken, m.writer)
             b == DeliverAttention(a, "room")
             c == MailboxResourceAvailable(b)
  <2>1. u = Receive(c, r)
    BY <1>2 DEF ReadMailbox
  <2> HIDE DEF t
  <2>2. /\ t.mailbox.messages \in Seq(Message) /\ Tail(t.mailbox.messages) \in Seq(Message)
        /\ ToSet(Tail(t.mailbox.messages)) \subseteq ToSet(t.mailbox.messages)
        /\ m \in ToSet(t.mailbox.messages)
    BY <1>1, <1>2, MailboxHolds, MembersOfTail
  <2>3. /\ taken \in States /\ taken.proc = t.proc /\ taken.memory = t.memory
        /\ taken.clusters = t.clusters /\ taken.waiters = t.waiters /\ taken.io = t.io
        /\ taken.attention = t.attention /\ taken.mailbox.readers = t.mailbox.readers
        /\ taken.mailbox.messages = Tail(t.mailbox.messages)
    <3> DEFINE x == Tail(t.mailbox.messages)
               y == [t.mailbox EXCEPT !.messages = x]
    <3>1. x \in Seq(Message) /\ t \in States /\ taken = [t EXCEPT !.mailbox = y]
      BY <1>1, <2>2 DEF Sound
    <3> HIDE DEF x, taken
    <3>2. t.mailbox \in [readers : Seq(Requests), messages : Seq(Message)] /\ t \in States
      BY <1>1 DEF Sound, States
    <3>3. y \in [readers : Seq(Requests), messages : Seq(Message)] /\ y.messages = x /\ y.readers = t.mailbox.readers
      BY <3>1, <3>2
    <3> HIDE DEF y
    <3>4. /\ taken \in States /\ taken.proc = t.proc /\ taken.memory = t.memory
          /\ taken.clusters = t.clusters /\ taken.waiters = t.waiters /\ taken.io = t.io
          /\ taken.attention = t.attention /\ taken.mailbox.readers = t.mailbox.readers
          /\ taken.mailbox.messages = x
      BY <3>1, <3>2, <3>3, MailboxSet
    <3> QED
      BY <3>4 DEF x
  <2>4. m.writer = None \/ m.writer \in Made(t)
    BY <1>1, <2>2, MailboxHolds
  <2> HIDE DEF taken, m
  <2>5. Quietly(t, taken)
    <3>1. /\ ToSet(taken.mailbox.readers) \subseteq Made(t)
          /\ \A e \in ToSet(taken.mailbox.messages) : e.writer = None \/ e.writer \in Made(t)
      BY <1>1, <2>2, <2>3, MailboxHolds
    <3> QED
      BY <1>1, <2>3, <3>1, MailboxQuiet
  <2>6. Quietly(taken, a)
    BY <2>3, <2>4, <2>5, CompleteIOQuiet, QuietlyReflexive DEF Quietly, Made
  <2> HIDE DEF a
  <2>7. Quietly(a, b)
    BY <2>6, DeliverAttentionQuiet DEF Quietly, Attentions
  <2> HIDE DEF b
  <2>8. Quietly(b, c)
    BY <2>7, ResourceQuiet DEF Quietly
  <2> HIDE DEF c
  <2>9. Quietly(t, c)
    BY <2>5, <2>6, <2>7, <2>8, QuietlyTransitive
  <2>10. Quietly(c, u)
    BY <1>1, <2>1, <2>9, ReceiveQuiet, StaysDone DEF Quietly
  <2> QED
    BY <1>1, <2>9, <2>10, QuietlyTransitive
<1>3. CASE t.mailbox.messages = <<>> /\ now
  <2>1. u = CompleteIO(t, r)
    BY <1>3 DEF ReadMailbox
  <2> HIDE DEF t
  <2> QED
    BY <1>1, <2>1, CompleteIOQuiet, QuietlyTransitive
<1>4. CASE t.mailbox.messages = <<>> /\ ~now
  <2> DEFINE a == [t EXCEPT !.mailbox.readers = Append(t.mailbox.readers, r)]
             b == DeliverAttention(a, "write")
  <2>1. u = MailboxResourceAvailable(b)
    BY <1>4 DEF ReadMailbox
  <2> HIDE DEF t
  <2>2. /\ Append(t.mailbox.readers, r) \in Seq(Requests)
        /\ ToSet(Append(t.mailbox.readers, r)) = ToSet(t.mailbox.readers) \cup {r}
    <3>1. t.mailbox.readers \in Seq(Requests) /\ r \in Requests
      BY <1>1, MailboxHolds DEF Made
    <3> QED
      BY <3>1, MembersOfAppend
  <2>3. /\ a \in States /\ a.proc = t.proc /\ a.memory = t.memory /\ a.clusters = t.clusters
        /\ a.waiters = t.waiters /\ a.io = t.io /\ a.attention = t.attention
        /\ a.mailbox.readers = Append(t.mailbox.readers, r) /\ a.mailbox.messages = t.mailbox.messages
    <3> DEFINE x == Append(t.mailbox.readers, r)
               y == [t.mailbox EXCEPT !.readers = x]
    <3>1. x \in Seq(Requests) /\ t \in States /\ a = [t EXCEPT !.mailbox = y]
      BY <1>1, <2>2 DEF Sound
    <3> HIDE DEF x, a
    <3>2. t.mailbox \in [readers : Seq(Requests), messages : Seq(Message)] /\ t \in States
      BY <1>1 DEF Sound, States
    <3>3. y \in [readers : Seq(Requests), messages : Seq(Message)] /\ y.readers = x /\ y.messages = t.mailbox.messages
      BY <3>1, <3>2
    <3> HIDE DEF y
    <3>4. /\ a \in States /\ a.proc = t.proc /\ a.memory = t.memory /\ a.clusters = t.clusters
          /\ a.waiters = t.waiters /\ a.io = t.io /\ a.attention = t.attention
          /\ a.mailbox.readers = x /\ a.mailbox.messages = t.mailbox.messages
      BY <3>1, <3>2, <3>3, MailboxSet
    <3> QED
      BY <3>4 DEF x
  <2> HIDE DEF a
  <2>4. Quietly(t, a)
    <3>1. /\ ToSet(a.mailbox.readers) \subseteq Made(t)
          /\ \A e \in ToSet(a.mailbox.messages) : e.writer = None \/ e.writer \in Made(t)
      BY <1>1, <2>2, <2>3, MailboxHolds
    <3> QED
      BY <1>1, <2>3, <3>1, MailboxQuiet
  <2>5. Quietly(a, b)
    BY <2>4, DeliverAttentionQuiet DEF Quietly, Attentions
  <2> HIDE DEF b
  <2>6. Quietly(b, u)
    BY <2>1, <2>5, ResourceQuiet DEF Quietly
  <2> QED
    BY <1>1, <2>4, <2>5, <2>6, QuietlyTransitive
<1> QED
  BY <1>2, <1>3, <1>4

\* A write leaves the request made.
LEMMA WriteMailboxQuiet ==
  ASSUME NEW s, Sound(s), NEW data \in DOMAIN Size \cup {None}, NEW now, NEW r \in Made(s),
         NEW u, u = WriteMailbox(s, data, now, r)
  PROVE  Quietly(s, u)
<1> DEFINE t == Pruned(s)
           m == [data |-> data, writer |-> IF now THEN None ELSE r]
           accepted == [t EXCEPT !.owed = Append(t.owed, m)]
<1>1. Quietly(s, t) /\ Sound(t) /\ r \in Made(t)
  BY PrunedQuiet, StaysDone DEF Quietly
<1>2. m \in Message /\ m.writer \in {None, r}
  BY DEF Message, Made
<1> HIDE DEF m
<1>3. /\ accepted \in States /\ accepted.proc = t.proc /\ accepted.memory = t.memory
      /\ accepted.clusters = t.clusters /\ accepted.waiters = t.waiters /\ accepted.io = t.io
      /\ accepted.attention = t.attention /\ accepted.mailbox = t.mailbox
  <2> DEFINE x == Append(t.owed, m)
  <2>1. t.owed \in Seq(Message)
    BY <1>1, MailboxHolds
  <2>2. x \in Seq(Message) /\ t \in States /\ accepted = [t EXCEPT !.owed = x]
    BY <1>1, <1>2, <2>1, MembersOfAppend DEF Sound
  <2> HIDE DEF x, accepted, t
  <2> QED
    BY <2>2, OwedSet
<1>4. Quietly(t, accepted)
  <2> HIDE DEF accepted, t
  <2>1. /\ ToSet(accepted.mailbox.readers) \subseteq Made(t)
        /\ \A e \in ToSet(accepted.mailbox.messages) : e.writer = None \/ e.writer \in Made(t)
    BY <1>1, <1>3, MailboxHolds
  <2> QED
    BY <1>1, <1>3, <2>1, MailboxQuiet
<1>5. Sound(accepted) /\ r \in Made(accepted) /\ Quietly(s, accepted)
  <2> HIDE DEF accepted, t
  <2> QED
    BY <1>1, <1>4, StaysDone, QuietlyTransitive DEF Quietly
<1>6. CASE t.mailbox.readers # <<>>
  <2> DEFINE a == [accepted EXCEPT !.mailbox.readers = Tail(accepted.mailbox.readers)]
             h == Head(t.mailbox.readers)
             b == Receive(a, h)
  <2>1. u = CompleteIO(b, r)
    BY <1>6, Zenon DEF WriteMailbox, m
  <2> HIDE DEF accepted, t
  <2>2. /\ accepted.mailbox.readers \in Seq(Requests) /\ accepted.mailbox.readers # <<>>
        /\ h = Head(accepted.mailbox.readers)
    BY <1>3, <1>5, <1>6, MailboxHolds
  <2>3. /\ Tail(accepted.mailbox.readers) \in Seq(Requests) /\ h \in ToSet(accepted.mailbox.readers)
        /\ ToSet(Tail(accepted.mailbox.readers)) \subseteq ToSet(accepted.mailbox.readers)
    BY <2>2, MembersOfTail
  <2>4. h \in Made(accepted)
    BY <1>5, <2>3, MailboxHolds
  <2> HIDE DEF h
  <2>5. Quietly(accepted, a)
    <3> DEFINE x == Tail(accepted.mailbox.readers)
               y == [accepted.mailbox EXCEPT !.readers = x]
    <3>1. x \in Seq(Requests) /\ a = [accepted EXCEPT !.mailbox = y]
      BY <2>3
    <3>2. ToSet(x) \subseteq Made(accepted)
      BY <1>5, <2>3, MailboxHolds
    <3> HIDE DEF x, a
    <3>3. accepted.mailbox \in [readers : Seq(Requests), messages : Seq(Message)] /\ accepted \in States
      BY <1>3 DEF States
    <3>4. y \in [readers : Seq(Requests), messages : Seq(Message)] /\ y.readers = x /\ y.messages = accepted.mailbox.messages
      BY <3>1, <3>3
    <3> HIDE DEF y
    <3>5. /\ a \in States /\ a.proc = accepted.proc /\ a.memory = accepted.memory
          /\ a.clusters = accepted.clusters /\ a.waiters = accepted.waiters /\ a.io = accepted.io
          /\ a.attention = accepted.attention /\ a.mailbox.readers = x
          /\ a.mailbox.messages = accepted.mailbox.messages
      BY <3>1, <3>3, <3>4, MailboxSet
    <3>6. \A e \in ToSet(a.mailbox.messages) : e.writer = None \/ e.writer \in Made(accepted)
      BY <1>5, <3>5, MailboxHolds
    <3> QED
      BY <1>5, <3>2, <3>5, <3>6, MailboxQuiet
  <2> HIDE DEF a
  <2>6. Quietly(a, b)
    BY <2>4, <2>5, StaysDone, ReceiveQuiet DEF Quietly
  <2> HIDE DEF b
  <2>7. Quietly(accepted, b)
    BY <2>5, <2>6, QuietlyTransitive
  <2>8. Quietly(b, u)
    BY <1>5, <2>1, <2>7, StaysDone, CompleteIOQuiet DEF Quietly
  <2> QED
    BY <1>5, <2>7, <2>8, QuietlyTransitive
<1>7. CASE t.mailbox.readers = <<>> /\ ~HasRoom(t, data)
  <2>1. u = CompleteIO(t, r)
    BY <1>7 DEF WriteMailbox
  <2> HIDE DEF t
  <2> QED
    BY <1>1, <2>1, CompleteIOQuiet, QuietlyTransitive
<1>8. CASE t.mailbox.readers = <<>> /\ HasRoom(t, data)
  <2> DEFINE a == [accepted EXCEPT !.mailbox.messages = Append(accepted.mailbox.messages, m)]
             queued == DeliverAttention(a, "read")
  <2>1. u = IF now THEN CompleteIO(queued, r) ELSE queued
    BY <1>8 DEF WriteMailbox, m
  <2> HIDE DEF accepted, t
  <2>2. /\ Append(accepted.mailbox.messages, m) \in Seq(Message)
        /\ ToSet(Append(accepted.mailbox.messages, m)) = ToSet(accepted.mailbox.messages) \cup {m}
    <3>1. accepted.mailbox.messages \in Seq(Message)
      BY <1>5, MailboxHolds
    <3> QED
      BY <1>2, <3>1, MembersOfAppend
  <2>3. Quietly(accepted, a)
    <3> DEFINE x == Append(accepted.mailbox.messages, m)
               y == [accepted.mailbox EXCEPT !.messages = x]
    <3>1. x \in Seq(Message) /\ a = [accepted EXCEPT !.mailbox = y]
      BY <2>2
    <3>2. \A e \in ToSet(x) : e.writer = None \/ e.writer \in Made(accepted)
      BY <1>2, <1>5, <2>2, MailboxHolds
    <3> HIDE DEF x, a
    <3>3. accepted.mailbox \in [readers : Seq(Requests), messages : Seq(Message)] /\ accepted \in States
      BY <1>3 DEF States
    <3>4. y \in [readers : Seq(Requests), messages : Seq(Message)] /\ y.messages = x /\ y.readers = accepted.mailbox.readers
      BY <3>1, <3>3
    <3> HIDE DEF y
    <3>5. /\ a \in States /\ a.proc = accepted.proc /\ a.memory = accepted.memory
          /\ a.clusters = accepted.clusters /\ a.waiters = accepted.waiters /\ a.io = accepted.io
          /\ a.attention = accepted.attention /\ a.mailbox.messages = x
          /\ a.mailbox.readers = accepted.mailbox.readers
      BY <3>1, <3>3, <3>4, MailboxSet
    <3>6. ToSet(a.mailbox.readers) \subseteq Made(accepted)
      BY <1>5, <3>5, MailboxHolds
    <3> QED
      BY <1>5, <3>2, <3>5, <3>6, MailboxQuiet
  <2> HIDE DEF a
  <2>4. Quietly(a, queued)
    BY <2>3, DeliverAttentionQuiet DEF Quietly, Attentions
  <2> HIDE DEF queued
  <2>5. Quietly(accepted, queued) /\ Quietly(s, queued)
    BY <1>5, <2>3, <2>4, QuietlyTransitive
  <2>6. CASE now
    <3>1. u = CompleteIO(queued, r)
      BY <2>1, <2>6
    <3> QED
      BY <1>5, <2>5, <3>1, StaysDone, CompleteIOQuiet, QuietlyTransitive DEF Quietly
  <2> QED
    BY <2>1, <2>5, <2>6
<1> QED
  BY <1>6, <1>7, <1>8

-----------------------------------------------------------------------------
(* Time and timers.                                                           *)

\* A sequence changed in its elements.
LEMMA MappedSeq ==
  ASSUME NEW T, NEW q \in Seq(T), NEW f, DOMAIN f = DOMAIN q, f = [i \in DOMAIN q |-> f[i]],
         \A i \in DOMAIN q : f[i] \in T
  PROVE  f \in Seq(T) /\ Len(f) = Len(q)
<1>1. DOMAIN q = 1 .. Len(q) /\ Len(q) \in Nat
  BY LenProperties
<1>2. f \in [1 .. Len(q) -> T]
  BY <1>1
<1>3. f \in Seq(T)
  BY <1>1, <1>2, SeqDef
<1>4. DOMAIN f = 1 .. Len(f) /\ Len(f) \in Nat
  BY <1>3, LenProperties
<1> QED
  BY <1>1, <1>3, <1>4

\* n ticks of the clock for one timer, and for a process.
Passed(t, n) == [t EXCEPT !.left = t.left - n]
Older(P, n) == [P EXCEPT !.timers = [i \in DOMAIN P.timers |-> Passed(P.timers[i], n)]]

\* Frames that fit go on fitting while calls and active modes stay.
LEMMA SameFrames ==
  ASSUME NEW P, NEW Q, Q.calls = P.calls, Q.active = P.active
  PROVE  FramesFit(P) => FramesFit(Q)
  BY DEF FramesFit

\* A process's timers changed.
LEMMA TimersPrivate ==
  ASSUME NEW P \in ProcessRecord, NEW f \in Seq(Timer), NEW Q, Q = [P EXCEPT !.timers = f]
  PROVE  Q \in ProcessRecord /\ Q.timers = f /\ Private(P, Q)
<1>1. Q \in ProcessRecord
  BY DEF ProcessRecord
<1>2. /\ Q.timers = f /\ Q.calls = P.calls /\ Q.active = P.active /\ Q.state = P.state
      /\ Q.waiting = P.waiting /\ Q.suspended = P.suspended /\ Q.marked = P.marked /\ Q.common = P.common
  BY DEF ProcessRecord
<1> QED
  BY <1>1, <1>2, SameFrames DEF Private

\* A process whose timers have run on is the same but for the time they have left.
LEMMA OlderIs ==
  ASSUME NEW P \in ProcessRecord, NEW n \in Int, NEW Q, Q = Older(P, n)
  PROVE  /\ Q \in ProcessRecord /\ Private(P, Q)
         /\ \A x \in ToSet(Q.timers) : \E y \in ToSet(P.timers) :
              x.own = y.own /\ x.left = y.left - n /\ y.left \in Int
<1> DEFINE f == [i \in DOMAIN P.timers |-> Passed(P.timers[i], n)]
<1>1. P.timers \in Seq(Timer)
  BY DEF ProcessRecord
<1>2. ASSUME NEW t \in Timer
      PROVE  Passed(t, n) \in Timer /\ Passed(t, n).own = t.own /\ Passed(t, n).left = t.left - n /\ t.left \in Int
  <2>1. t.left \in Int
    BY DEF Timer
  <2>2. \A m \in Int : [t EXCEPT !.left = m] \in Timer
    BY DEF Timer
  <2>3. \A m \in Int : [t EXCEPT !.left = m].own = t.own /\ [t EXCEPT !.left = m].left = m
    BY DEF Timer
  <2>4. t.left - n \in Int
    BY <2>1
  <2> QED
    BY <2>1, <2>2, <2>3, <2>4 DEF Passed
<1>3. \A i \in DOMAIN P.timers : P.timers[i] \in Timer
  BY <1>1, ElementOfSeq, LenProperties
<1>4. DOMAIN f = DOMAIN P.timers /\ \A i \in DOMAIN P.timers : f[i] = Passed(P.timers[i], n)
  OBVIOUS
<1>5. \A i \in DOMAIN P.timers : f[i] \in Timer
  BY <1>2, <1>3, <1>4
<1>6. f = [i \in DOMAIN P.timers |-> f[i]]
  BY <1>4
<1>7. Q = [P EXCEPT !.timers = f]
  BY DEF Older
<1> HIDE DEF f
<1>8. f \in Seq(Timer) /\ Len(f) = Len(P.timers)
  BY <1>1, <1>4, <1>5, <1>6, MappedSeq
<1>9. Q \in ProcessRecord /\ Q.timers = f /\ Private(P, Q)
  BY <1>7, <1>8, TimersPrivate
<1>10. ASSUME NEW x \in ToSet(f)
       PROVE  \E y \in ToSet(P.timers) : x.own = y.own /\ x.left = y.left - n /\ y.left \in Int
  <2>1. PICK i \in DOMAIN P.timers : x = f[i]
    BY <1>4 DEF ToSet
  <2>2. P.timers[i] \in ToSet(P.timers)
    BY <2>1 DEF ToSet
  <2> QED
    BY <1>2, <1>3, <1>4, <2>1, <2>2
<1> QED
  BY <1>9, <1>10

\* Time's passing is quiet, and takes the same off every timer.
LEMMA LaterQuiet ==
  ASSUME NEW s, Sound(s), NEW n \in Int, NEW t, t = Later(s, n)
  PROVE  /\ Quiet(s, t) /\ Sound(t)
         /\ \A p \in Processes : \A x \in ToSet(t.proc[p].timers) : \E y \in ToSet(s.proc[p].timers) :
              x.own = y.own /\ x.left = y.left - n /\ y.left \in Int
<1> DEFINE a == [p \in Processes |-> Older(s.proc[p], n)]
<1>1. s.proc \in [Processes -> ProcessRecord]
  BY DEF Sound, States
<1>2. t = [s EXCEPT !.proc = a]
  BY DEF Later, Older, Passed
<1>3. \A p \in Processes :
        /\ a[p] \in ProcessRecord /\ Private(s.proc[p], a[p])
        /\ \A x \in ToSet(a[p].timers) : \E y \in ToSet(s.proc[p].timers) :
             x.own = y.own /\ x.left = y.left - n /\ y.left \in Int
  <2> SUFFICES ASSUME NEW p \in Processes
               PROVE  /\ Older(s.proc[p], n) \in ProcessRecord /\ Private(s.proc[p], Older(s.proc[p], n))
                      /\ \A x \in ToSet(Older(s.proc[p], n).timers) : \E y \in ToSet(s.proc[p].timers) :
                           x.own = y.own /\ x.left = y.left - n /\ y.left \in Int
    OBVIOUS
  <2>1. s.proc[p] \in ProcessRecord
    BY <1>1
  <2> QED
    BY SMTT(30), <2>1, OlderIs
<1>4. a \in [Processes -> ProcessRecord]
  BY <1>3
<1> HIDE DEF a
<1>5. Quiet(s, t) /\ Sound(t) /\ t.proc = a
  BY <1>2, <1>3, <1>4, PrivateQuiet
<1> QED
  BY <1>3, <1>5

\* A process whose due timers fire.
LEMMA FiredBitsAre ==
  ASSUME NEW P \in ProcessRecord, NEW cluster \in {Local} \cup Clusters
  PROVE  FiredBits(P, cluster) \in SUBSET Nat
<1>1. P.timers \in Seq(Timer)
  BY DEF ProcessRecord
<1>2. \A t \in ToSet(P.timers) : t \in Timer
  BY <1>1, ElementOfSeq, LenProperties DEF ToSet
<1>3. \A t \in Timer : ~t.wake => t.efn \in Flag /\ t.efn.bit \in Nat
  BY DEF Timer, Flag
<1> QED
  BY <1>2, <1>3 DEF FiredBits, Due

\* Each timer at its next time.
LEMMA NextTimesAre ==
  ASSUME NEW q \in Seq(Timer), NEW f, f = [i \in DOMAIN q |-> NextTime(q[i])]
  PROVE  f \in Seq(Timer) /\ DOMAIN f = DOMAIN q
<1>1. \A i \in DOMAIN q : q[i] \in Timer
  BY ElementOfSeq, LenProperties
<1>2. \A t \in Timer : NextTime(t) \in Timer
  <2>1. ASSUME NEW t \in Timer
        PROVE  t.left \in Int /\ t.repeat \in Nat
    BY DEF Timer
  <2>2. ASSUME NEW t \in Timer, NEW n \in Int
        PROVE  [t EXCEPT !.left = n] \in Timer
    BY DEF Timer
  <2>3. ASSUME NEW t \in Timer, t.left <= 0 /\ t.repeat > 0
        PROVE  t.left + ((-t.left) \div t.repeat) * t.repeat + t.repeat \in Int
    BY <2>1, <2>3
  <2> QED
    BY <2>2, <2>3 DEF NextTime
<1>3. DOMAIN f = DOMAIN q /\ \A i \in DOMAIN q : f[i] \in Timer
  BY <1>1, <1>2
<1>4. f = [i \in DOMAIN q |-> f[i]]
  OBVIOUS
<1> QED
  BY <1>3, <1>4, MappedSeq

\* What remains of a timer queue is a timer queue.
LEMMA RemainingAre ==
  ASSUME NEW q \in Seq(Timer)
  PROVE  Remaining(q) \in Seq(Timer)
<1> DEFINE f == [i \in DOMAIN q |-> NextTime(q[i])]
           keep == {t \in ToSet(f) : t.left > 0}
<1>1. Remaining(q) = Those(f, keep)
  BY DEF Remaining
<1>2. f \in Seq(Timer)
  BY NextTimesAre
<1> HIDE DEF f, keep
<1> QED
  BY <1>1, <1>2, ThoseAre

\* What its due timers do to a process is private to it.
LEMMA FiredIs ==
  ASSUME NEW P \in ProcessRecord
  PROVE  Fired(P) \in ProcessRecord /\ Private(P, Fired(P)) /\ Fired(P).timers = Remaining(P.timers)
<1> DEFINE wakes == P.wakePending \/ \E t \in Due(P) : t.wake
           flags == P.local \cup FiredBits(P, Local)
           due(m) == {t \in Due(P) : ~t.wake /\ t.ast /\ t.mode = m}
           asts == [m \in Modes |-> P.asts[m] + Len(Those(P.timers, due(m)))]
           left == Remaining(P.timers)
<1>1. P.timers \in Seq(Timer) /\ P.local \in SUBSET Nat /\ P.asts \in [Modes -> Int]
  BY DEF ProcessRecord
<1>2. left \in Seq(Timer)
  BY <1>1, RemainingAre
<1>3. flags \in SUBSET Nat
  BY <1>1, FiredBitsAre
<1>4. ASSUME NEW m \in Modes
      PROVE  P.asts[m] + Len(Those(P.timers, due(m))) \in Int
  <2> DEFINE n == Len(Those(P.timers, due(m)))
  <2>1. Those(P.timers, due(m)) \in Seq(Timer)
    BY <1>1, ThoseAre
  <2>2. n \in Nat
    BY <2>1, LenProperties
  <2> HIDE DEF n
  <2>3. P.asts[m] + n \in Int
    BY <1>1, <2>2
  <2> QED
    BY <2>3 DEF n
<1>5. asts \in [Modes -> Int]
  BY <1>4
<1>6. wakes \in BOOLEAN
  BY DEF ProcessRecord
<1>7. Fired(P) = [P EXCEPT !.wakePending = wakes, !.local = flags, !.asts = asts, !.timers = left]
  BY DEF Fired
<1> HIDE DEF wakes, flags, asts, left
<1>8. Fired(P) \in ProcessRecord
  BY <1>2, <1>3, <1>5, <1>6, <1>7 DEF ProcessRecord
<1>9. /\ Fired(P).calls = P.calls /\ Fired(P).active = P.active /\ Fired(P).state = P.state
      /\ Fired(P).waiting = P.waiting /\ Fired(P).suspended = P.suspended
      /\ Fired(P).marked = P.marked /\ Fired(P).common = P.common /\ Fired(P).timers = left
  BY <1>7 DEF ProcessRecord
<1> QED
  BY <1>8, <1>9, SameFrames DEF Private, left

\* The flags of the common clusters changed.
LEMMA ClustersQuiet ==
  ASSUME NEW s, Sound(s), NEW a \in [Names -> Cluster \cup {None}],
         \A n \in Names : ClusterKept(s.clusters[n], a[n]), NEW t, t = [s EXCEPT !.clusters = a]
  PROVE  Quietly(s, t) /\ t.proc = s.proc
<1>1. s \in States /\ t \in States
  BY StateParts DEF Sound
<1>2. /\ t.proc = s.proc /\ t.memory = s.memory /\ t.clusters = a /\ t.waiters = s.waiters
      /\ t.io = s.io /\ t.mailbox = s.mailbox /\ t.attention = s.attention
  BY <1>1 DEF States
<1>3. \A p \in Processes : Kept(s.proc[p], t.proc[p])
  BY <1>2 DEF Kept
<1>4. \A r \in Requests : RequestKept(s.io[r], t.io[r])
  BY <1>2 DEF RequestKept
<1>5. (MailMade(s) => MailMade(t)) /\ (Counted(s) => Counted(t))
  BY <1>2 DEF MailMade, InMail, Made, Counted, Waiters, Waits
<1>6. Quiet(s, t)
  BY <1>2, <1>3, <1>4, <1>5 DEF Quiet
<1> QED
  BY <1>1, <1>2, <1>6, QuietKeeps DEF Quietly, SameTimers

\* Expiry is quiet, and touches no process whose timers are not looked at.
LEMMA ExpiredQuiet ==
  ASSUME NEW s, Sound(s), NEW ps \in SUBSET Processes, NEW t, t = Expired(s, ps)
  PROVE  /\ Quiet(s, t) /\ Sound(t)
         /\ \A q \in Processes : t.proc[q] = IF q \in ps THEN Fired(s.proc[q]) ELSE s.proc[q]
<1> DEFINE a == [p \in Processes |-> IF p \in ps THEN Fired(s.proc[p]) ELSE s.proc[p]]
           b == [n \in Names |-> IF s.clusters[n] = None THEN None
                                 ELSE [s.clusters[n] EXCEPT !.flags = s.clusters[n].flags \cup FiredIn(s, ps, n)]]
           u == [s EXCEPT !.proc = a]
<1>1. s \in States /\ s.proc \in [Processes -> ProcessRecord] /\ s.clusters \in [Names -> Cluster \cup {None}]
  BY DEF Sound, States
<1>2. \A p \in Processes : a[p] \in ProcessRecord /\ Private(s.proc[p], a[p])
  <2>1. \A P \in ProcessRecord : Private(P, P)
    BY DEF Private
  <2> QED
    BY <1>1, <2>1, FiredIs
<1>3. a \in [Processes -> ProcessRecord]
  BY <1>2
<1>4. \A n \in Names : FiredIn(s, ps, n) \in SUBSET Nat
  <2>1. \A p \in Processes : \A c \in Clusters : FiredBits(s.proc[p], c) \in SUBSET Nat
    BY <1>1, FiredBitsAre
  <2> QED
    BY <2>1 DEF FiredIn
<1>5. ASSUME NEW n \in Names
      PROVE  b[n] \in Cluster \cup {None} /\ ClusterKept(s.clusters[n], b[n])
  <2> DEFINE c == s.clusters[n]
             f == c.flags \cup FiredIn(s, ps, n)
  <2>1. CASE c = None
    BY <2>1 DEF ClusterKept
  <2>2. CASE c # None
    <3>1. c \in Cluster
      BY <1>1, <2>2
    <3>2. f \in SUBSET Nat
      BY <1>4, <3>1 DEF Cluster
    <3>3. b[n] = [c EXCEPT !.flags = f]
      BY <2>2
    <3> HIDE DEF c, f
    <3>4. [c EXCEPT !.flags = f] \in Cluster
      BY <3>1, <3>2 DEF Cluster
    <3>5. /\ [c EXCEPT !.flags = f].refs = c.refs /\ [c EXCEPT !.flags = f].permanent = c.permanent
          /\ [c EXCEPT !.flags = f].marked = c.marked
      BY <3>1 DEF Cluster
    <3>6. None \notin Cluster
      BY ProcessEventsAssumption
    <3> HIDE DEF b
    <3> QED
      BY <2>2, <3>3, <3>4, <3>5, <3>6 DEF ClusterKept, c
  <2> QED
    BY <2>1, <2>2
<1>6. b \in [Names -> Cluster \cup {None}]
  BY <1>5
<1>7. t = [s EXCEPT !.proc = a, !.clusters = b]
  BY DEF Expired
<1>8. \A q \in Processes : a[q] = IF q \in ps THEN Fired(s.proc[q]) ELSE s.proc[q]
  OBVIOUS
<1> HIDE DEF a, b
<1>9. t = [u EXCEPT !.clusters = b] /\ u.clusters = s.clusters
  BY <1>1, <1>7 DEF States
<1> HIDE DEF u
<1>10. Quiet(s, u) /\ Sound(u) /\ u.proc = a
  BY <1>2, <1>3, PrivateQuiet DEF u
<1>11. \A n \in Names : ClusterKept(u.clusters[n], b[n])
  BY <1>5, <1>9
<1>12. Quietly(u, t) /\ t.proc = u.proc
  BY <1>6, <1>9, <1>10, <1>11, ClustersQuiet
<1> QED
  BY <1>8, <1>10, <1>12, QuietTransitive DEF Quietly

\* Process p's timers expired: other processes' timers are as they were.
LEMMA ExpireTimersQuiet ==
  ASSUME NEW s, Sound(s), NEW p \in Processes, NEW t, t = ExpireTimers(s, p)
  PROVE  /\ Quiet(s, t) /\ Sound(t)
         /\ \A q \in Processes \ {p} : t.proc[q].timers = s.proc[q].timers
         /\ t.proc[p].timers = Remaining(s.proc[p].timers)
<1> DEFINE u == Expired(s, {p})
           ps == {p} \cup UNION {Associates(s, n) : n \in {n \in Names : FiredIn(s, {p}, n) # {}}}
<1>1. t = ReportTo(u, ps)
  BY DEF ExpireTimers
<1>2. ps \in SUBSET Processes
  BY DEF Associates, Present
<1> HIDE DEF u, ps
<1>3. /\ Quiet(s, u) /\ Sound(u) /\ \A q \in Processes \ {p} : u.proc[q] = s.proc[q]
      /\ u.proc[p] = Fired(s.proc[p])
  BY ExpiredQuiet DEF u
<1>4. Quietly(u, t)
  BY <1>1, <1>2, <1>3, ReportToQuiet
<1>5. u.proc[p].timers = Remaining(s.proc[p].timers)
  BY <1>3, FiredIs DEF Sound, States
<1> QED
  BY <1>3, <1>4, <1>5, QuietTransitive DEF Quietly, SameTimers

\* pollEvents, all of it, and quiet.
LEMMA PollEventsIs ==
  ASSUME NEW s
  PROVE  PollEvents(s) = WakeWaiters(Expired(s, Present(s)))
<1> DEFINE u == Expired(s, Present(s))
<1>1. \A v \in {WakeWaiters(w) : w \in {u}} : v = WakeWaiters(u)
  OBVIOUS
<1>2. WakeWaiters(u) \in {WakeWaiters(w) : w \in {u}}
  OBVIOUS
<1> QED
  BY <1>1, <1>2, Zenon DEF PollEvents

LEMMA PollEventsQuiet ==
  ASSUME NEW s, Sound(s), NEW t, t = PollEvents(s)
  PROVE  Quiet(s, t) /\ Sound(t)
<1> DEFINE u == Expired(s, Present(s))
<1>1. t = WakeWaiters(u)
  BY PollEventsIs
<1>2. Present(s) \in SUBSET Processes
  BY DEF Present
<1> HIDE DEF u
<1>3. Quiet(s, u) /\ Sound(u)
  BY <1>2, ExpiredQuiet DEF u
<1>4. Quietly(u, t)
  BY <1>1, <1>3, WakeWaitersQuiet
<1> QED
  BY <1>3, <1>4, QuietTransitive DEF Quietly

-----------------------------------------------------------------------------
(* What services change besides.                                              *)

\* The requests, the attentions and the memory changed.
LEMMA ElsewhereSound ==
  ASSUME NEW s, Sound(s), NEW t \in States,
         t.proc = s.proc, t.waiters = s.waiters, t.clusters = s.clusters, InMail(t) \subseteq Made(t),
         \A p \in Processes \ Present(s) : PendingIO(t, p) = {} /\ \A k \in Attentions : p \notin t.attention[k]
  PROVE  Sound(t)
<1>1. Present(t) = Present(s) /\ \A p : Subprocesses(t, p) = Subprocesses(s, p)
  BY DEF Present, Subprocesses
<1>2. Counted(t)
  BY DEF Sound, Counted, Waiters, Waits
<1>3. \A p \in Processes : ProcessFits(t.proc[p])
  BY DEF Sound
<1>4. \A n \in Names : ClusterFits(t, n)
  <2>1. \A n \in Names : Uses(t, n) = Uses(s, n)
    BY DEF Uses
  <2> QED
    BY <2>1 DEF Sound, ClusterFits
<1>5. \A p \in Processes : DeletionFits(t, p)
  BY <1>1 DEF Sound, DeletionFits, AwaitsSubprocesses, Waits
<1>6. \A p \in Processes \ Present(t) : NothingLeft(t, p)
  BY <1>1 DEF Sound, NothingLeft
<1>7. Console \in Present(t) /\ ~t.proc[Console].marked
  BY <1>1 DEF Sound
<1> QED
  BY <1>2, <1>3, <1>4, <1>5, <1>6, <1>7 DEF Sound, MailMade

\* The processes changed, but who has gone and who has which cluster.
LEMMA ProcessesSound ==
  ASSUME NEW s, Sound(s), NEW t \in States,
         t.clusters = s.clusters, t.io = s.io, t.mailbox = s.mailbox, t.attention = s.attention,
         \A p \in Processes : /\ ProcessFits(t.proc[p]) /\ t.proc[p].common = s.proc[p].common
                              /\ t.proc[p].state = "gone" <=> s.proc[p].state = "gone"
                              /\ DeletionFits(t, p),
         Counted(t), ~t.proc[Console].marked
  PROVE  Sound(t) /\ Present(t) = Present(s)
<1>1. Present(t) = Present(s) /\ \A p : Subprocesses(t, p) = Subprocesses(s, p)
  BY DEF Present, Subprocesses
<1>2. MailMade(t)
  BY DEF Sound, MailMade, InMail, Made
<1>3. \A n \in Names : ClusterFits(t, n)
  <2>1. \A n \in Names : Uses(t, n) = Uses(s, n)
    BY DEF Uses
  <2> QED
    BY <2>1 DEF Sound, ClusterFits
<1>4. \A p \in Processes \ Present(t) : NothingLeft(t, p)
  BY <1>1 DEF Sound, NothingLeft, PendingIO
<1>5. Console \in Present(t)
  BY <1>1 DEF Sound
<1> QED
  BY <1>1, <1>2, <1>3, <1>4, <1>5 DEF Sound

\* Forgetting the requests nobody awaits any more breaks nothing.
LEMMA CollectedSound ==
  ASSUME NEW s, Sound(s), NEW t, t = Collected(s)
  PROVE  Sound(t) /\ t.proc = s.proc /\ t.memory = s.memory /\ t.attention = s.attention
<1> DEFINE a == [r \in Requests |->
                   IF s.io[r] = None \/ ~s.io[r].done \/ InMailbox(s, r) \/ Awaited(s, r) THEN s.io[r] ELSE None]
<1>1. s \in States /\ s.io \in [Requests -> IORequest \cup {None}]
  BY DEF Sound, States
<1>2. a \in [Requests -> IORequest \cup {None}]
  BY <1>1
<1>3. t = [s EXCEPT !.io = a]
  BY DEF Collected
<1>4. \A r \in Requests : a[r] # s.io[r] => a[r] = None /\ s.io[r].done /\ ~InMailbox(s, r)
  OBVIOUS
<1> HIDE DEF a
<1>5. /\ t \in States /\ t.proc = s.proc /\ t.memory = s.memory /\ t.attention = s.attention
      /\ t.waiters = s.waiters /\ t.clusters = s.clusters /\ t.mailbox = s.mailbox /\ t.io = a
  BY <1>1, <1>2, <1>3 DEF States
<1>6. InMail(t) \subseteq Made(t)
  <2>1. InMail(t) = InMail(s) /\ InMail(s) \subseteq Made(s)
    BY <1>5 DEF Sound, MailMade, InMail
  <2>2. ASSUME NEW r \in InMail(s)
        PROVE  InMailbox(s, r)
    BY DEF InMail, InMailbox
  <2>3. \A r \in InMail(s) : r \in Requests /\ a[r] = s.io[r]
    BY <1>4, <2>1, <2>2 DEF Made
  <2> QED
    BY <1>5, <2>1, <2>3 DEF Made
<1>7. \A p \in Processes : PendingIO(t, p) = PendingIO(s, p)
  <2>1. \A r \in Requests : t.io[r] # s.io[r] => t.io[r] = None /\ s.io[r].done
    BY <1>4, <1>5
  <2> QED
    BY <2>1 DEF PendingIO
<1> QED
  BY <1>5, <1>6, <1>7, ElsewhereSound DEF Sound, NothingLeft

\* Memory given or freed.
LEMMA MemorySound ==
  ASSUME NEW s, Sound(s), NEW m \in SUBSET Processes, NEW t, t = [s EXCEPT !.memory = m]
  PROVE  Sound(t) /\ t.proc = s.proc /\ t.memory = m
<1>1. s \in States
  BY DEF Sound
<1>2. /\ t \in States /\ t.proc = s.proc /\ t.memory = m /\ t.attention = s.attention
      /\ t.waiters = s.waiters /\ t.clusters = s.clusters /\ t.mailbox = s.mailbox /\ t.io = s.io
  BY <1>1 DEF States
<1>3. InMail(t) \subseteq Made(t)
  BY <1>2 DEF Sound, MailMade, InMail, Made
<1>4. \A p \in Processes : PendingIO(t, p) = PendingIO(s, p)
  BY <1>2 DEF PendingIO
<1> QED
  BY <1>2, <1>3, <1>4, ElsewhereSound DEF Sound, NothingLeft

-----------------------------------------------------------------------------
(* A process changes its wait, its suspension or its mark.                    *)

\* Who is there, has which memory and which timers is the same.
Steadily(s, t) ==
  Sound(t) /\ Present(t) = Present(s) /\ t.memory = s.memory /\ SameTimers(s, t)

\* Steady steps one after another are steady.
LEMMA SteadilyTransitive ==
  ASSUME NEW s, NEW t, NEW u, Steadily(s, t), Steadily(t, u)
  PROVE  Steadily(s, u)
  BY DEF Steadily, SameTimers

\* A quiet step is steady, and marks nobody.
LEMMA QuietlySteadily ==
  ASSUME NEW s, NEW t, Quietly(s, t)
  PROVE  Steadily(s, t) /\ \A p \in Processes : t.proc[p].marked = s.proc[p].marked
  BY QuietPresent DEF Quietly, Quiet, Kept, Steadily

WaitStates == {"HIB", "LEF", "CEF", "MWAIT"}

\* Every wait has one of the four wait states.
LEMMA WaitStatesAre ==
  ASSUME NEW w \in Wait
  PROVE  WaitState(w) \in WaitStates /\ w # None
  BY ProcessEventsAssumption DEF Wait, WaitState, WaitStates

\* Entering a wait is sound, if who waits for subprocesses has marked them and a marked process
\* waits for nothing else.
LEMMA EnterWaitSound ==
  ASSUME NEW s, Sound(s), NEW p \in Present(s), NEW w \in Wait,
         w.kind = "subprocesses" => s.proc[p].marked /\ \A q \in Subprocesses(s, p) : s.proc[q].marked,
         s.proc[p].marked => w.kind = "subprocesses",
         NEW t, t = EnterWait(s, p, w)
  PROVE  /\ Steadily(s, t) /\ ~Computes(t, p)
         /\ \A q \in Processes : t.proc[q].marked = s.proc[q].marked
<1> DEFINE n == IF Waits(s, p) THEN s.waiters ELSE s.waiters + 1
           P == [s.proc[p] EXCEPT !.state = WaitState(w), !.waiting = w]
           a == [s.proc EXCEPT ![p] = P]
<1>1. p \in Processes /\ s \in States /\ s.proc \in [Processes -> ProcessRecord] /\ s.waiters \in Int
  BY DEF Sound, States, Present
<1>2. WaitState(w) \in WaitStates /\ w # None
  BY WaitStatesAre
<1>3. /\ P \in ProcessRecord /\ P.state = WaitState(w) /\ P.waiting = w /\ P.suspended = s.proc[p].suspended
      /\ P.marked = s.proc[p].marked /\ P.common = s.proc[p].common /\ P.timers = s.proc[p].timers
      /\ P.calls = s.proc[p].calls /\ P.active = s.proc[p].active
  <2> DEFINE R == s.proc[p]
             x == WaitState(w)
  <2>1. R \in ProcessRecord /\ x \in WaitStates
    BY <1>1, <1>2
  <2>2. P = [R EXCEPT !.state = x, !.waiting = w]
    OBVIOUS
  <2> HIDE DEF R, x, P
  <2>3. P \in ProcessRecord
    BY <2>1, <2>2 DEF ProcessRecord, WaitStates
  <2>4. /\ P.state = x /\ P.waiting = w /\ P.suspended = R.suspended /\ P.marked = R.marked
        /\ P.common = R.common /\ P.timers = R.timers /\ P.calls = R.calls /\ P.active = R.active
    BY <2>1, <2>2 DEF ProcessRecord
  <2> QED
    BY <2>3, <2>4 DEF R, x
<1>4. t = [s EXCEPT !.proc = a, !.waiters = n]
  BY <1>1 DEF EnterWait, States
<1>5. n \in Int
  BY <1>1
<1> HIDE DEF P, n
<1>6. /\ a \in [Processes -> ProcessRecord] /\ a[p] = P
      /\ \A q \in Processes \ {p} : a[q] = s.proc[q]
  BY <1>1, <1>3
<1> HIDE DEF a
<1>7. /\ t \in States /\ t.proc = a /\ t.waiters = n /\ t.memory = s.memory /\ t.clusters = s.clusters
      /\ t.io = s.io /\ t.mailbox = s.mailbox /\ t.attention = s.attention
  BY <1>1, <1>4, <1>5, <1>6 DEF States
<1>8. s.proc[p].state # "gone" /\ t.proc[p].state # "gone" /\ t.proc[p].state # "computable"
  BY <1>2, <1>3, <1>6, <1>7 DEF Present, WaitStates
<1>9. ProcessFits(t.proc[p])
  <2>1. FramesFit(s.proc[p])
    BY <1>1, <1>8 DEF Sound, ProcessFits
  <2>2. FramesFit(P)
    BY <1>3, <2>1, SameFrames
  <2> QED
    BY <1>2, <1>3, <1>6, <1>7, <1>8, <2>2 DEF ProcessFits, StateFits
<1>10. \A q \in Processes : ProcessFits(t.proc[q])
  BY <1>6, <1>7, <1>9 DEF Sound
<1>11. \A q \in Processes : /\ t.proc[q].common = s.proc[q].common
                            /\ t.proc[q].state = "gone" <=> s.proc[q].state = "gone"
                            /\ t.proc[q].marked = s.proc[q].marked
                            /\ t.proc[q].timers = s.proc[q].timers
  BY <1>3, <1>6, <1>7, <1>8
<1>12. Counted(t)
  <2>1. Waiters(t) = Waiters(s) \cup {p}
    BY <1>1, <1>2, <1>3, <1>6, <1>7 DEF Waiters, Waits
  <2>2. IsFiniteSet(Waiters(s)) /\ Cardinality(Waiters(s)) \in Nat /\ s.waiters = Cardinality(Waiters(s))
    BY WaitersFinite DEF Sound, Counted
  <2>3. CASE Waits(s, p)
    <3>1. Waiters(s) \cup {p} = Waiters(s)
      BY <1>1, <2>3 DEF Waiters
    <3> QED
      BY <1>7, <2>1, <2>2, <2>3, <3>1 DEF Counted, n
  <2>4. CASE ~Waits(s, p)
    <3>1. p \notin Waiters(s)
      BY <2>4 DEF Waiters
    <3>2. Cardinality(Waiters(s) \cup {p}) = Cardinality(Waiters(s)) + 1
      BY <2>2, <3>1, FS_AddElement
    <3> QED
      BY <1>7, <2>1, <2>2, <2>4, <3>2 DEF Counted, n
  <2> QED
    BY <2>3, <2>4
<1>13. ASSUME NEW q \in Processes
       PROVE  DeletionFits(t, q)
  <2>1. Subprocesses(t, q) = Subprocesses(s, q) /\ Subprocesses(s, q) \subseteq Processes
    BY <1>11 DEF Subprocesses, Present
  <2>2. CASE q = p
    BY <1>3, <1>6, <1>7, <1>11, <2>1, <2>2 DEF DeletionFits, AwaitsSubprocesses, Waits
  <2>3. CASE q # p
    <3>1. t.proc[q] = s.proc[q] /\ DeletionFits(s, q)
      BY <1>6, <1>7, <2>3 DEF Sound
    <3> QED
      BY <1>11, <2>1, <3>1 DEF DeletionFits, AwaitsSubprocesses, Waits
  <2> QED
    BY <2>2, <2>3
<1>14. Sound(t) /\ Present(t) = Present(s)
  <2>1. ~t.proc[Console].marked
    BY <1>11, ProcessesAssumption DEF Sound
  <2> QED
    BY <1>7, <1>10, <1>11, <1>12, <1>13, <2>1, ProcessesSound
<1> QED
  BY <1>7, <1>8, <1>11, <1>14 DEF Steadily, SameTimers, Computes

\* A process in a frame other than it was, but for that as it was.
LEMMA MarkedSame ==
  ASSUME NEW s, Sound(s), NEW p \in Processes, NEW P \in ProcessRecord,
         P.waiting = s.proc[p].waiting, P.marked = s.proc[p].marked, P.common = s.proc[p].common,
         P.state = "gone" <=> s.proc[p].state = "gone", P.timers = s.proc[p].timers, ProcessFits(P),
         NEW t, t = [s EXCEPT !.proc[p] = P]
  PROVE  /\ Steadily(s, t) /\ t.proc[p] = P
         /\ \A q \in Processes : t.proc[q].marked = s.proc[q].marked
<1> DEFINE a == [s.proc EXCEPT ![p] = P]
<1>1. s \in States /\ s.proc \in [Processes -> ProcessRecord]
  BY DEF Sound, States
<1>2. /\ t = [s EXCEPT !.proc = a] /\ a \in [Processes -> ProcessRecord] /\ a[p] = P
      /\ \A q \in Processes \ {p} : a[q] = s.proc[q]
  BY <1>1
<1> HIDE DEF a
<1>3. /\ t \in States /\ t.proc = a /\ t.waiters = s.waiters /\ t.memory = s.memory
      /\ t.clusters = s.clusters /\ t.io = s.io /\ t.mailbox = s.mailbox /\ t.attention = s.attention
  BY <1>1, <1>2 DEF States
<1>4. \A q \in Processes : /\ t.proc[q].waiting = s.proc[q].waiting /\ t.proc[q].marked = s.proc[q].marked
                           /\ t.proc[q].common = s.proc[q].common /\ t.proc[q].timers = s.proc[q].timers
                           /\ t.proc[q].state = "gone" <=> s.proc[q].state = "gone"
                           /\ ProcessFits(t.proc[q])
  BY <1>2, <1>3 DEF Sound
<1>5. Counted(t)
  <2>1. Waiters(t) = Waiters(s)
    BY <1>4 DEF Waiters, Waits
  <2> QED
    BY <1>3, <2>1 DEF Sound, Counted
<1>6. ASSUME NEW q \in Processes
      PROVE  DeletionFits(t, q)
  <2>1. DeletionFits(s, q)
    BY DEF Sound
  <2>2. Subprocesses(t, q) = Subprocesses(s, q) /\ Subprocesses(s, q) \subseteq Processes
    BY <1>4 DEF Subprocesses, Present
  <2> QED
    BY <1>4, <2>1, <2>2 DEF DeletionFits, AwaitsSubprocesses, Waits
<1>7. ~t.proc[Console].marked
  BY <1>4, ProcessesAssumption DEF Sound
<1>8. Sound(t) /\ Present(t) = Present(s)
  BY <1>3, <1>4, <1>5, <1>6, <1>7, ProcessesSound
<1> QED
  BY <1>2, <1>3, <1>4, <1>8 DEF Steadily, SameTimers

\* $SUSPND's effect is sound.
LEMMA SuspendSound ==
  ASSUME NEW s, Sound(s), NEW p \in Present(s), NEW t, t = Suspend(s, p)
  PROVE  Steadily(s, t) /\ \A q \in Processes : t.proc[q].marked = s.proc[q].marked
<1>1. p \in Processes /\ s.proc[p] \in ProcessRecord /\ s.proc[p].state # "gone" /\ ProcessFits(s.proc[p])
  BY DEF Sound, States, Present
<1>2. CASE s.proc[p].suspended
  BY <1>2, QuietlyReflexive, QuietlySteadily DEF Suspend
<1>3. CASE ~s.proc[p].suspended
  <2> DEFINE R == s.proc[p]
             x == IF R.waiting # None THEN R.state ELSE "SUSP"
             P == [R EXCEPT !.suspended = TRUE, !.state = x]
  <2>1. t = [s EXCEPT !.proc[p] = P]
    BY <1>3 DEF Suspend, Waits
  <2>2. P \in ProcessRecord
    BY <1>1 DEF ProcessRecord
  <2> HIDE DEF x
  <2>3. /\ P.state = x /\ P.suspended = TRUE /\ P.waiting = R.waiting /\ P.marked = R.marked
        /\ P.common = R.common /\ P.timers = R.timers /\ P.calls = R.calls /\ P.active = R.active
    BY <1>1 DEF ProcessRecord
  <2> HIDE DEF P
  <2>4. x # "gone" /\ FramesFit(R) /\ StateFits(R)
    BY <1>1 DEF ProcessFits, x
  <2>5. FramesFit(P)
    BY <2>3, <2>4, SameFrames
  <2>6. ProcessFits(P)
    BY <1>1, <2>3, <2>4, <2>5 DEF ProcessFits, StateFits, x
  <2> QED
    BY <1>1, <2>1, <2>2, <2>3, <2>4, <2>6, MarkedSame
<1> QED
  BY <1>2, <1>3

\* A resumed process fits, and keeps its wait.
LEMMA ResumedIs ==
  ASSUME NEW P \in ProcessRecord, ProcessFits(P), P.state # "gone", NEW Q, Q = Resumed(P)
  PROVE  /\ Q \in ProcessRecord /\ ProcessFits(Q) /\ Q.state # "gone" /\ ~Q.suspended
         /\ Q.waiting = P.waiting /\ Q.marked = P.marked /\ Q.common = P.common
         /\ Q.timers = P.timers
<1>1. CASE ~P.suspended
  BY <1>1 DEF Resumed
<1>2. CASE P.suspended
  <2> DEFINE x == IF P.waiting # None THEN P.state ELSE "computable"
             R == [P EXCEPT !.suspended = FALSE, !.state = x]
  <2>1. Q = R
    BY <1>2 DEF Resumed
  <2>2. R \in ProcessRecord
    BY DEF ProcessRecord
  <2> HIDE DEF x
  <2>3. /\ R.state = x /\ R.suspended = FALSE /\ R.waiting = P.waiting /\ R.marked = P.marked
        /\ R.common = P.common /\ R.timers = P.timers /\ R.calls = P.calls /\ R.active = P.active
    BY DEF ProcessRecord
  <2> HIDE DEF R
  <2>4. x # "gone" /\ FramesFit(P) /\ StateFits(P)
    BY DEF ProcessFits, x
  <2>5. FramesFit(R)
    BY <2>3, <2>4, SameFrames
  <2>6. ProcessFits(R)
    BY <2>3, <2>4, <2>5 DEF ProcessFits, StateFits, x
  <2> QED
    BY <2>1, <2>2, <2>3, <2>4, <2>6
<1> QED
  BY <1>1, <1>2

\* $RESUME's effect is sound.
LEMMA ResumeSound ==
  ASSUME NEW s, Sound(s), NEW p \in Present(s), NEW t, t = Resume(s, p)
  PROVE  Steadily(s, t) /\ \A q \in Processes : t.proc[q].marked = s.proc[q].marked
<1> DEFINE P == Resumed(s.proc[p])
<1>1. p \in Processes /\ s.proc[p] \in ProcessRecord /\ s.proc[p].state # "gone" /\ ProcessFits(s.proc[p])
  BY DEF Sound, States, Present
<1>2. t = [s EXCEPT !.proc[p] = P]
  BY DEF Resume
<1> HIDE DEF P
<1>3. /\ P \in ProcessRecord /\ ProcessFits(P) /\ P.state # "gone"
      /\ P.waiting = s.proc[p].waiting /\ P.marked = s.proc[p].marked /\ P.common = s.proc[p].common
      /\ P.timers = s.proc[p].timers
  BY <1>1, ResumedIs DEF P
<1> QED
  BY <1>1, <1>2, <1>3, MarkedSame

\* A process marked for deletion fits, and is not suspended.
LEMMA MarkedIs ==
  ASSUME NEW P \in ProcessRecord, ProcessFits(P), P.state # "gone",
         NEW Q, Q = [Resumed(P) EXCEPT !.marked = TRUE]
  PROVE  /\ Q \in ProcessRecord /\ ProcessFits(Q) /\ Q.state # "gone" /\ ~Q.suspended /\ Q.marked
         /\ Q.waiting = P.waiting /\ Q.common = P.common /\ Q.timers = P.timers
<1> DEFINE R == Resumed(P)
<1>1. /\ R \in ProcessRecord /\ ProcessFits(R) /\ R.state # "gone" /\ ~R.suspended
      /\ R.waiting = P.waiting /\ R.common = P.common /\ R.timers = P.timers
  BY ResumedIs
<1> HIDE DEF R
<1>2. Q \in ProcessRecord
  BY <1>1 DEF ProcessRecord, R
<1>3. /\ Q.state = R.state /\ Q.suspended = R.suspended /\ Q.waiting = R.waiting /\ Q.marked = TRUE
      /\ Q.common = R.common /\ Q.timers = R.timers /\ Q.calls = R.calls /\ Q.active = R.active
  BY <1>1 DEF ProcessRecord, R
<1>4. FramesFit(Q)
  BY <1>1, <1>3, SameFrames DEF ProcessFits
<1> QED
  BY <1>1, <1>2, <1>3, <1>4 DEF ProcessFits, StateFits

\* The end of a wait that is not ignored.
LEMMA EndedIs ==
  ASSUME NEW P \in ProcessRecord, ProcessFits(P), P.state # "gone", ~P.suspended,
         NEW Q, Q = [P EXCEPT !.waiting = None, !.state = "computable"]
  PROVE  /\ Q \in ProcessRecord /\ ProcessFits(Q) /\ Q.state = "computable" /\ Q.waiting = None
         /\ Q.suspended = P.suspended /\ Q.marked = P.marked /\ Q.common = P.common /\ Q.timers = P.timers
<1>1. Q \in ProcessRecord
  BY DEF ProcessRecord
<1>2. /\ Q.state = "computable" /\ Q.suspended = P.suspended /\ Q.waiting = None /\ Q.marked = P.marked
      /\ Q.common = P.common /\ Q.timers = P.timers /\ Q.calls = P.calls /\ Q.active = P.active
  BY DEF ProcessRecord
<1>3. FramesFit(Q)
  BY <1>2, SameFrames DEF ProcessFits
<1> QED
  BY <1>1, <1>2, <1>3 DEF ProcessFits, StateFits

\* markForDeletion is sound, and marks those it is given and nobody else.
LEMMA MarkForDeletionSound ==
  ASSUME NEW s, Sound(s), NEW ps, Console \notin ps, NEW t, t = MarkForDeletion(s, ps)
  PROVE  /\ Steadily(s, t)
         /\ \A p \in Processes : /\ t.proc[p].marked <=> s.proc[p].marked \/ p \in ps \cap Present(s)
                                 /\ p \notin ps => t.proc[p] = s.proc[p]
<1> DEFINE U == Unmarked(s, ps)
           W == {p \in U : Waits(s, p)}
           u == Marked(s, ps)
           m(p) == [Resumed(s.proc[p]) EXCEPT !.marked = TRUE]
           a == [p \in Processes |->
                   IF p \in W THEN [m(p) EXCEPT !.waiting = None, !.state = "computable"]
                   ELSE IF p \in U THEN m(p) ELSE s.proc[p]]
<1>1. s \in States /\ s.proc \in [Processes -> ProcessRecord] /\ s.waiters \in Int
  BY DEF Sound, States
<1>2. U \in SUBSET Processes /\ W \in SUBSET U /\ W \in SUBSET Waiters(s)
  BY DEF Unmarked, Present, Waiters
<1>3. \A p \in U : s.proc[p].state # "gone" /\ ~s.proc[p].marked /\ p \in ps
  BY DEF Unmarked, Present
<1>4. /\ u.proc = [p \in Processes |-> IF p \in U THEN m(p) ELSE s.proc[p]]
      /\ u.waiters = s.waiters /\ u = [s EXCEPT !.proc = u.proc]
  BY <1>1 DEF Marked, States
<1>5. ASSUME NEW p \in U
      PROVE  /\ a[p] \in ProcessRecord /\ ProcessFits(a[p]) /\ a[p].state # "gone" /\ a[p].marked
             /\ a[p].waiting = None /\ a[p].common = s.proc[p].common /\ a[p].timers = s.proc[p].timers
  <2> DEFINE M == m(p)
  <2>1. s.proc[p] \in ProcessRecord /\ ProcessFits(s.proc[p]) /\ s.proc[p].state # "gone" /\ p \in Processes
    BY <1>1, <1>2, <1>3 DEF Sound
  <2>2. /\ M \in ProcessRecord /\ ProcessFits(M) /\ M.state # "gone" /\ ~M.suspended /\ M.marked
        /\ M.waiting = s.proc[p].waiting /\ M.common = s.proc[p].common /\ M.timers = s.proc[p].timers
    BY <2>1, MarkedIs
  <2>3. a[p] = IF p \in W THEN [M EXCEPT !.waiting = None, !.state = "computable"] ELSE M
    BY <2>1
  <2>4. p \in W <=> M.waiting # None
    BY <2>2 DEF Waits
  <2> HIDE DEF M, a, W
  <2>5. CASE p \in W
    BY <2>2, <2>3, <2>5, EndedIs
  <2>6. CASE p \notin W
    BY <2>2, <2>3, <2>4, <2>6
  <2> QED
    BY <2>5, <2>6
<1>6. \A p \in Processes \ U : a[p] = s.proc[p]
  BY <1>2
<1>7. a \in [Processes -> ProcessRecord]
  <2>1. \A p \in Processes : a[p] \in ProcessRecord
    BY <1>1, <1>5, <1>6
  <2> QED
    BY <2>1
<1>8. t.proc = a
  <2>1. t.proc = [p \in Processes |->
                    IF p \in W THEN [u.proc[p] EXCEPT !.waiting = None, !.state = "computable"] ELSE u.proc[p]]
    BY <1>1, <1>4 DEF MarkForDeletion, EndWaits, States
  <2> QED
    BY <1>2, <1>4, <2>1, Zenon
<1> HIDE DEF m, a, W, U
<1>9. t = [s EXCEPT !.proc = a, !.waiters = s.waiters - Cardinality(W)]
  BY <1>1, <1>4, <1>8 DEF MarkForDeletion, EndWaits, States, W, U
<1>10. Cardinality(Waiters(s) \ W) = s.waiters - Cardinality(W) /\ s.waiters - Cardinality(W) \in Int
  <2>1. IsFiniteSet(Waiters(s)) /\ W \in SUBSET Waiters(s) /\ s.waiters = Cardinality(Waiters(s))
    BY <1>2, WaitersFinite DEF Sound, Counted
  <2>2. /\ Cardinality(Waiters(s) \ W) = Cardinality(Waiters(s)) - Cardinality(W)
        /\ Cardinality(Waiters(s) \ W) \in Nat
    BY <2>1, CountWithout
  <2> QED
    BY <2>1, <2>2
<1>11. /\ t \in States /\ t.waiters = s.waiters - Cardinality(W) /\ t.memory = s.memory
       /\ t.clusters = s.clusters /\ t.io = s.io /\ t.mailbox = s.mailbox /\ t.attention = s.attention
  BY <1>1, <1>7, <1>9, <1>10 DEF States
<1>12. \A p \in Processes : /\ t.proc[p].common = s.proc[p].common /\ t.proc[p].timers = s.proc[p].timers
                            /\ t.proc[p].state = "gone" <=> s.proc[p].state = "gone"
                            /\ ProcessFits(t.proc[p])
  BY <1>3, <1>5, <1>6, <1>8 DEF Sound
<1>13. Counted(t)
  <2>1. \A p \in W : t.proc[p].waiting = None
    BY <1>2, <1>5, <1>8
  <2>2. \A p \in Processes \ W : Waits(t, p) <=> Waits(s, p)
    <3>1. \A p \in U : t.proc[p].waiting = None
      BY <1>5, <1>8
    <3>2. \A p \in U \ W : ~Waits(s, p)
      BY DEF W
    <3> QED
      BY <1>6, <1>8, <3>1, <3>2 DEF Waits
  <2>3. Waiters(t) = Waiters(s) \ W
    BY <2>1, <2>2 DEF Waiters, Waits
  <2> QED
    BY <1>10, <1>11, <2>3, Zenon DEF Counted
<1>14. \A p \in Processes : (s.proc[p].marked => t.proc[p].marked) /\ (Waits(t, p) => t.proc[p] = s.proc[p])
  <2>1. \A p \in U : t.proc[p].marked /\ ~Waits(t, p)
    BY <1>5, <1>8 DEF Waits
  <2> QED
    BY <1>6, <1>8, <2>1
<1>15. ASSUME NEW p \in Processes
       PROVE  DeletionFits(t, p)
  <2>1. Subprocesses(t, p) = Subprocesses(s, p) /\ Subprocesses(s, p) \subseteq Processes
    BY <1>12 DEF Subprocesses, Present
  <2>2. DeletionFits(s, p)
    BY DEF Sound
  <2> QED
    BY <1>14, <2>1, <2>2 DEF DeletionFits, AwaitsSubprocesses, Waits
<1>16. ~t.proc[Console].marked
  <2>1. Console \in Processes \ U
    BY <1>3, ProcessesAssumption
  <2> QED
    BY <1>6, <1>8, <2>1 DEF Sound
<1>17. Sound(t) /\ Present(t) = Present(s)
  BY <1>11, <1>12, <1>13, <1>15, <1>16, ProcessesSound
<1>18. Steadily(s, t)
  BY <1>11, <1>12, <1>17 DEF Steadily, SameTimers
<1>19. ASSUME NEW p \in Processes
       PROVE  /\ t.proc[p].marked <=> s.proc[p].marked \/ p \in ps \cap Present(s)
              /\ p \notin ps => t.proc[p] = s.proc[p]
  <2>1. CASE p \in U
    BY <1>3, <1>5, <1>8, <2>1 DEF U, Unmarked
  <2>2. CASE p \notin U
    BY <1>6, <1>8, <2>2 DEF U, Unmarked
  <2> QED
    BY <2>1, <2>2
<1> QED
  BY <1>18, <1>19

-----------------------------------------------------------------------------
(* Clusters given up, and associated with.                                    *)

\* Who has which cluster changed, and the clusters with it.
LEMMA AssociationsSound ==
  ASSUME NEW s, Sound(s), NEW t \in States,
         t.io = s.io, t.mailbox = s.mailbox, t.attention = s.attention, t.waiters = s.waiters,
         t.memory = s.memory,
         \A p \in Processes : /\ ProcessFits(t.proc[p])
                              /\ t.proc[p].waiting = s.proc[p].waiting /\ t.proc[p].marked = s.proc[p].marked
                              /\ t.proc[p].timers = s.proc[p].timers
                              /\ t.proc[p].state = "gone" <=> s.proc[p].state = "gone",
         \A n \in Names : ClusterFits(t, n)
  PROVE  Steadily(s, t)
<1>1. Present(t) = Present(s) /\ \A p : Subprocesses(t, p) = Subprocesses(s, p)
  BY DEF Present, Subprocesses
<1>2. MailMade(t)
  BY DEF Sound, MailMade, InMail, Made
<1>3. Counted(t)
  BY DEF Sound, Counted, Waiters, Waits
<1>4. ASSUME NEW p \in Processes
      PROVE  DeletionFits(t, p)
  <2>1. DeletionFits(s, p) /\ Subprocesses(s, p) \subseteq Processes
    BY DEF Sound, Subprocesses, Present
  <2> QED
    BY <1>1, <2>1 DEF DeletionFits, AwaitsSubprocesses, Waits
<1>5. \A p \in Processes \ Present(t) : NothingLeft(t, p)
  BY <1>1 DEF Sound, NothingLeft, PendingIO
<1>6. Console \in Present(t) /\ ~t.proc[Console].marked
  BY <1>1, ProcessesAssumption DEF Sound
<1> QED
  BY <1>1, <1>2, <1>3, <1>4, <1>5, <1>6 DEF Sound, Steadily, SameTimers

\* A cluster has finitely many users.
LEMMA UsesFinite ==
  ASSUME NEW s, NEW n
  PROVE  IsFiniteSet(Uses(s, n)) /\ Cardinality(Uses(s, n)) \in Nat
<1>1. IsFiniteSet(Processes \X Clusters)
  BY FS_Product, ProcessEventsAssumption
<1>2. Uses(s, n) \in SUBSET (Processes \X Clusters)
  BY DEF Uses
<1> QED
  BY <1>1, <1>2, FS_Subset, FS_CardinalityType

\* Process p's associations given up are as many as the clusters' numbers it had.
LEMMA Given ==
  ASSUME NEW p, NEW cs \in SUBSET Clusters
  PROVE  Cardinality({p} \X cs) = Cardinality(cs) /\ Cardinality(cs) \in Nat
<1>1. IsFiniteSet(cs) /\ Cardinality(cs) \in Nat
  BY FS_Subset, FS_CardinalityType, ProcessEventsAssumption
<1>2. IsFiniteSet({p}) /\ Cardinality({p}) = 1
  BY FS_Singleton
<1>3. Cardinality({p} \X cs) = Cardinality({p}) * Cardinality(cs)
  BY <1>1, <1>2, FS_Product
<1> QED
  BY <1>1, <1>2, <1>3

Without(P, cs) == [P EXCEPT !.common = [c \in Clusters |-> IF c \in cs THEN None ELSE P.common[c]]]

\* A process that gives up clusters is the same but for these.
LEMMA WithoutIs ==
  ASSUME NEW P \in ProcessRecord, ProcessFits(P), NEW cs, NEW Q, Q = Without(P, cs)
  PROVE  /\ Q \in ProcessRecord /\ ProcessFits(Q) /\ Q.state = P.state /\ Q.waiting = P.waiting
         /\ Q.marked = P.marked /\ Q.timers = P.timers /\ Q.calls = P.calls
         /\ \A c \in Clusters : Q.common[c] = IF c \in cs THEN None ELSE P.common[c]
<1> DEFINE x == [c \in Clusters |-> IF c \in cs THEN None ELSE P.common[c]]
           R == [P EXCEPT !.common = x]
<1>1. Q = R
  BY DEF Without
<1>2. x \in [Clusters -> Names \cup {None}] /\ \A c \in Clusters : x[c] = IF c \in cs THEN None ELSE P.common[c]
  BY DEF ProcessRecord
<1> HIDE DEF x
<1>3. R \in ProcessRecord
  BY <1>2 DEF ProcessRecord
<1>4. /\ R.common = x /\ R.state = P.state /\ R.suspended = P.suspended /\ R.waiting = P.waiting
      /\ R.marked = P.marked /\ R.timers = P.timers /\ R.calls = P.calls /\ R.active = P.active
  BY DEF ProcessRecord
<1> HIDE DEF R
<1>5. FramesFit(P) => FramesFit(R)
  BY <1>4, SameFrames
<1>6. ProcessFits(R)
  BY <1>2, <1>4, <1>5 DEF ProcessFits, StateFits
<1> QED
  BY <1>1, <1>2, <1>3, <1>4, <1>6

\* Giving up clusters is sound: each loses as many references as the process had of it, and
\* goes if it had no other.
LEMMA DisassociateSound ==
  ASSUME NEW s, Sound(s), NEW p \in Processes, NEW cs \in SUBSET Clusters, NEW t, t = Disassociate(s, p, cs)
  PROVE  /\ Steadily(s, t) /\ t.io = s.io /\ t.mailbox = s.mailbox /\ t.attention = s.attention
         /\ t.waiters = s.waiters /\ t.proc[p] = Without(s.proc[p], cs)
         /\ \A q \in Processes \ {p} : t.proc[q] = s.proc[q]
         /\ \A n \in Names : (\A c \in cs : s.proc[p].common[c] # n) => t.clusters[n] = s.clusters[n]
<1> DEFINE had(n) == {c \in cs : s.proc[p].common[c] = n}
           k(n) == Cardinality(had(n))
           a == [s.proc EXCEPT ![p] = Without(s.proc[p], cs)]
           d(n) == [s.clusters[n] EXCEPT !.refs = s.clusters[n].refs - k(n)]
           b == [n \in Names |-> IF had(n) = {} THEN s.clusters[n] ELSE DeleteIfUnused(d(n))]
<1>1. s \in States /\ s.proc \in [Processes -> ProcessRecord] /\ s.clusters \in [Names -> Cluster \cup {None}]
  BY DEF Sound, States
<1>2. /\ Without(s.proc[p], cs) \in ProcessRecord /\ ProcessFits(Without(s.proc[p], cs))
      /\ Without(s.proc[p], cs).state = s.proc[p].state /\ Without(s.proc[p], cs).waiting = s.proc[p].waiting
      /\ Without(s.proc[p], cs).marked = s.proc[p].marked /\ Without(s.proc[p], cs).timers = s.proc[p].timers
      /\ \A c \in Clusters : Without(s.proc[p], cs).common[c] = IF c \in cs THEN None ELSE s.proc[p].common[c]
  BY <1>1, WithoutIs DEF Sound
<1>3. t = [s EXCEPT !.proc = a, !.clusters = b]
  BY <1>1 DEF Disassociate, Without, States
<1>4. /\ a \in [Processes -> ProcessRecord] /\ a[p] = Without(s.proc[p], cs)
      /\ \A q \in Processes \ {p} : a[q] = s.proc[q]
  BY <1>1, <1>2
<1> HIDE DEF a
<1>5. \A n \in Names : k(n) \in Nat /\ Cardinality({p} \X had(n)) = k(n) /\ had(n) \in SUBSET cs
  <2> SUFFICES ASSUME NEW n \in Names
               PROVE  k(n) \in Nat /\ Cardinality({p} \X had(n)) = k(n) /\ had(n) \in SUBSET cs
    OBVIOUS
  <2>1. had(n) \in SUBSET Clusters /\ had(n) \in SUBSET cs
    OBVIOUS
  <2> HIDE DEF had
  <2> QED
    BY <2>1, Given
<1>6. ASSUME NEW n \in Names, had(n) # {}
      PROVE  /\ s.clusters[n] \in Cluster /\ s.clusters[n].refs = Cardinality(Uses(s, n))
             /\ {p} \X had(n) \in SUBSET Uses(s, n)
  <2>1. {p} \X had(n) \in SUBSET Uses(s, n) /\ {p} \X had(n) # {}
    <3>1. \A c \in had(n) : c \in Clusters /\ s.proc[p].common[c] = n
      OBVIOUS
    <3> HIDE DEF had
    <3>2. \A u \in {p} \X had(n) : u[1] = p /\ u[2] \in had(n) /\ u = <<u[1], u[2]>>
      OBVIOUS
    <3>3. \A u \in {p} \X had(n) : u \in Processes \X Clusters /\ s.proc[u[1]].common[u[2]] = n
      BY <3>1, <3>2
    <3>4. PICK c \in had(n) : TRUE
      BY <1>6
    <3>5. <<p, c>> \in {p} \X had(n)
      BY <3>4
    <3> QED
      BY <3>3, <3>5 DEF Uses
  <2>2. ClusterFits(s, n)
    BY DEF Sound
  <2> QED
    BY <1>1, <2>1, <2>2 DEF ClusterFits
<1>7. ASSUME NEW n \in Names, had(n) # {}
      PROVE  /\ d(n) \in Cluster /\ d(n).refs = Cardinality(Uses(s, n) \ ({p} \X had(n))) /\ d(n).refs \in Nat
             /\ d(n).permanent = s.clusters[n].permanent /\ d(n).marked = s.clusters[n].marked
  <2> DEFINE c == s.clusters[n]
             x == c.refs - k(n)
             U == Uses(s, n)
             V == {p} \X had(n)
  <2>1. c \in Cluster /\ c.refs = Cardinality(U) /\ V \in SUBSET U /\ Cardinality(V) = k(n)
    BY <1>5, <1>6, <1>7
  <2>2. IsFiniteSet(U)
    BY UsesFinite
  <2> HIDE DEF U, V
  <2>3. Cardinality(U \ V) = Cardinality(U) - Cardinality(V) /\ Cardinality(U \ V) \in Nat
    BY <2>1, <2>2, CountWithout
  <2>4. x = Cardinality(U \ V) /\ x \in Nat
    BY <2>1, <2>3
  <2>5. d(n) = [c EXCEPT !.refs = x]
    OBVIOUS
  <2> HIDE DEF x, c, d
  <2>6. [c EXCEPT !.refs = x] \in Cluster
    BY <2>1, <2>4 DEF Cluster
  <2>7. /\ [c EXCEPT !.refs = x].refs = x /\ [c EXCEPT !.refs = x].permanent = c.permanent
        /\ [c EXCEPT !.refs = x].marked = c.marked
    BY <2>1 DEF Cluster
  <2> QED
    BY <2>4, <2>5, <2>6, <2>7 DEF c, U, V
<1>8. b \in [Names -> Cluster \cup {None}]
  <2>1. ASSUME NEW n \in Names
        PROVE  b[n] \in Cluster \cup {None}
    BY <1>1, <1>7 DEF DeleteIfUnused
  <2> QED
    BY <2>1
<1>9. \A n \in Names : b[n] = IF had(n) = {} THEN s.clusters[n] ELSE DeleteIfUnused(d(n))
  OBVIOUS
<1> HIDE DEF b
<1>10. /\ t \in States /\ t.proc = a /\ t.clusters = b /\ t.waiters = s.waiters /\ t.memory = s.memory
       /\ t.io = s.io /\ t.mailbox = s.mailbox /\ t.attention = s.attention
  BY <1>1, <1>3, <1>4, <1>8 DEF States
<1>11. ASSUME NEW n \in Names
       PROVE  Uses(t, n) = Uses(s, n) \ ({p} \X had(n))
  <2>1. n # None
    BY ProcessEventsAssumption
  <2>2. ASSUME NEW q \in Processes, NEW c \in Clusters
        PROVE  t.proc[q].common[c] = n <=> s.proc[q].common[c] = n /\ ~(q = p /\ c \in had(n))
    <3>1. CASE q = p
      BY <1>2, <1>4, <1>10, <2>1, <3>1
    <3>2. CASE q # p
      BY <1>4, <1>10, <3>2
    <3> QED
      BY <3>1, <3>2
  <2>3. Uses(t, n) \in SUBSET (Processes \X Clusters) /\ Uses(s, n) \in SUBSET (Processes \X Clusters)
    BY DEF Uses
  <2> HIDE DEF had
  <2>4. ASSUME NEW u \in Processes \X Clusters
        PROVE  u \in Uses(t, n) <=> u \in Uses(s, n) /\ u \notin {p} \X had(n)
    <3>1. u[1] \in Processes /\ u[2] \in Clusters /\ u = <<u[1], u[2]>>
      OBVIOUS
    <3>2. u \in {p} \X had(n) <=> u[1] = p /\ u[2] \in had(n)
      BY <3>1
    <3> QED
      BY <2>2, <3>1, <3>2 DEF Uses
  <2> QED
    BY <2>3, <2>4
<1>12. ASSUME NEW n \in Names
       PROVE  ClusterFits(t, n)
  <2>1. CASE had(n) = {}
    <3>1. Uses(t, n) = Uses(s, n) /\ t.clusters[n] = s.clusters[n] /\ ClusterFits(s, n)
      BY <1>9, <1>10, <1>11, <2>1 DEF Sound
    <3> QED
      BY <3>1 DEF ClusterFits
  <2>2. CASE had(n) # {}
    <3>1. t.clusters[n] = DeleteIfUnused(d(n))
      BY <1>9, <1>10, <2>2
    <3>2. d(n) \in Cluster /\ d(n).refs = Cardinality(Uses(t, n)) /\ d(n).refs \in Nat
      BY <1>7, <1>11, <2>2
    <3> HIDE DEF d, had
    <3>3. d(n).refs = 0 <=> Uses(t, n) = {}
      BY <3>2, UsesFinite, FS_EmptySet
    <3>4. d(n) # None
      BY <3>2, ProcessEventsAssumption
    <3> QED
      BY <3>1, <3>2, <3>3, <3>4 DEF ClusterFits, DeleteIfUnused, Cluster
  <2> QED
    BY <2>1, <2>2
<1> HIDE DEF d
<1>13. \A q \in Processes : /\ ProcessFits(t.proc[q])
                            /\ t.proc[q].waiting = s.proc[q].waiting /\ t.proc[q].marked = s.proc[q].marked
                            /\ t.proc[q].timers = s.proc[q].timers
                            /\ t.proc[q].state = "gone" <=> s.proc[q].state = "gone"
  BY <1>2, <1>4, <1>10 DEF Sound
<1>14. Steadily(s, t)
  BY <1>10, <1>12, <1>13, AssociationsSound
<1>15. \A n \in Names : (\A c \in cs : s.proc[p].common[c] # n) => t.clusters[n] = s.clusters[n]
  BY <1>9, <1>10
<1> QED
  BY <1>4, <1>10, <1>14, <1>15

-----------------------------------------------------------------------------
(* Deletion.                                                                  *)

\* A process that computes is there, in no wait and not suspended.
LEMMA ComputesIs ==
  ASSUME NEW s, Sound(s), NEW p \in Processes, Computes(s, p)
  PROVE  p \in Present(s) /\ ~Waits(s, p) /\ ~s.proc[p].suspended
<1>1. s.proc[p] \in ProcessRecord /\ StateFits(s.proc[p]) /\ s.proc[p].state = "computable"
  BY DEF Sound, States, ProcessFits, Computes
<1>2. s.proc[p].waiting # None => s.proc[p].waiting \in Wait
  BY <1>1 DEF ProcessRecord
<1>3. s.proc[p].waiting # None => WaitState(s.proc[p].waiting) # "computable"
  BY <1>2, WaitStatesAre DEF WaitStates
<1> QED
  BY <1>1, <1>3 DEF StateFits, Present, Waits

\* A process that has gone fits.
LEMMA NoProcessIs ==
  /\ NoProcess \in ProcessRecord /\ ProcessFits(NoProcess) /\ NoProcess.state = "gone"
  /\ NoProcess.waiting = None /\ ~NoProcess.marked /\ \A c \in Clusters : NoProcess.common[c] = None
<1> DEFINE f == [mode |-> User, ast |-> FALSE, doing |-> None]
           a == [m \in Modes |-> 0]
           x == [c \in Clusters |-> None]
           e == <<>>
           k == <<f>>
<1>1. a \in [Modes -> Int] /\ x \in [Clusters -> Names \cup {None}] /\ \A c \in Clusters : x[c] = None
  OBVIOUS
<1>2. e \in Seq(Frame) /\ e \in Seq(Timer)
  OBVIOUS
<1>3. NoProcess =
        [state |-> "gone", waiting |-> None, suspended |-> FALSE, marked |-> FALSE,
         wakePending |-> FALSE, calls |-> e, asts |-> a, enabled |-> Modes, active |-> {}, local |-> {},
         common |-> x, timers |-> e]
  <2>1. NewProcess =
          [state |-> "computable", waiting |-> None, suspended |-> FALSE, marked |-> FALSE,
           wakePending |-> FALSE, calls |-> k, asts |-> a, enabled |-> Modes, active |-> {}, local |-> {},
           common |-> x, timers |-> e]
    BY DEF NewProcess
  <2> HIDE DEF a, x, e, k
  <2>2. NoProcess = [NewProcess EXCEPT !.state = "gone", !.calls = e]
    BY DEF NoProcess, e
  <2> QED
    BY <2>1, <2>2
<1> HIDE DEF a, x, e
<1>4. NoProcess \in ProcessRecord
  BY <1>1, <1>2, <1>3 DEF ProcessRecord
<1>5. /\ NoProcess.state = "gone" /\ NoProcess.waiting = None /\ NoProcess.marked = FALSE /\ NoProcess.common = x
  BY <1>3
<1> QED
  BY <1>1, <1>4, <1>5 DEF ProcessFits, StateFits

Gone(s, p, m) ==
  [s EXCEPT !.waiters = IF Waits(s, p) THEN s.waiters - 1 ELSE s.waiters, !.proc[p] = NoProcess, !.memory = m]

\* Who has neither requests, attentions, clusters nor subprocesses may go.
LEMMA GoneSound ==
  ASSUME NEW s, Sound(s), NEW p \in Present(s) \ {Console}, Subprocesses(s, p) = {}, PendingIO(s, p) = {},
         \A k \in Attentions : p \notin s.attention[k], \A c \in Clusters : s.proc[p].common[c] = None,
         NEW m \in SUBSET Processes,
         NEW t, t = Gone(s, p, m)
  PROVE  /\ Sound(t) /\ Present(t) = Present(s) \ {p} /\ t.memory = m /\ t.proc[p] = NoProcess
         /\ \A q \in Processes \ {p} : t.proc[q] = s.proc[q]
<1> DEFINE n == IF Waits(s, p) THEN s.waiters - 1 ELSE s.waiters
           a == [s.proc EXCEPT ![p] = NoProcess]
<1>1. p \in Processes /\ s \in States /\ s.proc \in [Processes -> ProcessRecord] /\ s.waiters \in Int
  BY DEF Sound, States, Present
<1>2. /\ a \in [Processes -> ProcessRecord] /\ a[p] = NoProcess
      /\ \A q \in Processes \ {p} : a[q] = s.proc[q]
  BY <1>1, NoProcessIs
<1>3. t = [s EXCEPT !.waiters = n, !.proc = a, !.memory = m]
  BY DEF Gone
<1>4. n \in Int
  BY <1>1
<1> HIDE DEF a, n
<1>5. /\ t \in States /\ t.proc = a /\ t.waiters = n /\ t.memory = m /\ t.clusters = s.clusters
      /\ t.io = s.io /\ t.mailbox = s.mailbox /\ t.attention = s.attention
  BY <1>1, <1>2, <1>3, <1>4 DEF States
<1>6. t.proc[p] = NoProcess /\ \A q \in Processes \ {p} : t.proc[q] = s.proc[q]
  BY <1>2, <1>5
<1>7. Present(t) = Present(s) \ {p} /\ \A q : Subprocesses(t, q) = Subprocesses(s, q) \ {p}
  BY <1>6, NoProcessIs DEF Present, Subprocesses
<1>8. MailMade(t)
  BY <1>5 DEF Sound, MailMade, InMail, Made
<1>9. Counted(t)
  <2>1. Waiters(t) = Waiters(s) \ {p}
    BY <1>6, NoProcessIs DEF Waiters, Waits
  <2>2. IsFiniteSet(Waiters(s)) /\ Cardinality(Waiters(s)) \in Nat /\ s.waiters = Cardinality(Waiters(s))
    BY WaitersFinite DEF Sound, Counted
  <2>3. CASE Waits(s, p)
    <3>1. p \in Waiters(s)
      BY <1>1, <2>3 DEF Waiters
    <3>2. Cardinality(Waiters(s) \ {p}) = Cardinality(Waiters(s)) - 1
      BY <2>2, <3>1, FS_RemoveElement
    <3> QED
      BY <1>5, <2>1, <2>2, <2>3, <3>2 DEF Counted, n
  <2>4. CASE ~Waits(s, p)
    <3>1. Waiters(s) \ {p} = Waiters(s)
      BY <2>4 DEF Waiters
    <3> QED
      BY <1>5, <2>1, <2>2, <2>4, <3>1 DEF Counted, n
  <2> QED
    BY <2>3, <2>4
<1>10. \A q \in Processes : ProcessFits(t.proc[q])
  BY <1>6, NoProcessIs DEF Sound
<1>11. ASSUME NEW x \in Names
       PROVE  ClusterFits(t, x)
  <2>1. x # None
    BY ProcessEventsAssumption
  <2>2. \A q \in Processes : \A c \in Clusters : t.proc[q].common[c] = s.proc[q].common[c]
    BY <1>6, NoProcessIs
  <2>3. Uses(t, x) = Uses(s, x)
    BY <2>2 DEF Uses
  <2> QED
    BY <1>5, <2>3 DEF Sound, ClusterFits
<1>12. ASSUME NEW q \in Processes
       PROVE  DeletionFits(t, q)
  <2>1. CASE q = p
    BY <1>6, <2>1, NoProcessIs DEF DeletionFits, AwaitsSubprocesses, Waits
  <2>2. CASE q # p
    <3>1. DeletionFits(s, q) /\ t.proc[q] = s.proc[q]
      BY <1>6, <2>2 DEF Sound
    <3>2. \A r \in Subprocesses(t, q) : r \in Subprocesses(s, q) /\ t.proc[r] = s.proc[r]
      BY <1>6, <1>7 DEF Subprocesses, Present
    <3> QED
      BY <3>1, <3>2 DEF DeletionFits, AwaitsSubprocesses, Waits
  <2> QED
    BY <2>1, <2>2
<1>13. ASSUME NEW q \in Processes \ Present(t)
       PROVE  NothingLeft(t, q)
  <2>1. PendingIO(t, q) = PendingIO(s, q)
    BY <1>5 DEF PendingIO
  <2>2. CASE q = p
    BY <1>5, <1>7, <2>1, <2>2 DEF NothingLeft
  <2>3. CASE q # p
    BY <1>5, <1>7, <2>1, <2>3 DEF Sound, NothingLeft
  <2> QED
    BY <2>2, <2>3
<1>14. Console \in Present(t) /\ ~t.proc[Console].marked
  BY <1>6, <1>7, ProcessesAssumption DEF Sound
<1> QED
  BY <1>5, <1>6, <1>7, <1>8, <1>9, <1>10, <1>11, <1>12, <1>13, <1>14 DEF Sound

\* Rundown of a process without subprocesses is sound, and takes that process alone.
LEMMA RundownSound ==
  ASSUME NEW s, Sound(s), NEW p \in Present(s) \ {Console}, Subprocesses(s, p) = {}, NEW current,
         NEW t, t = Rundown(s, p, current)
  PROVE  /\ Sound(t) /\ Present(t) = Present(s) \ {p}
         /\ p = current => t.memory = s.memory
         /\ p # current => t.memory = s.memory \ {p}
         /\ \A q \in Processes \ {p} : t.proc[q].marked = s.proc[q].marked /\ t.proc[q].timers = s.proc[q].timers
<1> DEFINE u == CancelIO(s, p)
           v == Disassociate(u, p, Clusters)
           m == IF p = current THEN v.memory ELSE v.memory \ {p}
<1>1. p \in Processes
  BY DEF Present
<1>2. t = Gone(v, p, m)
  BY DEF Rundown, Gone
<1> HIDE DEF u, m
<1>3. /\ Quietly(s, u) /\ PendingIO(u, p) = {} /\ \A k \in Attentions : p \notin u.attention[k]
  BY <1>1, CancelIOQuiet DEF u
<1>4. /\ Present(u) = Present(s) /\ Subprocesses(u, p) = {} /\ Steadily(s, u)
      /\ \A q \in Processes : u.proc[q].marked = s.proc[q].marked
  BY <1>3, QuietPresent, QuietlySteadily DEF Quietly
<1>5. /\ Steadily(u, v) /\ v.io = u.io /\ v.attention = u.attention
      /\ v.proc[p] = Without(u.proc[p], Clusters) /\ \A q \in Processes \ {p} : v.proc[q] = u.proc[q]
  BY <1>1, <1>3, DisassociateSound DEF Quietly
<1> HIDE DEF v
<1>6. Sound(v) /\ p \in Present(v) \ {Console} /\ Subprocesses(v, p) = {} /\ PendingIO(v, p) = {}
  BY <1>3, <1>4, <1>5 DEF Steadily, Subprocesses, PendingIO
<1>7. \A c \in Clusters : v.proc[p].common[c] = None
  <2>1. u.proc[p] \in ProcessRecord /\ ProcessFits(u.proc[p])
    BY <1>1, <1>3 DEF Quietly, Sound, States
  <2> QED
    BY <1>5, <2>1, WithoutIs
<1>8. m \in SUBSET Processes /\ (p = current => m = s.memory) /\ (p # current => m = s.memory \ {p})
  BY <1>4, <1>5, <1>6 DEF m, Steadily, Sound, States
<1>9. \A k \in Attentions : p \notin v.attention[k]
  BY <1>3, <1>5
<1>10. /\ Sound(t) /\ Present(t) = Present(v) \ {p} /\ t.memory = m
       /\ \A q \in Processes \ {p} : t.proc[q] = v.proc[q]
  BY <1>2, <1>6, <1>7, <1>8, <1>9, GoneSound
<1> QED
  BY <1>4, <1>5, <1>8, <1>10 DEF Steadily, SameTimers

MarkedAt(s, p) == [s EXCEPT !.proc[p].marked = TRUE]

\* A process that waits for nothing is marked where it is.
LEMMA MarkSound ==
  ASSUME NEW s, Sound(s), NEW p \in Present(s) \ {Console}, ~Waits(s, p),
         NEW t, t = MarkedAt(s, p)
  PROVE  /\ Steadily(s, t) /\ t.proc[p].marked
         /\ \A q \in Processes \ {p} : t.proc[q] = s.proc[q]
<1> DEFINE R == s.proc[p]
           P == [R EXCEPT !.marked = TRUE]
           a == [s.proc EXCEPT ![p] = P]
<1>1. p \in Processes /\ s \in States /\ s.proc \in [Processes -> ProcessRecord] /\ R \in ProcessRecord
  BY DEF Sound, States, Present
<1>2. /\ P \in ProcessRecord /\ P.marked = TRUE /\ P.state = R.state /\ P.waiting = R.waiting
      /\ P.suspended = R.suspended /\ P.common = R.common /\ P.timers = R.timers /\ P.calls = R.calls
      /\ P.active = R.active
  BY <1>1 DEF ProcessRecord
<1>3. t = [s EXCEPT !.proc = a]
  BY DEF MarkedAt
<1> HIDE DEF P
<1>4. a \in [Processes -> ProcessRecord] /\ a[p] = P /\ \A q \in Processes \ {p} : a[q] = s.proc[q]
  BY <1>1, <1>2
<1> HIDE DEF a
<1>5. /\ t \in States /\ t.proc = a /\ t.waiters = s.waiters /\ t.memory = s.memory
      /\ t.clusters = s.clusters /\ t.io = s.io /\ t.mailbox = s.mailbox /\ t.attention = s.attention
  BY <1>1, <1>3, <1>4 DEF States
<1>6. ProcessFits(P)
  <2>1. FramesFit(R) => FramesFit(P)
    BY <1>2, SameFrames
  <2> QED
    BY <1>1, <1>2, <2>1 DEF Sound, ProcessFits, StateFits
<1>7. \A q \in Processes : /\ t.proc[q].waiting = s.proc[q].waiting /\ t.proc[q].common = s.proc[q].common
                           /\ t.proc[q].state = s.proc[q].state /\ t.proc[q].timers = s.proc[q].timers
                           /\ ProcessFits(t.proc[q]) /\ (s.proc[q].marked => t.proc[q].marked)
  BY <1>2, <1>4, <1>5, <1>6 DEF Sound
<1>8. Counted(t)
  <2>1. Waiters(t) = Waiters(s)
    BY <1>7 DEF Waiters, Waits
  <2> QED
    BY <1>5, <2>1 DEF Sound, Counted
<1>9. ASSUME NEW q \in Processes
      PROVE  DeletionFits(t, q)
  <2>1. DeletionFits(s, q)
    BY DEF Sound
  <2>2. Subprocesses(t, q) = Subprocesses(s, q) /\ Subprocesses(s, q) \subseteq Processes
    BY <1>7 DEF Subprocesses, Present
  <2>3. Waits(t, q) => Waits(s, q) /\ t.proc[q] = s.proc[q]
    BY <1>4, <1>5, <1>7 DEF Waits
  <2> QED
    BY <1>7, <2>1, <2>2, <2>3 DEF DeletionFits, AwaitsSubprocesses, Waits
<1>10. ~t.proc[Console].marked
  BY <1>4, <1>5, ProcessesAssumption DEF Sound
<1>11. Sound(t) /\ Present(t) = Present(s)
  <2>1. \A q \in Processes : /\ ProcessFits(t.proc[q]) /\ t.proc[q].common = s.proc[q].common
                             /\ t.proc[q].state = "gone" <=> s.proc[q].state = "gone"
                             /\ DeletionFits(t, q)
    BY <1>7, <1>9
  <2> HIDE DEF R
  <2> QED
    BY <1>5, <1>8, <1>10, <2>1, ProcessesSound
<1> QED
  BY <1>2, <1>4, <1>5, <1>7, <1>11 DEF Steadily, SameTimers

\* A process that marks its subprocesses and waits for them leaves a sound state.
LEMMA AwaitSubprocessesSound ==
  ASSUME NEW s, Sound(s), NEW p \in Present(s) \ {Console}, ~Waits(s, p), NEW t, t = AwaitSubprocesses(s, p)
  PROVE  Steadily(s, t) /\ ~Computes(t, p)
<1> DEFINE ps == Subprocesses(s, p)
           u == MarkForDeletion(s, ps)
           v == MarkedAt(u, p)
           w == [kind |-> "subprocesses"]
<1>1. p \in Processes /\ Console \notin ps /\ p \notin ps /\ ps \subseteq Present(s) /\ ps \subseteq Processes
  BY ProcessesAssumption DEF Present, Subprocesses
<1>2. t = EnterWait(v, p, w)
  BY DEF AwaitSubprocesses, MarkedAt
<1>3. w \in Wait /\ w.kind = "subprocesses"
  BY DEF Wait
<1> HIDE DEF ps, u, v, w
<1>4. /\ Steadily(s, u) /\ u.proc[p] = s.proc[p] /\ \A q \in ps : u.proc[q].marked
  BY <1>1, MarkForDeletionSound DEF u
<1>5. Sound(u) /\ p \in Present(u) \ {Console} /\ ~Waits(u, p) /\ v = MarkedAt(u, p)
  BY <1>4 DEF Steadily, Waits, v
<1>6. Steadily(u, v) /\ v.proc[p].marked /\ \A q \in Processes \ {p} : v.proc[q] = u.proc[q]
  BY <1>5, MarkSound
<1>7. Subprocesses(v, p) = ps
  BY <1>4, <1>6 DEF Subprocesses, Steadily, ps
<1>8. Sound(v) /\ p \in Present(v) /\ \A q \in Subprocesses(v, p) : v.proc[q].marked
  BY <1>1, <1>4, <1>5, <1>6, <1>7 DEF Steadily
<1>9. Steadily(v, t) /\ ~Computes(t, p)
  BY <1>2, <1>3, <1>6, <1>8, EnterWaitSound
<1> QED
  BY <1>4, <1>6, <1>9, SteadilyTransitive

\* deleteProcess of a process in no wait is sound: it goes, or waits for its subprocesses.
LEMMA DeleteProcessSound ==
  ASSUME NEW s, Sound(s), NEW p \in Present(s) \ {Console}, ~Waits(s, p), NEW current,
         NEW t, t = DeleteProcess(s, p, current)
  PROVE  /\ Sound(t) /\ ~Computes(t, p)
         /\ \/ Present(t) = Present(s) /\ t.memory = s.memory /\ SameTimers(s, t)
            \/ /\ Present(t) = Present(s) \ {p}
               /\ p = current => t.memory = s.memory
               /\ p # current => t.memory = s.memory \ {p}
         /\ \A q \in Processes \ {p} : t.proc[q].timers = s.proc[q].timers
<1>1. CASE Subprocesses(s, p) = {}
  <2>1. t = Rundown(s, p, current)
    BY <1>1 DEF DeleteProcess
  <2>2. /\ Sound(t) /\ Present(t) = Present(s) \ {p}
        /\ p = current => t.memory = s.memory
        /\ p # current => t.memory = s.memory \ {p}
        /\ \A q \in Processes \ {p} : t.proc[q].timers = s.proc[q].timers
    BY <1>1, <2>1, RundownSound
  <2>3. ~Computes(t, p)
    BY <2>2 DEF Present, Computes
  <2> QED
    BY <2>2, <2>3
<1>2. CASE Subprocesses(s, p) # {}
  <2>1. t = AwaitSubprocesses(s, p)
    BY <1>2 DEF DeleteProcess
  <2>2. Steadily(s, t) /\ ~Computes(t, p)
    BY <2>1, AwaitSubprocessesSound
  <2> QED
    BY <2>2 DEF Steadily, SameTimers
<1> QED
  BY <1>1, <1>2

-----------------------------------------------------------------------------
(* Clusters made, associated with, and marked for deletion.                   *)

\* Process p, which has none by that number, has the cluster n by the number c.
Associated(s, p, c, n, d) ==
  [s EXCEPT !.clusters[n] = [d EXCEPT !.refs = d.refs + 1], !.proc[p].common[c] = n]

With(P, c, n) == [P EXCEPT !.common[c] = n]

\* A process that gains a cluster is the same but for this.
LEMMA WithIs ==
  ASSUME NEW P \in ProcessRecord, ProcessFits(P), P.state # "gone", NEW c \in Clusters, NEW n \in Names,
         NEW Q, Q = With(P, c, n)
  PROVE  /\ Q \in ProcessRecord /\ ProcessFits(Q) /\ Q.state = P.state /\ Q.waiting = P.waiting
         /\ Q.marked = P.marked /\ Q.timers = P.timers
         /\ \A d \in Clusters : Q.common[d] = IF d = c THEN n ELSE P.common[d]
<1> DEFINE x == [P.common EXCEPT ![c] = n]
           R == [P EXCEPT !.common = x]
<1>1. Q = R
  BY DEF With
<1>2. P.common \in [Clusters -> Names \cup {None}]
  BY DEF ProcessRecord
<1>3. x \in [Clusters -> Names \cup {None}] /\ \A d \in Clusters : x[d] = IF d = c THEN n ELSE P.common[d]
  BY <1>2
<1> HIDE DEF x
<1>4. R \in ProcessRecord
  BY <1>3 DEF ProcessRecord
<1>5. /\ R.common = x /\ R.state = P.state /\ R.suspended = P.suspended /\ R.waiting = P.waiting
      /\ R.marked = P.marked /\ R.timers = P.timers /\ R.calls = P.calls /\ R.active = P.active
  BY DEF ProcessRecord
<1> HIDE DEF R
<1>6. FramesFit(P) => FramesFit(R)
  BY <1>5, SameFrames
<1>7. ProcessFits(R)
  BY <1>5, <1>6 DEF ProcessFits, StateFits
<1> QED
  BY <1>1, <1>3, <1>4, <1>5, <1>7

\* Associating a cluster is sound: the count goes up by the use that is added.
LEMMA AssociatedSound ==
  ASSUME NEW s, Sound(s), NEW p \in Present(s), NEW c \in Clusters, s.proc[p].common[c] = None,
         NEW n \in Names, NEW d \in Cluster,
         s.clusters[n] = None => d.refs = 0, s.clusters[n] # None => d = s.clusters[n],
         NEW t, t = Associated(s, p, c, n, d)
  PROVE  Steadily(s, t) /\ \A q \in Processes : t.proc[q].marked = s.proc[q].marked
<1> DEFINE e == [d EXCEPT !.refs = d.refs + 1]
           b == [s.clusters EXCEPT ![n] = e]
           a == [s.proc EXCEPT ![p] = With(s.proc[p], c, n)]
           U == Uses(s, n)
<1>1. /\ s \in States /\ s.proc \in [Processes -> ProcessRecord] /\ p \in Processes
      /\ s.clusters \in [Names -> Cluster \cup {None}] /\ s.proc[p].state # "gone"
  BY DEF Sound, States, Present
<1>2. t = [s EXCEPT !.clusters = b, !.proc = a]
  BY DEF Associated, With
<1>3. d.refs \in Int /\ e \in Cluster /\ e.refs = d.refs + 1
  BY DEF Cluster
<1> HIDE DEF e
<1>4. b \in [Names -> Cluster \cup {None}] /\ b[n] = e /\ \A m \in Names \ {n} : b[m] = s.clusters[m]
  BY <1>1, <1>3
<1>5. /\ With(s.proc[p], c, n) \in ProcessRecord /\ ProcessFits(With(s.proc[p], c, n))
      /\ With(s.proc[p], c, n).state = s.proc[p].state /\ With(s.proc[p], c, n).waiting = s.proc[p].waiting
      /\ With(s.proc[p], c, n).marked = s.proc[p].marked /\ With(s.proc[p], c, n).timers = s.proc[p].timers
      /\ \A x \in Clusters : With(s.proc[p], c, n).common[x] = IF x = c THEN n ELSE s.proc[p].common[x]
  <2>1. s.proc[p] \in ProcessRecord /\ ProcessFits(s.proc[p])
    BY <1>1 DEF Sound
  <2> QED
    BY <1>1, <2>1, WithIs
<1>6. /\ a \in [Processes -> ProcessRecord] /\ a[p] = With(s.proc[p], c, n)
      /\ \A q \in Processes \ {p} : a[q] = s.proc[q]
  BY <1>1, <1>5
<1> HIDE DEF a, b
<1>7. /\ t \in States /\ t.proc = a /\ t.clusters = b /\ t.waiters = s.waiters /\ t.memory = s.memory
      /\ t.io = s.io /\ t.mailbox = s.mailbox /\ t.attention = s.attention
  BY <1>1, <1>2, <1>4, <1>6 DEF States
<1>8. \A q \in Processes : \A x \in Clusters :
        t.proc[q].common[x] = IF q = p /\ x = c THEN n ELSE s.proc[q].common[x]
  BY <1>5, <1>6, <1>7
<1>9. n # None /\ None \notin Cluster /\ \A m \in Names : m # None
  BY ProcessEventsAssumption
<1>10. <<p, c>> \notin U
  BY <1>9 DEF Uses
<1>11. Uses(t, n) = U \cup {<<p, c>>}
  <2>1. ASSUME NEW u \in Processes \X Clusters
        PROVE  u \in Uses(t, n) <=> u \in U \/ u = <<p, c>>
    <3>1. u[1] \in Processes /\ u[2] \in Clusters /\ u = <<u[1], u[2]>>
      OBVIOUS
    <3>2. u = <<p, c>> <=> u[1] = p /\ u[2] = c
      BY <3>1
    <3> QED
      BY <1>8, <3>1, <3>2 DEF Uses
  <2>2. Uses(t, n) \subseteq Processes \X Clusters /\ U \subseteq Processes \X Clusters
    BY DEF Uses
  <2>3. <<p, c>> \in Processes \X Clusters
    BY <1>1
  <2> QED
    BY <2>1, <2>2, <2>3
<1>12. Cardinality(U \cup {<<p, c>>}) = Cardinality(U) + 1 /\ Cardinality(U) \in Nat
  BY <1>10, UsesFinite, FS_AddElement
<1>13. d.refs = Cardinality(U)
  <2>1. ClusterFits(s, n)
    BY DEF Sound
  <2>2. CASE s.clusters[n] = None
    BY <2>1, <2>2, FS_EmptySet DEF ClusterFits
  <2>3. CASE s.clusters[n] # None
    BY <2>1, <2>3 DEF ClusterFits
  <2> QED
    BY <2>2, <2>3
<1>14. ClusterFits(t, n)
  <2>1. t.clusters[n].refs = Cardinality(Uses(t, n))
    BY <1>3, <1>4, <1>7, <1>11, <1>12, <1>13
  <2>2. Uses(t, n) # {} /\ t.clusters[n] # None
    BY <1>3, <1>4, <1>7, <1>9, <1>11
  <2> QED
    BY <2>1, <2>2 DEF ClusterFits
<1>15. ASSUME NEW m \in Names, m # n
       PROVE  ClusterFits(t, m)
  <2>1. \A u \in Processes \X Clusters : t.proc[u[1]].common[u[2]] = m <=> s.proc[u[1]].common[u[2]] = m
    <3> SUFFICES ASSUME NEW q \in Processes, NEW x \in Clusters
                 PROVE  t.proc[q].common[x] = m <=> s.proc[q].common[x] = m
      OBVIOUS
    <3> QED
      BY <1>8, <1>9, <1>15
  <2>2. Uses(t, m) = Uses(s, m)
    BY <2>1 DEF Uses
  <2>3. t.clusters[m] = s.clusters[m] /\ ClusterFits(s, m)
    BY <1>4, <1>7, <1>15 DEF Sound
  <2> QED
    BY <2>2, <2>3 DEF ClusterFits
<1>16. \A q \in Processes : /\ ProcessFits(t.proc[q])
                            /\ t.proc[q].waiting = s.proc[q].waiting /\ t.proc[q].marked = s.proc[q].marked
                            /\ t.proc[q].timers = s.proc[q].timers
                            /\ t.proc[q].state = "gone" <=> s.proc[q].state = "gone"
  BY <1>5, <1>6, <1>7 DEF Sound
<1>17. \A m \in Names : ClusterFits(t, m)
  BY <1>14, <1>15
<1>18. Steadily(s, t)
  BY <1>7, <1>16, <1>17, AssociationsSound
<1> QED
  BY <1>16, <1>18

\* A cluster marked is deleted at once if nobody has it.
LEMMA ClusterMarkedSound ==
  ASSUME NEW s, Sound(s), NEW n \in Names, s.clusters[n] # None,
         NEW x, x = DeleteIfUnused([s.clusters[n] EXCEPT !.marked = TRUE]),
         NEW t, t = [s EXCEPT !.clusters[n] = x]
  PROVE  Steadily(s, t) /\ t.proc = s.proc
<1> DEFINE c == s.clusters[n]
           d == [c EXCEPT !.marked = TRUE]
           y == DeleteIfUnused(d)
           b == [s.clusters EXCEPT ![n] = y]
<1>1. s \in States /\ s.clusters \in [Names -> Cluster \cup {None}] /\ c \in Cluster
  BY DEF Sound, States
<1>2. t = [s EXCEPT !.clusters = b]
  OBVIOUS
<1>3. d \in Cluster /\ d.refs = c.refs /\ d.marked = TRUE /\ d.permanent = c.permanent
  BY <1>1 DEF Cluster
<1>4. ClusterFits(s, n)
  BY DEF Sound
<1>5. y \in Cluster \cup {None} /\ (y = None <=> c.refs <= 0) /\ (y # None => y = d)
  BY <1>3, ProcessEventsAssumption DEF DeleteIfUnused
<1> HIDE DEF d, y
<1>6. b \in [Names -> Cluster \cup {None}] /\ b[n] = y /\ \A m \in Names \ {n} : b[m] = s.clusters[m]
  BY <1>1, <1>5
<1> HIDE DEF b
<1>7. /\ t \in States /\ t.proc = s.proc /\ t.clusters = b /\ t.waiters = s.waiters /\ t.memory = s.memory
      /\ t.io = s.io /\ t.mailbox = s.mailbox /\ t.attention = s.attention
  BY <1>1, <1>2, <1>6 DEF States
<1>8. \A m \in Names : Uses(t, m) = Uses(s, m)
  BY <1>7 DEF Uses
<1>9. c.refs = Cardinality(Uses(s, n)) /\ Cardinality(Uses(s, n)) \in Nat
      /\ (Cardinality(Uses(s, n)) = 0 <=> Uses(s, n) = {})
  BY <1>4, UsesFinite, FS_EmptySet DEF ClusterFits
<1>10. ClusterFits(t, n)
  <2>1. t.clusters[n] = y /\ Uses(t, n) = Uses(s, n)
    BY <1>6, <1>7, <1>8
  <2> QED
    BY <1>3, <1>5, <1>9, <2>1 DEF ClusterFits
<1>11. \A m \in Names \ {n} : ClusterFits(t, m)
  <2> SUFFICES ASSUME NEW m \in Names \ {n}
               PROVE  ClusterFits(t, m)
    OBVIOUS
  <2>1. t.clusters[m] = s.clusters[m] /\ Uses(t, m) = Uses(s, m) /\ ClusterFits(s, m)
    BY <1>6, <1>7, <1>8 DEF Sound
  <2> QED
    BY <2>1 DEF ClusterFits
<1>12. \A q \in Processes : ProcessFits(t.proc[q])
  BY <1>7 DEF Sound
<1>13. \A m \in Names : ClusterFits(t, m)
  BY <1>10, <1>11
<1> QED
  BY <1>7, <1>12, <1>13, AssociationsSound

-----------------------------------------------------------------------------
(* The routines a process is in.                                              *)

\* The stack of calls is never empty, and no routine under the last is in a more privileged mode.
LEMMA CallsAre ==
  ASSUME NEW P, P.calls \in Seq(Frame), FramesFit(P)
  PROVE  /\ DOMAIN P.calls = 1 .. Len(P.calls) /\ Len(P.calls) \in Nat /\ Len(P.calls) >= 1
         /\ \A i \in DOMAIN P.calls : P.calls[i] \in Frame /\ P.calls[i].mode \in {0, 1} /\ P.calls[i].ast \in BOOLEAN
         /\ Last(P.calls) = P.calls[Len(P.calls)] /\ Last(P.calls) \in Frame
         /\ \A i \in DOMAIN P.calls : Last(P.calls).mode <= P.calls[i].mode
<1> DEFINE q == P.calls
           n == Len(P.calls)
<1>1. DOMAIN q = 1 .. n /\ n \in Nat /\ q # <<>> /\ n # 0
  BY LenProperties, EmptySeq DEF FramesFit
<1>2. \A i \in 1 .. n : q[i] \in Frame
  BY ElementOfSeq
<1>3. \A f \in Frame : f.mode \in {0, 1} /\ f.ast \in BOOLEAN
  BY DEF Frame, Modes, Kernel, User
<1>4. Last(q) = q[n]
  BY DEF Last
<1>5. \A i \in 1 .. n : i < n => q[n].mode <= q[i].mode
  BY <1>1 DEF FramesFit
<1> HIDE DEF q, n
<1>6. \A i \in 1 .. n : q[n].mode <= q[i].mode
  <2> SUFFICES ASSUME NEW i \in 1 .. n PROVE q[n].mode <= q[i].mode
    OBVIOUS
  <2>1. i = n \/ i < n
    BY <1>1
  <2>2. q[i].mode \in {0, 1}
    BY <1>2, <1>3
  <2> QED
    BY <1>5, <2>1, <2>2
<1>7. n >= 1 /\ n \in 1 .. n
  BY <1>1
<1> QED
  BY <1>1, <1>2, <1>3, <1>4, <1>6, <1>7 DEF q, n

\* A routine called, for an AST in a mode where none is active, no more privileged than what it interrupts.
LEMMA PushedFits ==
  ASSUME NEW P, P.calls \in Seq(Frame), FramesFit(P), NEW f \in Frame, f.mode <= Last(P.calls).mode,
         f.ast => f.mode \notin P.active,
         NEW Q, Q.calls = Append(P.calls, f), f.ast => Q.active = P.active \cup {f.mode},
         ~f.ast => Q.active = P.active
  PROVE  FramesFit(Q) /\ Q.calls \in Seq(Frame)
<1> DEFINE q == P.calls
           r == Q.calls
           n == Len(P.calls)
<1>1. /\ DOMAIN q = 1 .. n /\ n \in Nat /\ n >= 1 /\ \A i \in 1 .. n : q[i].mode \in {0, 1}
      /\ \A i \in 1 .. n : f.mode <= q[i].mode
  <2>1. /\ DOMAIN q = 1 .. n /\ n \in Nat /\ n >= 1 /\ \A i \in 1 .. n : q[i].mode \in {0, 1}
        /\ Last(q).mode \in {0, 1} /\ \A i \in 1 .. n : Last(q).mode <= q[i].mode
    BY CallsAre DEF Frame, Modes, Kernel, User
  <2>2. f.mode \in {0, 1}
    BY DEF Frame, Modes, Kernel, User
  <2> HIDE DEF q, n
  <2> QED
    BY <2>1, <2>2 DEF q
<1>2. /\ r \in Seq(Frame) /\ Len(r) = n + 1 /\ r[n + 1] = f /\ \A i \in 1 .. n : r[i] = q[i]
      /\ DOMAIN r = 1 .. Len(r)
  BY AppendProperties, LenProperties
<1>3. ~q[1].ast
  BY DEF FramesFit
<1>4. \A i, j \in 1 .. n : i < j => q[j].mode <= q[i].mode
  BY <1>1 DEF FramesFit
<1>5. \A i, j \in 1 .. n : q[i].ast /\ q[j].ast /\ q[i].mode = q[j].mode => i = j
  BY <1>1 DEF FramesFit
<1>6. \A m \in Modes : m \in P.active <=> \E i \in 1 .. n : q[i].ast /\ q[i].mode = m
  BY <1>1 DEF FramesFit
<1>7. f.mode \in Modes /\ f.ast \in BOOLEAN
  BY DEF Frame
<1> HIDE DEF q, r, n
<1>8. DOMAIN r = 1 .. n + 1
  BY <1>2
<1>9. \A i \in 1 .. n + 1 : i \in 1 .. n \/ i = n + 1
  BY <1>1
<1>10. r # <<>> /\ ~r[1].ast
  <2>1. 1 \in 1 .. n
    BY <1>1
  <2>2. Len(r) # 0
    BY <1>1, <1>2
  <2> QED
    BY <1>2, <1>3, <2>1, <2>2
<1>11. ASSUME NEW i \in 1 .. n + 1, NEW j \in 1 .. n + 1
       PROVE  i < j => r[j].mode <= r[i].mode
  <2>1. CASE j \in 1 .. n
    BY <1>1, <1>2, <1>4, <2>1
  <2>2. CASE j = n + 1 /\ i \in 1 .. n
    BY <1>1, <1>2, <2>2
  <2> QED
    BY <1>1, <1>9, <2>1, <2>2
<1>12. ASSUME NEW i \in 1 .. n, f.ast, q[i].ast
       PROVE  q[i].mode # f.mode
  BY <1>6, <1>7, <1>12
<1>13. ASSUME NEW i \in 1 .. n + 1, NEW j \in 1 .. n + 1, r[i].ast, r[j].ast, r[i].mode = r[j].mode
       PROVE  i = j
  BY <1>2, <1>5, <1>9, <1>12, <1>13
<1>14. ASSUME NEW m \in Modes
       PROVE  m \in Q.active <=> \E i \in 1 .. n + 1 : r[i].ast /\ r[i].mode = m
  <2>1. (\E i \in 1 .. n + 1 : r[i].ast /\ r[i].mode = m)
          <=> (\E i \in 1 .. n : q[i].ast /\ q[i].mode = m) \/ (f.ast /\ f.mode = m)
    <3>1. n + 1 \in 1 .. n + 1 /\ \A i \in 1 .. n : i \in 1 .. n + 1
      BY <1>1
    <3> QED
      BY <1>2, <1>9, <3>1
  <2> QED
    BY <1>6, <1>7, <2>1
<1> QED
  BY <1>2, <1>8, <1>10, <1>11, <1>13, <1>14 DEF FramesFit, r

\* The last routine returns.
LEMMA PoppedFits ==
  ASSUME NEW P, P.calls \in Seq(Frame), FramesFit(P), Len(P.calls) > 1,
         NEW Q, Q.calls = Front(P.calls), Last(P.calls).ast => Q.active = P.active \ {Last(P.calls).mode},
         ~Last(P.calls).ast => Q.active = P.active
  PROVE  FramesFit(Q) /\ Q.calls \in Seq(Frame)
<1> DEFINE q == P.calls
           r == Q.calls
           n == Len(P.calls)
           f == Last(P.calls)
<1>1. /\ DOMAIN q = 1 .. n /\ n \in Nat /\ f = q[n] /\ \A i \in 1 .. n : q[i] \in Frame
      /\ f \in Frame
  BY CallsAre
<1>2. /\ r \in Seq(Frame) /\ Len(r) = n - 1 /\ \A i \in 1 .. n - 1 : r[i] = q[i]
      /\ DOMAIN r = 1 .. Len(r)
  <2>1. r = SubSeq(q, 1, n - 1)
    BY DEF Front
  <2>2. \A i \in 1 .. n - 1 : q[i] \in Frame
    BY <1>1
  <2>3. 1 \in Int /\ n - 1 \in Int /\ n - 1 >= 1
    BY <1>1
  <2> HIDE DEF r, q, n
  <2>4. /\ SubSeq(q, 1, n - 1) \in Seq(Frame)
        /\ Len(SubSeq(q, 1, n - 1)) = IF 1 <= n - 1 THEN (n - 1) - 1 + 1 ELSE 0
        /\ \A i \in 1 .. (n - 1) - 1 + 1 : SubSeq(q, 1, n - 1)[i] = q[1 + i - 1]
    BY <2>2, <2>3, SubSeqProperties
  <2>5. Len(SubSeq(q, 1, n - 1)) = n - 1
    BY <2>3, <2>4
  <2>6. \A i \in 1 .. n - 1 : SubSeq(q, 1, n - 1)[i] = q[i]
    <3> SUFFICES ASSUME NEW i \in 1 .. n - 1 PROVE SubSeq(q, 1, n - 1)[i] = q[i]
      OBVIOUS
    <3>1. i \in 1 .. (n - 1) - 1 + 1 /\ 1 + i - 1 = i
      BY <2>3
    <3> QED
      BY <2>4, <3>1
  <2> QED
    BY <2>1, <2>4, <2>5, <2>6, LenProperties
<1>3. ~q[1].ast
  BY DEF FramesFit
<1>4. \A i, j \in 1 .. n : i < j => q[j].mode <= q[i].mode
  BY <1>1 DEF FramesFit
<1>5. \A i, j \in 1 .. n : q[i].ast /\ q[j].ast /\ q[i].mode = q[j].mode => i = j
  BY <1>1 DEF FramesFit
<1>6. \A m \in Modes : m \in P.active <=> \E i \in 1 .. n : q[i].ast /\ q[i].mode = m
  BY <1>1 DEF FramesFit
<1>7. f.mode \in Modes /\ f.ast \in BOOLEAN
  BY <1>1 DEF Frame
<1>8. (f.ast => Q.active = P.active \ {f.mode}) /\ (~f.ast => Q.active = P.active)
  OBVIOUS
<1> HIDE DEF q, r, n, f
<1>9. /\ DOMAIN r = 1 .. n - 1 /\ \A i \in 1 .. n - 1 : i \in 1 .. n /\ i # n
      /\ \A i \in 1 .. n : i # n => i \in 1 .. n - 1
      /\ n \in 1 .. n /\ 1 \in 1 .. n - 1
  BY <1>1, <1>2 DEF n
<1>10. r # <<>> /\ ~r[1].ast
  <2>1. Len(r) # 0
    BY <1>1, <1>2 DEF n
  <2> QED
    BY <1>2, <1>3, <1>9, <2>1
<1>11. \A i, j \in 1 .. n - 1 : i < j => r[j].mode <= r[i].mode
  BY <1>2, <1>4, <1>9
<1>12. \A i, j \in 1 .. n - 1 : r[i].ast /\ r[j].ast /\ r[i].mode = r[j].mode => i = j
  BY <1>2, <1>5, <1>9
<1>13. ASSUME NEW m \in Modes
       PROVE  m \in Q.active <=> \E i \in 1 .. n - 1 : r[i].ast /\ r[i].mode = m
  <2>1. ASSUME NEW i \in 1 .. n - 1, q[i].ast, f.ast
        PROVE  q[i].mode # f.mode
    BY <1>1, <1>5, <1>9, <2>1
  <2>2. CASE f.ast
    BY <1>1, <1>2, <1>6, <1>7, <1>8, <1>9, <2>1, <2>2
  <2>3. CASE ~f.ast
    BY <1>1, <1>2, <1>6, <1>7, <1>8, <1>9, <2>3
  <2> QED
    BY <1>7, <2>2, <2>3
<1> QED
  BY <1>2, <1>9, <1>10, <1>11, <1>12, <1>13 DEF FramesFit, r

\* A present process's routines changed, and its ASTs.
LEMMA RoutinesQuiet ==
  ASSUME NEW s, Sound(s), NEW p \in Present(s), NEW calls \in Seq(Frame), NEW active \in SUBSET Modes,
         NEW asts \in [Modes -> Int],
         NEW t, t = [s EXCEPT !.proc[p] = [s.proc[p] EXCEPT !.asts = asts, !.active = active, !.calls = calls]],
         FramesFit(s.proc[p]) => FramesFit(t.proc[p])
  PROVE  Quietly(s, t)
<1> DEFINE R == s.proc[p]
           P == [R EXCEPT !.asts = asts, !.active = active, !.calls = calls]
<1>1. p \in Processes /\ R \in ProcessRecord /\ s \in States /\ s.proc \in [Processes -> ProcessRecord]
  BY DEF Sound, States, Present
<1>2. P \in ProcessRecord
  BY <1>1 DEF ProcessRecord
<1>3. /\ P.state = R.state /\ P.waiting = R.waiting /\ P.suspended = R.suspended
      /\ P.marked = R.marked /\ P.common = R.common /\ P.timers = R.timers
  BY <1>1 DEF ProcessRecord
<1>4. t = [s EXCEPT !.proc[p] = P]
  OBVIOUS
<1> HIDE DEF P
<1>5. t.proc[p] = P
  BY <1>1, <1>4 DEF States
<1>6. Private(R, P)
  BY <1>3, <1>5 DEF Private
<1> QED
  BY <1>1, <1>2, <1>3, <1>4, <1>6, OwnQuiet

\* The innermost routine's call changes.
LEMMA DoingFits ==
  ASSUME NEW P, P.calls \in Seq(Frame), FramesFit(P), NEW call \in Doings,
         NEW k, k = [P.calls EXCEPT ![Len(P.calls)].doing = call], NEW Q, Q.calls = k, Q.active = P.active
  PROVE  k \in Seq(Frame) /\ FramesFit(Q)
<1> DEFINE q == P.calls
           n == Len(q)
           f == [q[n] EXCEPT !.doing = call]
<1>1. /\ DOMAIN q = 1 .. n /\ n \in Nat /\ n >= 1 /\ \A i \in 1 .. n : q[i] \in Frame
  BY CallsAre
<1>2. n \in 1 .. n /\ q[n] \in Frame
  BY <1>1
<1>3. f \in Frame /\ f.mode = q[n].mode /\ f.ast = q[n].ast
  BY <1>2 DEF Frame
<1>4. k = [q EXCEPT ![n] = f]
  OBVIOUS
<1>5. ~q[1].ast /\ q \in Seq(Frame)
  BY DEF FramesFit
<1>6. \A i, j \in 1 .. n : i < j => q[j].mode <= q[i].mode
  BY <1>1 DEF FramesFit
<1>7. \A i, j \in 1 .. n : q[i].ast /\ q[j].ast /\ q[i].mode = q[j].mode => i = j
  BY <1>1 DEF FramesFit
<1>8. \A m \in Modes : m \in P.active <=> \E i \in 1 .. n : q[i].ast /\ q[i].mode = m
  BY <1>1 DEF FramesFit
<1> HIDE DEF q, n, f
<1>9. k \in Seq(Frame) /\ Len(k) = n
  BY <1>2, <1>3, <1>4, <1>5, ExceptSeq DEF n
<1>10. DOMAIN k = 1 .. n
  BY <1>9, LenProperties
<1>11. \A i \in 1 .. n : k[i].ast = q[i].ast /\ k[i].mode = q[i].mode
  <2> SUFFICES ASSUME NEW i \in 1 .. n PROVE k[i].ast = q[i].ast /\ k[i].mode = q[i].mode
    OBVIOUS
  <2>1. CASE i = n
    BY <1>1, <1>2, <1>3, <1>4, <2>1
  <2>2. CASE i # n
    BY <1>1, <1>4, <2>2
  <2> QED
    BY <2>1, <2>2
<1>12. k # <<>> /\ ~k[1].ast
  BY <1>1, <1>5, <1>9, <1>11
<1> QED
  BY SMTT(30), <1>6, <1>7, <1>8, <1>9, <1>10, <1>11, <1>12 DEF FramesFit

Recalled(s, p, calls) == [s EXCEPT !.proc[p].calls = calls]

\* p's routines change, and nothing of p else.
LEMMA RecalledQuiet ==
  ASSUME NEW s, Sound(s), NEW p \in Present(s), NEW calls \in Seq(Frame),
         NEW t, t = Recalled(s, p, calls),
         t.proc[p].calls = calls /\ t.proc[p].active = s.proc[p].active => FramesFit(t.proc[p])
  PROVE  Quietly(s, t) /\ t.proc[p].calls = calls
<1> DEFINE P == [s.proc[p] EXCEPT !.calls = calls]
<1>1. p \in Processes /\ s.proc[p] \in ProcessRecord /\ s \in States
  BY DEF Sound, States, Present
<1>2. /\ P \in ProcessRecord /\ P.state = s.proc[p].state /\ P.waiting = s.proc[p].waiting
      /\ P.suspended = s.proc[p].suspended /\ P.marked = s.proc[p].marked /\ P.common = s.proc[p].common
      /\ P.timers = s.proc[p].timers /\ P.calls = calls /\ P.active = s.proc[p].active
  BY <1>1 DEF ProcessRecord
<1>3. t = [s EXCEPT !.proc[p] = P]
  BY DEF Recalled
<1> HIDE DEF P
<1>4. t.proc[p] = P
  BY <1>1, <1>3 DEF States
<1>5. Private(s.proc[p], P)
  BY <1>2, <1>4 DEF Private
<1>6. P.timers = s.proc[p].timers /\ P.calls = calls
  BY <1>2
<1>7. p \in Processes /\ P \in ProcessRecord /\ P.timers = s.proc[p].timers
  BY <1>1, <1>2
<1>8. Quietly(s, t)
  BY <1>3, <1>5, <1>7, OwnQuiet
<1> QED
  BY <1>4, <1>6, <1>8

\* p's routines, and what it is owed.
LEMMA PresentFits ==
  ASSUME NEW s, Sound(s), NEW p \in Present(s)
  PROVE  /\ p \in Processes /\ s.proc[p] \in ProcessRecord /\ FramesFit(s.proc[p])
         /\ s.proc[p].calls \in Seq(Frame) /\ s.proc[p].active \in SUBSET Modes
         /\ s.proc[p].asts \in [Modes -> Int] /\ s.proc[p].timers \in Seq(Timer)
<1>1. p \in Processes /\ s.proc[p].state # "gone" /\ s.proc[p] \in ProcessRecord
  BY DEF Sound, Present, States
<1>2. FramesFit(s.proc[p])
  BY <1>1 DEF Sound, ProcessFits
<1> QED
  BY <1>1, <1>2 DEF ProcessRecord

\* p is in a service it calls, or has returned from it.
LEMMA InQuiet ==
  ASSUME NEW s, Sound(s), NEW p \in Present(s), NEW call \in Doings, NEW t, t = In(s, p, call)
  PROVE  Quietly(s, t)
<1> DEFINE calls == s.proc[p].calls
           k == [calls EXCEPT ![Len(calls)].doing = call]
<1>1. FramesFit(s.proc[p]) /\ calls \in Seq(Frame)
  BY PresentFits
<1>2. t = Recalled(s, p, k)
  BY DEF In, Recalled
<1>3. ASSUME NEW Q, Q.calls = k, Q.active = s.proc[p].active
      PROVE  k \in Seq(Frame) /\ FramesFit(Q)
  BY <1>1, <1>3, DoingFits
<1>4. k \in Seq(Frame)
  <2>1. PICK Q : Q.calls = k /\ Q.active = s.proc[p].active
    <3> DEFINE a == s.proc[p].active
               Q0 == [calls |-> k, active |-> a]
    <3> HIDE DEF k, a
    <3>1. Q0.calls = k /\ Q0.active = a
      OBVIOUS
    <3> QED
      BY <3>1 DEF a
  <2> QED
    BY <1>3, <2>1
<1>5. t.proc[p].calls = k /\ t.proc[p].active = s.proc[p].active => FramesFit(t.proc[p])
  BY <1>3
<1> HIDE DEF k
<1> QED
  BY <1>2, <1>4, <1>5, RecalledQuiet

Rerouted(s, p, asts, active, calls) ==
  [s EXCEPT !.proc[p].asts = asts, !.proc[p].active = active, !.proc[p].calls = calls]

Routed(P, asts, active, calls) == [P EXCEPT !.asts = asts, !.active = active, !.calls = calls]

Replaced(s, p, P) == [s EXCEPT !.proc[p] = P]

\* Of two replacements of a process the second counts.
LEMMA ReplacedTwice ==
  ASSUME NEW s \in States, NEW p \in Processes, NEW P \in ProcessRecord, NEW Q \in ProcessRecord,
         NEW u, u = Replaced(s, p, P)
  PROVE  u.proc[p] = P /\ Replaced(u, p, Q) = Replaced(s, p, Q)
<1> DEFINE a == [s.proc EXCEPT ![p] = P]
           b == [s.proc EXCEPT ![p] = Q]
<1>1. s.proc \in [Processes -> ProcessRecord]
  BY DEF States
<1>2. a[p] = P /\ [a EXCEPT ![p] = Q] = b
  BY <1>1
<1>3. u = [s EXCEPT !.proc = a]
  BY DEF Replaced
<1> HIDE DEF a
<1>4. u.proc = a
  BY <1>3 DEF States
<1>5. Replaced(u, p, Q) = [u EXCEPT !.proc = b]
  BY <1>2, <1>4 DEF Replaced
<1>6. Replaced(s, p, Q) = [s EXCEPT !.proc = b]
  BY DEF Replaced
<1> HIDE DEF b
<1>7. [u EXCEPT !.proc = b] = [s EXCEPT !.proc = b]
  BY <1>3 DEF States
<1> QED
  BY <1>2, <1>4, <1>5, <1>6, <1>7

\* A process with other ASTs, calls and active modes is the same but for these.
LEMMA ReroutedIs ==
  ASSUME NEW s \in States, NEW p \in Processes, NEW calls \in Seq(Frame), NEW active \in SUBSET Modes,
         NEW asts \in [Modes -> Int], NEW t, t = Rerouted(s, p, asts, active, calls)
  PROVE  /\ t = Replaced(s, p, Routed(s.proc[p], asts, active, calls))
         /\ t.proc[p].calls = calls /\ t.proc[p].active = active
<1> DEFINE R == s.proc[p]
           P1 == [R EXCEPT !.asts = asts]
           P2 == [P1 EXCEPT !.active = active]
           P3 == [P2 EXCEPT !.calls = calls]
           u == Replaced(s, p, P1)
           v == Replaced(s, p, P2)
<1>1. s.proc[p] \in ProcessRecord
  BY DEF States
<1>2. P1 \in ProcessRecord /\ P2 \in ProcessRecord /\ P3 \in ProcessRecord
  BY <1>1 DEF ProcessRecord
<1>3. Routed(R, asts, active, calls) = P3 /\ P3.calls = calls /\ P3.active = active
  BY <1>1 DEF ProcessRecord, Routed
<1>4. Rerouted(s, p, asts, active, calls) = [[u EXCEPT !.proc[p].active = active] EXCEPT !.proc[p].calls = calls]
  BY DEF Rerouted, Replaced
<1>5. u.proc[p] = P1 /\ Replaced(u, p, P2) = v
  <2> HIDE DEF P1, P2
  <2> QED
    BY <1>2, ReplacedTwice
<1>6. v.proc[p] = P2 /\ Replaced(v, p, P3) = Replaced(s, p, P3)
  <2> HIDE DEF P2, P3
  <2> QED
    BY <1>2, ReplacedTwice
<1> HIDE DEF u, v
<1>7. [u EXCEPT !.proc[p].active = active] = Replaced(u, p, P2)
  BY <1>5 DEF Replaced
<1>8. [v EXCEPT !.proc[p].calls = calls] = Replaced(v, p, P3)
  BY <1>6 DEF Replaced
<1> HIDE DEF P1, P2, P3
<1>9. t = Replaced(s, p, P3)
  BY <1>4, <1>5, <1>6, <1>7, <1>8
<1>10. t.proc[p] = P3
  BY <1>2, <1>9, ReplacedTwice
<1> QED
  BY <1>3, <1>9, <1>10

\* Changing a process's ASTs, calls and active modes is quiet if its frames fit then.
LEMMA ReroutedQuiet ==
  ASSUME NEW s, Sound(s), NEW p \in Present(s), NEW calls \in Seq(Frame), NEW active \in SUBSET Modes,
         NEW asts \in [Modes -> Int], NEW t, t = Rerouted(s, p, asts, active, calls), FramesFit(t.proc[p])
  PROVE  Quietly(s, t)
<1>1. p \in Processes /\ s \in States
  BY DEF Sound, Present
<1>2. t = Replaced(s, p, Routed(s.proc[p], asts, active, calls))
  BY <1>1, ReroutedIs
<1>3. t = [s EXCEPT !.proc[p] = [s.proc[p] EXCEPT !.asts = asts, !.active = active, !.calls = calls]]
  BY <1>2 DEF Replaced, Routed
<1>4. FramesFit(s.proc[p]) => FramesFit(t.proc[p])
  OBVIOUS
<1> QED
  BY <1>3, <1>4, RoutinesQuiet

\* An AST is called in a mode in which p could take it.
LEMMA CallASTQuiet ==
  ASSUME NEW s, Sound(s), NEW p \in Present(s), NEW t, t = CallAST(s, p)
  PROVE  Quietly(s, t)
<1> DEFINE R == s.proc[p]
           S == DeliverableModes(R)
           m == Min(S)
           f == [mode |-> m, ast |-> TRUE, doing |-> None]
           calls == Append(R.calls, f)
           active == R.active \cup {m}
           asts == [R.asts EXCEPT ![m] = R.asts[m] - 1]
<1>1. CASE S = {}
  BY <1>1, QuietlyReflexive DEF CallAST
<1>2. CASE S # {}
  <2>1. /\ p \in Processes /\ R \in ProcessRecord /\ FramesFit(R) /\ R.calls \in Seq(Frame)
        /\ R.active \in SUBSET Modes /\ R.asts \in [Modes -> Int]
    BY PresentFits
  <2>2. m \in S
    <3>1. S \subseteq Nat
      BY DEF DeliverableModes, Modes, Kernel, User
    <3> HIDE DEF S
    <3>2. \E k \in S : \A j \in S : k <= j
      BY <1>2, <3>1, LeastOf
    <3> QED
      BY <3>2 DEF Min
  <2>3. m \in Modes /\ m <= Last(R.calls).mode /\ m \notin R.active
    BY <2>2 DEF DeliverableModes
  <2>4. t = CallASTIn(s, p, m)
    BY <1>2 DEF CallAST
  <2> HIDE DEF S, m
  <2>5. t = Rerouted(s, p, asts, active, calls)
    BY <2>4 DEF CallASTIn, Rerouted
  <2>6. f \in Frame /\ f.mode = m /\ f.ast = TRUE
    BY <2>3 DEF Frame, Doings
  <2>7. active \in SUBSET Modes /\ asts \in [Modes -> Int] /\ active = R.active \cup {f.mode}
    BY <2>1, <2>3, <2>6
  <2>8. calls \in Seq(Frame)
    BY <2>1, <2>6, AppendProperties
  <2> HIDE DEF f, asts
  <2>9. ASSUME NEW Q, Q.calls = calls, Q.active = active
        PROVE  FramesFit(Q)
    <3>1. R.calls \in Seq(Frame) /\ f.mode <= Last(R.calls).mode /\ (f.ast => f.mode \notin R.active)
      BY <2>1, <2>3, <2>6
    <3>2. Q.calls = Append(R.calls, f) /\ Q.active = R.active \cup {f.mode}
      BY <2>7, <2>9
    <3> HIDE DEF R, active, calls
    <3> QED
      BY <2>1, <2>6, <3>1, <3>2, PushedFits
  <2>10. FramesFit(t.proc[p])
    <3> HIDE DEF active, calls
    <3>1. t.proc[p].calls = calls /\ t.proc[p].active = active
      BY SMTT(30), <2>1, <2>5, <2>7, <2>8, ReroutedIs DEF Sound
    <3> QED
      BY <2>9, <3>1
  <2> HIDE DEF active, calls, R
  <2> QED
    BY <2>5, <2>7, <2>8, <2>10, ReroutedQuiet
<1> QED
  BY <1>1, <1>2

ASTReturned(s, p) ==
  [s EXCEPT !.proc[p].active = @ \ {Last(s.proc[p].calls).mode}, !.proc[p].calls = Front(@)]

\* An AST routine of p's returns.
LEMMA ClrastQuiet ==
  ASSUME NEW s, Sound(s), NEW p \in Present(s), Last(s.proc[p].calls).ast, NEW t, t = ASTReturned(s, p)
  PROVE  Quietly(s, t)
<1> DEFINE R == s.proc[p]
           m == Last(s.proc[p].calls).mode
           calls == Front(R.calls)
           active == R.active \ {m}
           asts == R.asts
<1>1. /\ p \in Processes /\ R \in ProcessRecord /\ FramesFit(R) /\ R.calls \in Seq(Frame)
      /\ R.active \in SUBSET Modes /\ R.asts \in [Modes -> Int]
  BY PresentFits
<1>2. Len(R.calls) > 1
  <2>1. Len(R.calls) \in Nat /\ Len(R.calls) >= 1 /\ Last(R.calls) = R.calls[Len(R.calls)] /\ ~R.calls[1].ast
    BY <1>1, CallsAre DEF FramesFit
  <2> QED
    BY <2>1
<1>3. t = Rerouted(s, p, asts, active, calls)
  <2>1. t = [s EXCEPT !.proc[p].active = active, !.proc[p].calls = calls]
    BY DEF ASTReturned
  <2>2. s = [s EXCEPT !.proc[p].asts = asts]
    <3>1. R = [R EXCEPT !.asts = asts]
      BY <1>1 DEF ProcessRecord
    <3> HIDE DEF R, asts
    <3>2. s.proc = [s.proc EXCEPT ![p] = R] /\ s \in States
      BY <1>1 DEF Sound, States, R
    <3>3. s = [s EXCEPT !.proc = s.proc]
      BY <3>2 DEF States
    <3> QED
      BY <3>1, <3>2, <3>3 DEF R
  <2>3. Rerouted(s, p, asts, active, calls) =
          [[s EXCEPT !.proc[p].asts = asts] EXCEPT !.proc[p].active = active, !.proc[p].calls = calls]
    BY DEF Rerouted
  <2> HIDE DEF asts, active, calls
  <2> QED
    BY <2>2, <2>3, <2>1
<1>4. ASSUME NEW Q, Q.calls = calls, Q.active = active
      PROVE  FramesFit(Q) /\ Q.calls \in Seq(Frame)
  <2>1. Q.calls = Front(R.calls) /\ Q.active = R.active \ {Last(R.calls).mode} /\ Last(R.calls).ast
    BY <1>4
  <2>2. FramesFit(R) /\ R.calls \in Seq(Frame) /\ Len(R.calls) > 1
    BY <1>1, <1>2
  <2> HIDE DEF R, active, calls, asts
  <2> QED
    BY <2>1, <2>2, PoppedFits
<1>5. active \in SUBSET Modes /\ asts \in [Modes -> Int]
  BY <1>1
<1>6. calls \in Seq(Frame)
  <2>1. PICK Q : Q.calls = calls /\ Q.active = active
    <3> DEFINE Q0 == [calls |-> calls, active |-> active]
    <3> HIDE DEF calls, active
    <3>1. Q0.calls = calls /\ Q0.active = active
      OBVIOUS
    <3> QED
      BY <3>1
  <2> QED
    BY <1>4, <2>1
<1>7. FramesFit(t.proc[p])
  <2>1. s \in States /\ p \in Processes
    BY <1>1 DEF Sound
  <2> HIDE DEF active, calls, asts, R, m
  <2>2. t.proc[p].calls = calls /\ t.proc[p].active = active
    BY <1>3, <1>5, <1>6, <2>1, ReroutedIs
  <2> QED
    BY <1>4, <2>2
<1> HIDE DEF active, calls, asts, R
<1> QED
  BY <1>3, <1>5, <1>6, <1>7, ReroutedQuiet

\* A routine called in kernel mode returns.
LEMMA CmkrnlReturnsQuiet ==
  ASSUME NEW s, Sound(s), NEW p \in Present(s), ~Last(s.proc[p].calls).ast, Len(s.proc[p].calls) > 1,
         NEW t, t = Recalled(s, p, Front(s.proc[p].calls))
  PROVE  Quietly(s, t)
<1> DEFINE R == s.proc[p]
           calls == Front(R.calls)
<1>1. /\ R \in ProcessRecord /\ FramesFit(R) /\ R.calls \in Seq(Frame) /\ Len(R.calls) > 1
      /\ ~Last(R.calls).ast
  BY PresentFits
<1>2. ASSUME NEW Q, Q.calls = Front(R.calls), Q.active = R.active
      PROVE  FramesFit(Q) /\ Q.calls \in Seq(Frame)
  BY <1>1, <1>2, PoppedFits
<1>3. calls \in Seq(Frame)
  <2>1. PICK Q : Q.calls = calls /\ Q.active = R.active
    <3> DEFINE a == s.proc[p].active
               Q0 == [calls |-> calls, active |-> a]
    <3> HIDE DEF calls, a
    <3>1. Q0.calls = calls /\ Q0.active = a
      OBVIOUS
    <3> QED
      BY <3>1 DEF a
  <2> QED
    BY <1>2, <2>1
<1>4. t.proc[p].calls = calls /\ t.proc[p].active = s.proc[p].active => FramesFit(t.proc[p])
  BY <1>2
<1> HIDE DEF calls
<1>5. t = Recalled(s, p, calls)
  BY DEF calls
<1> QED
  BY <1>3, <1>4, <1>5, RecalledQuiet

\* A routine is called in kernel mode.
LEMMA CmkrnlQuiet ==
  ASSUME NEW s, Sound(s), NEW p \in Present(s),
         NEW f, f = [mode |-> Kernel, ast |-> FALSE, doing |-> None],
         NEW t, t = Recalled(s, p, Append(s.proc[p].calls, f))
  PROVE  Quietly(s, t)
<1> DEFINE R == s.proc[p]
           calls == Append(R.calls, f)
<1>1. R \in ProcessRecord /\ FramesFit(R) /\ R.calls \in Seq(Frame)
  BY PresentFits
<1>2. f \in Frame /\ f.mode = 0 /\ f.ast = FALSE
  BY DEF Frame, Modes, Kernel, Doings
<1>3. f.mode <= Last(R.calls).mode
  <2>1. Last(R.calls) \in Frame
    BY <1>1, CallsAre
  <2> QED
    BY <1>2, <2>1 DEF Frame, Modes, Kernel, User
<1>4. ASSUME NEW Q, Q.calls = Append(R.calls, f), Q.active = R.active
      PROVE  FramesFit(Q)
  BY <1>1, <1>2, <1>3, <1>4, PushedFits
<1>5. calls \in Seq(Frame)
  BY <1>1, <1>2, AppendProperties
<1>6. t.proc[p].calls = calls /\ t.proc[p].active = s.proc[p].active => FramesFit(t.proc[p])
  BY <1>4
<1> HIDE DEF calls
<1>7. t = Recalled(s, p, calls)
  BY DEF calls
<1> QED
  BY <1>5, <1>6, <1>7, RecalledQuiet

-----------------------------------------------------------------------------
(* What a step of the current process may leave.                              *)

\* Between s and t no process but c has got a timer for itself.
NoNewOwn(s, t, c) ==
  \A q \in Processes \ {c} : \A x \in ToSet(t.proc[q].timers) : x.own => x \in ToSet(s.proc[q].timers)

Leaves(s) ==
  /\ Sound(s) /\ MemoryFits(s, cpu.current)
  /\ Computes(s, cpu.current) => ~s.proc[cpu.current].marked
  /\ Present(s) \subseteq Present(os) /\ NoNewOwn(os, s, cpu.current)

\* A service that leaves a state good to leave keeps the invariant, whatever it asks.
LEMMA StepKeeps ==
  ASSUME IInv, AtInstruction, NEW s, Leaves(s), NEW asks, Step(s, asks)
  PROVE  IInv'
<1> DEFINE c == cpu.current
<1>1. /\ Sound(os) /\ cpu \in CpuRecord /\ CpuFits(os, cpu) /\ system \in Systems
      /\ cpu.running /\ cpu.budget > 0
  BY DEF IInv, AtInstruction
<1>2. /\ os' = Collected(s) /\ system' = system
      /\ cpu' = [cpu EXCEPT !.running = Computes(os', c),
                             !.budget = IF asks \/ ~Computes(os', c) THEN 0 ELSE cpu.budget]
  BY DEF Step
<1>3. Sound(os') /\ os'.proc = s.proc /\ os'.memory = s.memory
  BY <1>2, CollectedSound DEF Leaves
<1>4. c \in Processes /\ cpu.running \in BOOLEAN /\ cpu.choosing \in BOOLEAN /\ cpu.budget \in Nat
  BY <1>1 DEF CpuRecord
<1>5. /\ cpu'.current = c /\ cpu'.choosing = cpu.choosing /\ cpu'.running = Computes(os', c)
      /\ cpu'.budget = IF asks \/ ~Computes(os', c) THEN 0 ELSE cpu.budget
  BY <1>1, <1>2 DEF CpuRecord
<1>6. cpu' \in CpuRecord
  <2>1. Computes(os', c) \in BOOLEAN
    BY DEF Computes
  <2>2. (IF asks \/ ~Computes(os', c) THEN 0 ELSE cpu.budget) \in Nat
    BY <1>4
  <2> QED
    BY <1>1, <1>2, <2>1, <2>2 DEF CpuRecord
<1>7. /\ MemoryFits(os', c) /\ Present(os') = Present(s)
      /\ Computes(os', c) => ~os'.proc[c].marked
  BY <1>3 DEF Leaves, MemoryFits, Present, Computes
<1>8. InTime(os', c, cpu.budget)
  <2>1. InTime(os, c, cpu.budget)
    BY <1>1 DEF CpuFits
  <2>2. NoNewOwn(os, os', c) /\ Present(os') \subseteq Present(os)
    BY <1>3, <1>7 DEF Leaves, NoNewOwn
  <2> QED
    BY <2>1, <2>2 DEF InTime, NoNewOwn, Present
<1>9. CpuFits(os', cpu')
  <2>1. ~cpu.choosing
    BY <1>1 DEF CpuFits
  <2>2. cpu'.budget > 0 => Computes(os', c) /\ cpu'.budget = cpu.budget
    BY <1>4, <1>5
  <2> QED
    BY <1>5, <1>7, <1>8, <2>1, <2>2 DEF CpuFits
<1> QED
  BY <1>1, <1>2, <1>3, <1>6, <1>9 DEF IInv

\* What holds of the current process while it runs.
LEMMA CurrentIs ==
  ASSUME IInv, AtInstruction
  PROVE  /\ Sound(os) /\ cpu.current \in Present(os) /\ MemoryFits(os, cpu.current)
         /\ Computes(os, cpu.current) /\ ~os.proc[cpu.current].marked
  BY DEF IInv, AtInstruction, CpuFits, CpuRecord, Computes, Present

\* A quiet state with no new timer of the caller's is good to leave.
LEMMA QuietLeaves ==
  ASSUME IInv, AtInstruction, NEW s, Sound(s), Quiet(os, s), NoNewOwn(os, s, cpu.current)
  PROVE  Leaves(s)
<1>1. /\ Sound(os) /\ cpu.current \in Present(os) /\ MemoryFits(os, cpu.current)
      /\ ~os.proc[cpu.current].marked
  BY CurrentIs
<1>2. Present(s) = Present(os) /\ s.memory = os.memory
  BY QuietPresent DEF Quiet
<1>3. s.proc[cpu.current].marked = os.proc[cpu.current].marked
  BY <1>1 DEF Quiet, Kept, Present
<1> QED
  BY <1>1, <1>2, <1>3 DEF Leaves, MemoryFits

\* So is a steady one, unless the caller is marked and computes.
LEMMA SteadilyLeaves ==
  ASSUME IInv, AtInstruction, NEW s, Steadily(os, s),
         Computes(s, cpu.current) => s.proc[cpu.current].marked = os.proc[cpu.current].marked
  PROVE  Leaves(s)
<1>1. /\ Sound(os) /\ cpu.current \in Present(os) /\ MemoryFits(os, cpu.current)
      /\ ~os.proc[cpu.current].marked
  BY CurrentIs
<1>2. NoNewOwn(os, s, cpu.current)
  BY DEF Steadily, SameTimers, NoNewOwn
<1> QED
  BY <1>1, <1>2 DEF Leaves, MemoryFits, Steadily

\* A step in which events happen.
LEMMA QuietlyKeeps ==
  ASSUME IInv, AtInstruction, NEW s, Quietly(os, s), NEW asks, Step(s, asks)
  PROVE  IInv'
<1>1. NoNewOwn(os, s, cpu.current)
  BY DEF Quietly, SameTimers, NoNewOwn
<1> QED
  BY <1>1, QuietLeaves, StepKeeps DEF Quietly

\* A service whose effect is steady keeps the invariant.
LEMMA SteadilyKeeps ==
  ASSUME IInv, AtInstruction, NEW s, Steadily(os, s),
         Computes(s, cpu.current) => s.proc[cpu.current].marked = os.proc[cpu.current].marked,
         NEW asks, Step(s, asks)
  PROVE  IInv'
  BY SteadilyLeaves, StepKeeps

\* A service returns after events, or what else leaves the process's mark and timers.
LEMMA ReturnsKeep ==
  ASSUME IInv, AtInstruction, NEW p, p = cpu.current, NEW s, Steadily(os, s),
         s.proc[p].marked = os.proc[p].marked, Return(s, p)
  PROVE  IInv'
<1> DEFINE t == In(s, p, None)
<1>1. p \in Present(s) /\ Sound(s) /\ None \in Doings /\ p \in Processes
  BY CurrentIs DEF Steadily, Doings, Present
<1>2. Step(t, FALSE)
  BY DEF Return
<1>3. Quietly(s, t)
  BY <1>1, InQuiet
<1> HIDE DEF t
<1>4. Steadily(os, t) /\ t.proc[p].marked = os.proc[p].marked
  BY <1>1, <1>3, QuietlySteadily, SteadilyTransitive
<1> QED
  BY <1>2, <1>4, SteadilyKeeps

\* A service that returns after a quiet effect keeps the invariant.
LEMMA ReturnKeeps ==
  ASSUME IInv, AtInstruction, NEW p, p = cpu.current, NEW s, Quietly(os, s), Return(s, p)
  PROVE  IInv'
<1>1. Steadily(os, s) /\ s.proc[p].marked = os.proc[p].marked
  BY CurrentIs, QuietlySteadily DEF Present
<1> QED
  BY <1>1, ReturnsKeep

\* The current process begins to wait.
LEMMA WaitsKeep ==
  ASSUME IInv, AtInstruction, NEW p, p = cpu.current, NEW s, Steadily(os, s),
         s.proc[p].marked = os.proc[p].marked, NEW call \in Doings,
         NEW w \in Wait, w.kind # "subprocesses", WaitIn(s, p, call, w)
  PROVE  IInv'
<1> DEFINE t == In(s, p, call)
           u == EnterWait(t, p, w)
<1>1. p \in Present(s) /\ Sound(s) /\ p \in Processes /\ ~os.proc[p].marked
  BY CurrentIs DEF Steadily, Present
<1>2. Step(u, TRUE)
  BY DEF WaitIn
<1>3. Quietly(s, t)
  BY <1>1, InQuiet
<1> HIDE DEF t
<1>4. Steadily(os, t) /\ t.proc[p].marked = os.proc[p].marked
  BY <1>1, <1>3, QuietlySteadily, SteadilyTransitive
<1>5. p \in Present(t) /\ Sound(t) /\ ~t.proc[p].marked
  BY <1>1, <1>4, CurrentIs DEF Steadily
<1>6. Steadily(t, u) /\ ~Computes(u, p)
  BY <1>5, EnterWaitSound
<1> HIDE DEF u
<1>7. Steadily(os, u)
  BY <1>4, <1>6, SteadilyTransitive
<1> QED
  BY <1>2, <1>6, <1>7, SteadilyKeeps

\* A service that waits after a quiet effect keeps the invariant.
LEMMA WaitInKeeps ==
  ASSUME IInv, AtInstruction, NEW p, p = cpu.current, NEW s, Quietly(os, s), NEW call \in Doings,
         NEW w \in Wait, w.kind # "subprocesses", WaitIn(s, p, call, w)
  PROVE  IInv'
<1>1. Steadily(os, s) /\ s.proc[p].marked = os.proc[p].marked
  BY CurrentIs, QuietlySteadily DEF Present
<1> QED
  BY <1>1, WaitsKeep

-----------------------------------------------------------------------------
(* The services that concern wakeups, timers, event flags and ASTs.           *)

\* Whoever executes a call is current, there and not marked.
LEMMA ExecutesIs ==
  ASSUME IInv, NEW p, Executes(p)
  PROVE  /\ AtInstruction /\ p = cpu.current /\ Sound(os) /\ os \in States /\ p \in Present(os)
         /\ p \in Processes /\ ~os.proc[p].marked
  BY CurrentIs DEF Executes, Sound, Present

WakeSet(s, p, b) == [s EXCEPT !.proc[p].wakePending = b]

\* Setting the pending wake is quiet.
LEMMA WakeSetQuiet ==
  ASSUME NEW s, Sound(s), NEW p \in Processes, NEW b \in BOOLEAN, NEW t, t = WakeSet(s, p, b)
  PROVE  Quietly(s, t)
<1> DEFINE P == [s.proc[p] EXCEPT !.wakePending = b]
<1>1. s.proc[p] \in ProcessRecord
  BY DEF Sound, States
<1>2. /\ P \in ProcessRecord /\ P.state = s.proc[p].state /\ P.waiting = s.proc[p].waiting
      /\ P.suspended = s.proc[p].suspended /\ P.marked = s.proc[p].marked /\ P.common = s.proc[p].common
      /\ P.timers = s.proc[p].timers /\ P.calls = s.proc[p].calls /\ P.active = s.proc[p].active
  BY <1>1 DEF ProcessRecord
<1>3. t = [s EXCEPT !.proc[p] = P]
  BY DEF WakeSet
<1> HIDE DEF P
<1>4. Private(s.proc[p], P)
  BY <1>2, SameFrames DEF Private
<1>5. P \in ProcessRecord /\ P.timers = s.proc[p].timers
  BY <1>2
<1> QED
  BY <1>3, <1>4, <1>5, OwnQuiet

EnabledSet(s, p, e) == [s EXCEPT !.proc[p].enabled = e]

\* Setting the modes enabled is quiet.
LEMMA EnabledSetQuiet ==
  ASSUME NEW s, Sound(s), NEW p \in Processes, NEW e \in SUBSET Modes, NEW t, t = EnabledSet(s, p, e)
  PROVE  Quietly(s, t)
<1> DEFINE P == [s.proc[p] EXCEPT !.enabled = e]
<1>1. s.proc[p] \in ProcessRecord
  BY DEF Sound, States
<1>2. /\ P \in ProcessRecord /\ P.state = s.proc[p].state /\ P.waiting = s.proc[p].waiting
      /\ P.suspended = s.proc[p].suspended /\ P.marked = s.proc[p].marked /\ P.common = s.proc[p].common
      /\ P.timers = s.proc[p].timers /\ P.calls = s.proc[p].calls /\ P.active = s.proc[p].active
  BY <1>1 DEF ProcessRecord
<1>3. t = [s EXCEPT !.proc[p] = P]
  BY DEF EnabledSet
<1> HIDE DEF P
<1>4. Private(s.proc[p], P)
  BY <1>2, SameFrames DEF Private
<1>5. P \in ProcessRecord /\ P.timers = s.proc[p].timers
  BY <1>2
<1> QED
  BY <1>3, <1>4, <1>5, OwnQuiet

TimersSet(s, p, f) == [s EXCEPT !.proc[p].timers = f]

\* Setting a timer queue is quiet, and changes no other process's.
LEMMA TimersSetQuiet ==
  ASSUME NEW s, Sound(s), NEW p \in Processes, NEW f \in Seq(Timer), NEW t, t = TimersSet(s, p, f)
  PROVE  /\ Quiet(s, t) /\ Sound(t) /\ t.proc[p].timers = f
         /\ \A q \in Processes \ {p} : t.proc[q].timers = s.proc[q].timers
<1> DEFINE P == [s.proc[p] EXCEPT !.timers = f]
<1>1. s.proc[p] \in ProcessRecord
  BY DEF Sound, States
<1>2. P = [s.proc[p] EXCEPT !.timers = f]
  OBVIOUS
<1>3. t = [s EXCEPT !.proc[p] = P]
  BY DEF TimersSet
<1>4. P \in ProcessRecord /\ P.timers = f /\ Private(s.proc[p], P)
  BY <1>1, <1>2, TimersPrivate
<1> HIDE DEF P
<1>5. P \in ProcessRecord /\ Private(s.proc[p], P)
  BY <1>4
<1>6. Quiet(s, t) /\ Sound(t)
  BY <1>3, <1>5, OwnQuiet
<1>7. t.proc[p] = P
  BY <1>3 DEF Sound, States
<1>8. \A q \in Processes \ {p} : t.proc[q] = s.proc[q]
  BY <1>3, <1>5, OwnQuiet
<1> QED
  BY <1>4, <1>6, <1>8, <1>7

\* $HIBER keeps the invariant.
LEMMA HiberKeeps ==
  ASSUME IInv, NEW p \in Processes, Hiber(p)
  PROVE  IInv'
<1> DEFINE call == [svc |-> "HIBER"]
           w == [kind |-> "wake"]
           s == WakeSet(os, p, FALSE)
<1>1. AtInstruction /\ p = cpu.current /\ Sound(os)
  <2>1. Executes(p)
    BY DEF Hiber, Attempts, Calls, Retries
  <2> QED
    BY <2>1, ExecutesIs
<1>2. CASE os.proc[p].wakePending
  <2>1. Return(s, p)
    BY <1>2 DEF Hiber, WakeSet
  <2>2. Quietly(os, s)
    BY <1>1, WakeSetQuiet
  <2> HIDE DEF s
  <2> QED
    BY <1>1, <2>1, <2>2, ReturnKeeps
<1>3. CASE ~os.proc[p].wakePending
  <2>1. WaitIn(os, p, call, w)
    BY <1>3 DEF Hiber
  <2>2. call \in Doings /\ w \in Wait /\ w.kind # "subprocesses"
    BY DEF Doings, Wait
  <2> HIDE DEF call, w
  <2> QED
    BY <1>1, <2>1, <2>2, QuietlyReflexive, WaitInKeeps
<1> QED
  BY <1>2, <1>3

\* $WAKE keeps the invariant.
LEMMA WakeKeeps ==
  ASSUME IInv, NEW p \in Processes, NEW q \in Targets, Wake(p, q)
  PROVE  IInv'
<1> DEFINE s == WakeSet(os, q, TRUE)
<1>1. AtInstruction /\ Sound(os) /\ q \in Processes
  BY ExecutesIs DEF Wake, Calls, Targets, Present
<1>2. Step(s, q # p)
  BY DEF Wake, WakeSet
<1>3. Quietly(os, s)
  BY <1>1, WakeSetQuiet
<1> HIDE DEF s
<1> QED
  BY <1>1, <1>2, <1>3, QuietlyKeeps

\* A step in which process q's timers change, but it gets none for itself unless it runs.
LEMMA TimersSetKeeps ==
  ASSUME IInv, AtInstruction, NEW s, Quietly(os, s), NEW q \in Processes, NEW f \in Seq(Timer),
         q # cpu.current => \A x \in ToSet(f) : x.own => x \in ToSet(os.proc[q].timers),
         NEW asks, Step(TimersSet(s, q, f), asks)
  PROVE  IInv'
<1> DEFINE t == TimersSet(s, q, f)
<1>1. Sound(s) /\ Quiet(os, s) /\ SameTimers(os, s) /\ Step(t, asks)
  BY DEF Quietly
<1>2. /\ Quiet(s, t) /\ Sound(t) /\ t.proc[q].timers = f
      /\ \A r \in Processes \ {q} : t.proc[r].timers = s.proc[r].timers
  BY <1>1, TimersSetQuiet
<1> HIDE DEF t
<1>3. Quiet(os, t)
  BY <1>1, <1>2, QuietTransitive
<1>4. NoNewOwn(os, t, cpu.current)
  BY <1>1, <1>2 DEF NoNewOwn, SameTimers
<1> QED
  BY <1>1, <1>2, <1>3, <1>4, QuietLeaves, StepKeeps

\* Timers are taken from a process.
LEMMA CancelsKeeps ==
  ASSUME IInv, AtInstruction, NEW q \in Processes, NEW S, Step(TimersSet(os, q, Those(os.proc[q].timers, S)), FALSE)
  PROVE  IInv'
<1> DEFINE f == Those(os.proc[q].timers, S)
<1>1. Sound(os) /\ os.proc[q].timers \in Seq(Timer) /\ Quietly(os, os)
  BY CurrentIs, QuietlyReflexive DEF Sound, States, ProcessRecord
<1>2. f \in Seq(Timer) /\ ToSet(f) \subseteq ToSet(os.proc[q].timers)
  BY <1>1, ThoseAre
<1>3. Step(TimersSet(os, q, f), FALSE)
  OBVIOUS
<1> HIDE DEF f
<1> QED
  BY <1>1, <1>2, <1>3, TimersSetKeeps

\* $CANWAK keeps the invariant.
LEMMA CanwakKeeps ==
  ASSUME IInv, NEW p \in Processes, NEW q \in Targets, Canwak(p, q)
  PROVE  IInv'
<1> DEFINE S == {t \in ToSet(os.proc[q].timers) : ~t.wake}
<1>1. AtInstruction /\ q \in Processes
  BY ExecutesIs DEF Canwak, Calls, Targets, Present
<1>2. Step(TimersSet(os, q, Those(os.proc[q].timers, S)), FALSE)
  BY DEF Canwak, TimersSet
<1> HIDE DEF S
<1> QED
  BY <1>1, <1>2, CancelsKeeps

\* $CANTIM keeps the invariant.
LEMMA CantimKeeps ==
  ASSUME IInv, NEW p \in Processes, Cantim(p)
  PROVE  IInv'
<1> DEFINE S == {t \in ToSet(os.proc[p].timers) : t.wake \/ t.mode < Mode(p)}
<1>1. AtInstruction
  BY ExecutesIs DEF Cantim, Calls
<1>2. Step(TimersSet(os, p, Those(os.proc[p].timers, S)), FALSE)
  BY DEF Cantim, TimersSet
<1> HIDE DEF S
<1> QED
  BY <1>1, <1>2, CancelsKeeps

\* A timer is queued; another process's is not its own.
LEMMA AddTimerKeeps ==
  ASSUME IInv, AtInstruction, NEW s, Quietly(os, s), NEW q \in Processes, NEW x \in Timer,
         q # cpu.current => ~x.own, Step(AddTimer(s, q, x), FALSE)
  PROVE  IInv'
<1> DEFINE f == Append(s.proc[q].timers, x)
<1>1. s.proc[q].timers \in Seq(Timer) /\ s.proc[q].timers = os.proc[q].timers
  BY DEF Quietly, Sound, States, ProcessRecord, SameTimers
<1>2. f \in Seq(Timer) /\ ToSet(f) = ToSet(os.proc[q].timers) \cup {x}
  BY <1>1, MembersOfAppend
<1>3. Step(TimersSet(s, q, f), FALSE)
  BY DEF AddTimer, TimersSet
<1> HIDE DEF f
<1>4. q # cpu.current => \A y \in ToSet(f) : y.own => y \in ToSet(os.proc[q].timers)
  BY <1>2
<1> QED
  BY <1>2, <1>3, <1>4, TimersSetKeeps

\* $SCHDWK keeps the invariant.
LEMMA SchdwkKeeps ==
  ASSUME IInv, NEW p \in Processes, NEW q \in Targets, NEW d \in Delays, NEW r \in Repeats, Schdwk(p, q, d, r)
  PROVE  IInv'
<1> DEFINE x == [wake |-> TRUE, left |-> d, repeat |-> r, own |-> p = q]
<1>1. AtInstruction /\ p = cpu.current /\ Quietly(os, os) /\ q \in Processes
  <2>1. Executes(p)
    BY DEF Schdwk, Calls
  <2> QED
    BY <2>1, ExecutesIs, QuietlyReflexive DEF Targets, Present
<1>2. Step(AddTimer(os, q, x), FALSE)
  BY DEF Schdwk
<1>3. x \in Timer /\ (q # cpu.current => ~x.own)
  <2>1. d \in Int /\ r \in Nat /\ (p = q) \in BOOLEAN
    BY ProcessesAssumption
  <2>2. x \in Timer
    BY <2>1 DEF Timer
  <2> QED
    BY <1>1, <2>2
<1> HIDE DEF x
<1> QED
  BY <1>1, <1>2, <1>3, AddTimerKeeps

\* The mode the current process is in.
LEMMA ModeIs ==
  ASSUME IInv, NEW p, Executes(p)
  PROVE  Mode(p) \in Modes /\ Last(os.proc[p].calls) \in Frame
<1>1. Sound(os) /\ p \in Present(os)
  BY ExecutesIs
<1>2. Last(os.proc[p].calls) \in Frame
  BY <1>1, PresentFits, CallsAre
<1> QED
  BY <1>2 DEF Mode, Frame

\* $SETIMR keeps the invariant.
LEMMA SetimrKeeps ==
  ASSUME IInv, NEW p \in Processes, NEW f \in FlagsOf(p), NEW d \in Delays, NEW ast \in BOOLEAN, Setimr(p, f, d, ast)
  PROVE  IInv'
<1> DEFINE x == [wake |-> FALSE, left |-> d, repeat |-> 0, own |-> TRUE, efn |-> f, ast |-> ast, mode |-> Mode(p)]
           s == ClearFlag(os, p, f)
<1>1. Executes(p)
  BY DEF Setimr, Calls
<1>2. AtInstruction /\ p = cpu.current /\ Sound(os) /\ p \in Processes /\ Mode(p) \in Modes
  BY <1>1, ExecutesIs, ModeIs
<1>3. Step(AddTimer(s, p, x), FALSE) /\ CanReach(os, p, f.cluster)
  BY DEF Setimr
<1>4. f \in Flag /\ d \in Int
  BY ProcessesAssumption DEF FlagsOf
<1>5. x \in Timer
  BY <1>2, <1>4 DEF Timer
<1>6. Quietly(os, s)
  BY <1>2, <1>3, <1>4, ClearFlagQuiet
<1> HIDE DEF x, s
<1> QED
  BY <1>2, <1>3, <1>5, <1>6, AddTimerKeeps

\* $SETEF keeps the invariant.
LEMMA SetefKeeps ==
  ASSUME IInv, NEW p \in Processes, NEW f \in FlagsOf(p), Setef(p, f)
  PROVE  IInv'
<1> DEFINE s == PostFlag(os, p, f)
<1>1. AtInstruction /\ Sound(os) /\ Step(s, FALSE)
  BY ExecutesIs DEF Setef, Calls
<1>2. f \in Flag
  BY ProcessesAssumption DEF FlagsOf
<1>3. Quietly(os, s)
  BY <1>1, <1>2, PostFlagQuiet
<1> HIDE DEF s
<1> QED
  BY <1>1, <1>3, QuietlyKeeps

\* $CLREF keeps the invariant.
LEMMA ClrefKeeps ==
  ASSUME IInv, NEW p \in Processes, NEW f \in FlagsOf(p), Clref(p, f)
  PROVE  IInv'
<1> DEFINE s == ClearFlag(os, p, f)
<1>1. AtInstruction /\ Sound(os) /\ Step(s, FALSE)
  BY ExecutesIs DEF Clref, Calls
<1>2. f \in Flag /\ CanReach(os, p, f.cluster)
  BY ProcessesAssumption DEF FlagsOf
<1>3. Quietly(os, s)
  BY <1>1, <1>2, ClearFlagQuiet
<1> HIDE DEF s
<1> QED
  BY <1>1, <1>3, QuietlyKeeps

\* The calls a program makes are calls.
LEMMA RequestsAre ==
  ASSUME IInv, NEW p \in Processes, NEW call \in system.requests[p]
  PROVE  call \in Call /\ call \in Doings
<1>1. system \in Systems
  BY DEF IInv
<1>2. system.requests \in [Processes -> SUBSET Call]
  BY <1>1, ProcessesAssumption
<1> QED
  BY <1>2 DEF Doings

\* $WAITFR keeps the invariant.
LEMMA WaitfrKeeps ==
  ASSUME IInv, NEW p \in Processes, NEW call \in system.requests[p], Waitfr(p, call)
  PROVE  IInv'
<1> DEFINE w == [kind |-> "flags", cluster |-> call.cluster, mask |-> call.mask, all |-> call.all]
<1>1. AtInstruction /\ p = cpu.current /\ Quietly(os, os)
  <2>1. Executes(p)
    BY DEF Waitfr, Attempts, Calls, Retries
  <2> QED
    BY <2>1, ExecutesIs, QuietlyReflexive
<1>2. call \in Call /\ call \in Doings /\ call.svc = "WAITFR"
  BY RequestsAre DEF Waitfr
<1>3. w \in Wait /\ w.kind # "subprocesses"
  <2>1. call.cluster \in {Local} \cup Clusters /\ call.mask \in SUBSET Nat /\ call.all \in BOOLEAN
    BY <1>2 DEF Call
  <2> QED
    BY <2>1 DEF Wait
<1>4. Return(os, p) \/ WaitIn(os, p, call, w)
  BY DEF Waitfr
<1> HIDE DEF w
<1> QED
  BY <1>1, <1>2, <1>3, <1>4, ReturnKeeps, WaitInKeeps

\* $DCLAST keeps the invariant.
LEMMA DclastKeeps ==
  ASSUME IInv, NEW p \in Processes, NEW m \in Modes, Dclast(p, m)
  PROVE  IInv'
<1> DEFINE s == QueueAST(os, {p}, m)
<1>1. AtInstruction /\ Sound(os) /\ Step(s, FALSE)
  BY ExecutesIs DEF Dclast, Calls
<1>2. Quietly(os, s)
  BY <1>1, QueueASTQuiet
<1> HIDE DEF s
<1> QED
  BY <1>1, <1>2, QuietlyKeeps

\* $SETAST keeps the invariant.
LEMMA SetastKeeps ==
  ASSUME IInv, NEW p \in Processes, NEW on \in BOOLEAN, Setast(p, on)
  PROVE  IInv'
<1> DEFINE e == IF on THEN os.proc[p].enabled \cup {Mode(p)} ELSE os.proc[p].enabled \ {Mode(p)}
           s == EnabledSet(os, p, e)
<1>1. Executes(p)
  BY DEF Setast, Calls
<1>2. AtInstruction /\ Sound(os) /\ Mode(p) \in Modes
  BY <1>1, ExecutesIs, ModeIs
<1>3. e \in SUBSET Modes
  <2>1. os.proc[p].enabled \in SUBSET Modes
    BY <1>2 DEF Sound, States, ProcessRecord
  <2> QED
    BY <1>2, <2>1
<1>4. Step(s, FALSE)
  BY DEF Setast, EnabledSet
<1> HIDE DEF e
<1>5. Quietly(os, s)
  BY <1>2, <1>3, EnabledSetQuiet
<1> HIDE DEF s
<1> QED
  BY <1>2, <1>4, <1>5, QuietlyKeeps

\* $CLRAST keeps the invariant.
LEMMA ClrastKeeps ==
  ASSUME IInv, NEW p \in Processes, Clrast(p)
  PROVE  IInv'
<1> DEFINE s == ASTReturned(os, p)
<1>1. AtInstruction /\ Sound(os) /\ p \in Present(os)
  BY ExecutesIs DEF Clrast
<1>2. Step(s, FALSE) /\ Last(os.proc[p].calls).ast
  BY DEF Clrast, ASTReturned
<1>3. Quietly(os, s)
  BY <1>1, <1>2, ClrastQuiet
<1> HIDE DEF s
<1> QED
  BY <1>1, <1>2, <1>3, QuietlyKeeps

\* $CMKRNL keeps the invariant.
LEMMA CmkrnlKeeps ==
  ASSUME IInv, NEW p \in Processes, Cmkrnl(p)
  PROVE  IInv'
<1> DEFINE f == [mode |-> Kernel, ast |-> FALSE, doing |-> None]
           s == Recalled(os, p, Append(os.proc[p].calls, f))
<1>1. AtInstruction /\ Sound(os) /\ p \in Present(os)
  BY ExecutesIs DEF Cmkrnl, Calls
<1>2. Step(s, FALSE)
  BY DEF Cmkrnl, Recalled
<1>3. Quietly(os, s)
  <2>1. f = [mode |-> Kernel, ast |-> FALSE, doing |-> None]
    OBVIOUS
  <2> HIDE DEF f
  <2> QED
    BY <1>1, <2>1, CmkrnlQuiet
<1> HIDE DEF s
<1> QED
  BY <1>1, <1>2, <1>3, QuietlyKeeps

\* The return of a $CMKRNL routine keeps the invariant.
LEMMA CmkrnlReturnsKeeps ==
  ASSUME IInv, NEW p \in Processes, CmkrnlReturns(p)
  PROVE  IInv'
<1> DEFINE s == Recalled(os, p, Front(os.proc[p].calls))
<1>1. AtInstruction /\ Sound(os) /\ p \in Present(os)
  BY ExecutesIs DEF CmkrnlReturns
<1>2. Step(s, FALSE) /\ ~Last(os.proc[p].calls).ast /\ Len(os.proc[p].calls) > 1
  BY DEF CmkrnlReturns, Recalled
<1>3. Quietly(os, s)
  BY <1>1, <1>2, CmkrnlReturnsQuiet
<1> HIDE DEF s
<1> QED
  BY <1>1, <1>2, <1>3, QuietlyKeeps

\* The return of an AST routine keeps the invariant.
LEMMA NextASTKeeps ==
  ASSUME IInv, NEW p \in Processes, NextAST(p)
  PROVE  IInv'
<1> DEFINE s == ExpireTimers(os, p)
           t == CallAST(s, p)
<1>1. AtInstruction /\ p = cpu.current /\ Step(t, FALSE)
  BY DEF NextAST
<1>2. Sound(os) /\ p \in Present(os)
  BY <1>1, CurrentIs
<1>3. Quiet(os, s) /\ Sound(s) /\ \A q \in Processes \ {p} : s.proc[q].timers = os.proc[q].timers
  BY <1>2, ExpireTimersQuiet
<1> HIDE DEF s
<1>4. Quietly(s, t)
  BY <1>2, <1>3, QuietPresent, CallASTQuiet
<1> HIDE DEF t
<1>5. Quiet(os, t) /\ Sound(t)
  BY <1>3, <1>4, QuietTransitive DEF Quietly
<1>6. NoNewOwn(os, t, cpu.current)
  BY <1>1, <1>3, <1>4 DEF NoNewOwn, Quietly, SameTimers
<1> QED
  BY <1>1, <1>5, <1>6, QuietLeaves, StepKeeps

-----------------------------------------------------------------------------
(* The services that concern common clusters and other processes.             *)

Base(s, n, permanent) ==
  IF s.clusters[n] = None THEN [flags |-> {}, refs |-> 0, permanent |-> permanent, marked |-> FALSE]
  ELSE s.clusters[n]

Ready(s, n, permanent) ==
  IF s.clusters[n] = None THEN [s EXCEPT !.clusters[n] = Base(s, n, permanent)] ELSE s

Joined(s, p, c, n) == [s EXCEPT !.clusters[n].refs = @ + 1, !.proc[p].common[c] = n]

\* The cluster made first and the old one given up then, or the other way round.
LEMMA AscefcIs ==
  ASSUME NEW s, Sound(s), NEW p \in Processes, NEW c \in Clusters, NEW n \in Names, NEW permanent,
         s.clusters[n] = None \/ s.proc[p].common[c] # n,
         NEW t, t = Joined(Disassociate(Ready(s, n, permanent), p, {c}), p, c, n)
  PROVE  t = Associated(Disassociate(s, p, {c}), p, c, n, Base(s, n, permanent))
<1> DEFINE d == Base(s, n, permanent)
           w == Ready(s, n, permanent)
           X == [e \in Clusters |-> IF e \in {c} THEN None ELSE s.proc[p].common[e]]
           had(k) == {e \in {c} : s.proc[p].common[e] = k}
           F(x) == [k \in Names |-> IF had(k) = {} THEN x[k]
                                    ELSE DeleteIfUnused([x[k] EXCEPT !.refs = x[k].refs - Cardinality(had(k))])]
           b == F(s.clusters)
           a == [s.proc EXCEPT ![p].common = X]
<1>1. /\ s \in States /\ s.proc \in [Processes -> ProcessRecord] /\ s.proc[p] \in ProcessRecord
      /\ s.clusters \in [Names -> Cluster \cup {None}]
  BY DEF Sound, States
<1>2. s.proc[p].common[c] # n
  <2>1. CASE s.clusters[n] = None
    <3>1. Uses(s, n) = {}
      BY <2>1 DEF Sound, ClusterFits
    <3>2. <<p, c>> \in Processes \X Clusters /\ <<p, c>>[1] = p /\ <<p, c>>[2] = c
      OBVIOUS
    <3> QED
      BY <3>1, <3>2 DEF Uses
  <2> QED
    BY <2>1
<1>3. w = [s EXCEPT !.clusters = [s.clusters EXCEPT ![n] = d]]
  <2>1. CASE s.clusters[n] = None
    BY <2>1 DEF Ready
  <2>2. CASE s.clusters[n] # None
    <3>1. w = s /\ d = s.clusters[n]
      BY <2>2 DEF Ready, Base
    <3>2. s.clusters = [s.clusters EXCEPT ![n] = d]
      BY <1>1, <3>1
    <3> HIDE DEF w, d
    <3>3. s = [s EXCEPT !.clusters = s.clusters]
      BY <1>1 DEF States
    <3> QED
      BY <3>1, <3>2, <3>3
  <2> QED
    BY <2>1, <2>2
<1> HIDE DEF w, d
<1>4. w.proc = s.proc /\ w.clusters = [s.clusters EXCEPT ![n] = d]
  BY <1>1, <1>3 DEF States
<1>5. Disassociate(s, p, {c}) = [s EXCEPT !.proc = a, !.clusters = b]
  BY DEF Disassociate
<1>6. Disassociate(w, p, {c}) = [w EXCEPT !.proc = a, !.clusters = F(w.clusters)]
  BY <1>4 DEF Disassociate
<1>7. F(w.clusters) = [b EXCEPT ![n] = d]
  <2>1. had(n) = {}
    BY <1>2
  <2>2. w.clusters[n] = d /\ \A k \in Names \ {n} : w.clusters[k] = s.clusters[k]
    BY <1>1, <1>4
  <2>3. F(w.clusters)[n] = d
    BY <2>1, <2>2
  <2>4. \A k \in Names \ {n} : F(w.clusters)[k] = b[k]
    BY <2>2
  <2> DEFINE f == F(w.clusters)
  <2>5. f = [k \in Names |-> f[k]] /\ b = [k \in Names |-> b[k]] /\ f[n] = d /\ \A k \in Names \ {n} : f[k] = b[k]
    BY <2>3, <2>4
  <2> HIDE DEF f, b
  <2>6. f = [b EXCEPT ![n] = d]
    BY <2>5
  <2> QED
    BY <2>6 DEF f
<1>8. DOMAIN b = Names
  OBVIOUS
<1> HIDE DEF a, b, F
<1>9. Disassociate(w, p, {c}) = [s EXCEPT !.proc = a, !.clusters = [b EXCEPT ![n] = d]]
  BY <1>1, <1>3, <1>6, <1>7 DEF States
<1> DEFINE u == Disassociate(s, p, {c})
           v == Disassociate(w, p, {c})
           e == [d EXCEPT !.refs = d.refs + 1]
           b1 == [b EXCEPT ![n] = d]
           b2 == [b EXCEPT ![n] = e]
           a2 == [a EXCEPT ![p].common[c] = n]
<1> HIDE DEF u, v
<1>10. b1[n] = d /\ [b1 EXCEPT ![n] = [b1[n] EXCEPT !.refs = b1[n].refs + 1]] = b2
  BY <1>8
<1> HIDE DEF b1
<1>11. v.proc = a /\ v.clusters = b1 /\ u.proc = a /\ u.clusters = b
  BY <1>1, <1>5, <1>9 DEF States, u, v, b1
<1>12. Joined(v, p, c, n) = [v EXCEPT !.clusters = b2, !.proc = a2]
  <2> HIDE DEF b2, e
  <2>1. [v EXCEPT !.clusters[n].refs = @ + 1] = [v EXCEPT !.clusters = b2]
    BY <1>10, <1>11
  <2> HIDE DEF a2
  <2>2. [[v EXCEPT !.clusters = b2] EXCEPT !.proc[p].common[c] = n] = [[v EXCEPT !.clusters = b2] EXCEPT !.proc = a2]
    BY <1>1, <1>9, <1>11 DEF a2, States, v
  <2> QED
    BY <2>1, <2>2 DEF Joined
<1>13. Associated(u, p, c, n, d) = [u EXCEPT !.clusters = b2, !.proc = a2]
  <2> HIDE DEF b2, e
  <2>1. [u EXCEPT !.clusters[n] = [d EXCEPT !.refs = d.refs + 1]] = [u EXCEPT !.clusters = b2]
    BY <1>11 DEF b2, e
  <2> HIDE DEF a2
  <2>2. [[u EXCEPT !.clusters = b2] EXCEPT !.proc[p].common[c] = n] = [[u EXCEPT !.clusters = b2] EXCEPT !.proc = a2]
    BY <1>1, <1>5, <1>11 DEF a2, States, u
  <2> QED
    BY <2>1, <2>2 DEF Associated
<1> HIDE DEF a2, b2
<1>14. [v EXCEPT !.clusters = b2, !.proc = a2] = [u EXCEPT !.clusters = b2, !.proc = a2]
  BY <1>1, <1>5, <1>9 DEF States, u, v
<1> QED
  BY <1>12, <1>13, <1>14 DEF u, v, w, d

\* $ASCEFC keeps the invariant.
LEMMA AscefcKeeps ==
  ASSUME IInv, NEW p \in Processes, NEW call \in system.requests[p], Ascefc(p, call)
  PROVE  IInv'
<1> DEFINE c == call.cluster
           n == call.name
           d == Base(os, n, call.permanent)
           u == Disassociate(os, p, {c})
           t == Associated(u, p, c, n, d)
           v == Joined(Disassociate(Ready(os, n, call.permanent), p, {c}), p, c, n)
<1>1. AtInstruction /\ p = cpu.current /\ Sound(os) /\ p \in Present(os)
  <2>1. Executes(p)
    BY DEF Ascefc, Calls
  <2> QED
    BY <2>1, ExecutesIs
<1>2. c \in Clusters /\ n \in Names /\ call.permanent \in BOOLEAN
  <2>1. call \in Call /\ call.svc = "ASCEFC"
    BY RequestsAre DEF Ascefc
  <2> QED
    BY <2>1 DEF Call
<1>3. Step(v, FALSE) /\ (os.clusters[n] = None \/ os.proc[p].common[c] # n)
  BY DEF Ascefc, Ready, Base, Joined
<1> HIDE DEF v
<1>4. t = v
  BY <1>1, <1>2, <1>3, AscefcIs DEF v
<1> HIDE DEF u
<1>5. /\ Steadily(os, u) /\ u.proc[p] = Without(os.proc[p], {c})
      /\ \A q \in Processes \ {p} : u.proc[q] = os.proc[q]
      /\ (\A e \in {c} : os.proc[p].common[e] # n) => u.clusters[n] = os.clusters[n]
  BY <1>1, <1>2, DisassociateSound DEF u
<1>6. os.proc[p].common[c] # n
  <2>1. CASE os.clusters[n] = None
    <3>1. Uses(os, n) = {}
      BY <1>1, <1>2, <2>1 DEF Sound, ClusterFits
    <3>2. <<p, c>> \in Processes \X Clusters /\ <<p, c>>[1] = p /\ <<p, c>>[2] = c
      BY <1>2
    <3> QED
      BY <3>1, <3>2 DEF Uses
  <2> QED
    BY <1>3, <2>1
<1>7. u.clusters[n] = os.clusters[n]
  BY <1>5, <1>6
<1>8. d \in Cluster /\ (u.clusters[n] = None => d.refs = 0) /\ (u.clusters[n] # None => d = u.clusters[n])
  <2>1. os.clusters[n] \in Cluster \cup {None}
    BY <1>1, <1>2 DEF Sound, States
  <2>2. [flags |-> {}, refs |-> 0, permanent |-> call.permanent, marked |-> FALSE] \in Cluster
    BY <1>2 DEF Cluster
  <2> QED
    BY <1>7, <2>1, <2>2 DEF Base
<1>9. Sound(u) /\ p \in Present(u) /\ u.proc[p].common[c] = None
      /\ \A q \in Processes : u.proc[q].marked = os.proc[q].marked
  <2>1. os.proc[p] \in ProcessRecord /\ ProcessFits(os.proc[p])
    BY <1>1 DEF Sound, States
  <2>2. u.proc[p].marked = os.proc[p].marked
    BY <1>5, <2>1, WithoutIs
  <2>3. \A e \in Clusters : u.proc[p].common[e] = IF e \in {c} THEN None ELSE os.proc[p].common[e]
    BY <1>5, <2>1, WithoutIs
  <2>4. \A q \in Processes : u.proc[q].marked = os.proc[q].marked
    BY <1>5, <2>2
  <2> QED
    BY <1>1, <1>2, <1>5, <2>3, <2>4 DEF Steadily
<1> HIDE DEF d, t
<1>10. Steadily(u, t) /\ \A q \in Processes : t.proc[q].marked = u.proc[q].marked
  BY <1>2, <1>8, <1>9, AssociatedSound DEF t
<1>11. Steadily(os, t) /\ t.proc[p].marked = os.proc[p].marked
  BY <1>5, <1>9, <1>10, SteadilyTransitive
<1> QED
  BY <1>1, <1>3, <1>4, <1>11, SteadilyKeeps

\* $DACEFC keeps the invariant.
LEMMA DacefcKeeps ==
  ASSUME IInv, NEW p \in Processes, NEW c \in Clusters, Dacefc(p, c)
  PROVE  IInv'
<1> DEFINE t == Disassociate(os, p, {c})
<1>1. AtInstruction /\ p = cpu.current /\ Sound(os) /\ Step(t, FALSE)
  <2>1. Executes(p)
    BY DEF Dacefc, Calls
  <2> QED
    BY <2>1, ExecutesIs DEF Dacefc
<1>2. Steadily(os, t) /\ t.proc[p] = Without(os.proc[p], {c})
  BY <1>1, DisassociateSound
<1> HIDE DEF t
<1>3. t.proc[p].marked = os.proc[p].marked
  <2>1. os.proc[p] \in ProcessRecord /\ ProcessFits(os.proc[p])
    BY <1>1 DEF Sound, States
  <2> QED
    BY <1>2, <2>1, WithoutIs
<1> QED
  BY <1>1, <1>2, <1>3, SteadilyKeeps

\* $DLCEFC keeps the invariant.
LEMMA DlcefcKeeps ==
  ASSUME IInv, NEW p \in Processes, NEW n \in Names, Dlcefc(p, n)
  PROVE  IInv'
<1> DEFINE x == DeleteIfUnused([os.clusters[n] EXCEPT !.marked = TRUE])
           t == [os EXCEPT !.clusters[n] = x]
<1>1. AtInstruction /\ Sound(os) /\ Step(t, FALSE) /\ os.clusters[n] # None
  BY ExecutesIs DEF Dlcefc, Calls
<1>2. Steadily(os, t) /\ t.proc = os.proc
  BY <1>1, ClusterMarkedSound
<1> HIDE DEF t
<1> QED
  BY <1>1, <1>2, SteadilyKeeps

\* $SUSPND keeps the invariant.
LEMMA SuspndKeeps ==
  ASSUME IInv, NEW p \in Processes, NEW q \in Targets, Suspnd(p, q)
  PROVE  IInv'
<1> DEFINE t == Suspend(os, q)
<1>1. AtInstruction /\ p = cpu.current /\ Sound(os) /\ Step(t, FALSE) /\ q \in Present(os)
  <2>1. Executes(p)
    BY DEF Suspnd, Calls
  <2> QED
    BY <2>1, ExecutesIs DEF Suspnd, Targets
<1>2. Steadily(os, t) /\ \A r \in Processes : t.proc[r].marked = os.proc[r].marked
  BY <1>1, SuspendSound
<1> HIDE DEF t
<1> QED
  BY <1>1, <1>2, SteadilyKeeps

\* $RESUME keeps the invariant.
LEMMA ResumeProcessKeeps ==
  ASSUME IInv, NEW p \in Processes, NEW q \in Targets, ResumeProcess(p, q)
  PROVE  IInv'
<1> DEFINE t == Resume(os, q)
<1>1. AtInstruction /\ p = cpu.current /\ Sound(os) /\ Step(t, os.proc[q].suspended) /\ q \in Present(os)
  <2>1. Executes(p)
    BY DEF ResumeProcess, Calls
  <2> QED
    BY <2>1, ExecutesIs DEF ResumeProcess, Targets
<1>2. Steadily(os, t) /\ \A r \in Processes : t.proc[r].marked = os.proc[r].marked
  BY <1>1, ResumeSound
<1> HIDE DEF t
<1> QED
  BY <1>1, <1>2, SteadilyKeeps

\* $DELPRC keeps the invariant.
LEMMA DelprcKeeps ==
  ASSUME IInv, NEW p \in Processes, NEW q \in Targets, Delprc(p, q)
  PROVE  IInv'
<1>1. AtInstruction /\ p = cpu.current /\ Sound(os) /\ q \in Present(os) \ {Console} /\ ~Waits(os, p)
  <2>1. Executes(p)
    BY DEF Delprc, Calls
  <2> QED
    BY <2>1, ExecutesIs, CurrentIs, ComputesIs DEF Delprc, Targets
<1>2. CASE q = p
  <2> DEFINE t == DeleteProcess(os, p, p)
  <2>1. Step(t, TRUE) /\ p \in Present(os) \ {Console}
    BY <1>1, <1>2 DEF Delprc
  <2>2. /\ Sound(t) /\ ~Computes(t, p) /\ t.memory = os.memory
        /\ Present(t) = Present(os) \/ Present(t) = Present(os) \ {p}
        /\ \A r \in Processes \ {p} : t.proc[r].timers = os.proc[r].timers
    BY <1>1, <2>1, DeleteProcessSound
  <2> HIDE DEF t
  <2>3. MemoryFits(t, p)
    BY <1>1, <2>2, CurrentIs DEF MemoryFits
  <2>4. Leaves(t)
    BY <1>1, <2>2, <2>3 DEF Leaves, NoNewOwn
  <2> QED
    BY <1>1, <2>1, <2>4, StepKeeps
<1>3. CASE q # p
  <2> DEFINE t == MarkForDeletion(os, {q})
  <2>1. Step(t, ~os.proc[q].marked) /\ Console \notin {q}
    BY <1>1, <1>3 DEF Delprc
  <2>2. /\ Steadily(os, t)
        /\ \A r \in Processes : r \notin {q} => t.proc[r] = os.proc[r]
    BY <1>1, <2>1, MarkForDeletionSound
  <2> HIDE DEF t
  <2> QED
    BY <1>1, <1>3, <2>1, <2>2, SteadilyKeeps
<1> QED
  BY <1>2, <1>3

-----------------------------------------------------------------------------
(* The services that concern the mailbox.                                     *)

WithRequest(s, r, i) == [s EXCEPT !.io[r] = i]

\* A request is made, of a process that is there.
LEMMA RequestMade ==
  ASSUME NEW s, Sound(s), NEW r \in Requests, s.io[r] = None, NEW i \in IORequest, i.owner \in Present(s),
         NEW t, t = WithRequest(s, r, i)
  PROVE  Steadily(s, t) /\ t.proc = s.proc /\ r \in Made(t)
<1> DEFINE x == [s.io EXCEPT ![r] = i]
<1>1. s \in States /\ s.io \in [Requests -> IORequest \cup {None}] /\ i # None
  BY ProcessEventsAssumption DEF Sound, States
<1>2. x \in [Requests -> IORequest \cup {None}] /\ x[r] = i /\ \A k \in Requests \ {r} : x[k] = s.io[k]
  BY <1>1
<1>3. t = [s EXCEPT !.io = x]
  BY DEF WithRequest
<1> HIDE DEF x
<1>4. /\ t \in States /\ t.proc = s.proc /\ t.waiters = s.waiters /\ t.clusters = s.clusters /\ t.io = x
      /\ t.mailbox = s.mailbox /\ t.attention = s.attention /\ t.memory = s.memory
  BY <1>1, <1>2, <1>3 DEF States
<1>5. Made(t) = Made(s) \cup {r}
  BY <1>1, <1>2, <1>4 DEF Made
<1>6. InMail(t) \subseteq Made(t)
  BY <1>4, <1>5 DEF Sound, MailMade, InMail
<1>7. ASSUME NEW p \in Processes \ Present(s)
      PROVE  PendingIO(t, p) = {} /\ \A k \in Attentions : p \notin t.attention[k]
  <2>1. PendingIO(s, p) = {} /\ \A k \in Attentions : p \notin s.attention[k]
    BY DEF Sound, NothingLeft
  <2>2. PendingIO(t, p) = {}
    BY <1>2, <1>4, <2>1 DEF PendingIO
  <2> QED
    BY <1>4, <2>1, <2>2
<1>8. Sound(t)
  BY <1>4, <1>6, <1>7, ElsewhereSound
<1> QED
  BY <1>4, <1>5, <1>8 DEF Steadily, SameTimers, Present

\* The request a process makes of the mailbox, and the state after it.
Asked(p, call) ==
  [owner |-> p, done |-> FALSE, efn |-> call.efn, ast |-> call.ast, mode |-> Mode(p)]

Served(p, call, r) ==
  LET made == WithRequest(ClearFlag(os, p, call.efn), r, Asked(p, call))
  IN  IF call.op = "read" THEN ReadMailbox(made, call.now, r)
      ELSE WriteMailbox(made, call.data, call.now, r)

\* The next request is one that is not in use.
LEMMA NextRequestIs ==
  ASSUME \E r \in Requests : os.io[r] = None
  PROVE  NextRequest \in Requests /\ os.io[NextRequest] = None
<1> DEFINE T == {r \in Requests : os.io[r] = None}
<1>1. T # {} /\ T \subseteq Nat
  BY ProcessEventsAssumption
<1>2. NextRequest = Min(T)
  BY DEF NextRequest
<1> HIDE DEF T
<1>3. \E k \in T : \A j \in T : k <= j
  BY <1>1, LeastOf
<1>4. Min(T) \in T
  BY <1>3 DEF Min
<1> QED
  BY <1>2, <1>4 DEF T

\* A read or write of the mailbox is steady, and marks nobody.
LEMMA ServedIs ==
  ASSUME IInv, NEW p, Executes(p), NEW call \in Call, call.svc \in {"QIO", "QIOW"},
         CanReach(os, p, call.efn.cluster), NEW r \in Requests, os.io[r] = None,
         NEW s, s = Served(p, call, r)
  PROVE  Steadily(os, s) /\ s.proc[p].marked = os.proc[p].marked
<1> DEFINE i == Asked(p, call)
           cleared == ClearFlag(os, p, call.efn)
           made == WithRequest(cleared, r, i)
<1>1. Sound(os) /\ p \in Present(os) /\ p \in Processes /\ Mode(p) \in Modes
  BY ExecutesIs, ModeIs
<1>2. call.efn \in Flag /\ call.ast \in BOOLEAN /\ (call.op # "read" => call.data \in DOMAIN Size \cup {None})
  BY DEF Call
<1>3. i \in IORequest /\ i.owner = p
  BY <1>1, <1>2 DEF IORequest, Asked
<1>4. Quietly(os, cleared)
  BY <1>1, <1>2, ClearFlagQuiet
<1>5. cleared.io[r] = None
  BY <1>4 DEF Quietly, Quiet, RequestKept
<1>6. s = IF call.op = "read" THEN ReadMailbox(made, call.now, r) ELSE WriteMailbox(made, call.data, call.now, r)
  BY DEF Served
<1> HIDE DEF i, cleared
<1>7. Sound(cleared) /\ p \in Present(cleared) /\ Steadily(os, cleared)
      /\ \A q \in Processes : cleared.proc[q].marked = os.proc[q].marked
  BY <1>1, <1>4, QuietPresent, QuietlySteadily DEF Quietly
<1>8. Steadily(cleared, made) /\ made.proc = cleared.proc /\ r \in Made(made)
  BY <1>3, <1>5, <1>7, RequestMade
<1> HIDE DEF made
<1>9. Sound(made)
  BY <1>8 DEF Steadily
<1>10. Quietly(made, s)
  <2>1. CASE call.op = "read"
    BY <1>6, <1>8, <1>9, <2>1, ReadMailboxQuiet
  <2>2. CASE call.op # "read"
    BY <1>2, <1>6, <1>8, <1>9, <2>2, WriteMailboxQuiet
  <2> QED
    BY <2>1, <2>2
<1>11. Steadily(made, s) /\ \A q \in Processes : s.proc[q].marked = made.proc[q].marked
  BY <1>10, QuietlySteadily
<1> QED
  BY <1>1, <1>7, <1>8, <1>11, SteadilyTransitive

\* $QIO and $QIOW keep the invariant, whether they make the request, wait or fail.
LEMMA QioKeeps ==
  ASSUME IInv, NEW p \in Processes, NEW call \in system.requests[p], Qio(p, call)
  PROVE  IInv'
<1> DEFINE r == NextRequest
           s == Served(p, call, r)
           cleared == ClearFlag(os, p, call.efn)
           again == [svc |-> "QIOW", request |-> r]
           room == [kind |-> "room", data |-> call.data]
           done == [kind |-> "request", request |-> r]
<1>1. /\ Executes(p) /\ call.svc \in {"QIO", "QIOW"} /\ \E k \in Requests : os.io[k] = None
  BY DEF Qio, Attempts, Calls, Retries
<1>2. /\ AtInstruction /\ p = cpu.current /\ Sound(os) /\ call \in Call /\ call \in Doings
      /\ r \in Requests /\ os.io[r] = None
  BY <1>1, ExecutesIs, RequestsAre, NextRequestIs
<1>3. \/ Return(os, p)
      \/ /\ CanReach(os, p, call.efn.cluster) /\ call.op = "write"
         /\ WaitIn(Pruned(cleared), p, call, room)
      \/ CanReach(os, p, call.efn.cluster) /\ Return(s, p)
      \/ CanReach(os, p, call.efn.cluster) /\ WaitIn(s, p, again, done)
  BY DEF Qio, Served, WithRequest, Asked
<1>4. CASE Return(os, p)
  BY <1>2, <1>4, QuietlyReflexive, ReturnKeeps
<1>5. CASE CanReach(os, p, call.efn.cluster) /\ call.op = "write" /\ WaitIn(Pruned(cleared), p, call, room)
  <2> DEFINE u == Pruned(cleared)
  <2>1. call.efn \in Flag /\ call.data \in DOMAIN Size
    BY <1>1, <1>2, <1>5 DEF Call
  <2>2. room \in Wait /\ room.kind # "subprocesses"
    BY <2>1 DEF Wait
  <2>3. Quietly(os, cleared)
    BY <1>2, <1>5, <2>1, ClearFlagQuiet
  <2>4. WaitIn(u, p, call, room)
    BY <1>5
  <2> HIDE DEF cleared, room
  <2>5. Quietly(cleared, u)
    BY <2>3, PrunedQuiet DEF Quietly
  <2> HIDE DEF u
  <2>6. Quietly(os, u)
    BY <2>3, <2>5, QuietlyTransitive
  <2> QED
    BY <1>2, <2>2, <2>4, <2>6, WaitInKeeps
<1>6. CASE CanReach(os, p, call.efn.cluster) /\ (Return(s, p) \/ WaitIn(s, p, again, done))
  <2>1. again \in Doings /\ done \in Wait /\ done.kind # "subprocesses"
    BY <1>2 DEF Doings, Wait
  <2> HIDE DEF r
  <2>2. Steadily(os, s) /\ s.proc[p].marked = os.proc[p].marked
    BY <1>1, <1>2, <1>6, ServedIs
  <2> HIDE DEF s, again, done
  <2> QED
    BY <1>2, <1>6, <2>1, <2>2, ReturnsKeep, WaitsKeep
<1> HIDE DEF s, again, done, room, cleared
<1> QED
  BY <1>3, <1>4, <1>5, <1>6

\* A $QIOW called again keeps the invariant.
LEMMA QiowKeeps ==
  ASSUME IInv, NEW p \in Processes, NEW r \in Requests, Qiow(p, r)
  PROVE  IInv'
<1> DEFINE call == [svc |-> "QIOW", request |-> r]
           w == [kind |-> "request", request |-> r]
<1>1. AtInstruction /\ p = cpu.current /\ Quietly(os, os)
  <2>1. Executes(p)
    BY DEF Qiow, Retries
  <2> QED
    BY <2>1, ExecutesIs, QuietlyReflexive
<1>2. Return(os, p) \/ WaitIn(os, p, call, w)
  BY DEF Qiow
<1>3. call \in Doings /\ w \in Wait /\ w.kind # "subprocesses"
  BY DEF Doings, Wait
<1> HIDE DEF call, w
<1> QED
  BY <1>1, <1>2, <1>3, ReturnKeeps, WaitInKeeps

\* $CANCEL keeps the invariant.
LEMMA CancelKeeps ==
  ASSUME IInv, NEW p \in Processes, Cancel(p)
  PROVE  IInv'
<1> DEFINE s == CancelIO(os, p)
<1>1. AtInstruction /\ Sound(os) /\ Step(s, FALSE)
  BY ExecutesIs DEF Cancel, Calls
<1>2. Quietly(os, s)
  BY <1>1, CancelIOQuiet
<1> HIDE DEF s
<1> QED
  BY <1>1, <1>2, QuietlyKeeps

AttentionAsked(s, kind, p) == [s EXCEPT !.attention[kind] = @ \cup {p}]

\* Asking for an attention AST is sound while the process is there.
LEMMA AttentionSound ==
  ASSUME NEW s, Sound(s), NEW kind \in Attentions, NEW p \in Present(s), NEW t, t = AttentionAsked(s, kind, p)
  PROVE  Steadily(s, t) /\ t.proc = s.proc
<1> DEFINE x == [s.attention EXCEPT ![kind] = s.attention[kind] \cup {p}]
<1>1. s \in States /\ s.attention \in [Attentions -> SUBSET Processes] /\ p \in Processes
  BY DEF Sound, States, Present
<1>2. x \in [Attentions -> SUBSET Processes] /\ \A k \in Attentions : x[k] \subseteq s.attention[k] \cup {p}
  BY <1>1
<1>3. t = [s EXCEPT !.attention = x]
  BY DEF AttentionAsked
<1> HIDE DEF x
<1>4. /\ t \in States /\ t.proc = s.proc /\ t.waiters = s.waiters /\ t.clusters = s.clusters /\ t.io = s.io
      /\ t.mailbox = s.mailbox /\ t.attention = x /\ t.memory = s.memory
  BY <1>1, <1>2, <1>3 DEF States
<1>5. InMail(t) \subseteq Made(t)
  BY <1>4 DEF Sound, MailMade, InMail, Made
<1>6. ASSUME NEW q \in Processes \ Present(s)
      PROVE  PendingIO(t, q) = {} /\ \A k \in Attentions : q \notin t.attention[k]
  <2>1. PendingIO(s, q) = {} /\ \A k \in Attentions : q \notin s.attention[k]
    BY DEF Sound, NothingLeft
  <2>2. PendingIO(t, q) = {}
    BY <1>4, <2>1 DEF PendingIO
  <2> QED
    BY <1>2, <1>4, <2>1, <2>2
<1>7. Sound(t)
  BY <1>4, <1>5, <1>6, ElsewhereSound
<1> QED
  BY <1>4, <1>7 DEF Steadily, SameTimers, Present

\* $SETMODE keeps the invariant.
LEMMA SetmodeKeeps ==
  ASSUME IInv, NEW p \in Processes, NEW k \in Attentions, Setmode(p, k)
  PROVE  IInv'
<1> DEFINE u == Pruned(os)
           s == AttentionAsked(u, k, p)
           t == DeliverAttention(s, k)
<1>1. AtInstruction /\ p = cpu.current /\ Sound(os) /\ p \in Present(os)
  <2>1. Executes(p)
    BY DEF Setmode, Calls
  <2> QED
    BY <2>1, ExecutesIs
<1>2. Step(s, FALSE) \/ Step(t, FALSE)
  BY DEF Setmode, AttentionAsked
<1>3. Quietly(os, u)
  BY <1>1, PrunedQuiet
<1> HIDE DEF u
<1>4. /\ Sound(u) /\ p \in Present(u) /\ Steadily(os, u)
      /\ \A q \in Processes : u.proc[q].marked = os.proc[q].marked
  BY <1>1, <1>3, QuietPresent, QuietlySteadily DEF Quietly
<1>5. Steadily(u, s) /\ s.proc = u.proc
  BY <1>4, AttentionSound
<1> HIDE DEF s
<1>6. Steadily(os, s) /\ \A q \in Processes : s.proc[q].marked = os.proc[q].marked
  BY <1>4, <1>5, SteadilyTransitive
<1>7. Quietly(s, t)
  BY <1>6, DeliverAttentionQuiet DEF Steadily
<1> HIDE DEF t
<1>8. Steadily(os, t) /\ \A q \in Processes : t.proc[q].marked = os.proc[q].marked
  BY <1>6, <1>7, QuietlySteadily, SteadilyTransitive
<1>9. p \in Processes
  OBVIOUS
<1> QED
  BY <1>1, <1>2, <1>6, <1>8, <1>9, SteadilyKeeps

-----------------------------------------------------------------------------
(* The scheduling hook, the idle loop and the console's STOP.                 *)

\* The processor once the CPU holds, and perhaps runs, somebody.
LEMMA BudgetsInTime ==
  ASSUME NEW s, Sound(s), NEW n \in Budgets(s), system \in Systems, NEW c
  PROVE  n \in Nat /\ InTime(s, c, n)
<1>1. system.quantum \in Nat
  BY ProcessesAssumption
<1>2. n \in Nat /\ \A x \in TimesLeft(s) : n <= x
  BY <1>1 DEF Budgets
<1>3. ASSUME NEW p \in Present(s) \ {c}, NEW x \in ToSet(s.proc[p].timers)
      PROVE  n <= x.left
  <2>1. x.left \in TimesLeft(s)
    BY <1>3 DEF TimesLeft
  <2> QED
    BY <1>2, <2>1
<1> QED
  BY <1>2, <1>3 DEF InTime

\* Events leave the processor's holder its memory.
LEMMA QuietMemory ==
  ASSUME NEW s, NEW t, Quiet(s, t), NEW c, MemoryFits(s, c)
  PROVE  MemoryFits(t, c)
<1>1. Present(t) = Present(s) /\ t.memory = s.memory
  BY QuietPresent DEF Quiet
<1> QED
  BY <1>1 DEF MemoryFits

\* Whoever computes and is not marked does so after a quiet step.
LEMMA QuietRuns ==
  ASSUME NEW s, Sound(s), NEW t, Quiet(s, t), NEW c \in Processes, Computes(s, c), ~s.proc[c].marked
  PROVE  Computes(t, c) /\ ~t.proc[c].marked
<1>1. ~Waits(s, c)
  BY ComputesIs
<1>2. Kept(s.proc[c], t.proc[c])
  BY DEF Quiet
<1> QED
  BY <1>1, <1>2 DEF Kept, Waits, Computes

\* What the invariant says of the CPU, part by part.
LEMMA CpuIs ==
  ASSUME IInv
  PROVE  /\ Sound(os) /\ MemoryFits(os, cpu.current) /\ system \in Systems
         /\ cpu = [current |-> cpu.current, running |-> cpu.running, choosing |-> cpu.choosing, budget |-> cpu.budget]
         /\ cpu.current \in Processes /\ cpu.running \in BOOLEAN /\ cpu.choosing \in BOOLEAN /\ cpu.budget \in Nat
         /\ cpu.running => ~cpu.choosing /\ Computes(os, cpu.current) /\ ~os.proc[cpu.current].marked
         /\ cpu.budget > 0 => cpu.running /\ InTime(os, cpu.current, cpu.budget)
  BY DEF IInv, CpuFits, CpuRecord

\* The hook's first step, which polls events, keeps the invariant.
LEMMA ScheduleKeeps ==
  ASSUME IInv, Schedule
  PROVE  IInv'
<1> DEFINE c == cpu.current
<1>1. /\ Sound(os) /\ MemoryFits(os, c) /\ system \in Systems /\ cpu \in CpuRecord
      /\ c \in Processes /\ cpu.running \in BOOLEAN /\ ~cpu.choosing /\ cpu.budget = 0
      /\ cpu.running => Computes(os, c) /\ ~os.proc[c].marked
  BY CpuIs DEF Schedule, IInv
<1>2. Quiet(os, os') /\ Sound(os')
  BY <1>1, PollEventsQuiet DEF Schedule
<1>3. MemoryFits(os', c) /\ system' = system
  BY <1>1, <1>2, QuietMemory DEF Schedule
<1>4. CASE cpu' = [cpu EXCEPT !.choosing = TRUE, !.running = FALSE]
  <2>1. cpu' \in CpuRecord /\ cpu'.current = c /\ ~cpu'.running /\ cpu'.budget = 0
    BY <1>1, <1>4 DEF CpuRecord
  <2>2. CpuFits(os', cpu')
    BY <1>3, <2>1 DEF CpuFits
  <2> QED
    BY <1>1, <1>2, <1>3, <2>1, <2>2 DEF IInv
<1>5. CASE cpu.running /\ \E n \in Budgets(os') : cpu' = [cpu EXCEPT !.budget = n]
  <2>1. PICK n \in Budgets(os') : cpu' = [cpu EXCEPT !.budget = n]
    BY <1>5
  <2>2. n \in Nat /\ InTime(os', c, n)
    BY <1>1, <1>2, BudgetsInTime
  <2>3. cpu' \in CpuRecord /\ cpu'.current = c /\ cpu'.running /\ ~cpu'.choosing /\ cpu'.budget = n
    BY <1>1, <1>5, <2>1, <2>2 DEF CpuRecord
  <2>4. Computes(os', c) /\ ~os'.proc[c].marked
    BY <1>1, <1>2, <1>5, QuietRuns
  <2>5. CpuFits(os', cpu')
    BY <1>3, <2>2, <2>3, <2>4 DEF CpuFits
  <2> QED
    BY <1>1, <1>2, <1>3, <2>3, <2>5 DEF IInv
<1> QED
  BY <1>4, <1>5 DEF Schedule

\* Once the CPU has gone to a process that is there, the memory is that of those present.
LEMMA SwitchSound ==
  ASSUME NEW s, Sound(s), NEW c, c = cpu.current, MemoryFits(s, c), NEW p \in Present(s), NEW t, t = SwitchTo(s, p)
  PROVE  Sound(t) /\ t.proc = s.proc /\ t.memory = Present(s)
<1> DEFINE m == s.memory \ {c}
<1>1. s.memory \in SUBSET Processes
  BY DEF Sound, States
<1>2. CASE s.proc[c].state = "gone" /\ p # c
  <2>1. t = [s EXCEPT !.memory = m]
    BY <1>2 DEF SwitchTo
  <2>2. m \in SUBSET Processes /\ m = Present(s)
    BY <1>1, <1>2 DEF MemoryFits, Present
  <2> HIDE DEF m
  <2> QED
    BY <2>1, <2>2, MemorySound
<1>3. CASE ~(s.proc[c].state = "gone" /\ p # c)
  <2>1. t = s
    BY <1>3 DEF SwitchTo
  <2>2. c \in Present(s)
    BY <1>1, <1>3 DEF MemoryFits, Present
  <2> QED
    BY <2>1, <2>2 DEF MemoryFits
<1> QED
  BY <1>2, <1>3

\* Switching to the process chosen keeps the invariant.
LEMMA ChooseKeeps ==
  ASSUME IInv, NEW p \in Processes, Choose(p)
  PROVE  IInv'
<1> DEFINE t == SwitchTo(os, p)
<1>1. /\ Sound(os) /\ MemoryFits(os, cpu.current) /\ system \in Systems /\ system' = system /\ cpu \in CpuRecord
      /\ Computes(os, p) /\ cpu.choosing /\ ~cpu.running /\ cpu.budget = 0
  BY CpuIs DEF Choose, Computable, IInv
<1>2. p \in Present(os) /\ ~Waits(os, p)
  BY <1>1, ComputesIs
<1>3. Sound(t) /\ t.proc = os.proc /\ t.memory = Present(os)
  BY <1>1, <1>2, SwitchSound
<1>4. CASE ~os.proc[p].marked
  <2>1. /\ os' = t
        /\ \E n \in Budgets(os') : cpu' = [current |-> p, running |-> TRUE, choosing |-> FALSE, budget |-> n]
    BY <1>4 DEF Choose
  <2>2. PICK n \in Budgets(os') : cpu' = [current |-> p, running |-> TRUE, choosing |-> FALSE, budget |-> n]
    BY <2>1
  <2> HIDE DEF t
  <2>3. n \in Nat /\ InTime(os', p, n)
    BY <1>1, <1>3, <2>1, BudgetsInTime
  <2>4. MemoryFits(os', p) /\ Computes(os', p) /\ ~os'.proc[p].marked
    BY <1>1, <1>2, <1>3, <1>4, <2>1 DEF MemoryFits, Present, Computes
  <2>5. cpu' \in CpuRecord
    BY <2>2, <2>3 DEF CpuRecord
  <2>6. CpuFits(os', cpu')
    BY <2>2, <2>3, <2>4 DEF CpuFits
  <2> QED
    BY <1>1, <1>3, <2>1, <2>5, <2>6 DEF IInv
<1>5. CASE os.proc[p].marked
  <2> DEFINE u == DeleteProcess(t, p, p)
             v == WakeWaiters(u)
  <2>1. os' = Collected(v) /\ cpu' = [cpu EXCEPT !.current = p]
    BY <1>5 DEF Choose
  <2> HIDE DEF t
  <2>2. p \in Present(t) \ {Console} /\ ~Waits(t, p) /\ Present(t) = Present(os)
    BY <1>1, <1>2, <1>3, <1>5 DEF Sound, Present, Waits
  <2>3. /\ Sound(u) /\ u.memory = t.memory
        /\ Present(u) = Present(t) \/ Present(u) = Present(t) \ {p}
    BY <1>3, <2>2, DeleteProcessSound
  <2> HIDE DEF u
  <2>4. MemoryFits(u, p)
    BY <1>3, <2>2, <2>3 DEF MemoryFits
  <2>5. Quietly(u, v)
    BY <2>3, WakeWaitersQuiet
  <2> HIDE DEF v
  <2>6. MemoryFits(v, p) /\ Sound(v)
    BY <2>4, <2>5, QuietMemory DEF Quietly
  <2>7. Sound(os') /\ os'.proc = v.proc /\ os'.memory = v.memory
    BY <2>1, <2>6, CollectedSound
  <2>8. cpu' \in CpuRecord /\ cpu'.current = p /\ ~cpu'.running /\ cpu'.budget = 0
    BY <1>1, <2>1 DEF CpuRecord
  <2>9. CpuFits(os', cpu')
    BY <2>6, <2>7, <2>8 DEF CpuFits, MemoryFits, Present
  <2> QED
    BY <1>1, <2>7, <2>8, <2>9 DEF IInv
<1> QED
  BY <1>4, <1>5

\* While nobody runs the processor is as it was.
LEMMA IdleKeeps ==
  ASSUME IInv, Idle, Quiet(os, os'), Sound(os'), cpu' = cpu, system' = system
  PROVE  IInv'
<1>1. MemoryFits(os, cpu.current) /\ ~cpu.running /\ ~(cpu.budget > 0) /\ cpu \in CpuRecord /\ system \in Systems
  BY CpuIs DEF Idle, IInv
<1>2. MemoryFits(os', cpu.current)
  BY <1>1, QuietMemory
<1> QED
  BY <1>1, <1>2 DEF IInv, CpuFits

\* Times left are numbers.
LEMMA TimesLeftAre ==
  ASSUME NEW s, Sound(s)
  PROVE  TimesLeft(s) \subseteq Int
<1>1. ASSUME NEW p \in Present(s), NEW x \in ToSet(s.proc[p].timers)
      PROVE  x.left \in Int
  <2>1. s.proc[p].timers \in Seq(Timer)
    BY PresentFits
  <2>2. x \in Timer
    BY <2>1, MembersOfSeq
  <2> QED
    BY <2>2 DEF Timer
<1> QED
  BY <1>1 DEF TimesLeft

\* Sleeping until the next timer keeps the invariant.
LEMMA IdleUntilTimerKeeps ==
  ASSUME IInv, IdleUntilTimer
  PROVE  IInv'
<1>1. PICK n \in TimesLeft(os) : os' = PollEvents(Later(os, n))
  BY DEF IdleUntilTimer
<1>2. Sound(os)
  BY DEF IInv
<1>3. n \in Int
  BY <1>2, TimesLeftAre
<1> DEFINE t == Later(os, n)
<1>4. Quiet(os, t) /\ Sound(t)
  BY <1>2, <1>3, LaterQuiet
<1> HIDE DEF t
<1>5. Quiet(t, os') /\ Sound(os')
  BY <1>1, <1>4, PollEventsQuiet DEF t
<1> QED
  BY <1>4, <1>5, QuietTransitive, IdleKeeps DEF IdleUntilTimer

\* Retrying the waiters in the idle loop keeps the invariant.
LEMMA IdleRetryKeeps ==
  ASSUME IInv, IdleRetry
  PROVE  IInv'
<1>1. Quietly(os, os')
  BY RetryWaitersQuiet DEF IdleRetry, IInv
<1> QED
  BY <1>1, IdleKeeps DEF IdleRetry, Quietly

\* A quantum's end keeps the invariant.
LEMMA QuantumEndsKeeps ==
  ASSUME IInv, QuantumEnds
  PROVE  IInv'
<1>1. cpu' \in CpuRecord /\ cpu' = [cpu EXCEPT !.budget = 0] /\ os' = os /\ system' = system
  BY DEF IInv, QuantumEnds, CpuRecord
<1>2. cpu'.current = cpu.current /\ cpu'.running = cpu.running /\ cpu'.choosing = cpu.choosing /\ cpu'.budget = 0
  BY <1>1 DEF IInv, CpuRecord
<1> QED
  BY <1>1, <1>2 DEF IInv, CpuFits

\* An instruction's passing keeps the invariant.
LEMMA TickKeeps ==
  ASSUME IInv, Tick
  PROVE  IInv'
<1> DEFINE c == cpu.current
           n == cpu.budget
<1>1. /\ Sound(os) /\ MemoryFits(os, c) /\ system \in Systems /\ cpu \in CpuRecord /\ c \in Processes
      /\ cpu.running /\ ~cpu.choosing /\ n \in Nat /\ n > 0 /\ Computes(os, c) /\ ~os.proc[c].marked
      /\ InTime(os, c, n)
  BY CpuIs DEF Tick, AtInstruction, IInv
<1>2. os' = Later(os, 1) /\ cpu' = [cpu EXCEPT !.budget = n - 1] /\ system' = system
  BY DEF Tick
<1>3. /\ Quiet(os, os') /\ Sound(os')
      /\ \A p \in Processes : \A x \in ToSet(os'.proc[p].timers) : \E y \in ToSet(os.proc[p].timers) :
           x.own = y.own /\ x.left = y.left - 1 /\ y.left \in Int
  BY <1>1, <1>2, LaterQuiet
<1>4. n - 1 \in Nat
  BY <1>1
<1>5. cpu' \in CpuRecord /\ cpu'.current = c /\ cpu'.running /\ ~cpu'.choosing /\ cpu'.budget = n - 1
  BY <1>1, <1>2, <1>4 DEF CpuRecord
<1>6. MemoryFits(os', c) /\ Computes(os', c) /\ ~os'.proc[c].marked
  BY <1>1, <1>3, QuietMemory, QuietRuns
<1>7. Present(os') = Present(os)
  BY <1>3, QuietPresent
<1>8. InTime(os', c, n - 1)
  <2>1. ASSUME NEW p \in Present(os') \ {c}, NEW x \in ToSet(os'.proc[p].timers), x.own
        PROVE  n - 1 <= x.left
    <3>1. p \in Processes /\ p \in Present(os) \ {c}
      BY <1>7 DEF Present
    <3>2. PICK y \in ToSet(os.proc[p].timers) : x.own = y.own /\ x.left = y.left - 1 /\ y.left \in Int
      BY <1>3, <3>1
    <3>3. n <= y.left
      BY <1>1, <2>1, <3>1, <3>2 DEF InTime
    <3> QED
      BY <1>1, <3>2, <3>3
  <2> QED
    BY <2>1 DEF InTime
<1>9. CpuFits(os', cpu')
  BY <1>5, <1>6, <1>8 DEF CpuFits
<1> QED
  BY <1>1, <1>2, <1>3, <1>5, <1>9 DEF IInv

\* The console's STOP keeps the invariant.
LEMMA DeleteNowKeeps ==
  ASSUME IInv, NEW q \in Processes, DeleteNow(q)
  PROVE  IInv'
<1> DEFINE c == cpu.current
           s == Resume(os, q)
           t == Rundown(s, q, c)
           u == SwitchTo(t, Console)
<1>1. /\ Sound(os) /\ MemoryFits(os, c) /\ system \in Systems /\ system' = system
      /\ q \in Present(os) \ {Console} /\ Subprocesses(os, q) = {}
      /\ os' = Collected(u)
      /\ cpu' = [current |-> Console, running |-> Computes(os', Console), choosing |-> FALSE, budget |-> 0]
  BY CpuIs DEF DeleteNow
<1>2. Steadily(os, s)
  BY <1>1, ResumeSound
<1> HIDE DEF s
<1>3. Sound(s) /\ q \in Present(s) \ {Console} /\ Subprocesses(s, q) = {} /\ MemoryFits(s, c)
  <2>1. Subprocesses(s, q) = Subprocesses(os, q)
    BY <1>1, <1>2 DEF Steadily, Subprocesses
  <2> QED
    BY <1>1, <1>2, <2>1 DEF Steadily, MemoryFits
<1>4. /\ Sound(t) /\ Present(t) = Present(s) \ {q}
      /\ q = c => t.memory = s.memory
      /\ q # c => t.memory = s.memory \ {q}
  BY <1>3, RundownSound
<1> HIDE DEF t
<1>5. MemoryFits(t, c) /\ Console \in Present(t)
  <2>1. CASE q = c
    BY <1>3, <1>4, <2>1 DEF MemoryFits, Sound
  <2>2. CASE q # c
    BY <1>3, <1>4, <2>2 DEF MemoryFits, Sound
  <2> QED
    BY <2>1, <2>2
<1>6. Sound(u) /\ u.proc = t.proc /\ u.memory = Present(t)
  BY <1>4, <1>5, SwitchSound
<1> HIDE DEF u
<1>7. Sound(os') /\ os'.proc = t.proc /\ os'.memory = Present(t)
  BY <1>1, <1>6, CollectedSound
<1>8. MemoryFits(os', Console) /\ ~os'.proc[Console].marked
  BY <1>5, <1>7 DEF MemoryFits, Present, Sound
<1>9. cpu' \in CpuRecord
  <2>1. Computes(os', Console) \in BOOLEAN
    BY DEF Computes
  <2> QED
    BY <1>1, <2>1, ProcessesAssumption DEF CpuRecord
<1>10. CpuFits(os', cpu')
  BY <1>1, <1>8 DEF CpuFits
<1> QED
  BY <1>1, <1>7, <1>9, <1>10 DEF IInv

-----------------------------------------------------------------------------
(* The invariant.                                                             *)

\* A process is created in its image's one routine, with nothing else.
LEMMA NewProcessIs ==
  /\ NewProcess \in ProcessRecord /\ ProcessFits(NewProcess) /\ NewProcess.state = "computable"
  /\ NewProcess.waiting = None /\ ~NewProcess.marked /\ \A c \in Clusters : NewProcess.common[c] = None
<1> DEFINE f == [mode |-> User, ast |-> FALSE, doing |-> None]
           a == [m \in Modes |-> 0]
           x == [c \in Clusters |-> None]
           e == <<>>
           k == <<f>>
<1>1. a \in [Modes -> Int] /\ x \in [Clusters -> Names \cup {None}] /\ \A c \in Clusters : x[c] = None
  OBVIOUS
<1>2. e \in Seq(Timer)
  OBVIOUS
<1>3. f \in Frame /\ f.ast = FALSE
  BY DEF Frame, Modes, User, Doings
<1> HIDE DEF f
<1>4. k \in Seq(Frame) /\ DOMAIN k = {1} /\ k[1] = f /\ k # <<>>
  BY <1>3
<1> HIDE DEF a, x, e, k
<1>5. NewProcess =
        [state |-> "computable", waiting |-> None, suspended |-> FALSE, marked |-> FALSE,
         wakePending |-> FALSE, calls |-> k, asts |-> a, enabled |-> Modes, active |-> {}, local |-> {},
         common |-> x, timers |-> e]
  BY DEF NewProcess, a, x, e, k, f
<1>6. NewProcess \in ProcessRecord
  BY <1>1, <1>2, <1>4, <1>5 DEF ProcessRecord
<1>7. /\ NewProcess.state = "computable" /\ NewProcess.waiting = None /\ NewProcess.suspended = FALSE
      /\ NewProcess.marked = FALSE /\ NewProcess.common = x /\ NewProcess.calls = k /\ NewProcess.active = {}
  BY <1>5
<1>8. FramesFit(NewProcess)
  BY <1>3, <1>4, <1>7 DEF FramesFit
<1> QED
  BY <1>1, <1>6, <1>7, <1>8 DEF ProcessFits, StateFits

\* The state of a new system is sound.
LEMMA NewStateSound ==
  ASSUME NEW y \in Systems, NEW s, s = StateOf(y.present)
  PROVE  Sound(s) /\ Present(s) = y.present /\ s.memory = y.present
<1> DEFINE a == [p \in Processes |-> IF p \in y.present THEN NewProcess ELSE NoProcess]
           cl == [n \in Names |-> None]
           io == [r \in Requests |-> None]
           e == <<>>
           at == [k \in Attentions |-> {}]
           mail == [readers |-> e, messages |-> e]
<1>1. y.present \subseteq Processes /\ Console \in y.present
      /\ \A p \in y.present : Owner[p] \in Processes => Owner[p] \in y.present
  BY ProcessesAssumption
<1>2. a \in [Processes -> ProcessRecord]
      /\ \A p \in Processes : a[p] = IF p \in y.present THEN NewProcess ELSE NoProcess
  BY NewProcessIs, NoProcessIs
<1>3. cl \in [Names -> Cluster \cup {None}] /\ \A n \in Names : cl[n] = None
  OBVIOUS
<1>4. io \in [Requests -> IORequest \cup {None}] /\ \A r \in Requests : io[r] = None
  OBVIOUS
<1>5. e \in Seq(Requests) /\ e \in Seq(Message) /\ ToSet(e) = {}
  BY DEF ToSet
<1>6. at \in [Attentions -> SUBSET Processes] /\ \A k \in Attentions : at[k] = {}
  OBVIOUS
<1> HIDE DEF a, cl, io, e, at
<1>7. s = [proc |-> a, waiters |-> 0, clusters |-> cl, io |-> io, mailbox |-> mail, attention |-> at,
           memory |-> y.present, owed |-> e]
  BY DEF StateOf, a, cl, io, e, at
<1>8. mail.readers = e /\ mail.messages = e
      /\ mail \in [readers : Seq(Requests), messages : Seq(Message)]
  BY <1>5
<1> HIDE DEF mail
<1>9. /\ s \in States /\ s.proc = a /\ s.waiters = 0 /\ s.clusters = cl /\ s.io = io /\ s.mailbox = mail
      /\ s.attention = at /\ s.memory = y.present
  BY <1>1, <1>2, <1>3, <1>4, <1>5, <1>6, <1>7, <1>8 DEF States
<1>10. Present(s) = y.present
  BY <1>1, <1>2, <1>9, NewProcessIs, NoProcessIs DEF Present
<1>11. MailMade(s)
  BY <1>5, <1>8, <1>9 DEF MailMade, InMail
<1>12. Counted(s)
  <2>1. Waiters(s) = {}
    BY <1>2, <1>9, NewProcessIs, NoProcessIs DEF Waiters, Waits
  <2> QED
    BY <1>9, <2>1, FS_EmptySet DEF Counted
<1>13. \A p \in Processes : ProcessFits(s.proc[p])
  BY <1>2, <1>9, NewProcessIs, NoProcessIs
<1>14. ASSUME NEW n \in Names
       PROVE  ClusterFits(s, n)
  <2>1. \A p \in Processes : \A c \in Clusters : s.proc[p].common[c] = None
    BY <1>2, <1>9, NewProcessIs, NoProcessIs
  <2>2. n # None
    BY ProcessEventsAssumption
  <2>3. Uses(s, n) = {}
    BY <2>1, <2>2 DEF Uses
  <2> QED
    BY <1>3, <1>9, <2>3 DEF ClusterFits
<1>15. \A p \in Processes : DeletionFits(s, p)
  BY <1>2, <1>9, NewProcessIs, NoProcessIs DEF DeletionFits, AwaitsSubprocesses, Waits
<1>16. ASSUME NEW p \in Processes \ Present(s)
       PROVE  NothingLeft(s, p)
  <2>1. PendingIO(s, p) = {}
    BY <1>4, <1>9 DEF PendingIO
  <2>2. Subprocesses(s, p) = {}
    BY <1>1, <1>10 DEF Subprocesses
  <2> QED
    BY <1>6, <1>9, <2>1, <2>2 DEF NothingLeft
<1>17. Console \in Present(s) /\ ~s.proc[Console].marked
  BY <1>1, <1>2, <1>9, <1>10, NewProcessIs
<1> QED
  BY <1>9, <1>10, <1>11, <1>12, <1>13, <1>14, <1>15, <1>16, <1>17 DEF Sound

\* The invariant holds at first.
LEMMA InitSound ==
  ASSUME Init
  PROVE  IInv
<1>1. system \in Systems /\ os = StateOf(system.present)
  BY DEF Init
<1>2. Sound(os) /\ Present(os) = system.present /\ os.memory = system.present
  BY <1>1, NewStateSound
<1>3. PICK p \in system.present : cpu = [current |-> p, running |-> FALSE, choosing |-> FALSE, budget |-> 0]
  BY DEF Init
<1>4. p \in Processes
  BY <1>2, <1>3 DEF Present
<1>5. cpu \in CpuRecord /\ cpu.current = p /\ ~cpu.running /\ cpu.budget = 0
  BY <1>3, <1>4 DEF CpuRecord
<1>6. CpuFits(os, cpu)
  BY <1>2, <1>3, <1>5 DEF CpuFits, MemoryFits
<1> QED
  BY <1>1, <1>2, <1>5, <1>6 DEF IInv

\* The hook's and the idle loop's steps keep the invariant.
LEMMA HookKeeps ==
  ASSUME IInv, Hook
  PROVE  IInv'
  BY ScheduleKeeps, IdleUntilTimerKeeps, IdleRetryKeeps, QuantumEndsKeeps, ChooseKeeps DEF Hook

\* Every service keeps the invariant.
LEMMA ServicesKeep ==
  ASSUME IInv, NEW p \in Processes,
         Wakeups(p) \/ TimerServices(p) \/ FlagServices(p) \/ ASTServices(p) \/ ProcessServices(p)
           \/ MailboxServices(p)
  PROVE  IInv'
<1>1. CASE Wakeups(p)
  BY <1>1, HiberKeeps, WakeKeeps, CanwakKeeps, SchdwkKeeps DEF Wakeups
<1>2. CASE TimerServices(p)
  BY <1>2, CantimKeeps, SetimrKeeps DEF TimerServices
<1>3. CASE FlagServices(p)
  BY <1>3, SetefKeeps, ClrefKeeps, WaitfrKeeps, AscefcKeeps, DacefcKeeps, DlcefcKeeps DEF FlagServices
<1>4. CASE ASTServices(p)
  BY <1>4, ClrastKeeps, CmkrnlKeeps, CmkrnlReturnsKeeps, DclastKeeps, SetastKeeps DEF ASTServices
<1>5. CASE ProcessServices(p)
  BY <1>5, SuspndKeeps, ResumeProcessKeeps, DelprcKeeps DEF ProcessServices
<1>6. CASE MailboxServices(p)
  BY <1>6, QioKeeps, QiowKeeps, CancelKeeps, SetmodeKeeps DEF MailboxServices
<1> QED
  BY <1>1, <1>2, <1>3, <1>4, <1>5, <1>6

\* The invariant is inductive.
LEMMA StepSound ==
  ASSUME IInv, [Next]_vars
  PROVE  IInv'
<1>1. CASE Next
  <2>1. CASE Hook \/ Tick
    BY <2>1, HookKeeps, TickKeeps
  <2>2. CASE \E p \in Processes :
               \/ NextAST(p) \/ DeleteNow(p)
               \/ Wakeups(p) \/ TimerServices(p) \/ FlagServices(p) \/ ASTServices(p)
               \/ ProcessServices(p) \/ MailboxServices(p)
    BY <2>2, NextASTKeeps, DeleteNowKeeps, ServicesKeep
  <2> QED
    BY <1>1, <2>1, <2>2 DEF Next
<1>2. CASE UNCHANGED vars
  <2>1. os' = os /\ cpu' = cpu /\ system' = system
    BY <1>2 DEF vars
  <2> QED
    BY <2>1 DEF IInv
<1> QED
  BY <1>1, <1>2

\* The state stays well formed: processes, waits, clusters, requests, the mailbox and the CPU agree.
THEOREM ProcessesSoundAlways == Spec => []IInv
<1>1. Init => IInv
  BY InitSound
<1>2. IInv /\ [Next]_vars => IInv'
  BY StepSound
<1> QED
  BY <1>1, <1>2, PTL DEF Spec

-----------------------------------------------------------------------------
(* What the invariant says of the properties.                                 *)

\* From the invariant: a process's wait and its scheduler state agree.
LEMMA AgreeFromSound ==
  ASSUME IInv
  PROVE  StatesAgree
<1>1. Sound(os)
  BY DEF IInv
<1>2. os.waiters = Cardinality({p \in Processes : Waits(os, p)})
  BY <1>1 DEF Sound, Counted, Waiters
<1>3. ASSUME NEW p \in Present(os)
      PROVE  os.proc[p].state = IF Waits(os, p) THEN WaitState(os.proc[p].waiting)
                                ELSE IF os.proc[p].suspended THEN "SUSP" ELSE "computable"
  <2>1. StateFits(os.proc[p]) /\ os.proc[p].state # "gone"
    BY <1>1 DEF Sound, ProcessFits, Present
  <2> QED
    BY <2>1 DEF StateFits, Waits
<1>4. AtInstruction => os.proc[cpu.current].state = "computable" /\ ~os.proc[cpu.current].marked
  BY CurrentIs DEF Computes
<1> QED
  BY <1>2, <1>3, <1>4 DEF StatesAgree

\* From the invariant: clusters' counts are exact.
LEMMA CountsFromSound ==
  ASSUME IInv
  PROVE  ClustersCounted
<1>1. ASSUME NEW n \in Names
      PROVE  ClusterFits(os, n)
  BY DEF IInv, Sound
<1> QED
  BY <1>1 DEF ClustersCounted, ClusterFits, Uses

\* On a stack that fits there is one AST routine for each active mode.
LEMMA LevelsFromFrames ==
  ASSUME NEW P, P.calls \in Seq(Frame), FramesFit(P), NEW m \in Modes
  PROVE  Cardinality({i \in DOMAIN P.calls : P.calls[i].ast /\ P.calls[i].mode = m}) =
           IF m \in P.active THEN 1 ELSE 0
<1> DEFINE S == {i \in DOMAIN P.calls : P.calls[i].ast /\ P.calls[i].mode = m}
<1>1. m \in P.active <=> \E i \in DOMAIN P.calls : P.calls[i].ast /\ P.calls[i].mode = m
  BY DEF FramesFit
<1>2. \A i, j \in S : i = j
  BY DEF FramesFit
<1>3. CASE m \in P.active
  <2>1. PICK i : i \in S
    BY <1>1, <1>3
  <2>2. S = {i}
    BY <1>2, <2>1
  <2> QED
    BY <1>3, <2>2, FS_Singleton
<1>4. CASE m \notin P.active
  <2>1. S = {}
    BY <1>1, <1>4
  <2> QED
    BY <1>4, <2>1, FS_EmptySet
<1> QED
  BY <1>3, <1>4

\* From the invariant: AST levels.
LEMMA LevelsFromSound ==
  ASSUME IInv
  PROVE  ASTLevels
<1>1. ASSUME NEW p \in Present(os)
      PROVE  os.proc[p].calls \in Seq(Frame) /\ FramesFit(os.proc[p])
  BY <1>1, PresentFits DEF IInv
<1>2. ASSUME NEW p \in Present(os), NEW m \in Modes
      PROVE  Cardinality({i \in DOMAIN os.proc[p].calls : os.proc[p].calls[i].ast /\ os.proc[p].calls[i].mode = m}) =
               IF m \in os.proc[p].active THEN 1 ELSE 0
  BY <1>1, <1>2, LevelsFromFrames
<1>3. ASSUME NEW p \in Present(os), NEW i \in DOMAIN os.proc[p].calls, NEW j \in DOMAIN os.proc[p].calls, i < j
      PROVE  os.proc[p].calls[j].mode <= os.proc[p].calls[i].mode
  BY <1>1, <1>3 DEF FramesFit
<1> QED
  BY <1>2, <1>3 DEF ASTLevels

\* From the invariant: a deletion goes on.
LEMMA DeletionFromSound ==
  ASSUME IInv
  PROVE  DeletionGoesOn
<1>1. \A p \in Processes : DeletionFits(os, p)
  BY DEF IInv, Sound
<1>2. ASSUME NEW p \in Present(os), Waits(os, p), os.proc[p].waiting.kind = "subprocesses"
      PROVE  /\ os.proc[p].marked
             /\ \A q \in Subprocesses(os, p) :
                  /\ os.proc[q].marked
                  /\ Waits(os, q) => os.proc[q].waiting.kind = "subprocesses"
  <2>1. p \in Processes /\ \A q \in Subprocesses(os, p) : q \in Processes
    BY DEF Present, Subprocesses
  <2>2. os.proc[p].marked /\ \A q \in Subprocesses(os, p) : os.proc[q].marked
    BY <1>1, <1>2, <2>1 DEF DeletionFits, AwaitsSubprocesses
  <2>3. \A q \in Subprocesses(os, p) : Waits(os, q) => os.proc[q].waiting.kind = "subprocesses"
    BY <1>1, <2>1, <2>2 DEF DeletionFits, AwaitsSubprocesses
  <2> QED
    BY <2>2, <2>3
<1> QED
  BY <1>2 DEF DeletionGoesOn

\* From the invariant: a deleted process leaves nothing.
LEMMA NothingFromSound ==
  ASSUME IInv
  PROVE  DeletedLeavesNothing
<1>1. MemoryFits(os, cpu.current) /\ \A p \in Processes \ Present(os) : NothingLeft(os, p)
  BY DEF IInv, Sound, CpuFits
<1> QED
  BY <1>1 DEF MemoryFits, NothingLeft, DeletedLeavesNothing

\* From the invariant: no timer of the running process is overdue unseen.
LEMMA TimeFromSound ==
  ASSUME IInv
  PROVE  TimersOnTime
<1>1. ASSUME AtInstruction, NEW p \in Present(os) \ {cpu.current}, NEW t \in Due(os.proc[p]), t.own
      PROVE  FALSE
  <2>1. InTime(os, cpu.current, cpu.budget) /\ cpu.budget > 0 /\ cpu.budget \in Nat /\ Sound(os)
    BY <1>1 DEF IInv, CpuFits, CpuRecord, AtInstruction
  <2>2. t \in ToSet(os.proc[p].timers) /\ t.left <= 0
    BY <1>1 DEF Due
  <2>3. cpu.budget <= t.left
    BY <1>1, <2>1, <2>2 DEF InTime
  <2>4. t.left \in Int
    <3>1. os.proc[p].timers \in Seq(Timer)
      BY <2>1, PresentFits
    <3>2. t \in Timer
      BY <2>2, <3>1, MembersOfSeq
    <3> QED
      BY <3>2 DEF Timer
  <2> QED
    BY <2>1, <2>2, <2>3, <2>4
<1> QED
  BY <1>1 DEF TimersOnTime

-----------------------------------------------------------------------------
(* Timers that expire late.                                                   *)

\* A whole number of repetitions, and the last of them before a time.
LEMMA QuotientBounds ==
  ASSUME NEW r \in Nat, r > 0, NEW x \in Nat, NEW a, a = x \div r
  PROVE  a \in Nat /\ a * r <= x /\ x < a * r + r
  OBVIOUS

LEMMA MultipleLeavesNothing ==
  ASSUME NEW r \in Nat, r > 0, NEW k \in Nat
  PROVE  (k * r) % r = 0
  OBVIOUS

\* n ticks are left of timer t when it is next due on its beat.
NextBeat(t, n) == n \in 1 .. t.repeat /\ (n - t.left) % t.repeat = 0

\* A late timer that repeats goes to the first beat still to come.
LEMMA NextTimeIs ==
  ASSUME NEW t \in Timer, t.left <= 0, t.repeat > 0
  PROVE  \E n \in Int : NextTime(t) = [t EXCEPT !.left = n] /\ NextTime(t).left = n /\ NextBeat(t, n)
<1> DEFINE r == t.repeat
           x == -t.left
           a == x \div r
           n == t.left + a * r + r
<1>0. t.repeat \in Nat /\ t.left \in Int
  BY DEF Timer
<1>1. r \in Nat /\ r > 0 /\ x \in Nat /\ t.left \in Int /\ x = -t.left
  BY <1>0
<1>2. NextTime(t) = [t EXCEPT !.left = n]
  BY DEF NextTime
<1> HIDE DEF r, x
<1>3. a \in Nat /\ a * r <= x /\ x < a * r + r
  BY <1>1, QuotientBounds
<1> HIDE DEF a
<1>4. n \in Int /\ n \in 1 .. r /\ n - t.left = (a + 1) * r
  BY <1>1, <1>3
<1>5. ((a + 1) * r) % r = 0
  BY <1>1, <1>3, MultipleLeavesNothing
<1> HIDE DEF n
<1>6. NextBeat(t, n)
  BY <1>4, <1>5 DEF NextBeat, r
<1>7. [t EXCEPT !.left = n].left = n
  BY <1>4 DEF Timer
<1> QED
  BY <1>2, <1>4, <1>6, <1>7

\* A timer not due is left alone, and one that does not repeat too.
LEMMA RemainingBeats ==
  ASSUME NEW q \in Seq(Timer)
  PROVE  /\ \A x \in ToSet(Remaining(q)) : x.left > 0
         /\ \A t \in ToSet(q) : t.left <= 0 /\ t.repeat > 0 =>
              \E n \in Int : NextBeat(t, n) /\ [t EXCEPT !.left = n] \in ToSet(Remaining(q))
<1> DEFINE f == [i \in DOMAIN q |-> NextTime(q[i])]
           keep == {t \in ToSet(f) : t.left > 0}
<1>1. Remaining(q) = Those(f, keep)
  BY DEF Remaining
<1>2. f \in Seq(Timer) /\ DOMAIN f = DOMAIN q /\ \A i \in DOMAIN q : f[i] = NextTime(q[i])
  BY NextTimesAre
<1> HIDE DEF f
<1>3. ToSet(Remaining(q)) = ToSet(f) \cap keep
  BY <1>1, <1>2, ThoseAre
<1>4. ASSUME NEW t \in ToSet(q), t.left <= 0, t.repeat > 0
      PROVE  \E n \in Int : NextBeat(t, n) /\ [t EXCEPT !.left = n] \in ToSet(Remaining(q))
  <2>1. t \in Timer
    BY MembersOfSeq
  <2>2. PICK n \in Int : NextTime(t) = [t EXCEPT !.left = n] /\ NextTime(t).left = n /\ NextBeat(t, n)
    BY <1>4, <2>1, NextTimeIs
  <2>3. PICK i \in DOMAIN q : q[i] = t
    BY DEF ToSet
  <2>4. NextTime(t) \in ToSet(f)
    BY <1>2, <2>3 DEF ToSet
  <2>5. n > 0
    BY <2>1, <2>2 DEF NextBeat, Timer
  <2> QED
    BY <1>3, <2>2, <2>4, <2>5
<1> QED
  BY <1>3, <1>4

\* Every wakeup of P's that is late is in Q for its next beat.
KeepsBeat(P, Q) ==
  \A t \in Due(P) : t.wake /\ t.repeat > 0 =>
    \E n \in Int : NextBeat(t, n) /\ [t EXCEPT !.left = n] \in ToSet(Q.timers)

LEMMA FiredKeepsBeat ==
  ASSUME NEW P \in ProcessRecord, NEW Q, Q.timers = Remaining(P.timers)
  PROVE  KeepsBeat(P, Q) /\ Due(Q) = {}
<1>1. P.timers \in Seq(Timer)
  BY DEF ProcessRecord
<1>2. Q.timers \in Seq(Timer)
  BY <1>1, RemainingAre
<1>3. \A x \in ToSet(Q.timers) : x \in Timer /\ x.left > 0
  BY <1>1, <1>2, RemainingBeats, MembersOfSeq
<1>4. \A x \in Timer : x.left \in Int
  BY DEF Timer
<1>5. Due(Q) = {}
  BY <1>3, <1>4 DEF Due
<1> QED
  BY <1>1, <1>5, RemainingBeats DEF KeepsBeat, Due

\* No process has a timer that is due.
NoneDue(s) == \A p \in Present(s) : Due(s.proc[p]) = {}

\* pollEvents lets all the timers due expire.
LEMMA PollEventsBeats ==
  ASSUME NEW s, Sound(s), NEW t, t = PollEvents(s)
  PROVE  NoneDue(t) /\ \A p \in Present(s) : KeepsBeat(s.proc[p], t.proc[p])
<1> DEFINE u == Expired(s, Present(s))
<1>1. t = WakeWaiters(u)
  BY PollEventsIs
<1>2. Present(s) \in SUBSET Processes /\ s.proc \in [Processes -> ProcessRecord]
  BY DEF Present, Sound, States
<1> HIDE DEF u
<1>3. \A p \in Present(s) : u.proc[p] = Fired(s.proc[p])
  BY <1>2, ExpiredQuiet DEF u
<1>4. Quiet(s, u) /\ Sound(u)
  BY <1>2, ExpiredQuiet DEF u
<1>5. Quietly(u, t)
  BY <1>1, <1>4, WakeWaitersQuiet
<1>6. Present(t) = Present(s)
  BY <1>4, <1>5, QuietPresent DEF Quietly
<1>7. ASSUME NEW p \in Present(s)
      PROVE  KeepsBeat(s.proc[p], t.proc[p]) /\ Due(t.proc[p]) = {}
  <2>1. s.proc[p] \in ProcessRecord /\ p \in Processes
    BY <1>2
  <2>2. t.proc[p].timers = Fired(s.proc[p]).timers
    BY <1>3, <1>5, <2>1 DEF Quietly, SameTimers
  <2>3. Fired(s.proc[p]).timers = Remaining(s.proc[p].timers)
    BY <2>1, FiredIs
  <2> QED
    BY <2>1, <2>2, <2>3, FiredKeepsBeat
<1> QED
  BY <1>6, <1>7 DEF NoneDue

-----------------------------------------------------------------------------
(* Steps and timers.                                                          *)

\* While the hook chooses, no timer is due: it has polled them, and time goes on
\* only with another poll.
Polled == cpu.choosing => NoneDue(os)

\* A process that has the same timers.
LEMMA SameDue ==
  ASSUME NEW P, NEW Q, Q.timers = P.timers
  PROVE  Due(Q) = Due(P)
  BY DEF Due

\* A service is called by the process that runs, which has nothing due.
LEMMA ServicesExecute ==
  ASSUME NEW p,
         Wakeups(p) \/ TimerServices(p) \/ FlagServices(p) \/ ASTServices(p) \/ ProcessServices(p)
           \/ MailboxServices(p)
  PROVE  Executes(p)
<1>1. CASE Wakeups(p)
  BY <1>1 DEF Wakeups, Hiber, Wake, Canwak, Schdwk, Attempts, Calls, Retries
<1>2. CASE TimerServices(p)
  BY <1>2 DEF TimerServices, Cantim, Setimr, Calls
<1>3. CASE FlagServices(p)
  BY <1>3 DEF FlagServices, Setef, Clref, Waitfr, Ascefc, Dacefc, Dlcefc, Attempts, Calls, Retries
<1>4. CASE ASTServices(p)
  BY <1>4 DEF ASTServices, Clrast, Cmkrnl, CmkrnlReturns, Dclast, Setast, Calls
<1>5. CASE ProcessServices(p)
  BY <1>5 DEF ProcessServices, Suspnd, ResumeProcess, Delprc, Calls
<1>6. CASE MailboxServices(p)
  BY <1>6 DEF MailboxServices, Qio, Qiow, Cancel, Setmode, Attempts, Calls, Retries
<1> QED
  BY <1>1, <1>2, <1>3, <1>4, <1>5, <1>6

\* The marked process chosen is deleted, or waits: nobody else's timers are touched,
\* nor its own if it stays.
LEMMA ChosenTimers ==
  ASSUME IInv, NEW p \in Processes, Choose(p)
  PROVE  Present(os') \subseteq Present(os) /\ \A q \in Present(os') : os'.proc[q].timers = os.proc[q].timers
<1> DEFINE t == SwitchTo(os, p)
<1>1. /\ Sound(os) /\ MemoryFits(os, cpu.current) /\ Computes(os, p)
  BY CpuIs DEF Choose, Computable, IInv
<1>2. p \in Present(os) /\ ~Waits(os, p)
  BY <1>1, ComputesIs
<1>3. Sound(t) /\ t.proc = os.proc
  BY <1>1, <1>2, SwitchSound
<1>4. CASE ~os.proc[p].marked
  BY <1>3, <1>4 DEF Choose, Present
<1>5. CASE os.proc[p].marked
  <2> DEFINE u == DeleteProcess(t, p, p)
             v == WakeWaiters(u)
  <2>1. os' = Collected(v)
    BY <1>5 DEF Choose
  <2> HIDE DEF t
  <2>2. p \in Present(t) \ {Console} /\ ~Waits(t, p) /\ Present(t) = Present(os)
    BY <1>1, <1>2, <1>3, <1>5 DEF Sound, Present, Waits
  <2>3. /\ Sound(u) /\ (SameTimers(t, u) \/ Present(u) = Present(t) \ {p})
        /\ Present(u) \subseteq Present(t)
        /\ \A q \in Processes \ {p} : u.proc[q].timers = t.proc[q].timers
    BY <1>3, <2>2, DeleteProcessSound
  <2> HIDE DEF u
  <2>4. \A q \in Present(u) : q \in Processes /\ u.proc[q].timers = t.proc[q].timers
    BY <2>3 DEF SameTimers, Present
  <2>5. Quietly(u, v)
    BY <2>3, WakeWaitersQuiet
  <2>6. Present(v) = Present(u) /\ Sound(v) /\ SameTimers(u, v)
    BY <2>5, QuietPresent DEF Quietly
  <2> HIDE DEF v
  <2>7. os'.proc = v.proc
    BY <2>1, <2>6, CollectedSound
  <2>8. Present(os') = Present(u)
    BY <2>6, <2>7 DEF Present
  <2> QED
    BY <1>3, <2>2, <2>3, <2>4, <2>6, <2>7, <2>8 DEF SameTimers
<1> QED
  BY <1>4, <1>5

\* The console's STOP touches no timers of those it leaves.
LEMMA StopTimers ==
  ASSUME IInv, NEW q \in Processes, DeleteNow(q)
  PROVE  \A p \in Present(os') : os'.proc[p].timers = os.proc[p].timers
<1> DEFINE c == cpu.current
           s == Resume(os, q)
           t == Rundown(s, q, c)
           u == SwitchTo(t, Console)
<1>1. /\ Sound(os) /\ MemoryFits(os, c)
      /\ q \in Present(os) \ {Console} /\ Subprocesses(os, q) = {}
      /\ os' = Collected(u)
  BY CpuIs DEF DeleteNow
<1>2. Steadily(os, s)
  BY <1>1, ResumeSound
<1> HIDE DEF s
<1>3. Sound(s) /\ q \in Present(s) \ {Console} /\ Subprocesses(s, q) = {} /\ MemoryFits(s, c)
  <2>1. Subprocesses(s, q) = Subprocesses(os, q)
    BY <1>1, <1>2 DEF Steadily, Subprocesses
  <2> QED
    BY <1>1, <1>2, <2>1 DEF Steadily, MemoryFits
<1>4. /\ Sound(t) /\ Present(t) = Present(s) \ {q}
      /\ q = c => t.memory = s.memory
      /\ q # c => t.memory = s.memory \ {q}
      /\ \A p \in Processes \ {q} : t.proc[p].timers = s.proc[p].timers
  BY <1>3, RundownSound
<1> HIDE DEF t
<1>5. MemoryFits(t, c) /\ Console \in Present(t)
  <2>1. CASE q = c
    BY <1>3, <1>4, <2>1 DEF MemoryFits, Sound
  <2>2. CASE q # c
    BY <1>3, <1>4, <2>2 DEF MemoryFits, Sound
  <2> QED
    BY <2>1, <2>2
<1>6. Sound(u) /\ u.proc = t.proc
  BY <1>4, <1>5, SwitchSound
<1> HIDE DEF u
<1>7. os'.proc = t.proc
  BY <1>1, <1>6, CollectedSound
<1>8. ASSUME NEW p \in Present(os')
      PROVE  os'.proc[p].timers = os.proc[p].timers
  <2>1. p \in Present(t) /\ p \in Processes
    BY <1>7, <1>8 DEF Present
  <2>2. p # q
    BY <1>4, <2>1
  <2> QED
    BY <1>2, <1>4, <1>7, <2>1, <2>2 DEF Steadily, SameTimers
<1> QED
  BY <1>8

\* The timers due as the instructions' AST is looked for expire first.
LEMMA NextASTBeats ==
  ASSUME IInv, NEW p \in Processes, NextAST(p)
  PROVE  KeepsBeat(os.proc[p], os'.proc[p])
<1> DEFINE s == ExpireTimers(os, p)
           t == CallAST(s, p)
<1>1. Sound(os) /\ p \in Present(os) /\ os.proc[p] \in ProcessRecord /\ os' = Collected(t)
  <2>1. p = cpu.current /\ cpu.running /\ os' = Collected(t)
    BY DEF NextAST, AtInstruction, Step
  <2>2. Sound(os) /\ Computes(os, p)
    BY <2>1, CpuIs
  <2> QED
    BY <2>1, <2>2, ComputesIs, PresentFits
<1> HIDE DEF s, t
<1>2. Sound(s) /\ Quiet(os, s) /\ s.proc[p].timers = Remaining(os.proc[p].timers)
  BY <1>1, ExpireTimersQuiet DEF s
<1>3. p \in Present(s)
  BY <1>1, <1>2, QuietPresent
<1>4. Quietly(s, t)
  BY <1>2, <1>3, CallASTQuiet DEF t
<1>5. os'.proc = t.proc
  BY <1>1, <1>4, CollectedSound DEF Quietly
<1>6. os'.proc[p].timers = Remaining(os.proc[p].timers)
  BY <1>2, <1>4, <1>5 DEF Quietly, SameTimers
<1> QED
  BY <1>1, <1>6, FiredKeepsBeat

\* An instruction leaves it to the hook to choose.
LEMMA InstructionsChoose ==
  ASSUME NEW p \in Processes, cpu \in CpuRecord,
         NextAST(p) \/ DeleteNow(p) \/ Wakeups(p) \/ TimerServices(p) \/ FlagServices(p)
           \/ ASTServices(p) \/ ProcessServices(p) \/ MailboxServices(p)
  PROVE  (AtInstruction /\ cpu'.choosing = cpu.choosing) \/ cpu'.choosing = FALSE
<1>1. \A s, asks : Step(s, asks) => cpu'.choosing = cpu.choosing
  BY DEF Step, CpuRecord
<1>2. CASE NextAST(p)
  BY <1>1, <1>2 DEF NextAST
<1>3. CASE DeleteNow(p)
  BY <1>3 DEF DeleteNow
<1>4. CASE Wakeups(p)
  BY <1>1, <1>4 DEF Wakeups, Hiber, Wake, Canwak, Schdwk, Attempts, Calls, Retries, Executes, Return, WaitIn
<1>5. CASE TimerServices(p)
  BY <1>1, <1>5 DEF TimerServices, Cantim, Setimr, Calls, Executes
<1>6. CASE FlagServices(p)
  BY <1>1, <1>6 DEF FlagServices, Setef, Clref, Waitfr, Ascefc, Dacefc, Dlcefc, Attempts, Calls, Retries, Executes,
                    Return, WaitIn
<1>7. CASE ASTServices(p)
  BY <1>1, <1>7 DEF ASTServices, Clrast, Cmkrnl, CmkrnlReturns, Dclast, Setast, Calls, Executes
<1>8. CASE ProcessServices(p)
  BY <1>1, <1>8 DEF ProcessServices, Suspnd, ResumeProcess, Delprc, Calls, Executes
<1>9. CASE MailboxServices(p)
  BY <1>1, <1>9 DEF MailboxServices, Qio, Qiow, Cancel, Setmode, Attempts, Calls, Retries, Executes, Return, WaitIn
<1> QED
  BY <1>2, <1>2, <1>3, <1>4, <1>5, <1>6, <1>7, <1>8, <1>9

\* While nobody runs, the step keeps the invariant of what the hook has polled.
LEMMA StepPolled ==
  ASSUME IInv, Polled, [Next]_vars
  PROVE  Polled'
<1>1. Sound(os)
  BY DEF IInv
<1>2. CASE Schedule
  <2>1. NoneDue(os')
    BY <1>1, <1>2, PollEventsBeats DEF Schedule
  <2> QED
    BY <2>1 DEF Polled, NoneDue, Present
<1>3. CASE \E p \in Processes : Choose(p)
  <2>1. Present(os') \subseteq Present(os) /\ \A q \in Present(os') : os'.proc[q].timers = os.proc[q].timers
    BY <1>3, ChosenTimers
  <2>2. NoneDue(os)
    BY <1>3 DEF Polled, Choose
  <2> QED
    BY <2>1, <2>2 DEF Polled, NoneDue, Due, Present
<1>4. CASE IdleUntilTimer
  <2>1. PICK n \in TimesLeft(os) : os' = PollEvents(Later(os, n))
    BY <1>4 DEF IdleUntilTimer
  <2>2. n \in Int
    BY <1>1, TimesLeftAre
  <2>3. Sound(Later(os, n))
    BY <1>1, <2>2, LaterQuiet
  <2>4. NoneDue(os')
    BY <2>1, <2>3, PollEventsBeats
  <2> QED
    BY <2>4 DEF Polled, NoneDue, Present
<1>5. CASE IdleRetry
  <2>1. Quietly(os, os') /\ cpu' = cpu
    BY <1>1, <1>5, RetryWaitersQuiet DEF IdleRetry
  <2>2. Present(os') = Present(os) /\ \A q \in Present(os') : os'.proc[q].timers = os.proc[q].timers
    BY <2>1, QuietPresent DEF Quietly, SameTimers, Present
  <2> QED
    BY <2>1, <2>2 DEF Polled, NoneDue, Due, Present
<1>6. CASE QuantumEnds \/ (AtInstruction /\ cpu'.choosing = cpu.choosing) \/ cpu'.choosing = FALSE
  <2>1. ~cpu'.choosing
    <3>1. CpuFits(os, cpu) /\ cpu \in CpuRecord
      BY DEF IInv
    <3>2. cpu.budget > 0 => ~cpu.choosing
      BY <3>1 DEF CpuFits
    <3> QED
      BY <1>6, <3>1, <3>2 DEF QuantumEnds, AtInstruction, CpuRecord
  <2> QED
    BY <2>1 DEF Polled
<1>7. CASE UNCHANGED vars
  BY <1>7 DEF vars, Polled, NoneDue, Present, Due
<1>8. CASE Tick
  BY <1>6, <1>8 DEF Tick, IInv, CpuRecord
<1>9. ASSUME NEW p \in Processes,
             \/ NextAST(p) \/ DeleteNow(p) \/ Wakeups(p) \/ TimerServices(p) \/ FlagServices(p)
             \/ ASTServices(p) \/ ProcessServices(p) \/ MailboxServices(p)
      PROVE  Polled'
  BY <1>6, <1>9, InstructionsChoose DEF IInv
<1>10. CASE Hook
  BY <1>2, <1>3, <1>4, <1>5, <1>6, <1>10 DEF Hook
<1> QED
  BY <1>7, <1>8, <1>9, <1>10 DEF Next

\* A step that has timers expire keeps the beat of those that repeat.
LEMMA StepBeats ==
  ASSUME IInv, Polled, [Next]_vars, NEW p \in Present(os) \cap Present(os'), Expires(p), ~os.proc[p].marked
  PROVE  KeepsBeat(os.proc[p], os'.proc[p])
<1>1. Sound(os) /\ p \in Processes
  BY DEF IInv, Present
<1>2. Due(os.proc[p]) # {} /\ os'.proc[p].timers # os.proc[p].timers /\ (AtInstruction => p = cpu.current)
  BY DEF Expires
<1>3. CASE Schedule
  BY <1>1, <1>3, PollEventsBeats DEF Schedule
<1>4. CASE IdleUntilTimer
  <2>1. NoneDue(os)
    BY <1>4 DEF Polled, IdleUntilTimer, Idle
  <2> QED
    BY <1>2, <2>1 DEF NoneDue
<1>5. CASE IdleRetry
  <2>1. Quietly(os, os')
    BY <1>1, <1>5, RetryWaitersQuiet DEF IdleRetry
  <2> QED
    BY <1>1, <1>2, <2>1 DEF Quietly, SameTimers
<1>6. CASE QuantumEnds \/ UNCHANGED vars
  BY <1>2, <1>6 DEF QuantumEnds, vars
<1>7. CASE \E q \in Processes : Choose(q)
  BY <1>2, <1>7, ChosenTimers
<1>8. CASE Tick
  BY <1>2, <1>8 DEF Tick
<1>9. CASE \E q \in Processes : NextAST(q)
  BY <1>2, <1>9, NextASTBeats DEF NextAST
<1>10. CASE \E q \in Processes : DeleteNow(q)
  BY <1>2, <1>10, StopTimers
<1>11. CASE \E q \in Processes : Executes(q)
  BY <1>2, <1>11 DEF Executes
<1> QED
  BY <1>3, <1>4, <1>5, <1>6, <1>7, <1>8, <1>9, <1>10, <1>11, ServicesExecute DEF Next, Hook

-----------------------------------------------------------------------------
(* The theorems.                                                              *)

\* The scheduler's state of a process, its wait and its suspension agree, the waiters are
\* counted, and who executes may: enterWait, endWait, suspend, resume and markForDeletion.
THEOREM StatesAgreeAlways == Spec => []StatesAgree
<1>1. IInv => StatesAgree
  BY AgreeFromSound
<1> QED
  BY <1>1, ProcessesSoundAlways, PTL

\* A common cluster's count is that of its associations, and it goes with the last
\* of them unless it is to stay: $ASCEFC, $DACEFC, $DLCEFC and a process's rundown.
THEOREM ClustersCountedAlways == Spec => []ClustersCounted
<1>1. IInv => ClustersCounted
  BY CountsFromSound
<1> QED
  BY <1>1, ProcessesSoundAlways, PTL

\* An AST is active in a mode just while its routine is among the calls: callAST, $CLRAST
\* and $CMKRNL.
THEOREM ASTLevelsAlways == Spec => []ASTLevels
<1>1. IInv => ASTLevels
  BY LevelsFromSound
<1> QED
  BY <1>1, ProcessesSoundAlways, PTL

\* Who waits for its subprocesses waits for processes that are to be deleted: $DELPRC and
\* deletion in the scheduling hook.
THEOREM DeletionGoesOnAlways == Spec => []DeletionGoesOn
<1>1. IInv => DeletionGoesOn
  BY DeletionFromSound
<1> QED
  BY <1>1, ProcessesSoundAlways, PTL

\* A process deleted leaves no request, no attention AST and no subprocess, and its memory
\* just while the CPU is in it: rundown and the switch to the next process.
THEOREM DeletedLeavesNothingAlways == Spec => []DeletedLeavesNothing
<1>1. IInv => DeletedLeavesNothing
  BY NothingFromSound
<1> QED
  BY <1>1, ProcessesSoundAlways, PTL

\* No instruction runs past a timer that was queued when the hook chose the budget.
THEOREM TimersOnTimeAlways == Spec => []TimersOnTime
<1>1. IInv => TimersOnTime
  BY TimeFromSound
<1> QED
  BY <1>1, ProcessesSoundAlways, PTL

\* However late a repeating wakeup is seen (behind another process's quantum, say), it
\* goes to its first repetition still to come, and the ones missed are one: expireTimers.
THEOREM WakeupsKeepTheirBeatAlways == Spec => WakeupsKeepTheirBeat
<1> DEFINE Beat ==
      \A p \in Present(os) \cap Present(os') :
        Expires(p) /\ ~os.proc[p].marked =>
          \A t \in Due(os.proc[p]) : t.wake /\ t.repeat > 0 =>
            \E n \in 1 .. t.repeat :
              /\ [t EXCEPT !.left = n] \in ToSet(os'.proc[p].timers)
              /\ (n - t.left) % t.repeat = 0
<1>1. Init => Polled
  BY DEF Init, Polled
<1>2. IInv /\ Polled /\ [Next]_vars => Polled'
  BY StepPolled
<1>3. IInv /\ Polled /\ [Next]_vars => Beat
  BY StepBeats DEF KeepsBeat, NextBeat
<1> HIDE DEF Beat
<1>4. IInv /\ Polled /\ [Next]_vars => [Beat]_vars
  BY <1>3
<1>5. Spec => [][Beat]_vars
  BY <1>1, <1>2, <1>4, ProcessesSoundAlways, PTL DEF Spec
<1> QED
  BY <1>5, PTL DEF WakeupsKeepTheirBeat, Beat

=============================================================================
