------------------------- MODULE ProcessEventProofs -------------------------
(***************************************************************************)
(* Proofs about what events do in Processes: the mailbox keeps its         *)
(* messages, and no waiter is overlooked.                                  *)
(***************************************************************************)
EXTENDS ProcessProofs

-----------------------------------------------------------------------------
(* What is true of the mailbox, and of those who wait, between two steps.     *)

Pending(s) == {r \in Requests : s.io[r] # None /\ ~s.io[r].done}

\* Those who wait for a reader to take their message.
Writers(messages) == {m.writer : m \in ToSet(messages)} \ {None}

\* Messages of one writer, and a reader with itself.
SameWriter == {w \in Message \X Message : w[1].writer = w[2].writer /\ w[1].writer # None}
Itself == {w \in Requests \X Requests : w[1] = w[2]}

\* The mailbox's part of the state fits; the requests R are made and not in it yet.
MailFits(s, R) ==
  /\ LiveMessages(s) = s.owed
  /\ LiveReaders(s) = <<>> \/ s.owed = <<>>
  /\ Apart(s.mailbox.readers, Itself) /\ Apart(s.owed, SameWriter)
  /\ \A r \in Pending(s) \ R : r \in ToSet(s.mailbox.readers) <=> r \notin Writers(s.owed)
  /\ R \cap InMail(s) = {}

\* Process p is in a $QIOW of request r.
Calling(s, p, r) ==
  \E c \in ToSet(s.proc[p].calls) : c.doing = [svc |-> "QIOW", request |-> r]

\* Who waits for a request is in a call of $QIOW, and that is of a request of its own.
AwaitFits(s) ==
  \A p \in Processes, r \in Requests :
    /\ Calling(s, p, r) => s.io[r] # None /\ s.io[r].owner = p
    /\ s.proc[p].waiting = [kind |-> "request", request |-> r] => Calling(s, p, r)

\* Those whose wait is over, or who could take an AST, and still wait.
Overlooked(s) ==
  {p \in Present(s) :
     /\ Waits(s, p) /\ ~s.proc[p].suspended
     /\ IF s.proc[p].waiting.kind = "room" THEN DeliverableModes(s.proc[p]) # {} ELSE MayGoOn(s, p)}

\* The mailbox and the calls that wait for it agree, and nobody is overlooked while the
\* processor chooses or executes.
EventsFit ==
  /\ MailFits(os, {}) /\ AwaitFits(os)
  /\ cpu.choosing \/ AtInstruction => Overlooked(os) = {}

-----------------------------------------------------------------------------
(* Sequences less some of their elements.                                     *)

\* What is kept depends on the elements only, and on which of them are to be kept.
LEMMA KeptAgree ==
  ASSUME NEW n \in Nat, NEW q, NEW p, NEW S, NEW R, NEW f, NEW g,
         \A i \in 1 .. n : q[i] = p[i] /\ (q[i] \in S <=> q[i] \in R),
         Keeps(q, S, n, f), Keeps(p, R, n, g)
  PROVE  f[n] = g[n]
<1> DEFINE Wrong == {i \in 0 .. n : f[i] # g[i]}
<1>1. ASSUME Wrong # {}
      PROVE  FALSE
  <2>1. PICK m \in Wrong : \A j \in Wrong : m <= j
    <3>1. Wrong \subseteq Nat
      OBVIOUS
    <3> HIDE DEF Wrong
    <3> QED
      BY <1>1, <3>1, LeastOf, Zenon
  <2>2. m \in 0 .. n /\ f[m] # g[m]
    OBVIOUS
  <2>3. m # 0
    BY <2>2 DEF Keeps
  <2>4. m \in 1 .. n /\ m - 1 \in 0 .. n /\ ~(m <= m - 1)
    BY <2>2, <2>3
  <2>5. f[m - 1] = g[m - 1]
    BY <2>1, <2>4
  <2>6. f[m] = IF q[m] \in S THEN Append(f[m - 1], q[m]) ELSE f[m - 1]
    BY <2>2, <2>3 DEF Keeps
  <2>7. g[m] = IF p[m] \in R THEN Append(g[m - 1], p[m]) ELSE g[m - 1]
    BY <2>2, <2>3 DEF Keeps
  <2> QED
    BY <2>2, <2>4, <2>5, <2>6, <2>7
<1>2. n \in 0 .. n
  OBVIOUS
<1> QED
  BY <1>1, <1>2

\* Sets that agree on a sequence's elements leave the same of it.
LEMMA ThoseSame ==
  ASSUME NEW T, NEW q \in Seq(T), NEW S, NEW R, \A e \in ToSet(q) : e \in S <=> e \in R
  PROVE  Those(q, S) = Those(q, R)
<1>1. PICK f : Keeps(q, S, Len(q), f) /\ Those(q, S) = f[Len(q)]
  BY ThoseFollows
<1>2. PICK g : Keeps(q, R, Len(q), g) /\ Those(q, R) = g[Len(q)]
  BY ThoseFollows
<1>3. Len(q) \in Nat /\ \A i \in 1 .. Len(q) : q[i] \in ToSet(q)
  BY LenProperties DEF ToSet
<1> QED
  BY <1>1, <1>2, <1>3, KeptAgree

\* An element appended is left or not, after the others.
LEMMA ThoseAppend ==
  ASSUME NEW T, NEW q \in Seq(T), NEW e \in T, NEW S
  PROVE  Those(Append(q, e), S) = IF e \in S THEN Append(Those(q, S), e) ELSE Those(q, S)
<1> DEFINE a == Append(q, e)
           n == Len(q)
<1>1. /\ a \in Seq(T) /\ Len(a) = n + 1 /\ a[n + 1] = e /\ n \in Nat
      /\ \A i \in 1 .. n : a[i] = q[i]
  BY LenProperties, AppendProperties
<1> HIDE DEF a
<1>2. PICK f : Keeps(a, S, Len(a), f) /\ Those(a, S) = f[Len(a)]
  BY <1>1, ThoseFollows
<1>3. PICK g : Keeps(q, S, n, g) /\ Those(q, S) = g[n]
  BY ThoseFollows
<1>4. Keeps(a, S, n, f)
  BY <1>1, <1>2 DEF Keeps
<1>5. f[n] = g[n]
  BY <1>1, <1>3, <1>4, KeptAgree
<1>6. f[n + 1] = IF a[n + 1] \in S THEN Append(f[n], a[n + 1]) ELSE f[n]
  <2>1. n + 1 \in 0 .. Len(a) /\ n + 1 # 0 /\ n + 1 - 1 = n
    BY <1>1
  <2> QED
    BY <1>2, <2>1 DEF Keeps
<1> QED
  BY <1>1, <1>2, <1>3, <1>5, <1>6 DEF a

\* Nothing is left out of a sequence of what is to be left.
LEMMA ThoseAll ==
  ASSUME NEW T, NEW q \in Seq(T), NEW S, ToSet(q) \subseteq S
  PROVE  Those(q, S) = q
<1> DEFINE n == Len(q)
<1>1. n \in Nat /\ \A i \in 1 .. n : q[i] \in T /\ q[i] \in S
  BY LenProperties, ElementOfSeq DEF ToSet
<1>2. PICK f : Keeps(q, S, n, f) /\ Those(q, S) = f[n]
  BY ThoseFollows
<1> DEFINE Is(i) == f[i] \in Seq(T) /\ Len(f[i]) = i /\ \A j \in 1 .. i : f[i][j] = q[j]
           Wrong == {i \in 0 .. n : ~Is(i)}
<1> HIDE DEF n
<1>3. ASSUME Wrong # {}
      PROVE  FALSE
  <2>1. PICK m \in Wrong : \A j \in Wrong : m <= j
    <3>1. Wrong \subseteq Nat
      BY <1>1
    <3> HIDE DEF Wrong
    <3> QED
      BY <1>3, <3>1, LeastOf, Zenon
  <2>2. m \in 0 .. n /\ ~Is(m)
    OBVIOUS
  <2>3. CASE m = 0
    <3>1. f[0] = <<>>
      BY <1>1, <1>2 DEF Keeps
    <3>2. Is(0)
      BY <3>1, EmptySeq
    <3> QED
      BY <2>2, <2>3, <3>2
  <2>4. CASE m # 0
    <3>1. m - 1 \in 0 .. n /\ ~(m <= m - 1) /\ m \in 1 .. n /\ m - 1 \in Nat
      BY <1>1, <2>2, <2>4
    <3>2. Is(m - 1)
      BY <2>1, <3>1
    <3> DEFINE g == f[m - 1]
               e == q[m]
    <3>3. f[m] = Append(g, e) /\ e \in T
      BY <1>1, <1>2, <2>2, <2>4, <3>1 DEF Keeps
    <3>4. g \in Seq(T) /\ Len(g) = m - 1 /\ \A j \in 1 .. m - 1 : g[j] = q[j]
      BY <3>2
    <3> HIDE DEF e, g
    <3>5. /\ Append(g, e) \in Seq(T) /\ Len(Append(g, e)) = m - 1 + 1
          /\ \A j \in 1 .. m - 1 : Append(g, e)[j] = g[j]
          /\ Append(g, e)[m - 1 + 1] = e
      BY <3>3, <3>4, AppendProperties
    <3>6. m - 1 + 1 = m /\ \A j \in 1 .. m : j = m \/ j \in 1 .. m - 1
      BY <3>1
    <3>7. Is(m)
      BY <3>3, <3>4, <3>5, <3>6 DEF e
    <3> QED
      BY <2>2, <3>7
  <2> QED
    BY <2>3, <2>4
<1>4. Is(n)
  <2>1. n \in 0 .. n
    BY <1>1
  <2> QED
    BY <1>3, <2>1
<1>5. f[n] = q
  BY <1>4, SeqEqual DEF n
<1> QED
  BY <1>2, <1>5

\* What is left of what was left.
LEMMA ThoseOfThose ==
  ASSUME NEW T, NEW q \in Seq(T), NEW S, NEW R
  PROVE  Those(Those(q, S), R) = Those(q, S \cap R)
<1> DEFINE n == Len(q)
<1>1. n \in Nat /\ \A i \in 1 .. n : q[i] \in T
  BY LenProperties, ElementOfSeq
<1>2. PICK f : Keeps(q, S, n, f) /\ Those(q, S) = f[n]
  BY ThoseFollows
<1>3. PICK g : Keeps(q, S \cap R, n, g) /\ Those(q, S \cap R) = g[n]
  BY ThoseFollows
<1> DEFINE Is(i) == f[i] \in Seq(T) /\ Those(f[i], R) = g[i]
           Wrong == {i \in 0 .. n : ~Is(i)}
<1> HIDE DEF n
<1>4. ASSUME Wrong # {}
      PROVE  FALSE
  <2>1. PICK m \in Wrong : \A j \in Wrong : m <= j
    <3>1. Wrong \subseteq Nat
      BY <1>1
    <3> HIDE DEF Wrong
    <3> QED
      BY <1>4, <3>1, LeastOf, Zenon
  <2>2. m \in 0 .. n /\ ~Is(m)
    OBVIOUS
  <2>3. CASE m = 0
    <3>1. f[0] = <<>> /\ g[0] = <<>>
      <4>1. 0 \in 0 .. n
        BY <1>1
      <4>2. f[0] = <<>>
        BY <1>2, <4>1 DEF Keeps
      <4>3. g[0] = <<>>
        BY <1>3, <4>1 DEF Keeps
      <4> QED
        BY <4>2, <4>3
    <3>2. <<>> \in Seq(T) /\ ToSet(<<>>) \subseteq R
      BY EmptySeq DEF ToSet
    <3>3. Those(<<>>, R) = <<>>
      BY <3>2, ThoseAll
    <3> QED
      BY <2>2, <2>3, <3>1, <3>2, <3>3
  <2>4. CASE m # 0
    <3>1. m - 1 \in 0 .. n /\ ~(m <= m - 1) /\ m \in 1 .. n
      BY <1>1, <2>2, <2>4
    <3>2. Is(m - 1)
      BY <2>1, <3>1
    <3> DEFINE h == f[m - 1]
               e == q[m]
    <3>3. f[m] = (IF e \in S THEN Append(h, e) ELSE h) /\ e \in T
      BY <1>1, <1>2, <2>2, <2>4, <3>1 DEF Keeps
    <3>4. g[m] = IF e \in S \cap R THEN Append(g[m - 1], e) ELSE g[m - 1]
      BY <1>3, <2>2, <2>4 DEF Keeps
    <3>5. h \in Seq(T) /\ Those(h, R) = g[m - 1]
      BY <3>2
    <3> HIDE DEF e, h
    <3>6. /\ Append(h, e) \in Seq(T)
          /\ Those(Append(h, e), R) = IF e \in R THEN Append(Those(h, R), e) ELSE Those(h, R)
      BY <3>3, <3>5, ThoseAppend, AppendProperties, SMTT(60)
    <3>7. Is(m)
      BY <3>3, <3>4, <3>5, <3>6
    <3> QED
      BY <2>2, <3>7
  <2> QED
    BY <2>3, <2>4
<1>5. Is(n)
  <2>1. n \in 0 .. n
    BY <1>1
  <2> QED
    BY <1>4, <2>1
<1> QED
  BY <1>2, <1>3, <1>5

\* Nor of the rest of a sequence, whose first element is like none of it.
LEMMA TailApart ==
  ASSUME NEW T, NEW q \in Seq(T), q # <<>>, NEW alike, Apart(q, alike)
  PROVE  /\ Apart(Tail(q), alike)
         /\ \A e \in ToSet(Tail(q)) : <<Head(q), e>> \notin alike
         /\ ToSet(q) = ToSet(Tail(q)) \cup {Head(q)}
<1> DEFINE a == Tail(q)
<1>1. /\ a \in Seq(T) /\ Len(a) = Len(q) - 1 /\ Head(q) = q[1]
      /\ \A i \in 1 .. Len(a) : a[i] = q[i + 1]
      /\ Len(q) \in Nat \ {0} /\ DOMAIN q = 1 .. Len(q) /\ DOMAIN a = 1 .. Len(a)
  BY LenProperties, HeadTailProperties, EmptySeq
<1> HIDE DEF a
<1>2. \A i \in DOMAIN a : i + 1 \in DOMAIN q /\ i + 1 # 1 /\ a[i] = q[i + 1]
  BY <1>1
<1>3. Apart(a, alike)
  <2>1. \A i, j \in DOMAIN a : i # j => i + 1 # j + 1
    BY <1>1
  <2> QED
    BY <1>2, <2>1 DEF Apart
<1>4. \A e \in ToSet(a) : <<Head(q), e>> \notin alike
  <2>1. 1 \in DOMAIN q
    BY <1>1
  <2> QED
    BY <1>1, <1>2, <2>1 DEF Apart, ToSet
<1>5. ToSet(q) = ToSet(a) \cup {Head(q)}
  <2>1. \A i \in DOMAIN q : i = 1 \/ (i - 1 \in DOMAIN a /\ (i - 1) + 1 = i)
    BY <1>1
  <2>2. 1 \in DOMAIN q
    BY <1>1
  <2> QED
    BY <1>1, <1>2, <2>1, <2>2 DEF ToSet
<1> QED
  BY <1>3, <1>4, <1>5 DEF a

\* A sequence without elements is empty.
LEMMA NoElements ==
  ASSUME NEW T, NEW q \in Seq(T), ToSet(q) \subseteq {}
  PROVE  q = <<>>
<1>1. Len(q) \in Nat /\ DOMAIN q = 1 .. Len(q) /\ (Len(q) = 0 => q = <<>>)
  BY LenProperties, EmptySeq
<1>2. Len(q) # 0 => q[1] \in ToSet(q)
  BY <1>1 DEF ToSet
<1> QED
  BY <1>1, <1>2

-----------------------------------------------------------------------------
(* Who is overlooked, after what events do.                                   *)

SameMail(s, t) == t.mailbox = s.mailbox /\ t.owed = s.owed /\ t.io = s.io

SameCalls(s, t) == \A p \in Processes : t.proc[p].calls = s.proc[p].calls

\* t may overlook the processes ps, and those that s does.
Minds(s, t, ps) == SameCalls(s, t) /\ Overlooked(t) \subseteq Overlooked(s) \cup ps

\* Events one after another overlook only those that each of them may.
LEMMA MindsTransitive ==
  ASSUME NEW s, NEW t, NEW u, NEW ps, NEW qs, Minds(s, t, ps), Minds(t, u, qs)
  PROVE  Minds(s, u, ps \cup qs)
  BY DEF Minds, SameCalls

\* What process p waits for has not come about, if it is as it was and no flag was set, no
\* request of its done, and no subprocess gone.
LEMMA NotOver ==
  ASSUME NEW s, NEW t, NEW p,
         t.proc[p].waiting = s.proc[p].waiting, s.proc[p].waiting \in Wait,
         t.proc[p].wakePending => s.proc[p].wakePending,
         t.proc[p].local \subseteq s.proc[p].local, t.proc[p].common = s.proc[p].common,
         \A c \in Clusters :
           LET n == s.proc[p].common[c] IN n # None => t.clusters[n].flags \subseteq s.clusters[n].flags,
         \A r \in Requests :
           s.proc[p].waiting = [kind |-> "request", request |-> r] /\ t.io[r].done => s.io[r].done,
         Subprocesses(t, p) = {} => Subprocesses(s, p) = {},
         s.proc[p].waiting.kind # "room", Over(t, p)
  PROVE  Over(s, p)
<1> DEFINE w == s.proc[p].waiting
<1>1. CASE w.kind = "wake"
  BY <1>1 DEF Over
<1>2. CASE w.kind = "subprocesses"
  BY <1>2 DEF Over
<1>3. CASE w.kind = "request"
  <2>1. w.request \in Requests /\ w = [kind |-> "request", request |-> w.request]
    BY <1>3 DEF Wait
  <2> QED
    BY <1>3, <2>1 DEF Over
<1>4. CASE w.kind = "flags"
  <2>1. w.cluster \in {Local} \cup Clusters
    BY <1>4 DEF Wait
  <2>2. CanReach(t, p, w.cluster) <=> CanReach(s, p, w.cluster)
    BY DEF CanReach
  <2>3. ASSUME CanReach(s, p, w.cluster)
        PROVE  Flags(t, p, w.cluster) \subseteq Flags(s, p, w.cluster)
    BY <2>1, <2>3 DEF Flags, CanReach
  <2>4. \A f, g : f \subseteq g /\ FlagsMet(f, w) => FlagsMet(g, w)
    BY DEF FlagsMet
  <2> QED
    BY <1>4, <2>2, <2>3, <2>4 DEF Over
<1> QED
  BY <1>1, <1>2, <1>3, <1>4 DEF Wait

\* What process p is to others: only its timers may have changed.
SameWaiter(P, Q) ==
  /\ Q.waiting = P.waiting /\ Q.suspended = P.suspended /\ Q.wakePending = P.wakePending
  /\ Q.calls = P.calls /\ Q.asts = P.asts /\ Q.enabled = P.enabled /\ Q.active = P.active
  /\ Q.local = P.local /\ Q.common = P.common

\* A process is overlooked only if it was, when nothing happened to it.
LEMMA NoNews ==
  ASSUME NEW s, Sound(s), NEW t, NEW p \in Processes, SameWaiter(s.proc[p], t.proc[p]),
         p \in Present(t) => p \in Present(s),
         \A c \in Clusters :
           LET n == s.proc[p].common[c] IN n # None => t.clusters[n].flags \subseteq s.clusters[n].flags,
         \A r \in Requests :
           s.proc[p].waiting = [kind |-> "request", request |-> r] /\ t.io[r].done => s.io[r].done,
         Subprocesses(t, p) = {} => Subprocesses(s, p) = {},
         p \in Overlooked(t)
  PROVE  p \in Overlooked(s)
<1>1. /\ p \in Present(s) /\ Waits(s, p) /\ ~s.proc[p].suspended
      /\ s.proc[p].waiting = t.proc[p].waiting
  BY DEF Overlooked, SameWaiter, Waits
<1>2. DeliverableModes(t.proc[p]) = DeliverableModes(s.proc[p])
  BY DEF SameWaiter, DeliverableModes
<1>3. s.proc[p].waiting \in Wait
  BY <1>1 DEF Sound, States, ProcessRecord, Waits
<1>4. CASE s.proc[p].waiting.kind = "room"
  BY <1>1, <1>2, <1>4 DEF Overlooked
<1>5. CASE s.proc[p].waiting.kind # "room"
  <2>1. MayGoOn(t, p)
    BY <1>1, <1>5 DEF Overlooked
  <2>2. Over(t, p) => Over(s, p)
    BY <1>1, <1>3, <1>5, NotOver DEF SameWaiter
  <2>3. MayGoOn(s, p)
    BY <1>1, <1>2, <2>1, <2>2 DEF MayGoOn
  <2> QED
    BY <1>1, <1>5, <2>3 DEF Overlooked
<1> QED
  BY <1>4, <1>5

\* Ending waits ends those, and changes nothing else.
LEMMA EndWaitsIs ==
  ASSUME NEW s \in States, NEW ps, NEW t, t = EndWaits(s, ps)
  PROVE  /\ SameMail(s, t) /\ t.clusters = s.clusters /\ t.attention = s.attention
         /\ \A p \in Processes :
              IF p \in ps THEN /\ t.proc[p].waiting = None /\ t.proc[p].calls = s.proc[p].calls
                               /\ t.proc[p].suspended = s.proc[p].suspended
              ELSE t.proc[p] = s.proc[p]
<1>1. /\ SameMail(s, t) /\ t.clusters = s.clusters /\ t.attention = s.attention
      /\ t.proc = [p \in Processes |->
                     IF p \in ps THEN [s.proc[p] EXCEPT !.waiting = None, !.state = "computable"]
                     ELSE s.proc[p]]
  BY DEF EndWaits, States, SameMail
<1>2. \A P \in ProcessRecord :
        LET Q == [P EXCEPT !.waiting = None, !.state = "computable"]
        IN  Q.waiting = None /\ Q.calls = P.calls /\ Q.suspended = P.suspended
  BY DEF ProcessRecord
<1>3. \A p \in Processes : s.proc[p] \in ProcessRecord
  BY DEF States
<1>4. ASSUME NEW p \in Processes
      PROVE  IF p \in ps THEN /\ t.proc[p].waiting = None /\ t.proc[p].calls = s.proc[p].calls
                              /\ t.proc[p].suspended = s.proc[p].suspended
             ELSE t.proc[p] = s.proc[p]
  <2>1. t.proc[p] = IF p \in ps THEN [s.proc[p] EXCEPT !.waiting = None, !.state = "computable"]
                    ELSE s.proc[p]
    BY <1>1
  <2>2. CASE p \in ps
    BY <1>2, <1>3, <2>1, <2>2
  <2>3. CASE p \notin ps
    BY <2>1, <2>3
  <2> QED
    BY <2>2, <2>3
<1> QED
  BY <1>1, <1>4

\* Who is told is not overlooked.
LEMMA ReportToMinds ==
  ASSUME NEW s, Sound(s), NEW ps \in SUBSET Processes, NEW t, t = ReportTo(s, ps)
  PROVE  SameMail(s, t) /\ SameCalls(s, t) /\ Overlooked(t) \subseteq Overlooked(s) \ ps
<1> DEFINE over == {p \in Reached(s, ps) : MayGoOn(s, p)}
<1>1. t = EndWaits(s, over) /\ s \in States
  BY DEF ReportTo, Sound
<1>2. Quiet(s, t)
  BY ReportToQuiet DEF Quietly
<1>3. Present(t) = Present(s) /\ \A p : Subprocesses(t, p) = Subprocesses(s, p)
  BY <1>2, QuietPresent
<1>4. over = {p \in ps : Waits(s, p) /\ ~s.proc[p].suspended /\ MayGoOn(s, p)}
  BY DEF Reached
<1> HIDE DEF over
<1>5. /\ SameMail(s, t) /\ t.clusters = s.clusters
      /\ \A p \in Processes :
           IF p \in over THEN /\ t.proc[p].waiting = None /\ t.proc[p].calls = s.proc[p].calls
                              /\ t.proc[p].suspended = s.proc[p].suspended
           ELSE t.proc[p] = s.proc[p]
  BY <1>1, EndWaitsIs
<1>6. ASSUME NEW p \in Overlooked(t)
      PROVE  p \in Overlooked(s) \ ps
  <2>1. p \in Processes /\ p \in Present(t) /\ Waits(t, p)
    BY DEF Overlooked, Present
  <2>2. p \notin over /\ t.proc[p] = s.proc[p]
    BY <1>5, <2>1 DEF Waits
  <2>3. SameWaiter(s.proc[p], t.proc[p])
    BY <2>2 DEF SameWaiter
  <2>4. p \in Overlooked(s)
    BY <1>3, <1>5, <2>1, <2>3, NoNews DEF SameMail
  <2>5. Waits(s, p) /\ ~s.proc[p].suspended
    BY <2>4 DEF Overlooked
  <2>6. MayGoOn(s, p)
    <3>1. CASE s.proc[p].waiting.kind = "room"
      BY <2>4, <3>1 DEF Overlooked, MayGoOn
    <3>2. CASE s.proc[p].waiting.kind # "room"
      BY <2>4, <3>2 DEF Overlooked
    <3> QED
      BY <3>1, <3>2
  <2> QED
    BY <1>4, <2>2, <2>4, <2>5, <2>6
<1> QED
  BY <1>5, <1>6 DEF SameCalls

\* ASTs queued may be overlooked by those they are for.
LEMMA QueueASTMinds ==
  ASSUME NEW s, Sound(s), NEW ps, NEW mode \in Modes, NEW t, t = QueueAST(s, ps, mode)
  PROVE  SameMail(s, t) /\ Minds(s, t, ps)
<1>1. s \in States /\ \A p \in Processes : s.proc[p] \in ProcessRecord
  BY DEF Sound, States
<1>2. /\ SameMail(s, t) /\ t.clusters = s.clusters
      /\ t.proc = [p \in Processes |->
                     IF p \in ps THEN [s.proc[p] EXCEPT !.asts[mode] = @ + 1] ELSE s.proc[p]]
  BY <1>1 DEF QueueAST, States, SameMail
<1>3. Quiet(s, t)
  BY QueueASTQuiet DEF Quietly
<1>4. Present(t) = Present(s) /\ \A p : Subprocesses(t, p) = Subprocesses(s, p)
  BY <1>3, QuietPresent
<1>5. ASSUME NEW p \in Processes
      PROVE  t.proc[p].calls = s.proc[p].calls /\ (p \notin ps => t.proc[p] = s.proc[p])
  BY <1>1, <1>2 DEF ProcessRecord
<1>6. ASSUME NEW p \in Overlooked(t), p \notin ps
      PROVE  p \in Overlooked(s)
  <2>1. p \in Processes /\ p \in Present(t)
    BY DEF Overlooked, Present
  <2>2. SameWaiter(s.proc[p], t.proc[p])
    BY <1>5, <1>6, <2>1 DEF SameWaiter
  <2> QED
    BY <1>2, <1>4, <2>1, <2>2, NoNews DEF SameMail
<1> QED
  BY <1>2, <1>5, <1>6 DEF Minds, SameCalls

\* A step overlooks only those it may, if nothing happens to the others.
LEMMA StepMinds ==
  ASSUME NEW s, Sound(s), NEW t, Present(t) \subseteq Present(s), SameCalls(s, t), NEW ps,
         \A p \in Present(s) \ ps :
           /\ SameWaiter(s.proc[p], t.proc[p])
           /\ \A c \in Clusters :
                LET n == s.proc[p].common[c] IN n # None => t.clusters[n].flags \subseteq s.clusters[n].flags
           /\ \A r \in Requests :
                s.proc[p].waiting = [kind |-> "request", request |-> r] /\ t.io[r].done => s.io[r].done
           /\ Subprocesses(t, p) = {} => Subprocesses(s, p) = {}
  PROVE  Minds(s, t, ps)
<1> SUFFICES ASSUME NEW p \in Overlooked(t), p \notin ps
             PROVE  p \in Overlooked(s)
  BY DEF Minds
<1>1. p \in Processes /\ p \in Present(t) /\ p \in Present(s) \ ps
  BY DEF Overlooked, Present
<1> QED
  BY <1>1, NoNews

\* Quiet steps make and end no process.
LEMMA QuietMinds ==
  ASSUME NEW s, Sound(s), NEW t, Quiet(s, t), SameCalls(s, t), NEW ps,
         \A p \in Present(s) \ ps :
           /\ SameWaiter(s.proc[p], t.proc[p])
           /\ \A c \in Clusters :
                LET n == s.proc[p].common[c] IN n # None => t.clusters[n].flags \subseteq s.clusters[n].flags
           /\ \A r \in Requests :
                s.proc[p].waiting = [kind |-> "request", request |-> r] /\ t.io[r].done => s.io[r].done
  PROVE  Minds(s, t, ps)
<1>1. Present(t) = Present(s) /\ \A p : Subprocesses(t, p) = Subprocesses(s, p)
  BY QuietPresent
<1> QED
  BY <1>1, StepMinds

\* A process's own fields changed are news to it alone.
LEMMA OwnMinds ==
  ASSUME NEW s, Sound(s), NEW p \in Processes, NEW P \in ProcessRecord, Private(s.proc[p], P),
         NEW t, t = [s EXCEPT !.proc[p] = P]
  PROVE  SameMail(s, t) /\ (P.calls = s.proc[p].calls => Minds(s, t, {p}))
<1>1. s \in States
  BY DEF Sound
<1>2. SameMail(s, t) /\ t.clusters = s.clusters /\ t.io = s.io
  BY <1>1 DEF SameMail, States
<1>3. Quiet(s, t)
  BY OwnQuiet
<1>4. t.proc[p] = P /\ \A q \in Processes \ {p} : t.proc[q] = s.proc[q]
  BY <1>1 DEF States
<1>5. \A q \in Present(s) \ {p} : SameWaiter(s.proc[q], t.proc[q])
  BY <1>4 DEF SameWaiter, Present
<1>6. ASSUME P.calls = s.proc[p].calls
      PROVE  Minds(s, t, {p})
  <2>1. SameCalls(s, t)
    BY <1>3, <1>4, <1>6 DEF SameCalls
  <2> QED
    BY <1>2, <1>3, <1>5, <2>1, QuietMinds
<1> QED
  BY <1>2, <1>6

\* A common cluster's flags changed: fewer are news to nobody.
LEMMA ClusterFlagsMinds ==
  ASSUME NEW s, Sound(s), NEW n \in Names, s.clusters[n] # None, NEW flags \in SUBSET Nat,
         NEW t, t = [s EXCEPT !.clusters[n].flags = flags]
  PROVE  /\ SameMail(s, t) /\ Minds(s, t, Associates(s, n)) /\ t.proc = s.proc
         /\ flags \subseteq s.clusters[n].flags => Minds(s, t, {})
<1>1. s \in States /\ s.clusters[n] \in Cluster
  BY DEF Sound, States
<1>2. SameMail(s, t) /\ t.proc = s.proc /\ t.io = s.io
  BY <1>1 DEF SameMail, States
<1>3. Quiet(s, t) /\ SameCalls(s, t)
  BY <1>2, ClusterFlagsQuiet DEF Quietly, SameCalls
<1>4. t.clusters = [s.clusters EXCEPT ![n] = [s.clusters[n] EXCEPT !.flags = flags]]
  BY <1>1 DEF States
<1>5. /\ t.clusters[n].flags = flags
      /\ \A m \in Names \ {n} : t.clusters[m] = s.clusters[m]
  BY <1>1, <1>4 DEF States, Cluster
<1>6. \A p \in Present(s) : \A c \in Clusters :
        s.proc[p].common[c] # None => s.proc[p].common[c] \in Names
  BY ReachedCluster DEF Present
<1>7. \A p \in Present(s) \ Associates(s, n) : \A c \in Clusters : s.proc[p].common[c] # n
  BY DEF Associates
<1>8. \A p \in Present(s) : SameWaiter(s.proc[p], t.proc[p])
  BY <1>2 DEF SameWaiter
<1>9. \A p \in Present(s) \ Associates(s, n) : \A c \in Clusters :
        s.proc[p].common[c] # None => t.clusters[s.proc[p].common[c]].flags \subseteq s.clusters[s.proc[p].common[c]].flags
  BY <1>5, <1>6, <1>7
<1>10. Minds(s, t, Associates(s, n))
  BY <1>2, <1>3, <1>8, <1>9, QuietMinds
<1>11. ASSUME flags \subseteq s.clusters[n].flags
       PROVE  Minds(s, t, {})
  <2>1. \A p \in Present(s) : \A c \in Clusters :
          s.proc[p].common[c] # None => t.clusters[s.proc[p].common[c]].flags \subseteq s.clusters[s.proc[p].common[c]].flags
    BY <1>5, <1>6, <1>11
  <2> QED
    BY <1>2, <1>3, <1>8, <2>1, QuietMinds
<1> QED
  BY <1>2, <1>10, <1>11

\* Steps that leave the mailbox alone leave it alone together.
LEMMA SameMailTransitive ==
  ASSUME NEW s, NEW t, NEW u, SameMail(s, t), SameMail(t, u)
  PROVE  SameMail(s, u)
  BY DEF SameMail

\* A flag set is news to the process that sets it alone: who else has its cluster is told.
LEMMA PostFlagMinds ==
  ASSUME NEW s, Sound(s), NEW p \in Processes, NEW f \in Flag, NEW t, t = PostFlag(s, p, f)
  PROVE  SameMail(s, t) /\ Minds(s, t, {p})
<1>1. f.bit \in Nat /\ f.cluster \in {Local} \cup Clusters
  BY DEF Flag
<1>2. s \in States /\ s.proc[p] \in ProcessRecord
  BY DEF Sound, States
<1>3. CASE f.cluster = Local
  <2> DEFINE P == [s.proc[p] EXCEPT !.local = @ \cup {f.bit}]
  <2>1. t = [s EXCEPT !.proc[p] = P]
    BY <1>2, <1>3 DEF PostFlag, States
  <2>2. P \in ProcessRecord /\ Private(s.proc[p], P) /\ P.calls = s.proc[p].calls
    BY <1>1, <1>2 DEF ProcessRecord, Private, FramesFit
  <2> HIDE DEF P
  <2> QED
    BY <2>1, <2>2, OwnMinds
<1>4. CASE f.cluster # Local /\ ~CanReach(s, p, f.cluster)
  BY <1>4 DEF PostFlag, SameMail, Minds, SameCalls
<1>5. CASE f.cluster # Local /\ CanReach(s, p, f.cluster)
  <2> DEFINE name == s.proc[p].common[f.cluster]
             flags == s.clusters[name].flags \cup {f.bit}
             u == [s EXCEPT !.clusters[name].flags = flags]
             ps == Associates(s, name)
  <2>1. name \in Names /\ s.clusters[name] \in Cluster
    BY <1>1, <1>5, ReachedCluster DEF CanReach
  <2>2. flags \in SUBSET Nat /\ s.clusters[name] # None
    BY <1>1, <2>1, ProcessEventsAssumption DEF Cluster
  <2>3. t = ReportTo(u, ps)
    BY <1>5 DEF PostFlag
  <2>4. ps \in SUBSET Processes
    BY DEF Associates, Present
  <2> HIDE DEF name, flags, u
  <2>5. Quietly(s, u) /\ SameMail(s, u) /\ Minds(s, u, ps)
    BY <2>1, <2>2, ClusterFlagsQuiet, ClusterFlagsMinds DEF u
  <2> HIDE DEF ps
  <2>6. SameMail(u, t) /\ SameCalls(u, t) /\ Overlooked(t) \subseteq Overlooked(u) \ ps
    BY <2>3, <2>4, <2>5, ReportToMinds DEF Quietly
  <2>7. Minds(s, t, {p})
    BY <2>5, <2>6 DEF Minds, SameCalls
  <2> QED
    BY <2>5, <2>6, <2>7, SameMailTransitive
<1> QED
  BY <1>3, <1>4, <1>5

\* A flag cleared is no news to others.
LEMMA ClearFlagMinds ==
  ASSUME NEW s, Sound(s), NEW p \in Processes, NEW f \in Flag, CanReach(s, p, f.cluster),
         NEW t, t = ClearFlag(s, p, f)
  PROVE  SameMail(s, t) /\ Minds(s, t, {p})
<1>1. f.bit \in Nat /\ f.cluster \in {Local} \cup Clusters
  BY DEF Flag
<1>2. s \in States /\ s.proc[p] \in ProcessRecord
  BY DEF Sound, States
<1>3. CASE f.cluster = Local
  <2> DEFINE P == [s.proc[p] EXCEPT !.local = @ \ {f.bit}]
  <2>1. t = [s EXCEPT !.proc[p] = P]
    BY <1>2, <1>3 DEF ClearFlag, States
  <2>2. P \in ProcessRecord /\ Private(s.proc[p], P) /\ P.calls = s.proc[p].calls
    BY <1>1, <1>2 DEF ProcessRecord, Private, FramesFit
  <2> HIDE DEF P
  <2> QED
    BY <2>1, <2>2, OwnMinds
<1>4. CASE f.cluster # Local
  <2> DEFINE name == s.proc[p].common[f.cluster]
             flags == s.clusters[name].flags \ {f.bit}
  <2>1. name \in Names /\ s.clusters[name] \in Cluster
    BY <1>1, <1>4, ReachedCluster DEF CanReach
  <2>2. flags \in SUBSET Nat /\ s.clusters[name] # None /\ flags \subseteq s.clusters[name].flags
    BY <1>1, <2>1, ProcessEventsAssumption DEF Cluster
  <2>3. t = [s EXCEPT !.clusters[name].flags = flags]
    BY <1>4 DEF ClearFlag
  <2> HIDE DEF name, flags
  <2>4. SameMail(s, t) /\ Minds(s, t, {})
    BY <2>1, <2>2, <2>3, ClusterFlagsMinds
  <2> QED
    BY <2>4 DEF Minds
<1> QED
  BY <1>3, <1>4

\* Who waits in a $QIOW goes on doing so: a quiet step that leaves the calls alone.
LEMMA AwaitKept ==
  ASSUME NEW s, AwaitFits(s), NEW t, Quiet(s, t), SameCalls(s, t)
  PROVE  AwaitFits(t)
<1> SUFFICES ASSUME NEW p \in Processes, NEW r \in Requests
             PROVE  /\ Calling(t, p, r) => t.io[r] # None /\ t.io[r].owner = p
                    /\ t.proc[p].waiting = [kind |-> "request", request |-> r] => Calling(t, p, r)
  BY Zenon DEF AwaitFits
<1>1. Calling(t, p, r) <=> Calling(s, p, r)
  BY DEF Calling, SameCalls
<1>2. RequestKept(s.io[r], t.io[r]) /\ Kept(s.proc[p], t.proc[p])
  BY DEF Quiet
<1>3. [kind |-> "request", request |-> r] \in Wait
  BY DEF Wait
<1>4. t.proc[p].waiting = [kind |-> "request", request |-> r] =>
        s.proc[p].waiting = [kind |-> "request", request |-> r]
  BY <1>2, <1>3, ProcessEventsAssumption DEF Kept
<1> QED
  BY <1>1, <1>2, <1>4 DEF AwaitFits, RequestKept

\* A request done is news to its owner alone: nobody else waits for it.
LEMMA DoneMinds ==
  ASSUME NEW s, Sound(s), AwaitFits(s), NEW r \in Made(s), NEW t, t = [s EXCEPT !.io[r].done = TRUE]
  PROVE  /\ t.mailbox = s.mailbox /\ t.owed = s.owed
         /\ \A q \in Requests \ {r} : t.io[q] = s.io[q]
         /\ Minds(s, t, {s.io[r].owner})
<1>1. s \in States /\ r \in Requests
  BY DEF Sound, Made
<1>2. /\ t.mailbox = s.mailbox /\ t.owed = s.owed
      /\ t.proc = s.proc /\ t.clusters = s.clusters
      /\ \A q \in Requests \ {r} : t.io[q] = s.io[q]
  BY <1>1 DEF States
<1>3. Quiet(s, t)
  BY DoneQuiet DEF Quietly
<1>4. SameCalls(s, t) /\ \A p \in Present(s) : SameWaiter(s.proc[p], t.proc[p])
  BY <1>2 DEF SameCalls, SameWaiter
<1>5. \A p \in Present(s) \ {s.io[r].owner} : \A q \in Requests :
        s.proc[p].waiting = [kind |-> "request", request |-> q] => q # r
  BY DEF AwaitFits, Present
<1>6. \A p \in Present(s) \ {s.io[r].owner} : \A q \in Requests :
        s.proc[p].waiting = [kind |-> "request", request |-> q] /\ t.io[q].done => s.io[q].done
  BY <1>2, <1>5
<1>7. Minds(s, t, {s.io[r].owner})
  BY <1>2, <1>3, <1>4, <1>6, QuietMinds
<1> QED
  BY <1>2, <1>7

\* A request completed is news to nobody: its owner is told.
LEMMA CompleteIOMinds ==
  ASSUME NEW s, Sound(s), AwaitFits(s), NEW r \in Made(s), NEW t, t = CompleteIO(s, r)
  PROVE  /\ t.mailbox = s.mailbox /\ t.owed = s.owed /\ Minds(s, t, {}) /\ AwaitFits(t)
         /\ t.io[r] # None /\ t.io[r].done /\ \A q \in Requests \ {r} : t.io[q] = s.io[q]
<1>1. CASE s.io[r].done
  BY <1>1 DEF CompleteIO, Minds, SameCalls, Made
<1>2. CASE ~s.io[r].done
  <2> DEFINE q == s.io[r].owner
             told == IF s.io[r].ast THEN {q} ELSE {}
             s1 == [s EXCEPT !.io[r].done = TRUE]
             s2 == PostFlag(s1, q, s.io[r].efn)
             s3 == QueueAST(s2, told, s.io[r].mode)
  <2>1. s.io[r] \in IORequest /\ q \in Processes
    BY DEF Sound, States, Made, IORequest
  <2>2. s.io[r].efn \in Flag /\ s.io[r].mode \in Modes /\ {q} \in SUBSET Processes /\ told \subseteq {q}
    BY <2>1 DEF IORequest
  <2>3. t = ReportTo(s3, {q})
    BY <1>2 DEF CompleteIO, ReportEvent
  <2>0. s1 = [s EXCEPT !.io[r].done = TRUE]
    OBVIOUS
  <2> HIDE DEF s1, s2, s3, told, q
  <2>4. /\ s1.mailbox = s.mailbox /\ s1.owed = s.owed /\ Minds(s, s1, {q})
        /\ \A x \in Requests \ {r} : s1.io[x] = s.io[x]
    BY <2>0, DoneMinds DEF q
  <2>5. Quietly(s, s1)
    BY <2>0, DoneQuiet
  <2>6. Quietly(s1, s2) /\ SameMail(s1, s2) /\ Minds(s1, s2, {q})
    BY <2>1, <2>2, <2>5, PostFlagQuiet, PostFlagMinds DEF s2, Quietly
  <2>7. Quietly(s2, s3) /\ SameMail(s2, s3) /\ Minds(s2, s3, told)
    BY <2>2, <2>6, QueueASTQuiet, QueueASTMinds DEF s3, Quietly
  <2>8. Quietly(s3, t) /\ SameMail(s3, t) /\ SameCalls(s3, t) /\ Overlooked(t) \subseteq Overlooked(s3) \ {q}
    BY <2>2, <2>3, <2>7, ReportToQuiet, ReportToMinds DEF Quietly
  <2>9. Minds(s, t, {})
    BY <2>2, <2>4, <2>6, <2>7, <2>8 DEF Minds, SameCalls
  <2>10. t.mailbox = s.mailbox /\ t.owed = s.owed /\ t.io = s1.io
    BY <2>4, <2>6, <2>7, <2>8 DEF SameMail
  <2>11. t.io[r] # None /\ t.io[r].done
    BY <1>2, CompleteIOQuiet DEF Made
  <2>12. AwaitFits(t)
    <3>1. Quietly(s, t)
      BY CompleteIOQuiet
    <3> QED
      BY <2>9, <3>1, AwaitKept DEF Quietly, Minds
  <2> QED
    BY <2>4, <2>9, <2>10, <2>11, <2>12
<1> QED
  BY <1>1, <1>2

\* Attention ASTs delivered are news to nobody.
LEMMA DeliverAttentionMinds ==
  ASSUME NEW s, Sound(s), NEW kind \in Attentions, NEW t, t = DeliverAttention(s, kind)
  PROVE  SameMail(s, t) /\ Minds(s, t, {})
<1> DEFINE ps == s.attention[kind]
           a == [s.attention EXCEPT ![kind] = {}]
           u == [s EXCEPT !.attention = a]
           v == QueueAST(u, ps, User)
<1>1. s \in States
  BY DEF Sound
<1>2. ps \in SUBSET Processes /\ User \in Modes /\ a \in [Attentions -> SUBSET Processes]
  BY <1>1 DEF States, Modes
<1>3. t = ReportTo(v, ps)
  BY <1>1 DEF DeliverAttention
<1>4. \A k \in Attentions : a[k] \subseteq s.attention[k]
  BY <1>1 DEF States
<1> HIDE DEF a, ps
<1>5. /\ u.proc = s.proc /\ u.clusters = s.clusters /\ SameMail(s, u) /\ u.memory = s.memory
      /\ u.waiters = s.waiters /\ u.attention = a
  BY <1>1 DEF States, SameMail
<1>6. u \in States
  BY <1>1, <1>2, StateParts
<1>7. Quietly(s, u)
  <2>1. InMail(u) \subseteq Made(s)
    BY <1>5 DEF SameMail, InMail, Sound, MailMade
  <2> QED
    BY <1>4, <1>5, <1>6, <2>1, SharedQuiet DEF SameMail
<1>8. Minds(s, u, {})
  <2>1. Quiet(s, u) /\ SameCalls(s, u) /\ \A p \in Present(s) : SameWaiter(s.proc[p], u.proc[p])
    BY <1>5, <1>7 DEF SameCalls, SameWaiter, Quietly
  <2> QED
    BY <1>5, <2>1, QuietMinds DEF SameMail
<1> HIDE DEF u, v
<1>9. Quietly(u, v) /\ SameMail(u, v) /\ Minds(u, v, ps)
  BY <1>2, <1>7, QueueASTQuiet, QueueASTMinds DEF v, Quietly
<1>10. SameMail(v, t) /\ SameCalls(v, t) /\ Overlooked(t) \subseteq Overlooked(v) \ ps
  BY <1>2, <1>3, <1>9, ReportToMinds DEF Quietly
<1>11. Minds(s, t, {})
  BY <1>8, <1>9, <1>10 DEF Minds, SameCalls
<1>12. SameMail(s, t)
  BY <1>5, <1>9, <1>10 DEF SameMail
<1> QED
  BY <1>11, <1>12

\* Nor are the processes in RWMBX overlooked for being told.
LEMMA ResourceMinds ==
  ASSUME NEW s, Sound(s), NEW t, t = MailboxResourceAvailable(s)
  PROVE  SameMail(s, t) /\ Minds(s, t, {})
<1> DEFINE ps == {p \in Present(s) : Waits(s, p) /\ s.proc[p].waiting.kind = "room"}
<1>1. t = ReportTo(s, ps) /\ ps \in SUBSET Processes
  BY DEF MailboxResourceAvailable, Present
<1> HIDE DEF ps
<1>2. SameMail(s, t) /\ SameCalls(s, t) /\ Overlooked(t) \subseteq Overlooked(s) \ ps
  BY <1>1, ReportToMinds
<1> QED
  BY <1>2 DEF Minds

\* What is shared, but clusters and requests, may change unnoticed.
LEMMA SharedMinds ==
  ASSUME NEW s, Sound(s), NEW t, t.proc = s.proc, t.clusters = s.clusters, t.io = s.io
  PROVE  Minds(s, t, {}) /\ (AwaitFits(s) => AwaitFits(t))
<1>1. SameCalls(s, t) /\ \A p \in Present(s) : SameWaiter(s.proc[p], t.proc[p])
  BY DEF SameCalls, SameWaiter
<1>2. Present(t) = Present(s) /\ \A p : Subprocesses(t, p) = Subprocesses(s, p)
  BY DEF Present, Subprocesses
<1>3. Minds(s, t, {})
  BY <1>1, <1>2, StepMinds
<1>4. ASSUME AwaitFits(s)
      PROVE  AwaitFits(t)
  <2>1. \A p \in Processes, r \in Requests : Calling(t, p, r) <=> Calling(s, p, r)
    BY DEF Calling
  <2> SUFFICES ASSUME NEW p \in Processes, NEW r \in Requests
               PROVE  /\ Calling(t, p, r) => t.io[r] # None /\ t.io[r].owner = p
                      /\ t.proc[p].waiting = [kind |-> "request", request |-> r] => Calling(t, p, r)
    BY Zenon DEF AwaitFits
  <2> QED
    BY <1>4, <2>1 DEF AwaitFits
<1> QED
  BY <1>3, <1>4

\* When every waiter is looked at, none is overlooked.
LEMMA NoneOverlooked ==
  ASSUME NEW s, Sound(s), NEW t, t = WakeWaiters(s) \/ t = RetryWaiters(s)
  PROVE  SameMail(s, t) /\ SameCalls(s, t) /\ Overlooked(t) = {}
<1>1. Present(s) \in SUBSET Processes /\ s \in States
  BY DEF Present, Sound
<1>2. CASE t = WakeWaiters(s) /\ s.waiters = 0
  <2>1. t = s
    BY <1>2 DEF WakeWaiters
  <2>2. Cardinality(Waiters(s)) = 0 /\ IsFiniteSet(Waiters(s))
    BY <1>2, WaitersFinite DEF Sound, Counted
  <2>3. Waiters(s) = {}
    BY <2>2, FS_EmptySet
  <2>4. Overlooked(s) = {}
    BY <2>3 DEF Overlooked, Waiters, Present
  <2> QED
    BY <2>1, <2>4 DEF SameMail, SameCalls
<1>3. CASE t = WakeWaiters(s) /\ s.waiters # 0
  <2>1. t = ReportTo(s, Present(s))
    BY <1>3 DEF WakeWaiters
  <2>2. SameMail(s, t) /\ SameCalls(s, t) /\ Overlooked(t) \subseteq Overlooked(s) \ Present(s)
    BY <1>1, <2>1, ReportToMinds
  <2>3. Overlooked(s) \subseteq Present(s)
    BY DEF Overlooked
  <2> QED
    BY <2>2, <2>3
<1>4. CASE t = RetryWaiters(s)
  <2> DEFINE ps == Reached(s, Present(s))
  <2>1. t = EndWaits(s, ps)
    BY <1>4 DEF RetryWaiters
  <2>2. ps = {p \in Present(s) : Waits(s, p) /\ ~s.proc[p].suspended}
    BY DEF Reached
  <2>3. Quietly(s, t)
    BY <1>4, RetryWaitersQuiet
  <2>4. Present(t) = Present(s)
    BY <2>3, QuietPresent DEF Quietly
  <2> HIDE DEF ps
  <2>5. /\ SameMail(s, t)
        /\ \A p \in Processes :
             IF p \in ps THEN /\ t.proc[p].waiting = None /\ t.proc[p].calls = s.proc[p].calls
                              /\ t.proc[p].suspended = s.proc[p].suspended
             ELSE t.proc[p] = s.proc[p]
    BY <1>1, <2>1, EndWaitsIs
  <2>6. Overlooked(t) = {}
    <3> SUFFICES ASSUME NEW p \in Overlooked(t) PROVE FALSE
      OBVIOUS
    <3>1. p \in Present(s) /\ p \in Processes /\ t.proc[p].waiting # None /\ ~t.proc[p].suspended
      BY <2>4 DEF Overlooked, Waits, Present
    <3>2. p \notin ps /\ t.proc[p] = s.proc[p]
      BY <2>5, <3>1
    <3> QED
      BY <2>2, <3>1, <3>2 DEF Waits
  <2>7. SameCalls(s, t)
    BY <2>5 DEF SameCalls
  <2> QED
    BY <2>5, <2>6, <2>7
<1> QED
  BY <1>2, <1>3, <1>4

-----------------------------------------------------------------------------
(* Steps that overlook nobody.                                                *)

Gently(s, t) == Quietly(s, t) /\ Minds(s, t, {})

\* One after another, too.
LEMMA GentlyTransitive ==
  ASSUME NEW s, NEW t, NEW u, Gently(s, t), Gently(t, u)
  PROVE  Gently(s, u)
  BY QuietlyTransitive DEF Gently, Minds, SameCalls

\* Who waits in a $QIOW goes on doing so.
LEMMA GentlyAwaits ==
  ASSUME NEW s, AwaitFits(s), NEW t, Gently(s, t)
  PROVE  AwaitFits(t)
  BY AwaitKept DEF Gently, Quietly, Minds

\* The mailbox and what it has taken, changed in what they name of the requests made.
LEMMA MailGently ==
  ASSUME NEW s, Sound(s), NEW t \in States,
         t.proc = s.proc, t.memory = s.memory, t.clusters = s.clusters, t.waiters = s.waiters, t.io = s.io,
         t.attention = s.attention, ToSet(t.mailbox.readers) \subseteq Made(s),
         \A m \in ToSet(t.mailbox.messages) : m.writer = None \/ m.writer \in Made(s)
  PROVE  Gently(s, t)
  BY MailboxQuiet, SharedMinds DEF Gently

\* The readers changed.
LEMMA ReadersSet ==
  ASSUME NEW s, Sound(s), NEW x \in Seq(Requests), ToSet(x) \subseteq Made(s),
         NEW t, t = [s EXCEPT !.mailbox.readers = x]
  PROVE  /\ Gently(s, t) /\ t.io = s.io /\ t.owed = s.owed
         /\ t.mailbox.readers = x /\ t.mailbox.messages = s.mailbox.messages
<1> DEFINE y == [s.mailbox EXCEPT !.readers = x]
<1>1. s \in States /\ s.mailbox \in [readers : Seq(Requests), messages : Seq(Message)]
  BY DEF Sound, States
<1>2. t = [s EXCEPT !.mailbox = y]
  BY <1>1
<1>3. y \in [readers : Seq(Requests), messages : Seq(Message)] /\ y.readers = x /\ y.messages = s.mailbox.messages
  BY <1>1
<1> HIDE DEF y
<1>4. /\ t \in States /\ t.proc = s.proc /\ t.memory = s.memory /\ t.clusters = s.clusters
      /\ t.waiters = s.waiters /\ t.io = s.io /\ t.attention = s.attention /\ t.mailbox = y
      /\ t.owed = s.owed
  BY <1>1, <1>2, <1>3, MailboxSet
<1>5. \A m \in ToSet(t.mailbox.messages) : m.writer = None \/ m.writer \in Made(s)
  BY <1>3, <1>4, MailboxHolds
<1> QED
  BY <1>3, <1>4, <1>5, MailGently

\* The messages changed.
LEMMA MessagesSet ==
  ASSUME NEW s, Sound(s), NEW x \in Seq(Message), \A m \in ToSet(x) : m.writer = None \/ m.writer \in Made(s),
         NEW t, t = [s EXCEPT !.mailbox.messages = x]
  PROVE  /\ Gently(s, t) /\ t.io = s.io /\ t.owed = s.owed
         /\ t.mailbox.messages = x /\ t.mailbox.readers = s.mailbox.readers
<1> DEFINE y == [s.mailbox EXCEPT !.messages = x]
<1>1. s \in States /\ s.mailbox \in [readers : Seq(Requests), messages : Seq(Message)]
  BY DEF Sound, States
<1>2. t = [s EXCEPT !.mailbox = y]
  BY <1>1
<1>3. y \in [readers : Seq(Requests), messages : Seq(Message)] /\ y.messages = x /\ y.readers = s.mailbox.readers
  BY <1>1
<1> HIDE DEF y
<1>4. /\ t \in States /\ t.proc = s.proc /\ t.memory = s.memory /\ t.clusters = s.clusters
      /\ t.waiters = s.waiters /\ t.io = s.io /\ t.attention = s.attention /\ t.mailbox = y
      /\ t.owed = s.owed
  BY <1>1, <1>2, <1>3, MailboxSet
<1>5. ToSet(t.mailbox.readers) \subseteq Made(s)
  BY <1>3, <1>4, MailboxHolds
<1> QED
  BY <1>3, <1>4, <1>5, MailGently

\* What is owed changed.
LEMMA OwedGently ==
  ASSUME NEW s, Sound(s), NEW x \in Seq(Message), NEW t, t = [s EXCEPT !.owed = x]
  PROVE  Gently(s, t) /\ t.io = s.io /\ t.owed = x /\ t.mailbox = s.mailbox
<1>1. /\ t \in States /\ t.proc = s.proc /\ t.memory = s.memory /\ t.clusters = s.clusters
      /\ t.waiters = s.waiters /\ t.io = s.io /\ t.attention = s.attention /\ t.mailbox = s.mailbox
      /\ t.owed = x
  BY OwedSet DEF Sound
<1> QED
  BY <1>1, MailboxHolds, MailGently

\* A request completed, attention ASTs delivered, and room in the mailbox reported.
LEMMA CompleteIOGently ==
  ASSUME NEW s, Sound(s), AwaitFits(s), NEW r \in Made(s), NEW t, t = CompleteIO(s, r)
  PROVE  /\ Gently(s, t) /\ t.mailbox = s.mailbox /\ t.owed = s.owed
         /\ t.io[r] # None /\ t.io[r].done /\ \A q \in Requests \ {r} : t.io[q] = s.io[q]
  BY CompleteIOQuiet, CompleteIOMinds DEF Gently

\* Attention ASTs are delivered gently.
LEMMA DeliverAttentionGently ==
  ASSUME NEW s, Sound(s), NEW kind \in Attentions, NEW t, t = DeliverAttention(s, kind)
  PROVE  Gently(s, t) /\ SameMail(s, t)
  BY DeliverAttentionQuiet, DeliverAttentionMinds DEF Gently

\* So is the news that there is room.
LEMMA ResourceGently ==
  ASSUME NEW s, Sound(s), NEW t, t = MailboxResourceAvailable(s)
  PROVE  Gently(s, t) /\ SameMail(s, t)
  BY ResourceQuiet, ResourceMinds DEF Gently

-----------------------------------------------------------------------------
(* The mailbox.                                                               *)

\* The mailbox fits as long as it, its requests and what is owed stay the same.
LEMMA SameMailFits ==
  ASSUME NEW s, NEW R, MailFits(s, R), NEW t, SameMail(s, t)
  PROVE  MailFits(t, R)
  BY DEF MailFits, SameMail, LiveMessages, LiveReaders, Pending, InMail

\* Which of its messages and readers are live says what the lists less the others are.
LEMMA LiveSame ==
  ASSUME NEW s, Sound(s), NEW t, t.mailbox = s.mailbox,
         \A r \in InMail(s) : t.io[r].done <=> s.io[r].done
  PROVE  LiveMessages(t) = LiveMessages(s) /\ LiveReaders(t) = LiveReaders(s)
<1> DEFINE q == s.mailbox.messages
           S == {m \in ToSet(q) : m.writer = None \/ ~s.io[m.writer].done}
           T == {m \in ToSet(q) : m.writer = None \/ ~t.io[m.writer].done}
<1>1. \A m \in ToSet(q) : m.writer = None \/ m.writer \in InMail(s)
  BY DEF InMail
<1>2. S = T
  BY <1>1
<1>3. LiveMessages(t) = Those(q, T) /\ LiveMessages(s) = Those(q, S)
  BY DEF LiveMessages
<1>4. {r \in ToSet(s.mailbox.readers) : ~t.io[r].done} = {r \in ToSet(s.mailbox.readers) : ~s.io[r].done}
  BY DEF InMail
<1>5. LiveReaders(t) = LiveReaders(s)
  BY <1>4 DEF LiveReaders
<1> QED
  BY <1>2, <1>3, <1>5

\* A request that is not in the mailbox completes.
LEMMA MailDone ==
  ASSUME NEW s, Sound(s), NEW R, MailFits(s, R), NEW r \in R, NEW t,
         t.mailbox = s.mailbox, t.owed = s.owed, t.io[r].done, \A q \in Requests \ {r} : t.io[q] = s.io[q]
  PROVE  MailFits(t, R \ {r})
<1>1. r \notin InMail(s)
  BY DEF MailFits
<1>2. InMail(s) \subseteq Requests /\ InMail(t) = InMail(s)
  BY DEF Sound, MailMade, Made, InMail
<1>3. LiveMessages(t) = LiveMessages(s) /\ LiveReaders(t) = LiveReaders(s)
  BY <1>1, <1>2, LiveSame
<1>4. Pending(t) \ (R \ {r}) \subseteq Pending(s) \ R
  BY DEF Pending
<1> QED
  BY <1>2, <1>3, <1>4 DEF MailFits

\* A request made is not in the mailbox.
LEMMA MailMadeFits ==
  ASSUME NEW s, Sound(s), MailFits(s, {}), NEW r \in Requests, s.io[r] = None, NEW t,
         t.mailbox = s.mailbox, t.owed = s.owed, \A q \in Requests \ {r} : t.io[q] = s.io[q]
  PROVE  MailFits(t, {r})
<1>1. InMail(s) \subseteq Requests \ {r} /\ InMail(t) = InMail(s)
  BY DEF Sound, MailMade, Made, InMail
<1>2. LiveMessages(t) = LiveMessages(s) /\ LiveReaders(t) = LiveReaders(s)
  BY <1>1, LiveSame
<1>3. Pending(t) \ {r} \subseteq Pending(s)
  BY DEF Pending
<1> QED
  BY <1>1, <1>2, <1>3 DEF MailFits

\* Forgetting the requests nobody awaits any more touches none in the mailbox.
LEMMA CollectedMail ==
  ASSUME NEW s, Sound(s), MailFits(s, {}), AwaitFits(s), NEW t, t = Collected(s)
  PROVE  MailFits(t, {}) /\ AwaitFits(t) /\ Minds(s, t, {})
<1> DEFINE a == [r \in Requests |->
                   IF s.io[r] = None \/ ~s.io[r].done \/ InMailbox(s, r) \/ Awaited(s, r) THEN s.io[r] ELSE None]
<1>1. s \in States
  BY DEF Sound
<1>2. \A r \in Requests :
        /\ s.io[r] = None \/ ~s.io[r].done \/ InMailbox(s, r) \/ Awaited(s, r) => a[r] = s.io[r]
        /\ a[r] # None => a[r] = s.io[r]
  OBVIOUS
<1>3. t = [s EXCEPT !.io = a]
  BY <1>1 DEF Collected, States
<1> HIDE DEF a
<1>4. /\ t.proc = s.proc /\ t.clusters = s.clusters /\ t.mailbox = s.mailbox /\ t.owed = s.owed /\ t.io = a
  BY <1>1, <1>3 DEF States
<1>5. \A r \in InMail(s) : r \in Requests /\ t.io[r] = s.io[r]
  <2>1. InMail(s) \subseteq Requests
    BY DEF Sound, MailMade, Made
  <2>2. \A r \in InMail(s) : InMailbox(s, r)
    BY DEF InMail, InMailbox
  <2> QED
    BY <1>2, <1>4, <2>1, <2>2
<1>6. MailFits(t, {})
  <2>1. LiveMessages(t) = LiveMessages(s) /\ LiveReaders(t) = LiveReaders(s)
    BY <1>4, <1>5, LiveSame
  <2>2. Pending(t) \subseteq Pending(s)
    BY <1>2, <1>4 DEF Pending
  <2> QED
    BY <1>4, <2>1, <2>2 DEF MailFits
<1>7. ASSUME NEW p \in Processes, NEW r \in Requests
      PROVE  /\ Calling(t, p, r) <=> Calling(s, p, r)
             /\ Calling(s, p, r) => t.io[r] = s.io[r]
  <2>1. Calling(s, p, r) => Awaited(s, r)
    BY DEF Calling, Awaited
  <2> QED
    BY <1>2, <1>4, <2>1 DEF Calling
<1>8. AwaitFits(t)
  <2> SUFFICES ASSUME NEW p \in Processes, NEW r \in Requests
               PROVE  /\ Calling(t, p, r) => t.io[r] # None /\ t.io[r].owner = p
                      /\ t.proc[p].waiting = [kind |-> "request", request |-> r] => Calling(t, p, r)
    BY Zenon DEF AwaitFits
  <2>1. t.proc[p] = s.proc[p]
    BY <1>4
  <2> QED
    BY <1>7, <2>1 DEF AwaitFits
<1>9. Minds(s, t, {})
  <2>1. SameCalls(s, t) /\ \A p \in Present(s) : SameWaiter(s.proc[p], t.proc[p])
    BY <1>4 DEF SameCalls, SameWaiter
  <2>2. Present(t) = Present(s) /\ \A p : Subprocesses(t, p) = Subprocesses(s, p)
    BY <1>4 DEF Present, Subprocesses
  <2>3. \A p \in Present(s) : \A r \in Requests :
          s.proc[p].waiting = [kind |-> "request", request |-> r] => t.io[r] = s.io[r]
    BY <1>7 DEF AwaitFits, Present
  <2> QED
    BY <1>4, <2>1, <2>2, <2>3, StepMinds
<1> QED
  BY <1>6, <1>8, <1>9

\* Nothing completed is in the mailbox's lists.
Clean(s) ==
  /\ s.mailbox.messages = s.owed /\ (s.mailbox.readers = <<>> \/ s.owed = <<>>)
  /\ ToSet(s.mailbox.readers) \subseteq Pending(s)
  /\ \A m \in ToSet(s.owed) : m.writer = None \/ m.writer \in Pending(s)

\* What is live is all there is in a clean list.
LEMMA CleanLive ==
  ASSUME NEW s, Sound(s),
         \A m \in ToSet(s.mailbox.messages) : m.writer = None \/ ~s.io[m.writer].done
  PROVE  LiveMessages(s) = s.mailbox.messages
<1>1. s.mailbox.messages \in Seq(Message)
  BY MailboxHolds
<1> DEFINE S == {m \in ToSet(s.mailbox.messages) : m.writer = None \/ ~s.io[m.writer].done}
<1>2. ToSet(s.mailbox.messages) \subseteq S
  OBVIOUS
<1>3. LiveMessages(s) = Those(s.mailbox.messages, S)
  BY DEF LiveMessages
<1> HIDE DEF S
<1> QED
  BY <1>1, <1>2, <1>3, ThoseAll

\* There are no live readers where there are none.
LEMMA NoReaders ==
  ASSUME NEW s, Sound(s), s.mailbox.readers = <<>>
  PROVE  LiveReaders(s) = <<>>
<1>1. LiveReaders(s) \in Seq(Requests) /\ ToSet(LiveReaders(s)) \subseteq ToSet(s.mailbox.readers)
  BY LiveAre
<1>2. ToSet(s.mailbox.readers) = {}
  BY EmptySeq DEF ToSet
<1> QED
  BY <1>1, <1>2, NoElements

\* prune leaves in the mailbox what is owed, and who waits for it.
LEMMA PrunedMail ==
  ASSUME NEW s, Sound(s), NEW R, MailFits(s, R), NEW t, t = Pruned(s)
  PROVE  MailFits(t, R) /\ Clean(t) /\ t.owed = s.owed /\ t.io = s.io /\ Gently(s, t)
<1>0. /\ Quietly(s, t) /\ t.io = s.io /\ t.proc = s.proc
      /\ t.mailbox = [readers |-> LiveReaders(s), messages |-> LiveMessages(s)]
  BY PrunedQuiet
<1>1. /\ Quietly(s, t) /\ t.io = s.io /\ t.proc = s.proc
      /\ t.mailbox.readers = LiveReaders(s) /\ t.mailbox.messages = LiveMessages(s)
  BY <1>0
<1>2. s \in States /\ s.mailbox.readers \in Seq(Requests) /\ s.owed \in Seq(Message)
  BY MailboxHolds
<1>3. t.owed = s.owed /\ t.clusters = s.clusters
  BY <1>2 DEF Pruned, States
<1>4. Gently(s, t)
  BY <1>1, <1>3, SharedMinds DEF Gently
<1>5. /\ LiveReaders(s) = Those(s.mailbox.readers, {r \in ToSet(s.mailbox.readers) : ~s.io[r].done})
      /\ ToSet(LiveReaders(s)) = {r \in ToSet(s.mailbox.readers) : ~s.io[r].done}
  <2> DEFINE S == {r \in ToSet(s.mailbox.readers) : ~s.io[r].done}
  <2>1. LiveReaders(s) = Those(s.mailbox.readers, S) /\ S \subseteq ToSet(s.mailbox.readers)
    BY DEF LiveReaders
  <2> HIDE DEF S
  <2>2. ToSet(LiveReaders(s)) = ToSet(s.mailbox.readers) \cap S
    BY <1>2, <2>1, ThoseAre
  <2>3. LiveReaders(s) = Those(s.mailbox.readers, S) /\ ToSet(LiveReaders(s)) = S
    BY <2>1, <2>2
  <2> QED
    BY <2>3 DEF S
<1>6. \A m \in ToSet(s.owed) : m.writer = None \/ ~s.io[m.writer].done
  <2> DEFINE S == {m \in ToSet(s.mailbox.messages) : m.writer = None \/ ~s.io[m.writer].done}
  <2>1. s.owed = Those(s.mailbox.messages, S) /\ s.mailbox.messages \in Seq(Message)
    BY MailboxHolds DEF MailFits, LiveMessages
  <2>2. \A m \in S : m.writer = None \/ ~s.io[m.writer].done
    OBVIOUS
  <2> HIDE DEF S
  <2> QED
    BY <2>1, <2>2, ThoseAre
<1>7. s.owed = t.mailbox.messages /\ t.mailbox.readers = LiveReaders(s)
  BY <1>1 DEF MailFits
<1>8. Clean(t)
  <2>1. \A r \in ToSet(t.mailbox.readers) : r \in Pending(t)
    BY <1>1, <1>5, MailboxHolds DEF Pending, Made
  <2>2. \A m \in ToSet(t.owed) : m.writer = None \/ m.writer \in Pending(t)
    <3>1. \A m \in ToSet(t.owed) : m.writer = None \/ m.writer \in Made(t)
      BY <1>1, <1>3, <1>7, MailboxHolds DEF Quietly
    <3> QED
      BY <1>1, <1>3, <1>6, <3>1 DEF Pending, Made
  <2> QED
    BY <1>3, <1>7, <2>1, <2>2 DEF Clean, MailFits
<1>9. LiveMessages(t) = t.owed
  <2>1. \A m \in ToSet(t.mailbox.messages) : m.writer = None \/ ~t.io[m.writer].done
    BY <1>1, <1>6, <1>7
  <2> QED
    BY <1>1, <1>3, <1>7, <2>1, CleanLive DEF Quietly
<1>10. LiveReaders(t) = <<>> \/ t.owed = <<>>
  BY <1>1, <1>3, <1>7, NoReaders DEF MailFits, Quietly
<1>11. Apart(t.mailbox.readers, Itself) /\ Apart(t.owed, SameWriter)
  BY <1>2, <1>3, <1>5, <1>7, ThoseApart DEF MailFits
<1>12. ASSUME NEW r \in Pending(t) \ R
       PROVE  r \in ToSet(t.mailbox.readers) <=> r \notin Writers(t.owed)
  <2>1. r \in Pending(s) \ R /\ ~s.io[r].done
    BY <1>1 DEF Pending
  <2> QED
    BY <1>3, <1>5, <1>7, <2>1 DEF MailFits
<1>13. R \cap InMail(t) = {}
  <2>1. InMail(t) \subseteq InMail(s)
    BY <1>1, LiveAre DEF InMail
  <2> QED
    BY <2>1 DEF MailFits
<1> QED
  BY <1>1, <1>3, <1>4, <1>8, <1>9, <1>10, <1>11, <1>12, <1>13 DEF MailFits

\* The first reader gets the message just written: it leaves the mailbox, and nothing is owed.
LEMMA FirstReaderLeaves ==
  ASSUME NEW t, Sound(t), NEW R, MailFits(t, R), Clean(t), t.mailbox.readers # <<>>,
         NEW h, h = Head(t.mailbox.readers), NEW a, Sound(a),
         a.mailbox.readers = Tail(t.mailbox.readers), a.mailbox.messages = <<>>, a.owed = <<>>,
         a.io = t.io
  PROVE  MailFits(a, R \cup {h}) /\ h \in Pending(t) \ R
<1>1. t.owed = <<>> /\ t.mailbox.readers \in Seq(Requests)
  BY MailboxHolds DEF Clean
<1>2. /\ Apart(a.mailbox.readers, Itself) /\ ToSet(t.mailbox.readers) = ToSet(a.mailbox.readers) \cup {h}
      /\ \A r \in ToSet(a.mailbox.readers) : <<h, r>> \notin Itself
  BY <1>1, TailApart DEF MailFits
<1>3. h \notin ToSet(a.mailbox.readers) /\ h \in Pending(t)
  <2>1. ToSet(t.mailbox.readers) \subseteq Requests
    BY <1>1 DEF ToSet
  <2> QED
    BY <1>2, <2>1 DEF Itself, Clean
<1>4. ToSet(a.mailbox.messages) = {} /\ ToSet(a.owed) = {}
  BY EmptySeq DEF ToSet
<1>5. LiveMessages(a) = a.owed
  BY <1>4, CleanLive
<1>6. Apart(a.owed, SameWriter)
  BY DEF Apart
<1>7. InMail(a) \subseteq InMail(t) \ {h}
  BY <1>2, <1>3, <1>4 DEF InMail
<1>8. \A r \in Pending(a) \ (R \cup {h}) : r \in ToSet(a.mailbox.readers) <=> r \notin Writers(a.owed)
  <2>1. Writers(a.owed) = {} /\ Writers(t.owed) = {}
    BY <1>1, <1>4 DEF Writers
  <2> QED
    BY <1>2, <2>1 DEF MailFits, Pending
<1>9. h \notin R
  BY <1>2 DEF MailFits, InMail
<1> QED
  BY <1>2, <1>3, <1>5, <1>6, <1>7, <1>8, <1>9 DEF MailFits

\* The oldest message is got: it leaves the mailbox and what is owed, its writer, if that
\* waits, completes.
LEMMA FirstMessageLeaves ==
  ASSUME NEW t, Sound(t), NEW R, MailFits(t, R), Clean(t), t.mailbox.messages # <<>>,
         NEW m, m = Head(t.mailbox.messages), NEW w, Sound(w),
         w.mailbox.readers = t.mailbox.readers, w.mailbox.messages = Tail(t.mailbox.messages),
         w.owed = Tail(t.owed),
         m.writer # None => w.io[m.writer].done,
         \A q \in Requests \ {m.writer} : w.io[q] = t.io[q]
  PROVE  MailFits(w, R)
<1>1. t.owed = t.mailbox.messages /\ t.owed # <<>> /\ t.mailbox.readers = <<>> /\ t.owed \in Seq(Message)
  BY MailboxHolds DEF Clean
<1>2. /\ Apart(w.owed, SameWriter) /\ ToSet(t.owed) = ToSet(w.owed) \cup {m}
      /\ \A e \in ToSet(w.owed) : <<m, e>> \notin SameWriter
  BY <1>1, TailApart DEF MailFits
<1>3. ToSet(t.owed) \subseteq Message /\ \A e \in ToSet(w.owed) : e.writer # None => e.writer # m.writer
  <2>1. ToSet(t.owed) \subseteq Message
    BY <1>1 DEF ToSet
  <2> QED
    BY <1>2, <2>1 DEF SameWriter
<1>4. \A e \in ToSet(w.mailbox.messages) : e.writer = None \/ ~w.io[e.writer].done
  <2>1. \A e \in ToSet(w.owed) : e.writer = None \/ (e.writer \in Requests /\ e.writer # m.writer /\ ~t.io[e.writer].done)
    BY <1>2, <1>3 DEF Clean, Pending
  <2> QED
    BY <1>1, <2>1
<1>5. LiveMessages(w) = w.owed
  BY <1>1, <1>4, CleanLive
<1>6. w.mailbox.readers = <<>> /\ LiveReaders(w) = <<>> /\ ToSet(w.mailbox.readers) = {} /\ ToSet(t.mailbox.readers) = {}
  BY <1>1, NoReaders, EmptySeq DEF ToSet
<1>7. Apart(w.mailbox.readers, Itself)
  BY <1>6 DEF Apart
<1>8. InMail(w) \subseteq InMail(t)
  BY <1>1, <1>2 DEF InMail
<1>9. ASSUME NEW r \in Pending(w) \ R
      PROVE  r \in Writers(w.owed)
  <2>1. r \in Requests /\ r # m.writer
    BY ProcessEventsAssumption DEF Pending
  <2>2. r \in Pending(t) \ R
    BY <2>1 DEF Pending
  <2>3. r \in Writers(t.owed)
    BY <1>6, <2>2 DEF MailFits
  <2> QED
    BY <1>2, <2>1, <2>3 DEF Writers
<1> QED
  BY <1>2, <1>5, <1>6, <1>7, <1>8, <1>9 DEF MailFits

\* A reader waits its turn.
LEMMA ReaderJoins ==
  ASSUME NEW t, Sound(t), NEW r \in Pending(t), MailFits(t, {r}), Clean(t), t.mailbox.messages = <<>>,
         NEW a, Sound(a), a.mailbox.readers = Append(t.mailbox.readers, r), a.mailbox.messages = <<>>,
         a.owed = t.owed, a.io = t.io
  PROVE  MailFits(a, {})
<1>1. t.owed = <<>> /\ t.mailbox.readers \in Seq(Requests) /\ r \in Requests
  BY MailboxHolds DEF Clean, Pending
<1>2. r \notin ToSet(t.mailbox.readers)
  BY DEF MailFits, InMail
<1>3. ToSet(a.mailbox.readers) = ToSet(t.mailbox.readers) \cup {r}
  BY <1>1, MembersOfAppend
<1>4. Apart(a.mailbox.readers, Itself)
  <2> DEFINE q == t.mailbox.readers
             b == Append(q, r)
  <2>1. /\ DOMAIN b = 1 .. Len(q) + 1 /\ b[Len(q) + 1] = r /\ DOMAIN q = 1 .. Len(q) /\ Len(q) \in Nat
        /\ \A i \in 1 .. Len(q) : b[i] = q[i]
    BY <1>1, AppendProperties, LenProperties
  <2>2. Apart(q, Itself) /\ \A i \in DOMAIN q : q[i] # r
    BY <1>2 DEF MailFits, ToSet
  <2>3. a.mailbox.readers = b
    OBVIOUS
  <2> HIDE DEF b, q
  <2>4. \A i \in DOMAIN b : i \in DOMAIN q \/ i = Len(q) + 1
    BY <2>1
  <2>5. Apart(b, Itself)
    BY <2>1, <2>2, <2>4 DEF Apart, Itself
  <2> QED
    BY <2>3, <2>5
<1>5. ToSet(a.mailbox.messages) = {} /\ Writers(a.owed) = {}
  BY <1>1, EmptySeq DEF ToSet, Writers
<1>6. LiveMessages(a) = a.owed
  BY <1>1, <1>5, CleanLive
<1>7. \A q \in Pending(a) : q \in ToSet(a.mailbox.readers)
  BY <1>1, <1>3, <1>5 DEF MailFits, Pending
<1> QED
  BY <1>1, <1>4, <1>5, <1>6, <1>7 DEF MailFits, Apart

\* A message is left, its writer waiting with it or not.
LEMMA MessageJoins ==
  ASSUME NEW t, Sound(t), NEW r \in Pending(t), MailFits(t, {r}), Clean(t), t.mailbox.readers = <<>>,
         NEW m \in Message, m.writer \in {None, r},
         NEW a, Sound(a), a.mailbox.readers = <<>>, a.mailbox.messages = Append(t.mailbox.messages, m),
         a.owed = Append(t.owed, m), a.io = t.io
  PROVE  MailFits(a, {r} \ {m.writer})
<1>1. t.owed = t.mailbox.messages /\ t.owed \in Seq(Message) /\ r \in Requests /\ a.owed = a.mailbox.messages
  BY MailboxHolds DEF Clean, Pending
<1>2. ToSet(a.owed) = ToSet(t.owed) \cup {m}
  BY <1>1, MembersOfAppend
<1>3. \A e \in ToSet(t.owed) : e.writer # r
  BY <1>1, ProcessEventsAssumption DEF MailFits, InMail
<1>4. Apart(a.owed, SameWriter)
  <2> DEFINE q == t.owed
             b == Append(q, m)
  <2>1. /\ DOMAIN b = 1 .. Len(q) + 1 /\ b[Len(q) + 1] = m /\ DOMAIN q = 1 .. Len(q) /\ Len(q) \in Nat
        /\ \A i \in 1 .. Len(q) : b[i] = q[i]
    BY <1>1, AppendProperties, LenProperties
  <2>2. /\ Apart(q, SameWriter)
        /\ \A i \in DOMAIN q : <<q[i], m>> \notin SameWriter /\ <<m, q[i]>> \notin SameWriter
    BY <1>3 DEF MailFits, ToSet, SameWriter
  <2>3. a.owed = b
    OBVIOUS
  <2> HIDE DEF b, q
  <2>4. \A i \in DOMAIN b : i \in DOMAIN q \/ i = Len(q) + 1
    BY <2>1
  <2>5. Apart(b, SameWriter)
    BY <2>1, <2>2, <2>4 DEF Apart
  <2> QED
    BY <2>3, <2>5
<1>5. \A e \in ToSet(a.mailbox.messages) : e.writer = None \/ ~a.io[e.writer].done
  BY <1>1, <1>2 DEF Clean, Pending
<1>6. LiveMessages(a) = a.owed
  BY <1>1, <1>5, CleanLive
<1>7. ToSet(a.mailbox.readers) = {} /\ ToSet(t.mailbox.readers) = {} /\ LiveReaders(a) = <<>>
  BY NoReaders, EmptySeq DEF ToSet
<1>8. Writers(a.owed) = Writers(t.owed) \cup ({m.writer} \ {None})
  BY <1>2 DEF Writers
<1>9. \A q \in Pending(a) \ ({r} \ {m.writer}) : q \in Writers(a.owed)
  <2>1. Pending(a) = Pending(t)
    BY DEF Pending
  <2>2. \A q \in Pending(t) \ {r} : q \in Writers(t.owed)
    BY <1>7 DEF MailFits
  <2>3. r # None
    BY <1>1, ProcessEventsAssumption
  <2> QED
    BY <1>8, <2>1, <2>2, <2>3
<1>10. ({r} \ {m.writer}) \cap InMail(a) = {}
  <2>1. InMail(a) \subseteq InMail(t) \cup {m.writer}
    BY <1>1, <1>2, <1>7 DEF InMail
  <2> QED
    BY <2>1 DEF MailFits
<1> QED
  BY <1>4, <1>6, <1>7, <1>9, <1>10 DEF MailFits, Apart

\* A read that gets a message: that is no longer owed, and the read completes.
LEMMA ReceiveIs ==
  ASSUME NEW s, Sound(s), AwaitFits(s), NEW r \in Pending(s), NEW u, u = Receive(s, r)
  PROVE  \E w : /\ Gently(s, w) /\ w.io = s.io /\ w.mailbox = s.mailbox
                /\ w.owed = (IF s.owed = <<>> THEN s.owed ELSE Tail(s.owed))
                /\ u = CompleteIO(w, r)
<1> DEFINE o == IF s.owed = <<>> THEN s.owed ELSE Tail(s.owed)
           w == [s EXCEPT !.owed = o]
<1>1. u = CompleteIO(w, r)
  BY DEF Receive, Pending
<1>2. o \in Seq(Message)
  BY MailboxHolds, MembersOfTail
<1> HIDE DEF o
<1>3. Gently(s, w) /\ w.io = s.io /\ w.owed = o /\ w.mailbox = s.mailbox
  BY <1>2, OwedGently
<1> HIDE DEF w
<1> QED
  BY <1>1, <1>3 DEF o

\* A completed request that was in no list of the mailbox's.
LEMMA CompletedMail ==
  ASSUME NEW s, Sound(s), AwaitFits(s), NEW R, MailFits(s, R), NEW r \in Made(s), r \in R,
         NEW t, t = CompleteIO(s, r)
  PROVE  Gently(s, t) /\ MailFits(t, R \ {r})
<1>1. /\ Gently(s, t) /\ t.mailbox = s.mailbox /\ t.owed = s.owed
      /\ t.io[r].done /\ \A q \in Requests \ {r} : t.io[q] = s.io[q]
  BY CompleteIOGently
<1>2. MailFits(t, R \ {r})
  BY <1>1, MailDone
<1> QED
  BY <1>1, <1>2

\* A read gets what is owed first, and otherwise waits its turn or completes with nothing.
LEMMA ReadMailboxMail ==
  ASSUME NEW s, Sound(s), AwaitFits(s), NEW r \in Pending(s), MailFits(s, {r}), NEW now,
         NEW u, u = ReadMailbox(s, now, r)
  PROVE  Gently(s, u) /\ MailFits(u, {})
<1> DEFINE t == Pruned(s)
           m == Head(t.mailbox.messages)
           taken == [t EXCEPT !.mailbox.messages = Tail(t.mailbox.messages)]
<1>1. MailFits(t, {r}) /\ Clean(t) /\ t.owed = s.owed /\ t.io = s.io /\ Gently(s, t)
  BY PrunedMail
<1>2. Sound(t) /\ AwaitFits(t) /\ r \in Pending(t) /\ r \in Made(t)
  BY <1>1, GentlyAwaits DEF Gently, Quietly, Pending, Made
<1>3. CASE t.mailbox.messages # <<>>
  <2> DEFINE a == IF m.writer = None THEN taken ELSE CompleteIO(taken, m.writer)
             b == DeliverAttention(a, "room")
             c == MailboxResourceAvailable(b)
  <2>1. u = Receive(c, r)
    BY <1>3 DEF ReadMailbox
  <2>2. taken = [t EXCEPT !.mailbox.messages = Tail(t.mailbox.messages)]
    OBVIOUS
  <2> HIDE DEF t
  <2>3. /\ t.mailbox.messages \in Seq(Message) /\ Tail(t.mailbox.messages) \in Seq(Message)
        /\ ToSet(Tail(t.mailbox.messages)) \subseteq ToSet(t.mailbox.messages)
        /\ m \in ToSet(t.mailbox.messages)
    BY <1>2, <1>3, MailboxHolds, MembersOfTail
  <2>4. \A e \in ToSet(Tail(t.mailbox.messages)) : e.writer = None \/ e.writer \in Made(t)
    BY <1>2, <2>3, MailboxHolds
  <2>5. /\ Gently(t, taken) /\ taken.io = t.io /\ taken.owed = t.owed
        /\ taken.mailbox.messages = Tail(t.mailbox.messages) /\ taken.mailbox.readers = t.mailbox.readers
    <3> DEFINE x == Tail(t.mailbox.messages)
    <3>1. /\ taken = [t EXCEPT !.mailbox.messages = x] /\ x \in Seq(Message)
          /\ \A e \in ToSet(x) : e.writer = None \/ e.writer \in Made(t)
      BY <2>2, <2>3, <2>4
    <3> DEFINE y == [t EXCEPT !.mailbox.messages = x]
    <3> HIDE DEF x, taken
    <3>2. /\ Gently(t, y) /\ y.io = t.io /\ y.owed = t.owed
          /\ y.mailbox.messages = x /\ y.mailbox.readers = t.mailbox.readers
      BY <1>2, <3>1, MessagesSet
    <3>3. taken = y
      BY <3>1
    <3> HIDE DEF y
    <3> QED
      BY <3>2, <3>3 DEF x
  <2> HIDE DEF taken
  <2>6. m.writer = None \/ m.writer \in Made(taken)
    BY <1>2, <2>3, <2>5, MailboxHolds DEF Made
  <2>7. m.writer # r /\ m \in Message
    <3>1. m.writer = None \/ m.writer \in InMail(t)
      BY <2>3 DEF InMail
    <3>2. r # None
      BY <1>2, ProcessEventsAssumption DEF Pending
    <3>3. m \in Message
      BY <2>3 DEF ToSet
    <3> QED
      BY <1>1, <3>1, <3>2, <3>3 DEF MailFits
  <2> HIDE DEF m
  <2>8. Sound(taken) /\ AwaitFits(taken)
    BY <1>2, <2>5, GentlyAwaits DEF Gently, Quietly
  <2>9. /\ Gently(taken, a) /\ a.mailbox = taken.mailbox /\ a.owed = taken.owed
        /\ (m.writer # None => a.io[m.writer].done)
        /\ \A q \in Requests \ {m.writer} : a.io[q] = taken.io[q]
    <3>1. CASE m.writer = None
      <4>1. a = taken
        BY <3>1
      <4>2. Gently(taken, taken)
        BY <2>8, QuietlyReflexive DEF Gently, Minds, SameCalls
      <4> QED
        BY <3>1, <4>1, <4>2
    <3>2. CASE m.writer # None
      <4>1. a = CompleteIO(taken, m.writer) /\ m.writer \in Made(taken)
        BY <2>6, <3>2
      <4> HIDE DEF a
      <4> QED
        BY <2>8, <4>1, CompleteIOGently
    <3> QED
      BY <3>1, <3>2
  <2> HIDE DEF a
  <2>10. Gently(a, b) /\ SameMail(a, b)
    BY <2>9, DeliverAttentionGently DEF Gently, Quietly, Attentions
  <2> HIDE DEF b
  <2>11. Gently(b, c) /\ SameMail(b, c)
    BY <2>10, ResourceGently DEF Gently, Quietly
  <2> HIDE DEF c
  <2>12. Gently(t, c)
    BY <2>5, <2>9, <2>10, <2>11, GentlyTransitive
  <2>13. Sound(c) /\ AwaitFits(c)
    BY <1>2, <2>12, GentlyAwaits DEF Gently, Quietly
  <2>14. /\ c.mailbox = taken.mailbox /\ c.owed = t.owed /\ (m.writer # None => c.io[m.writer].done)
         /\ \A q \in Requests \ {m.writer} : c.io[q] = t.io[q]
    BY <2>5, <2>9, <2>10, <2>11 DEF SameMail
  <2>15. r \in Pending(c)
    BY <1>2, <2>7, <2>14 DEF Pending
  <2>16. PICK w : /\ Gently(c, w) /\ w.io = c.io /\ w.mailbox = c.mailbox
                  /\ w.owed = (IF c.owed = <<>> THEN c.owed ELSE Tail(c.owed))
                  /\ u = CompleteIO(w, r)
    BY <2>1, <2>13, <2>15, ReceiveIs
  <2>17. Sound(w) /\ AwaitFits(w) /\ r \in Made(w)
    BY <2>13, <2>15, <2>16, GentlyAwaits DEF Gently, Quietly, Pending, Made
  <2>18. w.owed = Tail(t.owed)
    <3>1. t.owed # <<>>
      BY <1>1, <1>3 DEF Clean
    <3> QED
      BY <2>14, <2>16, <3>1
  <2>19. MailFits(w, {r})
    <3>1. /\ w.mailbox.readers = t.mailbox.readers /\ w.mailbox.messages = Tail(t.mailbox.messages)
          /\ (m.writer # None => w.io[m.writer].done) /\ \A q \in Requests \ {m.writer} : w.io[q] = t.io[q]
      BY <2>5, <2>14, <2>16
    <3>2. m = Head(t.mailbox.messages)
      BY DEF m
    <3> QED
      BY <1>1, <1>2, <1>3, <2>17, <2>18, <3>1, <3>2, FirstMessageLeaves
  <2>20. Gently(w, u) /\ MailFits(u, {r} \ {r})
    BY <2>16, <2>17, <2>19, CompletedMail
  <2>21. {r} \ {r} = {}
    OBVIOUS
  <2> QED
    BY <1>1, <2>12, <2>16, <2>20, <2>21, GentlyTransitive
<1>4. CASE t.mailbox.messages = <<>> /\ now
  <2>1. u = CompleteIO(t, r)
    BY <1>4 DEF ReadMailbox
  <2> HIDE DEF t
  <2>2. Gently(t, u) /\ MailFits(u, {r} \ {r})
    BY <1>1, <1>2, <2>1, CompletedMail
  <2>3. {r} \ {r} = {}
    OBVIOUS
  <2> QED
    BY <1>1, <2>2, <2>3, GentlyTransitive
<1>5. CASE t.mailbox.messages = <<>> /\ ~now
  <2> DEFINE x == Append(t.mailbox.readers, r)
             a == [t EXCEPT !.mailbox.readers = x]
             b == DeliverAttention(a, "write")
  <2>1. u = MailboxResourceAvailable(b)
    BY <1>5 DEF ReadMailbox
  <2> HIDE DEF t
  <2>2. x \in Seq(Requests) /\ ToSet(x) \subseteq Made(t)
    <3>1. t.mailbox.readers \in Seq(Requests) /\ r \in Requests /\ ToSet(t.mailbox.readers) \subseteq Made(t)
      BY <1>2, MailboxHolds DEF Made
    <3> QED
      BY <1>2, <3>1, MembersOfAppend
  <2>3. x = Append(t.mailbox.readers, r)
    OBVIOUS
  <2> HIDE DEF x
  <2>4. /\ Gently(t, a) /\ a.io = t.io /\ a.owed = t.owed
        /\ a.mailbox.readers = x /\ a.mailbox.messages = t.mailbox.messages
    BY <1>2, <2>2, ReadersSet
  <2> HIDE DEF a
  <2>5. Sound(a)
    BY <2>4 DEF Gently, Quietly
  <2>6. MailFits(a, {})
    BY <1>1, <1>2, <1>5, <2>3, <2>4, <2>5, ReaderJoins
  <2>7. Gently(a, b) /\ SameMail(a, b)
    BY <2>5, DeliverAttentionGently DEF Attentions
  <2> HIDE DEF b
  <2>8. Gently(b, u) /\ SameMail(b, u)
    BY <2>1, <2>7, ResourceGently DEF Gently, Quietly
  <2>9. MailFits(u, {})
    BY <2>6, <2>7, <2>8, SameMailFits
  <2> QED
    BY <1>1, <2>4, <2>7, <2>8, <2>9, GentlyTransitive
<1> QED
  BY <1>3, <1>4, <1>5

\* A write goes to the first reader, or is left in the mailbox, or completes with nothing done.
LEMMA WriteMailboxMail ==
  ASSUME NEW s, Sound(s), AwaitFits(s), NEW r \in Pending(s), MailFits(s, {r}),
         NEW data \in DOMAIN Size \cup {None}, NEW now \in BOOLEAN, NEW u, u = WriteMailbox(s, data, now, r)
  PROVE  Gently(s, u) /\ MailFits(u, {})
<1> DEFINE t == Pruned(s)
           m == [data |-> data, writer |-> IF now THEN None ELSE r]
           accepted == [t EXCEPT !.owed = Append(t.owed, m)]
<1>1. MailFits(t, {r}) /\ Clean(t) /\ t.owed = s.owed /\ t.io = s.io /\ Gently(s, t)
  BY PrunedMail
<1>2. Sound(t) /\ AwaitFits(t) /\ r \in Pending(t) /\ r \in Made(t) /\ r \in Requests
  BY <1>1, GentlyAwaits DEF Gently, Quietly, Pending, Made
<1>3. m \in Message /\ m.writer \in {None, r} /\ (now => m.writer = None) /\ (~now => m.writer = r)
  BY <1>2 DEF Message
<1> HIDE DEF m
<1>4. Gently(t, accepted) /\ accepted.io = t.io /\ accepted.owed = Append(t.owed, m) /\ accepted.mailbox = t.mailbox
  <2> DEFINE x == Append(t.owed, m)
  <2>1. t.owed \in Seq(Message)
    BY <1>2, MailboxHolds
  <2>2. x \in Seq(Message) /\ accepted = [t EXCEPT !.owed = x]
    BY <1>3, <2>1, MembersOfAppend
  <2> HIDE DEF x, accepted, t
  <2>3. Gently(t, accepted) /\ accepted.io = t.io /\ accepted.owed = x /\ accepted.mailbox = t.mailbox
    BY <1>2, <2>2, OwedGently
  <2> QED
    BY <2>3 DEF x
<1>5. Sound(accepted) /\ AwaitFits(accepted)
  <2> HIDE DEF accepted, t
  <2> QED
    BY <1>2, <1>4, GentlyAwaits DEF Gently, Quietly
<1>6. CASE t.mailbox.readers # <<>>
  <2> DEFINE x == Tail(accepted.mailbox.readers)
             a == [accepted EXCEPT !.mailbox.readers = x]
             h == Head(t.mailbox.readers)
             b == Receive(a, h)
  <2>1. u = CompleteIO(b, r)
    BY <1>6, Zenon DEF WriteMailbox, m
  <2> HIDE DEF accepted, t
  <2>2. x = Tail(t.mailbox.readers) /\ h = Head(t.mailbox.readers)
    BY <1>4
  <2>3. x \in Seq(Requests) /\ ToSet(x) \subseteq Made(accepted)
    <3>1. accepted.mailbox.readers \in Seq(Requests) /\ accepted.mailbox.readers # <<>>
      BY <1>4, <1>5, <1>6, MailboxHolds
    <3> QED
      BY <1>5, <3>1, MailboxHolds, MembersOfTail
  <2> HIDE DEF x, h
  <2>4. /\ Gently(accepted, a) /\ a.io = accepted.io /\ a.owed = accepted.owed
        /\ a.mailbox.readers = x /\ a.mailbox.messages = accepted.mailbox.messages
    BY <1>5, <2>3, ReadersSet
  <2> HIDE DEF a
  <2>5. Sound(a) /\ AwaitFits(a)
    BY <1>5, <2>4, GentlyAwaits DEF Gently, Quietly
  <2>6. t.owed = <<>> /\ t.mailbox.messages = <<>> /\ a.owed = Append(<<>>, m) /\ a.io = t.io
        /\ a.mailbox.messages = <<>> /\ a.mailbox.readers = Tail(t.mailbox.readers)
    BY <1>1, <1>4, <1>6, <2>2, <2>4 DEF Clean
  <2>7. h \in ToSet(t.mailbox.readers)
    BY <1>2, <1>6, <2>2, MailboxHolds, MembersOfTail
  <2>8. h \in Pending(a)
    BY <1>1, <2>6, <2>7 DEF Clean, Pending
  <2>9. PICK w : /\ Gently(a, w) /\ w.io = a.io /\ w.mailbox = a.mailbox
                 /\ w.owed = (IF a.owed = <<>> THEN a.owed ELSE Tail(a.owed))
                 /\ b = CompleteIO(w, h)
    BY <2>5, <2>8, ReceiveIs
  <2>10. w.owed = <<>>
    <3>1. a.owed # <<>> /\ Tail(a.owed) = <<>>
      BY <1>3, <2>6
    <3> QED
      BY <2>9, <3>1
  <2>11. Sound(w) /\ AwaitFits(w)
    BY <2>5, <2>9, GentlyAwaits DEF Gently, Quietly
  <2>12. MailFits(w, {r} \cup {h}) /\ h \in Pending(t) \ {r}
    <3>1. w.mailbox.readers = Tail(t.mailbox.readers) /\ w.mailbox.messages = <<>> /\ w.io = t.io
      BY <2>6, <2>9
    <3>2. MailFits(t, {r}) /\ Clean(t) /\ Sound(t) /\ Sound(w)
      BY <1>1, <1>2, <2>11
    <3>3. h = Head(t.mailbox.readers)
      BY <2>2
    <3> HIDE DEF t
    <3> QED
      BY <1>6, <2>10, <3>1, <3>2, <3>3, FirstReaderLeaves
  <2>13. h \in Made(w) /\ h \in {r} \cup {h}
    BY <2>8, <2>9 DEF Pending, Made
  <2>14. Gently(w, b) /\ MailFits(b, ({r} \cup {h}) \ {h})
    BY <2>9, <2>11, <2>12, <2>13, CompletedMail
  <2>15. ({r} \cup {h}) \ {h} = {r}
    BY <2>12
  <2>16. Gently(accepted, b)
    BY <2>4, <2>9, <2>14, GentlyTransitive
  <2>17. Sound(b) /\ AwaitFits(b) /\ r \in Made(b)
    <3>1. r \in Made(accepted)
      BY <1>2, <1>4 DEF Made
    <3> QED
      BY <1>5, <2>16, <3>1, GentlyAwaits, StaysDone DEF Gently, Quietly
  <2> HIDE DEF b
  <2>18. Gently(b, u) /\ MailFits(u, {r} \ {r})
    BY <2>1, <2>14, <2>15, <2>17, CompletedMail
  <2>19. {r} \ {r} = {}
    OBVIOUS
  <2> QED
    BY <1>1, <1>4, <2>16, <2>18, <2>19, GentlyTransitive
<1>7. CASE t.mailbox.readers = <<>> /\ ~HasRoom(t, data)
  <2>1. u = CompleteIO(t, r)
    BY <1>7 DEF WriteMailbox
  <2> HIDE DEF t
  <2>2. Gently(t, u) /\ MailFits(u, {r} \ {r})
    BY <1>1, <1>2, <2>1, CompletedMail
  <2>3. {r} \ {r} = {}
    OBVIOUS
  <2> QED
    BY <1>1, <2>2, <2>3, GentlyTransitive
<1>8. CASE t.mailbox.readers = <<>> /\ HasRoom(t, data)
  <2> DEFINE x == Append(accepted.mailbox.messages, m)
             a == [accepted EXCEPT !.mailbox.messages = x]
             queued == DeliverAttention(a, "read")
  <2>1. u = IF now THEN CompleteIO(queued, r) ELSE queued
    BY <1>8 DEF WriteMailbox, m
  <2> HIDE DEF accepted, t
  <2>2. x = Append(t.mailbox.messages, m)
    BY <1>4
  <2>3. x \in Seq(Message) /\ \A e \in ToSet(x) : e.writer = None \/ e.writer \in Made(accepted)
    <3>1. /\ accepted.mailbox.messages \in Seq(Message)
          /\ \A e \in ToSet(accepted.mailbox.messages) : e.writer = None \/ e.writer \in Made(accepted)
      BY <1>5, MailboxHolds
    <3>2. m.writer = None \/ m.writer \in Made(accepted)
      BY <1>2, <1>3, <1>4 DEF Made
    <3> QED
      BY <1>3, <3>1, <3>2, MembersOfAppend
  <2> HIDE DEF x
  <2>4. /\ Gently(accepted, a) /\ a.io = accepted.io /\ a.owed = accepted.owed
        /\ a.mailbox.messages = x /\ a.mailbox.readers = accepted.mailbox.readers
    BY <1>5, <2>3, MessagesSet
  <2> HIDE DEF a
  <2>5. Sound(a) /\ AwaitFits(a)
    BY <1>5, <2>4, GentlyAwaits DEF Gently, Quietly
  <2>6. MailFits(a, {r} \ {m.writer})
    <3>1. /\ a.mailbox.readers = <<>> /\ a.mailbox.messages = Append(t.mailbox.messages, m)
          /\ a.owed = Append(t.owed, m) /\ a.io = t.io
      BY <1>4, <1>8, <2>2, <2>4
    <3> QED
      BY <1>1, <1>2, <1>3, <1>8, <2>5, <3>1, MessageJoins
  <2>7. Gently(a, queued) /\ SameMail(a, queued)
    BY <2>5, DeliverAttentionGently DEF Attentions
  <2> HIDE DEF queued
  <2>8. MailFits(queued, {r} \ {m.writer})
    BY <2>6, <2>7, SameMailFits
  <2>9. Gently(s, queued)
    BY <1>1, <1>4, <2>4, <2>7, GentlyTransitive
  <2>10. Sound(queued) /\ AwaitFits(queued) /\ r \in Made(queued)
    <3>1. r \in Made(s)
      BY DEF Pending, Made
    <3> QED
      BY <2>9, <3>1, GentlyAwaits, StaysDone DEF Gently, Quietly
  <2>11. CASE now
    <3>1. u = CompleteIO(queued, r) /\ {r} \ {m.writer} = {r} /\ {r} \ {r} = {}
      <4>1. r # None
        BY <1>2, ProcessEventsAssumption
      <4> QED
        BY <1>3, <2>1, <2>11, <4>1
    <3>2. Gently(queued, u) /\ MailFits(u, {r} \ {r})
      BY <2>8, <2>10, <3>1, CompletedMail
    <3> QED
      BY <2>9, <3>1, <3>2, GentlyTransitive
  <2>12. CASE ~now
    <3>1. u = queued /\ {r} \ {m.writer} = {}
      BY <1>3, <2>1, <2>12
    <3> QED
      BY <2>8, <2>9, <3>1
  <2> QED
    BY <2>11, <2>12
<1> QED
  BY <1>6, <1>7, <1>8

-----------------------------------------------------------------------------
(* Requests cancelled.                                                        *)

\* Cancelled requests are done, their messages no longer owed, and nobody is overlooked.
LEMMA CancelIOMail ==
  ASSUME NEW s, Sound(s), AwaitFits(s), MailFits(s, {}), NEW p \in Processes, NEW t, t = CancelIO(s, p)
  PROVE  Gently(s, t) /\ MailFits(t, {})
<1> DEFINE R == PendingIO(s, p)
           base == CancelledBefore(s, p)
           S == {m \in ToSet(s.owed) : m.writer \notin R}
           G == [T \in SUBSET R |->
                   {u \in States : /\ Gently(base, u) /\ u.mailbox = base.mailbox /\ u.owed = base.owed
                                   /\ \A r \in T : u.io[r].done
                                   /\ \A r \in Requests \ T : u.io[r] = base.io[r]}]
<1>1. /\ Quietly(s, base) /\ R \subseteq Made(base) /\ base.io = s.io
      /\ \A k \in Attentions : p \notin base.attention[k]
  BY CancelledBeforeQuiet
<1>2. s \in States /\ s.owed \in Seq(Message) /\ s.mailbox.messages \in Seq(Message)
      /\ s.mailbox.readers \in Seq(Requests)
  BY MailboxHolds
<1>3. base.mailbox = s.mailbox /\ base.proc = s.proc /\ base.clusters = s.clusters
  BY <1>2 DEF CancelledBefore, States
<1>4. base.owed = Those(s.owed, S)
  BY <1>2 DEF CancelledBefore, States
<1>5. R \subseteq Requests /\ (\A r \in R : ~s.io[r].done) /\ None \notin R
  BY ProcessEventsAssumption DEF PendingIO
<1>6. S \subseteq ToSet(s.owed) /\ \A m \in ToSet(s.owed) : m \in S <=> m.writer \notin R
  OBVIOUS
<1> HIDE DEF base, R, S
<1>7. Gently(s, base) /\ AwaitFits(base)
  BY <1>1, <1>3, SharedMinds DEF Gently
<1>8. \A T \in SUBSET R : G[T] \subseteq States
  OBVIOUS
<1>9. base \in G[{}]
  BY <1>1, QuietlyReflexive DEF Gently, Minds, SameCalls, Quietly, Sound
<1>10. ASSUME NEW T \in SUBSET R, NEW x \in T, NEW u \in G[T \ {x}]
       PROVE  CompleteIO(u, x) \in G[T]
  <2> DEFINE v == CompleteIO(u, x)
  <2>1. /\ u \in States /\ Gently(base, u) /\ u.mailbox = base.mailbox /\ u.owed = base.owed
        /\ \A r \in T \ {x} : u.io[r].done
        /\ \A r \in Requests \ (T \ {x}) : u.io[r] = base.io[r]
    BY <1>10
  <2>2. x \in Made(u) /\ AwaitFits(u) /\ Sound(u)
    <3>1. x \in R
      BY <1>10
    <3> QED
      BY <1>1, <1>7, <2>1, <3>1, StaysDone, GentlyAwaits DEF Gently, Quietly
  <2>3. /\ Gently(u, v) /\ v.mailbox = u.mailbox /\ v.owed = u.owed /\ v.io[x].done
        /\ \A q \in Requests \ {x} : v.io[q] = u.io[q]
    BY <2>2, CompleteIOGently
  <2> HIDE DEF v
  <2>4. Gently(base, v) /\ v \in States
    BY <2>1, <2>3, GentlyTransitive DEF Gently, Quietly, Sound
  <2>5. \A r \in T : v.io[r].done
    BY <1>5, <2>1, <2>3
  <2>6. \A r \in Requests \ T : v.io[r] = base.io[r]
    BY <2>1, <2>3
  <2>7. v \in G[T]
    BY <2>1, <2>3, <2>4, <2>5, <2>6
  <2> QED
    BY <2>7 DEF v
<1> HIDE DEF G
<1>11. t \in G[R]
  BY <1>8, <1>9, <1>10, CancelIOReaches DEF R, base
<1>12. /\ Gently(base, t) /\ t.mailbox = base.mailbox /\ t.owed = base.owed
       /\ \A r \in R : t.io[r].done
       /\ \A r \in Requests \ R : t.io[r] = base.io[r]
  <2>1. R \in SUBSET R
    OBVIOUS
  <2> QED
    BY <1>11, <2>1 DEF G
<1>13. Gently(s, t)
  BY <1>7, <1>12, GentlyTransitive
<1>14. t.mailbox = s.mailbox /\ t.owed = Those(s.owed, S) /\ \A r \in Requests \ R : t.io[r] = s.io[r]
  BY <1>1, <1>3, <1>4, <1>12
<1>15. t.owed \in Seq(Message) /\ ToSet(t.owed) = S
  <2>1. Those(s.owed, S) \in Seq(Message) /\ ToSet(Those(s.owed, S)) = ToSet(s.owed) \cap S
    BY <1>2, ThoseAre
  <2> QED
    BY <1>6, <1>14, <2>1
<1>16. LiveMessages(t) = t.owed
  <2> DEFINE q == s.mailbox.messages
             A == {m \in ToSet(q) : m.writer = None \/ ~s.io[m.writer].done}
             B == {m \in ToSet(q) : m.writer = None \/ ~t.io[m.writer].done}
  <2>1. LiveMessages(t) = Those(q, B) /\ s.owed = Those(q, A)
    BY <1>14 DEF LiveMessages, MailFits
  <2>2. ToSet(s.owed) = A
    <3>1. ToSet(Those(q, A)) = ToSet(q) \cap A
      BY <1>2, ThoseAre
    <3> QED
      BY <2>1, <3>1
  <2>3. ASSUME NEW m \in ToSet(q)
        PROVE  m \in B <=> m \in A \cap S
    <3>1. m.writer = None \/ m.writer \in Requests
      BY MailboxHolds DEF Made
    <3>2. CASE m.writer \in R
      BY <1>5, <1>6, <1>12, <2>2, <3>2
    <3>3. CASE m.writer \notin R
      <4>1. m \in A => m \in S
        BY <1>6, <2>2, <3>3
      <4>2. m \in B <=> m \in A
        BY <1>14, <3>1, <3>3
      <4> QED
        BY <4>1, <4>2
    <3> QED
      BY <3>2, <3>3
  <2>4. q \in Seq(Message)
    BY <1>2
  <2> HIDE DEF q, A, B
  <2>5. Those(q, B) = Those(q, A \cap S)
    BY <2>3, <2>4, ThoseSame
  <2> QED
    BY <1>14, <2>1, <2>4, <2>5, ThoseOfThose
<1>17. LiveReaders(t) = <<>> \/ t.owed = <<>>
  <2>1. CASE s.owed = <<>>
    <3>1. ToSet(s.owed) = {}
      BY <2>1, EmptySeq DEF ToSet
    <3>2. ToSet(t.owed) = {}
      BY <1>6, <1>15, <3>1
    <3> QED
      BY <1>15, <3>2, NoElements
  <2>2. CASE LiveReaders(s) = <<>>
    <3> DEFINE q == s.mailbox.readers
               A == {r \in ToSet(q) : ~s.io[r].done}
               B == {r \in ToSet(q) : ~t.io[r].done}
    <3>1. LiveReaders(t) = Those(q, B) /\ <<>> = Those(q, A) /\ B \subseteq ToSet(q) /\ A \subseteq ToSet(q)
      BY <1>14, <2>2 DEF LiveReaders
    <3>2. B \subseteq A
      <4>1. ToSet(q) \subseteq Requests
        BY MailboxHolds DEF Made
      <4> QED
        BY <1>12, <1>14, <4>1
    <3>3. q \in Seq(Requests)
      BY <1>2
    <3> HIDE DEF q, A, B
    <3>4. ToSet(Those(q, B)) = ToSet(q) \cap B /\ ToSet(Those(q, A)) = ToSet(q) \cap A /\ Those(q, B) \in Seq(Requests)
      BY <3>3, ThoseAre
    <3>5. ToSet(<<>>) = {}
      BY EmptySeq DEF ToSet
    <3>6. ToSet(Those(q, B)) = {}
      BY <3>1, <3>2, <3>4, <3>5
    <3> QED
      BY <3>1, <3>4, <3>6, NoElements
  <2> QED
    BY <2>1, <2>2 DEF MailFits
<1>18. Apart(t.mailbox.readers, Itself) /\ Apart(t.owed, SameWriter)
  BY <1>2, <1>14, ThoseApart DEF MailFits
<1>19. ASSUME NEW r \in Pending(t)
       PROVE  r \in ToSet(t.mailbox.readers) <=> r \notin Writers(t.owed)
  <2>1. r \in Pending(s) /\ r \notin R
    BY <1>12, <1>14 DEF Pending
  <2>2. r \in Writers(t.owed) <=> r \in Writers(s.owed)
    BY <1>6, <1>15, <2>1 DEF Writers
  <2> QED
    BY <1>14, <2>1, <2>2 DEF MailFits
<1> QED
  BY <1>13, <1>16, <1>17, <1>18, <1>19 DEF MailFits

-----------------------------------------------------------------------------
(* What a step of the current process may leave.                              *)

\* The mailbox and the waits fit, and of those who wait only ps may be overlooked.
Fit(s, ps) == MailFits(s, {}) /\ AwaitFits(s) /\ Overlooked(s) \subseteq ps

\* More may be overlooked.
LEMMA FitMore ==
  ASSUME NEW s, NEW ps, NEW qs, Fit(s, ps), ps \subseteq qs
  PROVE  Fit(s, qs)
  BY DEF Fit

\* A gentle step that keeps the mailbox's order keeps the state fit.
LEMMA GentlyFits ==
  ASSUME NEW s, NEW ps, Fit(s, ps), NEW t, Gently(s, t), MailFits(t, {})
  PROVE  Fit(t, ps)
<1>1. AwaitFits(t)
  BY GentlyAwaits DEF Fit
<1> QED
  BY <1>1 DEF Fit, Gently, Minds

\* So does a quiet one that leaves the mailbox alone, but for those it is news to.
LEMMA QuietFits ==
  ASSUME NEW s, NEW ps, Fit(s, ps), NEW t, Quiet(s, t), SameMail(s, t), NEW qs, Minds(s, t, qs)
  PROVE  Fit(t, ps \cup qs)
<1>1. AwaitFits(t) /\ MailFits(t, {})
  BY AwaitKept, SameMailFits DEF Fit, Minds
<1> QED
  BY <1>1 DEF Fit, Minds

\* Process p alone changes: it calls nothing new but of requests of its own, and in its
\* wait for a request it has called that.
LEMMA AloneFits ==
  ASSUME NEW s, Sound(s), NEW p \in Processes, NEW ps, p \in ps, Fit(s, ps),
         NEW t, SameMail(s, t), t.clusters = s.clusters, Present(t) = Present(s),
         \A q \in Processes \ {p} : t.proc[q] = s.proc[q],
         \A r \in Requests :
           /\ Calling(t, p, r) => Calling(s, p, r) \/ (s.io[r] # None /\ s.io[r].owner = p)
           /\ t.proc[p].waiting = [kind |-> "request", request |-> r] => Calling(t, p, r)
  PROVE  Fit(t, ps)
<1>1. MailFits(t, {}) /\ t.io = s.io
  BY SameMailFits DEF Fit, SameMail
<1>2. \A q \in Processes \ {p}, r \in Requests : Calling(t, q, r) <=> Calling(s, q, r)
  BY DEF Calling
<1>3. AwaitFits(t)
  <2> SUFFICES ASSUME NEW q \in Processes, NEW r \in Requests
               PROVE  /\ Calling(t, q, r) => t.io[r] # None /\ t.io[r].owner = q
                      /\ t.proc[q].waiting = [kind |-> "request", request |-> r] => Calling(t, q, r)
    BY Zenon DEF AwaitFits
  <2>1. /\ Calling(s, q, r) => s.io[r] # None /\ s.io[r].owner = q
        /\ s.proc[q].waiting = [kind |-> "request", request |-> r] => Calling(s, q, r)
    BY DEF Fit, AwaitFits
  <2>2. CASE q = p
    BY <1>1, <2>1, <2>2
  <2>3. CASE q # p
    BY <1>1, <1>2, <2>1, <2>3
  <2> QED
    BY <2>2, <2>3
<1>4. \A q : Subprocesses(t, q) = Subprocesses(s, q)
  BY DEF Subprocesses
<1>5. ASSUME NEW q \in Overlooked(t), q # p
      PROVE  q \in Overlooked(s)
  <2>1. q \in Processes /\ t.proc[q] = s.proc[q]
    BY <1>5 DEF Overlooked, Present
  <2>2. SameWaiter(s.proc[q], t.proc[q])
    BY <2>1 DEF SameWaiter
  <2>3. /\ q \in Present(t) => q \in Present(s)
        /\ \A c \in Clusters :
             LET n == s.proc[q].common[c] IN n # None => t.clusters[n].flags \subseteq s.clusters[n].flags
        /\ \A r \in Requests :
             s.proc[q].waiting = [kind |-> "request", request |-> r] /\ t.io[r].done => s.io[r].done
        /\ Subprocesses(t, q) = {} => Subprocesses(s, q) = {}
    BY <1>1, <1>4
  <2> QED
    BY <2>1, <2>2, <2>3, NoNews
<1> QED
  BY <1>1, <1>3, <1>5 DEF Fit

\* A service that leaves a fit state keeps the invariant, if nobody is overlooked that is
\* not looked at before the next instruction.
LEMMA StepFits ==
  ASSUME IInv, AtInstruction, NEW s, Sound(s), NEW asks,
         Fit(s, IF asks THEN Processes ELSE {cpu.current}), Step(s, asks)
  PROVE  EventsFit'
<1> DEFINE c == cpu.current
<1>1. /\ cpu \in CpuRecord /\ cpu.running /\ cpu.budget > 0 /\ CpuFits(os, cpu)
  BY DEF IInv, AtInstruction
<1>2. /\ os' = Collected(s)
      /\ cpu' = [cpu EXCEPT !.running = Computes(os', c),
                             !.budget = IF asks \/ ~Computes(os', c) THEN 0 ELSE cpu.budget]
  BY DEF Step
<1>3. MailFits(os', {}) /\ AwaitFits(os') /\ Minds(s, os', {}) /\ Sound(os')
  BY <1>2, CollectedMail, CollectedSound DEF Fit
<1>4. /\ ~cpu'.choosing
      /\ cpu'.budget = IF asks \/ ~Computes(os', c) THEN 0 ELSE cpu.budget
  BY <1>1, <1>2 DEF CpuRecord, CpuFits
<1>5. ASSUME AtInstruction'
      PROVE  Overlooked(os') = {}
  <2>1. cpu'.budget > 0
    BY <1>5 DEF AtInstruction
  <2>2. ~asks /\ Computes(os', c)
    BY <1>4, <2>1
  <2>3. Overlooked(os') \subseteq {c}
    BY <1>3, <2>2 DEF Fit, Minds
  <2>4. c \in Processes /\ ProcessFits(os'.proc[c]) /\ os' \in States
    BY <1>1, <1>3 DEF CpuRecord, Sound
  <2>5. ~Waits(os', c)
    BY <1>3, <2>2, <2>4, ComputesIs
  <2> QED
    BY <2>3, <2>5 DEF Overlooked
<1> QED
  BY <1>3, <1>4, <1>5 DEF EventsFit

\* p's calls but the last stay as they are.
LEMMA InIs ==
  ASSUME NEW s, Sound(s), NEW p \in Present(s), NEW call \in Doings, NEW t, t = In(s, p, call)
  PROVE  /\ SameMail(s, t) /\ t.clusters = s.clusters /\ t.proc[p].waiting = s.proc[p].waiting
         /\ \A q \in Processes \ {p} : t.proc[q] = s.proc[q]
         /\ \A r : /\ Calling(t, p, r) => Calling(s, p, r) \/ call = [svc |-> "QIOW", request |-> r]
                   /\ call = [svc |-> "QIOW", request |-> r] => Calling(t, p, r)
<1> DEFINE q == s.proc[p].calls
           n == Len(q)
           k == [q EXCEPT ![n].doing = call]
           P == [s.proc[p] EXCEPT !.calls = k]
<1>1. FramesFit(s.proc[p]) /\ q \in Seq(Frame) /\ s \in States /\ s.proc[p] \in ProcessRecord /\ p \in Processes
  BY PresentFits DEF Sound
<1>2. /\ DOMAIN q = 1 .. n /\ n \in Nat /\ n >= 1 /\ \A i \in 1 .. n : q[i] \in Frame
  BY <1>1, CallsAre
<1>3. n \in 1 .. n /\ q[n] \in Frame
  BY <1>2
<1>4. /\ DOMAIN k = 1 .. n /\ k[n].doing = call /\ \A i \in 1 .. n : i # n => k[i] = q[i]
  BY <1>2, <1>3 DEF Frame
<1>5. P.calls = k /\ P.waiting = s.proc[p].waiting
  BY <1>1 DEF ProcessRecord
<1>6. t = [s EXCEPT !.proc[p] = P]
  BY DEF In
<1> HIDE DEF k, P
<1>7. /\ t.proc[p] = P /\ SameMail(s, t) /\ t.clusters = s.clusters
      /\ \A x \in Processes \ {p} : t.proc[x] = s.proc[x]
  BY <1>1, <1>6 DEF States, SameMail
<1>8. ASSUME NEW r, Calling(t, p, r)
      PROVE  Calling(s, p, r) \/ call = [svc |-> "QIOW", request |-> r]
  <2>1. PICK i \in 1 .. n : k[i].doing = [svc |-> "QIOW", request |-> r]
    BY <1>4, <1>5, <1>7, <1>8 DEF Calling, ToSet
  <2>2. CASE i = n
    BY <1>4, <2>1, <2>2
  <2>3. CASE i # n
    BY <1>2, <1>4, <2>1, <2>3 DEF Calling, ToSet
  <2> QED
    BY <2>2, <2>3
<1>9. ASSUME NEW r, call = [svc |-> "QIOW", request |-> r]
      PROVE  Calling(t, p, r)
  BY <1>3, <1>4, <1>5, <1>7, <1>9 DEF Calling, ToSet
<1> QED
  BY <1>5, <1>7, <1>8, <1>9

\* A call of a request of its own, by a process that does not wait, keeps the state fit.
LEMMA InFits ==
  ASSUME NEW s, Sound(s), NEW p \in Present(s), NEW ps, p \in ps, Fit(s, ps), s.proc[p].waiting = None,
         NEW call \in Doings,
         \A r \in Requests : call = [svc |-> "QIOW", request |-> r] => s.io[r] # None /\ s.io[r].owner = p,
         NEW t, t = In(s, p, call)
  PROVE  /\ Fit(t, ps) /\ Quietly(s, t) /\ t.proc[p].waiting = None
         /\ \A r : call = [svc |-> "QIOW", request |-> r] => Calling(t, p, r)
<1>1. Quietly(s, t) /\ Present(t) = Present(s) /\ p \in Processes
  <2>1. Quietly(s, t)
    BY InQuiet
  <2> QED
    BY <2>1, QuietPresent DEF Quietly, Present
<1>2. /\ SameMail(s, t) /\ t.clusters = s.clusters /\ t.proc[p].waiting = s.proc[p].waiting
      /\ \A q \in Processes \ {p} : t.proc[q] = s.proc[q]
      /\ \A r : /\ Calling(t, p, r) => Calling(s, p, r) \/ call = [svc |-> "QIOW", request |-> r]
                /\ call = [svc |-> "QIOW", request |-> r] => Calling(t, p, r)
  BY InIs
<1>3. \A r \in Requests : t.proc[p].waiting # [kind |-> "request", request |-> r]
  <2>1. \A r \in Requests : [kind |-> "request", request |-> r] \in Wait
    BY DEF Wait
  <2> QED
    BY <1>2, <2>1, ProcessEventsAssumption
<1>4. Fit(t, ps)
  BY <1>1, <1>2, <1>3, AloneFits
<1> QED
  BY <1>1, <1>2, <1>4

\* So does a wait that a process enters in the call of the request it waits for, if any.
LEMMA EnterWaitFits ==
  ASSUME NEW s, Sound(s), NEW p \in Present(s), NEW ps, p \in ps, Fit(s, ps), NEW w \in Wait,
         \A r \in Requests : w = [kind |-> "request", request |-> r] => Calling(s, p, r),
         NEW t, t = EnterWait(s, p, w), Present(t) = Present(s)
  PROVE  Fit(t, ps)
<1> DEFINE n == IF Waits(s, p) THEN s.waiters ELSE s.waiters + 1
           P == [s.proc[p] EXCEPT !.state = WaitState(w), !.waiting = w]
           a == [s.proc EXCEPT ![p] = P]
<1>1. p \in Processes /\ s \in States /\ s.proc \in [Processes -> ProcessRecord] /\ s.proc[p] \in ProcessRecord
  BY DEF Sound, States, Present
<1>2. P.waiting = w /\ P.calls = s.proc[p].calls
  BY <1>1 DEF ProcessRecord
<1>3. t = [s EXCEPT !.proc = a, !.waiters = n]
  BY <1>1 DEF EnterWait, States
<1> HIDE DEF P, n
<1>4. a[p] = P /\ \A q \in Processes \ {p} : a[q] = s.proc[q]
  BY <1>1
<1> HIDE DEF a
<1>5. SameMail(s, t) /\ t.clusters = s.clusters /\ t.proc = a
  BY <1>1, <1>3 DEF States, SameMail
<1>6. t.proc[p].waiting = w /\ \A r : Calling(t, p, r) <=> Calling(s, p, r)
  BY <1>2, <1>4, <1>5 DEF Calling
<1>7. \A q \in Processes \ {p} : t.proc[q] = s.proc[q]
  BY <1>4, <1>5
<1> QED
  BY <1>1, <1>5, <1>6, <1>7, AloneFits

\* The current process waits for nothing, and nobody is overlooked, as it executes.
LEMMA ExecutesFit ==
  ASSUME IInv, EventsFit, AtInstruction
  PROVE  Fit(os, {}) /\ os.proc[cpu.current].waiting = None /\ cpu.current \in Processes
<1>1. Sound(os) /\ cpu.current \in Present(os) /\ Computes(os, cpu.current)
  BY CurrentIs
<1>2. cpu.current \in Processes
  BY <1>1 DEF Present
<1>3. ~Waits(os, cpu.current)
  BY <1>1, <1>2, ComputesIs
<1> QED
  BY <1>2, <1>3 DEF Fit, EventsFit, Waits

\* A process that executes: it waits for nothing, and is not to be deleted.
Executing(s, p) == Sound(s) /\ p \in Present(s) /\ s.proc[p].waiting = None /\ ~s.proc[p].marked

\* The current process executes after the events of its own service.
LEMMA StillExecuting ==
  ASSUME IInv, EventsFit, AtInstruction, NEW s, Quietly(os, s)
  PROVE  Executing(s, cpu.current)
<1> DEFINE p == cpu.current
<1>1. p \in Present(os) /\ p \in Processes /\ os.proc[p].waiting = None /\ ~os.proc[p].marked
  BY CurrentIs, ExecutesFit
<1> HIDE DEF p
<1>2. Sound(s) /\ p \in Present(s) /\ s.proc[p].waiting = None /\ ~s.proc[p].marked
  BY <1>1, QuietPresent DEF Quietly, Quiet, Kept
<1> QED
  BY <1>2 DEF Executing, p

\* A service that returns.
LEMMA ReturnsFit ==
  ASSUME IInv, AtInstruction, NEW p, p = cpu.current, NEW s, Executing(s, p), Fit(s, {p}), Return(s, p)
  PROVE  EventsFit'
<1> DEFINE t == In(s, p, None)
<1>1. Sound(s) /\ p \in Present(s) /\ s.proc[p].waiting = None /\ None \in Doings
  BY DEF Executing, Doings
<1>2. Step(t, FALSE)
  BY DEF Return
<1>3. \A r \in Requests : None # [svc |-> "QIOW", request |-> r]
  <2>1. \A r \in Requests : [svc |-> "QIOW", request |-> r] \in [svc : {"QIOW"}, request : Requests]
    OBVIOUS
  <2> QED
    BY <2>1, ProcessEventsAssumption
<1>4. Fit(t, {p}) /\ Quietly(s, t)
  BY <1>1, <1>3, InFits
<1> HIDE DEF t
<1> QED
  BY <1>2, <1>4, StepFits DEF Quietly

\* A service that returns after events.
LEMMA ReturnFits ==
  ASSUME IInv, EventsFit, AtInstruction, NEW p, p = cpu.current, NEW s, Quietly(os, s), Fit(s, {p}), Return(s, p)
  PROVE  EventsFit'
  BY StillExecuting, ReturnsFit

\* A service that waits.
LEMMA WaitsFit ==
  ASSUME IInv, AtInstruction, NEW p, p = cpu.current, NEW s, Executing(s, p), Fit(s, Processes),
         NEW call \in Doings, NEW w \in Wait, w.kind # "subprocesses",
         \A r \in Requests : call = [svc |-> "QIOW", request |-> r] => s.io[r] # None /\ s.io[r].owner = p,
         \A r \in Requests : w = [kind |-> "request", request |-> r] => call = [svc |-> "QIOW", request |-> r],
         WaitIn(s, p, call, w)
  PROVE  EventsFit'
<1> DEFINE t == In(s, p, call)
           u == EnterWait(t, p, w)
<1>1. Sound(s) /\ p \in Present(s) /\ s.proc[p].waiting = None /\ ~s.proc[p].marked /\ p \in Processes
  BY DEF Executing, Present
<1>2. Step(u, TRUE)
  BY DEF WaitIn
<1>3. Fit(t, Processes) /\ Quietly(s, t) /\ \A r : call = [svc |-> "QIOW", request |-> r] => Calling(t, p, r)
  BY <1>1, InFits
<1> HIDE DEF t
<1>4. Sound(t) /\ p \in Present(t) /\ ~t.proc[p].marked
  BY <1>1, <1>3, QuietPresent DEF Quietly, Quiet, Kept
<1>5. Steadily(t, u)
  BY <1>4, EnterWaitSound
<1>6. Fit(u, Processes)
  BY <1>1, <1>3, <1>4, <1>5, EnterWaitFits DEF Steadily
<1> HIDE DEF u
<1> QED
  BY <1>2, <1>5, <1>6, StepFits DEF Steadily

\* A service that waits after events.
LEMMA WaitInFits ==
  ASSUME IInv, EventsFit, AtInstruction, NEW p, p = cpu.current, NEW s, Quietly(os, s), Fit(s, Processes),
         NEW call \in Doings, NEW w \in Wait, w.kind # "subprocesses",
         \A r \in Requests : call = [svc |-> "QIOW", request |-> r] => s.io[r] # None /\ s.io[r].owner = p,
         \A r \in Requests : w = [kind |-> "request", request |-> r] => call = [svc |-> "QIOW", request |-> r],
         WaitIn(s, p, call, w)
  PROVE  EventsFit'
  BY StillExecuting, WaitsFit

-----------------------------------------------------------------------------
(* The services that concern wakeups, timers, event flags and ASTs.           *)

\* A service that leaves at most the current process overlooked, whatever it asks.
LEMMA SteppedFits ==
  ASSUME IInv, AtInstruction, NEW s, Sound(s), Fit(s, {cpu.current}), NEW asks, Step(s, asks)
  PROVE  EventsFit'
<1>1. cpu.current \in Processes
  BY CurrentIs DEF Present
<1>2. Fit(s, IF asks THEN Processes ELSE {cpu.current})
  BY <1>1, FitMore
<1> QED
  BY <1>2, StepFits

\* A process's own fields changed, but for its calls.
LEMMA OwnFits ==
  ASSUME NEW s, Sound(s), NEW p \in Processes, NEW ps, p \in ps, Fit(s, ps),
         NEW P \in ProcessRecord, Private(s.proc[p], P), P.calls = s.proc[p].calls,
         NEW t, t = [s EXCEPT !.proc[p] = P]
  PROVE  Fit(t, ps)
<1>1. Quiet(s, t) /\ SameMail(s, t) /\ Minds(s, t, {p})
  BY OwnQuiet, OwnMinds
<1>2. ps \cup {p} = ps
  OBVIOUS
<1> QED
  BY <1>1, <1>2, QuietFits

\* Its own wake-pending flag, set or cleared, is its own matter.
LEMMA WakeSetFits ==
  ASSUME NEW s, Sound(s), NEW p \in Processes, NEW ps, p \in ps, Fit(s, ps), NEW b \in BOOLEAN,
         NEW t, t = WakeSet(s, p, b)
  PROVE  Fit(t, ps)
<1> DEFINE P == [s.proc[p] EXCEPT !.wakePending = b]
<1>1. s.proc[p] \in ProcessRecord
  BY DEF Sound, States
<1>2. /\ P \in ProcessRecord /\ P.state = s.proc[p].state /\ P.waiting = s.proc[p].waiting
      /\ P.suspended = s.proc[p].suspended /\ P.marked = s.proc[p].marked /\ P.common = s.proc[p].common
      /\ P.calls = s.proc[p].calls /\ P.active = s.proc[p].active
  BY <1>1 DEF ProcessRecord
<1>3. t = [s EXCEPT !.proc[p] = P]
  BY DEF WakeSet
<1> HIDE DEF P
<1>4. Private(s.proc[p], P)
  BY <1>2, SameFrames DEF Private
<1>5. P \in ProcessRecord /\ P.calls = s.proc[p].calls
  BY <1>2
<1> QED
  BY <1>3, <1>4, <1>5, OwnFits

\* So are the modes it enables ASTs in.
LEMMA EnabledSetFits ==
  ASSUME NEW s, Sound(s), NEW p \in Processes, NEW ps, p \in ps, Fit(s, ps), NEW e \in SUBSET Modes,
         NEW t, t = EnabledSet(s, p, e)
  PROVE  Fit(t, ps)
<1> DEFINE P == [s.proc[p] EXCEPT !.enabled = e]
<1>1. s.proc[p] \in ProcessRecord
  BY DEF Sound, States
<1>2. /\ P \in ProcessRecord /\ P.state = s.proc[p].state /\ P.waiting = s.proc[p].waiting
      /\ P.suspended = s.proc[p].suspended /\ P.marked = s.proc[p].marked /\ P.common = s.proc[p].common
      /\ P.calls = s.proc[p].calls /\ P.active = s.proc[p].active
  BY <1>1 DEF ProcessRecord
<1>3. t = [s EXCEPT !.proc[p] = P]
  BY DEF EnabledSet
<1> HIDE DEF P
<1>4. Private(s.proc[p], P)
  BY <1>2, SameFrames DEF Private
<1>5. P \in ProcessRecord /\ P.calls = s.proc[p].calls
  BY <1>2
<1> QED
  BY <1>3, <1>4, <1>5, OwnFits

\* A timer queue is nobody's event until a timer of it expires.
LEMMA TimersSetFits ==
  ASSUME NEW s, Sound(s), NEW p \in Processes, NEW ps, Fit(s, ps), NEW f \in Seq(Timer),
         NEW t, t = TimersSet(s, p, f)
  PROVE  Fit(t, ps)
<1> DEFINE P == [s.proc[p] EXCEPT !.timers = f]
<1>1. s.proc[p] \in ProcessRecord /\ s \in States
  BY DEF Sound, States
<1>2. SameWaiter(s.proc[p], P)
  BY <1>1 DEF ProcessRecord, SameWaiter
<1>3. t = [s EXCEPT !.proc[p] = P]
  BY DEF TimersSet
<1> HIDE DEF P
<1>4. t.proc[p] = P /\ SameMail(s, t) /\ t.clusters = s.clusters /\ \A q \in Processes \ {p} : t.proc[q] = s.proc[q]
  BY <1>1, <1>3 DEF States, SameMail
<1>5. \A q \in Processes : SameWaiter(s.proc[q], t.proc[q])
  BY <1>2, <1>4 DEF SameWaiter
<1>6. Quiet(s, t)
  BY TimersSetQuiet
<1>7. SameCalls(s, t) /\ t.io = s.io
  BY <1>4, <1>5 DEF SameCalls, SameWaiter, SameMail
<1>8. Minds(s, t, {})
  BY <1>4, <1>5, <1>6, <1>7, QuietMinds DEF Present
<1> QED
  BY <1>4, <1>6, <1>8, QuietFits

\* $HIBER keeps the events fit.
LEMMA HiberFits ==
  ASSUME IInv, EventsFit, NEW p \in Processes, Hiber(p)
  PROVE  EventsFit'
<1> DEFINE call == [svc |-> "HIBER"]
           w == [kind |-> "wake"]
           s == WakeSet(os, p, FALSE)
<1>1. AtInstruction /\ p = cpu.current /\ Sound(os)
  <2>1. Executes(p)
    BY DEF Hiber, Attempts, Calls, Retries
  <2> QED
    BY <2>1, ExecutesIs
<1>2. Fit(os, {p}) /\ Fit(os, Processes)
  BY <1>1, ExecutesFit, FitMore
<1>3. CASE os.proc[p].wakePending
  <2>1. Return(s, p)
    BY <1>3 DEF Hiber, WakeSet
  <2>2. Quietly(os, s) /\ Fit(s, {p})
    BY <1>1, <1>2, WakeSetQuiet, WakeSetFits
  <2> HIDE DEF s
  <2> QED
    BY <1>1, <2>1, <2>2, ReturnFits
<1>4. CASE ~os.proc[p].wakePending
  <2>1. WaitIn(os, p, call, w)
    BY <1>4 DEF Hiber
  <2>2. call \in Doings /\ w \in Wait /\ w.kind = "wake" /\ call.svc = "HIBER"
    BY DEF Doings, Wait
  <2> HIDE DEF call, w
  <2>3. /\ \A r \in Requests : call # [svc |-> "QIOW", request |-> r]
        /\ \A r \in Requests : w # [kind |-> "request", request |-> r]
    BY <2>2
  <2> QED
    BY <1>1, <1>2, <2>1, <2>2, <2>3, QuietlyReflexive, WaitInFits
<1> QED
  BY <1>3, <1>4

\* $WAKE: a wakeup of another process calls the hook.
LEMMA WakeFits ==
  ASSUME IInv, EventsFit, NEW p \in Processes, NEW q \in Targets, Wake(p, q)
  PROVE  EventsFit'
<1> DEFINE s == WakeSet(os, q, TRUE)
<1>1. AtInstruction /\ Sound(os) /\ q \in Processes /\ p = cpu.current
  BY ExecutesIs DEF Wake, Calls, Targets, Present
<1>2. Step(s, q # p)
  BY DEF Wake, WakeSet
<1>3. Fit(os, IF q # p THEN Processes ELSE {cpu.current})
  BY <1>1, ExecutesFit, FitMore
<1>4. Fit(s, IF q # p THEN Processes ELSE {cpu.current})
  BY <1>1, <1>3, WakeSetFits
<1>5. Sound(s)
  BY <1>1, WakeSetQuiet DEF Quietly
<1> HIDE DEF s
<1> QED
  BY <1>1, <1>2, <1>4, <1>5, StepFits

\* A step in which a process's timers change.
LEMMA TimersChange ==
  ASSUME IInv, AtInstruction, NEW s, Sound(s), Fit(s, {cpu.current}), NEW q \in Processes,
         NEW f \in Seq(Timer), NEW asks, Step(TimersSet(s, q, f), asks)
  PROVE  EventsFit'
<1> DEFINE t == TimersSet(s, q, f)
<1>1. Sound(t) /\ Fit(t, {cpu.current}) /\ Step(t, asks)
  BY TimersSetQuiet, TimersSetFits
<1> HIDE DEF t
<1> QED
  BY <1>1, SteppedFits

\* The current process takes timers off a queue.
LEMMA CancelsFit ==
  ASSUME IInv, EventsFit, AtInstruction, NEW q \in Processes, NEW S,
         Step(TimersSet(os, q, Those(os.proc[q].timers, S)), FALSE)
  PROVE  EventsFit'
<1> DEFINE f == Those(os.proc[q].timers, S)
<1>1. Sound(os) /\ os.proc[q].timers \in Seq(Timer)
  BY CurrentIs DEF Sound, States, ProcessRecord
<1>2. f \in Seq(Timer) /\ Fit(os, {cpu.current})
  BY <1>1, ThoseAre, ExecutesFit, FitMore
<1>3. Step(TimersSet(os, q, f), FALSE)
  OBVIOUS
<1> HIDE DEF f
<1> QED
  BY <1>1, <1>2, <1>3, TimersChange

\* $CANWAK keeps the events fit.
LEMMA CanwakFits ==
  ASSUME IInv, EventsFit, NEW p \in Processes, NEW q \in Targets, Canwak(p, q)
  PROVE  EventsFit'
<1> DEFINE S == {t \in ToSet(os.proc[q].timers) : ~t.wake}
<1>1. AtInstruction /\ q \in Processes
  BY ExecutesIs DEF Canwak, Calls, Targets, Present
<1>2. Step(TimersSet(os, q, Those(os.proc[q].timers, S)), FALSE)
  BY DEF Canwak, TimersSet
<1> HIDE DEF S
<1> QED
  BY <1>1, <1>2, CancelsFit

\* $CANTIM keeps the events fit.
LEMMA CantimFits ==
  ASSUME IInv, EventsFit, NEW p \in Processes, Cantim(p)
  PROVE  EventsFit'
<1> DEFINE S == {t \in ToSet(os.proc[p].timers) : t.wake \/ t.mode < Mode(p)}
<1>1. AtInstruction
  BY ExecutesIs DEF Cantim, Calls
<1>2. Step(TimersSet(os, p, Those(os.proc[p].timers, S)), FALSE)
  BY DEF Cantim, TimersSet
<1> HIDE DEF S
<1> QED
  BY <1>1, <1>2, CancelsFit

\* The current process queues a timer.
LEMMA AddTimerFits ==
  ASSUME IInv, AtInstruction, NEW s, Sound(s), Fit(s, {cpu.current}), NEW q \in Processes, NEW x \in Timer,
         Step(AddTimer(s, q, x), FALSE)
  PROVE  EventsFit'
<1> DEFINE f == Append(s.proc[q].timers, x)
<1>1. s.proc[q].timers \in Seq(Timer)
  BY DEF Sound, States, ProcessRecord
<1>2. f \in Seq(Timer)
  BY <1>1, MembersOfAppend
<1>3. Step(TimersSet(s, q, f), FALSE)
  BY DEF AddTimer, TimersSet
<1> HIDE DEF f
<1> QED
  BY <1>2, <1>3, TimersChange

\* $SCHDWK keeps the events fit.
LEMMA SchdwkFits ==
  ASSUME IInv, EventsFit, NEW p \in Processes, NEW q \in Targets, NEW d \in Delays, NEW r \in Repeats,
         Schdwk(p, q, d, r)
  PROVE  EventsFit'
<1> DEFINE x == [wake |-> TRUE, left |-> d, repeat |-> r, own |-> p = q]
<1>1. AtInstruction /\ Sound(os) /\ q \in Processes
  BY ExecutesIs DEF Schdwk, Calls, Targets, Present
<1>2. Step(AddTimer(os, q, x), FALSE) /\ Fit(os, {cpu.current})
  BY <1>1, ExecutesFit, FitMore DEF Schdwk
<1>3. x \in Timer
  <2>1. d \in Int /\ r \in Nat /\ (p = q) \in BOOLEAN
    BY ProcessesAssumption
  <2> QED
    BY <2>1 DEF Timer
<1> HIDE DEF x
<1> QED
  BY <1>1, <1>2, <1>3, AddTimerFits

\* The current process clears a flag it can reach, or sets one.
LEMMA FlagFits ==
  ASSUME IInv, EventsFit, NEW p \in Processes, Executes(p), NEW f \in Flag,
         NEW s, s = PostFlag(os, p, f) \/ (CanReach(os, p, f.cluster) /\ s = ClearFlag(os, p, f))
  PROVE  Quietly(os, s) /\ SameMail(os, s) /\ Fit(s, {p})
<1>1. AtInstruction /\ p = cpu.current /\ Sound(os)
  BY ExecutesIs
<1>2. Quietly(os, s) /\ SameMail(os, s) /\ Minds(os, s, {p})
  BY <1>1, PostFlagQuiet, PostFlagMinds, ClearFlagQuiet, ClearFlagMinds
<1>3. Fit(os, {}) /\ {} \cup {p} = {p}
  BY <1>1, ExecutesFit
<1> QED
  BY <1>2, <1>3, QuietFits DEF Quietly

\* $SETIMR keeps the events fit.
LEMMA SetimrFits ==
  ASSUME IInv, EventsFit, NEW p \in Processes, NEW f \in FlagsOf(p), NEW d \in Delays, NEW ast \in BOOLEAN,
         Setimr(p, f, d, ast)
  PROVE  EventsFit'
<1> DEFINE x == [wake |-> FALSE, left |-> d, repeat |-> 0, own |-> TRUE, efn |-> f, ast |-> ast, mode |-> Mode(p)]
           s == ClearFlag(os, p, f)
<1>1. Executes(p) /\ CanReach(os, p, f.cluster)
  BY DEF Setimr, Calls
<1>2. AtInstruction /\ p = cpu.current /\ p \in Processes /\ Mode(p) \in Modes
  BY <1>1, ExecutesIs, ModeIs
<1>3. Step(AddTimer(s, p, x), FALSE)
  BY DEF Setimr
<1>4. f \in Flag /\ d \in Int
  BY ProcessesAssumption DEF FlagsOf
<1>5. x \in Timer
  BY <1>2, <1>4 DEF Timer
<1>6. Quietly(os, s) /\ Fit(s, {p})
  BY <1>1, <1>4, FlagFits
<1> HIDE DEF x, s
<1> QED
  BY <1>2, <1>3, <1>5, <1>6, AddTimerFits DEF Quietly

\* $SETEF and $CLREF keep the events fit.
LEMMA SetefFits ==
  ASSUME IInv, EventsFit, NEW p \in Processes, NEW f \in FlagsOf(p), Setef(p, f) \/ Clref(p, f)
  PROVE  EventsFit'
<1>1. PICK s : /\ Step(s, FALSE)
               /\ s = PostFlag(os, p, f) \/ (CanReach(os, p, f.cluster) /\ s = ClearFlag(os, p, f))
  BY DEF Setef, Clref, FlagsOf
<1>2. Executes(p) /\ f \in Flag
  BY ProcessesAssumption DEF FlagsOf, Setef, Clref, Calls
<1>3. AtInstruction /\ p = cpu.current
  BY <1>2, ExecutesIs
<1>4. Quietly(os, s) /\ Fit(s, {p})
  BY <1>1, <1>2, FlagFits
<1> QED
  BY <1>1, <1>3, <1>4, SteppedFits DEF Quietly

\* $WAITFR and its kind keep the events fit: who begins to wait has the hook called.
LEMMA WaitfrFits ==
  ASSUME IInv, EventsFit, NEW p \in Processes, NEW call \in system.requests[p], Waitfr(p, call)
  PROVE  EventsFit'
<1> DEFINE w == [kind |-> "flags", cluster |-> call.cluster, mask |-> call.mask, all |-> call.all]
<1>1. AtInstruction /\ p = cpu.current /\ Quietly(os, os)
  <2>1. Executes(p)
    BY DEF Waitfr, Attempts, Calls, Retries
  <2> QED
    BY <2>1, ExecutesIs, QuietlyReflexive
<1>2. Fit(os, {p}) /\ Fit(os, Processes)
  BY <1>1, ExecutesFit, FitMore
<1>3. call \in Call /\ call \in Doings /\ call.svc = "WAITFR"
  BY RequestsAre DEF Waitfr
<1>4. w \in Wait /\ w.kind = "flags"
  <2>1. call.cluster \in {Local} \cup Clusters /\ call.mask \in SUBSET Nat /\ call.all \in BOOLEAN
    BY <1>3 DEF Call
  <2> QED
    BY <2>1 DEF Wait
<1>5. Return(os, p) \/ WaitIn(os, p, call, w)
  BY DEF Waitfr
<1> HIDE DEF w
<1>6. /\ \A r \in Requests : call # [svc |-> "QIOW", request |-> r]
      /\ \A r \in Requests : w # [kind |-> "request", request |-> r]
  BY <1>3, <1>4
<1> QED
  BY <1>1, <1>2, <1>3, <1>4, <1>5, <1>6, ReturnFits, WaitInFits

\* $DCLAST keeps the events fit.
LEMMA DclastFits ==
  ASSUME IInv, EventsFit, NEW p \in Processes, NEW m \in Modes, Dclast(p, m)
  PROVE  EventsFit'
<1> DEFINE s == QueueAST(os, {p}, m)
<1>1. AtInstruction /\ p = cpu.current /\ Sound(os) /\ Step(s, FALSE)
  BY ExecutesIs DEF Dclast, Calls
<1>2. Quietly(os, s) /\ SameMail(os, s) /\ Minds(os, s, {p})
  BY <1>1, QueueASTQuiet, QueueASTMinds
<1>3. Fit(os, {}) /\ {} \cup {p} = {p}
  BY <1>1, ExecutesFit
<1> HIDE DEF s
<1>4. Fit(s, {p})
  BY <1>2, <1>3, QuietFits DEF Quietly
<1> QED
  BY <1>1, <1>2, <1>4, SteppedFits DEF Quietly

\* $SETAST keeps the events fit.
LEMMA SetastFits ==
  ASSUME IInv, EventsFit, NEW p \in Processes, NEW on \in BOOLEAN, Setast(p, on)
  PROVE  EventsFit'
<1> DEFINE e == IF on THEN os.proc[p].enabled \cup {Mode(p)} ELSE os.proc[p].enabled \ {Mode(p)}
           s == EnabledSet(os, p, e)
<1>1. Executes(p)
  BY DEF Setast, Calls
<1>2. AtInstruction /\ p = cpu.current /\ Sound(os) /\ Mode(p) \in Modes
  BY <1>1, ExecutesIs, ModeIs
<1>3. e \in SUBSET Modes
  <2>1. os.proc[p].enabled \in SUBSET Modes
    BY <1>2 DEF Sound, States, ProcessRecord
  <2> QED
    BY <1>2, <2>1
<1>4. Step(s, FALSE)
  BY DEF Setast, EnabledSet
<1>5. Fit(os, {p})
  BY <1>2, ExecutesFit, FitMore
<1> HIDE DEF e
<1>6. Sound(s) /\ Fit(s, {p})
  BY <1>2, <1>3, <1>5, EnabledSetQuiet, EnabledSetFits DEF Quietly
<1> HIDE DEF s
<1> QED
  BY <1>2, <1>4, <1>6, SteppedFits

\* A process that does not wait calls other routines, or returns from some: those it is
\* still in are in the calls they were in, and the others in none.
LEMMA CalledFits ==
  ASSUME NEW s, Sound(s), NEW p \in Present(s), NEW ps, p \in ps, Fit(s, ps), NEW P \in ProcessRecord,
         P.waiting = None, P.state = s.proc[p].state,
         \A c \in ToSet(P.calls) : c \in ToSet(s.proc[p].calls) \/ c.doing = None,
         NEW t, t = Replaced(s, p, P)
  PROVE  Fit(t, ps)
<1>1. s \in States /\ p \in Processes
  BY DEF Sound, Present
<1>2. /\ t.proc[p] = P /\ SameMail(s, t) /\ t.clusters = s.clusters
      /\ \A q \in Processes \ {p} : t.proc[q] = s.proc[q]
  BY <1>1 DEF Replaced, States, SameMail
<1>3. Present(t) = Present(s)
  BY <1>2 DEF Present
<1>4. ASSUME NEW r \in Requests
      PROVE  /\ Calling(t, p, r) => Calling(s, p, r)
             /\ t.proc[p].waiting # [kind |-> "request", request |-> r]
  <2>1. /\ [kind |-> "request", request |-> r] \in Wait
        /\ [svc |-> "QIOW", request |-> r] \in [svc : {"QIOW"}, request : Requests]
    BY DEF Wait
  <2>2. None # [kind |-> "request", request |-> r] /\ None # [svc |-> "QIOW", request |-> r]
    BY <2>1, ProcessEventsAssumption
  <2> QED
    BY <1>2, <2>2 DEF Calling
<1> QED
  BY <1>1, <1>2, <1>3, <1>4, AloneFits

\* The same of the calls alone.
LEMMA RecalledFits ==
  ASSUME NEW s, Sound(s), NEW p \in Present(s), NEW ps, p \in ps, Fit(s, ps), s.proc[p].waiting = None,
         NEW calls \in Seq(Frame), \A c \in ToSet(calls) : c \in ToSet(s.proc[p].calls) \/ c.doing = None,
         NEW t, t = Recalled(s, p, calls)
  PROVE  Fit(t, ps)
<1> DEFINE P == [s.proc[p] EXCEPT !.calls = calls]
<1>1. s.proc[p] \in ProcessRecord
  BY PresentFits
<1>2. P \in ProcessRecord /\ P.waiting = None /\ P.state = s.proc[p].state /\ P.calls = calls
  BY <1>1 DEF ProcessRecord
<1>3. t = Replaced(s, p, P)
  BY DEF Recalled, Replaced
<1> HIDE DEF P
<1> QED
  BY <1>2, <1>3, CalledFits

\* And with the ASTs owed and the modes active.
LEMMA ReroutedFits ==
  ASSUME NEW s, Sound(s), NEW p \in Present(s), NEW ps, p \in ps, Fit(s, ps), s.proc[p].waiting = None,
         NEW calls \in Seq(Frame), NEW active \in SUBSET Modes, NEW asts \in [Modes -> Int],
         \A c \in ToSet(calls) : c \in ToSet(s.proc[p].calls) \/ c.doing = None,
         NEW t, t = Rerouted(s, p, asts, active, calls)
  PROVE  Fit(t, ps)
<1> DEFINE P == Routed(s.proc[p], asts, active, calls)
<1>1. s.proc[p] \in ProcessRecord /\ p \in Processes /\ s \in States
  BY PresentFits DEF Sound
<1>2. P \in ProcessRecord /\ P.waiting = None /\ P.state = s.proc[p].state /\ P.calls = calls
  BY <1>1 DEF ProcessRecord, Routed
<1>3. t = Replaced(s, p, P)
  BY <1>1, ReroutedIs
<1> HIDE DEF P
<1> QED
  BY <1>2, <1>3, CalledFits

\* All but the last routine.
LEMMA FrontMembers ==
  ASSUME NEW T, NEW q \in Seq(T), Len(q) > 1
  PROVE  Front(q) \in Seq(T) /\ ToSet(Front(q)) \subseteq ToSet(q)
<1> DEFINE n == Len(q)
           r == Front(q)
<1>1. n \in Nat /\ DOMAIN q = 1 .. n /\ \A i \in 1 .. n : q[i] \in T
  BY LenProperties, ElementOfSeq
<1>2. r = SubSeq(q, 1, n - 1)
  BY DEF Front
<1>3. \A i \in 1 .. n - 1 : q[i] \in T
  BY <1>1
<1>4. 1 \in Int /\ n - 1 \in Int /\ n - 1 >= 1
  BY <1>1
<1> HIDE DEF r, n
<1>5. /\ SubSeq(q, 1, n - 1) \in Seq(T)
      /\ Len(SubSeq(q, 1, n - 1)) = IF 1 <= n - 1 THEN (n - 1) - 1 + 1 ELSE 0
      /\ \A i \in 1 .. (n - 1) - 1 + 1 : SubSeq(q, 1, n - 1)[i] = q[1 + i - 1]
  BY <1>3, <1>4, SubSeqProperties
<1>6. r \in Seq(T) /\ Len(r) = n - 1 /\ \A i \in 1 .. n - 1 : r[i] = q[i]
  <2>1. \A i \in 1 .. n - 1 : i \in 1 .. (n - 1) - 1 + 1 /\ 1 + i - 1 = i
    BY <1>4
  <2> QED
    BY <1>2, <1>4, <1>5, <2>1
<1>7. DOMAIN r = 1 .. n - 1
  BY <1>6, LenProperties
<1>8. ToSet(r) \subseteq ToSet(q)
  BY <1>1, <1>6, <1>7 DEF ToSet
<1> QED
  BY <1>6, <1>8 DEF r

\* A process takes an AST, if it can.
LEMMA CallASTFits ==
  ASSUME NEW s, Sound(s), NEW p \in Present(s), NEW ps, p \in ps, Fit(s, ps), s.proc[p].waiting = None,
         NEW t, t = CallAST(s, p)
  PROVE  Fit(t, ps)
<1> DEFINE R == s.proc[p]
           S == DeliverableModes(R)
           m == Min(S)
           f == [mode |-> m, ast |-> TRUE, doing |-> None]
           calls == Append(R.calls, f)
           active == R.active \cup {m}
           asts == [R.asts EXCEPT ![m] = R.asts[m] - 1]
<1>1. CASE S = {}
  BY <1>1 DEF CallAST
<1>2. CASE S # {}
  <2>1. /\ p \in Processes /\ R \in ProcessRecord /\ R.calls \in Seq(Frame)
        /\ R.active \in SUBSET Modes /\ R.asts \in [Modes -> Int]
    BY PresentFits
  <2>2. m \in S
    <3>1. S \subseteq Nat
      BY DEF DeliverableModes, Modes, Kernel, User
    <3> HIDE DEF S
    <3>2. \E k \in S : \A j \in S : k <= j
      BY <1>2, <3>1, LeastOf
    <3> QED
      BY <3>2 DEF Min
  <2>3. m \in Modes
    BY <2>2 DEF DeliverableModes
  <2>4. t = CallASTIn(s, p, m)
    BY <1>2 DEF CallAST
  <2> HIDE DEF S, m
  <2>5. t = Rerouted(s, p, asts, active, calls)
    BY <2>4 DEF CallASTIn, Rerouted
  <2>6. f \in Frame /\ f.doing = None
    BY <2>3 DEF Frame, Doings
  <2>7. active \in SUBSET Modes /\ asts \in [Modes -> Int]
    BY <2>1, <2>3
  <2>8. calls \in Seq(Frame) /\ ToSet(calls) = ToSet(R.calls) \cup {f}
    <3>1. R.calls \in Seq(Frame) /\ f \in Frame
      BY <2>1, <2>6
    <3> HIDE DEF f, R
    <3> QED
      BY <3>1, MembersOfAppend
  <2>9. \A c \in ToSet(calls) : c \in ToSet(s.proc[p].calls) \/ c.doing = None
    BY <2>6, <2>8
  <2> HIDE DEF active, calls, asts, R
  <2> QED
    BY <2>5, <2>7, <2>8, <2>9, ReroutedFits
<1> QED
  BY <1>1, <1>2

\* An AST routine returns.
LEMMA ASTReturnedFits ==
  ASSUME NEW s, Sound(s), NEW p \in Present(s), NEW ps, p \in ps, Fit(s, ps), s.proc[p].waiting = None,
         Last(s.proc[p].calls).ast, NEW t, t = ASTReturned(s, p)
  PROVE  Fit(t, ps)
<1> DEFINE R == s.proc[p]
           m == Last(s.proc[p].calls).mode
           calls == Front(R.calls)
           active == R.active \ {m}
           asts == R.asts
<1>1. /\ p \in Processes /\ R \in ProcessRecord /\ FramesFit(R) /\ R.calls \in Seq(Frame)
      /\ R.active \in SUBSET Modes /\ R.asts \in [Modes -> Int]
  BY PresentFits
<1>2. Len(R.calls) > 1
  <2>1. Len(R.calls) \in Nat /\ Len(R.calls) >= 1 /\ Last(R.calls) = R.calls[Len(R.calls)] /\ ~R.calls[1].ast
    BY <1>1, CallsAre DEF FramesFit
  <2> QED
    BY <2>1
<1>3. t = Rerouted(s, p, asts, active, calls)
  <2>1. t = [s EXCEPT !.proc[p].active = active, !.proc[p].calls = calls]
    BY DEF ASTReturned
  <2>2. s = [s EXCEPT !.proc[p].asts = asts]
    <3>1. R = [R EXCEPT !.asts = asts]
      BY <1>1 DEF ProcessRecord
    <3> HIDE DEF R, asts
    <3>2. s.proc = [s.proc EXCEPT ![p] = R] /\ s \in States
      BY <1>1 DEF Sound, States, R
    <3>3. s = [s EXCEPT !.proc = s.proc]
      BY <3>2 DEF States
    <3> QED
      BY <3>1, <3>2, <3>3 DEF R
  <2>3. Rerouted(s, p, asts, active, calls) =
          [[s EXCEPT !.proc[p].asts = asts] EXCEPT !.proc[p].active = active, !.proc[p].calls = calls]
    BY DEF Rerouted
  <2> HIDE DEF asts, active, calls
  <2> QED
    BY <2>2, <2>3, <2>1
<1>4. calls \in Seq(Frame) /\ ToSet(calls) \subseteq ToSet(s.proc[p].calls)
  BY <1>1, <1>2, FrontMembers
<1>5. active \in SUBSET Modes /\ asts \in [Modes -> Int]
  BY <1>1
<1> HIDE DEF active, calls, asts, R
<1> QED
  BY <1>3, <1>4, <1>5, ReroutedFits

\* $CLRAST, $CMKRNL and the return of its routine keep the events fit.
LEMMA RoutinesFit ==
  ASSUME IInv, EventsFit, NEW p \in Processes, Clrast(p) \/ Cmkrnl(p) \/ CmkrnlReturns(p)
  PROVE  EventsFit'
<1>1. Executes(p)
  BY DEF Clrast, Cmkrnl, CmkrnlReturns, Calls
<1>2. AtInstruction /\ p = cpu.current /\ Sound(os) /\ p \in Present(os)
  BY <1>1, ExecutesIs
<1>3. Fit(os, {p}) /\ os.proc[p].waiting = None
  BY <1>2, ExecutesFit, FitMore
<1>4. os.proc[p].calls \in Seq(Frame)
  BY <1>2, PresentFits
<1>5. CASE Clrast(p)
  <2> DEFINE s == ASTReturned(os, p)
  <2>1. Step(s, FALSE) /\ Last(os.proc[p].calls).ast
    BY <1>5 DEF Clrast, ASTReturned
  <2>2. Sound(s) /\ Fit(s, {p})
    BY <1>2, <1>3, <2>1, ClrastQuiet, ASTReturnedFits DEF Quietly
  <2> HIDE DEF s
  <2> QED
    BY <1>2, <2>1, <2>2, SteppedFits
<1>6. CASE Cmkrnl(p)
  <2> DEFINE f == [mode |-> Kernel, ast |-> FALSE, doing |-> None]
             calls == Append(os.proc[p].calls, f)
             s == Recalled(os, p, calls)
  <2>1. Step(s, FALSE)
    BY <1>6 DEF Cmkrnl, Recalled
  <2>2. f = [mode |-> Kernel, ast |-> FALSE, doing |-> None] /\ f \in Frame /\ f.doing = None
    BY DEF Frame, Modes, Kernel, Doings
  <2> HIDE DEF f
  <2>3. calls \in Seq(Frame) /\ ToSet(calls) = ToSet(os.proc[p].calls) \cup {f}
    <3>1. f \in Frame
      BY <2>2
    <3> QED
      BY <1>4, <3>1, MembersOfAppend
  <2>4. Sound(s)
    BY <1>2, <2>2, CmkrnlQuiet DEF Quietly
  <2>5. \A c \in ToSet(calls) : c \in ToSet(os.proc[p].calls) \/ c.doing = None
    BY <2>2, <2>3
  <2> HIDE DEF calls
  <2>6. Fit(s, {p})
    BY <1>2, <1>3, <2>3, <2>5, RecalledFits
  <2> HIDE DEF s
  <2> QED
    BY <1>2, <2>1, <2>4, <2>6, SteppedFits
<1>7. CASE CmkrnlReturns(p)
  <2> DEFINE calls == Front(os.proc[p].calls)
             s == Recalled(os, p, calls)
  <2>1. Step(s, FALSE) /\ ~Last(os.proc[p].calls).ast /\ Len(os.proc[p].calls) > 1
    BY <1>7 DEF CmkrnlReturns, Recalled
  <2>2. Sound(s)
    BY <1>2, <2>1, CmkrnlReturnsQuiet DEF Quietly
  <2>3. calls \in Seq(Frame) /\ \A c \in ToSet(calls) : c \in ToSet(os.proc[p].calls)
    BY <1>4, <2>1, FrontMembers
  <2> HIDE DEF calls
  <2>4. Fit(s, {p})
    BY <1>2, <1>3, <2>3, RecalledFits
  <2> HIDE DEF s
  <2> QED
    BY <1>2, <2>1, <2>2, <2>4, SteppedFits
<1> QED
  BY <1>5, <1>6, <1>7

-----------------------------------------------------------------------------
(* Timers.                                                                    *)

\* Who may have something new when the timers of the processes ps expire.
Struck(s, ps) == ps \cup UNION {Associates(s, n) : n \in {n \in Names : FiredIn(s, ps, n) # {}}}

\* Expiry leaves the mail and the calls, and is only news to those it strikes.
LEMMA ExpiredMinds ==
  ASSUME NEW s, Sound(s), NEW ps \in SUBSET Processes, NEW t, t = Expired(s, ps)
  PROVE  SameMail(s, t) /\ Minds(s, t, Struck(s, ps))
<1> DEFINE a == [p \in Processes |-> IF p \in ps THEN Fired(s.proc[p]) ELSE s.proc[p]]
           b == [n \in Names |-> IF s.clusters[n] = None THEN None
                                 ELSE [s.clusters[n] EXCEPT !.flags = s.clusters[n].flags \cup FiredIn(s, ps, n)]]
<1>1. s \in States /\ s.proc \in [Processes -> ProcessRecord] /\ s.clusters \in [Names -> Cluster \cup {None}]
  BY DEF Sound, States
<1>2. \A p \in Processes : a[p].calls = s.proc[p].calls
  <2> TAKE p \in Processes
  <2>1. s.proc[p] \in ProcessRecord
    BY <1>1
  <2> DEFINE P == s.proc[p]
  <2> HIDE DEF P
  <2>2. Fired(P).calls = P.calls
    BY <2>1 DEF Fired, ProcessRecord, P
  <2> QED
    BY <2>2 DEF P
<1>3. \A p \in Processes \ ps : a[p] = s.proc[p]
  OBVIOUS
<1>4. \A n \in Names : s.clusters[n] # None /\ FiredIn(s, ps, n) = {} => b[n].flags = s.clusters[n].flags
  BY <1>1 DEF Cluster
<1>5. t = [s EXCEPT !.proc = a, !.clusters = b]
  BY DEF Expired
<1> HIDE DEF a, b
<1>6. SameMail(s, t) /\ t.proc = a /\ t.clusters = b /\ t.io = s.io
  BY <1>1, <1>5 DEF States, SameMail
<1>7. SameCalls(s, t)
  BY <1>2, <1>6 DEF SameCalls
<1>8. Quiet(s, t)
  BY ExpiredQuiet
<1>9. ASSUME NEW p \in Present(s) \ Struck(s, ps)
      PROVE  /\ SameWaiter(s.proc[p], t.proc[p])
             /\ \A c \in Clusters :
                  LET n == s.proc[p].common[c] IN n # None => t.clusters[n].flags \subseteq s.clusters[n].flags
             /\ \A r \in Requests :
                  s.proc[p].waiting = [kind |-> "request", request |-> r] /\ t.io[r].done => s.io[r].done
  <2>1. p \in Processes \ ps
    BY DEF Struck, Present
  <2>2. t.proc[p] = s.proc[p]
    BY <1>3, <1>6, <2>1
  <2>3. ASSUME NEW c \in Clusters, NEW n, n = s.proc[p].common[c], n # None
        PROVE  t.clusters[n].flags \subseteq s.clusters[n].flags
    <3>1. n \in Names /\ s.clusters[n] \in Cluster
      BY <2>1, <2>3, ReachedCluster
    <3>2. s.clusters[n] # None
      BY <3>1, ProcessEventsAssumption
    <3>3. p \in Associates(s, n)
      BY <2>3 DEF Associates
    <3>4. FiredIn(s, ps, n) = {}
      BY <3>1, <3>3 DEF Struck
    <3> QED
      BY <1>4, <1>6, <3>1, <3>2, <3>4
  <2> QED
    BY <1>6, <2>2, <2>3 DEF SameWaiter
<1>10. Minds(s, t, Struck(s, ps))
  BY <1>7, <1>8, <1>9, QuietMinds
<1> QED
  BY <1>6, <1>10

\* A process's timers expire, and whoever that concerns has the event.
LEMMA ExpireTimersFits ==
  ASSUME NEW s, Sound(s), NEW p \in Processes, NEW ps, Fit(s, ps), NEW t, t = ExpireTimers(s, p)
  PROVE  Fit(t, ps)
<1> DEFINE u == Expired(s, {p})
           qs == Struck(s, {p})
<1>1. t = ReportTo(u, qs)
  BY DEF ExpireTimers, Struck
<1>2. qs \in SUBSET Processes
  BY DEF Associates, Present, Struck
<1>3. Quiet(s, u) /\ Sound(u) /\ SameMail(s, u) /\ Minds(s, u, qs)
  BY ExpiredQuiet, ExpiredMinds
<1> HIDE DEF u, qs
<1>4. SameMail(u, t) /\ SameCalls(u, t) /\ Overlooked(t) \subseteq Overlooked(u) \ qs
  BY <1>1, <1>2, <1>3, ReportToMinds
<1>5. Minds(s, t, {})
  BY <1>3, <1>4 DEF Minds, SameCalls
<1>6. SameMail(s, t)
  BY <1>3, <1>4, SameMailTransitive
<1>7. Quiet(s, t)
  BY ExpireTimersQuiet
<1>8. Fit(t, ps \cup {})
  BY <1>5, <1>6, <1>7, QuietFits
<1> QED
  BY <1>8, FitMore

\* Before an instruction the process's own timers expire, and its AST is called.
LEMMA NextASTFits ==
  ASSUME IInv, EventsFit, NEW p \in Processes, NextAST(p)
  PROVE  EventsFit'
<1> DEFINE s == ExpireTimers(os, p)
           t == CallAST(s, p)
<1>1. AtInstruction /\ p = cpu.current /\ Step(t, FALSE)
  BY DEF NextAST
<1>2. Sound(os) /\ p \in Present(os) /\ Fit(os, {}) /\ os.proc[p].waiting = None
  BY <1>1, CurrentIs, ExecutesFit
<1>3. Quiet(os, s) /\ Sound(s) /\ Fit(s, {})
  BY <1>2, ExpireTimersQuiet, ExpireTimersFits
<1> HIDE DEF s
<1>4. p \in Present(s) /\ s.proc[p].waiting = None
  BY <1>2, <1>3, QuietPresent DEF Quiet, Kept
<1>5. Fit(s, {p})
  BY <1>3, FitMore
<1>6. Fit(t, {p}) /\ Sound(t)
  BY <1>3, <1>4, <1>5, CallASTFits, CallASTQuiet DEF Quietly
<1> HIDE DEF t
<1> QED
  BY <1>1, <1>6, SteppedFits

-----------------------------------------------------------------------------
(* Common clusters given up and associated.                                   *)

\* Process p's clusters change, and no cluster that stays gains a flag: nobody else has news.
LEMMA SharedFits ==
  ASSUME NEW s, Sound(s), NEW p \in Processes, NEW ps, p \in ps, Fit(s, ps),
         NEW t, Sound(t), SameMail(s, t), Present(t) = Present(s),
         t.proc[p].calls = s.proc[p].calls, t.proc[p].waiting = s.proc[p].waiting,
         \A q \in Processes \ {p} : t.proc[q] = s.proc[q],
         \A n \in Names : t.clusters[n] = None \/ t.clusters[n].flags \subseteq s.clusters[n].flags
  PROVE  Fit(t, ps)
<1>1. MailFits(t, {}) /\ t.io = s.io
  BY SameMailFits DEF Fit, SameMail
<1>2. \A q \in Processes : t.proc[q].calls = s.proc[q].calls /\ t.proc[q].waiting = s.proc[q].waiting
  OBVIOUS
<1>3. AwaitFits(t)
  <2> SUFFICES ASSUME NEW q \in Processes, NEW r \in Requests
               PROVE  /\ Calling(t, q, r) => t.io[r] # None /\ t.io[r].owner = q
                      /\ t.proc[q].waiting = [kind |-> "request", request |-> r] => Calling(t, q, r)
    BY Zenon DEF AwaitFits
  <2>1. /\ Calling(s, q, r) => s.io[r] # None /\ s.io[r].owner = q
        /\ s.proc[q].waiting = [kind |-> "request", request |-> r] => Calling(s, q, r)
    BY DEF Fit, AwaitFits
  <2>2. Calling(t, q, r) <=> Calling(s, q, r)
    BY <1>2 DEF Calling
  <2> QED
    BY <1>1, <1>2, <2>1, <2>2
<1>4. \A q : Subprocesses(t, q) = Subprocesses(s, q)
  BY DEF Subprocesses
<1>5. ASSUME NEW q \in Overlooked(t), q # p
      PROVE  q \in Overlooked(s)
  <2>1. q \in Processes /\ t.proc[q] = s.proc[q]
    BY <1>5 DEF Overlooked, Present
  <2>2. SameWaiter(s.proc[q], t.proc[q])
    BY <2>1 DEF SameWaiter
  <2>3. ASSUME NEW c \in Clusters, NEW n, n = s.proc[q].common[c], n # None
        PROVE  t.clusters[n].flags \subseteq s.clusters[n].flags
    <3>1. n \in Names /\ t.clusters[n] \in Cluster
      BY <2>1, <2>3, ReachedCluster
    <3> QED
      BY <3>1, ProcessEventsAssumption
  <2>4. /\ q \in Present(t) => q \in Present(s)
        /\ \A c \in Clusters :
             LET n == s.proc[q].common[c] IN n # None => t.clusters[n].flags \subseteq s.clusters[n].flags
        /\ \A r \in Requests :
             s.proc[q].waiting = [kind |-> "request", request |-> r] /\ t.io[r].done => s.io[r].done
        /\ Subprocesses(t, q) = {} => Subprocesses(s, q) = {}
    BY <1>1, <1>4, <2>3
  <2> QED
    BY <2>1, <2>2, <2>4, NoNews
<1> QED
  BY <1>1, <1>3, <1>5 DEF Fit

\* Giving up clusters leaves the mail, the calls, and the flags of the clusters that stay.
LEMMA DisassociateShares ==
  ASSUME NEW s, Sound(s), NEW p \in Processes, NEW cs \in SUBSET Clusters, NEW t, t = Disassociate(s, p, cs)
  PROVE  /\ SameMail(s, t) /\ SameCalls(s, t)
         /\ \A q \in Processes : t.proc[q].waiting = s.proc[q].waiting
         /\ \A n \in Names : t.clusters[n] = None \/ t.clusters[n].flags = s.clusters[n].flags
<1> DEFINE had(n) == {c \in cs : s.proc[p].common[c] = n}
           k(n) == Cardinality(had(n))
           a == [s.proc EXCEPT ![p] = Without(s.proc[p], cs)]
           d(n) == [s.clusters[n] EXCEPT !.refs = s.clusters[n].refs - k(n)]
           b == [n \in Names |-> IF had(n) = {} THEN s.clusters[n] ELSE DeleteIfUnused(d(n))]
<1>1. s \in States /\ s.proc \in [Processes -> ProcessRecord] /\ s.clusters \in [Names -> Cluster \cup {None}]
  BY DEF Sound, States
<1>2. t = [s EXCEPT !.proc = a, !.clusters = b]
  BY <1>1 DEF Disassociate, Without, States
<1> HIDE DEF a
<1>3. ASSUME NEW n \in Names
      PROVE  b[n] = None \/ b[n].flags = s.clusters[n].flags
  <2>1. CASE had(n) = {}
    BY <2>1
  <2>2. CASE had(n) # {}
    <3> DEFINE c == s.clusters[n]
               x == c.refs - k(n)
    <3>1. c \in Cluster
      <4>1. c # None
        <5>1. PICK e \in had(n) : TRUE
          BY <2>2
        <5>2. <<p, e>> \in Processes \X Clusters /\ <<p, e>>[1] = p /\ <<p, e>>[2] = e
          OBVIOUS
        <5>3. <<p, e>> \in Uses(s, n)
          BY <5>1, <5>2 DEF Uses
        <5> QED
          BY <5>3 DEF Sound, ClusterFits
      <4> QED
        BY <1>1, <4>1
    <3>2. b[n] = DeleteIfUnused([c EXCEPT !.refs = x])
      BY <2>2
    <3> HIDE DEF c, x, b
    <3>3. [c EXCEPT !.refs = x].flags = c.flags
      BY <3>1 DEF Cluster
    <3>4. b[n] = None \/ b[n] = [c EXCEPT !.refs = x]
      BY <3>2 DEF DeleteIfUnused
    <3> QED
      BY <3>3, <3>4 DEF c
  <2> QED
    BY <2>1, <2>2
<1> HIDE DEF b
<1>4. SameMail(s, t) /\ t.clusters = b
  BY <1>1, <1>2 DEF States, SameMail
<1>5. /\ t.proc[p] = Without(s.proc[p], cs)
      /\ \A q \in Processes \ {p} : t.proc[q] = s.proc[q]
  BY DisassociateSound
<1>6. s.proc[p] \in ProcessRecord /\ ProcessFits(s.proc[p])
  BY <1>1 DEF Sound
<1>7. Without(s.proc[p], cs).waiting = s.proc[p].waiting /\ Without(s.proc[p], cs).calls = s.proc[p].calls
  BY <1>6, WithoutIs
<1> QED
  BY <1>3, <1>4, <1>5, <1>7 DEF SameCalls

\* And leaves the state fit.
LEMMA DisassociateFits ==
  ASSUME NEW s, Sound(s), NEW p \in Processes, NEW ps, p \in ps, Fit(s, ps), NEW cs \in SUBSET Clusters,
         NEW t, t = Disassociate(s, p, cs)
  PROVE  Fit(t, ps)
<1>1. Sound(t) /\ Present(t) = Present(s) /\ \A q \in Processes \ {p} : t.proc[q] = s.proc[q]
  BY DisassociateSound DEF Steadily
<1>2. /\ SameMail(s, t) /\ t.proc[p].calls = s.proc[p].calls /\ t.proc[p].waiting = s.proc[p].waiting
      /\ \A n \in Names : t.clusters[n] = None \/ t.clusters[n].flags \subseteq s.clusters[n].flags
  BY DisassociateShares DEF SameCalls
<1> QED
  BY <1>1, <1>2, SharedFits

\* Joining a cluster leaves the state fit.
LEMMA AssociatedFits ==
  ASSUME NEW s, Sound(s), NEW p \in Present(s), NEW ps, p \in ps, Fit(s, ps),
         NEW c \in Clusters, NEW n \in Names, NEW d \in Cluster,
         d.flags = {} \/ d = s.clusters[n],
         NEW t, t = Associated(s, p, c, n, d), Steadily(s, t)
  PROVE  Fit(t, ps)
<1> DEFINE e == [d EXCEPT !.refs = d.refs + 1]
           P == With(s.proc[p], c, n)
           b == [s.clusters EXCEPT ![n] = e]
           a == [s.proc EXCEPT ![p] = P]
<1>1. /\ s \in States /\ s.proc \in [Processes -> ProcessRecord] /\ p \in Processes
      /\ s.clusters \in [Names -> Cluster \cup {None}] /\ s.proc[p] \in ProcessRecord
  BY DEF Sound, States, Present
<1>2. t = [s EXCEPT !.clusters = b, !.proc = a]
  BY DEF Associated, With
<1>3. P.calls = s.proc[p].calls /\ P.waiting = s.proc[p].waiting
  BY <1>1 DEF With, ProcessRecord
<1>4. e.flags = d.flags
  BY DEF Cluster
<1> HIDE DEF e, P
<1>5. /\ b[n] = e /\ \A m \in Names \ {n} : b[m] = s.clusters[m]
      /\ a[p] = P /\ \A q \in Processes \ {p} : a[q] = s.proc[q]
  BY <1>1
<1> HIDE DEF a, b
<1>6. SameMail(s, t) /\ t.clusters = b /\ t.proc = a
  BY <1>1, <1>2 DEF States, SameMail
<1>7. \A m \in Names : t.clusters[m] = None \/ t.clusters[m].flags \subseteq s.clusters[m].flags
  <2>1. e.flags \subseteq s.clusters[n].flags
    BY <1>4
  <2> QED
    BY <1>5, <1>6, <2>1
<1>8. Sound(t) /\ Present(t) = Present(s)
  BY DEF Steadily
<1> QED
  BY <1>1, <1>3, <1>5, <1>6, <1>7, <1>8, SharedFits

\* $ASCEFC keeps the events fit.
LEMMA AscefcFits ==
  ASSUME IInv, EventsFit, NEW p \in Processes, NEW call \in system.requests[p], Ascefc(p, call)
  PROVE  EventsFit'
<1> DEFINE c == call.cluster
           n == call.name
           d == Base(os, n, call.permanent)
           u == Disassociate(os, p, {c})
           t == Associated(u, p, c, n, d)
           v == Joined(Disassociate(Ready(os, n, call.permanent), p, {c}), p, c, n)
<1>1. AtInstruction /\ p = cpu.current /\ Sound(os) /\ p \in Present(os)
  <2>1. Executes(p)
    BY DEF Ascefc, Calls
  <2> QED
    BY <2>1, ExecutesIs
<1>2. c \in Clusters /\ n \in Names /\ call.permanent \in BOOLEAN
  <2>1. call \in Call /\ call.svc = "ASCEFC"
    BY RequestsAre DEF Ascefc
  <2> QED
    BY <2>1 DEF Call
<1>3. Step(v, FALSE) /\ (os.clusters[n] = None \/ os.proc[p].common[c] # n)
  BY DEF Ascefc, Ready, Base, Joined
<1> HIDE DEF v
<1>4. t = v
  BY <1>1, <1>2, <1>3, AscefcIs DEF v
<1> HIDE DEF u
<1>5. /\ Steadily(os, u) /\ u.proc[p] = Without(os.proc[p], {c})
      /\ (\A e \in {c} : os.proc[p].common[e] # n) => u.clusters[n] = os.clusters[n]
  BY <1>1, <1>2, DisassociateSound DEF u
<1>6. os.proc[p].common[c] # n
  <2>1. CASE os.clusters[n] = None
    <3>1. Uses(os, n) = {}
      BY <1>1, <1>2, <2>1 DEF Sound, ClusterFits
    <3>2. <<p, c>> \in Processes \X Clusters /\ <<p, c>>[1] = p /\ <<p, c>>[2] = c
      BY <1>2
    <3> QED
      BY <3>1, <3>2 DEF Uses
  <2> QED
    BY <1>3, <2>1
<1>7. u.clusters[n] = os.clusters[n]
  BY <1>5, <1>6
<1>8. /\ d \in Cluster /\ (u.clusters[n] = None => d.refs = 0) /\ (u.clusters[n] # None => d = u.clusters[n])
      /\ d.flags = {} \/ d = u.clusters[n]
  <2>1. os.clusters[n] \in Cluster \cup {None}
    BY <1>1, <1>2 DEF Sound, States
  <2>2. [flags |-> {}, refs |-> 0, permanent |-> call.permanent, marked |-> FALSE] \in Cluster
    BY <1>2 DEF Cluster
  <2> QED
    BY <1>7, <2>1, <2>2 DEF Base
<1>9. Sound(u) /\ p \in Present(u) /\ u.proc[p].common[c] = None
  <2>1. os.proc[p] \in ProcessRecord /\ ProcessFits(os.proc[p])
    BY <1>1 DEF Sound, States
  <2>2. \A e \in Clusters : u.proc[p].common[e] = IF e \in {c} THEN None ELSE os.proc[p].common[e]
    BY <1>5, <2>1, WithoutIs
  <2> QED
    BY <1>1, <1>2, <1>5, <2>2 DEF Steadily
<1>10. Fit(os, {p})
  BY <1>1, ExecutesFit, FitMore
<1>11. Fit(u, {p})
  BY <1>1, <1>2, <1>10, DisassociateFits DEF u
<1> HIDE DEF d, t
<1>12. Steadily(u, t)
  BY <1>2, <1>8, <1>9, AssociatedSound DEF t
<1>13. Fit(t, {p})
  BY <1>2, <1>8, <1>9, <1>11, <1>12, AssociatedFits DEF t
<1>14. Sound(t)
  BY <1>12 DEF Steadily
<1> QED
  BY <1>1, <1>3, <1>4, <1>13, <1>14, SteppedFits

\* $DACEFC and $DLCEFC keep the events fit.
LEMMA GiveUpFits ==
  ASSUME IInv, EventsFit, NEW p \in Processes,
         (\E c \in Clusters : Dacefc(p, c)) \/ (\E n \in Names : Dlcefc(p, n))
  PROVE  EventsFit'
<1>1. AtInstruction /\ p = cpu.current /\ Sound(os) /\ Fit(os, {p})
  <2>1. Executes(p)
    BY DEF Dacefc, Dlcefc, Calls
  <2>2. AtInstruction /\ p = cpu.current
    BY <2>1, ExecutesIs
  <2> QED
    BY <2>1, <2>2, ExecutesIs, ExecutesFit, FitMore
<1>2. ASSUME NEW c \in Clusters, Dacefc(p, c)
      PROVE  EventsFit'
  <2> DEFINE t == Disassociate(os, p, {c})
  <2>1. Step(t, FALSE)
    BY <1>2 DEF Dacefc
  <2>2. Sound(t)
    BY <1>1, DisassociateSound DEF Steadily
  <2>3. Fit(t, {p})
    BY <1>1, DisassociateFits
  <2> HIDE DEF t
  <2> QED
    BY <1>1, <2>1, <2>2, <2>3, SteppedFits
<1>3. ASSUME NEW n \in Names, Dlcefc(p, n)
      PROVE  EventsFit'
  <2> DEFINE c == os.clusters[n]
             x == DeleteIfUnused([c EXCEPT !.marked = TRUE])
             b == [os.clusters EXCEPT ![n] = x]
             t == [os EXCEPT !.clusters[n] = x]
  <2>1. Step(t, FALSE) /\ c # None
    BY <1>3 DEF Dlcefc
  <2>2. Sound(t) /\ t.proc = os.proc
    BY <1>1, <2>1, ClusterMarkedSound DEF Steadily
  <2>3. os \in States /\ os.clusters \in [Names -> Cluster \cup {None}] /\ c \in Cluster
    BY <1>1, <2>1 DEF Sound, States
  <2>4. x = None \/ x.flags = c.flags
    BY <2>3 DEF DeleteIfUnused, Cluster
  <2>5. t = [os EXCEPT !.clusters = b]
    OBVIOUS
  <2> HIDE DEF x
  <2>6. b[n] = x /\ \A m \in Names \ {n} : b[m] = os.clusters[m]
    BY <2>3
  <2> HIDE DEF b, t
  <2>7. SameMail(os, t) /\ t.clusters = b
    BY <2>3, <2>5 DEF States, SameMail
  <2>8. \A m \in Names : t.clusters[m] = None \/ t.clusters[m].flags \subseteq os.clusters[m].flags
    BY <2>4, <2>6, <2>7
  <2>9. Present(t) = Present(os)
    BY <2>2 DEF Present
  <2>10. Fit(t, {p})
    BY <1>1, <2>2, <2>7, <2>8, <2>9, SharedFits
  <2> QED
    BY <1>1, <2>1, <2>2, <2>10, SteppedFits
<1> QED
  BY <1>2, <1>3

-----------------------------------------------------------------------------
(* Suspension and deletion.                                                   *)

\* A process suspended is not overlooked, whatever it waits for.
LEMMA SuspndFits ==
  ASSUME IInv, EventsFit, NEW p \in Processes, NEW q \in Targets, Suspnd(p, q)
  PROVE  EventsFit'
<1> DEFINE t == Suspend(os, q)
<1>1. AtInstruction /\ p = cpu.current /\ Sound(os) /\ Step(t, FALSE) /\ q \in Present(os) /\ q \in Processes
  <2>1. Executes(p)
    BY DEF Suspnd, Calls
  <2> QED
    BY <2>1, ExecutesIs DEF Suspnd, Targets, Present
<1>2. Steadily(os, t)
  BY <1>1, SuspendSound
<1>3. Fit(os, {p})
  BY <1>1, ExecutesFit, FitMore
<1>4. CASE os.proc[q].suspended
  <2>1. t = os
    BY <1>4 DEF Suspend
  <2> QED
    BY <1>1, <1>3, <2>1, SteppedFits
<1>5. CASE ~os.proc[q].suspended
  <2> DEFINE P == [os.proc[q] EXCEPT !.suspended = TRUE,
                                     !.state = IF Waits(os, q) THEN os.proc[q].state ELSE "SUSP"]
  <2>1. t = [os EXCEPT !.proc[q] = P]
    BY <1>5 DEF Suspend
  <2>2. os \in States /\ os.proc[q] \in ProcessRecord
    BY <1>1 DEF Sound, States
  <2>3. P.suspended /\ P.calls = os.proc[q].calls /\ P.waiting = os.proc[q].waiting
    BY <2>2 DEF ProcessRecord
  <2> HIDE DEF P, t
  <2>4. /\ SameMail(os, t) /\ t.clusters = os.clusters /\ t.proc[q] = P
        /\ \A r \in Processes \ {q} : t.proc[r] = os.proc[r]
    BY <1>1, <2>1, <2>2 DEF States, SameMail
  <2>5. \A r \in Requests : /\ Calling(t, q, r) => Calling(os, q, r)
                            /\ t.proc[q].waiting = [kind |-> "request", request |-> r] => Calling(t, q, r)
    <3>1. \A r \in Requests : os.proc[q].waiting = [kind |-> "request", request |-> r] => Calling(os, q, r)
      BY <1>1, <1>3 DEF Fit, AwaitFits
    <3> QED
      BY <2>3, <2>4, <3>1 DEF Calling
  <2>6. Fit(os, {p, q})
    BY <1>3, FitMore
  <2>7. Fit(t, {p, q})
    BY <1>1, <1>2, <2>4, <2>5, <2>6, AloneFits DEF Steadily
  <2>8. q \notin Overlooked(t)
    BY <2>3, <2>4 DEF Overlooked
  <2>9. Fit(t, {p})
    BY <2>7, <2>8 DEF Fit
  <2> QED
    BY <1>1, <1>2, <2>9, SteppedFits DEF Steadily
<1> QED
  BY <1>4, <1>5

\* Nobody calls anything new, and who waits for a request is still calling it.
LEMMA CallsLeftFit ==
  ASSUME NEW s, Fit(s, Processes), NEW t, SameMail(s, t),
         \A p \in Processes : \A r \in Requests :
           /\ Calling(t, p, r) => Calling(s, p, r)
           /\ t.proc[p].waiting = [kind |-> "request", request |-> r] => Calling(t, p, r)
  PROVE  Fit(t, Processes)
<1>1. MailFits(t, {}) /\ t.io = s.io
  BY SameMailFits DEF Fit, SameMail
<1>2. AwaitFits(t)
  <2> SUFFICES ASSUME NEW p \in Processes, NEW r \in Requests
               PROVE  /\ Calling(t, p, r) => t.io[r] # None /\ t.io[r].owner = p
                      /\ t.proc[p].waiting = [kind |-> "request", request |-> r] => Calling(t, p, r)
    BY Zenon DEF AwaitFits
  <2>1. Calling(s, p, r) => s.io[r] # None /\ s.io[r].owner = p
    BY DEF Fit, AwaitFits
  <2> QED
    BY <1>1, <2>1
<1> QED
  BY <1>1, <1>2 DEF Fit, Overlooked, Present

\* Nobody's calls change, and nobody begins to wait.
LEMMA WaitsLeftFit ==
  ASSUME NEW s, Fit(s, Processes), NEW t, SameMail(s, t),
         \A p \in Processes : /\ t.proc[p].calls = s.proc[p].calls
                              /\ t.proc[p].waiting \in {None, s.proc[p].waiting}
  PROVE  Fit(t, Processes)
<1>1. ASSUME NEW p \in Processes, NEW r \in Requests
      PROVE  /\ Calling(t, p, r) => Calling(s, p, r)
             /\ t.proc[p].waiting = [kind |-> "request", request |-> r] => Calling(t, p, r)
  <2>1. Calling(t, p, r) <=> Calling(s, p, r)
    BY DEF Calling
  <2>2. [kind |-> "request", request |-> r] \in Wait
    BY DEF Wait
  <2>3. [kind |-> "request", request |-> r] # None
    BY <2>2, ProcessEventsAssumption
  <2>4. s.proc[p].waiting = [kind |-> "request", request |-> r] => Calling(s, p, r)
    BY DEF Fit, AwaitFits
  <2> QED
    BY <2>1, <2>3, <2>4
<1> QED
  BY <1>1, CallsLeftFit

\* A process resumed waits for what it did, in what it called.
LEMMA ResumedCalls ==
  ASSUME NEW P \in ProcessRecord
  PROVE  /\ Resumed(P) \in ProcessRecord
         /\ Resumed(P).calls = P.calls /\ Resumed(P).waiting = P.waiting
<1>1. CASE P.suspended
  <2> DEFINE x == IF P.waiting # None THEN P.state ELSE "computable"
  <2>1. Resumed(P) = [P EXCEPT !.suspended = FALSE, !.state = x]
    BY <1>1 DEF Resumed
  <2>2. x \in {"computable", "SUSP", "gone", "HIB", "LEF", "CEF", "MWAIT"}
    BY DEF ProcessRecord
  <2> HIDE DEF x
  <2> QED
    BY <2>1, <2>2 DEF ProcessRecord
<1>2. CASE ~P.suspended
  BY <1>2 DEF Resumed
<1> QED
  BY <1>1, <1>2

\* Marking for deletion leaves the mail and the calls, and only ends waits; and where all
\* are marked it leaves every process as it is.
LEMMA MarkShares ==
  ASSUME NEW s, Sound(s), NEW ps, NEW t, t = MarkForDeletion(s, ps)
  PROVE  /\ SameMail(s, t) /\ SameCalls(s, t) /\ t.clusters = s.clusters
         /\ \A p \in Processes : t.proc[p].waiting \in {None, s.proc[p].waiting}
         /\ Unmarked(s, ps) = {} => \A p \in Processes : t.proc[p] = s.proc[p]
<1> DEFINE U == Unmarked(s, ps)
           W == {p \in U : Waits(s, p)}
           u == Marked(s, ps)
           m(p) == [Resumed(s.proc[p]) EXCEPT !.marked = TRUE]
<1>1. s \in States /\ s.proc \in [Processes -> ProcessRecord]
  BY DEF Sound, States
<1>2. /\ \A p \in Processes : u.proc[p] = IF p \in U THEN m(p) ELSE s.proc[p]
      /\ SameMail(s, u) /\ u.clusters = s.clusters
  BY <1>1 DEF Marked, States, SameMail
<1>3. /\ \A p \in Processes :
           t.proc[p] = IF p \in W THEN [u.proc[p] EXCEPT !.waiting = None, !.state = "computable"] ELSE u.proc[p]
      /\ SameMail(u, t) /\ t.clusters = u.clusters
  BY <1>1 DEF MarkForDeletion, EndWaits, States, Marked, SameMail
<1>4. ASSUME NEW p \in Processes
      PROVE  m(p) \in ProcessRecord /\ m(p).calls = s.proc[p].calls /\ m(p).waiting = s.proc[p].waiting
  <2> DEFINE R == Resumed(s.proc[p])
  <2>1. R \in ProcessRecord /\ R.calls = s.proc[p].calls /\ R.waiting = s.proc[p].waiting
    BY <1>1, ResumedCalls
  <2> HIDE DEF R
  <2>2. [R EXCEPT !.marked = TRUE] \in ProcessRecord /\ [R EXCEPT !.marked = TRUE].calls = R.calls
        /\ [R EXCEPT !.marked = TRUE].waiting = R.waiting
    BY <2>1 DEF ProcessRecord
  <2> QED
    BY <2>1, <2>2 DEF R
<1> HIDE DEF m, u
<1>5. ASSUME NEW p \in Processes
      PROVE  t.proc[p].calls = s.proc[p].calls /\ t.proc[p].waiting \in {None, s.proc[p].waiting}
  <2> DEFINE R == u.proc[p]
  <2>1. R \in ProcessRecord /\ R.calls = s.proc[p].calls /\ R.waiting = s.proc[p].waiting
    BY <1>1, <1>2, <1>4
  <2>2. t.proc[p] = IF p \in W THEN [R EXCEPT !.waiting = None, !.state = "computable"] ELSE R
    BY <1>3
  <2> HIDE DEF R, W
  <2> QED
    BY <2>1, <2>2 DEF ProcessRecord
<1>6. SameMail(s, t)
  BY <1>2, <1>3, SameMailTransitive
<1>7. U = {} => \A p \in Processes : t.proc[p] = s.proc[p]
  BY <1>2, <1>3
<1> QED
  BY <1>2, <1>3, <1>5, <1>6, <1>7 DEF SameCalls

\* $RESUME looks at the waiters again, if it resumed.
LEMMA ResumeProcessFits ==
  ASSUME IInv, EventsFit, NEW p \in Processes, NEW q \in Targets, ResumeProcess(p, q)
  PROVE  EventsFit'
<1> DEFINE t == Resume(os, q)
           asks == os.proc[q].suspended
           P == Resumed(os.proc[q])
<1>1. /\ AtInstruction /\ p = cpu.current /\ Sound(os) /\ Step(t, asks)
      /\ q \in Present(os) /\ q \in Processes
  <2>1. Executes(p)
    BY DEF ResumeProcess, Calls
  <2> QED
    BY <2>1, ExecutesIs DEF ResumeProcess, Targets, Present
<1>2. Steadily(os, t)
  BY <1>1, ResumeSound
<1>3. os \in States /\ os.proc \in [Processes -> ProcessRecord]
  BY <1>1 DEF Sound, States
<1>4. P.calls = os.proc[q].calls /\ P.waiting = os.proc[q].waiting /\ (~asks => P = os.proc[q])
  BY <1>1, <1>3, ResumedCalls DEF Resumed
<1>5. t = [os EXCEPT !.proc[q] = P]
  BY DEF Resume
<1> HIDE DEF P, t
<1>6. /\ SameMail(os, t) /\ t.clusters = os.clusters /\ t.proc[q] = P
      /\ \A r \in Processes \ {q} : t.proc[r] = os.proc[r]
  BY <1>1, <1>3, <1>5 DEF States, SameMail
<1>7. Sound(t)
  BY <1>2 DEF Steadily
<1>8. CASE asks
  <2>1. Fit(os, Processes)
    BY <1>1, ExecutesFit, FitMore
  <2>2. Fit(t, Processes)
    BY <1>4, <1>6, <2>1, WaitsLeftFit
  <2> QED
    BY <1>1, <1>7, <1>8, <2>2, StepFits
<1>9. CASE ~asks
  <2>1. Fit(os, {p})
    BY <1>1, ExecutesFit, FitMore
  <2>2. \A r \in Processes : t.proc[r] = os.proc[r]
    BY <1>4, <1>6, <1>9
  <2>3. Present(t) = Present(os) /\ \A r \in Requests : Calling(t, p, r) <=> Calling(os, p, r)
    BY <2>2 DEF Present, Calling
  <2>4. \A r \in Requests : t.proc[p].waiting = [kind |-> "request", request |-> r] => Calling(t, p, r)
    BY <2>1, <2>2, <2>3 DEF Fit, AwaitFits
  <2>5. Fit(t, {p})
    BY <1>1, <1>6, <2>1, <2>2, <2>3, <2>4, AloneFits
  <2> QED
    BY <1>1, <1>7, <2>5, SteppedFits
<1> QED
  BY <1>8, <1>9

\* Rundown completes a process's requests, gives up its clusters, and takes its calls.
LEMMA RundownFits ==
  ASSUME NEW s, Sound(s), Fit(s, Processes), NEW p \in Processes, NEW current, NEW t, t = Rundown(s, p, current)
  PROVE  Fit(t, Processes)
<1> DEFINE u == CancelIO(s, p)
           v == Disassociate(u, p, Clusters)
           m == IF p = current THEN v.memory ELSE v.memory \ {p}
           n == IF Waits(v, p) THEN v.waiters - 1 ELSE v.waiters
           a == [v.proc EXCEPT ![p] = NoProcess]
<1>1. t = [v EXCEPT !.waiters = n, !.proc[p] = NoProcess, !.memory = m]
  BY DEF Rundown
<1> HIDE DEF u, m, n
<1>2. Gently(s, u) /\ MailFits(u, {})
  BY CancelIOMail DEF Fit, u
<1>3. Fit(u, Processes) /\ Sound(u)
  BY <1>2, GentlyFits DEF Gently, Quietly
<1> HIDE DEF v
<1>4. Fit(v, Processes) /\ Sound(v)
  BY <1>3, DisassociateFits, DisassociateSound DEF v, Steadily
<1>5. v \in States /\ v.proc \in [Processes -> ProcessRecord]
  BY <1>4 DEF Sound, States
<1>6. t = [v EXCEPT !.waiters = n, !.proc = a, !.memory = m]
  BY <1>1, <1>5 DEF States
<1>7. a[p] = NoProcess /\ \A q \in Processes \ {p} : a[q] = v.proc[q]
  BY <1>5
<1> HIDE DEF a
<1>8. SameMail(v, t) /\ t.proc = a
  BY <1>5, <1>6 DEF States, SameMail
<1>9. NoProcess.calls = <<>> /\ NoProcess.waiting = None
  BY DEF NoProcess, NewProcess
<1>10. ASSUME NEW q \in Processes, NEW r \in Requests
       PROVE  /\ Calling(t, q, r) => Calling(v, q, r)
              /\ t.proc[q].waiting = [kind |-> "request", request |-> r] => Calling(t, q, r)
  <2>1. CASE q = p
    <3>1. ~Calling(t, q, r)
      BY <1>7, <1>8, <1>9, <2>1 DEF Calling, ToSet
    <3>2. [kind |-> "request", request |-> r] \in Wait
      BY DEF Wait
    <3>3. t.proc[q].waiting # [kind |-> "request", request |-> r]
      BY <1>7, <1>8, <1>9, <2>1, <3>2, ProcessEventsAssumption
    <3> QED
      BY <3>1, <3>3
  <2>2. CASE q # p
    <3>1. t.proc[q] = v.proc[q]
      BY <1>7, <1>8, <2>2
    <3>2. v.proc[q].waiting = [kind |-> "request", request |-> r] => Calling(v, q, r)
      BY <1>4 DEF Fit, AwaitFits
    <3> QED
      BY <3>1, <3>2 DEF Calling
  <2> QED
    BY <2>1, <2>2
<1> QED
  BY <1>4, <1>8, <1>10, CallsLeftFit

\* A process that has subprocesses waits for them, having marked them.
LEMMA AwaitSubprocessesFits ==
  ASSUME NEW s, Sound(s), NEW p \in Present(s) \ {Console}, ~Waits(s, p), Fit(s, Processes),
         NEW t, t = AwaitSubprocesses(s, p)
  PROVE  Fit(t, Processes)
<1> DEFINE ps == Subprocesses(s, p)
           u == MarkForDeletion(s, ps)
           v == MarkedAt(u, p)
           w == [kind |-> "subprocesses"]
<1>1. p \in Processes /\ Console \notin ps /\ p \notin ps
  BY ProcessesAssumption DEF Present, Subprocesses
<1>2. t = EnterWait(v, p, w)
  BY DEF AwaitSubprocesses, MarkedAt
<1>3. w \in Wait /\ w.kind = "subprocesses" /\ \A r : w # [kind |-> "request", request |-> r]
  BY DEF Wait
<1> HIDE DEF ps, u, v
<1>4. Steadily(s, u) /\ u.proc[p] = s.proc[p]
  BY <1>1, MarkForDeletionSound DEF u
<1>5. Fit(u, Processes)
  BY MarkShares, WaitsLeftFit DEF SameCalls, u
<1>6. Sound(u) /\ p \in Present(u) \ {Console} /\ ~Waits(u, p) /\ v = MarkedAt(u, p)
  BY <1>4 DEF Steadily, Waits, v
<1>7. Steadily(u, v) /\ \A q \in Processes \ {p} : v.proc[q] = u.proc[q]
  BY <1>6, MarkSound
<1>8. Fit(v, Processes)
  <2> DEFINE P == [u.proc[p] EXCEPT !.marked = TRUE]
  <2>1. u \in States /\ u.proc[p] \in ProcessRecord
    BY <1>1, <1>6 DEF Sound, States
  <2>2. P.calls = u.proc[p].calls /\ P.waiting = u.proc[p].waiting
    BY <2>1 DEF ProcessRecord
  <2>3. v = [u EXCEPT !.proc[p] = P]
    BY <1>6 DEF MarkedAt
  <2> HIDE DEF P
  <2>4. SameMail(u, v) /\ v.proc[p] = P
    BY <1>1, <2>1, <2>3 DEF States, SameMail
  <2> QED
    BY <1>5, <1>7, <2>2, <2>4, WaitsLeftFit
<1>9. Sound(v) /\ p \in Present(v)
  BY <1>6, <1>7 DEF Steadily
<1>10. Steadily(s, t)
  BY AwaitSubprocessesSound
<1>11. Present(t) = Present(v)
  BY <1>4, <1>7, <1>10 DEF Steadily
<1> HIDE DEF w
<1> QED
  BY <1>1, <1>2, <1>3, <1>8, <1>9, <1>11, EnterWaitFits

\* Either way of deleting a process leaves the state fit, all waiters to be looked at.
LEMMA DeleteProcessFits ==
  ASSUME NEW s, Sound(s), NEW p \in Present(s) \ {Console}, ~Waits(s, p), Fit(s, Processes), NEW current,
         NEW t, t = DeleteProcess(s, p, current)
  PROVE  Fit(t, Processes)
<1>1. p \in Processes
  BY DEF Present
<1> QED
  BY <1>1, RundownFits, AwaitSubprocessesFits DEF DeleteProcess

\* $DELPRC has every waiter looked at, unless its process was marked before.
LEMMA DelprcFits ==
  ASSUME IInv, EventsFit, NEW p \in Processes, NEW q \in Targets, Delprc(p, q)
  PROVE  EventsFit'
<1>1. /\ AtInstruction /\ p = cpu.current /\ Sound(os) /\ q \in Present(os) \ {Console} /\ ~Waits(os, p)
      /\ Fit(os, {p}) /\ Fit(os, Processes)
  <2>1. Executes(p)
    BY DEF Delprc, Calls
  <2>2. AtInstruction
    BY <2>1, ExecutesIs
  <2>3. Fit(os, {p}) /\ Fit(os, Processes)
    BY <2>2, ExecutesFit, FitMore
  <2> QED
    BY <2>1, <2>3, ExecutesIs, CurrentIs, ComputesIs DEF Delprc, Targets
<1>2. CASE q = p
  <2> DEFINE t == DeleteProcess(os, p, p)
  <2>1. Step(t, TRUE) /\ p \in Present(os) \ {Console}
    BY <1>1, <1>2 DEF Delprc
  <2>2. Sound(t)
    BY <1>1, <2>1, DeleteProcessSound
  <2>3. Fit(t, Processes)
    BY <1>1, <2>1, DeleteProcessFits
  <2> HIDE DEF t
  <2> QED
    BY <1>1, <2>1, <2>2, <2>3, StepFits
<1>3. CASE q # p
  <2> DEFINE t == MarkForDeletion(os, {q})
             asks == ~os.proc[q].marked
  <2>1. Step(t, asks) /\ Console \notin {q}
    BY <1>1, <1>3 DEF Delprc
  <2>2. Steadily(os, t)
    BY <1>1, <2>1, MarkForDeletionSound
  <2>3. /\ SameMail(os, t) /\ SameCalls(os, t) /\ t.clusters = os.clusters
        /\ \A r \in Processes : t.proc[r].waiting \in {None, os.proc[r].waiting}
        /\ Unmarked(os, {q}) = {} => \A r \in Processes : t.proc[r] = os.proc[r]
    <3> DEFINE ps == {q}
    <3>1. t = MarkForDeletion(os, ps)
      OBVIOUS
    <3> HIDE DEF t, ps
    <3>2. /\ SameMail(os, t) /\ SameCalls(os, t) /\ t.clusters = os.clusters
          /\ \A r \in Processes : t.proc[r].waiting \in {None, os.proc[r].waiting}
          /\ Unmarked(os, ps) = {} => \A r \in Processes : t.proc[r] = os.proc[r]
      BY <1>1, <3>1, MarkShares
    <3> QED
      BY <3>2 DEF ps
  <2> HIDE DEF t
  <2>4. CASE asks
    <3>1. Fit(t, Processes)
      BY <1>1, <2>3, WaitsLeftFit DEF SameCalls
    <3> QED
      BY <1>1, <2>1, <2>2, <2>4, <3>1, StepFits DEF Steadily
  <2>5. CASE ~asks
    <3>1. \A r \in Processes : t.proc[r] = os.proc[r]
      BY <2>3, <2>5 DEF Unmarked
    <3>2. Present(t) = Present(os) /\ \A r \in Requests : Calling(t, p, r) <=> Calling(os, p, r)
      BY <3>1 DEF Present, Calling
    <3>3. \A r \in Requests : t.proc[p].waiting = [kind |-> "request", request |-> r] => Calling(t, p, r)
      BY <1>1, <3>1, <3>2 DEF Fit, AwaitFits
    <3>4. Fit(t, {p})
      BY <1>1, <2>3, <3>1, <3>2, <3>3, AloneFits
    <3> QED
      BY <1>1, <2>1, <2>2, <3>4, SteppedFits DEF Steadily
  <2> QED
    BY <2>4, <2>5
<1> QED
  BY <1>2, <1>3

-----------------------------------------------------------------------------
(* The services that concern the mailbox.                                     *)

\* A request is made: it has no place in the mailbox yet, and nobody waits for it.
LEMMA RequestMadeFits ==
  ASSUME NEW s, Sound(s), NEW ps, Fit(s, ps), NEW r \in Requests, s.io[r] = None, NEW i \in IORequest,
         ~i.done, NEW t, t = WithRequest(s, r, i), NEW R, R = {r}
  PROVE  /\ MailFits(t, R) /\ AwaitFits(t) /\ Overlooked(t) \subseteq ps /\ r \in Pending(t) /\ t.io[r] = i
<1> DEFINE x == [s.io EXCEPT ![r] = i]
<1>1. s \in States /\ s.io \in [Requests -> IORequest \cup {None}] /\ i # None
  BY ProcessEventsAssumption DEF Sound, States
<1>2. x[r] = i /\ \A k \in Requests \ {r} : x[k] = s.io[k]
  BY <1>1
<1>3. t = [s EXCEPT !.io = x]
  BY DEF WithRequest
<1> HIDE DEF x
<1>4. t.proc = s.proc /\ t.clusters = s.clusters /\ t.io = x /\ t.mailbox = s.mailbox /\ t.owed = s.owed
  BY <1>1, <1>3 DEF States
<1>5. MailFits(t, R)
  BY <1>2, <1>4, MailMadeFits DEF Fit
<1>6. ASSUME NEW p \in Processes, NEW k \in Requests
      PROVE  /\ Calling(t, p, k) <=> Calling(s, p, k)
             /\ Calling(s, p, k) => t.io[k] = s.io[k] /\ s.io[k] # None /\ s.io[k].owner = p
             /\ s.proc[p].waiting = [kind |-> "request", request |-> k] => Calling(s, p, k)
  <2>1. /\ Calling(s, p, k) => s.io[k] # None /\ s.io[k].owner = p
        /\ s.proc[p].waiting = [kind |-> "request", request |-> k] => Calling(s, p, k)
    BY DEF Fit, AwaitFits
  <2> QED
    BY <1>2, <1>4, <2>1 DEF Calling
<1>7. AwaitFits(t)
  <2> SUFFICES ASSUME NEW p \in Processes, NEW k \in Requests
               PROVE  /\ Calling(t, p, k) => t.io[k] # None /\ t.io[k].owner = p
                      /\ t.proc[p].waiting = [kind |-> "request", request |-> k] => Calling(t, p, k)
    BY Zenon DEF AwaitFits
  <2>1. t.proc[p] = s.proc[p]
    BY <1>4
  <2> QED
    BY <1>6, <2>1
<1>8. Minds(s, t, {})
  <2>1. SameCalls(s, t) /\ \A p \in Present(s) : SameWaiter(s.proc[p], t.proc[p])
    BY <1>4 DEF SameCalls, SameWaiter
  <2>2. Present(t) = Present(s) /\ \A p : Subprocesses(t, p) = Subprocesses(s, p)
    BY <1>4 DEF Present, Subprocesses
  <2>3. \A p \in Present(s) : \A k \in Requests :
          s.proc[p].waiting = [kind |-> "request", request |-> k] => t.io[k] = s.io[k]
    BY <1>6 DEF Present
  <2> QED
    BY <1>4, <2>1, <2>2, <2>3, StepMinds
<1>9. r \in Pending(t) /\ t.io[r] = i
  BY <1>1, <1>2, <1>4 DEF Pending
<1> QED
  BY <1>5, <1>7, <1>8, <1>9 DEF Fit, Minds

\* A read or a write leaves the state fit, and the request its process's.
LEMMA ServedFits ==
  ASSUME IInv, EventsFit, NEW p \in Processes, Executes(p), NEW call \in Call, call.svc \in {"QIO", "QIOW"},
         CanReach(os, p, call.efn.cluster), NEW r \in Requests, os.io[r] = None,
         NEW s, s = Served(p, call, r)
  PROVE  Fit(s, {p}) /\ Executing(s, p) /\ s.io[r] # None /\ s.io[r].owner = p
<1> DEFINE i == Asked(p, call)
           cleared == ClearFlag(os, p, call.efn)
           made == WithRequest(cleared, r, i)
<1>1. /\ Sound(os) /\ p \in Present(os) /\ Mode(p) \in Modes /\ AtInstruction
      /\ os.proc[p].waiting = None /\ ~os.proc[p].marked
  BY ExecutesIs, ModeIs, ExecutesFit
<1>2. call.efn \in Flag /\ call.ast \in BOOLEAN /\ call.now \in BOOLEAN /\ call.data \in DOMAIN Size \cup {None}
  BY DEF Call
<1>3. i \in IORequest /\ i.owner = p /\ ~i.done
  BY <1>1, <1>2 DEF IORequest, Asked
<1>4. Quietly(os, cleared) /\ SameMail(os, cleared) /\ Fit(cleared, {p})
  BY <1>1, <1>2, FlagFits
<1>5. s = IF call.op = "read" THEN ReadMailbox(made, call.now, r) ELSE WriteMailbox(made, call.data, call.now, r)
  BY DEF Served
<1> HIDE DEF i, cleared
<1>6. /\ cleared.io[r] = None /\ Sound(cleared) /\ p \in Present(cleared)
      /\ cleared.proc[p].waiting = None /\ ~cleared.proc[p].marked
  BY <1>1, <1>4, QuietPresent DEF Quietly, Quiet, Kept, SameMail
<1>7. Steadily(cleared, made) /\ made.proc = cleared.proc
  BY <1>3, <1>6, RequestMade
<1>8. /\ MailFits(made, {r}) /\ AwaitFits(made) /\ Overlooked(made) \subseteq {p}
      /\ r \in Pending(made) /\ made.io[r] = i
  <2> DEFINE ps == {p}
             R == {r}
  <2>1. R = {r}
    OBVIOUS
  <2>2. made = WithRequest(cleared, r, i)
    OBVIOUS
  <2>3. Fit(cleared, ps)
    BY <1>4
  <2> HIDE DEF ps, R, made
  <2>4. Sound(cleared)
    BY <1>6
  <2>5. cleared.io[r] = None
    BY <1>6
  <2>6. i \in IORequest
    BY <1>3
  <2>7. ~i.done
    BY <1>3
  <2>8. /\ MailFits(made, R) /\ AwaitFits(made) /\ Overlooked(made) \subseteq ps
        /\ r \in Pending(made) /\ made.io[r] = i
    BY <2>1, <2>2, <2>3, <2>4, <2>5, <2>6, <2>7, RequestMadeFits, SMTT(60)
  <2> QED
    BY <2>8 DEF ps, R
<1> HIDE DEF made
<1>9. Sound(made) /\ p \in Present(made)
  BY <1>6, <1>7 DEF Steadily
<1>10. Gently(made, s) /\ MailFits(s, {})
  <2>1. CASE call.op = "read"
    BY <1>5, <1>8, <1>9, <2>1, ReadMailboxMail
  <2>2. CASE call.op # "read"
    BY <1>2, <1>5, <1>8, <1>9, <2>2, WriteMailboxMail
  <2> QED
    BY <2>1, <2>2
<1>11. AwaitFits(s)
  BY <1>8, <1>10, GentlyAwaits
<1>12. Fit(s, {p})
  BY <1>8, <1>10, <1>11 DEF Fit, Gently, Minds
<1>13. Quiet(made, s) /\ Sound(s)
  BY <1>10 DEF Gently, Quietly
<1>14. Executing(s, p)
  BY <1>6, <1>7, <1>9, <1>13, QuietPresent DEF Executing, Quiet, Kept
<1>15. s.io[r] # None /\ s.io[r].owner = p
  BY <1>3, <1>8, <1>13 DEF Quiet, RequestKept, Pending
<1> QED
  BY <1>12, <1>14, <1>15

\* $QIO and $QIOW keep the events fit, whether they make the request, wait or fail.
LEMMA QioFits ==
  ASSUME IInv, EventsFit, NEW p \in Processes, NEW call \in system.requests[p], Qio(p, call)
  PROVE  EventsFit'
<1> DEFINE r == NextRequest
           s == Served(p, call, r)
           cleared == ClearFlag(os, p, call.efn)
           again == [svc |-> "QIOW", request |-> r]
           room == [kind |-> "room", data |-> call.data]
           done == [kind |-> "request", request |-> r]
<1>1. /\ Executes(p) /\ call.svc \in {"QIO", "QIOW"} /\ \E k \in Requests : os.io[k] = None
  BY DEF Qio, Attempts, Calls, Retries
<1>2. /\ AtInstruction /\ p = cpu.current /\ Sound(os) /\ call \in Call /\ call \in Doings
      /\ r \in Requests /\ os.io[r] = None
  BY <1>1, ExecutesIs, RequestsAre, NextRequestIs
<1>3. \/ Return(os, p)
      \/ /\ CanReach(os, p, call.efn.cluster) /\ call.op = "write"
         /\ WaitIn(Pruned(cleared), p, call, room)
      \/ CanReach(os, p, call.efn.cluster) /\ Return(s, p)
      \/ CanReach(os, p, call.efn.cluster) /\ WaitIn(s, p, again, done)
  BY DEF Qio, Served, WithRequest, Asked
<1>4. CASE Return(os, p)
  <2>1. Fit(os, {p})
    BY <1>2, ExecutesFit, FitMore
  <2> QED
    BY <1>2, <1>4, <2>1, QuietlyReflexive, ReturnFits
<1>5. CASE CanReach(os, p, call.efn.cluster) /\ call.op = "write" /\ WaitIn(Pruned(cleared), p, call, room)
  <2> DEFINE u == Pruned(cleared)
  <2>1. call.efn \in Flag /\ call.data \in DOMAIN Size
    BY <1>1, <1>2, <1>5 DEF Call
  <2>2. /\ room \in Wait /\ room.kind # "subprocesses"
        /\ \A k : room # [kind |-> "request", request |-> k]
    BY <2>1 DEF Wait
  <2>3. \A k : call # [svc |-> "QIOW", request |-> k]
    <3>1. "op" \in DOMAIN call
      BY <1>1, <1>2 DEF Call
    <3>2. \A k : "op" \notin DOMAIN [svc |-> "QIOW", request |-> k]
      OBVIOUS
    <3> QED
      BY <3>1, <3>2
  <2>4. Quietly(os, cleared) /\ Fit(cleared, {p})
    BY <1>1, <1>5, <2>1, FlagFits
  <2>5. WaitIn(u, p, call, room)
    BY <1>5
  <2> HIDE DEF cleared, room
  <2>6. Gently(cleared, u) /\ MailFits(u, {})
    BY <2>4, PrunedMail DEF Quietly, Fit
  <2> HIDE DEF u
  <2>7. Quietly(os, u)
    BY <2>4, <2>6, QuietlyTransitive DEF Gently
  <2>8. Fit(cleared, Processes)
    BY <2>4, FitMore
  <2>9. Fit(u, Processes)
    BY <2>6, <2>8, GentlyFits
  <2> QED
    BY <1>2, <2>2, <2>3, <2>5, <2>7, <2>9, WaitInFits
<1>6. CASE CanReach(os, p, call.efn.cluster) /\ (Return(s, p) \/ WaitIn(s, p, again, done))
  <2>1. /\ again \in Doings /\ done \in Wait /\ done.kind # "subprocesses"
        /\ \A k : again = [svc |-> "QIOW", request |-> k] => k = r
        /\ \A k : done = [kind |-> "request", request |-> k] => k = r
    BY <1>2 DEF Doings, Wait
  <2> HIDE DEF r
  <2>2. Fit(s, {p}) /\ Executing(s, p) /\ s.io[r] # None /\ s.io[r].owner = p
    BY <1>1, <1>2, <1>6, ServedFits
  <2>3. \A k \in Requests : done = [kind |-> "request", request |-> k] => again = [svc |-> "QIOW", request |-> k]
    BY <2>1
  <2>4. \A k \in Requests : again = [svc |-> "QIOW", request |-> k] => s.io[k] # None /\ s.io[k].owner = p
    BY <2>1, <2>2
  <2> HIDE DEF s, again, done
  <2>5. Fit(s, Processes)
    BY <2>2, FitMore
  <2> QED
    BY <1>2, <1>6, <2>1, <2>2, <2>3, <2>4, <2>5, ReturnsFit, WaitsFit
<1> HIDE DEF s, again, done, room, cleared
<1> QED
  BY <1>3, <1>4, <1>5, <1>6

\* A $QIOW called again keeps the events fit: its request is the caller's.
LEMMA QiowFits ==
  ASSUME IInv, EventsFit, NEW p \in Processes, NEW r \in Requests, Qiow(p, r)
  PROVE  EventsFit'
<1> DEFINE call == [svc |-> "QIOW", request |-> r]
           w == [kind |-> "request", request |-> r]
<1>1. AtInstruction /\ p = cpu.current /\ Quietly(os, os) /\ p \in Present(os) /\ Sound(os)
  <2>1. Executes(p)
    BY DEF Qiow, Retries
  <2> QED
    BY <2>1, ExecutesIs, QuietlyReflexive
<1>2. Return(os, p) \/ WaitIn(os, p, call, w)
  BY DEF Qiow
<1>3. /\ call \in Doings /\ w \in Wait /\ w.kind # "subprocesses"
      /\ \A k : call = [svc |-> "QIOW", request |-> k] => k = r
      /\ \A k : w = [kind |-> "request", request |-> k] => k = r
  BY DEF Doings, Wait
<1>4. Calling(os, p, r)
  <2>1. Last(os.proc[p].calls).doing = call
    BY DEF Qiow, Retries, Doing
  <2>2. os.proc[p].calls \in Seq(Frame) /\ FramesFit(os.proc[p])
    BY <1>1, PresentFits
  <2>3. /\ Last(os.proc[p].calls) = os.proc[p].calls[Len(os.proc[p].calls)]
        /\ Len(os.proc[p].calls) \in DOMAIN os.proc[p].calls
    BY <2>2, CallsAre
  <2>4. Last(os.proc[p].calls) \in ToSet(os.proc[p].calls)
    BY <2>3 DEF ToSet
  <2> QED
    BY <2>1, <2>4 DEF Calling
<1>5. Fit(os, {p}) /\ Fit(os, Processes)
  BY <1>1, ExecutesFit, FitMore
<1>6. os.io[r] # None /\ os.io[r].owner = p
  BY <1>4, <1>5 DEF Fit, AwaitFits
<1>7. \A k \in Requests : w = [kind |-> "request", request |-> k] => call = [svc |-> "QIOW", request |-> k]
  BY <1>3
<1>8. \A k \in Requests : call = [svc |-> "QIOW", request |-> k] => os.io[k] # None /\ os.io[k].owner = p
  BY <1>3, <1>6
<1> HIDE DEF call, w
<1> QED
  BY <1>1, <1>2, <1>3, <1>5, <1>7, <1>8, ReturnFits, WaitInFits

\* $CANCEL keeps the events fit.
LEMMA CancelFits ==
  ASSUME IInv, EventsFit, NEW p \in Processes, Cancel(p)
  PROVE  EventsFit'
<1> DEFINE s == CancelIO(os, p)
<1>1. AtInstruction /\ p = cpu.current /\ Sound(os) /\ Step(s, FALSE)
  <2>1. Executes(p)
    BY DEF Cancel, Calls
  <2> QED
    BY <2>1, ExecutesIs DEF Cancel
<1>2. Fit(os, {p})
  BY <1>1, ExecutesFit, FitMore
<1>3. Gently(os, s) /\ MailFits(s, {})
  BY <1>1, <1>2, CancelIOMail DEF Fit
<1> HIDE DEF s
<1>4. Fit(s, {p}) /\ Sound(s)
  BY <1>2, <1>3, GentlyFits DEF Gently, Quietly
<1> QED
  BY <1>1, <1>4, SteppedFits

\* $SETMODE keeps the events fit, whether its AST is due at once or not.
LEMMA SetmodeFits ==
  ASSUME IInv, EventsFit, NEW p \in Processes, NEW k \in Attentions, Setmode(p, k)
  PROVE  EventsFit'
<1> DEFINE u == Pruned(os)
           s == AttentionAsked(u, k, p)
           t == DeliverAttention(s, k)
<1>1. AtInstruction /\ p = cpu.current /\ Sound(os) /\ p \in Present(os)
  <2>1. Executes(p)
    BY DEF Setmode, Calls
  <2> QED
    BY <2>1, ExecutesIs
<1>2. Step(s, FALSE) \/ Step(t, FALSE)
  BY DEF Setmode, AttentionAsked
<1>3. Fit(os, {p})
  BY <1>1, ExecutesFit, FitMore
<1>4. Gently(os, u) /\ MailFits(u, {})
  BY <1>1, <1>3, PrunedMail DEF Fit
<1> HIDE DEF u
<1>5. Fit(u, {p}) /\ Sound(u) /\ p \in Present(u)
  BY <1>1, <1>3, <1>4, GentlyFits, QuietPresent DEF Gently, Quietly
<1>6. Sound(s) /\ s.proc = u.proc
  BY <1>5, AttentionSound DEF Steadily
<1>7. SameMail(u, s) /\ s.clusters = u.clusters /\ s.io = u.io
  <2> DEFINE x == [u.attention EXCEPT ![k] = u.attention[k] \cup {p}]
  <2>1. u \in States
    BY <1>5 DEF Sound
  <2>2. s = [u EXCEPT !.attention = x]
    BY DEF AttentionAsked
  <2> HIDE DEF x
  <2> QED
    BY <2>1, <2>2 DEF States, SameMail
<1> HIDE DEF s
<1>8. Minds(u, s, {}) /\ AwaitFits(s)
  BY <1>5, <1>6, <1>7, SharedMinds DEF Fit
<1>9. MailFits(s, {})
  BY <1>5, <1>7, SameMailFits DEF Fit
<1>10. Fit(s, {p})
  BY <1>5, <1>8, <1>9 DEF Fit, Minds
<1>11. Gently(s, t) /\ SameMail(s, t)
  BY <1>6, DeliverAttentionGently
<1> HIDE DEF t
<1>12. MailFits(t, {})
  BY <1>9, <1>11, SameMailFits
<1>13. Fit(t, {p}) /\ Sound(t)
  BY <1>10, <1>11, <1>12, GentlyFits DEF Gently, Quietly
<1> QED
  BY <1>1, <1>2, <1>6, <1>10, <1>13, SteppedFits

-----------------------------------------------------------------------------
(* The hook.                                                                  *)

\* The CPU has gone elsewhere, or a quantum ended: nothing is asked of the waiters.
LEMMA NotAtInstruction ==
  ASSUME MailFits(os', {}), AwaitFits(os'), ~cpu'.choosing, ~(cpu'.running /\ cpu'.budget > 0)
  PROVE  EventsFit'
  BY DEF EventsFit, AtInstruction

\* The scheduler chooses only when nobody was overlooked.
LEMMA NobodyWaits ==
  ASSUME Fit(os', {})
  PROVE  EventsFit'
  BY DEF EventsFit, Fit

\* A turn of the waiters that woke all it could leaves the state fit.
LEMMA RoundFits ==
  ASSUME NEW s, Sound(s), MailFits(s, {}), AwaitFits(s), NEW t, t = WakeWaiters(s) \/ t = RetryWaiters(s)
  PROVE  Quietly(s, t) /\ Fit(t, {})
<1>1. SameMail(s, t) /\ SameCalls(s, t) /\ Overlooked(t) = {}
  BY NoneOverlooked
<1>2. Quietly(s, t)
  BY WakeWaitersQuiet, RetryWaitersQuiet
<1>3. AwaitFits(t)
  BY <1>1, <1>2, AwaitKept DEF Quietly
<1> QED
  BY <1>1, <1>2, <1>3, SameMailFits DEF Fit

\* Polling events expires everyone's timers, and overlooks nobody.
LEMMA PollEventsFits ==
  ASSUME NEW s, Sound(s), MailFits(s, {}), AwaitFits(s), NEW t, t = PollEvents(s)
  PROVE  Fit(t, {})
<1> DEFINE u == Expired(s, Present(s))
<1>1. t = WakeWaiters(u)
  <2>1. \A v \in {WakeWaiters(w) : w \in {u}} : v = WakeWaiters(u)
    OBVIOUS
  <2>2. WakeWaiters(u) \in {WakeWaiters(w) : w \in {u}}
    OBVIOUS
  <2> QED
    BY <2>1, <2>2, Zenon DEF PollEvents
<1>2. Present(s) \in SUBSET Processes
  BY DEF Present
<1> HIDE DEF u
<1>3. Quiet(s, u) /\ Sound(u)
  BY <1>2, ExpiredQuiet DEF u
<1>4. SameMail(s, u) /\ SameCalls(s, u)
  BY <1>2, ExpiredMinds DEF u, Minds
<1>5. MailFits(u, {}) /\ AwaitFits(u)
  BY <1>3, <1>4, SameMailFits, AwaitKept
<1> QED
  BY <1>1, <1>3, <1>5, RoundFits

\* Time's passing leaves a state fit, whoever is overlooked.
LEMMA LaterFits ==
  ASSUME NEW s, Sound(s), NEW ps, Fit(s, ps), NEW n \in Int, NEW t, t = Later(s, n)
  PROVE  Sound(t) /\ Fit(t, ps)
<1> DEFINE a == [p \in Processes |-> Older(s.proc[p], n)]
<1>1. s \in States /\ s.proc \in [Processes -> ProcessRecord]
  BY DEF Sound, States
<1>2. t = [s EXCEPT !.proc = a]
  BY DEF Later, Older, Passed
<1>3. \A p \in Processes : SameWaiter(s.proc[p], a[p])
  <2> SUFFICES ASSUME NEW p \in Processes
               PROVE  SameWaiter(s.proc[p], Older(s.proc[p], n))
    OBVIOUS
  <2>1. s.proc[p] \in ProcessRecord
    BY <1>1
  <2> QED
    BY <2>1 DEF SameWaiter, Older, ProcessRecord
<1> HIDE DEF a
<1>4. /\ SameMail(s, t) /\ t.proc = a /\ t.clusters = s.clusters
  BY <1>1, <1>2 DEF States, SameMail
<1>5. Quiet(s, t) /\ Sound(t)
  BY LaterQuiet
<1>6. SameCalls(s, t)
  BY <1>3, <1>4 DEF SameCalls, SameWaiter
<1>7. Minds(s, t, {})
  <2>1. \A p \in Present(s) : SameWaiter(s.proc[p], t.proc[p])
    BY <1>3, <1>4 DEF Present
  <2> QED
    BY <1>4, <1>5, <1>6, <2>1, QuietMinds DEF SameMail
<1> QED
  BY <1>4, <1>5, <1>7, QuietFits

\* The hook's first step polls events.
LEMMA ScheduleFits ==
  ASSUME IInv, EventsFit, Schedule
  PROVE  EventsFit'
<1>1. Sound(os) /\ os' = PollEvents(os) /\ MailFits(os, {}) /\ AwaitFits(os)
  BY CpuIs DEF Schedule, EventsFit
<1> QED
  BY <1>1, PollEventsFits, NobodyWaits

\* Sleeping until the next timer, too.
LEMMA IdleUntilTimerFits ==
  ASSUME IInv, EventsFit, IdleUntilTimer
  PROVE  EventsFit'
<1>1. PICK n \in TimesLeft(os) : os' = PollEvents(Later(os, n))
  BY DEF IdleUntilTimer
<1>2. Sound(os)
  BY DEF IInv
<1>3. n \in Int
  <2>1. PICK p \in Present(os) : \E x \in ToSet(os.proc[p].timers) : n = x.left
    BY <1>1 DEF TimesLeft
  <2>2. os.proc[p].timers \in Seq(Timer)
    BY <1>2, PresentFits
  <2>3. \A x \in ToSet(os.proc[p].timers) : x \in Timer
    BY <2>2, MembersOfSeq
  <2> QED
    BY <2>1, <2>3 DEF Timer
<1> DEFINE t == Later(os, n)
<1>4. Fit(os, Processes)
  BY DEF EventsFit, Fit, Overlooked, Present
<1>5. Sound(t) /\ Fit(t, Processes)
  BY <1>2, <1>3, <1>4, LaterFits
<1> HIDE DEF t
<1>6. Fit(os', {})
  BY <1>1, <1>5, PollEventsFits DEF Fit, t
<1> QED
  BY <1>6, NobodyWaits

\* And a retry of the waiters wakes all it can.
LEMMA IdleRetryFits ==
  ASSUME IInv, EventsFit, IdleRetry
  PROVE  EventsFit'
<1>1. Sound(os) /\ os' = RetryWaiters(os) /\ MailFits(os, {}) /\ AwaitFits(os)
  BY CpuIs DEF IdleRetry, EventsFit
<1> QED
  BY <1>1, RoundFits, NobodyWaits

\* Nothing happens at a quantum's end.
LEMMA QuantumEndsFits ==
  ASSUME IInv, EventsFit, QuantumEnds
  PROVE  EventsFit'
<1>1. cpu \in CpuRecord /\ cpu' = [cpu EXCEPT !.budget = 0] /\ os' = os /\ cpu.budget > 0 /\ cpu.running /\ ~cpu.choosing
  BY CpuIs DEF QuantumEnds, IInv
<1>2. cpu'.choosing = cpu.choosing /\ cpu'.budget = 0
  BY <1>1 DEF CpuRecord
<1> QED
  BY <1>1, <1>2, NotAtInstruction DEF EventsFit

\* An instruction's passing changes nothing but what timers have left.
LEMMA TickFits ==
  ASSUME IInv, EventsFit, Tick
  PROVE  EventsFit'
<1>1. Sound(os) /\ os' = Later(os, 1) /\ AtInstruction
  BY CpuIs DEF Tick
<1>2. Fit(os', {})
  BY <1>1, ExecutesFit, LaterFits
<1> QED
  BY <1>2, NobodyWaits

\* Switching the CPU frees memory, which nobody waits for.
LEMMA SwitchFits ==
  ASSUME NEW s, Sound(s), NEW ps, Fit(s, ps), NEW p, NEW t, t = SwitchTo(s, p)
  PROVE  Fit(t, ps) /\ SameMail(s, t)
<1>1. t.proc = s.proc /\ t.clusters = s.clusters /\ SameMail(s, t)
  BY DEF SwitchTo, Sound, States, SameMail
<1>2. Minds(s, t, {}) /\ AwaitFits(t)
  BY <1>1, SharedMinds DEF SameMail, Fit
<1> QED
  BY <1>1, <1>2, SameMailFits DEF Fit, Minds

\* The requests collected were nobody's.
LEMMA CollectedFits ==
  ASSUME NEW s, Sound(s), NEW ps, Fit(s, ps), NEW t, t = Collected(s)
  PROVE  Fit(t, ps)
  BY CollectedMail DEF Fit, Minds

\* The scheduler's choice runs a process or deletes it, and then wakes whom it can.
LEMMA ChooseFits ==
  ASSUME IInv, EventsFit, NEW p \in Processes, Choose(p)
  PROVE  EventsFit'
<1> DEFINE t == SwitchTo(os, p)
<1>1. /\ Sound(os) /\ MemoryFits(os, cpu.current) /\ Computes(os, p) /\ cpu.choosing /\ cpu \in CpuRecord
  BY CpuIs DEF Choose, Computable, IInv
<1>2. p \in Present(os) /\ ~Waits(os, p)
  BY <1>1, ComputesIs
<1>3. Sound(t) /\ t.proc = os.proc
  BY <1>1, <1>2, SwitchSound
<1>4. Fit(os, {})
  BY <1>1 DEF EventsFit, Fit
<1>5. Fit(t, {})
  BY <1>1, <1>4, SwitchFits
<1>6. CASE ~os.proc[p].marked
  <2>1. os' = t
    BY <1>6 DEF Choose
  <2> QED
    BY <1>5, <2>1, NobodyWaits
<1>7. CASE os.proc[p].marked
  <2> DEFINE u == DeleteProcess(t, p, p)
             v == WakeWaiters(u)
  <2>1. os' = Collected(v)
    BY <1>7 DEF Choose
  <2> HIDE DEF t
  <2>2. p \in Present(t) \ {Console} /\ ~Waits(t, p)
    BY <1>1, <1>2, <1>3, <1>7 DEF Sound, Present, Waits
  <2>3. Fit(t, Processes)
    BY <1>5, FitMore
  <2>4. Sound(u) /\ Fit(u, Processes)
    BY <1>3, <2>2, <2>3, DeleteProcessSound, DeleteProcessFits
  <2> HIDE DEF u
  <2>5. Quietly(u, v) /\ Fit(v, {})
    BY <2>4, RoundFits DEF Fit
  <2> HIDE DEF v
  <2>6. Fit(os', {})
    BY <2>1, <2>5, CollectedFits DEF Quietly
  <2> QED
    BY <2>6, NobodyWaits
<1> QED
  BY <1>6, <1>7

\* The console's STOP deletes a process at once; the hook is called before anybody's instruction.
LEMMA DeleteNowFits ==
  ASSUME IInv, EventsFit, NEW q \in Processes, DeleteNow(q)
  PROVE  EventsFit'
<1> DEFINE c == cpu.current
           P == Resumed(os.proc[q])
           s == Resume(os, q)
           t == Rundown(s, q, c)
           u == SwitchTo(t, Console)
<1>1. /\ Sound(os) /\ q \in Present(os) \ {Console} /\ Subprocesses(os, q) = {} /\ os' = Collected(u)
      /\ cpu' = [current |-> Console, running |-> Computes(os', Console), choosing |-> FALSE, budget |-> 0]
  BY CpuIs DEF DeleteNow
<1>2. Steadily(os, s)
  BY <1>1, ResumeSound
<1>3. os \in States /\ os.proc \in [Processes -> ProcessRecord]
  BY <1>1 DEF Sound, States
<1>4. P.calls = os.proc[q].calls /\ P.waiting = os.proc[q].waiting
  BY <1>1, <1>3, ResumedCalls
<1>5. s = [os EXCEPT !.proc[q] = P]
  BY DEF Resume
<1> HIDE DEF P, s
<1>6. /\ SameMail(os, s) /\ s.proc[q] = P
      /\ \A r \in Processes \ {q} : s.proc[r] = os.proc[r]
  BY <1>1, <1>3, <1>5 DEF States, SameMail
<1>7. Fit(os, Processes)
  BY DEF EventsFit, Fit, Overlooked, Present
<1>8. Fit(s, Processes)
  BY <1>4, <1>6, <1>7, WaitsLeftFit
<1>9. Sound(s) /\ q \in Present(s) \ {Console} /\ Subprocesses(s, q) = {}
  <2>1. Subprocesses(s, q) = Subprocesses(os, q)
    BY <1>1, <1>2 DEF Steadily, Subprocesses
  <2> QED
    BY <1>1, <1>2, <2>1 DEF Steadily
<1>10. Sound(t) /\ Fit(t, Processes) /\ MemoryFits(t, c) /\ Console \in Present(t)
  <2>1. /\ Sound(t) /\ Present(t) = Present(s) \ {q}
        /\ q = c => t.memory = s.memory
        /\ q # c => t.memory = s.memory \ {q}
    BY <1>9, RundownSound
  <2>2. Fit(t, Processes)
    BY <1>8, <1>9, RundownFits
  <2>3. MemoryFits(s, c)
    BY <1>2, CpuIs DEF Steadily, MemoryFits
  <2> HIDE DEF t
  <2>4. CASE q = c
    BY <1>9, <2>1, <2>2, <2>3, <2>4 DEF MemoryFits, Sound
  <2>5. CASE q # c
    BY <1>9, <2>1, <2>2, <2>3, <2>5 DEF MemoryFits, Sound
  <2> QED
    BY <2>4, <2>5
<1> HIDE DEF t
<1>11. Sound(u) /\ Fit(u, Processes)
  BY <1>10, SwitchSound, SwitchFits
<1> HIDE DEF u
<1>12. Fit(os', Processes)
  BY <1>1, <1>11, CollectedFits
<1>13. ~cpu'.choosing /\ ~(cpu'.budget > 0)
  BY <1>1
<1> QED
  BY <1>12, <1>13, NotAtInstruction DEF Fit

-----------------------------------------------------------------------------
(* The invariant.                                                             *)

\* Nobody is in $QIOW at first.
LEMMA NewCalls ==
  ASSUME NEW r \in Requests
  PROVE  /\ \A c \in ToSet(NewProcess.calls) : c.doing # [svc |-> "QIOW", request |-> r]
         /\ \A c \in ToSet(NoProcess.calls) : c.doing # [svc |-> "QIOW", request |-> r]
         /\ NewProcess.waiting = None /\ NoProcess.waiting = None
<1>1. None # [svc |-> "QIOW", request |-> r]
  <2>1. [svc |-> "QIOW", request |-> r] \in [svc : {"QIOW"}, request : Requests]
    OBVIOUS
  <2> QED
    BY <2>1, ProcessEventsAssumption
<1> DEFINE f == [mode |-> User, ast |-> FALSE, doing |-> None]
           k == <<f>>
           e == <<>>
<1>2. ToSet(k) = {f} /\ f.doing = None /\ ToSet(e) = {}
  <2>1. f.doing = None
    OBVIOUS
  <2> HIDE DEF f
  <2>2. DOMAIN k = {1} /\ k[1] = f /\ DOMAIN e = {}
    OBVIOUS
  <2> HIDE DEF k, e
  <2> QED
    BY <2>1, <2>2 DEF ToSet
<1>3. NewProcess.calls = k /\ NewProcess.waiting = None
  BY DEF NewProcess
<1>4. NoProcess.calls = e /\ NoProcess.waiting = None
  BY DEF NoProcess, NewProcess
<1> HIDE DEF f, k, e
<1> QED
  BY <1>1, <1>2, <1>3, <1>4

\* There are no events at first.
LEMMA InitFits ==
  ASSUME Init
  PROVE  EventsFit
<1>1. system \in Systems /\ os = StateOf(system.present)
  BY DEF Init
<1>2. PICK c \in system.present : cpu = [current |-> c, running |-> FALSE, choosing |-> FALSE, budget |-> 0]
  BY DEF Init
<1>3. Sound(os)
  BY <1>1, NewStateSound
<1> DEFINE a == [p \in Processes |-> IF p \in system.present THEN NewProcess ELSE NoProcess]
           io == [r \in Requests |-> None]
           e == <<>>
<1>4. /\ os.proc = a /\ os.io = io /\ os.mailbox.readers = e /\ os.mailbox.messages = e /\ os.owed = e
  BY <1>1 DEF StateOf
<1>5. \A p \in Processes : a[p] = NewProcess \/ a[p] = NoProcess
  OBVIOUS
<1>6. \A r \in Requests : io[r] = None
  OBVIOUS
<1>7. e \in Seq(Requests) /\ e \in Seq(Message) /\ ToSet(e) = {} /\ DOMAIN e = {}
  BY DEF ToSet
<1> HIDE DEF a, io, e
<1>8. LiveMessages(os) = e /\ LiveReaders(os) = e
  <2>1. \A S : Those(e, S) = e
    BY <1>7, ThoseAll
  <2> QED
    BY <1>4, <2>1 DEF LiveMessages, LiveReaders
<1>9. MailFits(os, {})
  <2>1. Pending(os) = {}
    BY <1>4, <1>6 DEF Pending
  <2> QED
    BY <1>4, <1>7, <1>8, <2>1 DEF MailFits, Apart, e
<1>10. AwaitFits(os)
  <2>1. \A p \in Processes, r \in Requests : ~Calling(os, p, r)
    BY <1>4, <1>5, NewCalls DEF Calling
  <2>2. \A p \in Processes : os.proc[p].waiting = None
    BY <1>4, <1>5, NewProcessIs, NoProcessIs
  <2>3. \A r \in Requests : None # [kind |-> "request", request |-> r]
    <3>1. \A r \in Requests : [kind |-> "request", request |-> r] \in Wait
      BY DEF Wait
    <3> QED
      BY <3>1, ProcessEventsAssumption
  <2> QED
    BY <2>1, <2>2, <2>3 DEF AwaitFits
<1> QED
  BY <1>2, <1>9, <1>10 DEF EventsFit, AtInstruction

\* The hook's and the idle loop's steps.
LEMMA HookFits ==
  ASSUME IInv, EventsFit, Hook
  PROVE  EventsFit'
  BY ScheduleFits, IdleUntilTimerFits, IdleRetryFits, QuantumEndsFits, ChooseFits DEF Hook

\* Every service.
LEMMA ServicesFit ==
  ASSUME IInv, EventsFit, NEW p \in Processes,
         Wakeups(p) \/ TimerServices(p) \/ FlagServices(p) \/ ASTServices(p) \/ ProcessServices(p)
           \/ MailboxServices(p)
  PROVE  EventsFit'
<1>1. CASE Wakeups(p)
  BY <1>1, HiberFits, WakeFits, CanwakFits, SchdwkFits DEF Wakeups
<1>2. CASE TimerServices(p)
  BY <1>2, CantimFits, SetimrFits DEF TimerServices
<1>3. CASE FlagServices(p)
  BY <1>3, SetefFits, WaitfrFits, AscefcFits, GiveUpFits DEF FlagServices
<1>4. CASE ASTServices(p)
  BY <1>4, RoutinesFit, DclastFits, SetastFits DEF ASTServices
<1>5. CASE ProcessServices(p)
  BY <1>5, SuspndFits, ResumeProcessFits, DelprcFits DEF ProcessServices
<1>6. CASE MailboxServices(p)
  BY <1>6, QioFits, QiowFits, CancelFits, SetmodeFits DEF MailboxServices
<1> QED
  BY <1>1, <1>2, <1>3, <1>4, <1>5, <1>6

\* Every step keeps the events fit.
LEMMA StepKeepsEvents ==
  ASSUME IInv, EventsFit, [Next]_vars
  PROVE  EventsFit'
<1>1. CASE Next
  <2>1. CASE Hook \/ Tick
    BY <2>1, HookFits, TickFits
  <2>2. CASE \E p \in Processes :
               \/ NextAST(p) \/ DeleteNow(p)
               \/ Wakeups(p) \/ TimerServices(p) \/ FlagServices(p) \/ ASTServices(p)
               \/ ProcessServices(p) \/ MailboxServices(p)
    BY <2>2, NextASTFits, DeleteNowFits, ServicesFit
  <2> QED
    BY <1>1, <2>1, <2>2 DEF Next
<1>2. CASE UNCHANGED vars
  <2>1. os' = os /\ cpu' = cpu
    BY <1>2 DEF vars
  <2> QED
    BY <2>1 DEF EventsFit, AtInstruction
<1> QED
  BY <1>1, <1>2

\* The mailbox, the calls to $QIOW and the waiters fit, always: with IInv, the inductive invariant.
THEOREM EventsFitAlways == Spec => [](IInv /\ EventsFit)
<1>1. Init => IInv /\ EventsFit
  BY InitSound, InitFits
<1>2. (IInv /\ EventsFit) /\ [Next]_vars => (IInv /\ EventsFit)'
  BY StepSound, StepKeepsEvents
<1> QED
  BY <1>1, <1>2, PTL DEF Spec

\* At most one place of a sequence holds what it holds apart.
LEMMA OnePlace ==
  ASSUME NEW q, NEW S \in SUBSET DOMAIN q, \A i, j \in S : i = j
  PROVE  Cardinality(S) = IF S = {} THEN 0 ELSE 1
<1>1. CASE S = {}
  BY <1>1, FS_EmptySet
<1>2. CASE S # {}
  <2>1. PICK i \in S : S = {i}
    BY <1>2
  <2> QED
    BY <1>2, <2>1, FS_Singleton
<1> QED
  BY <1>1, <1>2

\* From the invariant: the mailbox keeps what it has taken, and a request pending is in it once.
LEMMA MessagesFromFit ==
  ASSUME IInv, EventsFit
  PROVE  MailboxKeepsMessages
<1>1. Sound(os) /\ MailFits(os, {})
  BY CpuIs DEF EventsFit
<1>2. ASSUME NEW p \in Processes, NEW r \in PendingIO(os, p)
      PROVE  Cardinality({i \in DOMAIN os.mailbox.readers : os.mailbox.readers[i] = r})
               + Cardinality({i \in DOMAIN os.owed : os.owed[i].writer = r}) = 1
  <2> DEFINE x == os.mailbox.readers
             w == os.owed
             R == {i \in DOMAIN x : x[i] = r}
             W == {i \in DOMAIN w : w[i].writer = r}
  <2>1. r \in Requests /\ r # None /\ r \in Pending(os)
    BY <1>2, ProcessEventsAssumption DEF PendingIO, Pending
  <2>2. x \in Seq(Requests) /\ w \in Seq(Message)
    BY <1>1 DEF Sound, States
  <2>3. Apart(x, Itself) /\ Apart(w, SameWriter) /\ (r \in ToSet(x) <=> r \notin Writers(w))
    BY <1>1, <2>1 DEF MailFits
  <2> HIDE DEF x, w
  <2>4. \A i, j \in R : i = j
    <3>1. \A i \in R : x[i] = r
      OBVIOUS
    <3> QED
      BY <2>1, <2>3, <3>1 DEF Apart, Itself
  <2>5. \A i, j \in W : i = j
    <3>1. \A i \in W : w[i] \in Message /\ w[i].writer = r
      BY <2>2
    <3> QED
      BY <2>1, <2>3, <3>1 DEF Apart, SameWriter
  <2>6. R = {} <=> r \notin ToSet(x)
    BY DEF ToSet
  <2>7. W = {} <=> r \notin Writers(w)
    BY <2>1 DEF ToSet, Writers
  <2>8. R \in SUBSET DOMAIN x /\ W \in SUBSET DOMAIN w
    OBVIOUS
  <2> HIDE DEF R, W
  <2>9. Cardinality(R) = (IF R = {} THEN 0 ELSE 1) /\ Cardinality(W) = (IF W = {} THEN 0 ELSE 1)
    BY <2>4, <2>5, <2>8, OnePlace
  <2>10. Cardinality(R) + Cardinality(W) = 1
    BY <2>3, <2>6, <2>7, <2>9
  <2> QED
    BY <2>10 DEF R, W, x, w
<1> QED
  BY <1>1, <1>2 DEF MailboxKeepsMessages, MailFits

\* From the invariant: no process waits for an event that is there already.
LEMMA WaitersFromFit ==
  ASSUME EventsFit
  PROVE  NoWaiterOverlooked
  BY DEF EventsFit, NoWaiterOverlooked, Overlooked

\* The mailbox loses and doubles no message, and each request pending is queued in it just once:
\* readMailbox, writeMailbox, cancelIO and pruneDeadMailboxEntries agree.
THEOREM MailboxKeepsMessagesAlways == Spec => []MailboxKeepsMessages
<1>1. IInv /\ EventsFit => MailboxKeepsMessages
  BY MessagesFromFit
<1> QED
  BY <1>1, EventsFitAlways, PTL

\* Nobody waits, while instructions run, for an event that has occurred: every service that
\* makes one reports it to those who wait for it, or has the hook called.
THEOREM NoWaiterOverlookedAlways == Spec => []NoWaiterOverlooked
<1>1. EventsFit => NoWaiterOverlooked
  BY WaitersFromFit
<1> QED
  BY <1>1, EventsFitAlways, PTL

=============================================================================
