---------------------------- MODULE MCRecordLocks ----------------------------
EXTENDS RecordLocks

CONSTANTS process1, process2   \* the processes

MCProcessOf == <<process1, process2, process2>>

\* RAB$L_ROP's choices: manual unlocking and waits, a write lock with
\* RAB$V_RRL, and a reader's wait with a time limit and query.
Rop(mode, rrl, wat, ulk, tmo) ==
  [mode |-> mode, nlk |-> FALSE, rrl |-> rrl, wat |-> wat, ulk |-> ulk, tmo |-> tmo]

ByHand == Rop(EX, FALSE, TRUE, TRUE, FALSE)
WriteLock == Rop(PW, TRUE, FALSE, FALSE, FALSE)
Limited == Rop(EX, FALSE, TRUE, FALSE, TRUE)
Plain == Rop(EX, FALSE, FALSE, FALSE, FALSE)

GetsOf(s, rac, ns, rops) ==
  {[stream |-> s, rac |-> rac, n |-> n] @@ rop : n \in ns, rop \in rops}

MCGets ==
  GetsOf(1, "key", {1, 2}, {ByHand})
    \cup GetsOf(2, "seq", {1}, {ByHand, WriteLock})
    \cup GetsOf(3, "key", {1}, {Limited, Plain})

Database == <<locks, resources, cells, stream, waits, calls>>
=============================================================================
