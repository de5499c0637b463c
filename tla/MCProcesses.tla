----------------------------- MODULE MCProcesses -----------------------------
EXTENDS Processes

\* 1 is the console's; 2 owns 3, and 3 owns 4.
MCOwner == [p \in Processes |-> IF p > 2 THEN p - 1 ELSE None]

MCSize == [a |-> 1, eof |-> 0]

MCFlag == [cluster |-> Local, bit |-> 1]
MCEfns == {MCFlag, [cluster |-> 2, bit |-> 1]}

\* $WAITFR of a process's own flag; $WFLOR and $WFLAND of a common cluster's.
WaitOwn == [svc |-> "WAITFR", cluster |-> Local, all |-> TRUE, mask |-> {1}]
WaitCommon == [svc |-> "WAITFR", cluster |-> 2, all |-> FALSE, mask |-> {1, 2}]

Ascefc2(name, permanent) ==
  [svc |-> "ASCEFC", cluster |-> 2, name |-> name, permanent |-> permanent]
Ascefc3(name, permanent) == [Ascefc2(name, permanent) EXCEPT !.cluster = 3]

Request(svc, op, data, now, rwait, ast) ==
  [svc |-> svc, op |-> op, data |-> data, now |-> now, rwait |-> rwait, ast |-> ast, efn |-> MCFlag]

Read(svc, now, ast) == Request(svc, "read", None, now, FALSE, ast)
Write(svc, data, now, rwait) == Request(svc, "write", data, now, rwait, FALSE)

MCSystem(present, quantum, services, requests) ==
  [present |-> present, quantum |-> quantum, services |-> services, requests |-> requests,
   preempted |-> {User}]

\* What the programs of processes 1, 2 and 3 call.
Each(one, two, others) == [p \in Processes |-> IF p = 1 THEN one ELSE IF p = 2 THEN two ELSE others]

NoRequests == Each({}, {}, {})

\* The machines: a tree of processes deleted while some of it is suspended or
\* stopped; two processes that hibernate, wake, suspend and delete each other; one
\* with timers of its own and wakeups from the other; one whose wakeups come up to
\* three ticks late; one waiting for a cluster's flag that the other sets, also by a timer; two sharing clusters; one taking ASTs
\* in two modes; and two reading from and writing to a mailbox, with a deletion
\* and cancelled messages in a smaller one.
MCSystems ==
  {MCSystem(Processes, 1, Each({"SUSPND", "RESUME", "STOP"}, {"DELPRC"}, {"HIBER"}), NoRequests),
   MCSystem({1, 2}, 1, Each({"HIBER", "WAKE", "SUSPND", "RESUME", "DELPRC"},
                            {"HIBER", "WAKE", "SUSPND", "RESUME", "DELPRC"}, {}), NoRequests),
   MCSystem({1, 2}, 2, Each({"HIBER", "SCHDWK", "CANWAK"},
                            {"HIBER", "SETIMR", "CANTIM", "WAITFR", "CLREF"}, {}),
            Each({}, {WaitOwn}, {})),
   MCSystem({1, 2}, 4, Each({"SCHDWK"}, {"HIBER", "CANWAK"}, {}), NoRequests),
   MCSystem({1, 2}, 1, Each({"ASCEFC", "SUSPND", "RESUME", "WAITFR"},
                            {"ASCEFC", "DACEFC", "SETEF", "SETIMR"}, {}),
            Each({WaitCommon, Ascefc2("n", FALSE)}, {Ascefc2("n", FALSE), Ascefc3("n", FALSE)}, {})),
   MCSystem({1, 2}, 1, Each({"ASCEFC", "DLCEFC", "WAITFR"},
                            {"ASCEFC", "DACEFC", "SETEF", "DELPRC"}, {}),
            Each({WaitCommon, Ascefc2("n", FALSE), Ascefc2("m", FALSE)},
                 {Ascefc2("n", TRUE), Ascefc2("m", FALSE), Ascefc3("n", FALSE)}, {})),
   MCSystem({1, 2}, 1, Each({"WAKE"}, {"DCLAST", "SETAST", "CMKRNL", "HIBER"}, {}), NoRequests),
   MCSystem({1, 2}, 1, Each({"QIO", "QIOW", "CANCEL"}, {"QIO", "QIOW", "CANCEL", "SETMODE"}, {}),
            Each({Read("QIOW", FALSE, FALSE), Read("QIO", FALSE, TRUE)},
                 {Write("QIO", "a", TRUE, TRUE), Write("QIOW", "eof", FALSE, TRUE)}, {})),
   MCSystem({1, 2}, 1, Each({"QIO", "CANCEL", "DELPRC"}, {"QIO", "QIOW", "SETMODE"}, {}),
            Each({Read("QIO", TRUE, FALSE), Write("QIO", "a", FALSE, FALSE)},
                 {Read("QIO", FALSE, FALSE), Write("QIOW", "a", TRUE, TRUE)}, {}))}

\* The console suspends and deletes a process that only runs.
MCSuspendedSystems == {MCSystem({1, 2}, 1, Each({"SUSPND", "DELPRC"}, {}, {}), NoRequests)}

=============================================================================
