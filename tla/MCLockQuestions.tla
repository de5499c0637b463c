--------------------------- MODULE MCLockQuestions ---------------------------
(***************************************************************************)
(* Four questions of the lock manager, each with an instance of its own:   *)
(* what a run of the model does depends on the question it starts with.    *)
(* LockManager's constants, which the .cfg gives, are those of the first,  *)
(* of trees of resources and locks; its properties name no constant and    *)
(* are checked in all four.                                                *)
(***************************************************************************)
EXTENDS LockManager, TLC

CONSTANTS o3, o4, o5, n2, n3, n4, v0, v1

VARIABLE question

\* The first: exclusive and shared locks that ask for notices.
No == {FALSE}
Yes == {TRUE}
ReadWrite == {PR, EX}

\* Two values, and modes that write and that do not.
Values == INSTANCE LockManager WITH
  AccessMode <- {3}, RequestMode <- {CR, PW, EX}, MaxId <- 2,
  MaxDepth <- 1, Value <- {v0, v1}, ZeroValue <- v0, ValBlk <- BOOLEAN, Notice <- {FALSE}

\* Exclusive locks of two names come and go: circles of two processes.
Circles == INSTANCE DeadlockSearch WITH
  Owner <- {o3, o4, o5}, Name <- {n2, n3}, AccessMode <- {3}, RequestMode <- {EX}, MaxId <- 4,
  MaxDepth <- 1, Value <- {v0}, ZeroValue <- v0, ValBlk <- {FALSE}, Notice <- {FALSE}

\* Three processes ask for three names, and ask again: circles of three, each holding
\* what the next waits for, and circles of two beside them.  Nobody lets go;
\* the IDs used up, all stay as they are.
Rings == INSTANCE DeadlockSearch WITH
  Owner <- {o3, o4, o5}, Name <- {n2, n3, n4}, AccessMode <- {3}, RequestMode <- {EX}, MaxId <- 6,
  MaxDepth <- 1, Value <- {v0}, ZeroValue <- v0, ValBlk <- {FALSE}, Notice <- {FALSE}

AskInit == Init /\ question \in {"trees", "values", "circles", "rings"}

AskNext ==
  /\ \/ question = "trees" /\ Next
     \/ question = "values" /\ Values!Next
     \/ question = "circles" /\ Circles!Next
     \/ question = "rings" /\ \E o \in {o3, o4, o5} : Rings!EnqueueAny(o)
     \/ question = "rings" /\ lastID = 6 /\ UNCHANGED vars
  /\ UNCHANGED question

AskSpec == AskInit /\ [][AskNext]_<<vars, question>>

\* The code's search answers whether its starting owner can be reached.
SearchIsReachability ==
  /\ question = "circles" => Circles!SearchIsReachability
  /\ question = "rings" => Rings!SearchIsReachability

\* Every deadlock of exclusive locks is found from a request in it.
CirclesAreFound ==
  /\ question = "circles" => Circles!NoUndetectedDeadlock
  /\ question = "rings" => Rings!NoUndetectedDeadlock

\* Two states of circles that a permutation of n2, n3 and n4 makes one are made one by a
\* permutation of the names they have, n2 and n3.
Symmetries ==
  Permutations(Owner) \cup Permutations({o3, o4, o5}) \cup Permutations({n2, n3, n4})

Database == <<locks, resources, lastID, doomed, question>>
=============================================================================
