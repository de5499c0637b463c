---------------------------- MODULE VirtualMemory ----------------------------
(***************************************************************************)
(* What demand paging promises: each page of a process's virtual memory    *)
(* holds what its program last put in it, or zeros since it was created,   *)
(* and changes at no other time; and a file whose section is written back  *)
(* will hold what its pages hold.                                          *)
(***************************************************************************)
CONSTANTS
  Values,      \* what may be written to each page
  FileValue    \* what a section's file holds for each at first

VARIABLES
  asked,    \* what the program last put in each page
  memory,   \* what each page holds
  stored,   \* what its section's file holds, once what is owed is written
  shared    \* the pages whose writes their file is owed

Init ==
  /\ shared \subseteq DOMAIN memory
  /\ stored = [o \in DOMAIN memory |-> FileValue[o]]
  /\ \A o \in DOMAIN memory : memory[o] \in {0, FileValue[o]} /\ (o \in shared => memory[o] = FileValue[o])
  /\ asked = memory

Write(o, contents) ==
  /\ asked' = [asked EXCEPT ![o] = contents]
  /\ memory' = asked'
  /\ stored' = IF o \in shared THEN [stored EXCEPT ![o] = contents] ELSE stored
  /\ UNCHANGED shared

\* A page created over another leaves the file as it was to be.
Create(o) ==
  /\ asked' = [asked EXCEPT ![o] = 0]
  /\ memory' = asked'
  /\ shared' = shared \ {o}
  /\ UNCHANGED stored

Next == \E o \in DOMAIN memory : Create(o) \/ \E contents \in Values[o] : Write(o, contents)

Spec == Init /\ [][Next]_<<asked, memory, stored, shared>>

=============================================================================
