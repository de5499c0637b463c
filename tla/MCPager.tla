------------------------------- MODULE MCPager -------------------------------
EXTENDS Pager

CONSTANTS a, b, c   \* the processes

MCOwners == {<<a, 1>>, <<a, 2>>, <<b, 1>>, <<c, 2>>}

\* A process with two pages of a section written back; one with a page of a
\* read-only section beside another with a page of zeros; and one with a single
\* copy-on-reference page, which it may lock.
MCMappings ==
  [{<<a, 1>>, <<a, 2>>} -> {"writeBack"}] \cup [{<<c, 2>>} -> {"copyOnRef"}]
    \cup {[o \in {<<a, 2>>, <<b, 1>>} |-> IF o[1] = a THEN "readOnly" ELSE "none"]}

MCLocks == {c} \X {"workingSet", "memory"}

\* One page is watched: only its contents tell one write, or one block, from
\* another.
MCValues == [o \in MCOwners |-> IF o[2] = 2 THEN {0, 1} ELSE {0}]
MCFileValue == [o \in MCOwners |-> IF o[2] = 2 THEN 1 ELSE 0]

MCDefaultSize == [p \in Procs |-> IF p = b THEN 1 ELSE 2]

MCStores ==
  {[kind |-> "none", at |-> 0]} \cup [kind : {"pageFile"}, at : 0 .. FileSize]
    \cup [kind : {"section"}, at : 1 .. LastPage]

MCNoStore == [kind |-> "none", at |-> 0]

MCNoOwner == <<>>

=============================================================================
