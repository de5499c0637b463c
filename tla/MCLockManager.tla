---------------------------- MODULE MCLockManager ----------------------------
(* LockManager on small instances: one .cfg for each question.             *)
EXTENDS LockManager

Owners == Permutations(Owner)

\* What a state's successors depend on: events only reports the last call.
Database == <<locks, resources, lastID, doomed>>

No == {FALSE}

\* Two modes that share with themselves only and not with each other, with
\* what shares with everything and what shares with nothing.
FourModes == {NL, CW, PR, EX}
Shared == {NL, CW, PR}
=============================================================================
