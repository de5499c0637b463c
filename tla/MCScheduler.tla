----------------------------- MODULE MCScheduler -----------------------------
EXTENDS Scheduler

Handles == Permutations(Handle)
=============================================================================
