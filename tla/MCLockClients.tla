---------------------------- MODULE MCLockClients ----------------------------
EXTENDS LockClients

No == {FALSE}
ReadWrite == {PR, EX}
=============================================================================
