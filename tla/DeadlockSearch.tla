---------------------------- MODULE DeadlockSearch ----------------------------
(***************************************************************************)
(* The deadlock search as the code makes it (internal/lck/deadlock.go):    *)
(* depth first from a request to the owners of its blockers, and on from   *)
(* each owner's queued requests, an owner searched once not being searched *)
(* again.  LockManager says what the search finds, not how; here the two   *)
(* are compared.  The order of the granted queue, which the code makes     *)
(* nothing of, is taken to be by ID.                                       *)
(***************************************************************************)
EXTENDS LockManager

SortById(S) == SetToSortSeq(S, LAMBDA a, b : a < b)

\* Mutant: the requests queued ahead are not followed.
HolderSeq(w) ==
  SelectSeq(SortById(Holders(locks, locks[w].resource)),
            LAMBDA b : Blocks(locks, resources, b, w))

\* Blockers, in the order of their resource's queues.
BlockerSeq(w) ==
  LET r == locks[w].resource
      held == {l \in DOMAIN locks : locks[l].resource = r /\ locks[l].state = "Granted"}
  IN SelectSeq(SortById(held) \o Queue(resources, r),
               LAMBDA b : Blocks(locks, resources, b, w))

\* queued: an owner's requests that are waiting or converting, by ID.
QueuedOf(o) == SortById({l \in Queued(locks) : locks[l].owner = o})

\* Where a search has got to: the owners searched, and whether it has come
\* back to the owner it started from.
At(searched, found) == [searched |-> searched, found |-> found]

RECURSIVE Search(_, _, _), SearchAll(_, _, _)

\* search(w), for the search that started from a request of owner o.
Search(o, w, s) ==
  LET visit(acc, b) ==
        LET p == locks[b].owner
        IN IF acc.found \/ p = o
           THEN At(acc.searched, TRUE)
           ELSE IF p \in acc.searched
           THEN acc
           ELSE SearchAll(o, QueuedOf(p), At(acc.searched \cup {p}, FALSE))
  IN FoldLeft(visit, s, BlockerSeq(w))

SearchAll(o, q, s) ==
  FoldLeft(LAMBDA acc, w : IF acc.found THEN acc ELSE Search(o, w, acc), s, q)

findDeadlock(t) == Search(locks[t].owner, t, At({locks[t].owner}, FALSE)).found

-----------------------------------------------------------------------------
\* The search finds a deadlock from t exactly if t's request is part of a
\* circle: not searching an owner twice (the book's process bitmap) never
\* hides one, whatever order the blockers come in.
SearchIsReachability ==
  \A t \in Queued(locks) : findDeadlock(t) <=> FindDeadlock(locks, resources, t)
=============================================================================
