---------------------------- MODULE Subsequences ----------------------------
(***************************************************************************)
(* The part of a sequence that is in a set: what a loop that keeps some    *)
(* elements of a slice, or skips the others, leaves.  SelectSeq, with a    *)
(* set for the test.                                                       *)
(***************************************************************************)
EXTENDS Integers, Sequences

\* The elements of a sequence that are in S, in their order.
Those(q, S) ==
  LET kept[i \in 0 .. Len(q)] == IF i = 0 THEN <<>>
                                ELSE IF q[i] \in S THEN Append(kept[i - 1], q[i]) ELSE kept[i - 1]
  IN  kept[Len(q)]

=============================================================================
