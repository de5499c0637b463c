----------------------------- MODULE PageFileMap -----------------------------
(***************************************************************************)
(* The page file's allocation map: which blocks are in use, and the size   *)
(* of the run the modified page writer is given.  The map is a record      *)
(* [inUse, allocSize]; the warnings at 65% and 90% full are console texts  *)
(* and are left out.                                                       *)
(***************************************************************************)
EXTENDS Integers, FiniteSets, FiniteSetsExt

CONSTANTS
  FileSize,        \* the page file's size in blocks
  WriteCluster,    \* MPW_WRTCLUSTER: the longest run handed out
  MinAllocation,   \* 16: at this size or less the first free run will do
  Drop,            \* 16: how far the size falls when no run of it is free
  Regrow           \* 8: how far it climbs when freeing leaves a run

ASSUME MapAssumption ==
  /\ FileSize \in Nat /\ {WriteCluster, MinAllocation, Drop, Regrow} \subseteq Nat \ {0}
  /\ MinAllocation <= WriteCluster

Blocks == 1 .. FileSize

NewMap == [inUse |-> {}, allocSize |-> WriteCluster]

\* The free blocks around b, as far as they go: the run b is part of.
FreeRun(m, b) ==
  {c \in Blocks : \A x \in Blocks : (x \in b .. c \/ x \in c .. b) => x \notin m.inUse}

\* findRun: the first run of at least n free blocks, {} if there is none.
FindRun(m, n) ==
  LET fits == {b \in Blocks : Cardinality(FreeRun(m, b)) >= n}
  IN IF fits = {} THEN {} ELSE FreeRun(m, Min(fits))

\* The sizes Allocate's loop looks for, one Drop after another.
DroppedSize(m, k) == IF k = 0 THEN m.allocSize ELSE Max({m.allocSize - k * Drop, MinAllocation})

Served(m, want, k) ==
  LET target == Min({want, DroppedSize(m, k)})
  IN target <= MinAllocation \/ FindRun(m, target) # {}

\* The first n blocks of a run.
FirstOf(run, n) == {b \in run : b < Min(run) + n}

CanAllocateRun(m, want) == want # 0 /\ m.inUse # Blocks

\* Allocate: the run given, and the map with it taken.  At MinAllocation or
\* less it is the first free run, cut to what was asked for.
TakeRun(m, run, size) == [run |-> run, map |-> [inUse |-> m.inUse \cup run, allocSize |-> size]]

AllocateOf(m, want, size) ==
  LET target == Min({want, size})
  IN TakeRun(m, FirstOf(FindRun(m, IF target <= MinAllocation THEN 1 ELSE target), target), size)

AllocateRun(m, want) ==
  AllocateOf(m, want, DroppedSize(m, Min({j \in 0 .. WriteCluster : Served(m, want, j)})))

\* Free, of a run of blocks all allocated (else it is refused).
CanFreeRun(m, run) == run \subseteq m.inUse

FreeBlocks(m, run) ==
  LET freed == [m EXCEPT !.inUse = @ \ run]
      grown == Min({m.allocSize + Regrow, WriteCluster})
  IN IF /\ m.allocSize < WriteCluster
        /\ Cardinality(FreeRun(freed, Min(run))) >= grown
     THEN [freed EXCEPT !.allocSize = grown] ELSE freed

\* PageFileMap.Check; that every block in use is somebody's is Pager's.
MapOK(m) ==
  m.inUse \subseteq Blocks /\ m.allocSize \in MinAllocation .. WriteCluster

=============================================================================
