SPECIFICATION Spec
CONSTANTS
  Handle = {p1, p2, p3}
  None = None
  MaxPriority = 4
  MaxNormal = 3
  Base = {1, 2, 4}
  DirectPriority = {0, 2}
  Boost = {0, 1, 2}
  Quantum = {1, 2}
SYMMETRY Handles
INVARIANTS QueuesHoldComputable NoIdleBesideWork
PROPERTIES PrioritiesStayInRange NoSilentOutranking
