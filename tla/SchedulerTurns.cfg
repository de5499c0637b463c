SPECIFICATION TurnsSpec
CONSTANTS
  Handle = {p1, p2, p3}
  None = None
  MaxPriority = 3
  MaxNormal = 2
  Base = {1}
  DirectPriority = {}
  Boost = {0}
  Quantum = {1, 2}
PROPERTY EqualsTakeTurns
