SPECIFICATION Spec
CONSTANTS
  Handle = {p1}
  None = None
  MaxPriority = 31
  MaxNormal = 15
  Base = {12}
  DirectPriority = {}
  Boost = {2, 6}
  Quantum = {1}
PROPERTY BoostNeverLowers
