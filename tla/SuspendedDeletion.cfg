SPECIFICATION FairSpec
CONSTANTS
  None = None
  Processes = {1, 2}
  Console = 1
  Owner <- MCOwner
  Clusters = {2, 3}
  Names = {"n", "m"}
  Requests = {1, 2}
  Size <- MCSize
  BufQuo = 1
  Systems <- MCSuspendedSystems
  Efns <- MCEfns
  Delays = {1}
  Repeats = {0, 1}
  MaxTimers = 1
  MaxASTs = 1
CHECK_DEADLOCK FALSE
PROPERTY DeletionEnds
