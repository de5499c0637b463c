SPECIFICATION Spec
CONSTANTS
  None = None
  Processes = {1, 2, 3, 4}
  Console = 1
  Owner <- MCOwner
  Clusters = {2, 3}
  Names = {"n", "m"}
  Requests = {1, 2}
  Size <- MCSize
  BufQuo = 1
  Systems <- MCSystems
  Efns <- MCEfns
  Delays = {1}
  Repeats = {0, 2}
  MaxTimers = 1
  MaxASTs = 1
INVARIANTS
  StatesAgree
  NoWaiterOverlooked
  ClustersCounted
  ASTLevels
  DeletionGoesOn
  DeletedLeavesNothing
  MailboxKeepsMessages
  TimersOnTime
CHECK_DEADLOCK FALSE
PROPERTIES
  TimersDeliver
  WakeupsKeepTheirBeat
  OverWaitsEnd
