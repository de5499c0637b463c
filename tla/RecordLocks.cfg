SPECIFICATION RmsSpec
CONSTANTS
  process1 = process1
  process2 = process2
  None = None
  Owner = {process1, process2}
  Stream = {1, 2, 3}
  ProcessOf <- MCProcessOf
  Writing = {1, 2}
  Gets <- MCGets
  Puts = {FALSE, TRUE}
  ENQLM = 6
  Name = {0, 1, 2}
  AccessMode = {1}
  RequestMode = {}
  MaxId = 9
  MaxDepth = 2
  Value = {v0}
  ZeroValue = v0
  ValBlk = {FALSE}
  Notice = {FALSE}
VIEW Database
INVARIANTS LocksAreStreams NoLostUpdate WithinQuota
PROPERTY WaitsEnd
