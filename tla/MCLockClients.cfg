SPECIFICATION ClientSpec
CONSTANTS
  Owner = {o1, o2}
  Name = {n1, n2}
  AccessMode = {3}
  RequestMode <- ReadWrite
  MaxId = 3
  MaxDepth = 1
  Value = {v0}
  ZeroValue = v0
  ValBlk <- No
  Notice <- No
INVARIANT WaitsAreQueued
PROPERTY EveryRequestCompletes
