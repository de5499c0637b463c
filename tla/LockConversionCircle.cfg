SPECIFICATION Spec
CONSTANTS
  Owner = {o1, o2}
  Name = {n1}
  AccessMode = {3}
  RequestMode <- Shared
  MaxId = 2
  MaxDepth = 1
  Value = {v0}
  ZeroValue = v0
  ValBlk <- No
  Notice <- No
SYMMETRY Owners
VIEW Database
INVARIANT NoUndetectedDeadlock
