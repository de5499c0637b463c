SPECIFICATION AskSpec
CONSTANTS
  o3 = o3
  o4 = o4
  o5 = o5
  n2 = n2
  n3 = n3
  n4 = n4
  v0 = v0
  v1 = v1
  Owner = {o1, o2}
  Name = {n1}
  AccessMode = {0, 3}
  RequestMode <- ReadWrite
  MaxId = 3
  MaxDepth = 2
  Value = {v0}
  ZeroValue = v0
  ValBlk <- No
  Notice <- Yes
SYMMETRY Symmetries
VIEW Database
INVARIANTS CountsExact SublocksUnderParents SearchIsReachability CirclesAreFound
PROPERTIES NoMissedNotice OnlyWritersStore
