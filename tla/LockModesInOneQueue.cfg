SPECIFICATION Spec
CONSTANTS
  Owner = {o1, o2}
  Name = {n1}
  AccessMode = {3}
  RequestMode <- FourModes
  MaxId = 3
  MaxDepth = 1
  Value = {v0}
  ZeroValue = v0
  ValBlk <- No
  Notice <- No
SYMMETRY Owners
VIEW Database
INVARIANTS GrantedCompatible QueuesMatchStates NoLostGrant
PROPERTIES CompletionMatches NoOvertaking NoGrantOfDoomed
