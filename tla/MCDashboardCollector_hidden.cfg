SPECIFICATION Spec
CONSTANTS
  a = a
  A = A
  u1 = u1
  Names = {a, A}
  NoName = NoName
  Alpha <- CaseOrder
  UserGroups = {u1}
  Wildcard = Wildcard
  Configs <- NoConfigs
  PeerPriorities <- SmallPriorities
  MaxInt = 3
  MaxEntries = 2
INVARIANT UnmarkedGroupsHidden
