SPECIFICATION FairFleetSpec
CONSTANTS
  mgr = mgr
  d1 = d1
  Callers = {mgr, d1}
  Mgr = mgr
  Clusters = 2
  AzureCluster = 1
  Requests = 1
  MaxRepairs = 1
  Skew = 1
  Timeout = 1
  DefaultLifetime = 3
  Lifetimes = {3}
  MaxTime = 4
INVARIANTS FleetTypeOK SnapshotComplete CachedTokenValid
PROPERTIES NoRedundantRefresh UsableClusterActive CallsReturn
