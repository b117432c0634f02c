SPECIFICATION FairSpec
CONSTANTS
  n1 = n1
  n2 = n2
  l1 = l1
  Nodes = {n1, n2}
  Links = {l1}
  Owner <- PairOwner
  StaticPeers <- PairStatic
  SRVPeers <- PairSRV
  MaxEdits = 1
INVARIANTS TypeOK NoReExport PrivateStaysLocal OnlyDiscoveredPeers
PROPERTIES ViewNeverRegresses RevocationReachesPeers
