SPECIFICATION FairSpec
CONSTANTS
  c1 = c1
  Conns = {c1}
  MaxVersion = 3
INVARIANTS TypeOK NoLostNotification NoOrphanConnection CoalescingBound
PROPERTIES ImplementsChannel DeadConnectionForgotten ShutdownClosesClients
