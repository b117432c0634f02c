SPECIFICATION FairSpec
CONSTANTS
  tab = tab
  Tab = tab
  Clients = {tab}
  Kinds <- MCKinds
  Unwatchable <- MCUnwatchable
  EmptyVersions <- MCEmptyVersions
  MaxFetches = 2
  MaxVersion = 2
  MaxInbox = 1
  MaxRestarts = 1
INVARIANTS TypeOK RefetchOwed
PROPERTIES ChangeRendered PageReconnects
