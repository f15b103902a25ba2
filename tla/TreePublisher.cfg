CONSTANTS
  alice = alice
  bob = bob
  n1 = n1
  n2 = n2
  e1 = e1
  e2 = e2
  Accounts = {alice, bob}
  FirstAccount = alice
  Switching <- MCSwitching
  Names = {n1}
  Edits = {e1}
  FirstVisibility <- MCFirstVisibility
  NoTree = NoTree
  NoEntry = NoEntry
  NoEdit = NoEdit
  Delay = 1
  EditDeadline = 2
  MaxTime = 3
SPECIFICATION FairSpec
INVARIANT TypeOK
INVARIANT DeletedStaysDeleted
INVARIANT DirtyIsScheduled
INVARIANT CleanAgreesWithResolver
PROPERTY EveryWriteIsTried
