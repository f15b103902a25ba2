CONSTANTS
  alice = alice
  bob = bob
  n1 = n1
  n2 = n2
  e1 = e1
  e2 = e2
  Accounts = {alice}
  FirstAccount = alice
  Switching = {}
  Names = {n1}
  Edits = {e1, e2}
  FirstVisibility <- MCFirstVisibility
  NoTree = NoTree
  NoEntry = NoEntry
  NoEdit = NoEdit
  Delay = 1
  EditDeadline = 1
  MaxTime = 2
SPECIFICATION Spec
PROPERTY EditKeepsVisibility
