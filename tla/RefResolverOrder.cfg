CONSTANTS
  t1 = t1
  A = A
  B = B
  s1 = s1
  s2 = s2
  l1 = l1
  l2 = l2
  Trees = {t1}
  Values = {A, B}
  Null = Null
  NoEntry = NoEntry
  Nothing = Nothing
  NoList = NoList
  UndeleteWindow = 2
  Subscribers = {s1}
  Listeners = {l1}
  MaxTime = 2
  MaxEvents = 2
  MaxUnsent = 1
SPECIFICATION Spec
PROPERTY OnlyNewerEventsUpdate
