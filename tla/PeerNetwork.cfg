CONSTANTS
  a = a
  b = b
  c = c
  h1 = h1
  h2 = h2
  Nodes = {a, b, c}
  Hashes = {h1}
  Links <- MCLinks
  HeldAtFirst <- MCHeldAtFirst
  MAX_HTL = 4
  DecrementAtMax <- MCDecrements
  DecrementAtMin <- MCDecrements
  Fragile <- MCFragile
  Capacity = 2
  MaxRuns <- MCMaxRuns
  Gets <- MCGets
  Puts <- MCPuts
SPECIFICATION FairSpec
INVARIANT TypeOK
INVARIANT AnswersAreHeld
PROPERTY InterestIsKept
PROPERTY NetworkComesToRest
CHECK_DEADLOCK FALSE
