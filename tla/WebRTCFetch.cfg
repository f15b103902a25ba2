CONSTANTS
  p1 = p1
  p2 = p2
  h1 = h1
  g1 = g1
  g2 = g2
  a1 = a1
  Peers = {p1, p2}
  Follows = {p1}
  Hashes = {h1}
  Gets = {g1, g2}
  HashOf <- MCHashOf
  Arrays = {a1}
  ArrayOf <- MCArrayOf
  SatisfiedFollows = 1
  SatisfiedOther = 1
  NoGet = NoGet
  NoPeer = NoPeer
  NoHash = NoHash
  MaxConnects = 1
SPECIFICATION FairSpec
INVARIANT TypeOK
INVARIANT OneFetchPerHash
INVARIANT EntriesAreWaiting
INVARIANT OneLoopPerPeer
PROPERTY FetchedIsStored
PROPERTY EveryGetSettles
PROPERTY ImplementsHashPromises
