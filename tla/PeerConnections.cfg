CONSTANTS
  Nodes <- MCNodes
  Configs <- MCConfigs
  ConfigAtFirst <- MCConfigAtFirst
  FollowsAtFirst <- MCFollowsAtFirst
  Shares <- MCShares
  MaxPeers <- MCMaxPeers
  Settings = {2}
  Watched = {2}
  Changing <- MCChanging
SPECIFICATION FairSpec
INVARIANT TypeOK
INVARIANT OpenPeersAreInTheMap
INVARIANT PoolsKeepTheirLimits
PROPERTY NobodyStaysHalfOpen
