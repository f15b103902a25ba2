CONSTANTS
  h1 = h1
  h2 = h2
  c1 = c1
  c2 = c2
  c3 = c3
  Hashes = {h1, h2}
  Callers = {c1, c2, c3}
  NoCaller = NoCaller
  NoHash = NoHash
  FragmentsOf <- MCFragmentsOf
  RequestTimeout = 2
  StallTimeout = 2
  TotalTimeout = 3
  CleanupInterval = 2
  MaxPendingReassemblies = 1
SPECIFICATION Spec
SYMMETRY MCSymmetry
INVARIANT TypeOK
INVARIANT TimersMatchRequests
INVARIANT OwnerNeverLost
INVARIANT JoinersShareData
INVARIANT NoImmortalReassembly
PROPERTY ImplementsHashPromises
