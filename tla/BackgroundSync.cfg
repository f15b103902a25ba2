CONSTANTS
  me = me
  friend = friend
  Others = {friend}
  mine = mine
  theirs = theirs
  Trees <- MCTrees
  Owner <- MCOwner
  Public = {theirs}
  Roots = {r1, r2}
  None = None
SPECIFICATION Spec
PROPERTY LastRootsAreSynced
INVARIANT QueueIsServed
