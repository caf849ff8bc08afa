\* Restores that fail, are killed and repeated.
SPECIFICATION Spec
CONSTANTS
  c1 = c1  c2 = c2
  Commits = {c1, c2}
  MaxSecond = 3
INVARIANTS
  RestoreInv
  NothingLost
  FailedStartRetains
  NoWorkOnHalfRestore
