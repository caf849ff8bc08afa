\* The instance lock of three consoles.
SPECIFICATION LockSpec
CONSTANTS
  p1 = p1  p2 = p2  p3 = p3
  Procs <- Consoles
  Killable <- KillableConsoles
  Reusable <- KillableConsoles
  NoPid = NoPid
INVARIANTS
  LockInv
  ExclusiveUnlessOverlapped
PROPERTIES
  StaleLockIsReplaced
