\* The pipeline lock of three runs.
SPECIFICATION PLSpec
CONSTANTS
  r1 = r1  r2 = r2  r3 = r3
  Runs <- AllRuns
  Killable <- KillableRuns
  NoRun = NoRun
INVARIANTS
  PLInv
  ExclusiveUnlessRaced
PROPERTIES
  OldLockIsReplaced
\* Every run may be over.
CHECK_DEADLOCK FALSE
