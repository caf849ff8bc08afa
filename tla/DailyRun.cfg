\* Two runs, with the permissions changing at any time.
SPECIFICATION Spec
CONSTANTS
  c1 = c1  c2 = c2
  Configs = {c1, c2}
  Policies <- UserPolicies
  Validatable = {c1}
  MaxTime = 2
  MaxVersion = 2
  MaxRuns = 2
INVARIANTS
  FilesFollowCommit
  UseIsCurrent
  FreshFailureBlocks
  AdviceIsCertified
PROPERTIES
  NewAdviceIsPermitted
\* When the bounds are used up nothing happens any more: no deadlock check.
CHECK_DEADLOCK FALSE
