\* Does a restore leave the content of the archive?
SPECIFICATION Spec
CONSTANTS
  c1 = c1  c2 = c2
  Commits = {c1, c2}
  MaxSecond = 3
INVARIANTS
  RestoresOnNextStart
