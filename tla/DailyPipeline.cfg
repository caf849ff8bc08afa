\* Runs of the daily pipeline on an unreliable database.
SPECIFICATION Spec
CONSTANTS
  TaskOrder <- DailyTasks
  Gated = {"event_study"}
  MaxAttempts = 2
  MaxTries = 2
  MaxRows = 2
INVARIANTS
  GatedAfterGates
  SettledInOrder
  FinishedIsTruthful
PROPERTIES
  RunEnds
\* No run need begin.
CHECK_DEADLOCK FALSE
