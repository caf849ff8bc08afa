--------------------------- MODULE MCPipelineLock ---------------------------
(***************************************************************************)
(* Instance of PipelineLock: three runs, of which two may be killed.         *)
(***************************************************************************)
EXTENDS PipelineLock

CONSTANTS r1, r2, r3

AllRuns == {r1, r2, r3}
KillableRuns == {r2, r3}

=============================================================================
