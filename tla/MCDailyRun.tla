----------------------------- MODULE MCDailyRun -----------------------------
(***************************************************************************)
(* Instance of DailyRun: two runs on a day of two ticks.                     *)
(***************************************************************************)
EXTENDS DailyRun

CONSTANTS c1, c2   \* configurations

\* A permission that expires after the first tick, and a refusal.
UserPolicies ==
  {[config |-> c1, allow |-> TRUE, until |-> 1],
   [config |-> c1, allow |-> FALSE, until |-> 2]}

=============================================================================
