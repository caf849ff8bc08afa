------------------------- MODULE ApprovedExecution -------------------------
(***************************************************************************)
(* What the manual-execution workflow promises for one reviewed            *)
(* recommendation, with no orders, fills, dates, holdings or cash in sight: *)
(* the user decides once, executes at most what is approved, may shrink     *)
(* the approval but never below what is done, and a closed recommendation   *)
(* executes nothing more.  ManualExecution implements this specification.   *)
(***************************************************************************)
EXTENDS Integers

CONSTANTS
  Recs,        \* recommendations of the decision runs
  Suggested,   \* [Recs -> Nat], shares the recommendation suggests
  Tradable     \* those of Recs that may become an order at all

VARIABLES
  decision,    \* what the user decided about each recommendation
  cap,         \* shares the user still approves
  done,        \* shares executed
  closed       \* recommendations that execute nothing more

absVars == <<decision, cap, done, closed>>

Decisions == {"accepted", "rejected", "watch"}

AbsInit ==
  /\ decision = [r \in Recs |-> "pending"]
  /\ cap = Suggested
  /\ done = [r \in Recs |-> 0]
  /\ closed = {}

Decide(r) ==
  /\ decision[r] = "pending"
  /\ \E d \in Decisions : decision' = [decision EXCEPT ![r] = d]
  /\ UNCHANGED <<cap, done, closed>>

\* Only an accepted, executable and still open recommendation moves.
Open(r) ==
  /\ r \in Tradable
  /\ decision[r] = "accepted"
  /\ r \notin closed

Execute(r) ==
  /\ Open(r)
  /\ \E total \in (done[r] + 1)..cap[r] :
       /\ done' = [done EXCEPT ![r] = total]
       /\ closed' = IF total = cap[r] THEN closed \cup {r} ELSE closed
  /\ UNCHANGED <<decision, cap>>

Resize(r) ==
  /\ Open(r)
  /\ \E c \in done[r]..Suggested[r] :
       /\ c > 0
       /\ cap' = [cap EXCEPT ![r] = c]
       /\ closed' = IF c = done[r] THEN closed \cup {r} ELSE closed
  /\ UNCHANGED <<decision, done>>

Close(r) ==
  /\ Open(r)
  /\ closed' = closed \cup {r}
  /\ UNCHANGED <<decision, cap, done>>

AbsNext == \E r \in Recs : Decide(r) \/ Execute(r) \/ Resize(r) \/ Close(r)

AbsSpec == AbsInit /\ [][AbsNext]_absVars

=============================================================================
