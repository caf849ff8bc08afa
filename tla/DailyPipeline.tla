--------------------------- MODULE DailyPipeline ---------------------------
(***************************************************************************)
(* DailyPipelineRunner: one run after the other executes the daily tasks in  *)
(* order, records every step in the database, retries what may be retried    *)
(* and keeps the analyses back unless market data and its quality are good.   *)
(* Each record is a state operation, a transaction that is tried again when   *)
(* it raises, whether or not it had been committed.  Runs do not overlap here  *)
(* (PipelineLock); an overlapping run works on rows of its own.                *)
(*                                                                         *)
(* Abstracted: what a task computes is its outcome; delays, error texts,      *)
(* times, the run's summary and its data_as_of are left out.                   *)
(***************************************************************************)
EXTENDS Integers, Sequences

CONSTANTS
  TaskOrder,    \* the tasks in order
  Gated,        \* tasks with requires_quality_gate
  MaxAttempts,  \* attempts at a task
  MaxTries,     \* tries of a state operation
  MaxRows       \* bound: run rows of the model

Tasks == {TaskOrder[i] : i \in DOMAIN TaskOrder}
Gates == {"market_data_update", "data_quality"}
RunIds == 1..MaxRows

ASSUME TasksAssumption ==
  /\ TaskOrder \in Seq(STRING)
  /\ TaskOrder # <<>>
  /\ \A i, j \in DOMAIN TaskOrder : TaskOrder[i] = TaskOrder[j] => i = j
ASSUME LimitsAssumption ==
  /\ MaxAttempts \in Nat \ {0}
  /\ MaxTries \in Nat \ {0}
  /\ MaxRows \in Nat

VARIABLES
  pc,         \* what the runner does next
  run,        \* the run row it works on
  index,      \* the task it is at
  attempt,    \* the attempt at that task
  tries,      \* failed tries of the state operation under way
  ready,      \* gates it has seen pass: data_update_ready, quality_ready
  created,    \* run rows created, the last id given out
  runStatus,  \* status of each run row
  task        \* task rows of each run row

control == <<run, index, attempt, ready>>
rows == <<created, runStatus, task>>
vars == <<pc, control, tries, rows>>

Settled == {"completed", "failed", "skipped"}
TaskStatus == {"pending", "running"} \cup Settled
Finished == {"completed", "partial", "failed"}
RunStatus == {"absent", "running"} \cup Finished
Ended == {"idle", "finished", "raised", "killed"}
Operations == {"create", "mark_running", "mark_retry", "mark_completed",
               "mark_failed", "mark_skipped", "finalize"}
Steps == Ended \cup Operations \cup {"next", "execute"}

Row == [status : TaskStatus, attempts : 0..MaxAttempts]
NewRows == [t \in Tasks |-> [status |-> "pending", attempts |-> 0]]

Init ==
  /\ pc = "idle"
  /\ run = 0 /\ index = 0 /\ attempt = 0 /\ tries = 0
  /\ ready = {}
  /\ created = 0
  /\ runStatus = [id \in RunIds |-> "absent"]
  /\ task = [id \in RunIds |-> NewRows]

Begin ==
  /\ pc \in Ended
  /\ created + MaxTries <= MaxRows
  /\ pc' = "create"
  /\ run' = 0 /\ index' = 1 /\ attempt' = 0
  /\ ready' = {}
  /\ UNCHANGED <<tries, rows>>

-----------------------------------------------------------------------------
(* State operations *)

\* The operation `effect` is tried: it succeeds and the runner goes on with
\* `then`, or it raises, before its commit or after it, and is tried again
\* until the tries are used up and the run raises.
StateOperation(op, effect, then) ==
  /\ pc = op
  /\ \/ effect /\ then /\ tries' = 0
     \/ /\ effect \/ UNCHANGED rows
        /\ IF tries + 1 < MaxTries
           THEN tries' = tries + 1 /\ pc' = pc
           ELSE tries' = 0 /\ pc' = "raised"
        /\ UNCHANGED control

Current == TaskOrder[index]

Mark(status) ==
  /\ task' = [task EXCEPT ![run][Current].status = status]
  /\ UNCHANGED <<created, runStatus>>

\* _create_run: a new run row with its pending tasks, and another one when it
\* is tried again after its commit.
NewId == created + 1
Create ==
  StateOperation("create",
    /\ created' = NewId
    /\ runStatus' = [runStatus EXCEPT ![NewId] = "running"]
    /\ UNCHANGED task,
    run' = NewId /\ pc' = "next" /\ UNCHANGED <<index, attempt, ready>>)

MarkRunning ==
  StateOperation("mark_running",
    /\ task' = [task EXCEPT ![run][Current] =
                  [status |-> "running", attempts |-> attempt]]
    /\ UNCHANGED <<created, runStatus>>,
    pc' = "execute" /\ UNCHANGED control)

BugNextAttempt == attempt
NextAttempt == attempt + 1
MarkRetry ==
  StateOperation("mark_retry", Mark("pending"),
    pc' = "mark_running" /\ attempt' = NextAttempt
      /\ UNCHANGED <<run, index, ready>>)

\* _execute_task returns; the runner notes a gate that passed.
BugReadyAfter(status) ==            \* whatever the outcome
  IF Current \in Gates THEN ready \cup {Current} ELSE ready
ReadyAfter(status) ==
  IF Current \in Gates /\ status = "completed" THEN ready \cup {Current} ELSE ready
Return(op, status) ==
  StateOperation(op, Mark(status),
    pc' = "next" /\ index' = index + 1 /\ ready' = ReadyAfter(status)
      /\ UNCHANGED <<run, attempt>>)
MarkCompleted == Return("mark_completed", "completed")
MarkFailed == Return("mark_failed", "failed")
MarkSkipped == Return("mark_skipped", "skipped")

\* _finalize_run
BugOutcomeOf(states) ==             \* a skipped task is no failure
  IF \E g \in Gates : g \notin Tasks \/ states[g].status # "completed" THEN "failed"
  ELSE IF \E t \in Tasks : states[t].status = "failed" THEN "partial"
  ELSE "completed"
OutcomeOf(states) ==
  IF \E g \in Gates : g \notin Tasks \/ states[g].status # "completed" THEN "failed"
  ELSE IF \E t \in Tasks : states[t].status \in {"failed", "skipped"} THEN "partial"
  ELSE "completed"
Finalize ==
  StateOperation("finalize",
    /\ runStatus' = [runStatus EXCEPT ![run] = OutcomeOf(task[run])]
    /\ UNCHANGED <<created, task>>,
    pc' = "finished" /\ UNCHANGED control)

-----------------------------------------------------------------------------
(* The loop over the tasks *)

\* A gated task is skipped unless both gates passed.
Blocked(t) == t \in Gated /\ ~(Gates \subseteq ready)

Last == Len(TaskOrder)

BugNextTask ==                      \* a blocked task is passed over unrecorded
  /\ pc = "next"
  /\ \/ index > Last /\ pc' = "finalize" /\ UNCHANGED <<index, attempt>>
     \/ /\ index <= Last /\ Blocked(Current)
        /\ pc' = "next" /\ index' = index + 1 /\ attempt' = attempt
     \/ /\ index <= Last /\ ~Blocked(Current)
        /\ pc' = "mark_running" /\ attempt' = 1 /\ index' = index
  /\ UNCHANGED <<run, ready, tries, rows>>
NextTask ==
  /\ pc = "next"
  /\ \/ index > Last /\ pc' = "finalize" /\ attempt' = attempt
     \/ index <= Last /\ Blocked(Current) /\ pc' = "mark_skipped" /\ attempt' = attempt
     \/ index <= Last /\ ~Blocked(Current) /\ pc' = "mark_running" /\ attempt' = 1
  /\ UNCHANGED <<run, index, ready, tries, rows>>

\* The task completes, skips itself, or fails, in a way that may be retried or
\* not.
Execute ==
  /\ pc = "execute"
  /\ \/ pc' \in {"mark_completed", "mark_skipped", "mark_failed"}
     \/ attempt < MaxAttempts /\ pc' = "mark_retry"
  /\ UNCHANGED <<control, tries, rows>>

\* The process is killed.
Kill ==
  /\ pc \notin Ended
  /\ pc' = "killed"
  /\ tries' = 0
  /\ UNCHANGED <<control, rows>>

RunnerStep ==
  \/ Create \/ NextTask \/ MarkRunning \/ Execute \/ MarkRetry
  \/ MarkCompleted \/ MarkFailed \/ MarkSkipped \/ Finalize
Next == Begin \/ RunnerStep \/ Kill

\* A run under way takes its next step; tasks end, if only with an error.
Spec == Init /\ [][Next]_vars /\ WF_vars(RunnerStep)

-----------------------------------------------------------------------------
\* Types of the runner's variables and of the rows.
TypeOK ==
  /\ pc \in Steps
  /\ run \in RunIds \cup {0}
  /\ index \in 0..(Len(TaskOrder) + 1)
  /\ attempt \in 0..MaxAttempts
  /\ tries \in 0..(MaxTries - 1)
  /\ ready \subseteq Gates
  /\ created \in 0..MaxRows
  /\ runStatus \in [RunIds -> RunStatus]
  /\ task \in [RunIds -> [Tasks -> Row]]

Touched(row) == row.status # "pending" \/ row.attempts > 0

\* An analysis never starts on data that did not pass: in every run, whatever
\* was retried, raised or killed, a gated task was attempted only if the rows of
\* the same run say that market data and quality completed.
GatedAfterGates ==
  \A id \in RunIds : \A t \in Gated \cap Tasks :
    task[id][t].attempts > 0 =>
      \A g \in Gates : g \in Tasks /\ task[id][g].status = "completed"

\* The rows tell how far a run got, also a killed one: a task is touched only
\* once every earlier one is settled.
SettledInOrder ==
  \A id \in RunIds : \A i, j \in DOMAIN TaskOrder :
    i < j /\ Touched(task[id][TaskOrder[j]]) =>
      task[id][TaskOrder[i]].status \in Settled

\* A finished run has settled every task, tried every task that needs no gate
\* (so the report is written after a failed quality gate), and its status is
\* what its task rows add up to.
FinishedIsTruthful ==
  \A id \in RunIds : runStatus[id] \in Finished =>
    /\ \A t \in Tasks : task[id][t].status \in Settled
    /\ \A t \in Tasks \ Gated : task[id][t].attempts > 0
    /\ runStatus[id] = "completed" <=>
         Gates \subseteq Tasks /\ \A t \in Tasks : task[id][t].status = "completed"
    /\ runStatus[id] = "failed" <=>
         \E g \in Gates : g \notin Tasks \/ task[id][g].status # "completed"

\* Where the runner stands, in the terms of its rows: the tasks behind it are
\* settled, those ahead untouched, a gate it has seen pass is completed, and a
\* task under way is not blocked.
Marks == {"mark_running", "mark_retry", "mark_completed", "mark_failed"}
AtTask == Marks \cup {"execute", "mark_skipped"}
Behind ==
  \A i \in DOMAIN TaskOrder :
    LET row == task[run][TaskOrder[i]]
    IN  /\ i < index => /\ row.status \in Settled
                        /\ TaskOrder[i] \in Gated \/ row.attempts > 0
        /\ i > index => ~Touched(row)
SeenPass ==
  \A g \in ready :
    \E i \in DOMAIN TaskOrder :
      i < index /\ TaskOrder[i] = g /\ task[run][g].status = "completed"
Here ==
  LET row == task[run][Current]
  IN  /\ pc = "next" /\ index <= Last => ~Touched(row)
      /\ pc \in AtTask => index <= Last /\ attempt <= MaxAttempts
      /\ pc \in AtTask \ {"mark_completed"} => row.status # "completed"
      /\ pc \in Marks \cup {"execute"} => ~Blocked(Current) /\ attempt >= 1
      /\ pc = "mark_retry" => attempt < MaxAttempts
      /\ pc \in AtTask \ {"mark_running"} => Current \in Gated \/ row.attempts > 0
Position ==
  pc \notin Ended \cup {"create"} =>
    /\ run \in 1..created
    /\ index >= 1
    /\ pc # "finalize" => runStatus[run] = "running"
    /\ pc = "finalize" => index = Last + 1
    /\ Behind /\ SeenPass /\ Here
NotCreated ==
  \A id \in RunIds : id > created => runStatus[id] = "absent" /\ task[id] = NewRows
Room == pc = "create" => created + MaxTries - tries <= MaxRows /\ index = 1 /\ ready = {}

\* The conjunction the proofs use: every step preserves it.
IInv ==
  /\ TypeOK /\ GatedAfterGates /\ SettledInOrder /\ FinishedIsTruthful
  /\ Position /\ NotCreated /\ Room

\* Every run that begins ends: it finishes, raises or is killed.
RunEnds == pc = "create" ~> pc \in Ended

=============================================================================
