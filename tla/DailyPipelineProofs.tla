------------------------ MODULE DailyPipelineProofs ------------------------
(***************************************************************************)
(* Proofs about DailyPipeline, for every sequence of tasks, every set of     *)
(* gated ones and every limit.  IInv, which says where the runner stands in  *)
(* terms of the rows it has written, is inductive.  Every state operation    *)
(* may raise before or after its commit, so each is proved in three cases;   *)
(* the lemmas state what its commit does to the rows.  The last section is    *)
(* about PipelineLock, which keeps the runs apart, for any number of runs:    *)
(* PLInv is inductive.                                                       *)
(***************************************************************************)
EXTENDS DailyPipeline, PipelineLock, TLAPS

-----------------------------------------------------------------------------
(* The task sequence and the parts of the invariant *)

LEMMA TaskFacts ==
  /\ Last \in Nat \ {0}
  /\ DOMAIN TaskOrder = 1..Last
  /\ \A i \in 1..Last : TaskOrder[i] \in Tasks
  /\ \A t \in Tasks : \E i \in 1..Last : t = TaskOrder[i]
  /\ \A i, j \in 1..Last : TaskOrder[i] = TaskOrder[j] => i = j
<1>1. /\ Len(TaskOrder) \in Nat
      /\ DOMAIN TaskOrder = 1..Len(TaskOrder)
      /\ Len(TaskOrder) # 0
  BY TasksAssumption
<1>2. QED
  BY <1>1, TasksAssumption DEF Last, Tasks

\* What IInv says of the rows alone, whatever the runner does.
RowsInv ==
  /\ created \in 0..MaxRows
  /\ runStatus \in [RunIds -> RunStatus]
  /\ task \in [RunIds -> [Tasks -> Row]]
  /\ GatedAfterGates /\ SettledInOrder /\ FinishedIsTruthful /\ NotCreated

ControlInv ==
  /\ pc \in Steps
  /\ run \in RunIds \cup {0}
  /\ index \in 0..(Last + 1)
  /\ attempt \in 0..MaxAttempts
  /\ tries \in 0..(MaxTries - 1)
  /\ ready \subseteq Gates
  /\ Position /\ Room

LEMMA Parts ==
  /\ IInv <=> RowsInv /\ ControlInv
  /\ IInv' <=> RowsInv' /\ ControlInv'
BY DEF IInv, TypeOK, RowsInv, ControlInv, Last

LEMMA NewRowsType == NewRows \in [Tasks -> Row] /\ \A t \in Tasks : ~Touched(NewRows[t])
BY LimitsAssumption DEF NewRows, Row, TaskStatus, Touched

LEMMA RowsUnchanged == RowsInv /\ UNCHANGED rows => RowsInv'
BY DEF RowsInv, rows, GatedAfterGates, SettledInOrder, FinishedIsTruthful, NotCreated,
       Touched

LEMMA InitIInv == Init => IInv
<1> SUFFICES ASSUME Init PROVE IInv
  OBVIOUS
<1>1. RowsInv
  <2>1. runStatus \in [RunIds -> RunStatus] /\ task \in [RunIds -> [Tasks -> Row]]
    BY NewRowsType DEF Init, RunStatus
  <2>2. GatedAfterGates /\ SettledInOrder /\ FinishedIsTruthful
    BY TaskFacts, NewRowsType
    DEF Init, GatedAfterGates, SettledInOrder, FinishedIsTruthful, NewRows, Touched,
        Finished
  <2>3. NotCreated /\ created \in 0..MaxRows
    BY LimitsAssumption DEF Init, NotCreated
  <2>4. QED
    BY <2>1, <2>2, <2>3 DEF RowsInv
<1>2. ControlInv
  BY TaskFacts, LimitsAssumption
  DEF Init, ControlInv, Position, Room, Steps, Ended
<1>3. QED
  BY <1>1, <1>2, Parts

-----------------------------------------------------------------------------
(* Rows a state operation writes *)

\* The runner writes the row of the task it is at.
Writes(row) ==
  /\ task' = [task EXCEPT ![run] = [task[run] EXCEPT ![Current] = row]]
  /\ UNCHANGED <<created, runStatus>>

\* At a task, the run is created, unfinished, and the task is one of the order.
LEMMA AtTaskFacts ==
  ASSUME IInv, pc \in AtTask
  PROVE  /\ run \in RunIds /\ run <= created
         /\ runStatus[run] = "running"
         /\ index \in 1..Last
         /\ Current \in Tasks
         /\ task[run] \in [Tasks -> Row]
         /\ Behind /\ SeenPass /\ Here
<1>1. pc \notin Ended \cup {"create"} /\ pc # "finalize"
  BY DEF AtTask, Marks, Ended
<1>2. Position /\ index \in 0..(Last + 1) /\ created \in 0..MaxRows
  BY Parts DEF RowsInv, ControlInv
<1>3. /\ run \in 1..created /\ index >= 1 /\ runStatus[run] = "running"
      /\ Behind /\ SeenPass /\ Here
  BY <1>1, <1>2 DEF Position
<1>4. index \in 1..Last
  BY <1>2, <1>3, TaskFacts DEF Here
<1>5. run \in RunIds /\ run <= created
  BY <1>2, <1>3, LimitsAssumption DEF RunIds
<1>6. QED
  BY <1>3, <1>4, <1>5, TaskFacts DEF Current, IInv, TypeOK

\* Writing the row keeps what the rows say when it does not undo a completion,
\* and attempts a task only if it is not blocked.
LEMMA RowStep ==
  ASSUME IInv, pc \in AtTask, NEW row \in Row, Writes(row),
         task[run][Current].status = "completed" => row.status = "completed",
         row.attempts > 0 => task[run][Current].attempts > 0 \/ ~Blocked(Current)
  PROVE  /\ RowsInv'
         /\ \A i \in 1..Last :
              task'[run][TaskOrder[i]] =
                IF i = index THEN row ELSE task[run][TaskOrder[i]]
         /\ \A g \in ready : \E i \in DOMAIN TaskOrder :
              i < index /\ TaskOrder[i] = g /\ task'[run][g].status = "completed"
<1>1. /\ run \in RunIds /\ run <= created
      /\ runStatus[run] = "running"
      /\ index \in 1..Last
      /\ Current \in Tasks
      /\ task[run] \in [Tasks -> Row]
      /\ Behind /\ SeenPass
  BY AtTaskFacts
<1>2. /\ RowsInv
      /\ task \in [RunIds -> [Tasks -> Row]]
  BY Parts DEF RowsInv
<1>3. /\ task' \in [RunIds -> [Tasks -> Row]]
      /\ \A id \in RunIds : id # run => task'[id] = task[id]
      /\ \A t \in Tasks : task'[run][t] = IF t = Current THEN row ELSE task[run][t]
  BY <1>1, <1>2 DEF Writes
<1>4. \A i \in 1..Last :
        task'[run][TaskOrder[i]] = IF i = index THEN row ELSE task[run][TaskOrder[i]]
  BY <1>1, <1>3, TaskFacts DEF Current
<1>5. \A g \in ready : \E i \in DOMAIN TaskOrder :
        i < index /\ TaskOrder[i] = g /\ task'[run][g].status = "completed"
  <2> SUFFICES ASSUME NEW g \in ready
               PROVE  \E i \in DOMAIN TaskOrder :
                        i < index /\ TaskOrder[i] = g /\ task'[run][g].status = "completed"
    OBVIOUS
  <2>1. PICK i \in DOMAIN TaskOrder :
          i < index /\ TaskOrder[i] = g /\ task[run][g].status = "completed"
    BY <1>1 DEF SeenPass
  <2>2. i \in 1..Last /\ i # index
    BY <2>1, <1>1, TaskFacts
  <2>3. QED
    BY <2>1, <2>2, <1>4
<1>6. \A t \in Tasks : task[run][t].status = "completed" => task'[run][t].status = "completed"
  BY <1>3
<1>7. GatedAfterGates'
  <2> SUFFICES ASSUME NEW id \in RunIds, NEW t \in Gated \cap Tasks,
                      task'[id][t].attempts > 0, NEW g \in Gates
               PROVE  g \in Tasks /\ task'[id][g].status = "completed"
    BY DEF GatedAfterGates
  <2>1. CASE id # run
    BY <2>1, <1>2, <1>3 DEF RowsInv, GatedAfterGates
  <2>2. CASE id = run /\ task[run][t].attempts > 0
    BY <2>2, <1>2, <1>6 DEF RowsInv, GatedAfterGates
  <2>3. CASE id = run /\ ~(task[run][t].attempts > 0)
    <3>1. t = Current /\ ~Blocked(Current)
      BY <2>3, <1>3
    <3>2. g \in ready
      BY <3>1 DEF Blocked
    <3>3. QED
      BY <3>2, <2>3, <1>5, TaskFacts
  <2>4. QED
    BY <2>1, <2>2, <2>3
<1>8. SettledInOrder'
  <2> SUFFICES ASSUME NEW id \in RunIds, NEW i \in 1..Last, NEW j \in 1..Last,
                      i < j, Touched(task'[id][TaskOrder[j]])
               PROVE  task'[id][TaskOrder[i]].status \in Settled
    BY TaskFacts DEF SettledInOrder
  <2>1. CASE id # run
    BY <2>1, <1>2, <1>3, TaskFacts DEF RowsInv, SettledInOrder
  <2>2. CASE id = run
    <3>1. j <= index
      BY <2>2, <1>1, <1>4, TaskFacts DEF Behind, Touched
    <3>2. task[run][TaskOrder[i]].status \in Settled
      BY <3>1, <1>1, TaskFacts DEF Behind
    <3>3. QED
      BY <2>2, <3>1, <3>2, <1>1, <1>4
  <2>3. QED
    BY <2>1, <2>2
<1>9. FinishedIsTruthful'
  <2> SUFFICES ASSUME NEW id \in RunIds, runStatus'[id] \in Finished
               PROVE  /\ \A t \in Tasks : task'[id][t].status \in Settled
                      /\ \A t \in Tasks \ Gated : task'[id][t].attempts > 0
                      /\ runStatus'[id] = "completed" <=>
                           /\ Gates \subseteq Tasks
                           /\ \A t \in Tasks : task'[id][t].status = "completed"
                      /\ runStatus'[id] = "failed" <=>
                           \E g \in Gates : g \notin Tasks \/ task'[id][g].status # "completed"
    BY DEF FinishedIsTruthful
  <2>1. id # run /\ runStatus'[id] = runStatus[id]
    BY <1>1 DEF Writes, Finished
  <2>2. QED
    BY <2>1, <1>2, <1>3 DEF RowsInv, FinishedIsTruthful
<1>10. NotCreated'
  BY <1>1, <1>2, <1>3, LimitsAssumption DEF RowsInv, NotCreated, Writes, RunIds
<1>11. QED
  BY <1>2, <1>3, <1>4, <1>5, <1>7, <1>8, <1>9, <1>10 DEF RowsInv, Writes

\* A state operation raised for good, or the process was killed.
LEMMA EndStep ==
  ASSUME IInv, RowsInv', pc' \in Ended, tries' = 0, UNCHANGED control
  PROVE  IInv'
<1>1. ControlInv'
  BY Parts, LimitsAssumption
  DEF ControlInv, control, Position, Room, Steps, Ended
<1>2. QED
  BY <1>1, Parts

\* A state operation at a task raised, with or without its commit, and is tried
\* again.
LEMMA RetryStep ==
  ASSUME IInv, RowsInv', pc \in AtTask, pc' = pc, tries' = tries + 1,
         tries + 1 < MaxTries, UNCHANGED <<control, created, runStatus>>,
         Behind', SeenPass', Here'
  PROVE  IInv'
<1>1. /\ pc \notin Ended \cup {"create"} /\ pc # "finalize"
  BY DEF AtTask, Marks, Ended
<1>2. ControlInv'
  BY <1>1, Parts, LimitsAssumption DEF ControlInv, control, Position, Room
<1>3. QED
  BY <1>2, Parts

-----------------------------------------------------------------------------
(* The steps of the runner *)

\* Trying a state operation at a task: what is left to show is what it writes
\* and what happens when it succeeds.
LEMMA OperationStep ==
  ASSUME IInv, pc \in AtTask, NEW row \in Row,
         task[run][Current].status = "completed" => row.status = "completed",
         row.attempts > 0 => task[run][Current].attempts > 0 \/ ~Blocked(Current),
         pc = "mark_completed" \/ row.status # "completed",
         pc \in AtTask \ {"mark_running"} => Current \in Gated \/ row.attempts > 0,
         Writes(row) \/ UNCHANGED rows,
         IF tries + 1 < MaxTries THEN tries' = tries + 1 /\ pc' = pc
                                 ELSE tries' = 0 /\ pc' = "raised",
         UNCHANGED control
  PROVE  IInv'
<1>1. RowsInv'
  BY RowStep, RowsUnchanged, Parts
<1>2. CASE tries + 1 < MaxTries
  <2>1. /\ index \in 1..Last /\ Behind /\ SeenPass /\ Here
        /\ Current \in Tasks
    BY AtTaskFacts
  <2>2. UNCHANGED <<control, created, runStatus, pc>>
    BY <1>2 DEF Writes, rows
  <2>3. CASE UNCHANGED rows
    <3>1. Behind' /\ SeenPass' /\ Here'
      BY <2>1, <2>2, <2>3 DEF Behind, SeenPass, Here, Current, Blocked, Touched, control, rows
    <3>2. QED
      BY <1>1, <1>2, <2>2, <3>1, RetryStep
  <2>4. CASE Writes(row)
    <3>1. /\ \A i \in 1..Last :
               task'[run][TaskOrder[i]] =
                 IF i = index THEN row ELSE task[run][TaskOrder[i]]
          /\ \A g \in ready : \E i \in DOMAIN TaskOrder :
               i < index /\ TaskOrder[i] = g /\ task'[run][g].status = "completed"
      BY <2>4, RowStep
    <3>2. Behind'
      BY <2>1, <2>2, <3>1, TaskFacts DEF Behind, Touched, control
    <3>3. SeenPass'
      BY <2>2, <3>1 DEF SeenPass, control
    <3>4. Here'
      BY <2>1, <2>2, <3>1 DEF Here, Current, Blocked, AtTask, Marks, control
    <3>5. QED
      BY <1>1, <1>2, <2>2, <3>2, <3>3, <3>4, RetryStep
  <2>5. QED
    BY <2>3, <2>4
<1>3. CASE ~(tries + 1 < MaxTries)
  BY <1>1, <1>3, EndStep DEF Ended
<1>4. QED
  BY <1>2, <1>3

LEMMA BeginStep == IInv /\ Begin => IInv'
<1> SUFFICES ASSUME IInv, Begin PROVE IInv'
  OBVIOUS
<1>1. RowsInv'
  BY Parts, RowsUnchanged DEF Begin
<1>2. ControlInv'
  <2>1. created + MaxTries - tries <= MaxRows
    BY Parts, LimitsAssumption DEF Begin, ControlInv, RowsInv
  <2>2. QED
    BY <2>1, Parts, TaskFacts, LimitsAssumption
    DEF Begin, ControlInv, Position, Room, Steps, Operations, Ended, rows
<1>3. QED
  BY <1>1, <1>2, Parts

LEMMA CreateStep == IInv /\ Create => IInv'
<1> SUFFICES ASSUME IInv, Create PROVE IInv'
  OBVIOUS
<1>1. /\ pc = "create" /\ index = 1 /\ ready = {}
      /\ tries \in 0..(MaxTries - 1)
      /\ created + MaxTries - tries <= MaxRows
      /\ created \in 0..MaxRows
      /\ RowsInv /\ ControlInv
  BY Parts DEF Create, StateOperation, ControlInv, Room, RowsInv
<1>2. created + 1 \in RunIds
  BY <1>1, LimitsAssumption DEF RunIds
<1>3. ASSUME created' = NewId,
             runStatus' = [runStatus EXCEPT ![NewId] = "running"],
             UNCHANGED task
      PROVE  RowsInv' /\ runStatus'[NewId] = "running" /\ task'[NewId] = NewRows
  <2>1. created' \in 0..MaxRows
    BY <1>1, <1>2, <1>3, LimitsAssumption DEF NewId, RunIds
  <2>2. runStatus' \in [RunIds -> RunStatus] /\ runStatus'[NewId] = "running"
    BY <1>1, <1>2, <1>3 DEF RowsInv, NewId, RunStatus
  <2>3. GatedAfterGates' /\ SettledInOrder'
    BY <1>1, <1>3 DEF RowsInv, GatedAfterGates, SettledInOrder, Touched
  <2>4. FinishedIsTruthful'
    BY <1>1, <1>2, <1>3 DEF RowsInv, FinishedIsTruthful, Finished, NewId
  <2>5. NotCreated' /\ task'[NewId] = NewRows
    BY <1>1, <1>2, <1>3, LimitsAssumption DEF RowsInv, NotCreated, NewId, RunIds
  <2>6. QED
    BY <1>1, <1>3, <2>1, <2>2, <2>3, <2>4, <2>5 DEF RowsInv
<1>4. CASE /\ created' = NewId
           /\ runStatus' = [runStatus EXCEPT ![NewId] = "running"]
           /\ UNCHANGED task
           /\ run' = NewId /\ pc' = "next" /\ UNCHANGED <<index, attempt, ready>>
           /\ tries' = 0
  <2>1. RowsInv' /\ runStatus'[NewId] = "running" /\ task'[NewId] = NewRows
    BY <1>3, <1>4
  <2>2. \A i \in 1..Last : ~Touched(task'[run'][TaskOrder[i]])
    BY <1>4, <2>1, NewRowsType, TaskFacts
  <2>3. Position'
    <3>1. Behind' /\ SeenPass'
      BY <1>1, <1>4, <2>2, TaskFacts DEF Behind, SeenPass, Touched
    <3>2. Here'
      BY <1>1, <1>4, <2>2, TaskFacts DEF Here, AtTask, Marks, Current, Touched
    <3>3. run' \in 1..created' /\ index' >= 1 /\ runStatus'[run'] = "running"
      BY <1>1, <1>4, <2>1 DEF NewId
    <3>4. QED
      BY <1>4, <3>1, <3>2, <3>3 DEF Position
  <2>4. ControlInv'
    BY <1>1, <1>2, <1>4, <2>3, LimitsAssumption DEF ControlInv, Room, Steps, NewId
  <2>5. QED
    BY <2>1, <2>4, Parts
<1>5. CASE /\ \/ /\ created' = NewId
                 /\ runStatus' = [runStatus EXCEPT ![NewId] = "running"]
                 /\ UNCHANGED task
              \/ UNCHANGED rows
           /\ IF tries + 1 < MaxTries
              THEN tries' = tries + 1 /\ pc' = pc
              ELSE tries' = 0 /\ pc' = "raised"
           /\ UNCHANGED control
  <2>1. RowsInv' /\ (created' = created + 1 \/ created' = created)
    BY <1>1, <1>3, <1>5, RowsUnchanged DEF NewId, rows
  <2>2. CASE tries + 1 < MaxTries
    <3>1. tries' = tries + 1 /\ pc' = pc
      BY <1>5, <2>2, Zenon
    <3>2. UNCHANGED <<run, index, attempt, ready>>
      BY <1>5 DEF control
    <3>3. created' + MaxTries - tries' <= MaxRows
      BY <1>1, <2>1, <3>1, LimitsAssumption
    <3>4. Room'
      BY <1>1, <3>1, <3>2, <3>3 DEF Room
    <3>5. ControlInv'
      BY <1>1, <2>2, <3>1, <3>2, <3>4, LimitsAssumption DEF ControlInv, Position
    <3>6. QED
      BY <2>1, <3>5, Parts
  <2>3. CASE ~(tries + 1 < MaxTries)
    BY <1>5, <2>1, <2>3, EndStep DEF Ended
  <2>4. QED
    BY <2>2, <2>3
<1>6. QED
  BY <1>4, <1>5 DEF Create, StateOperation

LEMMA NextTaskStep == IInv /\ NextTask => IInv'
<1> SUFFICES ASSUME IInv, NextTask PROVE IInv'
  OBVIOUS
<1>1. /\ pc = "next" /\ UNCHANGED <<run, index, ready, tries, rows>>
      /\ RowsInv /\ ControlInv
      /\ Position
  BY Parts DEF NextTask, ControlInv
<1>2. /\ run \in 1..created /\ index >= 1 /\ runStatus[run] = "running"
      /\ Behind /\ SeenPass /\ Here
      /\ index \in 0..(Last + 1)
  BY <1>1 DEF Position, Ended, ControlInv
<1>3. RowsInv'
  BY <1>1, RowsUnchanged
<1>4. Behind' /\ SeenPass'
  BY <1>1, <1>2 DEF Behind, SeenPass, rows, Touched
<1>5. index <= Last => task[run][Current].status # "completed"
  BY <1>1, <1>2 DEF Here, Touched
<1>6. Here' /\ attempt' \in 0..MaxAttempts /\ (pc' = "finalize" => index = Last + 1)
  BY <1>1, <1>2, <1>5, LimitsAssumption, TaskFacts
  DEF NextTask, ControlInv, Here, AtTask, Marks, Current, Blocked, Touched, rows
<1>7. pc' \in {"finalize", "mark_skipped", "mark_running"}
  BY DEF NextTask
<1>8. Position'
  BY <1>1, <1>2, <1>4, <1>6 DEF Position, rows
<1>9. ControlInv'
  BY <1>1, <1>6, <1>7, <1>8 DEF ControlInv, Room, Steps, Operations
<1>10. QED
  BY <1>3, <1>9, Parts

LEMMA ExecuteStep == IInv /\ Execute => IInv'
<1> SUFFICES ASSUME IInv, Execute PROVE IInv'
  OBVIOUS
<1>1. /\ pc = "execute" /\ UNCHANGED <<control, tries, rows>>
      /\ pc' \in {"mark_completed", "mark_skipped", "mark_failed", "mark_retry"}
      /\ pc' = "mark_retry" => attempt < MaxAttempts
      /\ RowsInv /\ ControlInv
  BY Parts DEF Execute
<1>2. /\ Position /\ Behind /\ SeenPass /\ Here
  BY <1>1, AtTaskFacts DEF AtTask, ControlInv
<1>3. RowsInv'
  BY <1>1, RowsUnchanged
<1>4. Behind' /\ SeenPass'
  BY <1>1, <1>2 DEF Behind, SeenPass, rows, control, Touched
<1>5. Here'
  BY <1>1, <1>2 DEF Here, AtTask, Marks, Current, Blocked, rows, control
<1>6. Position'
  BY <1>1, <1>2, <1>4, <1>5 DEF Position, Ended, rows, control
<1>7. ControlInv'
  BY <1>1, <1>6 DEF ControlInv, Room, Steps, Operations, control
<1>8. QED
  BY <1>3, <1>7, Parts

LEMMA MarkRunningStep == IInv /\ MarkRunning => IInv'
<1> SUFFICES ASSUME IInv, MarkRunning PROVE IInv'
  OBVIOUS
<1> DEFINE row == [status |-> "running", attempts |-> attempt]
<1>1. /\ pc = "mark_running" /\ pc \in AtTask
      /\ RowsInv /\ ControlInv
  BY Parts DEF MarkRunning, StateOperation, AtTask, Marks
<1>2. /\ index \in 1..Last /\ Behind /\ SeenPass /\ Here
      /\ run \in RunIds /\ run <= created /\ runStatus[run] = "running"
  BY <1>1, AtTaskFacts
<1>3. /\ row \in Row /\ row.attempts > 0
      /\ task[run][Current].status # "completed" /\ ~Blocked(Current)
  BY <1>1, <1>2 DEF Row, TaskStatus, ControlInv, Here, Marks, AtTask
<1>4. ASSUME task' = [task EXCEPT ![run][Current] =
                        [status |-> "running", attempts |-> attempt]],
             UNCHANGED <<created, runStatus>>
      PROVE  Writes(row)
  BY <1>4 DEF Writes
<1>5. CASE /\ Writes(row)
           /\ pc' = "execute" /\ UNCHANGED control /\ tries' = 0
  <2>1. /\ RowsInv'
        /\ \A i \in 1..Last :
             task'[run][TaskOrder[i]] =
               IF i = index THEN row ELSE task[run][TaskOrder[i]]
        /\ \A g \in ready : \E i \in DOMAIN TaskOrder :
             i < index /\ TaskOrder[i] = g /\ task'[run][g].status = "completed"
    BY <1>1, <1>3, <1>5, RowStep
  <2>2. Behind' /\ SeenPass'
    BY <1>2, <1>5, <2>1, TaskFacts DEF Behind, SeenPass, Touched, control
  <2>3. Here'
    BY <1>1, <1>2, <1>3, <1>5, <2>1 DEF Here, Current, Blocked, AtTask, Marks, control
  <2>4. Position'
    BY <1>1, <1>2, <1>5, <2>2, <2>3 DEF Position, control, Writes, RunIds
  <2>5. ControlInv'
    BY <1>1, <1>5, <2>4, LimitsAssumption DEF ControlInv, Room, Steps, control
  <2>6. QED
    BY <2>1, <2>5, Parts
<1>6. CASE /\ Writes(row) \/ UNCHANGED rows
           /\ IF tries + 1 < MaxTries
              THEN tries' = tries + 1 /\ pc' = pc
              ELSE tries' = 0 /\ pc' = "raised"
           /\ UNCHANGED control
  <2>1. row.status # "completed"
    OBVIOUS
  <2> HIDE DEF row
  <2>2. QED
    BY <1>1, <1>3, <1>6, <2>1, OperationStep
<1>7. QED
  BY <1>4, <1>5, <1>6 DEF MarkRunning, StateOperation

\* The row a mark writes: the row of the current task with another status.
LEMMA MarkFacts ==
  ASSUME IInv, pc \in AtTask, NEW status \in TaskStatus, Mark(status)
  PROVE  /\ Writes([task[run][Current] EXCEPT !.status = status])
         /\ [task[run][Current] EXCEPT !.status = status] \in Row
<1>1. task[run][Current] \in Row
  BY AtTaskFacts
<1>2. QED
  BY <1>1 DEF Mark, Writes, Row

LEMMA MarkRetryStep == IInv /\ MarkRetry => IInv'
<1> SUFFICES ASSUME IInv, MarkRetry PROVE IInv'
  OBVIOUS
<1> DEFINE row == [task[run][Current] EXCEPT !.status = "pending"]
<1>1. /\ pc = "mark_retry" /\ pc \in AtTask
      /\ RowsInv /\ ControlInv
  BY Parts DEF MarkRetry, StateOperation, AtTask, Marks
<1>2. /\ index \in 1..Last /\ Behind /\ SeenPass /\ Here
      /\ run \in RunIds /\ run <= created /\ runStatus[run] = "running"
      /\ task[run][Current] \in Row
  BY <1>1, AtTaskFacts
<1>3. /\ row \in Row /\ row.status = "pending"
      /\ row.attempts = task[run][Current].attempts
      /\ task[run][Current].status # "completed" /\ ~Blocked(Current)
      /\ Current \in Gated \/ row.attempts > 0
      /\ attempt < MaxAttempts
  BY <1>1, <1>2 DEF Row, TaskStatus, Here, Marks, AtTask
<1> HIDE DEF row
<1>4. ASSUME Mark("pending") PROVE Writes(row)
  BY <1>1, <1>4, MarkFacts DEF row, TaskStatus
<1>5. CASE /\ Writes(row)
           /\ pc' = "mark_running" /\ attempt' = NextAttempt
           /\ UNCHANGED <<run, index, ready>> /\ tries' = 0
  <2>1. /\ RowsInv'
        /\ \A i \in 1..Last :
             task'[run][TaskOrder[i]] =
               IF i = index THEN row ELSE task[run][TaskOrder[i]]
        /\ \A g \in ready : \E i \in DOMAIN TaskOrder :
             i < index /\ TaskOrder[i] = g /\ task'[run][g].status = "completed"
    BY <1>1, <1>3, <1>5, RowStep
  <2>2. Behind' /\ SeenPass'
    BY <1>2, <1>5, <2>1, TaskFacts DEF Behind, SeenPass, Touched
  <2>3. attempt' \in 1..MaxAttempts
    BY <1>1, <1>3, <1>5, LimitsAssumption DEF ControlInv, NextAttempt
  <2>4. Here'
    BY <1>1, <1>2, <1>3, <1>5, <2>1, <2>3 DEF Here, Current, Blocked, AtTask, Marks
  <2>5. Position'
    BY <1>1, <1>2, <1>5, <2>2, <2>4 DEF Position, Writes, RunIds
  <2>6. ControlInv'
    BY <1>1, <1>5, <2>3, <2>5, LimitsAssumption
    DEF ControlInv, Room, Steps, Operations
  <2>7. QED
    BY <2>1, <2>6, Parts
<1>6. CASE /\ Writes(row) \/ UNCHANGED rows
           /\ IF tries + 1 < MaxTries
              THEN tries' = tries + 1 /\ pc' = pc
              ELSE tries' = 0 /\ pc' = "raised"
           /\ UNCHANGED control
  BY <1>1, <1>3, <1>6, OperationStep
<1>7. QED
  BY <1>4, <1>5, <1>6 DEF MarkRetry, StateOperation

LEMMA ReturnStep ==
  ASSUME IInv, NEW op \in {"mark_completed", "mark_failed", "mark_skipped"},
         NEW status \in Settled, status = "completed" <=> op = "mark_completed",
         Return(op, status)
  PROVE  IInv'
<1> DEFINE row == [task[run][Current] EXCEPT !.status = status]
<1>1. /\ pc = op /\ pc \in AtTask
      /\ RowsInv /\ ControlInv
  BY Parts DEF Return, StateOperation, AtTask, Marks
<1>2. /\ index \in 1..Last /\ Behind /\ SeenPass /\ Here
      /\ run \in RunIds /\ run <= created /\ runStatus[run] = "running"
      /\ task[run][Current] \in Row
      /\ Current \in Tasks /\ Current = TaskOrder[index]
  BY <1>1, AtTaskFacts DEF Current
<1>3. status \in TaskStatus
  BY DEF TaskStatus
<1>4. /\ row \in Row /\ row.status = status
      /\ row.attempts = task[run][Current].attempts
      /\ Current \in Gated \/ row.attempts > 0
      /\ task[run][Current].status = "completed" => row.status = "completed"
      /\ pc = "mark_completed" \/ row.status # "completed"
  BY <1>1, <1>2, <1>3 DEF Row, Here, AtTask, Marks
<1> HIDE DEF row
<1>5. ASSUME Mark(status) PROVE Writes(row)
  BY <1>1, <1>3, <1>5, MarkFacts DEF row
<1>6. CASE /\ Writes(row)
           /\ pc' = "next" /\ index' = index + 1 /\ ready' = ReadyAfter(status)
           /\ UNCHANGED <<run, attempt>> /\ tries' = 0
  <2>1. /\ RowsInv'
        /\ \A i \in 1..Last :
             task'[run][TaskOrder[i]] =
               IF i = index THEN row ELSE task[run][TaskOrder[i]]
        /\ \A g \in ready : \E i \in DOMAIN TaskOrder :
             i < index /\ TaskOrder[i] = g /\ task'[run][g].status = "completed"
    BY <1>1, <1>4, <1>6, RowStep
  <2>2. Behind'
    <3> SUFFICES ASSUME NEW i \in 1..Last
                 PROVE  LET r == task'[run'][TaskOrder[i]]
                        IN  /\ i < index' => /\ r.status \in Settled
                                             /\ TaskOrder[i] \in Gated \/ r.attempts > 0
                            /\ i > index' => ~Touched(r)
      BY TaskFacts DEF Behind
    <3>1. CASE i = index
      BY <3>1, <1>2, <1>4, <1>6, <2>1
    <3>2. CASE i # index
      BY <3>2, <1>2, <1>6, <2>1, TaskFacts DEF Behind
    <3>3. QED
      BY <3>1, <3>2
  <2>3. SeenPass'
    <3> SUFFICES ASSUME NEW g \in ReadyAfter(status)
                 PROVE  \E i \in DOMAIN TaskOrder :
                          /\ i < index + 1
                          /\ TaskOrder[i] = g
                          /\ task'[run][g].status = "completed"
      BY <1>6 DEF SeenPass
    <3>1. CASE g \in ready
      BY <3>1, <2>1, <1>2, TaskFacts
    <3>2. CASE g \notin ready
      <4>1. g = TaskOrder[index] /\ status = "completed"
        BY <3>2, <1>2 DEF ReadyAfter
      <4>2. QED
        BY <4>1, <1>2, <1>4, <2>1, TaskFacts
    <3>3. QED
      BY <3>1, <3>2
  <2>4. Here'
    <3>1. index + 1 <= Last => ~Touched(task'[run][TaskOrder[index + 1]])
      BY <1>2, <2>1, TaskFacts DEF Behind
    <3>2. QED
      BY <1>6, <3>1 DEF Here, AtTask, Marks, Current
  <2>5. Position'
    <3>1. run' \in 1..created' /\ index' >= 1 /\ runStatus'[run'] = "running"
      BY <1>1, <1>2, <1>6 DEF Writes, RunIds, RowsInv
    <3>2. QED
      BY <1>6, <2>2, <2>3, <2>4, <3>1 DEF Position
  <2>6. ready' \subseteq Gates
    BY <1>1, <1>6 DEF ReadyAfter, ControlInv
  <2>7. ControlInv'
    BY <1>1, <1>2, <1>6, <2>5, <2>6, LimitsAssumption, TaskFacts
    DEF ControlInv, Room, Steps
  <2>8. QED
    BY <2>1, <2>7, Parts
<1>7. CASE /\ Writes(row) \/ UNCHANGED rows
           /\ IF tries + 1 < MaxTries
              THEN tries' = tries + 1 /\ pc' = pc
              ELSE tries' = 0 /\ pc' = "raised"
           /\ UNCHANGED control
  BY <1>1, <1>4, <1>7, OperationStep
<1>8. QED
  BY <1>5, <1>6, <1>7 DEF Return, StateOperation

LEMMA FinalizeStep == IInv /\ Finalize => IInv'
<1> SUFFICES ASSUME IInv, Finalize PROVE IInv'
  OBVIOUS
<1>1. /\ pc = "finalize"
      /\ RowsInv /\ ControlInv
  BY Parts DEF Finalize, StateOperation
<1>2. /\ run \in 1..created /\ index = Last + 1 /\ index >= 1
      /\ Behind /\ SeenPass
      /\ created \in 0..MaxRows
  BY <1>1 DEF ControlInv, RowsInv, Position, Ended
<1>3. run \in RunIds
  BY <1>2, LimitsAssumption DEF RunIds
<1>4. /\ \A t \in Tasks : task[run][t].status \in Settled
      /\ \A t \in Tasks \ Gated : task[run][t].attempts > 0
  BY <1>2, TaskFacts DEF Behind
<1>5. ASSUME runStatus' = [runStatus EXCEPT ![run] = OutcomeOf(task[run])],
             UNCHANGED <<created, task>>
      PROVE  RowsInv'
  <2>1. OutcomeOf(task[run]) \in Finished
    BY DEF OutcomeOf, Finished
  <2>2. runStatus' \in [RunIds -> RunStatus]
    BY <1>1, <1>5, <2>1 DEF RowsInv, RunStatus
  <2>3. GatedAfterGates' /\ SettledInOrder'
    BY <1>1, <1>5 DEF RowsInv, GatedAfterGates, SettledInOrder, Touched
  <2>4. FinishedIsTruthful'
    <3>1. /\ OutcomeOf(task[run]) = "completed" <=>
               Gates \subseteq Tasks /\ \A t \in Tasks : task[run][t].status = "completed"
          /\ OutcomeOf(task[run]) = "failed" <=>
               \E g \in Gates : g \notin Tasks \/ task[run][g].status # "completed"
      BY <1>4 DEF OutcomeOf, Settled
    <3>2. \A id \in RunIds :
            runStatus'[id] = IF id = run THEN OutcomeOf(task[run]) ELSE runStatus[id]
      BY <1>1, <1>5 DEF RowsInv
    <3>3. QED
      BY <1>1, <1>4, <1>5, <3>1, <3>2 DEF RowsInv, FinishedIsTruthful
  <2>5. NotCreated'
    BY <1>1, <1>2, <1>5, LimitsAssumption DEF RowsInv, NotCreated, RunIds
  <2>6. QED
    BY <1>1, <1>5, <2>2, <2>3, <2>4, <2>5 DEF RowsInv
<1>6. CASE /\ runStatus' = [runStatus EXCEPT ![run] = OutcomeOf(task[run])]
           /\ UNCHANGED <<created, task>>
           /\ pc' = "finished" /\ UNCHANGED control /\ tries' = 0
  BY <1>5, <1>6, EndStep DEF Ended
<1>7. CASE /\ \/ /\ runStatus' = [runStatus EXCEPT ![run] = OutcomeOf(task[run])]
                 /\ UNCHANGED <<created, task>>
              \/ UNCHANGED rows
           /\ IF tries + 1 < MaxTries
              THEN tries' = tries + 1 /\ pc' = pc
              ELSE tries' = 0 /\ pc' = "raised"
           /\ UNCHANGED control
  <2>1. RowsInv' /\ UNCHANGED <<created, task>>
    BY <1>1, <1>5, <1>7, RowsUnchanged DEF rows
  <2>2. CASE tries + 1 < MaxTries
    <3>1. pc' = "finalize" /\ tries' = tries + 1 /\ UNCHANGED <<run, index, attempt, ready>>
      BY <1>1, <1>7, <2>2 DEF control
    <3>2. Behind' /\ SeenPass' /\ Here'
      BY <1>2, <2>1, <3>1 DEF Behind, SeenPass, Here, AtTask, Marks, Touched
    <3>3. Position'
      BY <1>1, <1>2, <2>1, <3>1, <3>2, TaskFacts DEF Position, Ended
    <3>4. ControlInv'
      BY <1>1, <2>2, <3>1, <3>3, LimitsAssumption DEF ControlInv, Room
    <3>5. QED
      BY <2>1, <3>4, Parts
  <2>3. CASE ~(tries + 1 < MaxTries)
    BY <1>7, <2>1, <2>3, EndStep DEF Ended
  <2>4. QED
    BY <2>2, <2>3
<1>8. QED
  BY <1>6, <1>7 DEF Finalize, StateOperation

LEMMA NextIInv == IInv /\ [Next]_vars => IInv'
<1> SUFFICES ASSUME IInv, [Next]_vars PROVE IInv'
  OBVIOUS
<1>1. CASE RunnerStep
  <2>1. CASE MarkCompleted
    BY <2>1, ReturnStep DEF MarkCompleted, Settled
  <2>2. CASE MarkFailed
    BY <2>2, ReturnStep DEF MarkFailed, Settled
  <2>3. CASE MarkSkipped
    BY <2>3, ReturnStep DEF MarkSkipped, Settled
  <2>4. QED
    BY <1>1, <2>1, <2>2, <2>3, CreateStep, NextTaskStep, MarkRunningStep, ExecuteStep,
       MarkRetryStep, FinalizeStep
    DEF RunnerStep
<1>2. CASE Kill
  <2>1. RowsInv'
    BY <1>2, Parts, RowsUnchanged DEF Kill
  <2>2. QED
    BY <1>2, <2>1, EndStep DEF Kill, Ended
<1>3. CASE UNCHANGED vars
  <2>1. RowsInv'
    BY <1>3, Parts, RowsUnchanged DEF vars
  <2>2. ControlInv'
    BY <1>3, Parts
    DEF vars, control, rows, ControlInv, Position, Room, Behind, SeenPass, Here, Current,
        Blocked, Touched
  <2>3. QED
    BY <2>1, <2>2, Parts
<1>4. QED
  BY <1>1, <1>2, <1>3, BeginStep DEF Next

-----------------------------------------------------------------------------
(* Theorems *)

\* The rows and the runner always fit together.
THEOREM PipelineInvariant == Spec => []IInv
BY InitIInv, NextIInv, PTL DEF Spec

\* Types.
THEOREM PipelineTypes == Spec => []TypeOK
<1>1. IInv => TypeOK
  BY DEF IInv
<1>2. QED
  BY <1>1, PipelineInvariant, PTL

\* No analysis starts on data that did not pass its gates.
THEOREM AnalysesAreGated == Spec => []GatedAfterGates
<1>1. IInv => GatedAfterGates
  BY DEF IInv
<1>2. QED
  BY <1>1, PipelineInvariant, PTL

\* Tasks are touched only once every earlier one is settled.
THEOREM TasksSettleInOrder == Spec => []SettledInOrder
<1>1. IInv => SettledInOrder
  BY DEF IInv
<1>2. QED
  BY <1>1, PipelineInvariant, PTL

\* A finished run's status is what its task rows add up to.
THEOREM StatusAddsUp == Spec => []FinishedIsTruthful
<1>1. IInv => FinishedIsTruthful
  BY DEF IInv
<1>2. QED
  BY <1>1, PipelineInvariant, PTL

-----------------------------------------------------------------------------
(* The lock that keeps the runs apart *)

\* There is no file at first.
LEMMA InitPLInv == PLInit => PLInv
<1> SUFFICES ASSUME PLInit PROVE PLInv
  OBVIOUS
<1>1. NoLock \in LockFile
  BY DEF NoLock, LockFile
<1>2. PLTypeOK
  BY <1>1 DEF PLInit, PLTypeOK, Places
<1>3. \A p \in Runs : at[p] \notin Holding
  BY DEF PLInit, Holding
<1>4. QED
  BY <1>2, <1>3 DEF PLInit, PLInv

\* A file just created is nobody else's.
LEMMA CreateFileStep ==
  ASSUME PLInv, NEW p \in Runs, CreateFile(p)
  PROVE  PLInv'
<1>1. /\ lock = NoLock
      /\ lock' = [owner |-> p, written |-> FALSE, stale |-> FALSE]
      /\ raced' = (raced \/ \E q \in Runs \ {p} : at[q] = "unlink")
      /\ at' = [at EXCEPT ![p] = "write"]
      /\ overran' = overran
  BY DEF CreateFile, Vacant, Go
<1>2. PLTypeOK'
  BY <1>1 DEF PLInv, PLTypeOK, LockFile, Places
<1>3. Fair' => \A q \in Runs : at[q] \notin Holding
  BY <1>1, NoRunAssumption DEF PLInv, Fair, NoLock
<1>4. Fair' => \A q \in Runs : at'[q] # "unlink"
  BY <1>1 DEF PLInv, PLTypeOK, Fair
<1>5. QED
  BY <1>1, <1>2, <1>3, <1>4, NoRunAssumption DEF PLInv, PLTypeOK, Holding

\* Every file operation of every run, every kill and the passing of time keep
\* the invariant.
LEMMA NextPLInv == PLInv /\ [PLNext]_plVars => PLInv'
<1> SUFFICES ASSUME PLInv, [PLNext]_plVars PROVE PLInv'
  OBVIOUS
<1>1. ASSUME NEW p \in Runs, Start(p) PROVE PLInv'
  BY <1>1 DEF Start, Go, PLInv, PLTypeOK, Places, Holding, Fair
<1>2. ASSUME NEW p \in Runs, Open(p) PROVE PLInv'
  <2>1. CASE CreateFile(p)
    BY <2>1, CreateFileStep
  <2>2. CASE Go(p, "stat") /\ UNCHANGED <<lock, raced, overran>>
    BY <2>2 DEF Go, PLInv, PLTypeOK, Places, Holding, Fair
  <2>3. QED
    BY <1>2, <2>1, <2>2 DEF Open
<1>3. ASSUME NEW p \in Runs, Reopen(p) PROVE PLInv'
  <2>1. CASE CreateFile(p)
    BY <2>1, CreateFileStep
  <2>2. CASE Go(p, "refused") /\ UNCHANGED <<lock, raced, overran>>
    BY <2>2 DEF Go, PLInv, PLTypeOK, Places, Holding, Fair
  <2>3. QED
    BY <1>3, <2>1, <2>2 DEF Reopen
<1>4. ASSUME NEW p \in Runs, Stat(p) PROVE PLInv'
  <2>1. CASE IsStale
    <3>1. Fair => \A q \in Runs : at[q] \notin Holding
      BY <2>1, NoRunAssumption DEF IsStale, PLInv, NoLock
    <3>2. QED
      BY <1>4, <2>1, <3>1 DEF Stat, Go, PLInv, PLTypeOK, Places, Holding, Fair
  <2>2. CASE ~IsStale
    BY <1>4, <2>2 DEF Stat, Go, PLInv, PLTypeOK, Places, Holding, Fair
  <2>3. QED
    BY <2>1, <2>2
<1>5. ASSUME NEW p \in Runs, Unlink(p) PROVE PLInv'
  BY <1>5 DEF Unlink, Go, NoLock, LockFile, PLInv, PLTypeOK, Places, Holding, Fair
<1>6. ASSUME NEW p \in Runs, WriteToken(p) PROVE PLInv'
  BY <1>6, NoRunAssumption
  DEF WriteToken, Go, LockFile, NoLock, PLInv, PLTypeOK, Places, Holding, Fair
<1>7. ASSUME NEW p \in Runs, Leave(p) PROVE PLInv'
  BY <1>7 DEF Leave, Go, PLInv, PLTypeOK, Places, Holding, Fair
<1>8. ASSUME NEW p \in Runs, Release(p) PROVE PLInv'
  BY <1>8 DEF Release, Go, NoLock, LockFile, PLInv, PLTypeOK, Places, Holding, Fair
<1>9. ASSUME NEW p \in Runs, KillRun(p) PROVE PLInv'
  BY <1>9 DEF KillRun, Go, PLInv, PLTypeOK, Places, Holding, Fair
<1>10. CASE Age
  BY <1>10, NoRunAssumption DEF Age, NoLock, LockFile, PLInv, PLTypeOK, Fair
<1>11. CASE UNCHANGED plVars
  BY <1>11 DEF plVars, PLInv, PLTypeOK, Fair
<1>12. QED
  BY <1>1, <1>2, <1>3, <1>4, <1>5, <1>6, <1>7, <1>8, <1>9, <1>10, <1>11
  DEF PLNext, Enter

\* The lock's invariant holds throughout.
THEOREM PipelineLockInvariant == PLSpec => []PLInv
BY InitPLInv, NextPLInv, PTL DEF PLSpec

\* Two runs never hold the lock at once unless one overran or raced.
THEOREM PipelineExclusive == PLSpec => []ExclusiveUnlessRaced
<1>1. PLInv => ExclusiveUnlessRaced
  BY DEF PLInv, ExclusiveUnlessRaced, Holding
<1>2. QED
  BY <1>1, PipelineLockInvariant, PTL

=============================================================================
