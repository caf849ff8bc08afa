-------------------------- MODULE DailyRunProofs --------------------------
(***************************************************************************)
(* Proofs about DailyRun, for any configurations, policies and bounds: what    *)
(* is recorded was permitted, what is shown was recorded, and what may be used *)
(* has passed every gate in the run that shows it.                           *)
(***************************************************************************)
EXTENDS DailyRun, TLAPS

AllPass == \A s \in Stages : result.stages[s] = "PASS"
ByPolicy == \E p \in inForce : Allows(p, run.config, run.time)

\* A run under way is for a time, and has a number.
Numbered == pc # "idle" => run.time \in Times /\ started \in 1..MaxRuns

\* What a run has found out so far: nothing before its inputs are assembled;
\* then it knows where its signals and sizes come from.
Sourced ==
  /\ pc \in Reading => policy \subseteq inForce
  /\ pc \in {"idle", "data", "assemble"} => run.signals = "none"
  /\ pc \in {"idle", "data", "assemble", "decide"} => run.stop = 0
  /\ pc = "record" => run.stop \in 1..Passed
  /\ run.stop = Passed => run.signals # "none"
  /\ run.signals = "production" => promoted \in 1..run.time
  /\ pc \in {"decide", "record"} /\ run.signals = "provisional" => ByPolicy
  /\ pc = "record" /\ run.stop = Passed =>
       <<run.config, run.version>> \in validated \/ ByPolicy

\* What the stages say: only a run that passed every gate has no failed one.
Graded ==
  /\ pc = "record" => (AllPass <=> run.stop = Passed)
  /\ pc \in {"data", "assemble", "decide"} => result.stages["CALENDAR"] = "PASS"
  /\ pc = "record_error" => ~AllPass
  /\ pc \in {"certify", "snapshot"} => (AllPass => run.stop = Passed)

\* A result is ready only with a recorded approval, which is the run's own
\* unless it is a replay.
Answered ==
  /\ result.ready =>
       /\ pc \in {"certify", "snapshot"}
       /\ run.answer = "APPROVED"
       /\ \E r \in rows : /\ r.time = run.time /\ r.version = run.version
                          /\ r.gate = "APPROVED"
       /\ ~run.replay => AllPass
  /\ pc = "snapshot" => File("certificate") \in files

\* Recorded advice has its certificate, is cut off, or is about to get it.
Shows(r) ==
  \E f \in files : \E d \in f.shows :
    d.time = r.time /\ d.version = r.version /\ d.class # "NON_ACTIONABLE"
Due(r) ==
  /\ pc = "certify" /\ r.time = run.time /\ r.version = run.version
  /\ ~run.replay /\ result.ready
Accounted ==
  \A r \in rows : r.gate = "APPROVED" =>
    Shows(r) \/ [time |-> r.time, version |-> r.version] \in cut \/ Due(r)

IInv ==
  /\ TypeOK /\ Numbered /\ Sourced /\ Graded /\ Answered /\ Accounted
  /\ FilesFollowCommit /\ UseIsCurrent

-----------------------------------------------------------------------------
LEMMA NoRunType ==
  NoRun \in Runs /\ NothingRun \in Marks /\ NoResult \in [ready : BOOLEAN, stages : Marks]
  BY DailyRunAssumption DEF NoRun, NothingRun, NoResult, Runs, Marks, Passed

LEMMA InitIInv == Init => IInv
<1> SUFFICES ASSUME Init PROVE IInv
  OBVIOUS
<1>1. TypeOK
  BY NoRunType, DailyRunAssumption DEF Init, TypeOK, Times, Steps
<1>2. Numbered /\ Accounted /\ FilesFollowCommit /\ UseIsCurrent
  BY DEF Init, Numbered, Accounted, FilesFollowCommit, UseIsCurrent
<1>3. Sourced /\ Graded /\ Answered
  BY DEF Init, Sourced, Graded, Answered, NoRun, NoResult, NothingRun, Reading, Passed
<1>4. QED
  BY <1>1, <1>2, <1>3 DEF IInv

-----------------------------------------------------------------------------
(* What the user and the clock do *)

\* They leave the run and what it has recorded alone, and never take an
\* approval, a validation or a policy in force back.
Around ==
  /\ UNCHANGED <<durable, pc, started, run, result>>
  /\ inForce \subseteq inForce' /\ validated \subseteq validated'
  /\ promoted # 0 => promoted' = promoted
  /\ pc \in Reading => policy' \subseteq inForce'

LEMMA AroundStep ==
  ASSUME IInv, Around, TypeOK'
  PROVE  IInv'
<1> USE DEF Around, durable
<1>1. Numbered'
  BY DEF IInv, Numbered
<1>2. ByPolicy => ByPolicy'
  BY DEF ByPolicy, Allows
<1>3. promoted \in 1..run.time => promoted' = promoted
  BY DEF IInv, TypeOK, Runs
<1>4. Sourced'
  BY <1>2, <1>3 DEF IInv, Sourced
<1>5. Graded' /\ Answered' /\ Accounted' /\ FilesFollowCommit'
  BY DEF IInv, Graded, AllPass, Answered, File, Class, Actionable, Accounted, Shows, Due,
         FilesFollowCommit
<1>6. UseIsCurrent'
  BY DailyRunAssumption DEF IInv, UseIsCurrent, TypeOK, Files, Shown, Times
<1>7. QED
  BY <1>1, <1>4, <1>5, <1>6 DEF IInv

LEMMA TickStep == ASSUME IInv, Tick PROVE IInv'
<1>1. TypeOK'
  <2>1. clock' \in Times
    BY DailyRunAssumption DEF IInv, Tick, TypeOK, Times
  <2>2. UNCHANGED <<since, version, policy, inForce, promoted, validated, rows, files,
                    cut, pc, started, run, result>>
    BY DEF Tick, market, permissions, durable
  <2>3. QED
    BY <2>1, <2>2 DEF IInv, TypeOK
<1>2. Around
  BY DEF IInv, Tick, Around, Sourced, permissions
<1>3. QED
  BY <1>1, <1>2, AroundStep

LEMMA SetPolicyStep == ASSUME IInv, SetPolicy PROVE IInv'
<1>1. TypeOK'
  <2>1. policy' \subseteq Policies
    BY DEF SetPolicy
  <2>2. inForce' \subseteq Policies
    BY <2>1 DEF IInv, TypeOK, SetPolicy
  <2>3. UNCHANGED <<clock, since, version, promoted, validated, rows, files, cut, pc,
                    started, run, result>>
    BY DEF SetPolicy, market, durable
  <2>4. QED
    BY <2>1, <2>2, <2>3 DEF IInv, TypeOK
<1>2. Around
  BY DEF IInv, SetPolicy, Around, Sourced
<1>3. QED
  BY <1>1, <1>2, AroundStep

LEMMA RemovePolicyStep == ASSUME IInv, RemovePolicy PROVE IInv'
<1>1. TypeOK'
  <2>1. policy' \subseteq Policies
    BY DEF RemovePolicy
  <2>2. UNCHANGED <<clock, since, version, inForce, promoted, validated, rows, files,
                    cut, pc, started, run, result>>
    BY DEF RemovePolicy, market, durable
  <2>3. QED
    BY <2>1, <2>2 DEF IInv, TypeOK
<1>2. Around
  BY DEF IInv, RemovePolicy, Around, Sourced
<1>3. QED
  BY <1>1, <1>2, AroundStep

LEMMA PromoteStep == ASSUME IInv, Promote PROVE IInv'
<1>1. TypeOK'
  BY DEF IInv, Promote, TypeOK, Times, market, durable
<1>2. Around
  BY DEF IInv, Promote, Around, Sourced
<1>3. QED
  BY <1>1, <1>2, AroundStep

LEMMA ValidateStep == ASSUME IInv, NEW c \in Validatable, Validate(c) PROVE IInv'
<1>1. TypeOK'
  BY DailyRunAssumption DEF IInv, Validate, TypeOK, market, durable
<1>2. Around
  BY DEF IInv, Validate, Around, Sourced
<1>3. QED
  BY <1>1, <1>2, AroundStep

-----------------------------------------------------------------------------
(* The run until its decision is recorded *)

\* Up to then nothing is written, and no result is ready.
LEMMA EarlyStep ==
  ASSUME IInv, pc \notin {"certify", "snapshot"}, pc' # "snapshot",
         UNCHANGED <<rows, files, cut, promoted>>, ~result'.ready,
         TypeOK', Numbered', Sourced', Graded'
  PROVE  IInv'
<1>1. ~result.ready
  BY DEF IInv, Answered
<1>2. Answered'
  BY DEF Answered
<1>3. Accounted'
  BY <1>1 DEF IInv, Accounted, Shows, Due
<1>4. FilesFollowCommit' /\ UseIsCurrent'
  BY DEF IInv, FilesFollowCommit, UseIsCurrent
<1>5. QED
  BY <1>2, <1>3, <1>4 DEF IInv

LEMMA BeginStep == ASSUME IInv, Begin PROVE IInv'
<1>1. /\ run' \in Runs
      /\ run'.time \in Times /\ run'.signals = "none" /\ run'.stop = 0
  <2>1. PICK live \in BOOLEAN, known \in BOOLEAN, c \in Configs :
          \E t \in StartTimes(live) :
            run' = [NoRun EXCEPT !.live = live, !.time = t, !.config = c,
                                 !.portfolio = known]
    BY DEF Begin
  <2>2. PICK t \in StartTimes(live) :
            run' = [NoRun EXCEPT !.live = live, !.time = t, !.config = c,
                                 !.portfolio = known]
    BY <2>1
  <2>3. t \in Times
    BY <2>2, DailyRunAssumption DEF StartTimes, IInv, TypeOK, Times
  <2>4. NoRun \in Runs /\ NoRun.signals = "none" /\ NoRun.stop = 0
    BY NoRunType DEF NoRun
  <2>5. t \in 0..MaxTime
    BY <2>3, DailyRunAssumption DEF Times
  <2>6. run' \in Runs
    BY <2>2, <2>4, <2>5 DEF Runs
  <2>7. run'.time = t /\ run'.signals = "none" /\ run'.stop = 0
    BY <2>2, <2>4 DEF Runs
  <2>8. QED
    BY <2>3, <2>6, <2>7
<1>4. /\ result' \in [ready : BOOLEAN, stages : Marks]
      /\ ~result'.ready
      /\ pc' = "data" => result'.stages["CALENDAR"] = "PASS"
      /\ pc' = "certify" => result'.stages["CALENDAR"] # "PASS"
  <2>1. NoResult \in [ready : BOOLEAN, stages : Marks] /\ ~NoResult.ready
    BY NoRunType DEF NoResult
  <2>2. "CALENDAR" \in Stages
    BY DEF Stages
  <2>3. CASE pc' = "data" /\ result' = [NoResult EXCEPT !.stages["CALENDAR"] = "PASS"]
    BY <2>1, <2>2, <2>3 DEF Marks
  <2>4. CASE pc' = "certify" /\ result' = [NoResult EXCEPT !.stages["CALENDAR"] = "FAIL"]
    BY <2>1, <2>2, <2>4 DEF Marks
  <2>5. QED
    BY <2>3, <2>4 DEF Begin
<1>5. started' \in 1..MaxRuns
  BY DailyRunAssumption DEF Begin, IInv, TypeOK
<1>6. pc' \in {"data", "certify"} /\ UNCHANGED <<clock, market, permissions, durable>>
  BY DEF Begin
<1>7. TypeOK'
  BY <1>1, <1>4, <1>5, <1>6 DEF IInv, TypeOK, market, permissions, durable, Steps
<1>8. Numbered' /\ Sourced' /\ Graded'
  BY <1>1, <1>4, <1>5, <1>6 DEF Numbered, Sourced, Graded, AllPass, Stages, Reading, Passed
<1>9. pc \notin {"certify", "snapshot"}
  BY DEF Begin
<1>10. QED
  BY <1>4, <1>6, <1>7, <1>8, <1>9, EarlyStep DEF permissions, durable

LEMMA DataStep == ASSUME IInv, Data PROVE IInv'
<1> USE DEF IInv
<1>1. /\ pc = "data" /\ run.signals = "none" /\ run.stop = 0 /\ ~result.ready
      /\ result.stages["CALENDAR"] = "PASS"
  BY DEF Data, Sourced, Graded, Answered
<1>2. /\ run' \in Runs /\ run'.time \in Times
      /\ run'.signals = "none" /\ run'.stop = 0
      /\ since' \in 0..MaxTime /\ version' \in 0..MaxVersion
  <2>1. CASE UNCHANGED <<market, run>>
    BY <1>1, <2>1 DEF market, TypeOK, Numbered
  <2>2. CASE Sync
    <3>1. clock \in 0..MaxTime /\ clock \in Times
      BY DailyRunAssumption DEF TypeOK, Times
    <3>2. run' \in Runs /\ run'.signals = run.signals /\ run'.stop = run.stop
      BY <2>2, <3>1 DEF Sync, TypeOK, Runs
    <3>3. run'.time \in Times
      BY <1>1, <2>2, <3>1 DEF Sync, TypeOK, Runs, Numbered
    <3>4. since' \in 0..MaxTime /\ version' \in 0..MaxVersion
      BY <2>2, <3>1 DEF Sync, Snapshotted, TypeOK
    <3>5. QED
      BY <1>1, <3>2, <3>3, <3>4
  <2>3. QED
    BY <2>1, <2>2 DEF Data
<1>3. /\ result' \in [ready : BOOLEAN, stages : Marks] /\ ~result'.ready
      /\ pc' = "assemble" => result'.stages["CALENDAR"] = "PASS" /\ inForce' = policy
      /\ pc' = "certify" => result'.stages["DATA"] = "FAIL" /\ inForce' = inForce
      /\ pc' \in {"assemble", "certify"}
  <2>1. CASE DataFailed /\ UNCHANGED inForce
    BY <1>1, <2>1 DEF DataFailed, TypeOK, Marks, Stages
  <2>2. CASE DataCertified /\ inForce' = policy
    BY <1>1, <2>2 DEF DataCertified, TypeOK, Marks, Stages
  <2>3. QED
    BY <2>1, <2>2 DEF Data
<1>4. UNCHANGED <<clock, policy, promoted, validated, rows, files, cut, started>>
  BY DEF Data, durable
<1>5. TypeOK'
  BY <1>2, <1>3, <1>4 DEF TypeOK, Steps
<1>6. Numbered' /\ Sourced' /\ Graded'
  BY <1>1, <1>2, <1>3, <1>4
     DEF Numbered, Sourced, Graded, AllPass, Stages, Reading, Passed
<1>7. QED
  BY <1>1, <1>3, <1>4, <1>5, <1>6, EarlyStep

\* Without its inputs or its portfolio a run has a failed stage.
LEMMA ResearchedType ==
  ASSUME TypeOK
  PROVE  Researched \in Marks /\ Researched["PORTFOLIO"] = "FAIL"
  BY DEF TypeOK, Researched, Marks, Stages

LEMMA AssembleStep == ASSUME IInv, Assemble PROVE IInv'
<1> USE DEF IInv
<1>1. /\ pc = "assemble" /\ run.signals = "none" /\ run.stop = 0 /\ ~result.ready
      /\ result.stages["CALENDAR"] = "PASS" /\ policy \subseteq inForce
  BY DEF Assemble, Sourced, Graded, Answered, Reading
<1>2. /\ UNCHANGED <<clock, since, version, policy, inForce, promoted, validated, rows>>
      /\ UNCHANGED <<files, cut, started>>
  BY DEF Assemble, durable, market, permissions
<1>3. CASE Unassembled
  <2>1. PICK s \in {"DATA", "PIT", "SIGNAL"} : result' = [result EXCEPT !.stages[s] = "FAIL"]
    BY <1>3 DEF Unassembled
  <2>2. /\ result' \in [ready : BOOLEAN, stages : Marks] /\ ~result'.ready
        /\ result'.stages[s] = "FAIL" /\ s \in Stages
    BY <1>1, <2>1 DEF TypeOK, Marks, Stages
  <2>3. run' = run /\ pc' \in {"record_error", "certify"}
    BY <1>3 DEF Unassembled
  <2>4. TypeOK'
    BY <1>2, <2>2, <2>3 DEF TypeOK, Steps
  <2>5. Numbered' /\ Sourced' /\ Graded'
    BY <1>1, <1>2, <2>2, <2>3 DEF Numbered, Sourced, Graded, AllPass, Reading, Passed
  <2>6. QED
    BY <1>1, <1>2, <2>2, <2>3, <2>4, <2>5, EarlyStep
<1>4. ASSUME NEW eligible \in BOOLEAN,
             run' = [run EXCEPT !.version = version, !.signals = Signals(eligible)],
             \/ pc' = "decide" /\ result' = result
             \/ pc' = "certify" /\ result' = [result EXCEPT !.stages = Researched]
      PROVE  IInv'
  <2>1. Signals(eligible) \in {"none", "production", "provisional"}
    BY DEF Signals
  <2>2. /\ run' \in Runs /\ run'.signals = Signals(eligible) /\ run'.stop = 0
        /\ run'.time = run.time /\ run'.config = run.config
    BY <1>1, <1>4, <2>1 DEF TypeOK, Runs
  <2>3. Signals(eligible) = "production" => promoted \in 1..run.time
    BY DEF Signals, Promoted, TypeOK, Runs
  <2>4. Signals(eligible) = "provisional" => ByPolicy
    BY <1>1 DEF Signals, Permitted, ByPolicy
  <2>5. ByPolicy => ByPolicy'
    BY <1>2, <2>2 DEF ByPolicy, Allows
  <2>6. /\ result' \in [ready : BOOLEAN, stages : Marks] /\ ~result'.ready
        /\ pc' = "decide" => result'.stages["CALENDAR"] = "PASS"
        /\ pc' = "certify" => result'.stages["PORTFOLIO"] = "FAIL"
        /\ pc' \in {"decide", "certify"}
    BY <1>1, <1>4, ResearchedType DEF TypeOK
  <2>7. TypeOK'
    BY <1>2, <2>2, <2>6 DEF TypeOK, Steps
  <2>8. Sourced'
    BY <1>1, <1>2, <2>2, <2>3, <2>4, <2>5, <2>6 DEF Sourced, Reading, Passed
  <2>9. Numbered' /\ Graded'
    BY <1>1, <1>2, <2>2, <2>6 DEF Numbered, Graded, AllPass, Stages
  <2>10. QED
    BY <1>1, <1>2, <2>6, <2>7, <2>8, <2>9, EarlyStep
<1>5. QED
  BY <1>3, <1>4 DEF Assemble

\* Every stage passes just if the pipeline passed every gate.
LEMMA MergedMarks ==
  ASSUME TypeOK, result.stages["CALENDAR"] = "PASS", NEW stop \in 1..Passed
  PROVE  /\ Merged(stop) \in Marks
         /\ (\A s \in Stages : Merged(stop)[s] = "PASS") <=> stop = Passed
<1>1. Merged(stop) \in Marks
  BY DEF Merged, GateMark, Marks, TypeOK
<1>2. stop = Passed => \A s \in Stages : Merged(stop)[s] = "PASS"
  BY DEF Merged, GateMark
<1>3. ASSUME stop # Passed PROVE Merged(stop)["DECISION"] = "NOT_RUN"
  BY <1>3 DEF Merged, GateMark, Gate, Passed, Stages
<1>4. QED
  BY <1>1, <1>2, <1>3 DEF Stages

\* The pipeline passes only with signals and some permission for its sizes.
LEMMA StopsWithoutPermission ==
  ASSUME TypeOK, policy \subseteq inForce, NEW stop \in MayStop(Mode)
  PROVE  /\ stop \in 1..Passed
         /\ stop = Passed =>
              /\ run.signals # "none"
              /\ <<run.config, run.version>> \in validated \/ ByPolicy
<1>1. stop \in 1..Passed
  BY DEF MayStop, Constructible, Gate, Passed
<1>2. stop = Passed => run.signals # "none" /\ Mode # "none"
  BY DEF MayStop, Constructible, Gate, Passed
<1>3. Mode # "none" => <<run.config, run.version>> \in validated \/ ByPolicy
  BY DEF Mode, Permitted, ByPolicy
<1>4. QED
  BY <1>1, <1>2, <1>3

LEMMA DecideStep == ASSUME IInv, Decide PROVE IInv'
<1> USE DEF IInv
<1>1. /\ pc = "decide" /\ run.stop = 0 /\ ~result.ready
      /\ result.stages["CALENDAR"] = "PASS" /\ policy \subseteq inForce
      /\ run.signals = "production" => promoted \in 1..run.time
      /\ run.signals = "provisional" => ByPolicy
  BY DEF Decide, Sourced, Graded, Answered, Reading
<1>2. /\ UNCHANGED <<clock, since, version, policy, inForce, promoted, validated, rows>>
      /\ UNCHANGED <<files, cut, started>>
  BY DEF Decide, durable, market, permissions
<1>3. ASSUME NEW stop \in MayStop(Mode), run' = [run EXCEPT !.stop = stop],
             result' = [result EXCEPT !.stages = Merged(stop)], pc' = "record"
      PROVE  IInv'
  <2>1. /\ stop \in 1..Passed
        /\ stop = Passed => /\ run.signals # "none"
                            /\ <<run.config, run.version>> \in validated \/ ByPolicy
    BY <1>1, StopsWithoutPermission
  <2>2. /\ run' \in Runs /\ run'.stop = stop /\ run'.signals = run.signals
        /\ run'.time = run.time /\ run'.config = run.config
        /\ run'.version = run.version
    BY <1>3, <2>1 DEF TypeOK, Runs, Passed
  <2>3. /\ result' \in [ready : BOOLEAN, stages : Marks] /\ ~result'.ready
        /\ result'.stages = Merged(stop)
    BY <1>1, <1>3, <2>1, MergedMarks DEF TypeOK
  <2>4. AllPass' <=> stop = Passed
    BY <1>1, <2>1, <2>3, MergedMarks DEF AllPass
  <2>5. ByPolicy => ByPolicy'
    BY <1>2, <2>2 DEF ByPolicy, Allows
  <2>6. TypeOK'
    BY <1>2, <1>3, <2>2, <2>3 DEF TypeOK, Steps
  <2>7. Sourced'
    BY <1>1, <1>2, <1>3, <2>1, <2>2, <2>5 DEF Sourced, Reading
  <2>8. Numbered' /\ Graded'
    BY <1>1, <1>2, <1>3, <2>2, <2>4 DEF Numbered, Graded
  <2>9. QED
    BY <1>1, <1>2, <1>3, <2>3, <2>6, <2>7, <2>8, EarlyStep
<1>4. CASE run' = run /\ result' = [result EXCEPT !.stages = Researched]
           /\ pc' = "record_error"
  <2>1. /\ result' \in [ready : BOOLEAN, stages : Marks] /\ ~result'.ready
        /\ result'.stages["PORTFOLIO"] = "FAIL"
    BY <1>1, <1>4, ResearchedType DEF TypeOK
  <2>2. TypeOK'
    BY <1>2, <1>4, <2>1 DEF TypeOK, Steps
  <2>3. Numbered' /\ Sourced' /\ Graded'
    BY <1>1, <1>2, <1>4, <2>1 DEF Numbered, Sourced, Graded, AllPass, Stages, Reading, Passed
  <2>4. QED
    BY <1>1, <1>2, <1>4, <2>1, <2>2, <2>3, EarlyStep
<1>5. QED
  BY <1>3, <1>4 DEF Decide

-----------------------------------------------------------------------------
(* The decision is recorded *)

\* The row answered with is a recorded one, or a new one with the run's outcome.
LEMMA RecordFacts ==
  ASSUME IInv, Record
  PROVE  \E r \in Row :
           /\ r.time = run.time /\ r.version = run.version
           /\ rows' = rows \cup {r}
           /\ run' = [run EXCEPT !.answer = r.gate, !.replay = r \in rows]
           /\ r \notin rows => r.gate = Outcome
<1>1. CASE Recorded # {}
  <2>1. PICK r \in Recorded : rows' = rows \cup {r} /\ Answer(r)
    BY <1>1 DEF Record
  <2>2. QED
    BY <2>1 DEF Recorded, Answer, IInv, TypeOK
<1>2. CASE Recorded = {}
  <2>1. PICK r \in [time : {run.time}, version : {run.version}, gate : {Outcome}] :
          rows' = rows \cup {r} /\ Answer(r)
    BY <1>2 DEF Record
  <2>2. run.time \in Times /\ run.version \in 0..MaxVersion
    BY DEF Record, IInv, Numbered, TypeOK, Runs
  <2>3. Outcome \in {"APPROVED", "BLOCKED"}
    BY DEF Outcome
  <2>4. r \in Row
    BY <2>1, <2>2, <2>3 DEF Row
  <2>5. QED
    BY <2>1, <2>4 DEF Answer
<1>3. QED
  BY <1>1, <1>2

LEMMA RecordStep == ASSUME IInv, Record PROVE IInv'
<1> USE DEF IInv
<1>1. PICK r \in Row :
        /\ r.time = run.time /\ r.version = run.version
        /\ rows' = rows \cup {r}
        /\ run' = [run EXCEPT !.answer = r.gate, !.replay = r \in rows]
        /\ r \notin rows => r.gate = Outcome
  BY RecordFacts
<1>2. /\ pc = "record" /\ pc' = "certify" /\ inForce' = {}
      /\ UNCHANGED <<clock, since, version, policy, promoted, validated, files, cut>>
      /\ started' = started
  BY DEF Record, market
<1>3. /\ run' \in Runs
      /\ run'.answer = r.gate /\ (run'.replay <=> r \in rows)
      /\ run'.time = run.time /\ run'.version = run.version
      /\ run'.stop = run.stop /\ run'.signals = run.signals
      /\ run'.config = run.config
  <2>1. PICK seen \in BOOLEAN : /\ seen <=> r \in rows
                               /\ run' = [run EXCEPT !.answer = r.gate, !.replay = seen]
    <3>1. CASE r \in rows
      <4>1. (r \in rows) = TRUE
        BY <3>1
      <4>2. QED
        BY <1>1, <3>1, <4>1
    <3>2. CASE r \notin rows
      <4>1. (r \in rows) = FALSE
        BY <3>2
      <4>2. QED
        BY <1>1, <3>2, <4>1
    <3>3. QED
      BY <3>1, <3>2
  <2>2. QED
    BY <2>1 DEF TypeOK, Runs, Row
<1>4. /\ result' \in [ready : BOOLEAN, stages : Marks]
      /\ result'.ready <=> r.gate = "APPROVED"
      /\ result'.stages = result.stages
  BY <1>3 DEF Record, Ready, TypeOK
<1>5. TypeOK'
  BY <1>1, <1>2, <1>3, <1>4 DEF TypeOK, Steps
<1>6. Numbered' /\ Sourced'
  BY <1>2, <1>3 DEF Numbered, Sourced, Reading, Passed
<1>7. Graded'
  BY <1>2, <1>3, <1>4 DEF Graded, AllPass
<1>8. Answered'
  <2>1. r \notin rows /\ r.gate = "APPROVED" => AllPass'
    BY <1>1, <1>2, <1>4 DEF Graded, AllPass, Outcome
  <2>2. QED
    BY <1>1, <1>2, <1>3, <1>4, <2>1 DEF Answered
<1>9. Accounted'
  <2>1. SUFFICES ASSUME NEW q \in rows', q.gate = "APPROVED"
                 PROVE  (Shows(q) \/ [time |-> q.time, version |-> q.version] \in cut \/ Due(q))'
    BY DEF Accounted
  <2>2. CASE q \in rows
    BY <1>2, <2>1, <2>2 DEF Accounted, Shows, Due
  <2>3. CASE q \notin rows
    <3>1. q = r
      BY <1>1, <2>1, <2>3
    <3>2. QED
      BY <1>1, <1>2, <1>3, <1>4, <2>1, <2>3, <3>1 DEF Due
  <2>4. QED
    BY <2>2, <2>3
<1>10. FilesFollowCommit' /\ UseIsCurrent'
  BY <1>1, <1>2 DEF FilesFollowCommit, UseIsCurrent
<1>11. QED
  BY <1>5, <1>6, <1>7, <1>8, <1>9, <1>10

LEMMA RecordErrorStep == ASSUME IInv, RecordError PROVE IInv'
<1> USE DEF IInv
<1> DEFINE blocked == [time |-> run.time, version |-> 0, gate |-> "BLOCKED"]
<1>1. /\ pc = "record_error" /\ pc' = "certify" /\ rows' = rows \cup {blocked}
      /\ UNCHANGED <<clock, since, version, policy, inForce, promoted, validated>>
      /\ UNCHANGED <<files, cut, started, run, result>>
  BY DEF RecordError, market, permissions
<1>2. blocked \in Row
  BY <1>1, DailyRunAssumption DEF Numbered, Row
<1>3. TypeOK'
  BY <1>1, <1>2 DEF TypeOK, Steps
<1>4. Numbered' /\ Sourced' /\ Graded'
  BY <1>1 DEF Numbered, Sourced, Graded, AllPass, Reading
<1>5. ~result.ready
  BY <1>1 DEF Answered
<1>6. Answered' /\ Accounted'
  BY <1>1, <1>5 DEF Answered, Accounted, Shows, Due
<1>7. FilesFollowCommit' /\ UseIsCurrent'
  BY <1>1 DEF FilesFollowCommit, UseIsCurrent
<1>8. QED
  BY <1>3, <1>4, <1>6, <1>7

-----------------------------------------------------------------------------
(* Its evidence is written *)

\* A file is of the declared type, shows only recorded approvals, and lets them
\* be used only if this run passed.
LEMMA FileFacts ==
  ASSUME IInv, pc \in {"certify", "snapshot"}, NEW kind \in {"certificate", "snapshot"}
  PROVE  /\ File(kind) \in Files
         /\ File(kind).kind = kind
         /\ \A d \in File(kind).shows :
              /\ result.ready /\ d.class = Class
              /\ d.time = run.time /\ d.version = run.version
              /\ d.passed = (run.stop = Passed)
<1>1. run.time \in Times /\ started \in 1..MaxRuns
  BY DEF IInv, Numbered
<1>2. Class \in {"NON_ACTIONABLE", "PROVISIONAL", "CERTIFIED"}
  BY DEF Class
<1>3. [time |-> run.time, version |-> run.version, config |-> run.config,
       class |-> Class, passed |-> run.stop = Passed] \in Shown
  BY <1>1, <1>2 DEF IInv, TypeOK, Runs, Shown
<1>4. QED
  BY <1>1, <1>3 DEF File, Files

\* Writing one keeps what is said of the files.
LEMMA FileWritten ==
  ASSUME IInv, pc \in {"certify", "snapshot"}, NEW kind \in {"certificate", "snapshot"},
         files' = files \cup {File(kind)}, UNCHANGED <<rows, promoted>>,
         kind = "snapshot" => pc = "snapshot"
  PROVE  FilesFollowCommit' /\ UseIsCurrent'
<1> USE DEF IInv
<1>1. ASSUME NEW d \in File(kind).shows
      PROVE  /\ \E r \in rows : /\ r.time = d.time /\ r.version = d.version
                                /\ r.gate = "APPROVED"
             /\ d.class # "NON_ACTIONABLE" =>
                  /\ d.passed
                  /\ d.class = "CERTIFIED" => promoted \in 1..d.time
  <2>1. /\ result.ready /\ d.class = Class
        /\ d.time = run.time /\ d.version = run.version
        /\ d.passed = (run.stop = Passed)
    BY FileFacts
  <2>2. \E r \in rows : /\ r.time = d.time /\ r.version = d.version
                        /\ r.gate = "APPROVED"
    BY <2>1 DEF Answered
  <2>3. ASSUME Class # "NON_ACTIONABLE"
        PROVE  run.stop = Passed /\ run.signals # "none"
    BY <2>3 DEF Class, Actionable, AllPass, Graded, Sourced
  <2>4. ASSUME Class = "CERTIFIED" PROVE promoted \in 1..run.time
    <3>1. run.signals \notin {"none", "provisional"}
      BY <2>3, <2>4 DEF Class
    <3>2. run.signals = "production"
      BY <3>1 DEF TypeOK, Runs
    <3>3. QED
      BY <3>2 DEF Sourced
  <2>5. QED
    BY <2>1, <2>2, <2>3, <2>4
<1>2. File(kind).kind = kind
  BY FileFacts
<1>3. kind = "snapshot" => [File(kind) EXCEPT !.kind = "certificate"] \in files
  <2>1. PICK shown : \A k : File(k) = [kind |-> k, id |-> started, shows |-> shown]
    BY Zenon DEF File
  <2>2. [File(kind) EXCEPT !.kind = "certificate"] = File("certificate")
    BY <2>1
  <2>3. QED
    BY <2>2 DEF Answered
<1>4. FilesFollowCommit'
  BY <1>1, <1>2, <1>3 DEF FilesFollowCommit
<1>5. UseIsCurrent'
  BY <1>1 DEF UseIsCurrent
<1>6. QED
  BY <1>4, <1>5

LEMMA CertifyStep == ASSUME IInv, Certify PROVE IInv'
<1> USE DEF IInv
<1>1. /\ pc = "certify" /\ pc' = "snapshot"
      /\ files' = files \cup {File("certificate")}
      /\ UNCHANGED <<clock, since, version, policy, inForce, promoted, validated>>
      /\ UNCHANGED <<rows, cut, started, run, result>>
  BY DEF Certify, market, permissions
<1>2. TypeOK'
  BY <1>1, FileFacts DEF TypeOK, Steps
<1>3. Numbered' /\ Sourced' /\ Graded'
  BY <1>1 DEF Numbered, Sourced, Graded, AllPass, Reading
<1>4. Answered'
  BY <1>1 DEF Answered, AllPass, File, Class, Actionable
<1>5. Accounted'
  <2>1. SUFFICES ASSUME NEW r \in rows, r.gate = "APPROVED", Due(r)
                 PROVE  Shows(r)'
    BY <1>1 DEF Accounted, Shows
  <2>2. result.ready /\ Class # "NON_ACTIONABLE"
    BY <2>1 DEF Due, Answered, AllPass, Class, Actionable
  <2>3. \E d \in File("certificate").shows :
          d.time = r.time /\ d.version = r.version /\ d.class # "NON_ACTIONABLE"
    BY <2>1, <2>2 DEF Due, File
  <2>4. QED
    BY <1>1, <2>3 DEF Shows
<1>6. FilesFollowCommit' /\ UseIsCurrent'
  BY <1>1, FileWritten
<1>7. QED
  BY <1>2, <1>3, <1>4, <1>5, <1>6

\* However a run ends, nothing is left of it but what it has written.
LEMMA EndStep ==
  ASSUME IInv, End, cut \subseteq cut',
         cut' \subseteq [time : Times, version : 0..MaxVersion],
         pc = "certify" => Uncertified \subseteq cut' \/ ~result.ready,
         files \subseteq files', files' \subseteq Files,
         FilesFollowCommit', UseIsCurrent'
  PROVE  IInv'
<1> USE DEF IInv
<1>1. /\ pc' = "idle" /\ run' = NoRun /\ result' = NoResult /\ inForce' = {}
      /\ UNCHANGED <<clock, since, version, policy, promoted, validated, rows, started>>
  BY DEF End, market
<1>2. TypeOK'
  BY <1>1, NoRunType DEF TypeOK, Steps
<1>3. Numbered' /\ Sourced' /\ Graded' /\ Answered'
  BY <1>1 DEF Numbered, Sourced, Graded, Answered, NoRun, NoResult, Reading, Passed
<1>4. Accounted'
  <2>1. SUFFICES ASSUME NEW r \in rows, r.gate = "APPROVED"
                 PROVE  Shows(r)' \/ [time |-> r.time, version |-> r.version] \in cut'
    BY <1>1 DEF Accounted
  <2>2. CASE Due(r)
    BY <2>2 DEF Due, Answered, Uncertified, Decision
  <2>3. CASE ~Due(r)
    BY <2>1, <2>3 DEF Accounted, Shows
  <2>4. QED
    BY <2>2, <2>3
<1>5. QED
  BY <1>2, <1>3, <1>4

LEMMA SnapshotStep == ASSUME IInv, Snapshot PROVE IInv'
<1>1. /\ pc = "snapshot" /\ files' = files \cup {File("snapshot")}
      /\ cut' = cut /\ End /\ UNCHANGED <<rows, promoted>>
  BY DEF Snapshot, End
<1>2. FilesFollowCommit' /\ UseIsCurrent'
  BY <1>1, FileWritten
<1>3. files' \subseteq Files /\ cut \subseteq [time : Times, version : 0..MaxVersion]
  BY <1>1, FileFacts DEF IInv, TypeOK
<1>4. QED
  BY <1>1, <1>2, <1>3, EndStep

\* A run cut off before its certificate is remembered.
LEMMA CutStep ==
  ASSUME IInv, pc # "idle", End, files' = files,
         cut' = IF pc = "certify" THEN cut \cup Uncertified ELSE cut
  PROVE  IInv'
<1> USE DEF IInv
<1>1. Uncertified \subseteq [time : Times, version : 0..MaxVersion]
  BY DEF Uncertified, Decision, Numbered, TypeOK, Runs
<1>2. UNCHANGED <<rows, promoted>>
  BY DEF End
<1>3. FilesFollowCommit' /\ UseIsCurrent'
  BY <1>2 DEF FilesFollowCommit, UseIsCurrent
<1>4. QED
  BY <1>1, <1>3, EndStep DEF TypeOK

-----------------------------------------------------------------------------
LEMMA NextIInv == IInv /\ [Next]_vars => IInv'
<1> SUFFICES ASSUME IInv, [Next]_vars PROVE IInv'
  OBVIOUS
<1>1. CASE RunStep
  <2>1. CASE NotPersisted
    BY <2>1, CutStep DEF NotPersisted
  <2>2. QED
    BY <1>1, <2>1, BeginStep, DataStep, AssembleStep, DecideStep, RecordStep,
       RecordErrorStep, CertifyStep, SnapshotStep DEF RunStep
<1>2. CASE Kill
  BY <1>2, CutStep DEF Kill
<1>3. CASE Tick \/ SetPolicy \/ RemovePolicy \/ Promote
  BY <1>3, TickStep, SetPolicyStep, RemovePolicyStep, PromoteStep
<1>4. CASE \E c \in Validatable : Validate(c)
  BY <1>4, ValidateStep
<1>5. CASE UNCHANGED vars
  <2>1. /\ Around
        /\ UNCHANGED <<clock, since, version, policy, inForce, promoted, validated>>
        /\ UNCHANGED <<rows, files, cut>>
    BY <1>5 DEF vars, Around, market, permissions, durable, IInv, Sourced
  <2>2. TypeOK'
    BY <2>1 DEF Around, IInv, TypeOK
  <2>3. QED
    BY <2>1, <2>2, AroundStep
<1>6. QED
  BY <1>1, <1>2, <1>3, <1>4, <1>5 DEF Next

LEMMA Invariance == Spec => []IInv
<1>1. Init => IInv
  BY InitIInv
<1>2. IInv /\ [Next]_vars => IInv'
  BY NextIInv
<1>3. QED
  BY <1>1, <1>2, PTL DEF Spec

-----------------------------------------------------------------------------
\* Types of the run and of what it reads and records.
THEOREM RunTypes == Spec => []TypeOK
<1>1. IInv => TypeOK
  BY DEF IInv
<1>2. QED
  BY <1>1, Invariance, PTL

\* Wherever a run is cut off, a certificate or snapshot that shows decisions has
\* its committed row, and a snapshot its certificate.
THEOREM FilesAreBacked == Spec => []FilesFollowCommit
<1>1. IInv => FilesFollowCommit
  BY DEF IInv
<1>2. QED
  BY <1>1, Invariance, PTL

\* What a certificate lets be used has passed every gate in the run it certifies,
\* and is called certified only with the model's approval.
THEOREM CertificatesAreCurrent == Spec => []UseIsCurrent
<1>1. IInv => UseIsCurrent
  BY DEF IInv
<1>2. QED
  BY <1>1, Invariance, PTL

\* A failed or unreached stage leaves no decisions of the run itself.
THEOREM FailuresBlock == Spec => []FreshFailureBlocks
<1>1. IInv => FreshFailureBlocks
  BY DEF IInv, Answered, AllPass, FreshFailureBlocks
<1>2. QED
  BY <1>1, Invariance, PTL

\* Recorded advice has its actionable certificate unless the run was cut off.
THEOREM AdviceHasCertificate == Spec => []AdviceIsCertified
<1>1. IInv => AdviceIsCertified
  BY DEF IInv, Accounted, Shows, Due, AdviceIsCertified, Decision
<1>2. QED
  BY <1>1, Invariance, PTL

\* A run records new advice only with the permissions it needed.
LEMMA AdviceStep ==
  ASSUME IInv, Next, NEW r \in rows', r \notin rows, r.gate = "APPROVED"
  PROVE  LET byPolicy == \E p \in inForce : /\ p.config = run.config
                                            /\ p.allow
                                            /\ r.time <= p.until
         IN  /\ promoted \in 1..r.time \/ byPolicy
             /\ <<run.config, r.version>> \in validated \/ byPolicy
<1> USE DEF IInv
<1>1. rows' # rows => Record \/ RecordError
  BY DEF Next, RunStep, Begin, Data, Assemble, Decide, Certify, Snapshot, NotPersisted,
         Kill, End, Tick, SetPolicy, RemovePolicy, Promote, Validate, durable
<1>2. Record
  BY <1>1 DEF RecordError
<1>3. PICK new \in Row :
        /\ new.time = run.time /\ new.version = run.version
        /\ rows' = rows \cup {new}
        /\ run' = [run EXCEPT !.answer = new.gate, !.replay = new \in rows]
        /\ new \notin rows => new.gate = Outcome
  BY <1>2, RecordFacts
<1>4. r = new /\ pc = "record" /\ run.stop = Passed
  BY <1>2, <1>3 DEF Record, Outcome
<1>5. run.signals \in {"production", "provisional"}
  BY <1>4 DEF Sourced, TypeOK, Runs
<1>6. promoted \in 1..r.time \/ ByPolicy
  BY <1>3, <1>4, <1>5 DEF Sourced
<1>7. <<run.config, r.version>> \in validated \/ ByPolicy
  BY <1>3, <1>4 DEF Sourced
<1>8. QED
  BY <1>3, <1>4, <1>6, <1>7 DEF ByPolicy, Allows

\* New advice had a source of signals and of sizes the user permitted, at the
\* time it decides for.
THEOREM AdviceIsPermitted == Spec => NewAdviceIsPermitted
<1>1. IInv /\ [Next]_vars =>
        [\A r \in rows' \ rows : r.gate = "APPROVED" =>
           LET byPolicy == \E p \in inForce : /\ p.config = run.config
                                             /\ p.allow
                                             /\ r.time <= p.until
           IN  /\ promoted \in 1..r.time \/ byPolicy
               /\ <<run.config, r.version>> \in validated \/ byPolicy]_vars
  BY AdviceStep
<1>2. QED
  BY <1>1, Invariance, PTL DEF Spec, NewAdviceIsPermitted

=============================================================================
