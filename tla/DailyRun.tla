------------------------------ MODULE DailyRun ------------------------------
(***************************************************************************)
(* A daily quant run: DailyQuantOrchestrator.run with the workflow it calls.  *)
(* Three steps are durable, one after the other: the market data are         *)
(* refreshed (a transaction), the decision run and its recommendations are    *)
(* recorded (another), the evidence is written to files.  Between them the    *)
(* user may change the permissions the run reads (the operational policy, at  *)
(* two places; the model's approval; the portfolio validation), and the       *)
(* process may be killed.  A run for a decision time that has been decided    *)
(* finds the recorded run by its fingerprint and answers with that.           *)
(*                                                                         *)
(* Abstracted: one portfolio, one analysis date, one run at a time; data,     *)
(* factors and weights are reduced to the gate at which the pipeline stops.   *)
(* PASS_DEGRADED completes a stage as PASS does; FEATURE, FACTOR and          *)
(* PROBABILITY complete whenever the inputs are assembled.  The LLM stage     *)
(* only adds shadow results of its own and is left out.                       *)
(***************************************************************************)
EXTENDS Integers

CONSTANTS
  Configs,     \* configurations (constraints, risk and cost models) of one strategy
  Policies,    \* operational policies the user may issue
  Validatable, \* configurations whose portfolio may be validated
  MaxTime,     \* bound of the clock
  MaxVersion,  \* bound: certified data versions of the day
  MaxRuns      \* bound: runs started

ASSUME DailyRunAssumption ==
  /\ Configs # {}
  /\ MaxTime \in Nat \ {0}
  /\ MaxVersion \in Nat
  /\ MaxRuns \in Nat
  /\ Policies \subseteq [config : Configs, allow : BOOLEAN, until : 1..MaxTime]
  /\ Validatable \subseteq Configs

Times == 1..MaxTime

VARIABLES
  clock,      \* the current time
  since,      \* available_time of the day's universe snapshot, 0 before a sync
  version,    \* certified data versions so far: the snapshot shows the last one
  policy,     \* the operational policy file: no policy, or one
  inForce,    \* history: policies the undecided run may have read
  promoted,   \* approved_at of the model's production approval, 0 without one
  validated,  \* portfolio validations: configuration and data version
  rows,       \* QuantDecisionRun rows, with their recommendations
  files,      \* run certificates and decision snapshots
  cut,        \* history: decisions a run did not get to certify
  pc,         \* what the run does next
  started,    \* runs started
  run,        \* what the run has found out
  result      \* the DailyQuantResult, until it is returned

market == <<since, version>>
permissions == <<policy, inForce, promoted, validated>>
durable == <<rows, files, cut>>
vars == <<clock, market, permissions, durable, pc, started, run, result>>

\* The hard stages; the gates the pipeline passes in order (the stress gate is
\* no stage of the result), and a run that passed them all.
Stages == {"CALENDAR", "DATA", "PIT", "SIGNAL", "RISK", "PORTFOLIO", "EXECUTION",
           "DECISION"}
Gate == [DATA |-> 1, PIT |-> 2, SIGNAL |-> 3, RISK |-> 4, PORTFOLIO |-> 5,
         STRESS |-> 6, EXECUTION |-> 7, DECISION |-> 8]
Passed == 8
Marks == [Stages -> {"PASS", "FAIL", "NOT_RUN"}]
NothingRun == [s \in Stages |-> "NOT_RUN"]

\* A row whose gate is approved was generated, or decided that nothing is to do.
Row == [time : Times, version : 0..MaxVersion, gate : {"APPROVED", "BLOCKED"}]

NoRun == [live |-> FALSE, time |-> 0, config |-> CHOOSE c \in Configs : TRUE,
          portfolio |-> FALSE, version |-> 0, signals |-> "none", stop |-> 0, answer |-> "none",
          replay |-> FALSE]
NoResult == [ready |-> FALSE, stages |-> NothingRun]

Init ==
  /\ clock = 1
  /\ since = 0 /\ version = 0
  /\ policy = {} /\ inForce = {} /\ promoted = 0 /\ validated = {}
  /\ rows = {} /\ files = {} /\ cut = {}
  /\ pc = "idle" /\ started = 0 /\ run = NoRun /\ result = NoResult

-----------------------------------------------------------------------------
(* Permissions *)

\* OperationalPolicy.allows, for the research state the workflow passes.
BugAllows(p, c, t) == p.config = c /\ p.allow          \* also once expired
Allows(p, c, t) == p.config = c /\ p.allow /\ t <= p.until

\* OperationalPolicyStore.load and allows: no file, no permission.
Permitted(c, t) == \E p \in policy : Allows(p, c, t)

\* ModelRegistryService.production_approval
Promoted(t) == promoted # 0 /\ promoted <= t

Reading == {"assemble", "decide"}

\* operational-policy set; the file may be removed or damaged by hand.
SetPolicy ==
  /\ \E p \in Policies : policy' = {p} /\ p.until >= clock
  /\ inForce' = IF pc \in Reading THEN inForce \cup policy' ELSE inForce
  /\ UNCHANGED <<clock, market, promoted, validated, durable, pc, started, run, result>>
RemovePolicy ==
  /\ policy # {}
  /\ policy' = {}
  /\ UNCHANGED <<clock, market, inForce, promoted, validated, durable, pc, started,
                 run, result>>

Promote ==
  /\ promoted = 0
  /\ promoted' = clock
  /\ UNCHANGED <<clock, market, policy, inForce, validated, durable, pc, started, run,
                 result>>
Validate(c) ==
  /\ version # 0
  /\ validated' = validated \cup {<<c, version>>}
  /\ UNCHANGED <<clock, market, policy, inForce, promoted, durable, pc, started, run,
                 result>>

Tick ==
  /\ clock < MaxTime
  /\ clock' = clock + 1
  /\ UNCHANGED <<market, permissions, durable, pc, started, run, result>>

-----------------------------------------------------------------------------
(* The run up to its data *)

\* A run is for now, or for a given decision time.
StartTimes(live) == IF live THEN {clock} ELSE 1..clock

\* Its portfolio may not be set up, and the calendar may fail.
Begin ==
  /\ pc = "idle" /\ started < MaxRuns
  /\ started' = started + 1
  /\ \E live, known \in BOOLEAN, c \in Configs : \E t \in StartTimes(live) :
       run' = [NoRun EXCEPT !.live = live, !.time = t, !.config = c, !.portfolio = known]
  /\ \/ pc' = "data" /\ result' = [NoResult EXCEPT !.stages["CALENDAR"] = "PASS"]
     \/ pc' = "certify" /\ result' = [NoResult EXCEPT !.stages["CALENDAR"] = "FAIL"]
  /\ UNCHANGED <<clock, market, permissions, durable>>

\* _create_universe_snapshot makes the day's snapshot once.
Snapshotted == IF since = 0 THEN clock ELSE since

\* sync_market_data: a certified sync changes the version the snapshot shows.  A
\* run for now then decides at the time the sync ended.
Sync ==
  /\ since' = Snapshotted
  /\ version' \in {version, version + 1} \cap 0..MaxVersion
  /\ run' = IF run.live THEN [run EXCEPT !.time = clock] ELSE run

DataFailed ==
  /\ pc' = "certify"
  /\ result' = [result EXCEPT !.stages["DATA"] = "FAIL",
                              !.stages["PORTFOLIO"] = IF run.portfolio THEN @ ELSE "FAIL"]

\* DailyDataCertifier.certify: without a manifest it blocks.
DataCertified ==
  /\ since' # 0
  /\ pc' = "assemble"
  /\ result' = [result EXCEPT !.stages["DATA"] = "PASS"]

\* The DATA stage, one transaction: an error in it takes the sync back, a
\* certification that blocks does not.
Data ==
  /\ pc = "data"
  /\ UNCHANGED <<market, run>> \/ Sync
  /\ \/ DataFailed /\ UNCHANGED inForce
     \/ DataCertified /\ inForce' = policy
  /\ UNCHANGED <<clock, policy, promoted, validated, durable, started>>

-----------------------------------------------------------------------------
(* ProductionDailyWorkflow.run *)

\* The stages of research whose inputs could be assembled; without a portfolio,
\* or after an error, the portfolio stage is blocked.
Researched ==
  [result.stages EXCEPT !["PIT"] = "PASS",
                        !["SIGNAL"] = IF run'.signals = "none" THEN "FAIL" ELSE "PASS",
                        !["PORTFOLIO"] = "FAIL"]

\* _blocked_research_stages: the one stage an assembly error is blamed on.
Unassembled ==
  /\ result' \in {[result EXCEPT !.stages[s] = "FAIL"] : s \in {"DATA", "PIT", "SIGNAL"}}
  /\ pc' = IF run.portfolio THEN "record_error" ELSE "certify"
  /\ run' = run

\* certified_universe: the snapshot must have been there at the decision time.
UniverseVisible == version # 0 /\ since <= run.time

\* assemble_research: the model's approval, and for a model without one the
\* operational policy; neither counts unless the broad universe is eligible.
Signals(eligible) ==
  IF ~eligible THEN "none"
  ELSE IF Promoted(run.time) THEN "production"
  ELSE IF Permitted(run.config, run.time) THEN "provisional" ELSE "none"
Assemble ==
  /\ pc = "assemble"
  /\ \/ Unassembled
     \/ /\ UniverseVisible
        /\ \E eligible \in BOOLEAN :
             run' = [run EXCEPT !.version = version, !.signals = Signals(eligible)]
        /\ IF run.portfolio THEN pc' = "decide" /\ result' = result
           ELSE pc' = "certify" /\ result' = [result EXCEPT !.stages = Researched]
  /\ UNCHANGED <<clock, market, permissions, durable, started>>

\* How the pipeline may size positions: by the portfolio validation of this
\* configuration and data version, else by the policy, read a second time.
Mode ==
  IF <<run.config, run.version>> \in validated THEN "validated"
  ELSE IF Permitted(run.config, run.time) THEN "provisional" ELSE "none"

\* PortfolioConstructionEngine.construct: no portfolio without some mode.
Constructible(mode) == IF mode = "none" THEN Gate["PORTFOLIO"] ELSE Passed

\* DailyQuantPipeline.run: the gates at which it may stop.  Provisional signals
\* need the provisional mode.
MayStop(mode) ==
  IF run.signals = "none" \/ (run.signals = "provisional" /\ mode # "provisional")
  THEN 1..Gate["SIGNAL"]
  ELSE 1..Constructible(mode)

\* _merge_quant_stages
GateMark(i, stop) ==
  IF i < stop \/ stop = Passed THEN "PASS" ELSE IF i = stop THEN "FAIL" ELSE "NOT_RUN"
BugMerged(stop) ==               \* the trades' stage is never merged
  [s \in Stages |->
     IF s \in {"CALENDAR", "EXECUTION"} THEN result.stages[s]
     ELSE GateMark(Gate[s], stop)]
Merged(stop) ==
  [s \in Stages |->
     IF s = "CALENDAR" THEN result.stages[s]
     ELSE GateMark(Gate[s], stop)]

Decide ==
  /\ pc = "decide"
  /\ \/ /\ \E stop \in MayStop(Mode) :
             /\ run' = [run EXCEPT !.stop = stop]
             /\ result' = [result EXCEPT !.stages = Merged(stop)]
        /\ pc' = "record"
     \/ /\ run' = run
        /\ result' = [result EXCEPT !.stages = Researched]
        /\ pc' = "record_error"
  /\ UNCHANGED <<clock, market, permissions, durable, started>>

\* The recorded run of the same inputs: fingerprint of portfolio, decision time,
\* data and model version and parameters.
Recorded == {r \in rows : r.time = run.time /\ r.version = run.version}

BugOutcome ==                   \* the stress veto has no stage, and is missed
  IF run.stop \in {Gate["STRESS"], Passed} THEN "APPROVED" ELSE "BLOCKED"
Outcome == IF run.stop = Passed THEN "APPROVED" ELSE "BLOCKED"

\* _result_from_record answers with the row; _build_result is ready only with
\* an approved one.
Answer(r) == run' = [run EXCEPT !.answer = r.gate, !.replay = r \in rows]
Ready == result' = [result EXCEPT !.ready = run'.answer = "APPROVED"]

\* The row of this decision is found, or added and committed.
BugRecord ==                     \* flushed and never committed
  /\ pc = "record"
  /\ run' = [run EXCEPT !.answer = Outcome]
  /\ Ready
  /\ pc' = "certify"
  /\ inForce' = {}
  /\ UNCHANGED <<clock, market, policy, promoted, validated, durable, started>>
Record ==
  /\ pc = "record"
  /\ \E r \in IF Recorded # {} THEN Recorded
              ELSE [time : {run.time}, version : {run.version}, gate : {Outcome}] :
       /\ rows' = rows \cup {r}
       /\ Answer(r)
  /\ Ready
  /\ pc' = "certify"
  /\ inForce' = {}
  /\ UNCHANGED <<clock, market, policy, promoted, validated, files, cut, started>>

\* _persist_blocked: one row for a decision time and its blocker.
RecordError ==
  /\ pc = "record_error"
  /\ rows' = rows \cup {[time |-> run.time, version |-> 0, gate |-> "BLOCKED"]}
  /\ pc' = "certify"
  /\ UNCHANGED <<clock, market, permissions, files, cut, started, run, result>>

-----------------------------------------------------------------------------
(* Evidence *)

\* What a file shows of its decisions (nothing unless the result is ready), and
\* how: DailyQuantResult.actionable, run_classification and the certificate's
\* trading_use.
BugActionable == result.ready    \* whatever the stages of this run say
Actionable == result.ready /\ \A s \in Stages : result.stages[s] = "PASS"
Class ==
  IF ~Actionable THEN "NON_ACTIONABLE"
  ELSE IF run.signals = "provisional" THEN "PROVISIONAL" ELSE "CERTIFIED"
File(kind) ==
  [kind |-> kind, id |-> started,
   shows |-> IF result.ready
             THEN {[time |-> run.time, version |-> run.version, config |-> run.config,
                    class |-> Class, passed |-> run.stop = Passed]}
             ELSE {}]

Decision == [time |-> run.time, version |-> run.version]
Uncertified == IF run.answer = "APPROVED" THEN {Decision} ELSE {}
End ==
  /\ pc' = "idle"
  /\ run' = NoRun /\ result' = NoResult
  /\ inForce' = {}
  /\ UNCHANGED <<clock, market, policy, promoted, validated, rows, started>>

\* persist_evidence, then persist, then the result is returned.  An OSError at
\* either makes what is returned non-actionable, whatever has been written.
Certify ==
  /\ pc = "certify"
  /\ files' = files \cup {File("certificate")}
  /\ pc' = "snapshot"
  /\ UNCHANGED <<clock, market, permissions, rows, cut, started, run, result>>
Snapshot ==
  /\ pc = "snapshot"
  /\ files' = files \cup {File("snapshot")}
  /\ UNCHANGED cut
  /\ End
NotPersisted ==
  /\ pc \in {"certify", "snapshot"}
  /\ cut' = IF pc = "certify" THEN cut \cup Uncertified ELSE cut
  /\ UNCHANGED files
  /\ End

\* The process is killed, or an error no handler catches ends the run.
Kill ==
  /\ pc # "idle"
  /\ cut' = IF pc = "certify" THEN cut \cup Uncertified ELSE cut
  /\ UNCHANGED files
  /\ End

RunStep ==
  \/ Begin \/ Data \/ Assemble \/ Decide \/ Record \/ RecordError
  \/ Certify \/ Snapshot \/ NotPersisted
Next ==
  \/ RunStep \/ Kill
  \/ Tick \/ SetPolicy \/ RemovePolicy \/ Promote \/ \E c \in Validatable : Validate(c)

Spec == Init /\ [][Next]_vars

-----------------------------------------------------------------------------
Steps == {"idle", "data", "assemble", "decide", "record", "record_error", "certify",
          "snapshot"}
Runs == [live : BOOLEAN, time : 0..MaxTime, config : Configs, portfolio : BOOLEAN,
         version : 0..MaxVersion, signals : {"none", "production", "provisional"},
         stop : 0..Passed, answer : {"none", "APPROVED", "BLOCKED"}, replay : BOOLEAN]
Shown == [time : Times, version : 0..MaxVersion, config : Configs,
          class : {"NON_ACTIONABLE", "PROVISIONAL", "CERTIFIED"}, passed : BOOLEAN]
Files == [kind : {"certificate", "snapshot"}, id : 1..MaxRuns, shows : SUBSET Shown]
\* Types of the permissions, of the rows and files, and of the run's variables.
TypeOK ==
  /\ clock \in Times
  /\ since \in 0..MaxTime /\ version \in 0..MaxVersion
  /\ policy \subseteq Policies /\ inForce \subseteq Policies
  /\ promoted \in 0..MaxTime
  /\ validated \subseteq Configs \X (1..MaxVersion)
  /\ rows \subseteq Row
  /\ files \subseteq Files
  /\ cut \subseteq [time : Times, version : 0..MaxVersion]
  /\ pc \in Steps
  /\ started \in 0..MaxRuns
  /\ run \in Runs
  /\ result \in [ready : BOOLEAN, stages : Marks]

\* Advice is recorded only with permission for both of its halves: its signals
\* come from a model approved by the decision time, its sizes from a portfolio
\* validation of this configuration and data version, and what is missing of
\* the two is made up by a policy that was in force while the run was made, that
\* names this configuration and had not expired at the decision time.
NewAdviceIsPermitted ==
  [][\A r \in rows' \ rows : r.gate = "APPROVED" =>
       LET byPolicy == \E p \in inForce : /\ p.config = run.config
                                         /\ p.allow
                                         /\ r.time <= p.until
       IN  /\ promoted \in 1..r.time \/ byPolicy
           /\ <<run.config, r.version>> \in validated \/ byPolicy]_vars

\* Files never run ahead of the database, wherever a run is cut off: a file that
\* shows decisions has its approved row, a snapshot has the certificate of its
\* run with the same content.
FilesFollowCommit ==
  \A f \in files :
    /\ \A d \in f.shows : \E r \in rows : /\ r.time = d.time /\ r.version = d.version
                                         /\ r.gate = "APPROVED"
    /\ f.kind = "snapshot" => [f EXCEPT !.kind = "certificate"] \in files

\* A certificate lets its decisions be used only if the pipeline of the same run
\* passed every gate, though the decisions may be those of an earlier run; and
\* it calls them certified only with the model's approval.
UseIsCurrent ==
  \A f \in files : \A d \in f.shows : d.class # "NON_ACTIONABLE" =>
    /\ d.passed
    /\ d.class = "CERTIFIED" => promoted \in 1..d.time

\* A stage that failed, or was not reached, leaves no decisions in the result,
\* except when those of an earlier run are answered with: these are kept out of
\* use by the certificate (UseIsCurrent).
FreshFailureBlocks ==
  pc \in {"certify", "snapshot"} /\ result.ready /\ ~run.replay =>
    \A s \in Stages : result.stages[s] = "PASS"

\* Recorded advice does not wait for review behind a run nobody was shown,
\* unless the run was cut off: its decision has an actionable certificate.
AdviceIsCertified ==
  \A r \in rows : r.gate = "APPROVED" =>
    LET decision == [time |-> r.time, version |-> r.version]
    IN  \/ \E f \in files : \E d \in f.shows :
             /\ d.time = r.time /\ d.version = r.version
             /\ d.class # "NON_ACTIONABLE"
        \/ decision \in cut
        \/ pc = "certify" /\ Decision = decision /\ ~run.replay

=============================================================================
