-------------------------- MODULE MCDailyPipeline --------------------------
(***************************************************************************)
(* Instance of DailyPipeline: the two gates, one analysis and the report.    *)
(***************************************************************************)
EXTENDS DailyPipeline

DailyTasks == <<"market_data_update", "data_quality", "event_study", "daily_report">>

=============================================================================
