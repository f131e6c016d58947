-------------------------- MODULE MCMonitorService --------------------------
(***************************************************************************)
(* MonitorService for TLC: two modules, so that one may fail or be urgent  *)
(* next to the other, and reports with none, one or two urgent findings.   *)
(***************************************************************************)
EXTENDS MonitorService

AllReports == {<<>>, <<"warn", "urgent">>, <<"urgent", "urgent">>}

=============================================================================
