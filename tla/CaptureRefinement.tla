------------------------- MODULE CaptureRefinement -------------------------
(***************************************************************************)
(* AttendanceCapture implements PunchLog: the log is the AttendanceEvent    *)
(* table, what is heard is what the clock page showed.                      *)
(***************************************************************************)
EXTENDS AttendanceCapture

Log == INSTANCE PunchLog WITH log <- events, heard <- told

\* Whatever is lost, retried or restarted, the app and the API together behave as
\* a log that takes each punch once, and the decision the clock page shows is the
\* one on record.
ImplementsPunchLog == Log!Spec
=============================================================================
