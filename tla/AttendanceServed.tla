------------------------- MODULE AttendanceServed -------------------------
(***************************************************************************)
(* AttendanceDay with its requests interleaved, or handled one at a time:   *)
(* what a summary keeps in the second case and may lose in the first.       *)
(***************************************************************************)
EXTENDS AttendanceDay

\* Chosen once: whether the API handles requests while others are in flight.
VARIABLE interleaved

Busy(s) == op[s] # IdleOp

OneAtATime == \A s, t \in Slots : Busy(s) /\ Busy(t) => s = t

ServedInit == Init /\ interleaved \in BOOLEAN

ServedNext ==
    /\ Next
    /\ interleaved \/ OneAtATime'
    /\ UNCHANGED interleaved

ServedSpec == ServedInit /\ [][ServedNext]_<<vars, interleaved>>

\* Computing a summary again never drops an event it had, one request at a time
\* (summarizeDay reads before its upsert, so that overlapping requests may bring
\* an older computation back; correct leaves the original event on file).
SummaryNeverGoesBack ==
    [][~interleaved /\ summary # NULL =>
          Range(summary.sources) \subseteq Range(summary'.sources)]_vars
=============================================================================
