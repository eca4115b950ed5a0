----------------------------- MODULE MCPayroll -----------------------------
(***************************************************************************)
(* Three scenarios, chosen at the start: "interleaved", two overlapping    *)
(* requests of the payroll officer and the administrator about a run;       *)
(* "policies", two overlapping policy requests over two versions and no     *)
(* runs yet; "runs", one policy request and one run request at a time, with *)
(* a finance officer and one calculation more.  Revision 3 is reached in    *)
(* "interleaved" only: two reopenings that race there make 2 and 3.         *)
(***************************************************************************)
EXTENDS MCPayrollRun, PayrollRefinement

CONSTANTS p1, s1

VARIABLE scenario

MCInit ==
    /\ ServedInit
    /\ scenario \in {"interleaved", "policies", "runs"}
    /\ interleaved = (scenario = "interleaved")

\* What the requests of a scenario do.  The finance officer takes no part in
\* policies but in "policies", and none in "interleaved", where the process
\* also stays up, two calculations are enough, and none follows revision 3.
Within ==
    /\ scenario = "policies" => UNCHANGED runVars
    /\ scenario # "policies" =>
           /\ policyOp'[p1].version \in {1, NULL}
           /\ policyOp'[p1].actor # fay
           /\ \A p \in PolicySlots \ {p1} : policyOp'[p] = policyOp[p]
    /\ scenario = "runs" =>
           /\ \A s \in Slots \ {s1} : op'[s] = op[s]
           /\ \A r \in Runs : run'[r] # NULL => run'[r].revision # 3
    /\ scenario = "interleaved" =>
           /\ \A s \in Slots : op'[s].actor # fay
           /\ calculations' <= 2
           /\ (\E r \in Runs : Created(r) /\ run[r].revision = 3) => UNCHANGED calculations
           /\ UNCHANGED crashes

MCNext == ServedNext /\ Within /\ UNCHANGED scenario

MCSpec == MCInit /\ [][MCNext]_<<vars, interleaved, scenario>>
=============================================================================
