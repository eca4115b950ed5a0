------------------------- MODULE PayrollRefinement -------------------------
(***************************************************************************)
(* Payroll runs implement PayrollLifecycle as long as the API handles one  *)
(* payroll-run request at a time; policy requests may overlap.             *)
(***************************************************************************)
EXTENDS PayrollRun

\* The adjustments included in the line items that are stored; NULL when these
\* are not the line items of one calculation.
Lines(r) ==
    IF \E b \in items[r] : items[r] = {b}
    THEN (CHOOSE b \in items[r] : TRUE).adjustments
    ELSE NULL

\* A run as the lifecycle sees it, read off the database tables.
Payroll ==
    [r \in Runs |->
        IF Created(r)
        THEN [status      |-> run[r].status,
              revision    |-> run[r].revision,
              preparer    |-> run[r].createdBy,
              approver    |-> run[r].approvedBy,
              lines       |-> Lines(r),
              adjustments |-> adjustments[r]]
        ELSE NULL]

LifecycleRow == [status      : {"DRAFT", "CALCULATED", "APPROVED", "LOCKED"},
                 revision    : Nat,
                 preparer    : Staff,
                 approver    : Staff \cup {NULL},
                 lines       : Nat \cup {NULL},
                 adjustments : Nat]

ASSUME LifecycleAssumption == NULL \notin LifecycleRow

Lifecycle == INSTANCE PayrollLifecycle WITH
    Admins  <- {a \in Staff : RoleOf[a] = "ADMIN"},
    payroll <- Payroll

---------------------------------------------------------------------------
\* Chosen once: whether the API handles run requests while others are in flight.
VARIABLE interleaved

Busy(s) == op[s] # IdleOp

OneAtATime == \A s, t \in Slots : Busy(s) /\ Busy(t) => s = t

ServedInit == Init /\ interleaved \in BOOLEAN

ServedNext ==
    /\ Next
    /\ interleaved \/ OneAtATime'
    /\ UNCHANGED interleaved

ServedSpec == ServedInit /\ [][ServedNext]_<<vars, interleaved>>

\* One run request at a time, payroll runs implement the abstract lifecycle:
\* every database write of the six operations is one step of it and nothing
\* else the requests do is seen, crashes included.  So the line items of a run
\* come of one calculation made while it was open, an approval is one of the
\* revision approved, a locked run changes only by being reopened, and the
\* payslips are those of the locked run they were asked of.
SerialImplementsLifecycle ==
    /\ Lifecycle!Init
    /\ [][~interleaved => Lifecycle!Next \/ UNCHANGED Payroll
          ]_<<vars, interleaved>>
    /\ [](~interleaved => PayslipOfLockedRun)
=============================================================================
