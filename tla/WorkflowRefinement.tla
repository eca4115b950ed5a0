------------------------ MODULE WorkflowRefinement ------------------------
(***************************************************************************)
(* The request workflow implements Approval as long as requests of the API *)
(* are handled one at a time.                                              *)
(***************************************************************************)
EXTENDS RequestWorkflow

\* Steps decided so far: those before the current one, and the current one
\* when the request is decided.
DecidedSteps(q) ==
    IF ~Exists(q) THEN 0
    ELSE IF Pending(q) THEN request[q].current - 1
    ELSE request[q].current

StepsToTake == {Len(RolesFor(type)) : type \in Types} \ {0}
Required    == [q \in Requests |-> IF Exists(q) THEN Len(steps[q]) ELSE NULL]
Correcting  == {q \in Requests : Exists(q) /\ request[q].type = "ATTENDANCE_CORRECTION"}
Verdicts    == [q \in Requests |-> [k \in 1..DecidedSteps(q) |-> steps[q][k].decision]]

Approvals == INSTANCE Approval WITH
    StepCounts <- StepsToTake,
    required   <- Required,
    correcting <- Correcting,
    verdicts   <- Verdicts,
    effective  <- events

---------------------------------------------------------------------------
\* Chosen once: whether the API handles requests while others are in flight.
VARIABLE interleaved

Busy(s) == op[s] # IdleOp

OneAtATime == \A s, t \in Slots : Busy(s) /\ Busy(t) => s = t

ServedInit == Init /\ interleaved \in BOOLEAN

ServedNext ==
    /\ Next
    /\ interleaved \/ OneAtATime'
    /\ UNCHANGED interleaved

ServedSpec == ServedInit /\ [][ServedNext]_<<vars, interleaved>>

\* One at a time, the API implements the abstract approval: each committed
\* decision adds one verdict to an undecided request, and the correction event
\* appears with the last approval and at no other time; reads, delegations,
\* notifications and rollbacks change nothing of it.
SerialImplementsApproval ==
    /\ Approvals!Init
    /\ [][~interleaved => Approvals!Next \/ UNCHANGED Approvals!vars
          ]_<<vars, interleaved>>
=============================================================================
