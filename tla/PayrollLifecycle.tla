------------------------- MODULE PayrollLifecycle -------------------------
(***************************************************************************)
(* What a payroll run promises, each operation taken as one step: a run is  *)
(* prepared, calculated, checked by someone else, locked, and from then on *)
(* changes only when an administrator reopens it as a new revision.        *)
(***************************************************************************)
EXTENDS Naturals

CONSTANTS
    Runs, Makers, Checkers, Admins,
    NULL    \* no run, no approver or no line items yet

VARIABLE payroll  \* each run, or NULL before it is created

New(a) == [status      |-> "DRAFT",
           revision    |-> 1,
           preparer    |-> a,
           approver    |-> NULL,
           lines       |-> NULL,  \* the adjustments the line items include
           adjustments |-> 0]

Init == payroll = [r \in Runs |-> NULL]

Open(r) == payroll[r] # NULL /\ payroll[r].status \in {"DRAFT", "CALCULATED"}

Is(r, status) == payroll[r] # NULL /\ payroll[r].status = status

Prepare(r, a) ==
    /\ payroll[r] = NULL
    /\ payroll' = [payroll EXCEPT ![r] = New(a)]

Calculate(r) ==
    /\ Open(r)
    /\ payroll' = [payroll EXCEPT ![r].status = "CALCULATED",
                                  ![r].lines  = payroll[r].adjustments]

Adjust(r) ==
    /\ Open(r)
    /\ payroll' = [payroll EXCEPT ![r].adjustments = @ + 1]

Approve(r, a) ==
    /\ Is(r, "CALCULATED")
    /\ a # payroll[r].preparer
    /\ payroll' = [payroll EXCEPT ![r].status = "APPROVED",
                                  ![r].approver = a]

Lock(r) ==
    /\ Is(r, "APPROVED")
    /\ payroll' = [payroll EXCEPT ![r].status = "LOCKED"]

Reopen(r) ==
    /\ Is(r, "LOCKED")
    /\ Admins # {}
    /\ payroll' = [payroll EXCEPT ![r].status   = "DRAFT",
                                  ![r].revision = @ + 1,
                                  ![r].approver = NULL]

Next ==
    \E r \in Runs :
        \/ \E a \in Makers : Prepare(r, a)
        \/ Calculate(r)
        \/ Adjust(r)
        \/ \E a \in Checkers : Approve(r, a)
        \/ Lock(r)
        \/ Reopen(r)

Spec == Init /\ [][Next]_payroll
=============================================================================
