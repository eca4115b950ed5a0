---------------------------- MODULE AccessServed ----------------------------
(***************************************************************************)
(* EmployeeAccess with its requests interleaved, or handled one at a time:  *)
(* what the endpoints promise in the second case.                          *)
(***************************************************************************)
EXTENDS EmployeeAccess

\* Chosen once: whether the API handles requests while others are in flight.
VARIABLE interleaved

Busy(s) == op[s] # IdleOp

OneAtATime == \A s, t \in Slots : Busy(s) /\ Busy(t) => s = t

ServedInit == Init /\ interleaved \in BOOLEAN

ServedNext ==
    /\ Next
    /\ interleaved \/ OneAtATime'
    /\ UNCHANGED interleaved

ServedSpec == ServedInit /\ [][ServedNext]_<<vars, interleaved>>

\* One request at a time, a temporary password that was handed out and is in force
\* is the login's of an employee who must change it, although the password is set
\* before the flag (resetEmployeePassword, completePasswordReset).
SerialIssuedIsFlagged == ~interleaved => IssuedIsFlagged

\* One request at a time, someone active who can administer people is left, although
\* administrators suspend each other (updateEmployeeStatus).
SerialAdministratorRemains == ~interleaved => AdministratorRemains
=============================================================================
