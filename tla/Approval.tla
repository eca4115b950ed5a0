----------------------------- MODULE Approval -----------------------------
(***************************************************************************)
(* What approving a request promises: verdicts are given one step after    *)
(* the other until one rejects or the last step approves, after which      *)
(* nothing is added; a correction takes effect when, and only when, its    *)
(* request is approved at every step.                                      *)
(***************************************************************************)
EXTENDS Naturals, Sequences

CONSTANTS
    Requests,
    StepCounts,  \* how many steps a request may need
    NULL

VARIABLES
    required,    \* number of steps of each request, or NULL
    correcting,  \* the requests for an attendance correction
    verdicts,    \* the verdicts given so far
    effective    \* corrections that took effect

vars == <<required, correcting, verdicts, effective>>

Init ==
    /\ required = [q \in Requests |-> NULL]
    /\ correcting = {}
    /\ verdicts = [q \in Requests |-> <<>>]
    /\ effective = {}

Submit(q, n) ==
    /\ required[q] = NULL
    /\ required' = [required EXCEPT ![q] = n]
    /\ correcting' \in {correcting, correcting \cup {q}}
    /\ UNCHANGED <<verdicts, effective>>

Undecided(q) ==
    /\ required[q] # NULL
    /\ Len(verdicts[q]) < required[q]
    /\ \A k \in 1..Len(verdicts[q]) : verdicts[q][k] = "APPROVED"

Reject(q) ==
    /\ Undecided(q)
    /\ verdicts' = [verdicts EXCEPT ![q] = Append(@, "REJECTED")]
    /\ UNCHANGED <<required, correcting, effective>>

Approve(q) ==
    /\ Undecided(q)
    /\ verdicts' = [verdicts EXCEPT ![q] = Append(@, "APPROVED")]
    /\ IF Len(verdicts'[q]) = required[q] /\ q \in correcting
       THEN effective' = effective \cup {q}
       ELSE UNCHANGED effective
    /\ UNCHANGED <<required, correcting>>

Next ==
    \E q \in Requests :
        \/ \E n \in StepCounts : Submit(q, n)
        \/ Approve(q)
        \/ Reject(q)

Spec == Init /\ [][Next]_vars
=============================================================================
