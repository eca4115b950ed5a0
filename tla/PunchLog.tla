------------------------------ MODULE PunchLog ------------------------------
(***************************************************************************)
(* What attendance capture promises: each punch enters the log at most      *)
(* once, and the employee hears of a punch either the decision in the log   *)
(* or that it is queued.                                                    *)
(***************************************************************************)
EXTENDS Sequences

CONSTANTS Punches, NULL

Decisions == {"ACCEPTED", "REJECTED", "REVIEW"}

VARIABLES log, heard

Init ==
    /\ log = [p \in Punches |-> <<>>]
    /\ heard = [p \in Punches |-> NULL]

Record(p, decision) ==
    /\ log[p] = <<>>
    /\ log' = [log EXCEPT ![p] = <<decision>>]
    /\ UNCHANGED heard

Hear(p) ==
    /\ heard[p] = NULL
    /\ log[p] # <<>>
    /\ heard' = [heard EXCEPT ![p] = Head(log[p])]
    /\ UNCHANGED log

\* A punch that is recorded may be reported as queued: its answer was lost.
HearQueued(p) ==
    /\ heard[p] = NULL
    /\ heard' = [heard EXCEPT ![p] = "QUEUED"]
    /\ UNCHANGED log

Next ==
    \E p \in Punches :
        \/ \E decision \in Decisions : Record(p, decision)
        \/ Hear(p)
        \/ HearQueued(p)

Spec == Init /\ [][Next]_<<log, heard>>
=============================================================================
