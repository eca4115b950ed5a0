-------------------------- MODULE MCAttendanceDay --------------------------
(***************************************************************************)
(* AttendanceServed on small sets, and beside it the algorithm it uses: from*)
(* the initial state a behaviour either serves requests, interleaved or one *)
(* at a time, or goes through the days of WorkedDay.                        *)
(***************************************************************************)
EXTENDS AttendanceServed, WorkedDay, TLC

CONSTANTS
    s1, s2, ana, ben

Punched(id, kind, at) == [id |-> id, kind |-> kind, at |-> at,
                          decision |-> "ACCEPTED", low |-> FALSE]

\* A clock-in, a clock-out, and a break of low accuracy that is for review,
\* which is only punched when requests come one at a time.
MCArrivals == {Punched("in", "CLOCK_IN", 1), Punched("out", "CLOCK_OUT", 9),
               [Punched("break", "BREAK_START", 4) EXCEPT !.decision = "REVIEW",
                                                          !.low = TRUE]}

SlotSymmetry == Permutations({s1, s2})

MCCorrections == {"fix"}

MCStaff == {ana, ben}
MCRoleOf == (ana :> "HR") @@ (ben :> "EMPLOYEE")

---------------------------------------------------------------------------
BuildDay ==
    /\ Init /\ ~interleaved
    /\ DayNext
    /\ UNCHANGED <<vars, interleaved>>

ServeRequests ==
    /\ ServedNext
    /\ interleaved => \A e \in events' : ~e.low
    /\ day = <<>>
    /\ UNCHANGED day

MCInit == ServedInit /\ DayInit
MCNext == BuildDay \/ ServeRequests
MCSpec == MCInit /\ [][MCNext]_<<vars, day, interleaved>>
=============================================================================
