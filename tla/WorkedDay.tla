----------------------------- MODULE WorkedDay -----------------------------
(***************************************************************************)
(* The days summarizeEvents is given: punches as the query of summarizeDay   *)
(* returns them, one after another.                                        *)
(***************************************************************************)
EXTENDS AttendanceSummary

CONSTANTS
    MaxPunches,  \* bound: punches of a day
    MaxTime      \* bound: ticks of a day

ASSUME DayBounds == MaxPunches \in Nat /\ MaxTime \in Nat

VARIABLE day

AddPunch ==
    /\ Len(day) < MaxPunches
    /\ \E kind \in Kinds, at \in 0..MaxTime :
          /\ day # <<>> => at >= Last(day).at
          /\ day' = Append(day, [id |-> Len(day) + 1, kind |-> kind, at |-> at])

NewDay == day # <<>> /\ day' = <<>>

DayInit == day = <<>>
DayNext == AddPunch \/ NewDay
DaySpec == DayInit /\ [][DayNext]_day

---------------------------------------------------------------------------
\* A tick for each interval that is rounded, of which two punches make one.
Rounding == Len(day) \div 2

\* The minutes worked of a day are right (summarizeEvents): on a day of matched
\* punches they are the time at work and not on a break, but for the rounding
\* of each interval, and no punch is reported missing; on no day, matched or
\* not, are they more than passed from the first punch to the last, so that no
\* interval is counted twice.
SummaryAccounts ==
    LET result == summarizeEvents(day)
        ticks  == 2 * result.worked
    IN  /\ Matched(day) =>
               /\ ticks \in (WorkTicks(day) - Rounding)..(WorkTicks(day) + Rounding)
               /\ ~result.missing
        /\ day # <<>> => ticks <= Last(day).at - Head(day).at + Rounding
=============================================================================
