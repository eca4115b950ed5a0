------------------------- MODULE AttendanceSummary -------------------------
(***************************************************************************)
(* summarizeEvents of apps/api/src/attendance/summary.ts: the minutes of a  *)
(* day from its punches.  Time is counted in ticks of half a minute, the    *)
(* finest grain Math.round tells apart.                                     *)
(***************************************************************************)
EXTENDS Integers, Sequences, FiniteSets, SequencesExt

Kinds == {"CLOCK_IN", "BREAK_START", "BREAK_END", "CLOCK_OUT"}

\* Stands for undefined.
NoTime == -1

SummaryEvent(Ids) == [id : Ids, kind : Kinds, at : Nat]

\* Math.round of a difference in minutes: halves go up.
Minutes(ticks) == (ticks + 1) \div 2

\* The stable sort by capturedAt: before an event are those captured earlier and,
\* of those captured with it, those that stood before it.
Place(events, k) ==
    Cardinality({j \in DOMAIN events :
        \/ events[j].at < events[k].at
        \/ events[j].at = events[k].at /\ j <= k})

Ordered(events) ==
    [n \in DOMAIN events |-> events[CHOOSE k \in DOMAIN events : Place(events, k) = n]]

\* Mutant: the work goes on after a CLOCK_OUT.
PunchStayingIn(acc, e) ==
    CASE e.kind = "CLOCK_IN" /\ acc.active = NoTime ->
            [acc EXCEPT !.active = e.at]
      [] e.kind = "BREAK_START" /\ acc.active # NoTime /\ acc.brk = NoTime ->
            [acc EXCEPT !.brk = e.at]
      [] e.kind = "BREAK_END" /\ acc.brk # NoTime ->
            [acc EXCEPT !.breaks = @ + Minutes(e.at - acc.brk),
                        !.brk    = NoTime]
      [] e.kind = "CLOCK_OUT" /\ acc.active # NoTime ->
            [acc EXCEPT !.worked = @ + Minutes(e.at - acc.active)]
      [] OTHER -> acc

\* One turn of the loop.  The events are ordered, so no difference is negative.
Punch(acc, e) ==
    CASE e.kind = "CLOCK_IN" /\ acc.active = NoTime ->
            [acc EXCEPT !.active = e.at]
      [] e.kind = "BREAK_START" /\ acc.active # NoTime /\ acc.brk = NoTime ->
            [acc EXCEPT !.brk = e.at]
      [] e.kind = "BREAK_END" /\ acc.brk # NoTime ->
            [acc EXCEPT !.breaks = @ + Minutes(e.at - acc.brk),
                        !.brk    = NoTime]
      [] e.kind = "CLOCK_OUT" /\ acc.active # NoTime ->
            [acc EXCEPT !.worked = @ + Minutes(e.at - acc.active),
                        !.active = NoTime]
      [] OTHER -> acc

Start == [active |-> NoTime, brk |-> NoTime, worked |-> 0, breaks |-> 0]

\* The loop: what is known after each number of turns.
Loop(ordered) ==
    LET acc[k \in 0..Len(ordered)] ==
            IF k = 0 THEN Start ELSE Punch(acc[k - 1], ordered[k])
    IN  acc

Has(events, kind) == \E k \in DOMAIN events : events[k].kind = kind

\* Of the fields, firstClockIn and lastClockOut are left out: nothing is
\* computed from them.
summarizeEvents(events) ==
    LET ordered == Ordered(events)
        acc     == Loop(ordered)[Len(ordered)]
    IN  [worked  |-> IF acc.worked > acc.breaks THEN acc.worked - acc.breaks
                     ELSE 0,
         breaks  |-> acc.breaks,
         missing |-> \/ acc.active # NoTime
                     \/ acc.brk # NoTime
                     \/ Has(ordered, "CLOCK_IN") # Has(ordered, "CLOCK_OUT"),
         sources |-> [k \in DOMAIN ordered |-> ordered[k].id]]

---------------------------------------------------------------------------
(* The reference: a day of matched punches, and the time it stands for. *)

Follows == {<<"CLOCK_IN", "BREAK_START">>, <<"CLOCK_IN", "CLOCK_OUT">>,
            <<"BREAK_START", "BREAK_END">>, <<"BREAK_END", "BREAK_START">>,
            <<"BREAK_END", "CLOCK_OUT">>, <<"CLOCK_OUT", "CLOCK_IN">>}

\* Every punch is matched by its neighbour.
Matched(day) ==
    day = <<>> \/ /\ Head(day).kind = "CLOCK_IN"
                  /\ Last(day).kind = "CLOCK_OUT"
                  /\ \A k \in 1..Len(day) - 1 :
                        <<day[k].kind, day[k + 1].kind>> \in Follows

\* The ticks before punch k are work if punch k - 1 starts or resumes work.
Ticks(day, k) ==
    IF k > 1 /\ day[k - 1].kind \in {"CLOCK_IN", "BREAK_END"}
    THEN day[k].at - day[k - 1].at ELSE 0

WorkUpTo(day) ==
    LET sum[k \in 0..Len(day)] == IF k = 0 THEN 0 ELSE sum[k - 1] + Ticks(day, k)
    IN  sum

WorkTicks(day) == WorkUpTo(day)[Len(day)]
=============================================================================
