--------------------------- MODULE AttendanceDay ---------------------------
(***************************************************************************)
(* The daily summary of one employee on one date, its exceptions and its    *)
(* corrections (apps/api/src/attendance/attendance.service.ts).  Requests   *)
(* are slots; each awaited query is a step, the transaction of              *)
(* resolveException is one.                                                 *)
(***************************************************************************)
EXTENDS AttendanceSummary, FiniteSetsExt

CONSTANTS
    Arrivals,     \* the punches of the day that clock may insert
    Corrections,  \* idempotency keys of corrections
    Staff,
    RoleOf,
    Slots,        \* requests the API may have in flight
    NULL,
    MaxCrashes    \* bound: crashes of the API process

Decisions == {"ACCEPTED", "REVIEW", "REJECTED"}

\* low: reasonCodes holds LOW_GPS_ACCURACY.
EventRow(Ids) == [id : Ids, kind : Kinds, at : Nat, decision : Decisions,
                  low : BOOLEAN]

ArrivalIds == {e.id : e \in Arrivals}

ASSUME DayAssumption ==
    /\ Arrivals \subseteq EventRow(ArrivalIds)
    /\ \A e, f \in Arrivals : e.id = f.id => e = f
    \* decideAttendance (geofence.ts): low accuracy is always for review.
    /\ \A e \in Arrivals : e.low <=> e.decision = "REVIEW"
    /\ ArrivalIds \cap Corrections = {}
    /\ MaxCrashes \in Nat

Reviewers == {a \in Staff : RoleOf[a] \in {"SUPERVISOR", "HR", "ADMIN"}}

Events == EventRow(ArrivalIds \cup Corrections)

VARIABLES
    events,     \* AttendanceEvent rows
    summary,    \* the DailyAttendanceSummary row
    exception,  \* the AttendanceException missing-<summary>
    location,   \* evidence of the LOCATION_REVIEW exceptions
    audit,      \* audit rows of resolutions: <<status, actor>>
    op,
    lost,       \* history: since the summary was written, the request at its exception ended
    crashes

vars == <<events, summary, exception, location, audit, op, lost, crashes>>

Closed == {"RESOLVED", "DISMISSED"}

SummaryRow == [worked : Nat, breaks : Nat, sources : Seq(ArrivalIds \cup Corrections)]

ExceptionRow == [status   : {"OPEN"} \cup Closed,
                 by       : Staff \cup {NULL},
                 evidence : Seq(ArrivalIds \cup Corrections)]

ASSUME NullAssumption ==
    NULL \notin Staff \cup Closed \cup SummaryRow \cup ExceptionRow

\* day: the events the query returned.
Op == [pc     : {"idle", "upsert", "missing", "location", "resolve"},
       day    : Seq(Events),
       actor  : Staff \cup {NULL},
       status : Closed \cup {NULL}]

IdleOp == [pc |-> "idle", day |-> <<>>, actor |-> NULL, status |-> NULL]

TypeOK ==
    /\ events \subseteq Events
    /\ summary \in SummaryRow \cup {NULL}
    /\ exception \in ExceptionRow \cup {NULL}
    /\ location \subseteq SUBSET (ArrivalIds \cup Corrections)
    /\ audit \subseteq Closed \X Staff
    /\ op \in [Slots -> Op]
    /\ lost \in BOOLEAN /\ crashes \in 0..MaxCrashes

Init ==
    /\ events = {}
    /\ summary = NULL
    /\ exception = NULL
    /\ location = {}
    /\ audit = {}
    /\ op = [s \in Slots |-> IdleOp]
    /\ lost = FALSE /\ crashes = 0

Goto(s, pc) == op' = [op EXCEPT ![s].pc = pc]
Finish(s) == op' = [op EXCEPT ![s] = IdleOp]

Ids(rows) == {e.id : e \in rows}

---------------------------------------------------------------------------
\* A punch reaches the log: AttendanceCapture models how.
Clock(e) ==
    /\ e \notin events
    /\ events' = events \cup {e}
    /\ UNCHANGED <<summary, exception, location, audit, op, lost, crashes>>

\* Mutant: the correction takes the place of the event.
CorrectInPlace(key, original, kind) ==
    /\ key \notin Ids(events)
    /\ events' = (events \ {original}) \cup {[id       |-> key,
                                              kind     |-> kind,
                                              at       |-> original.at,
                                              decision |-> "ACCEPTED",
                                              low      |-> FALSE]}
    /\ UNCHANGED <<summary, exception, location, audit, op, lost, crashes>>

\* correct: what it reads before its insert never changes, and the key is unique.
\* The original event stays as it is.
Correct(key, original, kind) ==
    /\ key \notin Ids(events)
    /\ events' = events \cup {[id       |-> key,
                               kind     |-> kind,
                               at       |-> original.at,
                               decision |-> "ACCEPTED",
                               low      |-> FALSE]}
    /\ UNCHANGED <<summary, exception, location, audit, op, lost, crashes>>

---------------------------------------------------------------------------
(* summarizeDay *)

Accepted(rows) == {e \in rows : e.decision = "ACCEPTED"}

\* The results of the query: by capturedAt, in any order where it is equal.
Days(rows) ==
    {day \in SetToSeqs(rows) :
        \A j, k \in DOMAIN day : j <= k => day[j].at <= day[k].at}

SummarizeRead(s) ==
    /\ op[s].pc = "idle"
    /\ \E day \in Days(Accepted(events)) :
          op' = [op EXCEPT ![s] = [IdleOp EXCEPT !.pc = "upsert", !.day = day]]
    /\ UNCHANGED <<events, summary, exception, location, audit, lost, crashes>>

Result(s) == summarizeEvents(op[s].day)

\* Mutants: the update leaves the minutes worked; a first summary is not
\* checked for missing punches.
SummarizeUpsertKeepingMinutes(s) ==
    /\ op[s].pc = "upsert"
    /\ summary' = [worked  |-> IF summary = NULL THEN Result(s).worked
                               ELSE summary.worked,
                   breaks  |-> Result(s).breaks,
                   sources |-> Result(s).sources]
    /\ Goto(s, IF Result(s).missing THEN "missing" ELSE "location")
    /\ lost' = FALSE
    /\ UNCHANGED <<events, exception, location, audit, crashes>>

SummarizeUpsertUnchecked(s) ==
    /\ op[s].pc = "upsert"
    /\ summary' = [worked  |-> Result(s).worked,
                   breaks  |-> Result(s).breaks,
                   sources |-> Result(s).sources]
    /\ Goto(s, IF summary # NULL /\ Result(s).missing THEN "missing"
               ELSE "location")
    /\ lost' = FALSE
    /\ UNCHANGED <<events, exception, location, audit, crashes>>

SummarizeUpsert(s) ==
    /\ op[s].pc = "upsert"
    /\ summary' = [worked  |-> Result(s).worked,
                   breaks  |-> Result(s).breaks,
                   sources |-> Result(s).sources]
    /\ Goto(s, IF Result(s).missing THEN "missing" ELSE "location")
    /\ lost' = FALSE
    /\ UNCHANGED <<events, exception, location, audit, crashes>>

\* Mutant: opened again under a status of its own.
RaiseMissingReopened(s) ==
    /\ op[s].pc = "missing"
    /\ exception' = IF exception = NULL
                    THEN [status   |-> "OPEN",
                          by       |-> NULL,
                          evidence |-> Result(s).sources]
                    ELSE [exception EXCEPT !.status   = "REOPENED",
                                           !.evidence = Result(s).sources]
    /\ Goto(s, "location")
    /\ UNCHANGED <<events, summary, location, audit, lost, crashes>>

\* An existing exception is opened again, whoever closed it.
RaiseMissing(s) ==
    /\ op[s].pc = "missing"
    /\ exception' = IF exception = NULL
                    THEN [status   |-> "OPEN",
                          by       |-> NULL,
                          evidence |-> Result(s).sources]
                    ELSE [exception EXCEPT !.status   = "OPEN",
                                           !.evidence = Result(s).sources]
    /\ Goto(s, "location")
    /\ UNCHANGED <<events, summary, location, audit, lost, crashes>>

RaiseLocation(s) ==
    /\ op[s].pc = "location"
    /\ LET low == {k \in DOMAIN op[s].day : op[s].day[k].low}
       IN  location' = IF low = {} THEN location
                       ELSE location \cup {{op[s].day[k].id : k \in low}}
    /\ Finish(s)
    /\ UNCHANGED <<events, summary, exception, audit, lost, crashes>>

---------------------------------------------------------------------------
(* resolveException *)

ResolveRead(s, a, status) ==
    /\ op[s].pc = "idle"
    /\ exception # NULL
    /\ a \in Reviewers
    /\ op' = [op EXCEPT ![s] = [IdleOp EXCEPT !.pc     = "resolve",
                                              !.actor  = a,
                                              !.status = status]]
    /\ UNCHANGED <<events, summary, exception, location, audit, lost, crashes>>

\* Mutant: the audit row names the status the exception had.
ResolveWriteOldStatus(s) ==
    /\ op[s].pc = "resolve"
    /\ exception' = [exception EXCEPT !.status = op[s].status,
                                      !.by     = op[s].actor]
    /\ audit' = audit \cup (IF exception.status = "OPEN"
                            THEN {<<op[s].status, op[s].actor>>} ELSE {})
    /\ Finish(s)
    /\ UNCHANGED <<events, summary, location, lost, crashes>>

\* No status is tested: a closed exception may be closed again.
ResolveWrite(s) ==
    /\ op[s].pc = "resolve"
    /\ exception' = [exception EXCEPT !.status = op[s].status,
                                      !.by     = op[s].actor]
    /\ audit' = audit \cup {<<op[s].status, op[s].actor>>}
    /\ Finish(s)
    /\ UNCHANGED <<events, summary, location, lost, crashes>>

---------------------------------------------------------------------------
\* A query fails, two first summaries of a day on its unique key among others.
Fail(s) ==
    /\ op[s].pc # "idle"
    /\ Finish(s)
    /\ lost' = (lost \/ op[s].pc = "missing")
    /\ UNCHANGED <<events, summary, exception, location, audit, crashes>>

Crash ==
    /\ crashes < MaxCrashes
    /\ crashes' = crashes + 1
    /\ op' = [s \in Slots |-> IdleOp]
    /\ lost' = (lost \/ \E s \in Slots : op[s].pc = "missing")
    /\ UNCHANGED <<events, summary, exception, location, audit>>

Log ==
    \/ \E e \in Arrivals : Clock(e)
    \/ \E key \in Corrections, original \in events, kind \in Kinds :
          Correct(key, original, kind)

Request(s) ==
    \/ SummarizeRead(s)
    \/ SummarizeUpsert(s)
    \/ RaiseMissing(s)
    \/ RaiseLocation(s)
    \/ \E a \in Staff, status \in Closed : ResolveRead(s, a, status)
    \/ ResolveWrite(s)
    \/ Fail(s)

Next == Log \/ (\E s \in Slots : Request(s)) \/ Crash

Spec == Init /\ [][Next]_vars

---------------------------------------------------------------------------
\* A summary is what one computation made of accepted events on file: overlapping
\* computations never leave minutes of one with sources of another
\* (summarizeDay's upsert; UAT.md:11, "reconcile to daily summaries").
SummaryOfOneComputation ==
    summary # NULL =>
        \E day \in Days({e \in Accepted(events) : e.id \in Range(summary.sources)}) :
            LET result == summarizeEvents(day)
            IN  /\ summary.sources = result.sources
                /\ summary.worked = result.worked
                /\ summary.breaks = result.breaks

\* The computation the summary is from had punches missing.
SummaryMissing ==
    \E day \in Days({e \in events : e.id \in Range(summary.sources)}) :
        /\ [k \in DOMAIN day |-> day[k].id] = summary.sources
        /\ summarizeEvents(day).missing

\* A summary with a missing punch has its exception, or the request that wrote it
\* is about to raise it (summarizeDay's second upsert). Where a crash or a failing
\* query came between, only until the day is summarized again.
MissingPunchIsRaised ==
    summary # NULL /\ SummaryMissing /\ ~lost =>
        exception # NULL \/ \E s \in Slots : op[s].pc = "missing"

\* Whoever closed an exception, and how, is on the audit log (resolveException's
\* transaction), whatever was reopened or closed again meanwhile.
ResolutionAudited ==
    exception # NULL /\ exception.status # "OPEN" =>
        <<exception.status, exception.by>> \in audit
=============================================================================
