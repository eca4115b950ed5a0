--------------------------- MODULE MobileOverview ---------------------------
(***************************************************************************)
(* What the app of an employee is told of pilots, payroll and pay           *)
(* (mobile.controller.ts): one response put together from separate queries, *)
(* and the device the app is registered on.                                 *)
(***************************************************************************)
EXTENDS Compensation, PilotReconciliation

CONSTANTS
    Phones,      \* device identifiers
    Viewers      \* employees whose app asks for the overview

VARIABLES
    view,        \* per employee: the overview being put together, or its last response
    runOf,       \* employees with items in a payroll run
    device       \* the RegisteredDevice table: the employee a phone belongs to

overviewVars == <<view, runOf, device>>
recordsVars  == <<compVars, pilotVars, overviewVars>>

NoView    == [at |-> "none"]
Queries   == {"pilot", "cycles", "run"}
Overviews == [at : {"queries", "shown"}, pending : SUBSET Queries,
              pilot : Pilots \cup {NULL}, status : {"ACTIVE", "COMPLETED", NULL},
              signed : Nat, run : BOOLEAN, profile : Profiles \cup {NULL}]

OverviewInit ==
    /\ view = [e \in Viewers |-> NoView]
    /\ runOf = {}
    /\ device = [d \in Phones |-> NULL]

\* The answer to one of the overview's queries arrives.
Pending(e, query) == view[e].at = "queries" /\ query \in view[e].pending

Answer(e, response) ==
    /\ view' = [view EXCEPT ![e] = response]
    /\ UNCHANGED <<runOf, device>>

---------------------------------------------------------------------------
\* overview: the employee is found active and the queries are sent.
AskOverview(e) ==
    /\ view[e].at \in {"none", "shown"}
    /\ Answer(e, [at |-> "queries", pending |-> Queries,
                  pilot |-> NULL, status |-> NULL, signed |-> 0,
                  run |-> FALSE, profile |-> NULL])

\* pilotMember.findFirst: the pilot of the latest enrolment, ...
PilotsOf(e) == {p \in Pilots : pilot[p] # NULL /\ e \in pilot[p].members}

ReadPilot(e) ==
    /\ Pending(e, "pilot")
    /\ IF PilotsOf(e) = {}
       THEN Answer(e, [view[e] EXCEPT !.pending = @ \ {"pilot", "cycles"}])
       ELSE LET p == Max(PilotsOf(e))
            IN  Answer(e, [view[e] EXCEPT !.pending = @ \ {"pilot"},
                                          !.pilot = p, !.status = pilot[p].status])

\* mutant: the cycles may be read before the pilot they belong to
ReadCyclesFirst(e) ==
    /\ Pending(e, "cycles")
    /\ PilotsOf(e) # {}
    /\ Answer(e, [view[e] EXCEPT !.pending = @ \ {"cycles"},
                                 !.signed = Cardinality(Signed(Max(PilotsOf(e))))])

\* ... then, in a query of its own, the cycles it includes; completedCycles
\* counts the signed ones.
ReadCycles(e) ==
    /\ Pending(e, "cycles") /\ ~Pending(e, "pilot")
    /\ Answer(e, [view[e] EXCEPT !.pending = @ \ {"cycles"},
                                 !.signed = Cardinality(Signed(view[e].pilot))])

\* payrollRun.findFirst, at any time between
ReadRun(e) ==
    /\ Pending(e, "run")
    /\ Answer(e, [view[e] EXCEPT !.pending = @ \ {"run"}, !.run = e \in runOf])

\* The profile that begins last
ProfilesOf(e) == {p \in Profiles : profile[p] # NULL /\ profile[p].employee = e}

LastProfile(e) ==
    IF ProfilesOf(e) = {} THEN NULL
    ELSE CHOOSE p \in ProfilesOf(e) : \A q \in ProfilesOf(e) : profile[q].from <= profile[p].from

\* When every query has answered the profile is read. The run is shown as it
\* is, a profile without a run as an estimate.
ShowOverview(e) ==
    /\ view[e].at = "queries" /\ view[e].pending = {}
    /\ Answer(e, [view[e] EXCEPT !.at = "shown",
                                 !.profile = IF view[e].run THEN NULL ELSE LastProfile(e)])

\* A query fails, the server stops, or the employee is not active.
DropOverview(e) ==
    /\ view[e].at = "queries"
    /\ Answer(e, NoView)

\* calculate of payroll.service.ts: a run gets items of the employee.
PayrollCalculates(e) ==
    /\ e \notin runOf
    /\ runOf' = runOf \cup {e}
    /\ UNCHANGED <<view, device>>

\* registerDevice: after the code and the employee are checked, the row of
\* the phone is created or given to the employee.
RegisterDevice(d, e) ==
    /\ device[d] # e
    /\ device' = [device EXCEPT ![d] = e]
    /\ UNCHANGED <<view, runOf>>

OverviewStep(e) ==
    \/ AskOverview(e) \/ ReadPilot(e) \/ ReadCycles(e)
    \/ ReadRun(e) \/ ShowOverview(e) \/ DropOverview(e)
    \/ PayrollCalculates(e)
    \/ \E d \in Phones : RegisterDevice(d, e)

OverviewNext == \E e \in Viewers : OverviewStep(e)

RecordsInit == CompInit /\ PilotInit /\ OverviewInit

RecordsNext ==
    \/ CompNext     /\ UNCHANGED <<pilotVars, overviewVars>>
    \/ PilotNext    /\ UNCHANGED <<compVars, overviewVars>>
    \/ OverviewNext /\ UNCHANGED <<compVars, pilotVars>>

RecordsSpec == RecordsInit /\ [][RecordsNext]_recordsVars

---------------------------------------------------------------------------
RecordsTypeOK ==
    /\ CompTypeOK
    /\ PilotTypeOK
    /\ view \in [Viewers -> Overviews \cup {NoView}]
    /\ runOf \subseteq Viewers
    /\ device \in [Phones -> Viewers \cup {NULL}]

\* An employee is never told that the pilot is completed next to a number of
\* signed cycles below its target, though status and cycles are read at two
\* times and sign-offs go on: unless two requests about a cycle overlapped.
OverviewAgrees ==
    \A e \in Viewers :
        /\ view[e].at = "shown" /\ view[e].pilot # NULL
        /\ view[e].status = "COMPLETED"
        /\ \A r \in overtaken : cycle[r].pilot # view[e].pilot
        => view[e].signed >= Target
=============================================================================
