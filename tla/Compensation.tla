---------------------------- MODULE Compensation ----------------------------
(***************************************************************************)
(* Compensation profiles of employees (compensation.service.ts). A profile  *)
(* pays an employee from one day to another. A request tests the period for *)
(* overlap in one query and writes it in the next.                         *)
(***************************************************************************)
EXTENDS Naturals, Organization

CONSTANTS
    Profiles,   \* identifiers of profiles
    CompSlots,  \* requests in flight
    MaxDay      \* bound: days are 1..MaxDay

ASSUME CompensationAssumption == MaxDay \in Nat \ {0} /\ NULL \notin Profiles

Days    == 1..MaxDay
Forever == MaxDay + 1  \* effectiveTo is null
Epoch   == 0           \* new Date(null), what update makes of an explicit null

Period     == [employee : People, from : Days, to : Days \cup {Forever}]
ProfileRow == Period \cup {NULL}

ASSUME NullProfileAssumption == NULL \notin Period

VARIABLES
    profile,    \* the CompensationProfile table
    compOp,     \* the requests in flight
    compAudit,  \* audit rows: which profile was given which first day
    raced       \* history: employees two of whose requests were in flight at once

compVars == <<profile, compOp, compAudit, raced>>

NoCompOp == [at |-> "idle"]
CompOps  == [at : {"check", "write", "audit"}, id : Profiles \cup {NULL}, row : Period]

CompTypeOK ==
    /\ profile \in [Profiles -> ProfileRow]
    /\ compOp \in [CompSlots -> CompOps \cup {NoCompOp}]
    /\ compAudit \subseteq Profiles \X Days
    /\ raced \subseteq People

CompInit ==
    /\ profile = [p \in Profiles |-> NULL]
    /\ compOp = [s \in CompSlots |-> NoCompOp]
    /\ compAudit = {}
    /\ raced = {}

---------------------------------------------------------------------------
\* validateRange
InOrder(from, to) == from <= to

\* mutant: the overlap test forgets profiles without a last day
OverlapsClosed(row, id) ==
    \E p \in Profiles \ {id} :
        /\ profile[p] # NULL
        /\ profile[p].employee = row.employee
        /\ profile[p].from <= row.to
        /\ profile[p].to >= row.from
        /\ profile[p].to # Forever

\* The query of assertNoOverlap: a stored profile that begins by the last day
\* asked for and ends, if ever, on the first or later.
Overlaps(row, id) ==
    \E p \in Profiles \ {id} :
        /\ profile[p] # NULL
        /\ profile[p].employee = row.employee
        /\ profile[p].from <= row.to
        /\ profile[p].to >= row.from

\* The request has been read and validated; it will test the period next.
\* One with an unknown employee, a bad date, a negative amount or a line
\* without code and description is refused here and leaves nothing.
StartCheck(s, id, row) ==
    /\ compOp[s] = NoCompOp
    /\ Actor({"PAYROLL", "FINANCE", "ADMIN"})
    /\ compOp' = [compOp EXCEPT ![s] = [at |-> "check", id |-> id, row |-> row]]
    /\ raced' = IF \E t \in CompSlots : /\ compOp[t] # NoCompOp
                                        /\ compOp[t].row.employee = row.employee
                THEN raced \cup {row.employee} ELSE raced
    /\ UNCHANGED <<profile, compAudit>>

CompCreate(s) ==
    \E e \in People, from \in Days, to \in Days \cup {Forever} :
        /\ InOrder(from, to)
        /\ StartCheck(s, NULL, [employee |-> e, from |-> from, to |-> to])

\* Fields left out keep what the row has when it is read; an explicit null
\* for the last day becomes the epoch and fails validateRange.
CompUpdate(s) ==
    \E p \in Profiles, f \in Days \cup {NULL}, t \in Days \cup {NULL, Epoch} :
        /\ profile[p] # NULL
        /\ LET from == IF f = NULL THEN profile[p].from ELSE f
               to   == IF t = NULL THEN profile[p].to ELSE t
           IN /\ InOrder(from, to)
              /\ StartCheck(s, p, [profile[p] EXCEPT !.from = from, !.to = to])

CompCheck(s) ==
    /\ compOp[s].at = "check"
    /\ compOp' = [compOp EXCEPT ![s] =
                     IF Overlaps(@.row, @.id) THEN NoCompOp ELSE [@ EXCEPT !.at = "write"]]
    /\ UNCHANGED <<profile, compAudit, raced>>

\* @@unique([employeeId, effectiveFrom])
FirstDayTaken(row, id) ==
    \E p \in Profiles \ {id} :
        profile[p] # NULL /\ profile[p].employee = row.employee /\ profile[p].from = row.from

Store(s, id) ==
    /\ ~FirstDayTaken(compOp[s].row, id)
    /\ profile' = [profile EXCEPT ![id] = compOp[s].row]
    /\ compOp' = [compOp EXCEPT ![s].at = "audit", ![s].id = id]
    /\ UNCHANGED <<compAudit, raced>>

\* create inserts a row, update writes both ends of the period it computed.
CompWrite(s) ==
    /\ compOp[s].at = "write"
    /\ IF compOp[s].id = NULL
       THEN \E p \in Profiles : profile[p] = NULL /\ Store(s, p)
       ELSE Store(s, compOp[s].id)

CompAudit(s) ==
    /\ compOp[s].at = "audit"
    /\ compAudit' = compAudit \cup {<<compOp[s].id, compOp[s].row.from>>}
    /\ compOp' = [compOp EXCEPT ![s] = NoCompOp]
    /\ UNCHANGED <<profile, raced>>

\* A query fails, the unique index refuses the row, or the server stops.
CompFail(s) ==
    /\ compOp[s] # NoCompOp
    /\ compOp' = [compOp EXCEPT ![s] = NoCompOp]
    /\ UNCHANGED <<profile, compAudit, raced>>

CompStep(s) ==
    \/ CompCreate(s) \/ CompUpdate(s) \/ CompCheck(s)
    \/ CompWrite(s) \/ CompAudit(s) \/ CompFail(s)

CompNext == \E s \in CompSlots : CompStep(s)

CompSpec == CompInit /\ [][CompNext]_compVars

---------------------------------------------------------------------------
PeriodsValid == \A p \in Profiles : profile[p] # NULL => profile[p].from <= profile[p].to

DaysOf(p) == {d \in Days : profile[p].from <= d /\ d <= profile[p].to}

PeriodsDisjoint(e) ==
    \A p, q \in Profiles :
        /\ p # q /\ profile[p] # NULL /\ profile[q] # NULL
        /\ profile[p].employee = e /\ profile[q].employee = e
        => DaysOf(p) \cap DaysOf(q) = {}

\* However updates that read one row overlap, no stored period ends before it
\* begins; and no day of an employee is paid under two profiles, unless two
\* requests about this employee were in flight at once (update and create of
\* compensation.service.ts, whose overlap test and write are two queries).
PeriodsSound == PeriodsValid /\ \A e \in People \ raced : PeriodsDisjoint(e)

=============================================================================
