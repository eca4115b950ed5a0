------------------------ MODULE PilotReconciliation ------------------------
(***************************************************************************)
(* Parallel-run pilots (pilot.service.ts). A pilot compares the payroll     *)
(* runs of its cohort, one cycle per run, with trusted amounts and is       *)
(* complete when enough cycles are signed off. Every query of a request is  *)
(* a step; the queries of one findUnique with includes are one.             *)
(***************************************************************************)
EXTENDS Integers, FiniteSets, FiniteSetsExt, Functions, Organization

CONSTANTS
    MaxPilots,   \* bound: pilots are numbered in the order they are created
    Runs,        \* calculated payroll runs, each the key of at most one cycle
    Codes,       \* codes of payroll lines
    Amounts,     \* amounts in cents, trusted and calculated
    Tolerance,
    Target,      \* targetCycles
    PilotSlots   \* requests in flight

ASSUME PilotAssumption ==
    /\ MaxPilots \in Nat
    /\ IsFiniteSet(Runs)
    /\ Target \in Nat \ {0}
    /\ Amounts \subseteq Int /\ Tolerance \in Nat

Pilots == 1..MaxPilots
Keys   == People \X Codes  \* @@unique([pilotCycleId, employeeId, code])

VARIABLES
    pilot,      \* the Pilot table with its members
    cycle,      \* the PilotCycle table by payroll run, with its reference lines
    pilotOp,    \* the requests in flight
    pilotAudit, \* audit rows
    cut,        \* history: pilots one of whose sign-offs failed after signing
    overtaken   \* history: cycles two of whose requests were in flight at once

pilotVars == <<pilot, cycle, pilotOp, pilotAudit, cut, overtaken>>

NoPilotOp == [at |-> "idle"]

\* Reference lines: for each key given, whether its variance is resolved.
Lines == UNION {[K -> BOOLEAN] : K \in SUBSET Keys}

PilotRow == [status : {"ACTIVE", "COMPLETED"}, members : SUBSET People]
CycleRow == [pilot  : Pilots, number : Nat \ {0}, lines : Lines,
             status : {"OPEN", "RECONCILED", "SIGNED_OFF"}]

ASSUME NullAssumption == NULL \notin PilotRow \cup CycleRow

\* The requests in flight work on rows there are.
PilotOpOK(op) ==
    /\ op.at \in {"idle", "started", "count", "insert", "opened", "delete", "commit",
                 "sign", "tally", "complete", "signed"}
    /\ op.at \in {"started", "count", "insert"} => op.pilot \in Pilots /\ pilot[op.pilot] # NULL
    /\ op.at \in {"count", "insert"} => op.run \in Runs
    /\ op.at = "insert" => op.number \in Nat \ {0}
    /\ op.at \in {"opened", "delete", "commit", "sign", "tally", "complete", "signed"} =>
           op.run \in Runs /\ cycle[op.run] # NULL
    /\ op.at \in {"delete", "commit"} => op.new \in Lines

PilotTypeOK ==
    /\ pilot \in [Pilots -> PilotRow \cup {NULL}]
    /\ cycle \in [Runs -> CycleRow \cup {NULL}]
    /\ \A r \in Runs : cycle[r] # NULL => pilot[cycle[r].pilot] # NULL
    /\ DOMAIN pilotOp = PilotSlots
    /\ \A s \in PilotSlots : PilotOpOK(pilotOp[s])
    /\ cut \subseteq Pilots
    /\ overtaken \subseteq Runs

PilotInit ==
    /\ pilot = [p \in Pilots |-> NULL]
    /\ cycle = [r \in Runs |-> NULL]
    /\ pilotOp = [s \in PilotSlots |-> NoPilotOp]
    /\ pilotAudit = {}
    /\ cut = {} /\ overtaken = {}

---------------------------------------------------------------------------
\* reconcileLines: the calculated items of a line's employee and code are
\* added up and compared with the trusted amount.
Total(items, k) == MapThenSumSet(LAMBDA i : IF items[i].key = k THEN items[i].amount ELSE 0,
                                 DOMAIN items)

ReconcileLines(reference, items) ==
    [k \in DOMAIN reference |->
        LET variance == Total(items, k) - reference[k]
        IN  -Tolerance <= variance /\ variance <= Tolerance]

\* What a reconciliation of a pilot's cohort can come to: up to two items.
Outcomes == [members \in SUBSET People |->
    LET keys  == members \X Codes
        items == UNION {[1..n -> [key : keys, amount : Amounts]] : n \in 0..2}
    IN  UNION {{ReconcileLines(ref, i) : ref \in [K -> Amounts], i \in items} :
                  K \in (SUBSET keys) \ {{}}}]

CyclesOf(p)  == {r \in Runs : cycle[r] # NULL /\ cycle[r].pilot = p}
Signed(p)    == {r \in CyclesOf(p) : cycle[r].status = "SIGNED_OFF"}

\* mutant: one line within the tolerance is enough
ReadyAny(lines) == \E k \in DOMAIN lines : lines[k]

\* readyForSignOff of summary, and the test signOff makes
Ready(lines) == DOMAIN lines # {} /\ \A k \in DOMAIN lines : lines[k]

Audited(action, id) == pilotAudit' = pilotAudit \cup {<<action, id>>}
Done(s)       == pilotOp' = [pilotOp EXCEPT ![s] = NoPilotOp]
Go(s, op)     == pilotOp' = [pilotOp EXCEPT ![s] = op]
Idle(s)       == pilotOp[s] = NoPilotOp
At(s, place)  == pilotOp[s].at = place

\* create: the pilot with its members, then the audit row.
CreatePilot(s) ==
    /\ Idle(s) /\ Actor({"HR", "PAYROLL", "ADMIN"})
    /\ \E p \in Pilots, members \in (SUBSET People) \ {{}} :
           /\ pilot[p] = NULL
           /\ \A q \in Pilots : q < p => pilot[q] # NULL
           /\ pilot' = [pilot EXCEPT ![p] = [status |-> "ACTIVE", members |-> members]]
           /\ Go(s, [at |-> "started", pilot |-> p])
    /\ UNCHANGED <<cycle, pilotAudit, cut, overtaken>>

AuditPilot(s) ==
    /\ At(s, "started")
    /\ Audited("PILOT_STARTED", pilotOp[s].pilot)
    /\ Done(s)
    /\ UNCHANGED <<pilot, cycle, cut, overtaken>>

\* createCycle: the pilot is read, its cycles are counted, the cycle that
\* the count numbers is inserted.
OpenCycle(s) ==
    /\ Idle(s) /\ Actor({"PAYROLL", "ADMIN"})
    /\ \E p \in Pilots, r \in Runs :
           /\ pilot[p] # NULL /\ pilot[p].status = "ACTIVE"
           /\ Go(s, [at |-> "count", pilot |-> p, run |-> r])
    /\ UNCHANGED <<pilot, cycle, pilotAudit, cut, overtaken>>

\* mutant: cycles are numbered from zero
CountFromZero(s) ==
    /\ At(s, "count")
    /\ Go(s, [at |-> "insert", pilot |-> pilotOp[s].pilot, run |-> pilotOp[s].run,
              number |-> Cardinality(CyclesOf(pilotOp[s].pilot))])
    /\ UNCHANGED <<pilot, cycle, pilotAudit, cut, overtaken>>

CountCycles(s) ==
    /\ At(s, "count")
    /\ Go(s, [at |-> "insert", pilot |-> pilotOp[s].pilot, run |-> pilotOp[s].run,
              number |-> Cardinality(CyclesOf(pilotOp[s].pilot)) + 1])
    /\ UNCHANGED <<pilot, cycle, pilotAudit, cut, overtaken>>

\* mutant: nothing keeps two cycles of a pilot from having one number
NumberUnchecked(p, n) == TRUE

\* @@unique([pilotId, cycleNumber])
NumberFree(p, n) == \A r \in CyclesOf(p) : cycle[r].number # n

InsertCycle(s) ==
    /\ At(s, "insert")
    /\ LET op == pilotOp[s]
       IN  /\ cycle[op.run] = NULL  \* payrollRunId is unique
           /\ NumberFree(op.pilot, op.number)
           /\ cycle' = [cycle EXCEPT ![op.run] =
                           [pilot |-> op.pilot, number |-> op.number,
                            lines |-> <<>>, status |-> "OPEN"]]
           /\ Go(s, [at |-> "opened", run |-> op.run])
    /\ UNCHANGED <<pilot, pilotAudit, cut, overtaken>>

AuditCycle(s) ==
    /\ At(s, "opened")
    /\ Audited("PILOT_CYCLE_OPENED", pilotOp[s].run)
    /\ Done(s)
    /\ UNCHANGED <<pilot, cycle, cut, overtaken>>

---------------------------------------------------------------------------
\* A request about cycle r begins.
Enter(s, r, op) ==
    /\ Go(s, op)
    /\ overtaken' = IF \E t \in PilotSlots \ {s} : /\ pilotOp[t].at \in {"delete", "commit", "sign"}
                                                  /\ pilotOp[t].run = r
                    THEN overtaken \cup {r} ELSE overtaken

\* reconcile: the cycle and the run's items are read, then one transaction
\* replaces the lines. Its deleteMany removes the lines it sees.
Reconcile(s) ==
    /\ Idle(s) /\ Actor({"PAYROLL", "FINANCE", "ADMIN"})
    /\ \E r \in Runs :
           /\ cycle[r] # NULL /\ cycle[r].status # "SIGNED_OFF"
           /\ \E new \in Outcomes[pilot[cycle[r].pilot].members] :
                  Enter(s, r, [at |-> "delete", run |-> r, new |-> new])
    /\ UNCHANGED <<pilot, cycle, pilotAudit, cut>>

DeleteLines(s) ==
    /\ At(s, "delete")
    /\ Go(s, [at |-> "commit", run |-> pilotOp[s].run, new |-> pilotOp[s].new,
              gone |-> DOMAIN cycle[pilotOp[s].run].lines])
    /\ UNCHANGED <<pilot, cycle, pilotAudit, cut, overtaken>>

\* Lines another reconciliation committed since the delete stay, and one
\* with a key of the new lines makes the transaction abort (PilotFail). Two
\* transactions delete a line only once.
CommitLines(s) ==
    /\ At(s, "commit")
    /\ LET op   == pilotOp[s]
           stay == DOMAIN cycle[op.run].lines \ op.gone
       IN  /\ stay \cap DOMAIN op.new = {}
           /\ cycle' = [cycle EXCEPT
                           ![op.run].lines  = [k \in stay \cup DOMAIN op.new |->
                                                  IF k \in stay THEN @[k] ELSE op.new[k]],
                           ![op.run].status = "RECONCILED"]
           /\ pilotOp' = [t \in PilotSlots |->
                  IF t = s THEN NoPilotOp
                  ELSE IF At(t, "commit") /\ pilotOp[t].run = op.run
                       THEN [at |-> "commit", run |-> op.run, new |-> pilotOp[t].new,
                             gone |-> pilotOp[t].gone \ op.gone]
                  ELSE pilotOp[t]]
           /\ Audited("PILOT_CYCLE_RECONCILED", op.run)
    /\ UNCHANGED <<pilot, cut, overtaken>>

---------------------------------------------------------------------------
\* signOff: the cycle is read, signed, the signed cycles are counted and the
\* pilot is completed.
SignOff(s) ==
    /\ Idle(s) /\ Actor({"FINANCE", "ADMIN"})
    /\ \E r \in Runs :
           /\ cycle[r] # NULL /\ cycle[r].status = "RECONCILED"
           /\ Ready(cycle[r].lines)
           /\ Enter(s, r, [at |-> "sign", run |-> r])
    /\ UNCHANGED <<pilot, cycle, pilotAudit, cut>>

Sign(s) ==
    /\ At(s, "sign")
    /\ cycle' = [cycle EXCEPT ![pilotOp[s].run].status = "SIGNED_OFF"]
    /\ Go(s, [at |-> "tally", run |-> pilotOp[s].run])
    /\ UNCHANGED <<pilot, pilotAudit, cut, overtaken>>

\* mutant: the signed cycles are counted without the one just signed
TallyOthers(s) ==
    /\ At(s, "tally")
    /\ LET others == Signed(cycle[pilotOp[s].run].pilot) \ {pilotOp[s].run}
       IN  Go(s, [at  |-> IF Cardinality(others) >= Target THEN "complete" ELSE "signed",
                  run |-> pilotOp[s].run])
    /\ UNCHANGED <<pilot, cycle, pilotAudit, cut, overtaken>>

Tally(s) ==
    /\ At(s, "tally")
    /\ LET signed == Signed(cycle[pilotOp[s].run].pilot)
       IN  Go(s, [at  |-> IF Cardinality(signed) >= Target THEN "complete" ELSE "signed",
                  run |-> pilotOp[s].run])
    /\ UNCHANGED <<pilot, cycle, pilotAudit, cut, overtaken>>

Complete(s) ==
    /\ At(s, "complete")
    /\ pilot' = [pilot EXCEPT ![cycle[pilotOp[s].run].pilot].status = "COMPLETED"]
    /\ Go(s, [at |-> "signed", run |-> pilotOp[s].run])
    /\ UNCHANGED <<cycle, pilotAudit, cut, overtaken>>

AuditSignOff(s) ==
    /\ At(s, "signed")
    /\ Audited("PILOT_CYCLE_SIGNED_OFF", pilotOp[s].run)
    /\ Done(s)
    /\ UNCHANGED <<pilot, cycle, cut, overtaken>>

\* A query fails, a unique index refuses a row, or the server stops: what the
\* request wrote stays, except inside the transaction of reconcile.
PilotFail(s) ==
    /\ ~Idle(s)
    /\ Done(s)
    /\ cut' = IF pilotOp[s].at \in {"tally", "complete"}
              THEN cut \cup {cycle[pilotOp[s].run].pilot} ELSE cut
    /\ UNCHANGED <<pilot, cycle, pilotAudit, overtaken>>

PilotStep(s) ==
    \/ CreatePilot(s) \/ AuditPilot(s)
    \/ OpenCycle(s) \/ CountCycles(s) \/ InsertCycle(s) \/ AuditCycle(s)
    \/ Reconcile(s) \/ DeleteLines(s) \/ CommitLines(s)
    \/ SignOff(s) \/ Sign(s) \/ Tally(s) \/ Complete(s) \/ AuditSignOff(s)
    \/ PilotFail(s)

PilotNext == \E s \in PilotSlots : PilotStep(s)

PilotSpec == PilotInit /\ [][PilotNext]_pilotVars

---------------------------------------------------------------------------
\* The request in slot s will still count the signed cycles of p or, having
\* counted enough, complete p.
WillComplete(s, p) ==
    pilotOp[s].at \in {"tally", "complete"} /\ cycle[pilotOp[s].run].pilot = p

\* A pilot with enough signed cycles is completed or about to be, unless a
\* sign-off failed between its writes: of two sign-offs that overlap, the one
\* that counts last sees both (signOff signs before it counts), and a cycle
\* another reconciliation reopens is counted again when it is signed again.
CompletionNotMissed ==
    \A p \in Pilots : Cardinality(Signed(p)) >= Target =>
        \/ pilot[p].status = "COMPLETED"
        \/ p \in cut
        \/ \E s \in PilotSlots : WillComplete(s, p)

\* A signed cycle has lines and every one is within the tolerance, unless two
\* requests about the cycle overlapped (signOff signs what it read, and
\* reconcile writes RECONCILED over a signature it has not seen).
SignOffOfResolved ==
    \A r \in Runs \ overtaken :
        cycle[r] # NULL /\ cycle[r].status = "SIGNED_OFF" =>
            {cycle[r].lines[k] : k \in DOMAIN cycle[r].lines} = {TRUE}

\* The cycles of a pilot are numbered 1, 2, ... without a gap or a double,
\* whatever requests of createCycle overlap and whichever fail.
CyclesNumbered ==
    \A p \in Pilots :
        {cycle[r].number : r \in CyclesOf(p)} = 1..Cardinality(CyclesOf(p))

=============================================================================
