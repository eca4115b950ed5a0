----------------------------- MODULE MCRecords -----------------------------
(***************************************************************************)
(* Compensation, pilots and the overview over them. Four scenarios, chosen  *)
(* at the start: "pay", two overlapping requests about pay; "paid", one at  *)
(* a time while the employee looks; "pilot", two overlapping requests about *)
(* pilots; "viewed", one at a time while the employee looks.                *)
(***************************************************************************)
EXTENDS MobileOverview, TLC

CONSTANTS ada, wes, s1, s2, p1, p2, r1, r2

MCRoleOf == (ada :> "ADMIN" @@ wes :> "EMPLOYEE")

VARIABLE scenario

MCInit == RecordsInit /\ scenario \in {"pay", "pilot", "viewed", "paid"}

base == <<wes, "BASE">> :> TRUE
ot   == <<wes, "OT">> :> TRUE

\* Bounds of a scenario. Pilots have the worker as their only member; only
\* "viewed" has two of them.
Within ==
    /\ scenario = "paid" => /\ PilotInit' /\ raced' = {}
                            /\ \A s \in {s1, s2} : compOp'[s].at # "idle" =>
                                   compOp'[s].row.employee = wes
    /\ scenario # "paid" => device' = device
    /\ scenario = "pay" => PilotInit' /\ OverviewInit'
    /\ scenario = "pilot" => /\ CompInit' /\ OverviewInit' /\ pilot'[2] = NULL
                             /\ \A s \in {s1, s2} : pilotOp'[s].at = "delete" =>
                                    pilotOp'[s].new \in {base, ot, base @@ <<wes, "OT">> :> FALSE}
    /\ scenario = "viewed" => /\ CompInit' /\ runOf' = runOf
                              /\ Cardinality({s \in {s1, s2} : pilotOp'[s] # NoPilotOp}) <= 1
                              /\ \A s \in {s1, s2} : pilotOp'[s].at = "delete" =>
                                    pilotOp'[s].new = base
    /\ \A p \in Pilots : pilot'[p] # NULL => pilot'[p].members = {wes}

MCNext == RecordsNext /\ Within /\ UNCHANGED scenario

MCSpec == MCInit /\ [][MCNext]_<<recordsVars, scenario>>

\* No guard and no property reads the audit rows.
MCView == <<profile, compOp, raced, pilot, cycle, pilotOp, cut, overtaken, overviewVars, scenario>>

MCSymmetry == Permutations({p1, p2}) \cup Permutations({r1, r2}) \cup Permutations({s1, s2})
=============================================================================
