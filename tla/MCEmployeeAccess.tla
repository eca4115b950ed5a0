-------------------------- MODULE MCEmployeeAccess --------------------------
(***************************************************************************)
(* AccessServed with an administrator, an HR officer and a worker of one    *)
(* organisation, whose email two Supabase users share.  Three scenarios,    *)
(* chosen at the start: "signIns", two interleaved requests of the          *)
(* administrator and those two users, and no temporary passwords; "resets", *)
(* two interleaved requests of the administrator and the HR officer;        *)
(* "serial", everything, one request at a time.                             *)
(***************************************************************************)
EXTENDS AccessServed, TLC

CONSTANTS ann, hal, wes, ua, uh, uw, ux, s1, s2

MCRoleOf == (ann :> "ADMIN" @@ hal :> "HR" @@ wes :> "EMPLOYEE")
MCEmailOf == (ann :> "ann" @@ hal :> "hal" @@ wes :> "wes")
MCOrgOf == [e \in Employees |-> "herrera"]
MCUserEmail == (ua :> "ann" @@ uh :> "hal" @@ uw :> "wes" @@ ux :> "wes")

\* The slots are interchangeable.
SlotSymmetry == Permutations(Slots)
---------------------------------------------------------------------------
VARIABLE scenario

MCInit ==
    /\ ServedInit
    /\ scenario \in {"signIns", "resets", "serial"}
    /\ interleaved = (scenario # "serial")

MCNext ==
    /\ ServedNext
    /\ scenario = "signIns" =>
           \A s \in Slots : op'[s].user # uh /\ op'[s].endpoint # "reset"
    /\ scenario = "resets" =>
           \A s \in Slots : op'[s].user \notin {uw, ux} /\ op'[s].target # wes
    /\ UNCHANGED scenario

MCSpec == MCInit /\ [][MCNext]_<<vars, interleaved, scenario>>
=============================================================================
