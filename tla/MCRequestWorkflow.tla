------------------------- MODULE MCRequestWorkflow -------------------------
(***************************************************************************)
(* RequestWorkflow with a supervisor, an HR officer and an employee to      *)
(* whom steps can be delegated.  Remote work has an approval policy of one *)
(* HR step, a field assignment one of three; the other types take the      *)
(* default roles.  Requests of the API interleave, or are handled one at a  *)
(* time; field assignments are only filed in the second case.              *)
(***************************************************************************)
EXTENDS WorkflowRefinement, TLC

CONSTANTS sue, hal, eve

MCStaff == {sue, hal, eve}

MCRoleOf == [a \in MCStaff |-> CASE a = sue -> "SUPERVISOR"
                                 [] a = hal -> "HR"
                                 [] OTHER   -> "EMPLOYEE"]

MCPolicySteps ==
    [type \in Types |-> CASE type = "REMOTE_WORK"      -> <<"HR">>
                          [] type = "FIELD_ASSIGNMENT" -> <<"SUPERVISOR", "HR", "HR">>
                          [] OTHER                     -> NULL]

\* The slots are interchangeable.
SlotSymmetry == Permutations(Slots)
---------------------------------------------------------------------------
InterleavedTypes == {"ATTENDANCE_CORRECTION", "REMOTE_WORK"}

MCNext ==
    /\ ServedNext
    /\ interleaved => \A q \in Requests :
                         request'[q] # NULL => request'[q].type \in InterleavedTypes

MCSpec == ServedInit /\ [][MCNext]_<<vars, interleaved>>
=============================================================================
