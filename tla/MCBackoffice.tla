---------------------------- MODULE MCBackoffice ----------------------------
(***************************************************************************)
(* Backoffice on small sets, one part at a time. Five scenarios, chosen at  *)
(* the start: "access", signing in and out and the pages for it; "menu" and *)
(* "panel", the two halves of the shell; "worksites" and "employees", the   *)
(* pages of that name.                                                      *)
(***************************************************************************)
EXTENDS Backoffice

VARIABLE scenario

MCInit ==
    /\ scenario \in {"access", "menu", "panel", "worksites", "employees"}
    /\ IF scenario = "access" THEN Access!AccessInit
       ELSE /\ account = [active |-> TRUE, role |-> "ADMIN", mustReset |-> FALSE] /\ cookie = TRUE
            /\ Access!AccessInit /\ nav.path = "/"
    /\ Shell!ShellInit
    /\ scenario # "menu" => pathname = "/"
    /\ scenario # "panel" => notes = [n \in Notes |-> "absent"]
    /\ Worksites!WorksitesInit /\ Employees!EmployeesInit
    /\ scenario # "worksites" => held = [s \in Sites |-> s]
    /\ scenario # "employees" => \A e \in Staff : employees[e].there

Menu == Shell!ShellNext /\ UNCHANGED <<notes, panel>>

\* The panel's own calls and clicks; of the menu only what a click there changes.
Panel ==
    \/ Shell!ShellNext /\ UNCHANGED <<lists, menu>>
    \/ \E n \in Notes : Shell!ClickItem(n)

MCNext ==
    /\ \/ /\ scenario = "access" /\ Access!AccessNext
          /\ UNCHANGED <<shell, worksites, staff>>
       \/ /\ scenario = "menu" /\ Menu
          /\ UNCHANGED <<access, worksites, staff>>
       \/ /\ scenario = "panel" /\ Panel
          /\ UNCHANGED <<access, worksites, staff>>
       \/ /\ scenario = "worksites" /\ Worksites!WorksitesNext
          /\ UNCHANGED <<access, shell, staff>>
       \/ /\ scenario = "employees" /\ Employees!EmployeesNext
          /\ UNCHANGED <<access, shell, worksites>>
    /\ UNCHANGED scenario

\* Fairness is that of BackofficeAccess; where that part rests no behaviour is
\* fair, and only safety is looked at.
MCFairness == WF_access(Access!Navigate) /\ \A c \in Calls : WF_access(Access!AnswerCall(c))

MCSpec == MCInit /\ [][MCNext]_<<scenario, access, shell, worksites, staff>> /\ MCFairness
=============================================================================
