----------------------------- MODULE Backoffice -----------------------------
(***************************************************************************)
(* A browser tab of the back office: the session and the pages for it, the  *)
(* shell around every page, the worksites page and the employees page. They *)
(* share no variable: each step of the tab is one of a part of it.          *)
(***************************************************************************)
EXTENDS Naturals, FiniteSets

CONSTANTS Roles, Calls, MaxClicks, Notes, MaxPaths, MaxCalls, MaxOthers,
          Sites, Staff, Loads, MaxActions, MaxResets

\* The sites, the staff and the notifications are none of the words that stand
\* beside them; a page has a load to make and a path to show.
ASSUME BackofficeAssumption ==
    /\ {"none", "blank", "absent"} \cap Sites = {} /\ "nobody" \notin Staff
    /\ IsFiniteSet(Notes)
    /\ {MaxClicks, MaxPaths, MaxCalls, MaxOthers, MaxActions, MaxResets} \subseteq Nat
    /\ MaxPaths > 0 /\ MaxCalls > 0

VARIABLES
    account, cookie, nav, page, call, busy, clicks, stale,
    lists, pathname, menuOpen, navCounts, fetches, seen, notes, data, panelOpen, loading,
    error, calls, mixed,
    held, added, siteRows, form, editingId, siteForm, map, siteSaving, siteLoads, siteLoading,
    locating, positions, actions,
    employees, password, foreign, rows, showForm, assigning, selected, saving, resets,
    resetting, credential, staffLoads, staffLoading, given, submits

Access == INSTANCE BackofficeAccess
Shell  == INSTANCE BackofficeShell
Worksites == INSTANCE WorksitesPage WITH
    rows <- siteRows, showForm <- siteForm, saving <- siteSaving, loads <- siteLoads,
    loading <- siteLoading
Employees == INSTANCE EmployeesPage WITH
    loads <- staffLoads, loading <- staffLoading, MaxSubmits <- MaxResets

access    == <<account, cookie, nav, page, call, busy, clicks, stale>>
menu      == <<pathname, menuOpen, navCounts, fetches, seen>>
panel     == <<data, panelOpen, loading, error, calls, mixed>>
shell     == <<lists, menu, notes, panel>>
worksites == <<held, added, siteRows, form, editingId, siteForm, map, siteSaving, siteLoads,
               siteLoading, locating, positions, actions>>
staff     == <<employees, password, foreign, rows, showForm, assigning, selected, saving, resets,
               resetting, credential, staffLoads, staffLoading, given, submits>>

BackofficeInit ==
    /\ Access!AccessInit /\ Shell!ShellInit
    /\ Worksites!WorksitesInit /\ Employees!EmployeesInit

BackofficeNext ==
    \/ Access!AccessNext /\ UNCHANGED <<shell, worksites, staff>>
    \/ Shell!ShellNext /\ UNCHANGED <<access, worksites, staff>>
    \/ Worksites!WorksitesNext /\ UNCHANGED <<access, shell, staff>>
    \/ Employees!EmployeesNext /\ UNCHANGED <<access, shell, worksites>>

BackofficeSpec ==
    BackofficeInit /\ [][BackofficeNext]_<<access, shell, worksites, staff>>

---------------------------------------------------------------------------
\* Every variable of the back office has its type.
BackofficeTypeOK ==
    /\ Access!AccessTypeOK /\ Shell!ShellTypeOK
    /\ Worksites!WorksitesTypeOK /\ Employees!EmployeesTypeOK

\* Every navigation arrives and every form with a finally gives its buttons
\* back (BackofficeAccess).
EveryWaitEnds == Access!EveryWaitEnds

\* What the tab shows fits the session and the account (BackofficeAccess).
ViewMatchesAccount == Access!ViewMatchesAccount

\* Older counts never replace newer ones on the menu (BackofficeShell).
CountsNeverGoBack == Shell!CountsNeverGoBack

\* The panel shows as read what is read (BackofficeShell).
ShownReadIsRead == Shell!ShownReadIsRead

\* A site only gets fields typed for it (WorksitesPage).
FormSavesItsSite == Worksites!FormSavesItsSite

\* A temporary password on show is the one that works (EmployeesPage).
CredentialIsCurrent == Employees!CredentialIsCurrent
=============================================================================
