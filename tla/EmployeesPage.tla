---------------------------- MODULE EmployeesPage ----------------------------
(***************************************************************************)
(* The employees page of the back office and what the API keeps of each     *)
(* employee. All saves of the page share one flag, a reset of a password    *)
(* has its own; the page keeps the temporary password of the last reset.    *)
(***************************************************************************)
EXTENDS Naturals, FiniteSets

CONSTANTS
    Staff,      \* employees there at the start or added, whose passwords the
                \* administrator may reset
    Loads,      \* loads in flight at a time
    MaxResets,  \* bound: passwords given
    MaxSubmits  \* bound: saves, resets and refreshes

VARIABLES
    employees,  \* the server's: [there, active, site: whether one is assigned]
    password,   \* the server's: which of the passwords given an employee has
    foreign,    \* history: the employees whose password others changed last
    rows,       \* the employees listed
    showForm, assigning, selected,  \* the form, worksiteEmployee, selectedWorksiteId
    saving,     \* the save in flight, or NoSave
    resets,     \* the resets in flight: set of [of, step, password]
    resetting,  \* resettingEmployeeId
    credential, \* temporaryCredential
    loads, loading,  \* the loads in flight, with what was read, and the page's flag
    given, submits

employeeVars == <<employees, password, foreign, rows, showForm, assigning, selected, saving,
                  resets, resetting, credential, loads, loading, given, submits>>

Nobody       == "nobody"
NoSave       == [step |-> "none"]
NoCredential == [of |-> Nobody]
NoLoad       == [at |-> "none"]
Asked        == [at |-> "asked"]
Employee     == [there : BOOLEAN, active : BOOLEAN, site : BOOLEAN]
Saves        == [step : {"asked", "done"}, kind : {"create", "status", "worksite"},
                 of : Staff, value : BOOLEAN] \cup [step : {"reload"}, load : Loads]

EmployeesTypeOK ==
    /\ employees \in [Staff -> Employee] /\ password \in [Staff -> 0..MaxResets]
    /\ foreign \subseteq Staff
    /\ rows \in [Staff -> Employee] /\ showForm \in BOOLEAN
    /\ assigning \in Staff \cup {Nobody} /\ selected \in BOOLEAN
    /\ saving \in Saves \cup {NoSave}
    /\ resets \subseteq [of : Staff, step : {"asked", "done", "failed"}, password : 0..MaxResets]
    /\ resetting \in Staff \cup {Nobody}
    /\ credential \in [of : Staff, password : 0..MaxResets] \cup {NoCredential}
    /\ loads \in [Loads -> [at : {"read"}, rows : [Staff -> Employee]] \cup {Asked, NoLoad}]
    /\ loading \in BOOLEAN /\ given \in 0..MaxResets /\ submits \in 0..MaxSubmits

EmployeesInit ==
    /\ employees \in [Staff -> [there : BOOLEAN, active : {TRUE}, site : {FALSE}]]
    /\ password = [e \in Staff |-> 0] /\ foreign = {}
    /\ rows = [e \in Staff |-> [there |-> FALSE, active |-> TRUE, site |-> FALSE]]
    /\ showForm = FALSE /\ assigning = Nobody /\ selected = FALSE
    /\ saving = NoSave /\ resets = {} /\ resetting = Nobody /\ credential = NoCredential
    /\ LET l == CHOOSE l \in Loads : TRUE IN loads = [[k \in Loads |-> NoLoad] EXCEPT ![l] = Asked]
    /\ loading = TRUE /\ given = 0 /\ submits = 0

Act == submits < MaxSubmits /\ submits' = submits + 1

Server == <<employees, password, foreign>>
Loading == <<loads, loading>>
Page   == <<showForm, assigning, selected>>

\* load()
StartLoad(l) == loads[l] = NoLoad /\ loads' = [loads EXCEPT ![l] = Asked] /\ loading' = TRUE

---------------------------------------------------------------------------
(* Lists, forms and saves. *)

Listed(e) == ~loading /\ rows[e].there

\* mutant: the buttons of the rows are not disabled during a reset
RowButtonsSaving(e) == Listed(e) /\ saving = NoSave

\* The three buttons of a row.
RowButtons(e) == Listed(e) /\ saving = NoSave /\ resetting = Nobody

ToggleForm ==
    /\ showForm' = ~showForm
    /\ UNCHANGED <<Server, rows, assigning, selected, saving, resets, resetting, credential,
                   Loading, given, submits>>

startWorksiteAssignment(e) ==
    /\ RowButtons(e) /\ assigning' = e /\ selected' = rows[e].site
    /\ UNCHANGED <<Server, rows, showForm, saving, resets, resetting, credential, Loading, given,
                   submits>>

Select ==
    /\ assigning # Nobody /\ selected' = ~selected
    /\ UNCHANGED <<Server, rows, showForm, assigning, saving, resets, resetting, credential,
                   Loading, given, submits>>

CancelAssignment ==
    /\ assigning # Nobody /\ saving = NoSave /\ assigning' = Nobody
    /\ UNCHANGED <<Server, rows, showForm, selected, saving, resets, resetting, credential,
                   Loading, given, submits>>

\* submit, setActive and assignWorksite
Save(kind, e) ==
    /\ Act /\ saving = NoSave
    /\ CASE kind = "create"   -> showForm /\ ~employees[e].there
         [] kind = "status"   -> RowButtons(e)
         [] kind = "worksite" -> assigning = e
    /\ \E value \in BOOLEAN :
           /\ kind = "status" => value = ~rows[e].active
           /\ kind = "worksite" => value = selected
           /\ saving' = [step |-> "asked", kind |-> kind, of |-> e, value |-> value]
    /\ UNCHANGED <<Server, rows, Page, resets, resetting, credential, Loading, given>>

\* createEmployee, updateEmployeeStatus and updateEmployeeWorksite
SaveAtServer ==
    /\ saving.step = "asked" /\ saving' = [saving EXCEPT !.step = "done"]
    /\ employees' =
           [employees EXCEPT ![saving.of] =
               CASE saving.kind = "create"   ->
                        [there |-> TRUE, active |-> TRUE, site |-> saving.value]
                 [] saving.kind = "status"   -> [@ EXCEPT !.active = saving.value]
                 [] saving.kind = "worksite" -> [@ EXCEPT !.site = saving.value]]
    /\ UNCHANGED <<password, foreign, rows, Page, resets, resetting, credential, Loading, given,
                   submits>>

\* The answer closes its form and loads; a failure, before or after the effect,
\* leaves the page as it is.
Saved ==
    \/ /\ saving.step = "done"
       /\ \E l \in Loads : StartLoad(l) /\ saving' = [step |-> "reload", load |-> l]
       /\ showForm' = (showForm /\ saving.kind # "create")
       /\ assigning' = IF saving.kind = "worksite" THEN Nobody ELSE assigning
       /\ selected' = (selected /\ saving.kind # "worksite")
       /\ UNCHANGED <<Server, rows, resets, resetting, credential, given, submits>>
    \/ /\ saving.step \in {"asked", "done"} /\ saving' = NoSave
       /\ UNCHANGED <<Server, rows, Page, resets, resetting, credential, Loading, given, submits>>

Refresh ==
    /\ Act /\ \E l \in Loads : StartLoad(l)
    /\ UNCHANGED <<Server, rows, Page, saving, resets, resetting, credential, given>>

ReadStaff(l) ==
    /\ loads[l] = Asked /\ loads' = [loads EXCEPT ![l] = [at |-> "read", rows |-> employees]]
    /\ UNCHANGED <<Server, rows, Page, saving, resets, resetting, credential, loading, given,
                   submits>>

\* A load ends, with its list or without, and with it the save that waits for it.
Loaded(l) ==
    /\ loads[l] # NoLoad /\ loads' = [loads EXCEPT ![l] = NoLoad] /\ loading' = FALSE
    /\ rows' \in {rows} \cup (IF loads[l] = Asked THEN {} ELSE {loads[l].rows})
    /\ saving' = IF saving.step = "reload" /\ saving.load = l THEN NoSave ELSE saving
    /\ UNCHANGED <<Server, Page, resets, resetting, credential, given, submits>>

---------------------------------------------------------------------------
(* Temporary passwords. *)

\* sendPasswordReset, confirmed
Reset(e) ==
    /\ Act /\ RowButtons(e)
    /\ credential' = NoCredential /\ resetting' = e
    /\ resets' = resets \cup {[of |-> e, step |-> "asked", password |-> 0]}
    /\ UNCHANGED <<Server, rows, Page, saving, Loading, given>>

\* resetEmployeePassword: Supabase takes the new password first; when the
\* employee's row cannot be written then, the answer is an error.
ResetAtServer(r) ==
    /\ r.step = "asked" /\ given < MaxResets /\ given' = given + 1
    /\ password' = [password EXCEPT ![r.of] = given']
    /\ foreign' = foreign \ {r.of}
    /\ \E step \in {"done", "failed"} :
           resets' = (resets \ {r}) \cup {[r EXCEPT !.step = step, !.password = given']}
    /\ UNCHANGED <<employees, rows, Page, saving, resetting, credential, Loading, submits>>

\* The answer, or a failure at any point.
ResetAnswered(r) ==
    /\ resets' = resets \ {r} /\ resetting' = Nobody
    /\ \/ r.step = "done" /\ credential' = [of |-> r.of, password |-> r.password]
       \/ UNCHANGED credential
    /\ UNCHANGED <<Server, rows, Page, saving, Loading, given, submits>>

CloseCredential ==
    /\ credential # NoCredential /\ credential' = NoCredential
    /\ UNCHANGED <<Server, rows, Page, saving, resets, resetting, Loading, given, submits>>

\* The employee chooses a password, another administrator resets it, or a reset
\* the browser has given up is served after all.
Others(e) ==
    /\ given < MaxResets /\ given' = given + 1
    /\ password' = [password EXCEPT ![e] = given'] /\ foreign' = foreign \cup {e}
    /\ UNCHANGED <<employees, rows, Page, saving, resets, resetting, credential, Loading, submits>>

EmployeesNext ==
    \/ ToggleForm \/ Select \/ CancelAssignment \/ SaveAtServer \/ Saved \/ Refresh
    \/ CloseCredential
    \/ \E e \in Staff :
           \/ startWorksiteAssignment(e) \/ Reset(e) \/ Others(e)
           \/ \E kind \in {"create", "status", "worksite"} : Save(kind, e)
    \/ \E l \in Loads : ReadStaff(l) \/ Loaded(l)
    \/ \E r \in resets : ResetAtServer(r) \/ ResetAnswered(r)

EmployeesSpec == EmployeesInit /\ [][EmployeesNext]_employeeVars

---------------------------------------------------------------------------
\* The temporary password on show is the one its employee signs in with, until
\* someone else changes it: whatever order resets are served and answered in,
\* and although a reset may fail after the password was changed.
CredentialIsCurrent ==
    credential # NoCredential /\ credential.of \notin foreign =>
        credential.password = password[credential.of]
=============================================================================
