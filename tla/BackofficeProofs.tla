-------------------------- MODULE BackofficeProofs --------------------------
(***************************************************************************)
(* Proofs about Backoffice, for any roles, sites, staff, notifications and  *)
(* any number of calls, paths and loads.                                    *)
(*                                                                         *)
(* Each part of the tab has an invariant of its own, which its steps keep;  *)
(* they hold together because the parts share no variable:                  *)
(*   SitesInv   a form, on the page or on its way, is typed for where it is *)
(*              to go;                                                      *)
(*   StaffInv   one reset at a time, and nothing on show while it lasts;    *)
(*   MenuInv    only the last fetch is active, and what it was told is no   *)
(*              older than what the menu has shown;                         *)
(*   PanelInv   a call that nothing overlapped knows the notes of now;      *)
(*   AccessInv  a navigation that nothing disturbed knows the session and   *)
(*              the account of now, and the frame on show is theirs or is   *)
(*              about to be replaced.                                       *)
(***************************************************************************)
EXTENDS Backoffice, Integers, TLAPS, FiniteSetTheorems, SequenceTheorems

LEMMA Appended ==
    ASSUME NEW S, NEW n \in Nat, NEW f \in [1..n -> S], NEW e \in S
    PROVE  /\ Append(f, e) \in Seq(S) /\ Len(Append(f, e)) = n + 1
           /\ \A i \in 1..n : Append(f, e)[i] = f[i]
           /\ Append(f, e)[n + 1] = e
<1>1. f \in Seq(S) /\ Len(f) = n BY SeqDef
<1> QED BY <1>1


\* The shell counts with the Cardinality of its own module, the same.
LEMMA SameCardinality == ASSUME NEW S PROVE Shell!Cardinality(S) = Cardinality(S)
BY DEF Shell!Cardinality, Cardinality
---------------------------------------------------------------------------
(* The worksites page. *)

\* Whose fields a form must hold when it is sent to a site, or to none yet.
TypedFor(id) == IF id = Worksites!NoSite THEN Worksites!Blank ELSE id

\* The form on the page and the one being saved hold the fields of the site they
\* will be sent to.
SitesInv ==
    /\ Worksites!WorksitesTypeOK
    /\ positions <= actions
    /\ form.from = TypedFor(editingId)
    /\ siteSaving.step = "asked" => siteSaving.form.from = TypedFor(siteSaving.id)
    /\ Worksites!FormSavesItsSite

LEMMA SitesStart == BackofficeInit => SitesInv
<1> SUFFICES ASSUME Worksites!WorksitesInit PROVE SitesInv BY DEF BackofficeInit
<1> USE BackofficeAssumption DEF Worksites!WorksitesInit, Worksites!emptyForm, Worksites!Blank,
        Worksites!NoSite, Worksites!Idle, Worksites!Forms, Worksites!Saves
<1>1. held \in [Sites -> Sites \cup {"blank", "absent"}] /\ Worksites!FormSavesItsSite
  BY DEF Worksites!FormSavesItsSite
<1>2. siteLoads \in [Loads -> [at : {"asked", "read"}, rows : SUBSET Sites] \cup {Worksites!NoLoad}]
  <2>1. Worksites!Asked \in [at : {"asked", "read"}, rows : SUBSET Sites] BY DEF Worksites!Asked
  <2> QED BY <2>1
<1>3. form \in Worksites!Forms /\ form.from = "blank" OBVIOUS
<1>4. /\ added = {} /\ siteRows = {} /\ editingId = "none" /\ siteForm = FALSE /\ map = "none"
      /\ siteSaving = Worksites!Idle /\ siteLoading = TRUE /\ locating = FALSE
      /\ positions = 0 /\ actions = 0
  OBVIOUS
<1> HIDE DEF Worksites!WorksitesInit
<1>5. /\ held \in [Sites -> Sites \cup {Worksites!Blank, "absent"}]
      /\ siteSaving \in {Worksites!Idle}
      /\ positions \in 0..MaxActions /\ actions \in 0..MaxActions
  BY <1>1, <1>4
<1>6. /\ added \subseteq Sites /\ siteRows \subseteq Sites
      /\ editingId \in Sites \cup {Worksites!NoSite} /\ siteForm \in BOOLEAN
      /\ map \in {"none", "importing", "ready"} /\ (map = "none" <=> ~siteForm)
      /\ siteLoading \in BOOLEAN /\ locating \in BOOLEAN
  BY <1>4
<1>7. Worksites!WorksitesTypeOK
  BY <1>2, <1>3, <1>5, <1>6 DEF Worksites!WorksitesTypeOK
<1> QED BY <1>1, <1>3, <1>4, <1>7 DEF SitesInv, TypedFor

\* Opening, closing and filling the form.
LEMMA FormStepKeepsSites ==
    ASSUME SitesInv,
           \/ Worksites!Add \/ Worksites!Cancel \/ Worksites!MapReady \/ Worksites!ClickMap
           \/ Worksites!useCurrentLocation \/ Worksites!Position
           \/ \E site \in Sites : Worksites!startEdit(site)
    PROVE  SitesInv'
<1> USE BackofficeAssumption DEF SitesInv, TypedFor, Worksites!WorksitesTypeOK,
        Worksites!FormSavesItsSite, Worksites!Blank, Worksites!NoSite, Worksites!emptyForm
<1>1. CASE Worksites!Add BY <1>1 DEF Worksites!Add, Worksites!Opened
<1>2. CASE Worksites!Cancel
  BY <1>2 DEF Worksites!Cancel, Worksites!closeForm, Worksites!Forms
<1>3. CASE Worksites!MapReady BY <1>3 DEF Worksites!MapReady
<1>4. CASE Worksites!ClickMap
  BY <1>4 DEF Worksites!ClickMap, Worksites!Forms
<1>5. CASE Worksites!useCurrentLocation
  BY <1>5 DEF Worksites!useCurrentLocation, Worksites!Act
<1>6. CASE Worksites!Position
  <2>1. form' \in Worksites!Forms /\ form'.from = form.from
    BY <1>6 DEF Worksites!Position, Worksites!Forms
  <2>2. positions' \in 0..MaxActions /\ positions' <= actions' BY <1>6 DEF Worksites!Position
  <2> QED BY <1>6, <2>1, <2>2 DEF Worksites!Position
<1>7. CASE \E site \in Sites : Worksites!startEdit(site)
  BY <1>7 DEF Worksites!startEdit, Worksites!Opened, Worksites!Forms
<1> QED BY <1>1, <1>2, <1>3, <1>4, <1>5, <1>6, <1>7

\* A save takes the fields of the form to the site they were typed for.
LEMMA SaveStepKeepsSites ==
    ASSUME SitesInv,
           Worksites!Submit \/ Worksites!SaveAtServer \/ Worksites!Saved
    PROVE  SitesInv'
<1> USE BackofficeAssumption DEF SitesInv, TypedFor, Worksites!WorksitesTypeOK,
        Worksites!FormSavesItsSite, Worksites!Blank, Worksites!NoSite, Worksites!emptyForm,
        Worksites!Saves, Worksites!Idle
<1>1. CASE Worksites!Submit BY <1>1 DEF Worksites!Submit, Worksites!Act
<1>2. CASE Worksites!SaveAtServer
  BY <1>2 DEF Worksites!SaveAtServer, Worksites!Present, Worksites!Forms
<1>3. CASE Worksites!Saved
  <2>1. CASE /\ siteSaving' = Worksites!Idle
             /\ UNCHANGED <<held, added, siteRows, form, editingId, siteForm, map, siteLoads,
                            siteLoading, locating, positions, actions>>
    BY <2>1
  <2>2. ASSUME NEW l \in Loads,
               Worksites!closeForm /\ Worksites!StartLoad(l),
               siteSaving' = [step |-> "reload", load |-> l],
               UNCHANGED <<held, added, siteRows, locating, positions, actions>>
        PROVE  SitesInv'
    <3>1. form' \in Worksites!Forms /\ form'.from = "blank" /\ editingId' = "none"
      BY <2>2 DEF Worksites!closeForm, Worksites!Forms
    <3>2. siteLoads' \in [Loads -> [at : {"asked", "read"}, rows : SUBSET Sites]
                                   \cup {Worksites!NoLoad}]
      BY <2>2 DEF Worksites!StartLoad, Worksites!Asked
    <3>3. siteSaving' \in Worksites!Saves /\ siteSaving'.step # "asked" BY <2>2
    <3> QED BY <2>2, <3>1, <3>2, <3>3 DEF Worksites!closeForm, Worksites!StartLoad
  <2> QED BY <1>3, <2>1, <2>2 DEF Worksites!Saved
<1> QED BY <1>1, <1>2, <1>3

LEMMA LoadStepKeepsSites ==
    ASSUME SitesInv,
           Worksites!Refresh \/ \E l \in Loads : Worksites!ReadSites(l) \/ Worksites!Loaded(l)
    PROVE  SitesInv'
<1> USE BackofficeAssumption DEF SitesInv, TypedFor, Worksites!WorksitesTypeOK,
        Worksites!FormSavesItsSite, Worksites!Blank, Worksites!NoSite,
        Worksites!Saves, Worksites!Idle
<1>1. CASE Worksites!Refresh
  BY <1>1 DEF Worksites!Refresh, Worksites!Act, Worksites!StartLoad, Worksites!Asked
<1>2. ASSUME NEW l \in Loads, Worksites!ReadSites(l) PROVE SitesInv'
  BY <1>2 DEF Worksites!ReadSites, Worksites!Present, Worksites!NoLoad
<1>3. ASSUME NEW l \in Loads, Worksites!Loaded(l) PROVE SitesInv'
  <2>1. siteRows' \subseteq Sites
    <3>1. CASE siteRows' = siteRows BY <3>1
    <3>2. CASE siteLoads[l].at = "read" /\ siteRows' = siteLoads[l].rows
      BY <1>3, <3>2 DEF Worksites!Loaded
    <3> QED BY <1>3, <3>1, <3>2 DEF Worksites!Loaded
  <2>2. siteSaving' \in {siteSaving, Worksites!Idle} BY <1>3 DEF Worksites!Loaded
  <2>3. siteLoads' \in [Loads -> [at : {"asked", "read"}, rows : SUBSET Sites]
                                 \cup {Worksites!NoLoad}]
    BY <1>3 DEF Worksites!Loaded
  <2> QED BY <1>3, <2>1, <2>2, <2>3 DEF Worksites!Loaded
<1> QED BY <1>1, <1>2, <1>3

LEMMA SitesStep == SitesInv /\ [Worksites!WorksitesNext]_worksites => SitesInv'
<1> SUFFICES ASSUME SitesInv, [Worksites!WorksitesNext]_worksites PROVE SitesInv' OBVIOUS
<1>1. CASE UNCHANGED worksites
  BY <1>1 DEF worksites, SitesInv, TypedFor, Worksites!WorksitesTypeOK, Worksites!FormSavesItsSite
<1>2. CASE Worksites!WorksitesNext
  BY <1>2, FormStepKeepsSites, SaveStepKeepsSites, LoadStepKeepsSites DEF Worksites!WorksitesNext
<1> QED BY <1>1, <1>2

---------------------------------------------------------------------------
(* The employees page. *)

\* There is at most one reset in flight, no password is on show meanwhile, and a
\* reset that was served holds the password of its employee.
StaffInv ==
    /\ Employees!EmployeesTypeOK
    /\ resetting = Employees!Nobody => resets = {}
    /\ \A r, t \in resets : r = t
    /\ resets # {} => credential = Employees!NoCredential
    /\ \A r \in resets :
           r.step = "done" /\ r.of \notin foreign => r.password = password[r.of]
    /\ Employees!CredentialIsCurrent

LEMMA StaffStart == BackofficeInit => StaffInv
<1> SUFFICES ASSUME Employees!EmployeesInit PROVE StaffInv BY DEF BackofficeInit
<1> USE BackofficeAssumption DEF Employees!EmployeesInit, Employees!NoSave,
        Employees!NoCredential, Employees!Nobody
<1>1. /\ employees \in [Staff -> Employees!Employee] /\ rows \in [Staff -> Employees!Employee]
      /\ password \in [Staff -> 0..MaxResets]
  <2>1. [there : BOOLEAN, active : {TRUE}, site : {FALSE}] \subseteq Employees!Employee
    BY DEF Employees!Employee
  <2>2. [there |-> FALSE, active |-> TRUE, site |-> FALSE] \in Employees!Employee
    BY DEF Employees!Employee
  <2>3. employees \in [Staff -> Employees!Employee] BY <2>1
  <2>4. rows \in [Staff -> Employees!Employee] BY <2>2
  <2>5. password \in [Staff -> 0..MaxResets] OBVIOUS
  <2> QED BY <2>3, <2>4, <2>5
<1>2. staffLoads \in [Loads -> [at : {"read"}, rows : [Staff -> Employees!Employee]]
                               \cup {Employees!Asked, Employees!NoLoad}]
  OBVIOUS
<1>3. /\ foreign = {} /\ showForm = FALSE /\ assigning = "nobody" /\ selected = FALSE
      /\ saving = Employees!NoSave /\ resets = {} /\ resetting = "nobody"
      /\ credential = Employees!NoCredential /\ staffLoading = TRUE
      /\ given = 0 /\ submits = 0
  OBVIOUS
<1> HIDE DEF Employees!EmployeesInit
<1>4. given \in 0..MaxResets /\ submits \in 0..MaxResets BY <1>3
<1>5. Employees!EmployeesTypeOK BY <1>1, <1>2, <1>3, <1>4 DEF Employees!EmployeesTypeOK
<1> QED BY <1>3, <1>5 DEF StaffInv, Employees!CredentialIsCurrent

\* What leaves the passwords and the resets alone.
LEMMA RestKeepsStaff ==
    ASSUME StaffInv, Employees!EmployeesTypeOK',
           UNCHANGED <<password, foreign, resets, resetting>>,
           credential' \in {credential, Employees!NoCredential}
    PROVE  StaffInv'
BY DEF StaffInv, Employees!CredentialIsCurrent

LEMMA PageStepKeepsStaff ==
    ASSUME StaffInv,
           \/ Employees!ToggleForm \/ Employees!Select \/ Employees!CancelAssignment
           \/ Employees!CloseCredential
           \/ \E e \in Staff : Employees!startWorksiteAssignment(e)
    PROVE  StaffInv'
<1> USE DEF Employees!EmployeesTypeOK, Employees!Server, Employees!Loading, Employees!Page
<1>0. Employees!EmployeesTypeOK BY DEF StaffInv
<1>1. CASE Employees!ToggleForm
  BY <1>0, <1>1, RestKeepsStaff DEF Employees!ToggleForm
<1>2. CASE Employees!Select
  BY <1>0, <1>2, RestKeepsStaff DEF Employees!Select
<1>3. CASE Employees!CancelAssignment
  BY <1>0, <1>3, RestKeepsStaff DEF Employees!CancelAssignment
<1>4. CASE Employees!CloseCredential
  BY <1>0, <1>4, RestKeepsStaff DEF Employees!CloseCredential
<1>5. ASSUME NEW e \in Staff, Employees!startWorksiteAssignment(e) PROVE StaffInv'
  <2>1. rows[e].site \in BOOLEAN BY <1>0 DEF Employees!Employee
  <2> QED BY <1>0, <1>5, <2>1, RestKeepsStaff DEF Employees!startWorksiteAssignment
<1> QED BY <1>1, <1>2, <1>3, <1>4, <1>5

LEMMA SaveStepKeepsStaff ==
    ASSUME StaffInv,
           \/ \E e \in Staff, kind \in {"create", "status", "worksite"} : Employees!Save(kind, e)
           \/ Employees!SaveAtServer \/ Employees!Saved
    PROVE  StaffInv'
<1> USE BackofficeAssumption DEF Employees!EmployeesTypeOK, Employees!Server, Employees!Loading,
        Employees!Page, Employees!Saves, Employees!NoSave
<1>0. Employees!EmployeesTypeOK BY DEF StaffInv
<1>1. ASSUME NEW e \in Staff, NEW kind \in {"create", "status", "worksite"},
             Employees!Save(kind, e)
      PROVE  StaffInv'
  BY <1>0, <1>1, RestKeepsStaff DEF Employees!Save, Employees!Act
<1>2. CASE Employees!SaveAtServer
  <2>1. saving \in [step : {"asked"}, kind : {"create", "status", "worksite"}, of : Staff,
                    value : BOOLEAN]
    BY <1>0, <1>2 DEF Employees!SaveAtServer
  <2>2. saving' \in Employees!Saves BY <1>2, <2>1 DEF Employees!SaveAtServer
  <2>3. employees' \in [Staff -> Employees!Employee]
    BY <1>0, <1>2, <2>1 DEF Employees!SaveAtServer, Employees!Employee
  <2> QED BY <1>0, <1>2, <2>2, <2>3, RestKeepsStaff DEF Employees!SaveAtServer
<1>3. CASE Employees!Saved
  <2>1. CASE /\ saving' = Employees!NoSave
             /\ UNCHANGED <<Employees!Server, rows, Employees!Page, resets, resetting, credential,
                            Employees!Loading, given, submits>>
    BY <1>0, <2>1, RestKeepsStaff
  <2>2. ASSUME NEW l \in Loads,
               Employees!StartLoad(l) /\ saving' = [step |-> "reload", load |-> l],
               showForm' = (showForm /\ saving.kind # "create"),
               assigning' = IF saving.kind = "worksite" THEN Employees!Nobody ELSE assigning,
               selected' = (selected /\ saving.kind # "worksite"),
               UNCHANGED <<Employees!Server, rows, resets, resetting, credential, given, submits>>
        PROVE  StaffInv'
    <3>1. staffLoads' \in [Loads -> [at : {"read"}, rows : [Staff -> Employees!Employee]]
                                    \cup {Employees!Asked, Employees!NoLoad}]
      BY <1>0, <2>2 DEF Employees!StartLoad
    <3>2. showForm' \in BOOLEAN /\ selected' \in BOOLEAN BY <2>2
    <3>3. assigning' \in Staff \cup {Employees!Nobody} BY <1>0, <2>2
    <3>4. saving' \in Employees!Saves BY <2>2
    <3> QED BY <1>0, <2>2, <3>1, <3>2, <3>3, <3>4, RestKeepsStaff DEF Employees!StartLoad
  <2> QED BY <1>3, <2>1, <2>2 DEF Employees!Saved
<1> QED BY <1>1, <1>2, <1>3

LEMMA LoadStepKeepsStaff ==
    ASSUME StaffInv,
           Employees!Refresh \/ \E l \in Loads : Employees!ReadStaff(l) \/ Employees!Loaded(l)
    PROVE  StaffInv'
<1> USE BackofficeAssumption DEF Employees!EmployeesTypeOK, Employees!Server, Employees!Loading,
        Employees!Page
<1>0. Employees!EmployeesTypeOK BY DEF StaffInv
<1>1. CASE Employees!Refresh
  BY <1>0, <1>1, RestKeepsStaff DEF Employees!Refresh, Employees!Act, Employees!StartLoad
<1>2. ASSUME NEW l \in Loads, Employees!ReadStaff(l) PROVE StaffInv'
  BY <1>0, <1>2, RestKeepsStaff DEF Employees!ReadStaff
<1>3. ASSUME NEW l \in Loads, Employees!Loaded(l) PROVE StaffInv'
  <2>1. rows' \in [Staff -> Employees!Employee] BY <1>0, <1>3 DEF Employees!Loaded
  <2>2. saving' \in {saving, Employees!NoSave} BY <1>3 DEF Employees!Loaded
  <2> QED BY <1>0, <1>3, <2>1, <2>2, RestKeepsStaff DEF Employees!Loaded
<1> QED BY <1>1, <1>2, <1>3

\* The passwords: a reset begins when none is in flight, is served and is answered,
\* and others change passwords.
LEMMA ResetStepKeepsStaff ==
    ASSUME StaffInv,
           \/ \E e \in Staff : Employees!Reset(e) \/ Employees!Others(e)
           \/ \E r \in resets : Employees!ResetAtServer(r) \/ Employees!ResetAnswered(r)
    PROVE  StaffInv'
<1> USE BackofficeAssumption DEF StaffInv, Employees!EmployeesTypeOK, Employees!Server,
        Employees!Loading, Employees!Page, Employees!CredentialIsCurrent, Employees!Nobody
<1>1. ASSUME NEW e \in Staff, Employees!Reset(e) PROVE StaffInv'
  <2>1. resets' = {[of |-> e, step |-> "asked", password |-> 0]}
    BY <1>1 DEF Employees!Reset, Employees!RowButtons
  <2> QED BY <1>1, <2>1 DEF Employees!Reset, Employees!Act
<1>2. ASSUME NEW e \in Staff, Employees!Others(e) PROVE StaffInv'
  BY <1>2 DEF Employees!Others
<1>3. ASSUME NEW r \in resets, Employees!ResetAtServer(r) PROVE StaffInv'
  <2>1. PICK step \in {"done", "failed"} :
            resets' = (resets \ {r}) \cup {[r EXCEPT !.step = step, !.password = given']}
    BY <1>3 DEF Employees!ResetAtServer
  <2>2. resets = {r} /\ credential = Employees!NoCredential /\ resetting # "nobody" OBVIOUS
  <2>3. r \in [of : Staff, step : {"asked", "done", "failed"}, password : 0..MaxResets] OBVIOUS
  <2>4. [r EXCEPT !.step = step, !.password = given']
            = [of |-> r.of, step |-> step, password |-> given']
    <3>1. PICK half : half = [r EXCEPT !.step = step] OBVIOUS
    <3>2. half = [of |-> r.of, step |-> step, password |-> r.password] BY <2>3, <3>1
    <3>3. [half EXCEPT !.password = given']
              = [of |-> r.of, step |-> step, password |-> given']
      BY <3>2
    <3> QED BY <3>1, <3>3
  <2>5. resets' = {[of |-> r.of, step |-> step, password |-> given']} BY <2>1, <2>2, <2>4
  <2> QED BY <1>3, <2>2, <2>5 DEF Employees!ResetAtServer
<1>4. ASSUME NEW r \in resets, Employees!ResetAnswered(r) PROVE StaffInv'
  <2>1. resets' = {} /\ credential = Employees!NoCredential
    BY <1>4 DEF Employees!ResetAnswered
  <2> QED BY <1>4, <2>1 DEF Employees!ResetAnswered
<1> QED BY <1>1, <1>2, <1>3, <1>4

LEMMA StaffStep == StaffInv /\ [Employees!EmployeesNext]_staff => StaffInv'
<1> SUFFICES ASSUME StaffInv, [Employees!EmployeesNext]_staff PROVE StaffInv' OBVIOUS
<1>1. CASE UNCHANGED staff
  BY <1>1 DEF staff, StaffInv, Employees!EmployeesTypeOK, Employees!CredentialIsCurrent
<1>2. CASE Employees!EmployeesNext
  BY <1>2, PageStepKeepsStaff, SaveStepKeepsStaff, LoadStepKeepsStaff, ResetStepKeepsStaff
  DEF Employees!EmployeesNext
<1> QED BY <1>1, <1>2

---------------------------------------------------------------------------
(* The menu of the shell. *)

FetchRow == [active : BOOLEAN, token : BOOLEAN,
             got : [Shell!Lists -> Shell!Unanswered..MaxOthers]]

\* Only the last fetch is active, and what it was answered is at least as new as
\* what the menu has shown.
FetchOK(f) ==
    fetches[f].active =>
        /\ f = Len(fetches)
        /\ \A p \in Shell!Lists :
               fetches[f].got[p] # Shell!Unanswered =>
                   seen[p] <= fetches[f].got[p] /\ fetches[f].got[p] <= lists[p]

MenuInv ==
    /\ lists \in Shell!Counts /\ seen \in Shell!Counts
    /\ pathname \in Shell!Paths /\ menuOpen \in BOOLEAN
    /\ fetches \in Seq(FetchRow \cup {Shell!Ended}) /\ Len(fetches) \in 1..MaxPaths
    /\ \A f \in DOMAIN fetches : fetches[f] # Shell!Ended => FetchOK(f)
    /\ \A p \in Shell!Lists : seen[p] <= lists[p]
    /\ navCounts \in {Shell!NoCounts, seen}

\* Counts shown now are at least as new as those shown last.
Newer == navCounts' # Shell!NoCounts => \A p \in Shell!Lists : navCounts'[p] >= seen[p]

LEMMA MenuStart == BackofficeInit => MenuInv
<1> SUFFICES ASSUME Shell!ShellInit PROVE MenuInv BY DEF BackofficeInit
<1> USE BackofficeAssumption DEF Shell!ShellInit
<1>1. lists \in Shell!Counts /\ seen \in Shell!Counts /\ \A p \in Shell!Lists : seen[p] <= lists[p]
  BY DEF Shell!Counts
<1>2. Shell!Fetch(FALSE) \in FetchRow
  BY DEF Shell!Fetch, FetchRow, Shell!NoCounts, Shell!Unanswered
<1>3. fetches \in Seq(FetchRow \cup {Shell!Ended}) /\ Len(fetches) = 1 /\ DOMAIN fetches = {1}
      /\ fetches[1] = Shell!Fetch(FALSE)
  <2>1. PICK row : row = Shell!Fetch(FALSE) OBVIOUS
  <2>2. fetches = <<row>> /\ row \in FetchRow \cup {Shell!Ended} BY <1>2, <2>1
  <2> HIDE DEF Shell!ShellInit
  <2>3. PICK one : one = <<row>> OBVIOUS
  <2>4. one \in Seq(FetchRow \cup {Shell!Ended}) BY <2>2, <2>3
  <2>5. Len(one) = 1 /\ one[1] = row BY <2>3
  <2>6. DOMAIN one = {1} BY <2>4, <2>5, LenProperties
  <2> QED BY <2>1, <2>2, <2>3, <2>4, <2>5, <2>6
<1>4. FetchOK(1) BY <1>3 DEF FetchOK, Shell!Fetch, Shell!NoCounts
<1>5. pathname \in Shell!Paths /\ menuOpen \in BOOLEAN /\ navCounts = Shell!NoCounts OBVIOUS
<1>6. 1 \in 1..MaxPaths OBVIOUS
<1> HIDE DEF Shell!ShellInit
<1> QED BY <1>1, <1>3, <1>4, <1>5, <1>6 DEF MenuInv

LEMMA MenuTypes ==
    ASSUME MenuInv
    PROVE  /\ DOMAIN fetches = 1..Len(fetches) /\ Len(fetches) \in Nat
           /\ \A f \in DOMAIN fetches : fetches[f] \in FetchRow \cup {Shell!Ended}
           /\ \A p \in Shell!Lists : seen[p] \in Int /\ lists[p] \in 0..MaxOthers
           /\ \A c \in {navCounts} : c # Shell!NoCounts => \A p \in Shell!Lists : c[p] >= seen[p]
BY ElementOfSeq, LenProperties DEF MenuInv, Shell!Counts

\* A path is opened: the last fetch is dropped and another takes its place.
LEMMA OpenPathKeepsMenu ==
    ASSUME MenuInv, NEW path \in Shell!Paths, Shell!OpenPath(path),
           UNCHANGED <<lists, navCounts, seen>>
    PROVE  MenuInv' /\ Newer
<1>1. Newer BY MenuTypes DEF Newer
<1>2. CASE path = pathname
  <2>1. UNCHANGED <<pathname, menuOpen, fetches>> BY <1>2 DEF Shell!OpenPath
  <2> QED BY <1>1, <2>1 DEF MenuInv, FetchOK
<1>3. CASE path # pathname
  <2> DEFINE kept == [f \in 1..Len(fetches) |->
                          IF fetches[f] = Shell!Ended THEN Shell!Ended
                          ELSE [fetches[f] EXCEPT !.active = FALSE]]
             n    == Len(fetches)
  <2>1. /\ pathname' = path /\ menuOpen' = FALSE /\ n < MaxPaths
        /\ fetches' = Append(kept, Shell!Fetch(TRUE))
    BY <1>3, MenuTypes DEF Shell!OpenPath
  <2>2. n \in Nat /\ n + 1 \in 1..MaxPaths
    BY <2>1, MenuTypes, BackofficeAssumption DEF MenuInv
  <2>3. ASSUME NEW f \in 1..n
        PROVE  /\ kept[f] \in FetchRow \cup {Shell!Ended}
               /\ kept[f] # Shell!Ended => ~kept[f].active
    BY MenuTypes DEF FetchRow
  <2>4. Shell!Fetch(TRUE) \in FetchRow
    BY BackofficeAssumption DEF Shell!Fetch, FetchRow, Shell!NoCounts, Shell!Unanswered
  <2>5. kept \in [1..n -> FetchRow \cup {Shell!Ended}] BY <2>3
  <2> HIDE DEF kept, n
  <2>6. /\ fetches' \in Seq(FetchRow \cup {Shell!Ended}) /\ Len(fetches') = n + 1
        /\ \A f \in 1..n : fetches'[f] = kept[f]
        /\ fetches'[n + 1] = Shell!Fetch(TRUE)
    <3>1. PICK row, S : row = Shell!Fetch(TRUE) /\ S = FetchRow \cup {Shell!Ended} OBVIOUS
    <3>2. row \in S /\ kept \in [1..n -> S] /\ fetches' = Append(kept, row)
      BY <2>1, <2>4, <2>5, <3>1
    <3>3. /\ Append(kept, row) \in Seq(S) /\ Len(Append(kept, row)) = n + 1
          /\ \A f \in 1..n : Append(kept, row)[f] = kept[f]
          /\ Append(kept, row)[n + 1] = row
      BY <2>2, <3>2, Appended
    <3> QED BY <3>1, <3>2, <3>3
  <2>7. DOMAIN fetches' = 1..(n + 1) BY <2>6, LenProperties
  <2>8. ASSUME NEW f \in DOMAIN fetches', fetches'[f] # Shell!Ended PROVE FetchOK(f)'
    <3>1. CASE f \in 1..n BY <2>3, <2>6, <2>8, <3>1 DEF FetchOK
    <3>2. CASE f = n + 1
      BY <2>6, <3>2 DEF FetchOK, Shell!Fetch, Shell!NoCounts
    <3> QED BY <2>2, <2>7, <3>1, <3>2
  <2> QED BY <1>1, <2>1, <2>2, <2>6, <2>8 DEF MenuInv
<1> QED BY <1>2, <1>3

LEMMA ReadListKeepsMenu ==
    ASSUME MenuInv, NEW f \in DOMAIN fetches, NEW p \in Shell!Lists, Shell!ReadList(f, p)
    PROVE  MenuInv' /\ Newer
<1>1. UNCHANGED <<lists, pathname, menuOpen, navCounts, seen>> /\ fetches[f] # Shell!Ended
  BY DEF Shell!ReadList, Shell!menuVars
<1>2. PICK row : row = fetches[f] OBVIOUS
<1>3. row \in FetchRow BY <1>1, <1>2, MenuTypes
<1>4. PICK got : got = [row.got EXCEPT ![p] = lists[p]] OBVIOUS
<1>5. /\ got \in [Shell!Lists -> Shell!Unanswered..MaxOthers]
      /\ got[p] = lists[p] /\ \A q \in Shell!Lists \ {p} : got[q] = row.got[q]
  BY <1>3, <1>4, MenuTypes DEF FetchRow, Shell!Unanswered
<1>6. PICK next : next = [row EXCEPT !.got = got] OBVIOUS
<1>7. /\ next \in FetchRow /\ next.active = row.active /\ next.got = got
  BY <1>3, <1>5, <1>6 DEF FetchRow
<1>8. fetches' = [fetches EXCEPT ![f] = next]
  BY <1>2, <1>4, <1>6 DEF Shell!ReadList
<1>9. /\ fetches' \in Seq(FetchRow \cup {Shell!Ended}) /\ Len(fetches') = Len(fetches)
      /\ \A g \in DOMAIN fetches : fetches'[g] = IF g = f THEN next ELSE fetches[g]
      /\ DOMAIN fetches' = DOMAIN fetches
  BY <1>7, <1>8, MenuTypes, ExceptSeq DEF MenuInv
<1>10. ASSUME NEW g \in DOMAIN fetches', fetches'[g] # Shell!Ended PROVE FetchOK(g)'
  <2>1. CASE g = f
    <3>1. FetchOK(f) BY <1>1 DEF MenuInv
    <3>2. fetches'[g] = next /\ Len(fetches') = Len(fetches) BY <1>9, <2>1
    <3>3. CASE ~row.active BY <1>7, <3>2, <3>3 DEF FetchOK
    <3>4. CASE row.active
      <4>1. /\ f = Len(fetches)
            /\ \A q \in Shell!Lists :
                   row.got[q] # Shell!Unanswered => seen[q] <= row.got[q] /\ row.got[q] <= lists[q]
        BY <1>2, <3>1, <3>4 DEF FetchOK
      <4>2. \A q \in Shell!Lists :
                got[q] # Shell!Unanswered => seen[q] <= got[q] /\ got[q] <= lists[q]
        BY <1>5, <4>1, MenuTypes DEF MenuInv
      <4> QED BY <1>1, <1>7, <2>1, <3>2, <4>1, <4>2 DEF FetchOK
    <3> QED BY <3>3, <3>4
  <2>2. CASE g # f BY <1>1, <1>9, <1>10, <2>2 DEF FetchOK, MenuInv
  <2> QED BY <2>1, <2>2
<1> QED BY <1>1, <1>9, <1>10, MenuTypes DEF MenuInv, Newer

LEMMA ShowCountsKeepsMenu ==
    ASSUME MenuInv, NEW f \in DOMAIN fetches, Shell!ShowCounts(f)
    PROVE  MenuInv' /\ Newer
<1>1. PICK counts \in {fetches[f].got, Shell!NoCounts} :
          /\ counts \in Shell!Counts \cup {Shell!NoCounts}
          /\ navCounts' = IF fetches[f].active THEN counts ELSE navCounts
          /\ seen' = IF fetches[f].active /\ counts # Shell!NoCounts THEN counts ELSE seen
  BY DEF Shell!ShowCounts
<1>2. /\ fetches[f] # Shell!Ended /\ UNCHANGED <<lists, pathname, menuOpen>>
      /\ fetches' = [fetches EXCEPT ![f] = Shell!Ended]
  BY DEF Shell!ShowCounts
<1>3. /\ fetches' \in Seq(FetchRow \cup {Shell!Ended}) /\ Len(fetches') = Len(fetches)
      /\ \A g \in DOMAIN fetches : fetches'[g] = IF g = f THEN Shell!Ended ELSE fetches[g]
      /\ DOMAIN fetches' = DOMAIN fetches
  BY <1>2, MenuTypes, ExceptSeq DEF MenuInv
<1>4. CASE ~fetches[f].active \/ counts = Shell!NoCounts
  <2>1. seen' = seen /\ navCounts' \in {navCounts, Shell!NoCounts} BY <1>1, <1>4
  <2>2. \A g \in DOMAIN fetches' : fetches'[g] # Shell!Ended => FetchOK(g)'
    BY <1>2, <1>3, <2>1 DEF FetchOK, MenuInv
  <2> QED BY <1>2, <1>3, <2>1, <2>2, MenuTypes DEF MenuInv, Newer
<1>5. CASE fetches[f].active /\ counts # Shell!NoCounts
  <2>1. seen' = counts /\ navCounts' = counts /\ counts \in Shell!Counts
        /\ counts = fetches[f].got
    BY <1>1, <1>5
  <2>2. ASSUME NEW p \in Shell!Lists PROVE seen[p] <= counts[p] /\ counts[p] <= lists[p]
    <3>1. counts[p] # Shell!Unanswered BY <2>1 DEF Shell!Counts, Shell!Unanswered
    <3> QED BY <1>2, <1>5, <2>1, <3>1 DEF MenuInv, FetchOK
  <2>3. f = Len(fetches) BY <1>2, <1>5 DEF MenuInv, FetchOK
  <2>4. ASSUME NEW g \in DOMAIN fetches', fetches'[g] # Shell!Ended PROVE FetchOK(g)'
    <3>1. g # f /\ fetches'[g] = fetches[g] BY <1>3, <2>4
    <3>2. ~fetches[g].active BY <1>3, <2>3, <2>4, <3>1 DEF MenuInv, FetchOK
    <3> QED BY <3>1, <3>2 DEF FetchOK
  <2>5. Newer BY <2>1, <2>2, MenuTypes DEF Newer, Shell!Counts
  <2> QED BY <1>2, <1>3, <2>1, <2>2, <2>4, <2>5 DEF MenuInv
<1> QED BY <1>4, <1>5

\* What neither opens a path nor shows counts; the lists behind the counts may grow.
LEMMA RestKeepsMenu ==
    ASSUME MenuInv, UNCHANGED <<pathname, navCounts, fetches, seen>>,
           menuOpen' \in BOOLEAN, lists' \in Shell!Counts,
           \A p \in Shell!Lists : lists[p] <= lists'[p]
    PROVE  MenuInv' /\ Newer
<1>1. ASSUME NEW f \in DOMAIN fetches', fetches'[f] # Shell!Ended PROVE FetchOK(f)'
  <2>1. FetchOK(f) BY <1>1 DEF MenuInv
  <2>2. fetches[f] \in FetchRow BY <1>1, MenuTypes
  <2>3. \A p \in Shell!Lists : fetches[f].got[p] \in Int /\ lists[p] \in Int /\ lists'[p] \in Int
    BY <2>2, MenuTypes DEF FetchRow, Shell!Unanswered, Shell!Counts
  <2> QED BY <2>1, <2>3 DEF FetchOK
<1>2. \A p \in Shell!Lists : seen'[p] <= lists'[p]
  BY MenuTypes DEF MenuInv, Shell!Counts
<1>3. Newer BY MenuTypes DEF Newer
<1> QED BY <1>1, <1>2, <1>3 DEF MenuInv

LEMMA MenuStep == MenuInv /\ [Shell!ShellNext]_shell => MenuInv' /\ Newer
<1> SUFFICES ASSUME MenuInv, [Shell!ShellNext]_shell PROVE MenuInv' /\ Newer OBVIOUS
<1> USE DEF Shell!menuVars, Shell!panelVars, Shell!InMenu
<1>0. /\ \A p \in Shell!Lists : lists[p] <= lists[p]
      /\ lists \in Shell!Counts /\ menuOpen \in BOOLEAN
  BY MenuTypes DEF MenuInv
<1>1. CASE UNCHANGED shell BY <1>0, <1>1, RestKeepsMenu DEF shell, menu
<1>2. ASSUME NEW path \in Shell!Paths, Shell!FollowMenu(path) PROVE MenuInv' /\ Newer
  BY <1>2, OpenPathKeepsMenu DEF Shell!FollowMenu
<1>3. ASSUME NEW n \in Notes, Shell!ClickItem(n) PROVE MenuInv' /\ Newer
  <2>1. "/approvals" \in Shell!Paths BY DEF Shell!Paths
  <2> QED BY <1>3, <2>1, OpenPathKeepsMenu DEF Shell!ClickItem
<1>4. CASE Shell!OpenMenu \/ Shell!CloseMenu \/ Shell!Escape
  BY <1>0, <1>4, RestKeepsMenu DEF Shell!OpenMenu, Shell!CloseMenu, Shell!Escape
<1>5. CASE \/ Shell!TogglePanel \/ Shell!Load \/ Shell!ReadAll
           \/ \E i \in DOMAIN calls : \/ Shell!ListItems(i) \/ Shell!EndLoad(i)
                                      \/ Shell!MarkRead(i) \/ Shell!EndMark(i)
  <2>1. UNCHANGED <<lists, pathname, menuOpen, navCounts, fetches, seen>>
    BY <1>5 DEF Shell!TogglePanel, Shell!Load, Shell!ReadAll, Shell!ListItems, Shell!EndLoad,
                Shell!MarkRead, Shell!EndMark
  <2> QED BY <1>0, <2>1, RestKeepsMenu
<1>6. CASE Shell!Others
  <2>1. UNCHANGED <<pathname, menuOpen, navCounts, fetches, seen>> BY <1>6 DEF Shell!Others
  <2>2. CASE UNCHANGED lists BY <1>0, <2>1, <2>2, RestKeepsMenu
  <2>3. CASE \E p \in Shell!Lists : lists[p] < MaxOthers /\ lists' = [lists EXCEPT ![p] = @ + 1]
    <3>1. /\ lists' \in Shell!Counts
          /\ \A p \in Shell!Lists : lists[p] <= lists'[p]
      BY <2>3, BackofficeAssumption DEF MenuInv, Shell!Counts
    <3> QED BY <1>0, <2>1, <3>1, RestKeepsMenu
  <2> QED BY <1>6, <2>2, <2>3 DEF Shell!Others
<1> QED
  BY <1>1, <1>2, <1>3, <1>4, <1>5, <1>6, ReadListKeepsMenu, ShowCountsKeepsMenu
  DEF Shell!ShellNext

---------------------------------------------------------------------------
(* The notification panel. *)

Unread == Cardinality({n \in Notes : notes[n] = "unread"})

CallRow == [kind : {"load", "read", "readAll"}, note : Notes \cup {"none"},
            token : BOOLEAN, clean : BOOLEAN, done : BOOLEAN,
            items : [Notes -> Shell!Mark] \cup {Shell!NoItems},
            unreadCount : Shell!Unanswered..Cardinality(Notes)]

\* The notes a call is to mark.
Meant(c) == IF c.kind = "readAll" THEN Notes ELSE {c.note} \cap Notes

\* What a load has read, and what a mark is about, when no call and no arrival
\* came between; at any time nothing is listed that is not there.
CallOK(i) ==
    LET c == calls[i]
    IN  /\ \A n \in Notes : c.items[n] \in {"unread", "read"} => notes[n] # "absent"
        /\ c.kind # "load" => c.items = Shell!NoItems /\ c.unreadCount = Shell!Unanswered
        /\ c.clean =>
               /\ \A j \in DOMAIN calls \ {i} : calls[j] = Shell!Ended
               /\ c.items \in {Shell!NoItems, notes}
               /\ c.unreadCount \in {Shell!Unanswered, Unread}
               /\ c.kind = "read" => c.note \in Notes /\ data.items[c.note] = "unread"
               /\ c.done => \A n \in Meant(c) : notes[n] # "unread"

\* The panel shows as read what is read (ShownReadIsRead of BackofficeShell).
ReadShown ==
    ~mixed =>
        /\ \A n \in Notes : data.items[n] = "read" => notes[n] = "read"
        /\ data.unreadCount = Cardinality({n \in Notes : data.items[n] = "unread"})

CallsOK == \A i \in DOMAIN calls : calls[i] # Shell!Ended => CallOK(i)

ItemsHeld == \A n \in Notes : data.items[n] # "absent" => notes[n] # "absent"

PanelTyped ==
    /\ notes \in [Notes -> Shell!Mark]
    /\ data \in [items : [Notes -> Shell!Mark], unreadCount : 0..Cardinality(Notes)]
    /\ {panelOpen, loading, error, mixed} \subseteq BOOLEAN
    /\ calls \in Seq(CallRow \cup {Shell!Ended}) /\ Len(calls) \in 1..MaxCalls

PanelInv == PanelTyped /\ CallsOK /\ ItemsHeld /\ ReadShown

LEMMA PanelStart == BackofficeInit => PanelInv
<1> SUFFICES ASSUME Shell!ShellInit PROVE PanelInv BY DEF BackofficeInit
<1> USE BackofficeAssumption
<1>1. Cardinality(Notes) \in Nat /\ Cardinality({}) = 0 BY FS_CardinalityType, FS_EmptySet
<1>2. PICK first : first = Shell!Call("load", "none", FALSE, TRUE) OBVIOUS
<1>3. /\ first \in CallRow /\ first.items = Shell!NoItems /\ ~first.done
      /\ first.unreadCount = Shell!Unanswered /\ first.kind = "load"
  BY <1>1, <1>2 DEF Shell!Call, CallRow, Shell!NoItems, Shell!Unanswered
<1>4. PICK one : one = <<first>> OBVIOUS
<1>5. /\ one \in Seq(CallRow \cup {Shell!Ended}) /\ Len(one) = 1 /\ one[1] = first
      /\ DOMAIN one = {1}
  <2>1. one \in Seq(CallRow \cup {Shell!Ended}) BY <1>3, <1>4
  <2>2. Len(one) = 1 /\ one[1] = first BY <1>4
  <2> QED BY <2>1, <2>2, LenProperties
<1>6. calls = one BY <1>2, <1>4 DEF Shell!ShellInit
<1>7. /\ notes \in [Notes -> Shell!Mark]
      /\ data \in [items : [Notes -> Shell!Mark], unreadCount : 0..Cardinality(Notes)]
      /\ \A n \in Notes : data.items[n] = "absent"
      /\ data.unreadCount = 0
      /\ {panelOpen, loading, error, mixed} \subseteq BOOLEAN
  <2>1. PICK items : items = [n \in Notes |-> "absent"] OBVIOUS
  <2>2. items \in [Notes -> Shell!Mark] /\ \A n \in Notes : items[n] = "absent"
    BY <2>1 DEF Shell!Mark
  <2>3. data = [items |-> items, unreadCount |-> 0] BY <2>1 DEF Shell!ShellInit
  <2>4. 0 \in 0..Cardinality(Notes) BY <1>1
  <2>5. /\ data \in [items : [Notes -> Shell!Mark], unreadCount : 0..Cardinality(Notes)]
        /\ data.items = items /\ data.unreadCount = 0
    BY <2>2, <2>3, <2>4
  <2>6. notes \in [Notes -> Shell!Mark] BY DEF Shell!ShellInit
  <2>7. {panelOpen, loading, error, mixed} \subseteq BOOLEAN BY DEF Shell!ShellInit
  <2> QED BY <2>2, <2>5, <2>6, <2>7
<1>8. ReadShown
  <2>1. {n \in Notes : data.items[n] = "unread"} = {} BY <1>7
  <2>2. data.unreadCount = Cardinality({n \in Notes : data.items[n] = "unread"})
    BY <1>1, <1>7, <2>1
  <2>3. \A n \in Notes : data.items[n] # "read" BY <1>7
  <2> QED BY <2>2, <2>3 DEF ReadShown
<1>9. CallOK(1) BY <1>3, <1>5, <1>6 DEF CallOK, Shell!NoItems
<1>10. 1 \in 1..MaxCalls OBVIOUS
<1> QED BY <1>5, <1>6, <1>7, <1>8, <1>9, <1>10 DEF PanelInv, PanelTyped, CallsOK, ItemsHeld

LEMMA PanelTypes ==
    ASSUME PanelInv
    PROVE  /\ DOMAIN calls = 1..Len(calls) /\ Len(calls) \in Nat
           /\ \A i \in DOMAIN calls : calls[i] \in CallRow \cup {Shell!Ended}
           /\ Cardinality(Notes) \in Nat
           /\ data.items \in [Notes -> Shell!Mark] /\ data.unreadCount \in 0..Cardinality(Notes)
BY ElementOfSeq, LenProperties, BackofficeAssumption, FS_CardinalityType
   DEF PanelInv, PanelTyped, CallsOK, ItemsHeld

\* A call starts: it is clean when no other waits, and those that wait are not any more.
LEMMA StartKeepsPanel ==
    ASSUME PanelInv,
           NEW kind \in {"load", "read", "readAll"}, NEW note \in Notes \cup {"none"},
           kind = "read" => note \in Notes /\ data.items[note] = "unread",
           Shell!Start(kind, note), UNCHANGED <<notes, data, mixed>>,
           {panelOpen', loading', error'} \subseteq BOOLEAN
    PROVE  PanelInv'
<1> DEFINE Row  == CallRow \cup {Shell!Ended}
           n    == Len(calls)
           kept == [i \in 1..n |-> IF calls[i] = Shell!Ended THEN Shell!Ended
                                   ELSE [calls[i] EXCEPT !.clean = FALSE]]
<1>1. PICK new : new = Shell!Call(kind, note, TRUE, Shell!Waiting = {}) OBVIOUS
<1>2. n < MaxCalls /\ calls' = Append(kept, new) BY <1>1, PanelTypes DEF Shell!Start
<1>3. n \in Nat /\ n + 1 \in 1..MaxCalls BY <1>2, PanelTypes, BackofficeAssumption
   DEF PanelInv, PanelTyped, CallsOK, ItemsHeld
<1>4. ASSUME NEW i \in 1..n
      PROVE  /\ kept[i] \in Row
             /\ kept[i] # Shell!Ended =>
                    /\ calls[i] # Shell!Ended /\ ~kept[i].clean
                    /\ kept[i].items = calls[i].items /\ kept[i].kind = calls[i].kind
                    /\ kept[i].unreadCount = calls[i].unreadCount
             /\ calls[i] = Shell!Ended => kept[i] = Shell!Ended
  BY PanelTypes DEF CallRow
<1>5. /\ new \in CallRow /\ new.items = Shell!NoItems /\ ~new.done /\ new.note = note
      /\ new.unreadCount = Shell!Unanswered /\ new.kind = kind
      /\ new.clean = (Shell!Waiting = {})
  BY <1>1, PanelTypes DEF Shell!Call, CallRow, Shell!NoItems, Shell!Unanswered
<1>6. kept \in [1..n -> Row] BY <1>4
<1> HIDE DEF kept, n, Row
<1>7. /\ calls' \in Seq(Row) /\ Len(calls') = n + 1
      /\ \A i \in 1..n : calls'[i] = kept[i]
      /\ calls'[n + 1] = new
  <2>1. new \in Row BY <1>5 DEF Row
  <2>2. /\ Append(kept, new) \in Seq(Row) /\ Len(Append(kept, new)) = n + 1
        /\ \A i \in 1..n : Append(kept, new)[i] = kept[i]
        /\ Append(kept, new)[n + 1] = new
    BY <1>3, <1>6, <2>1, Appended
  <2> QED BY <1>2, <2>2
<1>8. DOMAIN calls' = 1..(n + 1) BY <1>7, LenProperties
<1>9. ASSUME NEW i \in DOMAIN calls', calls'[i] # Shell!Ended PROVE CallOK(i)'
  <2>1. CASE i \in 1..n
    <3>1. /\ calls[i] # Shell!Ended /\ ~calls'[i].clean
          /\ calls'[i].items = calls[i].items /\ calls'[i].kind = calls[i].kind
          /\ calls'[i].unreadCount = calls[i].unreadCount
      BY <1>4, <1>7, <1>9, <2>1
    <3>2. CallOK(i) BY <2>1, <3>1, PanelTypes DEF PanelInv, PanelTyped, CallsOK, ItemsHeld, n
    <3> QED BY <3>1, <3>2 DEF CallOK
  <2>2. CASE i = n + 1
    <3>1. new.clean => \A j \in DOMAIN calls' \ {i} : calls'[j] = Shell!Ended
      <4> SUFFICES ASSUME new.clean, NEW j \in 1..n PROVE calls'[j] = Shell!Ended
        BY <1>3, <1>8, <2>2
      <4>1. calls[j] = Shell!Ended BY <1>5, PanelTypes DEF Shell!Waiting, n
      <4> QED BY <1>4, <1>7, <4>1
    <3> QED BY <1>5, <1>7, <2>2, <3>1 DEF CallOK, Shell!NoItems
  <2> QED BY <1>3, <1>8, <2>1, <2>2
<1>10. mixed' \in BOOLEAN BY DEF PanelInv, PanelTyped, CallsOK, ItemsHeld
<1> QED BY <1>3, <1>7, <1>9, <1>10 DEF PanelInv, PanelTyped, CallsOK, ItemsHeld, ReadShown, Row

\* One call goes on or ends: what waits beside it was not clean.
LEMMA OneCallChanges ==
    ASSUME PanelInv, NEW i \in DOMAIN calls, calls[i] # Shell!Ended,
           NEW next \in CallRow \cup {Shell!Ended}, calls' = [calls EXCEPT ![i] = next],
           notes' \in [Notes -> Shell!Mark],
           \A n \in Notes : notes[n] # "absent" => notes'[n] # "absent",
           data' \in [items : [Notes -> Shell!Mark], unreadCount : 0..Cardinality(Notes)],
           {panelOpen', loading', error', mixed'} \subseteq BOOLEAN,
           \A n \in Notes : data'.items[n] # "absent" => notes'[n] # "absent",
           ReadShown',
           next # Shell!Ended /\ (\A j \in DOMAIN calls \ {i} : calls'[j] = calls[j])
               /\ DOMAIN calls' = DOMAIN calls /\ calls'[i] = next => CallOK(i)'
    PROVE  PanelInv'
<1>1. /\ calls' \in Seq(CallRow \cup {Shell!Ended}) /\ Len(calls') = Len(calls)
      /\ \A j \in DOMAIN calls : calls'[j] = IF j = i THEN next ELSE calls[j]
      /\ DOMAIN calls' = DOMAIN calls
  BY PanelTypes, ExceptSeq DEF PanelInv, PanelTyped, CallsOK, ItemsHeld
<1>2. ASSUME NEW j \in DOMAIN calls', calls'[j] # Shell!Ended PROVE CallOK(j)'
  <2>1. CASE j = i BY <1>1, <1>2, <2>1
  <2>2. CASE j # i
    <3>1. calls'[j] = calls[j] /\ CallOK(j) BY <1>1, <1>2, <2>2
       DEF PanelInv, PanelTyped, CallsOK, ItemsHeld
    <3>2. ~calls[j].clean BY <1>1, <2>2, <3>1 DEF CallOK
    <3> QED BY <3>1, <3>2 DEF CallOK
  <2> QED BY <2>1, <2>2
<1>3. /\ notes' \in [Notes -> Shell!Mark]
      /\ data' \in [items : [Notes -> Shell!Mark], unreadCount : 0..Cardinality(Notes)]
      /\ {panelOpen', loading', error', mixed'} \subseteq BOOLEAN
  OBVIOUS
<1>4. Len(calls') \in 1..MaxCalls BY <1>1 DEF PanelInv, PanelTyped, CallsOK, ItemsHeld
<1>5. calls' \in Seq(CallRow \cup {Shell!Ended}) BY ONLY <1>1
<1>6. PanelTyped' BY ONLY <1>3, <1>4, <1>5 DEF PanelTyped
<1>7. CallsOK' BY ONLY <1>2 DEF CallsOK
<1>8. ItemsHeld' BY DEF ItemsHeld
<1> QED BY <1>6, <1>7, <1>8 DEF PanelInv

\* What leaves the items, the notes and the calls alone.
LEMMA RestKeepsPanel ==
    ASSUME PanelInv, UNCHANGED <<notes, data, calls, mixed>>,
           {panelOpen', loading', error'} \subseteq BOOLEAN
    PROVE  PanelInv'
<1>1. PanelTyped' BY DEF PanelInv, PanelTyped
<1>2. ItemsHeld' /\ ReadShown' BY DEF PanelInv, ItemsHeld, ReadShown
<1>3. CallsOK'
  <2>1. \A i \in DOMAIN calls : CallOK(i) => CallOK(i)' BY DEF CallOK, Unread
  <2> QED BY ONLY <2>1, PanelInv, UNCHANGED <<notes, data, calls, mixed>> DEF PanelInv, CallsOK
<1> QED BY ONLY <1>1, <1>2, <1>3 DEF PanelInv

\* The two queries of a load; a clean one is of the notes of now.
LEMMA ListItemsKeepsPanel ==
    ASSUME PanelInv, NEW i \in DOMAIN calls, Shell!ListItems(i)
    PROVE  PanelInv'
<1>1. /\ calls[i] # Shell!Ended /\ calls[i].kind = "load"
      /\ UNCHANGED <<notes, data, panelOpen, loading, error, mixed>>
  BY DEF Shell!ListItems
<1>2. calls[i] \in CallRow /\ CallOK(i) BY <1>1, PanelTypes
   DEF PanelInv, PanelTyped, CallsOK, ItemsHeld
<1>3. /\ notes \in [Notes -> Shell!Mark]
      /\ data \in [items : [Notes -> Shell!Mark], unreadCount : 0..Cardinality(Notes)]
      /\ {panelOpen, loading, error, mixed} \subseteq BOOLEAN
      /\ \A n \in Notes : data.items[n] # "absent" => notes[n] # "absent"
      /\ ReadShown /\ ReadShown'
  BY <1>1 DEF PanelInv, PanelTyped, CallsOK, ItemsHeld, ReadShown
<1>4. CASE calls' = [calls EXCEPT ![i].items = notes]
  <2>1. PICK next : next = [calls[i] EXCEPT !.items = notes] OBVIOUS
  <2>2. /\ next \in CallRow /\ next.items = notes /\ next.clean = calls[i].clean
        /\ next.kind = calls[i].kind /\ next.note = calls[i].note
        /\ next.done = calls[i].done /\ next.unreadCount = calls[i].unreadCount
    BY <1>2, <1>3, <2>1 DEF CallRow
  <2>3. calls' = [calls EXCEPT ![i] = next] BY <1>4, <2>1
  <2>4. ASSUME \A j \in DOMAIN calls \ {i} : calls'[j] = calls[j],
               DOMAIN calls' = DOMAIN calls, calls'[i] = next
        PROVE  CallOK(i)'
    BY <1>1, <1>2, <2>2, <2>4 DEF CallOK, Unread, Meant
  <2> QED BY <1>1, <1>3, <2>2, <2>3, <2>4, OneCallChanges
<1>5. CASE calls' = [calls EXCEPT ![i].unreadCount =
                        Cardinality({n \in Notes : notes[n] = "unread"})]
  <2>0. Unread \in 0..Cardinality(Notes)
    BY BackofficeAssumption, FS_Subset, FS_CardinalityType DEF Unread
  <2>1. PICK next : next = [calls[i] EXCEPT !.unreadCount = Unread] OBVIOUS
  <2>2. /\ next \in CallRow /\ next.unreadCount = Unread /\ next.clean = calls[i].clean
        /\ next.kind = calls[i].kind /\ next.note = calls[i].note
        /\ next.done = calls[i].done /\ next.items = calls[i].items
    BY <1>2, <2>0, <2>1, PanelTypes DEF CallRow, Shell!Unanswered
  <2>3. calls' = [calls EXCEPT ![i] = next] BY <1>5, <2>1 DEF Unread
  <2>4. ASSUME \A j \in DOMAIN calls \ {i} : calls'[j] = calls[j],
               DOMAIN calls' = DOMAIN calls, calls'[i] = next
        PROVE  CallOK(i)'
    BY <1>1, <1>2, <2>2, <2>4 DEF CallOK, Unread, Meant
  <2> QED BY <1>1, <1>3, <2>2, <2>3, <2>4, OneCallChanges
<1>6. Shell!Cardinality({n \in Notes : notes[n] = "unread"})
          = Cardinality({n \in Notes : notes[n] = "unread"})
  BY SameCardinality
<1> QED BY <1>4, <1>5, <1>6 DEF Shell!ListItems

LEMMA EndLoadKeepsPanel ==
    ASSUME PanelInv, NEW i \in DOMAIN calls, Shell!EndLoad(i)
    PROVE  PanelInv'
<1>1. /\ calls[i] # Shell!Ended /\ calls[i].kind = "load"
      /\ calls' = [calls EXCEPT ![i] = Shell!Ended]
      /\ UNCHANGED <<notes, panelOpen>> /\ loading' = FALSE
  BY DEF Shell!EndLoad, Shell!End
<1>2. calls[i] \in CallRow /\ CallOK(i) BY <1>1, PanelTypes
   DEF PanelInv, PanelTyped, CallsOK, ItemsHeld
<1>3. notes' \in [Notes -> Shell!Mark] /\ panelOpen' \in BOOLEAN
  BY <1>1 DEF PanelInv, PanelTyped, CallsOK, ItemsHeld
<1>4. CASE error' = TRUE /\ UNCHANGED <<data, mixed>>
  <2>1. /\ data' \in [items : [Notes -> Shell!Mark], unreadCount : 0..Cardinality(Notes)]
        /\ {panelOpen', loading', error', mixed'} \subseteq BOOLEAN
        /\ \A n \in Notes : data'.items[n] # "absent" => notes'[n] # "absent"
        /\ ReadShown'
    BY <1>1, <1>3, <1>4 DEF PanelInv, PanelTyped, CallsOK, ItemsHeld, ReadShown
  <2> QED BY <1>1, <1>3, <2>1, OneCallChanges
<1>5. CASE /\ calls[i].items # Shell!NoItems /\ calls[i].unreadCount # Shell!Unanswered
           /\ data' = [items |-> calls[i].items, unreadCount |-> calls[i].unreadCount]
           /\ mixed' = ~calls[i].clean /\ UNCHANGED error
  <2>1. PICK items, count : items = calls[i].items /\ count = calls[i].unreadCount OBVIOUS
  <2>2. /\ items \in [Notes -> Shell!Mark] /\ count \in 0..Cardinality(Notes)
        /\ data' = [items |-> items, unreadCount |-> count]
    BY <1>2, <1>5, <2>1, PanelTypes DEF CallRow, Shell!Unanswered
  <2>3. data'.items = items /\ data'.unreadCount = count BY <2>2
  <2>4. \A n \in Notes : items[n] # "absent" => notes[n] # "absent"
    BY <1>2, <2>1, <2>2 DEF CallOK, Shell!Mark
  <2>5. calls[i].clean \in BOOLEAN BY <1>2 DEF CallRow
  <2>6. ReadShown'
    <3> SUFFICES ASSUME calls[i].clean PROVE ReadShown'
      BY <1>5 DEF ReadShown
    <3>1. items = notes /\ count = Unread BY <1>2, <1>5, <2>1 DEF CallOK
    <3> QED BY <1>1, <2>3, <3>1 DEF ReadShown, Unread
  <2>7. {panelOpen', loading', error', mixed'} \subseteq BOOLEAN
    BY <1>1, <1>3, <1>5, <2>5 DEF PanelInv, PanelTyped, CallsOK, ItemsHeld
  <2> QED BY <1>1, <1>3, <2>2, <2>3, <2>4, <2>6, <2>7, OneCallChanges
<1> QED BY <1>4, <1>5 DEF Shell!EndLoad

LEMMA MarkReadKeepsPanel ==
    ASSUME PanelInv, NEW i \in DOMAIN calls, Shell!MarkRead(i)
    PROVE  PanelInv'
<1>1. /\ calls[i] # Shell!Ended /\ calls[i].kind # "load"
      /\ UNCHANGED <<data, panelOpen, loading, error, mixed>>
      /\ notes' = [n \in Notes |->
                      IF notes[n] = "unread" /\ (calls[i].kind = "readAll" \/ n = calls[i].note)
                      THEN "read" ELSE notes[n]]
      /\ calls' = [calls EXCEPT ![i].done = TRUE]
  BY DEF Shell!MarkRead
<1>2. calls[i] \in CallRow /\ CallOK(i) BY <1>1, PanelTypes
   DEF PanelInv, PanelTyped, CallsOK, ItemsHeld
<1>3. notes \in [Notes -> Shell!Mark] BY DEF PanelInv, PanelTyped, CallsOK, ItemsHeld
<1>4. notes' \in [Notes -> Shell!Mark] BY <1>1, <1>3 DEF Shell!Mark
<1>5. \A n \in Notes : /\ notes[n] # "absent" => notes'[n] # "absent"
                       /\ notes[n] = "read" => notes'[n] = "read"
                       /\ notes[n] # "unread" => notes'[n] # "unread"
  BY <1>1
<1>6. \A n \in Meant(calls[i]) : notes'[n] # "unread"
  BY <1>1, <1>2 DEF Meant, CallRow
<1>7. PICK next : next = [calls[i] EXCEPT !.done = TRUE] OBVIOUS
<1>8. /\ next \in CallRow /\ next.clean = calls[i].clean /\ next.items = calls[i].items
      /\ next.kind = calls[i].kind /\ next.note = calls[i].note
      /\ next.unreadCount = calls[i].unreadCount
  BY <1>2, <1>7 DEF CallRow
<1>9. calls' = [calls EXCEPT ![i] = next] BY <1>1, <1>7
<1>10. ASSUME \A j \in DOMAIN calls \ {i} : calls'[j] = calls[j],
              DOMAIN calls' = DOMAIN calls, calls'[i] = next
       PROVE  CallOK(i)'
  <2>1. Meant(next) = Meant(calls[i]) BY <1>8 DEF Meant
  <2>2. next.items = Shell!NoItems /\ next.unreadCount = Shell!Unanswered
    BY <1>1, <1>2, <1>8 DEF CallOK
  <2>3. \A n \in Notes : next.items[n] \in {"unread", "read"} => notes'[n] # "absent"
    BY <2>2 DEF Shell!NoItems
  <2>4. next.clean => /\ \A j \in DOMAIN calls \ {i} : calls'[j] = Shell!Ended
                      /\ next.kind = "read" =>
                             next.note \in Notes /\ data'.items[next.note] = "unread"
    BY <1>1, <1>2, <1>8, <1>10 DEF CallOK
  <2>5. \A n \in Meant(next) : notes'[n] # "unread" BY <1>6, <2>1
  <2> HIDE DEF Meant, Shell!NoItems
  <2> QED BY <1>1, <1>10, <2>2, <2>3, <2>4, <2>5 DEF CallOK, Shell!NoItems, Shell!Unanswered, Meant
<1>11. \A n \in Notes : notes[n] # "absent" => notes'[n] # "absent" BY <1>5
<1>12. /\ data' \in [items : [Notes -> Shell!Mark], unreadCount : 0..Cardinality(Notes)]
       /\ {panelOpen', loading', error', mixed'} \subseteq BOOLEAN
       /\ \A n \in Notes : data'.items[n] # "absent" => notes'[n] # "absent"
       /\ ReadShown'
  BY <1>1, <1>5 DEF PanelInv, PanelTyped, CallsOK, ItemsHeld, ReadShown
<1> HIDE DEF PanelInv, PanelTyped, CallsOK, ItemsHeld, ReadShown
<1> QED BY <1>1, <1>4, <1>8, <1>9, <1>10, <1>11, <1>12, OneCallChanges

\* The answer to a mark: with one call at a time, what was clicked is what was
\* marked, and the badge counts what is left.
LEMMA EndMarkKeepsPanel ==
    ASSUME PanelInv, NEW i \in DOMAIN calls, Shell!EndMark(i)
    PROVE  PanelInv'
<1>1. /\ calls[i] # Shell!Ended /\ calls[i].kind # "load"
      /\ calls' = [calls EXCEPT ![i] = Shell!Ended]
      /\ UNCHANGED <<notes, loading, error>>
  BY DEF Shell!EndMark, Shell!End
<1>2. calls[i] \in CallRow /\ CallOK(i) BY <1>1, PanelTypes
   DEF PanelInv, PanelTyped, CallsOK, ItemsHeld
<1>3. notes' \in [Notes -> Shell!Mark] /\ {loading', error'} \subseteq BOOLEAN
  BY <1>1 DEF PanelInv, PanelTyped, CallsOK, ItemsHeld
<1>4. CASE UNCHANGED <<data, panelOpen, mixed>>
  <2>1. /\ data' \in [items : [Notes -> Shell!Mark], unreadCount : 0..Cardinality(Notes)]
        /\ {panelOpen', loading', error', mixed'} \subseteq BOOLEAN
        /\ \A n \in Notes : data'.items[n] # "absent" => notes'[n] # "absent"
        /\ ReadShown'
    BY <1>1, <1>3, <1>4 DEF PanelInv, PanelTyped, CallsOK, ItemsHeld, ReadShown
  <2> QED BY <1>1, <1>3, <2>1, OneCallChanges
<1>5. CASE /\ calls[i].done
           /\ data' = [items |-> [n \in Notes |-> IF n \in Shell!Marked(i) THEN "read"
                                                  ELSE data.items[n]],
                       unreadCount |-> Shell!UnreadAfter(i)]
           /\ panelOpen' = (panelOpen /\ calls[i].kind = "readAll")
           /\ mixed' = (mixed \/ ~calls[i].clean)
  <2>1. PICK items, count :
            /\ items = [n \in Notes |-> IF n \in Shell!Marked(i) THEN "read" ELSE data.items[n]]
            /\ count = Shell!UnreadAfter(i)
    OBVIOUS
  <2>2. data' = [items |-> items, unreadCount |-> count] BY <1>5, <2>1
  <2>3. items \in [Notes -> Shell!Mark] BY <2>1, PanelTypes DEF Shell!Mark
  <2>4. count \in 0..Cardinality(Notes) BY <2>1, PanelTypes DEF Shell!UnreadAfter
  <2>5. data'.items = items /\ data'.unreadCount = count BY <2>2
  <2>6. \A n \in Notes : data'.items[n] # "absent" => notes'[n] # "absent"
    BY <1>1, <2>1, <2>5 DEF Shell!Marked, PanelInv, PanelTyped, CallsOK, ItemsHeld
  <2>7. ReadShown'
    <3> SUFFICES ASSUME ~mixed, calls[i].clean PROVE ReadShown'
      BY <1>5 DEF ReadShown
    <3> DEFINE shown == {n \in Notes : data.items[n] = "unread"}
               left  == {n \in Notes : items[n] = "unread"}
    <3>1. /\ \A n \in Notes : data.items[n] = "read" => notes[n] = "read"
          /\ data.unreadCount = Cardinality(shown)
      BY DEF PanelInv, PanelTyped, CallsOK, ItemsHeld, ReadShown
    <3>2. \A n \in Meant(calls[i]) : notes[n] # "unread" BY <1>2, <1>5 DEF CallOK
    <3>3. \A n \in Shell!Marked(i) : n \in Meant(calls[i]) BY DEF Shell!Marked, Meant
    <3>4. \A n \in Shell!Marked(i) : notes[n] = "read"
      BY <3>2, <3>3 DEF Shell!Marked, PanelInv, PanelTyped, CallsOK, ItemsHeld, Shell!Mark
    <3>5. \A n \in Notes : items[n] = "read" => notes[n] = "read"
      BY <2>1, <3>1, <3>4
    <3>6. IsFiniteSet(shown) /\ Cardinality(shown) \in Nat
      BY BackofficeAssumption, FS_Subset, FS_CardinalityType
    <3>7. count = Cardinality(left)
      <4>1. CASE calls[i].kind = "readAll"
        <5>1. left = {} BY <2>1, <4>1 DEF Shell!Marked
        <5>2. count = 0 BY <2>1, <4>1 DEF Shell!UnreadAfter
        <5> QED BY <5>1, <5>2, FS_EmptySet
      <4>2. CASE calls[i].kind = "read"
        <5>1. calls[i].note \in shown BY <1>2, <4>2 DEF CallOK
        <5>2. Shell!Marked(i) = {calls[i].note} BY <4>2, <5>1 DEF Shell!Marked
        <5>3. left = shown \ {calls[i].note} BY <2>1, <5>2
        <5>4. Cardinality(shown \ {calls[i].note})
                  = IF calls[i].note \in shown THEN Cardinality(shown) - 1 ELSE Cardinality(shown)
          BY <3>6, FS_RemoveElement
        <5>5. Cardinality(shown) # 0 BY <3>6, <5>1, FS_EmptySet
        <5>6. count = data.unreadCount - 1
          BY <2>1, <3>1, <4>2, <5>5 DEF Shell!UnreadAfter
        <5> QED BY <3>1, <5>1, <5>3, <5>4, <5>6
      <4> QED BY <1>1, <1>2, <4>1, <4>2 DEF CallRow
    <3> QED BY <1>1, <2>5, <3>5, <3>7 DEF ReadShown
  <2>8. panelOpen' \in BOOLEAN /\ mixed' \in BOOLEAN
    <3>1. calls[i].clean \in BOOLEAN /\ panelOpen \in BOOLEAN /\ mixed \in BOOLEAN
      BY <1>2 DEF CallRow, PanelInv, PanelTyped, CallsOK, ItemsHeld
    <3> QED BY <1>5, <3>1
  <2> QED BY <1>1, <1>3, <2>2, <2>3, <2>4, <2>6, <2>7, <2>8, OneCallChanges
<1> QED BY <1>4, <1>5 DEF Shell!EndMark

\* What others send makes every call unclean.
LEMMA OthersKeepPanel ==
    ASSUME PanelInv, Shell!Others
    PROVE  PanelInv'
<1>1. CASE UNCHANGED Shell!panelVars /\ UNCHANGED notes
  BY <1>1, RestKeepsPanel DEF PanelInv, PanelTyped, CallsOK, ItemsHeld, Shell!panelVars
<1>2. CASE /\ \E n \in Notes : notes[n] = "absent" /\ notes' = [notes EXCEPT ![n] = "unread"]
           /\ calls' = [i \in DOMAIN calls |->
                           IF calls[i] = Shell!Ended THEN Shell!Ended
                           ELSE [calls[i] EXCEPT !.clean = FALSE]]
           /\ UNCHANGED <<data, panelOpen, loading, error, mixed>>
  <2> DEFINE Row == CallRow \cup {Shell!Ended}
  <2>1. notes \in [Notes -> Shell!Mark] BY DEF PanelInv, PanelTyped, CallsOK, ItemsHeld
  <2>2. /\ notes' \in [Notes -> Shell!Mark]
        /\ \A n \in Notes : notes[n] # "absent" => notes'[n] = notes[n]
    BY <1>2, <2>1 DEF Shell!Mark
  <2>3. ASSUME NEW i \in DOMAIN calls
        PROVE  /\ calls'[i] \in Row
               /\ calls'[i] # Shell!Ended =>
                      /\ calls[i] # Shell!Ended /\ ~calls'[i].clean
                      /\ calls'[i].items = calls[i].items /\ calls'[i].kind = calls[i].kind
                      /\ calls'[i].unreadCount = calls[i].unreadCount
    BY <1>2, PanelTypes DEF CallRow
  <2>4. DOMAIN calls' = 1..Len(calls) BY <1>2, PanelTypes
  <2>5. calls' \in [1..Len(calls) -> Row] BY <1>2, <2>3, <2>4, PanelTypes
  <2>6. calls' \in Seq(Row) /\ Len(calls') = Len(calls)
    BY <2>5, PanelTypes, SeqDef, LenProperties
  <2>7. ASSUME NEW i \in DOMAIN calls', calls'[i] # Shell!Ended PROVE CallOK(i)'
    <3>1. /\ calls[i] # Shell!Ended /\ ~calls'[i].clean
          /\ calls'[i].items = calls[i].items /\ calls'[i].kind = calls[i].kind
          /\ calls'[i].unreadCount = calls[i].unreadCount
      BY <2>3, <2>4, <2>7, PanelTypes
    <3>2. CallOK(i) BY <2>4, <3>1, PanelTypes DEF PanelInv, PanelTyped, CallsOK, ItemsHeld
    <3> QED BY <2>2, <3>1, <3>2 DEF CallOK, Shell!NoItems
  <2>8. /\ data' \in [items : [Notes -> Shell!Mark], unreadCount : 0..Cardinality(Notes)]
        /\ {panelOpen', loading', error', mixed'} \subseteq BOOLEAN
        /\ \A n \in Notes : data'.items[n] # "absent" => notes'[n] # "absent"
    BY <1>2, <2>2 DEF PanelInv, PanelTyped, CallsOK, ItemsHeld
  <2>9. ReadShown' BY <1>2, <2>2 DEF PanelInv, PanelTyped, CallsOK, ItemsHeld, ReadShown
  <2> QED BY <2>2, <2>6, <2>7, <2>8, <2>9 DEF PanelInv, PanelTyped, CallsOK, ItemsHeld
<1> QED BY <1>1, <1>2 DEF Shell!Others

LEMMA PanelStep == PanelInv /\ [Shell!ShellNext]_shell => PanelInv'
<1> SUFFICES ASSUME PanelInv, [Shell!ShellNext]_shell PROVE PanelInv' OBVIOUS
<1>1. {panelOpen, loading, error} \subseteq BOOLEAN BY DEF PanelInv, PanelTyped, CallsOK, ItemsHeld
<1>2. CASE UNCHANGED shell BY <1>1, <1>2, RestKeepsPanel DEF shell, panel
<1>3. ASSUME NEW path \in Shell!Paths, Shell!FollowMenu(path) PROVE PanelInv'
  BY <1>1, <1>3, RestKeepsPanel DEF Shell!FollowMenu, Shell!panelVars
<1>4. ASSUME NEW f \in DOMAIN fetches, Shell!ShowCounts(f) PROVE PanelInv'
  BY <1>1, <1>4, RestKeepsPanel DEF Shell!ShowCounts, Shell!panelVars
<1>5. ASSUME NEW f \in DOMAIN fetches, NEW p \in Shell!Lists, Shell!ReadList(f, p) PROVE PanelInv'
  BY <1>1, <1>5, RestKeepsPanel DEF Shell!ReadList, Shell!panelVars
<1>6. CASE Shell!OpenMenu BY <1>1, <1>6, RestKeepsPanel DEF Shell!OpenMenu, Shell!panelVars
<1>7. CASE Shell!CloseMenu BY <1>1, <1>7, RestKeepsPanel DEF Shell!CloseMenu, Shell!panelVars
<1>8. CASE Shell!Escape BY <1>1, <1>8, RestKeepsPanel DEF Shell!Escape
<1>9. CASE Shell!TogglePanel BY <1>1, <1>9, RestKeepsPanel DEF Shell!TogglePanel
<1>10. CASE Shell!Load
  <2>1. {panelOpen', loading', error'} \subseteq BOOLEAN BY <1>1, <1>10 DEF Shell!Load
  <2>2. Shell!Start("load", "none") /\ UNCHANGED <<notes, data, mixed>>
    BY <1>10 DEF Shell!Load
  <2> QED BY <2>1, <2>2, StartKeepsPanel
<1>11. CASE Shell!ReadAll
  <2>1. {panelOpen', loading', error'} \subseteq BOOLEAN BY <1>1, <1>11 DEF Shell!ReadAll
  <2>2. Shell!Start("readAll", "none") /\ UNCHANGED <<notes, data, mixed>>
    BY <1>11 DEF Shell!ReadAll
  <2> QED BY <2>1, <2>2, StartKeepsPanel
<1>12. ASSUME NEW n \in Notes, Shell!ClickItem(n) PROVE PanelInv'
  <2>1. UNCHANGED <<notes, data, loading, error, mixed>> BY <1>12 DEF Shell!ClickItem
  <2>2. CASE data.items[n] = "unread"
    <3>1. Shell!Start("read", n) /\ UNCHANGED panelOpen BY <1>12, <2>2 DEF Shell!ClickItem
    <3> QED BY <1>1, <2>1, <2>2, <3>1, StartKeepsPanel
  <2>3. CASE data.items[n] # "unread"
    <3>1. panelOpen' = FALSE /\ UNCHANGED calls BY <1>12, <2>3 DEF Shell!ClickItem
    <3> QED BY <1>1, <2>1, <3>1, RestKeepsPanel
  <2> QED BY <2>2, <2>3
<1>13. ASSUME NEW i \in DOMAIN calls,
              Shell!ListItems(i) \/ Shell!EndLoad(i) \/ Shell!MarkRead(i) \/ Shell!EndMark(i)
       PROVE  PanelInv'
  BY <1>13, ListItemsKeepsPanel, EndLoadKeepsPanel, MarkReadKeepsPanel, EndMarkKeepsPanel
<1>14. CASE Shell!Others BY <1>14, OthersKeepPanel
<1> HIDE DEF PanelInv, PanelTyped, CallsOK, ItemsHeld
<1> QED BY <1>2, <1>3, <1>4, <1>5, <1>6, <1>7, <1>8, <1>9, <1>10, <1>11, <1>12, <1>13, <1>14
        DEF Shell!ShellNext

---------------------------------------------------------------------------
(* Session and account. *)

\* A password was chosen, and the answer has not come back to the page.
Answering == \E c \in Calls : call[c].kind = "complete" /\ call[c].at = "done"

\* What the account security page says to the visitor of now.
Refused(path) ==
    path = "/account/security"
        /\ ~(cookie /\ account.active /\ account.role \in Access!Managers)

\* A navigation that knows the session of now.
NavOK ==
    /\ nav.hard => nav.fresh
    /\ nav.at # "render" => nav.pending = {"layout", "page"}
    /\ nav.at = "confirm" => nav.path = "/auth/confirm"
    /\ ~nav.fresh => nav.frame = page.frame /\ nav.path # "/auth/confirm"
    /\ nav.at = "render" /\ nav.clean =>
           /\ nav.signedIn = cookie
           /\ cookie <=> nav.path # "/login"
           /\ nav.fresh /\ "layout" \notin nav.pending =>
                  nav.frame = Access!Frame(cookie) \/ (~nav.hard /\ Answering)
           /\ "page" \notin nav.pending => nav.refused = Refused(nav.path)

\* A frame that no navigation is about to replace.
FrameOK ==
    ~stale /\ (nav # Access!NoNav => ~nav.fresh) =>
        page.frame = Access!Frame(cookie) \/ Answering

\* What is on show when no navigation is under way.
SettledOK ==
    ~stale /\ nav = Access!NoNav =>
        /\ cookie <=> page.path # "/login"
        /\ page.refused = Refused(page.path)

AccessInv ==
    /\ Access!AccessTypeOK
    /\ nav # Access!NoNav => NavOK
    /\ FrameOK /\ SettledOK

\* The record a navigation starts with, and the one without a claim to be clean.
LEMMA Loaded ==
    ASSUME NEW path \in Access!Paths, NEW fresh \in BOOLEAN, NEW hard \in BOOLEAN,
           NEW frame \in Access!Frames, NEW w, w = Access!Load(path, fresh, hard, frame)
    PROVE  /\ w \in Access!Navs /\ w.at = "proxy" /\ w.path = path /\ w.fresh = fresh
           /\ w.hard = hard /\ w.frame = frame /\ w.pending = {"layout", "page"}
           /\ w # Access!NoNav
BY DEF Access!Navs, Access!Load, Access!NoNav

LEMMA Soiled ==
    ASSUME NEW v \in Access!Navs, NEW clean \in BOOLEAN, NEW w, w = [v EXCEPT !.clean = clean]
    PROVE  /\ w \in Access!Navs /\ w.clean = clean /\ w.at = v.at /\ w.path = v.path
           /\ w.fresh = v.fresh /\ w.hard = v.hard /\ w.frame = v.frame
           /\ w.pending = v.pending /\ w.signedIn = v.signedIn /\ w.refused = v.refused
BY DEF Access!Navs

LEMMA AccessTypes ==
    ASSUME AccessInv
    PROVE  /\ account \in Access!Account /\ account.active \in BOOLEAN
           /\ cookie \in BOOLEAN /\ stale \in BOOLEAN /\ clicks \in 0..MaxClicks
           /\ nav \in Access!Navs \cup {Access!NoNav}
           /\ nav # Access!NoNav => nav \in Access!Navs /\ NavOK
           /\ page \in [path : Access!Paths, frame : Access!Frames, refused : BOOLEAN]
           /\ page.path \in Access!Paths /\ page.frame \in Access!Frames
           /\ "/" \in Access!Paths /\ "/login" \in Access!Paths
BY DEF AccessInv, Access!AccessTypeOK, Access!Account, Access!Paths

\* A request of the router: one that is fresh, or leads not to the confirm route.
LEMMA Requested ==
    ASSUME AccessInv, NEW path \in Access!Paths, NEW fresh \in BOOLEAN,
           fresh \/ (path # "/auth/confirm" /\ UNCHANGED <<account, cookie, call>>),
           nav' = Access!Request(path, fresh), page' = page
    PROVE  /\ nav' \in Access!Navs /\ nav' # Access!NoNav
           /\ fresh => nav'.fresh
           /\ nav # Access!NoNav /\ nav.fresh => nav'.fresh
           /\ NavOK'
<1>1. CASE nav # Access!NoNav /\ nav.hard
  <2>1. nav \in Access!Navs /\ NavOK BY <1>1, AccessTypes
  <2>2. PICK clean : clean = (nav.clean /\ ~fresh) OBVIOUS
  <2>3. clean \in BOOLEAN /\ nav.clean \in BOOLEAN BY <2>1, <2>2 DEF Access!Navs
  <2>4. nav' = [nav EXCEPT !.clean = clean] BY <1>1, <2>2 DEF Access!Request
  <2>5. /\ nav' \in Access!Navs /\ nav'.clean = clean /\ nav'.at = nav.at /\ nav'.path = nav.path
        /\ nav'.fresh = nav.fresh /\ nav'.hard = nav.hard /\ nav'.frame = nav.frame
        /\ nav'.pending = nav.pending /\ nav'.signedIn = nav.signedIn
        /\ nav'.refused = nav.refused
    BY <2>1, <2>3, <2>4, Soiled
  <2>6. nav'.fresh BY <1>1, <2>1, <2>5 DEF NavOK
  <2>7. nav' # Access!NoNav BY <2>5 DEF Access!Navs, Access!NoNav
  <2>8. NavOK'
    <3>1. CASE fresh BY <1>1, <2>1, <2>2, <2>5, <3>1 DEF NavOK
    <3>2. CASE ~fresh
      <4>1. UNCHANGED <<account, cookie, call>> BY <3>2
      <4>2. clean = nav.clean BY <2>2, <2>3, <3>2
      <4> QED BY <2>1, <2>5, <4>1, <4>2
              DEF NavOK, Refused, Answering, Access!Frame
    <3> QED BY <3>1, <3>2
  <2> QED BY <2>5, <2>6, <2>7, <2>8
<1>2. CASE ~(nav # Access!NoNav /\ nav.hard)
  <2>1. PICK soon : soon = (fresh \/ (nav # Access!NoNav /\ nav.fresh)) OBVIOUS
  <2>2. soon \in BOOLEAN BY <2>1, AccessTypes DEF Access!Navs
  <2>3. PICK hard : hard = FALSE OBVIOUS
  <2>4. nav' = Access!Load(path, soon, hard, page.frame) BY <1>2, <2>1, <2>3 DEF Access!Request
  <2>5. /\ nav' \in Access!Navs /\ nav'.at = "proxy" /\ nav'.path = path /\ nav'.fresh = soon
        /\ nav'.hard = FALSE /\ nav'.frame = page.frame /\ nav'.pending = {"layout", "page"}
        /\ nav' # Access!NoNav
    <3>1. hard \in BOOLEAN /\ page.frame \in Access!Frames BY <2>3, AccessTypes
    <3>2. /\ nav' \in Access!Navs /\ nav'.at = "proxy" /\ nav'.path = path /\ nav'.fresh = soon
          /\ nav'.hard = hard /\ nav'.frame = page.frame /\ nav'.pending = {"layout", "page"}
          /\ nav' # Access!NoNav
      BY <2>2, <2>4, <3>1, Loaded
    <3> QED BY <2>3, <3>2
  <2>6. NavOK' BY <2>1, <2>5 DEF NavOK
  <2> QED BY <2>1, <2>5, <2>6
<1> QED BY <1>1, <1>2

\* What others do leaves the navigation unclean.
LEMMA Disturbed ==
    ASSUME AccessInv, Access!Disturb, page' = page
    PROVE  /\ nav' \in Access!Navs \cup {Access!NoNav} /\ stale'
           /\ nav' # Access!NoNav => NavOK'
<1>1. CASE nav = Access!NoNav BY <1>1 DEF Access!Disturb
<1>2. CASE nav # Access!NoNav
  <2>1. nav \in Access!Navs /\ NavOK BY <1>2, AccessTypes
  <2>2. nav' = [nav EXCEPT !.clean = FALSE] /\ stale' BY <1>2 DEF Access!Disturb
  <2>3. /\ nav' \in Access!Navs /\ nav'.clean = FALSE /\ nav'.at = nav.at
        /\ nav'.path = nav.path /\ nav'.fresh = nav.fresh /\ nav'.hard = nav.hard
        /\ nav'.frame = nav.frame /\ nav'.pending = nav.pending
    <3>1. PICK clean : clean = FALSE OBVIOUS
    <3>2. clean \in BOOLEAN /\ nav' = [nav EXCEPT !.clean = clean] BY <2>2, <3>1
    <3>3. /\ nav' \in Access!Navs /\ nav'.clean = clean /\ nav'.at = nav.at
          /\ nav'.path = nav.path /\ nav'.fresh = nav.fresh /\ nav'.hard = nav.hard
          /\ nav'.frame = nav.frame /\ nav'.pending = nav.pending
      BY ONLY <2>1, <3>2, Soiled
    <3> QED BY <3>1, <3>3
  <2> QED BY <2>1, <2>2, <2>3 DEF NavOK
<1> QED BY <1>1, <1>2

CallRec == [kind : Access!Kinds, at : {"asked", "second", "done", "failed", "left"},
            mounted : BOOLEAN]

\* The variables that no argument is about.
OtherTypes ==
    /\ call \in [Calls -> CallRec \cup {Access!NoCall}]
    /\ busy \subseteq Access!Forms /\ clicks \in 0..MaxClicks

LEMMA AccessOthers == ASSUME AccessInv PROVE OtherTypes
BY DEF AccessInv, Access!AccessTypeOK, OtherTypes, CallRec

\* A call that is not the answer waited for ends, starts or goes on.
LEMMA CallChanges ==
    ASSUME AccessInv, NEW c \in Calls, NEW next \in CallRec \cup {Access!NoCall},
           call' = [call EXCEPT ![c] = next]
    PROVE  /\ call' \in [Calls -> CallRec \cup {Access!NoCall}] /\ call'[c] = next
           /\ ~(call[c].kind = "complete" /\ call[c].at = "done") => (Answering => Answering')
<1>1. call \in [Calls -> CallRec \cup {Access!NoCall}] BY AccessOthers DEF OtherTypes
<1>2. call' \in [Calls -> CallRec \cup {Access!NoCall}] /\ call'[c] = next BY <1>1
<1>3. \A d \in Calls : d # c => call'[d] = call[d] BY <1>1
<1> QED BY <1>2, <1>3 DEF Answering

\* Nothing the page depends on changes.
LEMMA QuietKeepsAccess ==
    ASSUME AccessInv, UNCHANGED <<account, cookie, nav, page, stale>>, OtherTypes',
           Answering => Answering'
    PROVE  AccessInv'
<1>1. Access!AccessTypeOK' BY DEF AccessInv, Access!AccessTypeOK, OtherTypes, CallRec
<1>2. nav' # Access!NoNav => NavOK' BY DEF AccessInv, NavOK, Access!Frame, Refused
<1>3. FrameOK' BY DEF AccessInv, FrameOK, Access!Frame
<1>4. SettledOK' BY DEF AccessInv, SettledOK, Refused
<1> QED BY <1>1, <1>2, <1>3, <1>4 DEF AccessInv

\* A fresh navigation is under way.
LEMMA FreshKeepsAccess ==
    ASSUME AccessInv, account' \in Access!Account, cookie' \in BOOLEAN, stale' \in BOOLEAN,
           page' = page, OtherTypes',
           nav' \in Access!Navs, nav' # Access!NoNav, nav'.fresh, NavOK'
    PROVE  AccessInv'
<1>1. Access!AccessTypeOK' BY DEF AccessInv, Access!AccessTypeOK, OtherTypes, CallRec
<1> QED BY <1>1 DEF AccessInv, FrameOK, SettledOK

\* The others change the account or the session.
LEMMA DisturbKeepsAccess ==
    ASSUME AccessInv, account' \in Access!Account, cookie' \in BOOLEAN, page' = page,
           OtherTypes', Access!Disturb
    PROVE  AccessInv'
<1>1. /\ nav' \in Access!Navs \cup {Access!NoNav} /\ stale'
      /\ nav' # Access!NoNav => NavOK'
  BY Disturbed
<1>2. stale' = TRUE BY DEF Access!Disturb
<1>3. Access!AccessTypeOK'
  BY <1>1, <1>2 DEF AccessInv, Access!AccessTypeOK, OtherTypes, CallRec
<1> QED BY <1>1, <1>3 DEF AccessInv, FrameOK, SettledOK

LEMMA AccessStart == BackofficeInit => AccessInv
<1> SUFFICES ASSUME Access!AccessInit PROVE AccessInv BY DEF BackofficeInit
<1>1. PICK p \in Access!Paths : nav = Access!Load(p, TRUE, TRUE, "blank")
  BY DEF Access!AccessInit
<1>2. PICK yes : yes = TRUE OBVIOUS
<1>3. /\ nav \in Access!Navs /\ nav.at = "proxy" /\ nav.path = p /\ nav.fresh = yes
      /\ nav.hard = yes /\ nav.frame = "blank" /\ nav.pending = {"layout", "page"}
      /\ nav # Access!NoNav
  <2>1. yes \in BOOLEAN /\ "blank" \in Access!Frames BY <1>2 DEF Access!Frames
  <2>2. nav = Access!Load(p, yes, yes, "blank") BY <1>1, <1>2
  <2> QED BY <2>1, <2>2, Loaded
<1>4. Access!AccessTypeOK
  <2>1. call \in [Calls -> CallRec \cup {Access!NoCall}] BY DEF Access!AccessInit
  <2>2. page \in [path : Access!Paths, frame : Access!Frames, refused : BOOLEAN]
    BY DEF Access!AccessInit, Access!Paths, Access!Frames
  <2>3. account \in Access!Account /\ cookie \in BOOLEAN /\ busy = {} /\ clicks = 0
        /\ stale = FALSE
    BY DEF Access!AccessInit
  <2>4. 0 \in 0..MaxClicks BY BackofficeAssumption
  <2> QED BY <1>3, <2>1, <2>2, <2>3, <2>4 DEF Access!AccessTypeOK, CallRec
<1> QED BY <1>2, <1>3, <1>4 DEF AccessInv, NavOK, FrameOK, SettledOK

LEMMA ProxyKeepsAccess == ASSUME AccessInv, Access!Proxy PROVE AccessInv'
<1>1. PICK signedIn \in {cookie, FALSE} :
          LET to == Access!Redirect(nav.path, signedIn)
          IN  /\ nav' = [nav EXCEPT
                     !.at = IF to # "none" THEN "proxy"
                            ELSE IF nav.path = "/auth/confirm" THEN "confirm" ELSE "render",
                     !.path = IF to # "none" THEN to ELSE nav.path,
                     !.signedIn = cookie,
                     !.clean = @ /\ signedIn = cookie]
              /\ IF signedIn = cookie THEN UNCHANGED clicks ELSE Access!Happens
  BY DEF Access!Proxy
<1>2. nav.at = "proxy" /\ UNCHANGED <<account, cookie, page, call, busy, stale>>
  BY DEF Access!Proxy
<1>3. nav # Access!NoNav BY <1>2 DEF Access!NoNav
<1>4. nav \in Access!Navs /\ NavOK /\ nav.clean \in BOOLEAN /\ nav.path \in Access!Paths
  BY <1>3, AccessTypes DEF Access!Navs
<1>5. PICK to : to = Access!Redirect(nav.path, signedIn) OBVIOUS
<1>6. to \in {"/login", "/", "none"} BY <1>5 DEF Access!Redirect
<1>7. PICK at, path, clean :
          /\ at = IF to # "none" THEN "proxy"
                  ELSE IF nav.path = "/auth/confirm" THEN "confirm" ELSE "render"
          /\ path = IF to # "none" THEN to ELSE nav.path
          /\ clean = (nav.clean /\ signedIn = cookie)
  OBVIOUS
<1>8. /\ at \in {"proxy", "confirm", "render"} /\ path \in Access!Paths /\ clean \in BOOLEAN
      /\ cookie \in BOOLEAN
  BY <1>4, <1>6, <1>7, AccessTypes
<1>9. nav' = [nav EXCEPT !.at = at, !.path = path, !.signedIn = cookie, !.clean = clean]
  BY <1>1, <1>5, <1>7
<1>10. /\ nav' \in Access!Navs /\ nav'.at = at /\ nav'.path = path /\ nav'.signedIn = cookie
       /\ nav'.clean = clean /\ nav'.fresh = nav.fresh /\ nav'.hard = nav.hard
       /\ nav'.frame = nav.frame /\ nav'.refused = nav.refused /\ nav'.pending = nav.pending
  BY <1>4, <1>8, <1>9 DEF Access!Navs
<1>11. nav' # Access!NoNav BY <1>10 DEF Access!Navs, Access!NoNav
<1>12. nav.pending = {"layout", "page"} BY <1>2, <1>4 DEF NavOK
<1>13. NavOK'
  <2>1. /\ nav'.hard => nav'.fresh
        /\ nav'.pending = {"layout", "page"}
        /\ nav'.at = "confirm" => nav'.path = "/auth/confirm"
        /\ ~nav'.fresh => nav'.frame = page'.frame /\ nav'.path # "/auth/confirm"
    BY <1>2, <1>4, <1>6, <1>7, <1>10, <1>12 DEF NavOK
  <2>2. nav'.at = "render" /\ nav'.clean => (cookie' <=> nav'.path # "/login")
    <3> SUFFICES ASSUME at = "render", clean PROVE cookie <=> path # "/login"
      BY <1>2, <1>10
    <3>1. /\ signedIn = cookie /\ to = "none" /\ path = nav.path
          /\ nav.path # "/auth/confirm"
      BY <1>7
    <3>2. Access!Redirect(path, cookie) = "none" BY <1>5, <3>1
    <3> QED BY <1>8, <3>1, <3>2 DEF Access!Redirect, Access!IsPublic
  <2> QED BY <1>2, <1>10, <2>1, <2>2 DEF NavOK
<1>14. OtherTypes'
  BY <1>1, <1>2, AccessOthers, BackofficeAssumption DEF OtherTypes, Access!Happens
<1>15. FrameOK'
  BY <1>2, <1>3, <1>10, <1>11 DEF AccessInv, FrameOK, Answering, Access!Frame
<1>16. Access!AccessTypeOK'
  BY <1>2, <1>10, <1>14 DEF AccessInv, Access!AccessTypeOK, OtherTypes, CallRec
<1>17. SettledOK' BY <1>11 DEF SettledOK
<1> QED BY <1>11, <1>13, <1>15, <1>16, <1>17 DEF AccessInv

LEMMA ConfirmKeepsAccess == ASSUME AccessInv, Access!Confirm PROVE AccessInv'
<1>1. nav.at = "confirm" /\ UNCHANGED <<account, page, call, busy, clicks, stale>>
  BY DEF Access!Confirm
<1>2. nav # Access!NoNav BY <1>1 DEF Access!NoNav
<1>3. nav \in Access!Navs /\ NavOK BY <1>2, AccessTypes
<1>4. PICK path \in Access!Paths : nav' = [nav EXCEPT !.at = "proxy", !.path = path]
  BY DEF Access!Confirm, Access!Paths
<1>5. cookie' \in BOOLEAN BY AccessTypes DEF Access!Confirm
<1>6. /\ nav' \in Access!Navs /\ nav'.at = "proxy" /\ nav'.path = path
      /\ nav'.fresh = nav.fresh /\ nav'.hard = nav.hard /\ nav'.frame = nav.frame
      /\ nav'.pending = nav.pending
  BY <1>3, <1>4 DEF Access!Navs
<1>7. nav'.fresh BY <1>1, <1>3, <1>6, AccessTypes DEF NavOK, Access!Navs
<1>8. nav' # Access!NoNav BY <1>6 DEF Access!NoNav
<1>9. NavOK' BY <1>1, <1>3, <1>6, <1>7 DEF NavOK
<1>10. OtherTypes' BY <1>1, AccessOthers DEF OtherTypes
<1> QED BY <1>1, <1>5, <1>6, <1>7, <1>8, <1>9, <1>10, AccessTypes, FreshKeepsAccess

LEMMA RenderLayoutKeepsAccess == ASSUME AccessInv, Access!RenderLayout PROVE AccessInv'
<1>1. /\ nav.at = "render" /\ "layout" \in nav.pending
      /\ UNCHANGED <<account, cookie, page, call, busy, clicks>>
  BY DEF Access!RenderLayout
<1>2. nav # Access!NoNav BY <1>1 DEF Access!NoNav
<1>3. nav \in Access!Navs /\ NavOK BY <1>2, AccessTypes
<1>4. PICK frame, clean :
          /\ nav'.frame = frame /\ nav'.clean = clean
          /\ frame \in Access!Frames /\ clean \in BOOLEAN
          /\ nav' \in Access!Navs /\ nav'.pending = nav.pending \ {"layout"}
          /\ nav'.at = nav.at /\ nav'.path = nav.path /\ nav'.fresh = nav.fresh
          /\ nav'.hard = nav.hard /\ nav'.signedIn = nav.signedIn
          /\ nav'.refused = nav.refused
          /\ \/ ~nav.fresh /\ frame = nav.frame /\ clean = nav.clean /\ stale' = stale
             \/ nav.fresh /\ frame = Access!Frame(nav.signedIn) /\ clean = nav.clean
                    /\ stale' = stale
             \/ nav.fresh /\ ~clean /\ stale' = TRUE
  <2>1. nav.frame \in Access!Frames /\ nav.clean \in BOOLEAN BY <1>3 DEF Access!Navs
  <2>2. CASE ~nav.fresh /\ nav' = [nav EXCEPT !.pending = @ \ {"layout"}] /\ UNCHANGED stale
    <3>1. /\ nav' \in Access!Navs /\ nav'.pending = nav.pending \ {"layout"}
          /\ nav'.at = nav.at /\ nav'.path = nav.path /\ nav'.fresh = nav.fresh
          /\ nav'.hard = nav.hard /\ nav'.signedIn = nav.signedIn
          /\ nav'.refused = nav.refused /\ nav'.frame = nav.frame /\ nav'.clean = nav.clean
      BY <1>3, <2>2 DEF Access!Navs
    <3> QED BY <2>1, <2>2, <3>1
  <2>3. CASE /\ nav.fresh /\ UNCHANGED stale
             /\ nav' = [nav EXCEPT !.pending = @ \ {"layout"}, !.frame = Access!Frame(nav.signedIn)]
    <3>1. PICK frame : frame = Access!Frame(nav.signedIn) OBVIOUS
    <3>2. frame \in Access!Frames BY <3>1 DEF Access!Frame, Access!Frames
    <3>3. nav' = [nav EXCEPT !.pending = @ \ {"layout"}, !.frame = frame] BY <2>3, <3>1
    <3>4. /\ nav' \in Access!Navs /\ nav'.pending = nav.pending \ {"layout"}
          /\ nav'.at = nav.at /\ nav'.path = nav.path /\ nav'.fresh = nav.fresh
          /\ nav'.hard = nav.hard /\ nav'.signedIn = nav.signedIn
          /\ nav'.refused = nav.refused /\ nav'.frame = frame /\ nav'.clean = nav.clean
      BY <1>3, <3>2, <3>3 DEF Access!Navs
    <3> QED BY <2>1, <2>3, <3>1, <3>2, <3>4
  <2>4. ASSUME nav.fresh, stale' = TRUE, NEW frame \in {"setup", "bare"},
               nav' = [nav EXCEPT !.pending = @ \ {"layout"}, !.frame = frame, !.clean = FALSE]
        PROVE  /\ frame \in Access!Frames /\ nav' \in Access!Navs
               /\ nav'.pending = nav.pending \ {"layout"}
               /\ nav'.at = nav.at /\ nav'.path = nav.path /\ nav'.fresh = nav.fresh
               /\ nav'.hard = nav.hard /\ nav'.signedIn = nav.signedIn
               /\ nav'.refused = nav.refused /\ nav'.frame = frame /\ nav'.clean = FALSE
    <3>1. frame \in Access!Frames BY DEF Access!Frames
    <3> QED BY <1>3, <2>4, <3>1 DEF Access!Navs
  <2>5. CASE \E frame \in {"setup", "bare"} :
                 /\ nav.fresh /\ stale' = TRUE
                 /\ nav' = [nav EXCEPT !.pending = @ \ {"layout"}, !.frame = frame,
                                       !.clean = FALSE]
    BY <2>4, <2>5
  <2> QED BY <2>2, <2>3, <2>5 DEF Access!RenderLayout
<1>5. nav' # Access!NoNav BY <1>1, <1>4 DEF Access!NoNav
<1>6. NavOK'
  <2>1. /\ nav'.hard => nav'.fresh
        /\ nav'.at = "render"
        /\ ~nav'.fresh => nav'.frame = page'.frame /\ nav'.path # "/auth/confirm"
    BY <1>1, <1>3, <1>4 DEF NavOK
  <2>2. ASSUME nav'.clean
        PROVE  /\ nav'.signedIn = cookie' /\ (cookie' <=> nav'.path # "/login")
               /\ nav'.fresh => nav'.frame = Access!Frame(cookie)
               /\ "page" \notin nav'.pending => nav'.refused = Refused(nav'.path)
    BY <1>1, <1>3, <1>4, <2>2 DEF NavOK
  <2> QED BY <1>1, <2>1, <2>2 DEF NavOK, Refused, Access!Frame
<1>7. FrameOK'
  <2>1. (stale' = stale \/ stale' = TRUE) /\ nav'.fresh = nav.fresh BY <1>4
  <2>2. FrameOK BY DEF AccessInv
  <2> QED BY <1>1, <1>2, <1>5, <2>1, <2>2 DEF FrameOK, Answering, Access!Frame
<1>8. Access!AccessTypeOK'
  <2>1. OtherTypes' BY <1>1, AccessOthers DEF OtherTypes
  <2>2. stale' \in BOOLEAN BY <1>4, AccessTypes
  <2> QED BY <1>1, <1>4, <2>1, <2>2 DEF AccessInv, Access!AccessTypeOK, OtherTypes, CallRec
<1>9. SettledOK' BY <1>5 DEF SettledOK
<1> QED BY <1>5, <1>6, <1>7, <1>8, <1>9 DEF AccessInv

LEMMA RenderPageKeepsAccess == ASSUME AccessInv, Access!RenderPage PROVE AccessInv'
<1>1. /\ nav.at = "render" /\ "page" \in nav.pending
      /\ UNCHANGED <<account, cookie, page, call, busy, clicks>>
  BY DEF Access!RenderPage
<1>2. nav # Access!NoNav BY <1>1 DEF Access!NoNav
<1>3. nav \in Access!Navs /\ NavOK BY <1>2, AccessTypes
<1>4. PICK refused, clean :
          /\ nav'.refused = refused /\ nav'.clean = clean
          /\ refused \in BOOLEAN /\ clean \in BOOLEAN
          /\ nav' \in Access!Navs /\ nav'.pending = nav.pending \ {"page"}
          /\ nav'.at = nav.at /\ nav'.path = nav.path /\ nav'.fresh = nav.fresh
          /\ nav'.hard = nav.hard /\ nav'.signedIn = nav.signedIn /\ nav'.frame = nav.frame
          /\ \/ /\ clean = nav.clean /\ stale' = stale
                /\ refused = (/\ nav.path = "/account/security"
                              /\ ~(nav.signedIn /\ account.active
                                      /\ account.role \in Access!Managers))
             \/ ~clean /\ stale' = TRUE
  <2>1. nav.clean \in BOOLEAN BY <1>3 DEF Access!Navs
  <2>2. PICK no : no = (/\ nav.path = "/account/security"
                        /\ ~(nav.signedIn /\ account.active
                                /\ account.role \in Access!Managers))
    OBVIOUS
  <2>3. no \in BOOLEAN BY <2>2
  <2>4. CASE nav' = [nav EXCEPT !.pending = @ \ {"page"}, !.refused = no] /\ UNCHANGED stale
    <3>1. /\ nav' \in Access!Navs /\ nav'.pending = nav.pending \ {"page"}
          /\ nav'.at = nav.at /\ nav'.path = nav.path /\ nav'.fresh = nav.fresh
          /\ nav'.hard = nav.hard /\ nav'.signedIn = nav.signedIn /\ nav'.frame = nav.frame
          /\ nav'.refused = no /\ nav'.clean = nav.clean
      BY <1>3, <2>3, <2>4 DEF Access!Navs
    <3> QED BY <2>1, <2>2, <2>3, <2>4, <3>1
  <2>5. CASE /\ nav' = [nav EXCEPT !.pending = @ \ {"page"}, !.refused = TRUE, !.clean = FALSE]
             /\ stale' = TRUE
    <3>1. /\ nav' \in Access!Navs /\ nav'.pending = nav.pending \ {"page"}
          /\ nav'.at = nav.at /\ nav'.path = nav.path /\ nav'.fresh = nav.fresh
          /\ nav'.hard = nav.hard /\ nav'.signedIn = nav.signedIn /\ nav'.frame = nav.frame
          /\ nav'.refused = TRUE /\ nav'.clean = FALSE
      BY <1>3, <2>5 DEF Access!Navs
    <3> QED BY <2>5, <3>1
  <2>6. \/ nav' = [nav EXCEPT !.pending = @ \ {"page"}, !.refused = no] /\ UNCHANGED stale
        \/ /\ nav' = [nav EXCEPT !.pending = @ \ {"page"}, !.refused = TRUE, !.clean = FALSE]
           /\ stale' = TRUE
    BY <2>2 DEF Access!RenderPage
  <2> QED BY <2>4, <2>5, <2>6
<1>5. nav' # Access!NoNav BY <1>1, <1>4 DEF Access!NoNav
<1>6. NavOK'
  <2>1. /\ nav'.hard => nav'.fresh
        /\ nav'.at = "render"
        /\ ~nav'.fresh => nav'.frame = page'.frame /\ nav'.path # "/auth/confirm"
    BY <1>1, <1>3, <1>4 DEF NavOK
  <2>2. ASSUME nav'.clean
        PROVE  /\ nav'.signedIn = cookie' /\ (cookie' <=> nav'.path # "/login")
               /\ nav'.refused = Refused(nav'.path)
               /\ nav'.fresh /\ "layout" \notin nav'.pending =>
                      nav'.frame = Access!Frame(cookie) \/ (~nav'.hard /\ Answering)
    <3>1. /\ nav.clean /\ clean = nav.clean /\ nav.signedIn = cookie
          /\ cookie <=> nav.path # "/login"
          /\ nav.fresh /\ "layout" \notin nav.pending =>
                 nav.frame = Access!Frame(cookie) \/ (~nav.hard /\ Answering)
      BY <1>1, <1>3, <1>4, <2>2 DEF NavOK
    <3>2. refused = (/\ nav.path = "/account/security"
                     /\ ~(cookie /\ account.active /\ account.role \in Access!Managers))
      BY <1>4, <2>2, <3>1
    <3>3. refused = Refused(nav.path) BY <3>2 DEF Refused
    <3> QED BY <1>1, <1>4, <3>1, <3>3
  <2> QED BY <1>1, <2>1, <2>2 DEF NavOK, Refused, Answering, Access!Frame
<1>7. FrameOK'
  <2>1. (stale' = stale \/ stale' = TRUE) /\ nav'.fresh = nav.fresh BY <1>4
  <2>2. FrameOK BY DEF AccessInv
  <2> QED BY <1>1, <1>2, <1>5, <2>1, <2>2 DEF FrameOK, Answering, Access!Frame
<1>8. Access!AccessTypeOK'
  <2>1. OtherTypes' BY <1>1, AccessOthers DEF OtherTypes
  <2>2. stale' \in BOOLEAN BY <1>4, AccessTypes
  <2> QED BY <1>1, <1>4, <2>1, <2>2 DEF AccessInv, Access!AccessTypeOK, OtherTypes, CallRec
<1>9. SettledOK' BY <1>5 DEF SettledOK
<1> QED BY <1>5, <1>6, <1>7, <1>8, <1>9 DEF AccessInv

\* A page is shown: it takes over what its navigation knew.
LEMMA ShowKeepsAccess == ASSUME AccessInv, Access!Show PROVE AccessInv'
<1>1. /\ nav.at = "render" /\ nav.pending = {}
      /\ page' = [path |-> nav.path, frame |-> nav.frame, refused |-> nav.refused]
      /\ nav' = Access!NoNav
      /\ stale' = ((stale /\ ~nav.fresh) \/ ~nav.clean)
      /\ UNCHANGED <<account, cookie, clicks>>
      /\ busy' = {f \in busy : Access!Stays(f)}
  BY DEF Access!Show
<1>2. nav # Access!NoNav BY <1>1 DEF Access!NoNav
<1>3. nav \in Access!Navs /\ NavOK BY <1>2, AccessTypes
<1>4. /\ nav.path \in Access!Paths /\ nav.frame \in Access!Frames /\ nav.refused \in BOOLEAN
      /\ nav.fresh \in BOOLEAN /\ nav.clean \in BOOLEAN /\ nav.hard \in BOOLEAN
  BY <1>3 DEF Access!Navs
<1>5. /\ page' \in [path : Access!Paths, frame : Access!Frames, refused : BOOLEAN]
      /\ page'.path = nav.path /\ page'.frame = nav.frame /\ page'.refused = nav.refused
  BY <1>1, <1>4
<1>6. call' = [c \in Calls |->
                  IF call[c] = Access!NoCall \/ nav.hard THEN Access!Remains(c)
                  ELSE [call[c] EXCEPT !.mounted =
                           @ /\ Access!Stays(Access!FormOf(call[c].kind))]]
  BY DEF Access!Show
<1>7. ASSUME NEW c \in Calls, call[c] # Access!NoCall, ~nav.hard
      PROVE  /\ call'[c] \in CallRec
             /\ call'[c].kind = call[c].kind /\ call'[c].at = call[c].at
  <2>1. call[c] \in CallRec BY <1>7, AccessOthers DEF OtherTypes
  <2>2. PICK mounted :
            mounted = (call[c].mounted /\ Access!Stays(Access!FormOf(call[c].kind)))
    OBVIOUS
  <2>3. mounted \in BOOLEAN BY <2>2
  <2>4. call'[c] = [call[c] EXCEPT !.mounted = mounted] BY <1>6, <1>7, <2>2
  <2> QED BY <2>1, <2>3, <2>4 DEF CallRec
<1>8. ASSUME NEW c \in Calls, call[c] = Access!NoCall \/ nav.hard
      PROVE  call'[c] \in CallRec \cup {Access!NoCall}
  <2>1. call'[c] = Access!Remains(c) BY <1>6, <1>8
  <2>2. CASE call[c].kind = "complete" /\ call[c].at \in {"asked", "left"}
    <3>1. call[c] \in CallRec BY <2>2, AccessOthers DEF OtherTypes, Access!NoCall
    <3>2. call'[c] = [call[c] EXCEPT !.at = "left", !.mounted = FALSE]
      BY <2>1, <2>2 DEF Access!Remains
    <3> QED BY <3>1, <3>2 DEF CallRec
  <2>3. CASE ~(call[c].kind = "complete" /\ call[c].at \in {"asked", "left"})
    BY <2>1, <2>3 DEF Access!Remains
  <2> QED BY <2>2, <2>3
<1>9. call' \in [Calls -> CallRec \cup {Access!NoCall}] BY <1>6, <1>7, <1>8
<1>10. ~nav.hard /\ Answering => Answering'
  BY <1>7 DEF Answering, Access!NoCall
<1>11. OtherTypes'
  BY <1>1, <1>9, AccessOthers DEF OtherTypes
<1>12. Access!AccessTypeOK'
  <2>1. stale' \in BOOLEAN BY <1>1
  <2> QED BY <1>1, <1>5, <1>11, <2>1 DEF AccessInv, Access!AccessTypeOK, OtherTypes, CallRec
<1>13. ASSUME ~stale'
       PROVE  /\ page'.frame = Access!Frame(cookie) \/ Answering'
              /\ cookie <=> page'.path # "/login"
              /\ page'.refused = Refused(page'.path)
  <2>1. nav.clean /\ (stale => nav.fresh) BY <1>1, <1>4, <1>13
  <2>2. /\ cookie <=> nav.path # "/login"
        /\ nav.refused = Refused(nav.path)
        /\ nav.fresh => nav.frame = Access!Frame(cookie) \/ (~nav.hard /\ Answering)
    BY <1>1, <1>3, <2>1 DEF NavOK
  <2>3. CASE nav.fresh BY <1>5, <1>10, <2>2, <2>3
  <2>4. CASE ~nav.fresh
    <3>1. ~stale /\ ~nav.hard /\ nav.frame = page.frame BY <1>3, <2>1, <2>4 DEF NavOK
    <3>2. page.frame = Access!Frame(cookie) \/ Answering BY <2>4, <3>1
       DEF AccessInv, FrameOK, SettledOK
    <3> QED BY <1>5, <1>10, <2>2, <3>1, <3>2
  <2> QED BY <2>3, <2>4
<1>14. FrameOK'
  BY <1>1, <1>13 DEF FrameOK, Access!Frame
<1>15. SettledOK' BY <1>1, <1>13 DEF SettledOK, Refused
<1> QED BY <1>1, <1>12, <1>14, <1>15 DEF AccessInv

\* A call of a form ends: the forms that stay are as before but for its own flag.
LEMMA EndsKeeps ==
    ASSUME AccessInv, NEW c \in Calls, Access!Ends(c), UNCHANGED clicks
    PROVE  /\ OtherTypes'
           /\ ~(call[c].kind = "complete" /\ call[c].at = "done") => (Answering => Answering')
<1>1. call' = [call EXCEPT ![c] = Access!NoCall] BY DEF Access!Ends
<1>2. /\ call' \in [Calls -> CallRec \cup {Access!NoCall}]
      /\ ~(call[c].kind = "complete" /\ call[c].at = "done") => (Answering => Answering')
  BY <1>1, CallChanges
<1>3. busy' \subseteq Access!Forms BY AccessOthers DEF Access!Ends, OtherTypes
<1> QED BY <1>2, <1>3, AccessOthers DEF OtherTypes

LEMMA SubmitKeepsAccess ==
    ASSUME AccessInv, NEW c \in Calls, NEW kind \in Access!Kinds, Access!Submit(c, kind)
    PROVE  AccessInv'
<1>1. PICK next : next = [kind |-> kind, at |-> "asked", mounted |-> TRUE] OBVIOUS
<1>2. next \in CallRec /\ call' = [call EXCEPT ![c] = next] BY <1>1 DEF CallRec, Access!Submit
<1>3. call[c].kind # "complete" BY DEF Access!Submit, Access!NoCall
<1>4. /\ call' \in [Calls -> CallRec \cup {Access!NoCall}]
      /\ Answering => Answering'
  BY <1>2, <1>3, CallChanges
<1>5. Access!FormOf(kind) \in Access!Forms BY DEF Access!FormOf, Access!Kinds, Access!Forms
<1>6. busy' \subseteq Access!Forms BY <1>5, AccessOthers DEF Access!Submit, OtherTypes
<1>7. clicks' \in 0..MaxClicks
  BY AccessOthers, BackofficeAssumption DEF Access!Submit, Access!Happens, OtherTypes
<1>8. OtherTypes' BY <1>4, <1>6, <1>7 DEF OtherTypes
<1> QED BY <1>4, <1>8, QuietKeepsAccess DEF Access!Submit

\* The router asks for a page because of an answer.
LEMMA RequestKeepsAccess ==
    ASSUME AccessInv, NEW path \in Access!Paths, nav' = Access!Request(path, TRUE),
           cookie' \in BOOLEAN, UNCHANGED <<account, page, stale>>, OtherTypes'
    PROVE  AccessInv'
<1>1. PICK yes : yes = TRUE OBVIOUS
<1>2. yes \in BOOLEAN /\ yes /\ nav' = Access!Request(path, yes) BY <1>1
<1>3. /\ nav' \in Access!Navs /\ nav' # Access!NoNav
      /\ yes => nav'.fresh
      /\ NavOK'
  BY <1>2, Requested
<1> QED BY <1>2, <1>3, AccessTypes, FreshKeepsAccess

LEMMA SignInKeepsAccess ==
    ASSUME AccessInv, NEW c \in Calls, Access!AnswerSignIn(c) PROVE AccessInv'
<1>1. /\ call[c].kind = "signIn" /\ Access!Ends(c) /\ UNCHANGED <<account, page, clicks, stale>>
  BY DEF Access!AnswerSignIn, Access!Asked, Access!Kept
<1>2. OtherTypes' /\ (Answering => Answering') BY <1>1, EndsKeeps
<1>3. CASE cookie' = TRUE /\ nav' = Access!Request("/", TRUE)
  BY <1>1, <1>2, <1>3, AccessTypes, RequestKeepsAccess
<1>4. CASE UNCHANGED <<cookie, nav>> BY <1>1, <1>2, <1>4, QuietKeepsAccess
<1> QED BY <1>3, <1>4 DEF Access!AnswerSignIn

LEMMA LogoutKeepsAccess ==
    ASSUME AccessInv, NEW c \in Calls, Access!AnswerLogout(c) PROVE AccessInv'
<1>1. /\ call[c].kind = "logout" /\ call' = [call EXCEPT ![c] = Access!NoCall]
      /\ UNCHANGED <<account, page, clicks, stale, busy>>
  BY DEF Access!AnswerLogout, Access!Asked, Access!Kept
<1>2. OtherTypes' /\ (Answering => Answering')
  BY <1>1, CallChanges, AccessOthers DEF OtherTypes
<1>3. CASE cookie' \in {FALSE, cookie} /\ nav' = Access!Request("/login", TRUE)
  BY <1>1, <1>2, <1>3, AccessTypes, RequestKeepsAccess
<1>4. CASE UNCHANGED <<cookie, nav>> BY <1>1, <1>2, <1>4, QuietKeepsAccess
<1> QED BY <1>3, <1>4 DEF Access!AnswerLogout

LEMMA ResetKeepsAccess ==
    ASSUME AccessInv, NEW c \in Calls, Access!AnswerReset(c) PROVE AccessInv'
<1>1. call[c].kind = "reset" /\ UNCHANGED <<account, page, clicks, stale, cookie>>
  BY DEF Access!AnswerReset, Access!Asked, Access!Kept
<1>2. CASE Access!Ends(c) /\ nav' = Access!Request("/", TRUE)
  <2>1. OtherTypes' BY <1>1, <1>2, EndsKeeps
  <2> QED BY <1>1, <1>2, <2>1, AccessTypes, RequestKeepsAccess
<1>3. CASE Access!Ends(c) /\ UNCHANGED nav
  <2>1. OtherTypes' /\ (Answering => Answering') BY <1>1, <1>3, EndsKeeps
  <2> QED BY <1>1, <1>3, <2>1, QuietKeepsAccess
<1>4. CASE call' = [call EXCEPT ![c] = Access!NoCall] /\ UNCHANGED <<busy, nav>>
  <2>1. OtherTypes' /\ (Answering => Answering')
    BY <1>1, <1>4, CallChanges, AccessOthers DEF OtherTypes
  <2> QED BY <1>1, <1>4, <2>1, QuietKeepsAccess
<1> QED BY <1>2, <1>3, <1>4 DEF Access!AnswerReset

LEMMA QuietCallsKeepAccess ==
    ASSUME AccessInv, NEW c \in Calls, Access!AnswerSendLink(c) \/ Access!AnswerChange(c)
    PROVE  AccessInv'
<1>1. /\ Access!Ends(c) /\ UNCHANGED <<account, cookie, nav, page, stale, clicks>>
      /\ call[c].kind # "complete"
  BY DEF Access!AnswerSendLink, Access!AnswerChange, Access!Asked, Access!Kept
<1>2. OtherTypes' /\ (Answering => Answering') BY <1>1, EndsKeeps
<1> QED BY <1>1, <1>2, QuietKeepsAccess

LEMMA VerifyKeepsAccess ==
    ASSUME AccessInv, NEW c \in Calls, Access!AnswerVerify(c) PROVE AccessInv'
<1>1. call[c].kind = "change" /\ UNCHANGED <<account, page, clicks>>
  BY DEF Access!AnswerVerify, Access!Asked, Access!Kept
<1>2. CASE Access!Ends(c) /\ UNCHANGED <<cookie, nav, stale>>
  <2>1. OtherTypes' /\ (Answering => Answering') BY <1>1, <1>2, EndsKeeps
  <2> QED BY <1>1, <1>2, <2>1, QuietKeepsAccess
<1>3. CASE /\ cookie' = TRUE /\ call' = [call EXCEPT ![c].at = "second"] /\ UNCHANGED busy
           /\ IF cookie THEN UNCHANGED <<nav, stale>> ELSE Access!Disturb
  <2>1. call[c] \in CallRec
    BY <1>1, AccessOthers DEF OtherTypes, Access!NoCall
  <2>2. PICK next : next = [call[c] EXCEPT !.at = "second"] OBVIOUS
  <2>3. next \in CallRec /\ call' = [call EXCEPT ![c] = next] BY <1>3, <2>1, <2>2 DEF CallRec
  <2>4. OtherTypes' /\ (Answering => Answering')
    BY <1>1, <1>3, <2>3, CallChanges, AccessOthers DEF OtherTypes
  <2>5. CASE cookie
    <3>1. UNCHANGED <<cookie, nav, stale>> BY <1>3, <2>5, AccessTypes
    <3> QED BY <1>1, <2>4, <3>1, QuietKeepsAccess
  <2>6. CASE ~cookie
    <3>1. Access!Disturb BY <1>3, <2>6
    <3>2. account' \in Access!Account /\ cookie' \in BOOLEAN BY <1>1, <1>3, AccessTypes
    <3> QED BY <1>1, <2>4, <3>1, <3>2, DisturbKeepsAccess
  <2> QED BY <2>5, <2>6
<1> QED BY <1>2, <1>3 DEF Access!AnswerVerify

\* The API clears the flag: until the answer is here the frame is of before.
LEMMA CompleteKeepsAccess ==
    ASSUME AccessInv, NEW c \in Calls, Access!CompleteAtServer(c) PROVE AccessInv'
<1>1. call[c].kind = "complete" /\ call[c].at = "asked" /\ UNCHANGED <<cookie, page, busy, clicks>>
  BY DEF Access!CompleteAtServer, Access!Asked
<1>2. call[c] \in CallRec BY <1>1, AccessOthers DEF OtherTypes, Access!NoCall
<1>3. CASE call' = [call EXCEPT ![c].at = "failed"] /\ UNCHANGED <<account, nav, stale>>
  <2>1. PICK next : next = [call[c] EXCEPT !.at = "failed"] OBVIOUS
  <2>2. next \in CallRec /\ call' = [call EXCEPT ![c] = next] BY <1>2, <1>3, <2>1 DEF CallRec
  <2>3. OtherTypes' /\ (Answering => Answering')
    BY <1>1, <2>2, CallChanges, AccessOthers DEF OtherTypes
  <2> QED BY <1>1, <1>3, <2>3, QuietKeepsAccess
<1>4. CASE /\ account' = [account EXCEPT !.mustReset = FALSE]
           /\ call' = [call EXCEPT ![c].at = "done"]
           /\ IF nav # Access!NoNav /\ nav.hard THEN Access!Disturb ELSE UNCHANGED <<nav, stale>>
  <2>1. PICK next : next = [call[c] EXCEPT !.at = "done"] OBVIOUS
  <2>2. /\ next \in CallRec /\ next.kind = "complete" /\ next.at = "done"
        /\ call' = [call EXCEPT ![c] = next]
    BY <1>1, <1>2, <1>4, <2>1 DEF CallRec
  <2>3. call' \in [Calls -> CallRec \cup {Access!NoCall}] /\ call'[c] = next
    BY <2>2, CallChanges
  <2>4. Answering' BY <2>2, <2>3 DEF Answering
  <2>5. OtherTypes' BY <1>1, <2>3, AccessOthers DEF OtherTypes
  <2>6. /\ account' \in Access!Account /\ account'.active = account.active
        /\ account'.role = account.role
    BY <1>4, AccessTypes DEF Access!Account
  <2>7. CASE nav # Access!NoNav /\ nav.hard
    <3>1. Access!Disturb /\ cookie' \in BOOLEAN BY <1>1, <1>4, <2>7, AccessTypes
    <3> QED BY <1>1, <2>5, <2>6, <3>1, DisturbKeepsAccess
  <2>8. CASE ~(nav # Access!NoNav /\ nav.hard)
    <3>1. UNCHANGED <<nav, stale>> BY <1>4, <2>8
    <3>2. Access!AccessTypeOK'
      BY <1>1, <2>5, <2>6, <3>1 DEF AccessInv, Access!AccessTypeOK, OtherTypes, CallRec
    <3>3. ASSUME nav # Access!NoNav PROVE NavOK'
      <4>1. NavOK /\ ~nav.hard BY <2>8, <3>3, AccessTypes
      <4>2. Refused(nav.path)' = Refused(nav.path)
        BY <1>1, <2>6, <3>1 DEF Refused
      <4> QED BY <1>1, <2>4, <3>1, <4>1, <4>2 DEF NavOK
    <3>4. FrameOK' BY <2>4 DEF FrameOK
    <3>5. SettledOK' BY <1>1, <2>6, <3>1 DEF AccessInv, SettledOK, Refused
    <3> QED BY <3>1, <3>2, <3>3, <3>4, <3>5 DEF AccessInv
  <2> QED BY <2>7, <2>8
<1> QED BY <1>3, <1>4 DEF Access!CompleteAtServer

LEMMA AnswerCompleteKeepsAccess ==
    ASSUME AccessInv, NEW c \in Calls, Access!AnswerComplete(c) PROVE AccessInv'
<1>1. /\ call[c].kind = "complete" /\ Access!Ends(c)
      /\ UNCHANGED <<account, cookie, page, clicks>>
  BY DEF Access!AnswerComplete, Access!Kept
<1>2. /\ OtherTypes'
      /\ call[c].at # "done" => (Answering => Answering')
  BY <1>1, EndsKeeps
<1>3. CASE nav' = Access!Request(page.path, TRUE) /\ UNCHANGED stale
  BY <1>1, <1>2, <1>3, AccessTypes, RequestKeepsAccess
<1>4. CASE Access!Disturb BY <1>1, <1>2, <1>4, AccessTypes, DisturbKeepsAccess
<1>5. CASE call[c].at = "failed" /\ UNCHANGED <<nav, stale>>
  BY <1>1, <1>2, <1>5, QuietKeepsAccess
<1> QED BY <1>3, <1>4, <1>5 DEF Access!AnswerComplete

\* The API serves a forced reset whose page is gone, or does not.
LEMMA CompleteLateKeepsAccess ==
    ASSUME AccessInv, NEW c \in Calls, Access!CompleteLate(c) PROVE AccessInv'
<1>1. /\ call[c].at = "left" /\ call' = [call EXCEPT ![c] = Access!NoCall]
      /\ UNCHANGED <<cookie, page, busy, clicks>>
  BY DEF Access!CompleteLate
<1>2. OtherTypes' /\ (Answering => Answering')
  BY <1>1, CallChanges, AccessOthers DEF OtherTypes
<1>3. CASE account' = [account EXCEPT !.mustReset = FALSE] /\ Access!Disturb
  <2>1. account' \in Access!Account /\ cookie' \in BOOLEAN
    BY <1>1, <1>3, AccessTypes DEF Access!Account
  <2> QED BY <1>1, <1>2, <1>3, <2>1, DisturbKeepsAccess
<1>4. CASE UNCHANGED <<account, nav, stale>> BY <1>1, <1>2, <1>4, QuietKeepsAccess
<1> QED BY <1>3, <1>4 DEF Access!CompleteLate

\* A link keeps what is on the page; where the refresh under way is discarded, the
\* page counts as out of date.
LEMMA FollowLinkKeepsAccess == ASSUME AccessInv, Access!FollowLink PROVE AccessInv'
<1>1. PICK path \in Access!Paths :
          /\ Access!Linked(path) \/ (stale /\ path = "/account/security")
          /\ \/ nav' = Access!Request(path, FALSE) /\ UNCHANGED stale
             \/ nav' = Access!Load(path, FALSE, FALSE, page.frame) /\ stale' = TRUE
  BY DEF Access!FollowLink
<1>2. Access!Happens /\ UNCHANGED <<account, cookie, page, call, busy>>
  BY DEF Access!FollowLink
<1>3. path # "/auth/confirm" BY <1>1 DEF Access!Linked
<1>4. PICK no : no = FALSE OBVIOUS
<1>5. no \in BOOLEAN /\ ~no BY <1>4
<1>6. OtherTypes' BY <1>2, AccessOthers, BackofficeAssumption DEF OtherTypes, Access!Happens
<1>7. CASE nav' = Access!Request(path, FALSE) /\ UNCHANGED stale
  <2>1. nav' = Access!Request(path, no) BY <1>4, <1>7
  <2>2. /\ nav' \in Access!Navs /\ nav' # Access!NoNav
        /\ nav # Access!NoNav /\ nav.fresh => nav'.fresh
        /\ NavOK'
    BY <1>2, <1>3, <1>5, <2>1, Requested
  <2>3. Access!AccessTypeOK'
    BY <1>2, <1>6, <1>7, <2>2 DEF AccessInv, Access!AccessTypeOK, OtherTypes, CallRec
  <2>4. FrameOK'
    <3>1. FrameOK BY DEF AccessInv
    <3> QED BY <1>2, <1>7, <2>2, <3>1 DEF FrameOK, Answering, Access!Frame
  <2>5. SettledOK' BY <2>2 DEF SettledOK
  <2> QED BY <2>2, <2>3, <2>4, <2>5 DEF AccessInv
<1>8. CASE nav' = Access!Load(path, FALSE, FALSE, page.frame) /\ stale' = TRUE
  <2>1. nav' = Access!Load(path, no, no, page.frame) BY <1>4, <1>8
  <2>2. page.frame \in Access!Frames BY AccessTypes
  <2>3. /\ nav' \in Access!Navs /\ nav'.at = "proxy" /\ nav'.path = path /\ nav'.fresh = no
        /\ nav'.hard = no /\ nav'.frame = page.frame /\ nav'.pending = {"layout", "page"}
        /\ nav' # Access!NoNav
    BY <1>5, <2>1, <2>2, Loaded
  <2>4. NavOK' BY <1>2, <1>3, <1>5, <2>3 DEF NavOK
  <2>5. Access!AccessTypeOK'
    BY <1>2, <1>6, <1>8, <2>3 DEF AccessInv, Access!AccessTypeOK, OtherTypes, CallRec
  <2> QED BY <1>8, <2>3, <2>4, <2>5 DEF AccessInv, FrameOK, SettledOK
<1> QED BY <1>1, <1>7, <1>8

LEMMA VisitKeepsAccess == ASSUME AccessInv, Access!Visit PROVE AccessInv'
<1>1. PICK path \in Access!Paths : nav' = Access!Load(path, TRUE, TRUE, "blank")
  BY DEF Access!Visit
<1>2. Access!Happens /\ UNCHANGED <<account, cookie, page, call, busy, stale>>
  BY DEF Access!Visit
<1>3. PICK yes : yes = TRUE OBVIOUS
<1>4. yes \in BOOLEAN /\ "blank" \in Access!Frames BY <1>3 DEF Access!Frames
<1>5. nav' = Access!Load(path, yes, yes, "blank") BY <1>1, <1>3
<1>6. /\ nav' \in Access!Navs /\ nav'.at = "proxy" /\ nav'.fresh = yes /\ nav'.hard = yes
      /\ nav'.pending = {"layout", "page"} /\ nav' # Access!NoNav
  BY <1>4, <1>5, Loaded
<1>7. NavOK' BY <1>3, <1>6 DEF NavOK
<1>8. OtherTypes' BY <1>2, AccessOthers, BackofficeAssumption DEF OtherTypes, Access!Happens
<1>9. nav'.fresh BY <1>3, <1>6
<1> QED BY <1>2, <1>6, <1>7, <1>8, <1>9, AccessTypes, FreshKeepsAccess

LEMMA OutsideKeepsAccess == ASSUME AccessInv, Access!Outside PROVE AccessInv'
<1>1. /\ Access!Happens /\ Access!Disturb /\ UNCHANGED <<page, call, busy>>
      /\ account' \in Access!Account /\ cookie' \in BOOLEAN
  BY AccessTypes DEF Access!Outside
<1>2. OtherTypes' BY <1>1, AccessOthers, BackofficeAssumption DEF OtherTypes, Access!Happens
<1> QED BY <1>1, <1>2, DisturbKeepsAccess

LEMMA AccessStep == AccessInv /\ [Access!AccessNext]_access => AccessInv'
<1> SUFFICES ASSUME AccessInv, [Access!AccessNext]_access PROVE AccessInv' OBVIOUS
<1>1. CASE UNCHANGED access
  <2>1. OtherTypes' BY <1>1, AccessOthers DEF OtherTypes, access
  <2>2. Answering => Answering' BY <1>1 DEF Answering, access
  <2> QED BY <1>1, <2>1, <2>2, QuietKeepsAccess DEF access
<1>2. CASE Access!Navigate
  BY <1>2, ProxyKeepsAccess, ConfirmKeepsAccess, RenderLayoutKeepsAccess,
     RenderPageKeepsAccess, ShowKeepsAccess DEF Access!Navigate
<1>3. ASSUME NEW c \in Calls, Access!AnswerCall(c) PROVE AccessInv'
  BY <1>3, SignInKeepsAccess, QuietCallsKeepAccess, LogoutKeepsAccess, CompleteKeepsAccess,
     AnswerCompleteKeepsAccess, CompleteLateKeepsAccess, ResetKeepsAccess, VerifyKeepsAccess
     DEF Access!AnswerCall
<1> HIDE DEF AccessInv
<1> QED
  BY <1>1, <1>2, <1>3, SubmitKeepsAccess, FollowLinkKeepsAccess, VisitKeepsAccess,
     OutsideKeepsAccess DEF Access!AccessNext

---------------------------------------------------------------------------
(* The back office. *)

BackofficeInv == SitesInv /\ StaffInv /\ MenuInv /\ PanelInv /\ AccessInv

vars == <<access, shell, worksites, staff>>

LEMMA BackofficeStep ==
    BackofficeInv /\ [BackofficeNext]_vars => BackofficeInv' /\ [Newer]_shell
<1> SUFFICES ASSUME BackofficeInv, [BackofficeNext]_vars
             PROVE  BackofficeInv' /\ [Newer]_shell
  OBVIOUS
<1>1. [Worksites!WorksitesNext]_worksites /\ [Employees!EmployeesNext]_staff
  BY DEF BackofficeNext, vars
<1>2. [Shell!ShellNext]_shell /\ [Access!AccessNext]_access BY DEF BackofficeNext, vars
<1>3. SitesInv' /\ StaffInv' BY <1>1, SitesStep, StaffStep DEF BackofficeInv
<1>4. MenuInv' /\ Newer /\ PanelInv' BY <1>2, MenuStep, PanelStep DEF BackofficeInv
<1>5. AccessInv' BY <1>2, AccessStep DEF BackofficeInv
<1> QED BY <1>3, <1>4, <1>5 DEF BackofficeInv

\* The arguments about the pages, the shell and the session hold together: each
\* step of the tab keeps all of them.
THEOREM BackofficeInvariant == BackofficeSpec => []BackofficeInv
<1>1. BackofficeInit => BackofficeInv
  BY SitesStart, StaffStart, MenuStart, PanelStart, AccessStart DEF BackofficeInv
<1>2. BackofficeInv /\ [BackofficeNext]_<<access, shell, worksites, staff>> => BackofficeInv'
  BY BackofficeStep DEF vars
<1> QED BY <1>1, <1>2, PTL DEF BackofficeSpec

LEMMA ShellTyped == MenuInv /\ PanelInv => Shell!ShellTypeOK
<1> SUFFICES ASSUME MenuInv, PanelInv PROVE Shell!ShellTypeOK OBVIOUS
<1>1. /\ lists \in Shell!Counts /\ pathname \in Shell!Paths /\ menuOpen \in BOOLEAN
      /\ navCounts \in Shell!Counts \cup {Shell!NoCounts} /\ seen \in Shell!Counts
  BY DEF MenuInv
<1>2. DOMAIN fetches \in {1..n : n \in 1..MaxPaths} BY MenuTypes DEF MenuInv
<1>3. \A f \in DOMAIN fetches :
          fetches[f] # Shell!Ended =>
              \A p \in Shell!Lists : fetches[f].got[p] \in Shell!Unanswered..MaxOthers
  <2> SUFFICES ASSUME NEW f \in DOMAIN fetches, fetches[f] # Shell!Ended
               PROVE  \A p \in Shell!Lists : fetches[f].got[p] \in Shell!Unanswered..MaxOthers
    OBVIOUS
  <2>1. fetches[f] \in FetchRow BY MenuTypes
  <2> QED BY <2>1 DEF FetchRow
<1>4. /\ notes \in [Notes -> Shell!Mark] /\ data.items \in [Notes -> Shell!Mark]
      /\ data.unreadCount \in 0..Cardinality(Notes)
      /\ {panelOpen, loading, error, mixed} \subseteq BOOLEAN
  BY PanelTypes DEF PanelInv, PanelTyped, CallsOK, ItemsHeld
<1>5. DOMAIN calls \in {1..n : n \in 1..MaxCalls} BY PanelTypes
   DEF PanelInv, PanelTyped, CallsOK, ItemsHeld
<1>6. \A i \in Shell!Waiting : calls[i].kind \in {"load", "read", "readAll"}
  BY PanelTypes DEF Shell!Waiting, CallRow
<1>7. Shell!Cardinality(Notes) = Cardinality(Notes) BY SameCardinality
<1> QED BY <1>1, <1>2, <1>3, <1>4, <1>5, <1>6, <1>7 DEF Shell!ShellTypeOK

\* Every variable of the tab has its type, whatever the pages and the shell do.
THEOREM BackofficeTypes == BackofficeSpec => []BackofficeTypeOK
<1>1. BackofficeInv => BackofficeTypeOK
  BY ShellTyped DEF BackofficeInv, BackofficeTypeOK, SitesInv, StaffInv, AccessInv
<1> QED BY <1>1, BackofficeInvariant, PTL

\* What the tab shows when nothing is in flight fits the session and the account
\* of now: the forced reset, the refusal and the way to /login follow a sign-in,
\* a sign-out and a completed reset without a reload (layout.tsx, proxy.ts),
\* unless others changed the account or the session, or an answer was lost.
THEOREM ViewFollowsAccount == BackofficeSpec => []ViewMatchesAccount
<1>1. AccessInv => ViewMatchesAccount
  <2> SUFFICES ASSUME AccessInv, nav = Access!NoNav, \A c \in Calls : call[c] = Access!NoCall,
                      ~stale
               PROVE  /\ page.frame = Access!Frame(cookie)
                      /\ cookie <=> page.path # "/login"
                      /\ page.frame = "shell" /\ Access!Linked(page.path) => ~page.refused
    BY DEF ViewMatchesAccount, Access!ViewMatchesAccount
  <2>1. ~Answering BY DEF Answering, Access!NoCall
  <2>2. page.frame = Access!Frame(cookie) BY <2>1 DEF AccessInv, FrameOK
  <2>3. (cookie <=> page.path # "/login") /\ page.refused = Refused(page.path)
    BY DEF AccessInv, SettledOK
  <2>4. page.frame = "shell" => cookie /\ account.active BY <2>2 DEF Access!Frame
  <2>5. page.frame = "shell" /\ Access!Linked(page.path) => ~Refused(page.path)
    BY <2>4 DEF Access!Linked, Refused
  <2> QED BY <2>2, <2>3, <2>5
<1> QED BY <1>1, BackofficeInvariant, PTL DEF BackofficeInv

\* The counts beside the links of the menu never give way to older ones, in
\* whatever order the fetches of the paths are answered (AppShell's effect).
THEOREM CountsKeepUp == BackofficeSpec => CountsNeverGoBack
<1>1. BackofficeInv /\ [BackofficeNext]_<<access, shell, worksites, staff>> =>
          [navCounts' # Shell!NoCounts =>
              \A p \in Shell!Lists : navCounts'[p] >= seen[p]]_Shell!shellVars
  <2>1. shell = Shell!shellVars
    BY DEF shell, menu, panel, Shell!shellVars, Shell!menuVars, Shell!panelVars
  <2>2. shell' = Shell!shellVars'
    BY DEF shell, menu, panel, Shell!shellVars, Shell!menuVars, Shell!panelVars
  <2> QED BY <2>1, <2>2, BackofficeStep DEF Newer, vars
<1> QED BY <1>1, BackofficeInvariant, PTL
        DEF BackofficeSpec, CountsNeverGoBack, Shell!CountsNeverGoBack

\* The panel shows as read only what the server has as read, and its badge counts
\* the unread it shows, as long as its calls do not overlap (NotificationPanel).
THEOREM ReadIsRead == BackofficeSpec => []ShownReadIsRead
<1>1. PanelInv => ShownReadIsRead
  <2> SUFFICES ASSUME PanelInv PROVE Shell!ShownReadIsRead BY DEF ShownReadIsRead
  <2>1. Shell!Cardinality({n \in Notes : data.items[n] = "unread"})
            = Cardinality({n \in Notes : data.items[n] = "unread"})
    BY SameCardinality
  <2> QED BY <2>1 DEF PanelInv, PanelTyped, CallsOK, ItemsHeld, ReadShown, Shell!ShownReadIsRead
<1> QED BY <1>1, BackofficeInvariant, PTL DEF BackofficeInv

\* A site is only ever saved with the fields that were typed for it, whatever is
\* answered while another form is on the page (WorkforceWorksitesView).
THEOREM SitesKeepTheirFields == BackofficeSpec => []FormSavesItsSite
<1>1. SitesInv => FormSavesItsSite BY DEF SitesInv, FormSavesItsSite
<1> QED BY <1>1, BackofficeInvariant, PTL DEF BackofficeInv

\* A temporary password on show is the one that works for its employee
\* (WorkforceEmployeesView), until someone else changes it.
THEOREM CredentialsAreCurrent == BackofficeSpec => []CredentialIsCurrent
<1>1. StaffInv => CredentialIsCurrent BY DEF StaffInv, CredentialIsCurrent
<1> QED BY <1>1, BackofficeInvariant, PTL DEF BackofficeInv
=============================================================================
