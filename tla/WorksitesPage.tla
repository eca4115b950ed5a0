---------------------------- MODULE WorksitesPage ----------------------------
(***************************************************************************)
(* The worksites page of the back office and the worksites the API keeps:   *)
(* one form for adding and editing, a map and the device's position that    *)
(* fill in its coordinates, saves and loads that are answered later. Of a   *)
(* site's data only its origin is kept: whose fields they are.              *)
(***************************************************************************)
EXTENDS Naturals, FiniteSets

CONSTANTS
    Sites,      \* worksites that are there at the start or may be added
    Loads,      \* loads in flight at a time
    MaxActions  \* bound: submits, refreshes and questions for the position

VARIABLES
    held,       \* site -> whose fields the server keeps for it, or "absent"
    added,      \* history: the sites added from this page
    rows,       \* the sites listed on the page
    form,       \* [from: whose fields it holds, at: where its coordinates come from]
    editingId, showForm,
    map,        \* the form's map: "none", "importing" Leaflet, "ready"
    saving,     \* the submit in flight, or Idle
    loads,      \* the loads in flight: not read yet, or what was read
    loading,    \* the page's flag, which hides the list
    locating, positions,  \* the button's flag and the questions in flight
    actions

worksiteVars == <<held, added, rows, form, editingId, showForm, map, saving, loads,
                  loading, locating, positions, actions>>

NoSite    == "none"
Blank     == "blank"
emptyForm == [from |-> Blank, at |-> "own"]
Idle      == [step |-> "idle"]
NoLoad    == [at |-> "none"]
Asked     == [at |-> "asked", rows |-> {}]
Forms     == [from : Sites \cup {Blank}, at : {"own", "map", "device"}]
Saves     == [step : {"asked", "done"}, id : Sites \cup {NoSite}, form : Forms]
             \cup [step : {"reload"}, load : Loads]

WorksitesTypeOK ==
    /\ held \in [Sites -> Sites \cup {Blank, "absent"}]
    /\ added \subseteq Sites /\ rows \subseteq Sites
    /\ form \in Forms /\ editingId \in Sites \cup {NoSite} /\ showForm \in BOOLEAN
    /\ map \in {"none", "importing", "ready"} /\ (map = "none" <=> ~showForm)
    /\ saving \in Saves \cup {Idle}
    /\ loads \in [Loads -> [at : {"asked", "read"}, rows : SUBSET Sites] \cup {NoLoad}]
    /\ loading \in BOOLEAN /\ positions \in 0..MaxActions
    /\ locating \in BOOLEAN /\ actions \in 0..MaxActions

WorksitesInit ==
    /\ \E there \in SUBSET Sites : held = [s \in Sites |-> IF s \in there THEN s ELSE "absent"]
    /\ added = {} /\ rows = {} /\ form = emptyForm /\ editingId = NoSite /\ showForm = FALSE
    /\ map = "none" /\ saving = Idle /\ loading = TRUE /\ locating = FALSE /\ positions = 0
    /\ actions = 0
    /\ LET l == CHOOSE l \in Loads : TRUE IN loads = [[k \in Loads |-> NoLoad] EXCEPT ![l] = Asked]

Act == actions < MaxActions /\ actions' = actions + 1

Present == {s \in Sites : held[s] # "absent"}

\* mutant: the form is closed but goes on editing
closeFormKeepsId ==
    form' = emptyForm /\ UNCHANGED editingId /\ showForm' = FALSE /\ map' = "none"

\* closeForm
closeForm ==
    form' = emptyForm /\ editingId' = NoSite /\ showForm' = FALSE /\ map' = "none"

\* The form's map starts to import Leaflet when the form appears.
Opened == showForm' = TRUE /\ map' = IF showForm THEN map ELSE "importing"

\* load()
StartLoad(l) == loads[l] = NoLoad /\ loads' = [loads EXCEPT ![l] = Asked] /\ loading' = TRUE

Add ==
    /\ ~showForm /\ Opened
    /\ UNCHANGED <<held, added, rows, form, editingId, saving, loads, loading, locating,
                   positions, actions>>

\* Cancel, and the header's button while the form is shown.
Cancel ==
    /\ showForm /\ closeForm
    /\ UNCHANGED <<held, added, rows, saving, loads, loading, locating, positions, actions>>

startEdit(site) ==
    /\ ~loading /\ site \in rows
    /\ form' = [from |-> site, at |-> "own"] /\ editingId' = site /\ Opened
    /\ UNCHANGED <<held, added, rows, saving, loads, loading, locating, positions, actions>>

\* initialize() of ManualWorksiteMap; what was imported for a map that is gone
\* (cancelled) changes nothing.
MapReady ==
    /\ map = "importing" /\ map' = "ready"
    /\ UNCHANGED <<held, added, rows, form, editingId, showForm, saving, loads, loading, locating,
                   positions, actions>>

ClickMap ==
    /\ map = "ready" /\ form' = [form EXCEPT !.at = "map"]
    /\ UNCHANGED <<held, added, rows, editingId, showForm, map, saving, loads, loading, locating,
                   positions, actions>>

useCurrentLocation ==
    /\ Act /\ showForm /\ ~locating
    /\ locating' = TRUE /\ positions' = positions + 1
    /\ UNCHANGED <<held, added, rows, form, editingId, showForm, map, saving, loads, loading>>

\* The position goes into the form of now, even one that is closed.
Position ==
    /\ positions > 0 /\ positions' = positions - 1 /\ locating' = FALSE
    /\ form' \in {form, [form EXCEPT !.at = "device"]}
    /\ UNCHANGED <<held, added, rows, editingId, showForm, map, saving, loads, loading, actions>>

\* submit sends what the form holds when it is pressed, to the site edited then.
Submit ==
    /\ Act /\ showForm /\ saving = Idle
    /\ saving' = [step |-> "asked", id |-> editingId, form |-> form]
    /\ UNCHANGED <<held, added, rows, form, editingId, showForm, map, loads, loading, locating,
                   positions>>

\* createWorksite and updateWorksite
SaveAtServer ==
    /\ saving.step = "asked" /\ saving' = [saving EXCEPT !.step = "done"]
    /\ IF saving.id = NoSite
       THEN \E s \in Sites \ Present :
                /\ held' = [held EXCEPT ![s] = saving.form.from]
                /\ added' = added \cup {s}
       ELSE held' = [held EXCEPT ![saving.id] = saving.form.from] /\ UNCHANGED added
    /\ UNCHANGED <<rows, form, editingId, showForm, map, loads, loading, locating, positions,
                   actions>>

\* The answer closes the form of now and loads; a failure, before or after the
\* effect, leaves the form.
Saved ==
    \/ /\ saving.step = "done" /\ closeForm
       /\ \E l \in Loads : StartLoad(l) /\ saving' = [step |-> "reload", load |-> l]
       /\ UNCHANGED <<held, added, rows, locating, positions, actions>>
    \/ /\ saving.step \in {"asked", "done"} /\ saving' = Idle
       /\ UNCHANGED <<held, added, rows, form, editingId, showForm, map, loads, loading,
                      locating, positions, actions>>

Refresh ==
    /\ Act /\ \E l \in Loads : StartLoad(l)
    /\ UNCHANGED <<held, added, rows, form, editingId, showForm, map, saving, locating, positions>>

ReadSites(l) ==
    /\ loads[l].at = "asked" /\ loads' = [loads EXCEPT ![l] = [at |-> "read", rows |-> Present]]
    /\ UNCHANGED <<held, added, rows, form, editingId, showForm, map, saving, loading, locating,
                   positions, actions>>

\* A load ends, with its list or without, and with it the save that waits for it.
Loaded(l) ==
    /\ loads[l] # NoLoad /\ loads' = [loads EXCEPT ![l] = NoLoad] /\ loading' = FALSE
    /\ rows' \in {rows} \cup (IF loads[l].at = "read" THEN {loads[l].rows} ELSE {})
    /\ saving' = IF saving.step = "reload" /\ saving.load = l THEN Idle ELSE saving
    /\ UNCHANGED <<held, added, form, editingId, showForm, map, locating, positions, actions>>

WorksitesNext ==
    \/ Add \/ Cancel \/ MapReady \/ ClickMap \/ useCurrentLocation \/ Position
    \/ Submit \/ SaveAtServer \/ Saved \/ Refresh
    \/ \E l \in Loads : ReadSites(l) \/ Loaded(l)
    \/ \E site \in Sites : startEdit(site)

WorksitesSpec == WorksitesInit /\ [][WorksitesNext]_worksiteVars

---------------------------------------------------------------------------
\* However forms are opened, closed and submitted while saves and loads are in
\* flight: a site only ever gets fields that were typed for it. An edit goes
\* to the site whose row filled the form, and adding makes a new site of a form
\* that started empty, never a copy or a change of one there is.
FormSavesItsSite ==
    \A s \in Sites : held[s] \in {"absent", s} \/ (s \in added /\ held[s] = Blank)
=============================================================================
