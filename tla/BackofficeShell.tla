--------------------------- MODULE BackofficeShell ---------------------------
(***************************************************************************)
(* What surrounds every page of the back office: the menu, the counts in it *)
(* that are asked for anew on every path, and the notification panel, over  *)
(* the notifications the API keeps. Calls are answered in any order and may *)
(* fail, before or after their effect.                                      *)
(***************************************************************************)
EXTENDS Integers, Sequences, FiniteSets

CONSTANTS
    Notes,     \* notifications of the employee, fewer than the 30 a load asks for
    MaxPaths,  \* bound: paths opened
    MaxCalls,  \* bound: calls of the panel
    MaxOthers  \* bound: what others add to each list behind the counts

Paths == {"/", "/exceptions", "/approvals"}
Lists == {"/exceptions", "/approvals"}  \* the paths that carry a count

VARIABLES
    lists,      \* the server's OPEN exceptions and PENDING requests, as the number
                \* of changes: the later the larger
    pathname, menuOpen,
    navCounts,  \* the counts of the menu, or NoCounts
    fetches,    \* the fetches of the counts, one of each path opened
    seen,       \* history: the last counts on the menu
    notes,      \* the server's notifications
    data,       \* the panel's items and unreadCount
    panelOpen, loading, error,
    calls,      \* the calls of the panel
    mixed       \* history: data was changed by calls that overlapped others or an arrival

menuVars  == <<pathname, menuOpen, navCounts, fetches, seen>>
panelVars == <<data, panelOpen, loading, error, calls, mixed>>
shellVars == <<lists, menuVars, notes, panelVars>>

Unanswered == -1
NoCounts == [p \in Lists |-> Unanswered]
Counts   == [Lists -> 0..MaxOthers]
Mark     == {"absent", "unread", "read"}
NoItems  == [n \in Notes |-> "unanswered"]
Ended    == [kind |-> "ended"]

Fetch(token) == [active |-> TRUE, token |-> token, got |-> NoCounts]
Call(kind, n, token, clean) ==
    [kind |-> kind, note |-> n, token |-> token, clean |-> clean,
     done |-> FALSE, items |-> NoItems, unreadCount |-> Unanswered]

Waiting == {i \in DOMAIN calls : calls[i] # Ended}

ShellTypeOK ==
    /\ lists \in Counts /\ pathname \in Paths /\ menuOpen \in BOOLEAN
    /\ navCounts \in Counts \cup {NoCounts} /\ seen \in Counts
    /\ DOMAIN fetches \in {1..n : n \in 1..MaxPaths}
    /\ \A f \in DOMAIN fetches :
           fetches[f] # Ended => \A p \in Lists : fetches[f].got[p] \in Unanswered..MaxOthers
    /\ notes \in [Notes -> Mark] /\ data.items \in [Notes -> Mark]
    /\ data.unreadCount \in 0..Cardinality(Notes)
    /\ {panelOpen, loading, error, mixed} \subseteq BOOLEAN
    /\ DOMAIN calls \in {1..n : n \in 1..MaxCalls}
    /\ \A i \in Waiting : calls[i].kind \in {"load", "read", "readAll"}

\* The first fetch and the first load leave before SessionProvider's effect has
\* given the API client its token: effects of children run first.
ShellInit ==
    /\ lists = [p \in Lists |-> 0] /\ seen = lists /\ navCounts = NoCounts
    /\ pathname \in Paths /\ menuOpen = FALSE
    /\ fetches = <<Fetch(FALSE)>>
    /\ notes \in [Notes -> Mark]
    /\ data = [items |-> [n \in Notes |-> "absent"], unreadCount |-> 0]
    /\ panelOpen = FALSE /\ loading = TRUE /\ error = FALSE /\ mixed = FALSE
    /\ calls = <<Call("load", "none", FALSE, TRUE)>>

---------------------------------------------------------------------------
(* The menu. *)

\* mutant: the effect has no cleanup
OpenPathKeeps(path) ==
    /\ pathname' = path
    /\ IF path = pathname THEN UNCHANGED <<menuOpen, fetches>>
       ELSE /\ Len(fetches) < MaxPaths
            /\ menuOpen' = FALSE
            /\ fetches' = Append(fetches, Fetch(TRUE))

\* The path changes: the effects of AppShell close the menu, drop the fetch of
\* the last path and ask for the counts again.
OpenPath(path) ==
    /\ pathname' = path
    /\ IF path = pathname THEN UNCHANGED <<menuOpen, fetches>>
       ELSE /\ Len(fetches) < MaxPaths
            /\ menuOpen' = FALSE
            /\ fetches' = Append([f \in DOMAIN fetches |->
                                     IF fetches[f] = Ended THEN Ended
                                     ELSE [fetches[f] EXCEPT !.active = FALSE]], Fetch(TRUE))

FollowMenu(path) ==
    /\ OpenPath(path)
    /\ UNCHANGED <<lists, navCounts, seen, notes, panelVars>>

\* The server answers one of the two requests, not to a caller without a token.
ReadList(f, p) ==
    /\ fetches[f] # Ended /\ fetches[f].token /\ fetches[f].got[p] = Unanswered
    /\ fetches' = [fetches EXCEPT ![f].got[p] = lists[p]]
    /\ UNCHANGED <<lists, pathname, menuOpen, navCounts, seen, notes, panelVars>>

\* then and catch of the effect: both answers, or the first failure.
ShowCounts(f) ==
    /\ fetches[f] # Ended
    /\ \E counts \in {fetches[f].got, NoCounts} :
           /\ counts \in Counts \cup {NoCounts}
           /\ navCounts' = IF fetches[f].active THEN counts ELSE navCounts
           /\ seen' = IF fetches[f].active /\ counts # NoCounts THEN counts ELSE seen
    /\ fetches' = [fetches EXCEPT ![f] = Ended]
    /\ UNCHANGED <<lists, pathname, menuOpen, notes, panelVars>>

OpenMenu ==
    /\ ~menuOpen /\ menuOpen' = TRUE
    /\ UNCHANGED <<lists, pathname, navCounts, fetches, seen, notes, panelVars>>

\* The backdrop and the button of the menu.
CloseMenu ==
    /\ menuOpen /\ menuOpen' = FALSE
    /\ UNCHANGED <<lists, pathname, navCounts, fetches, seen, notes, panelVars>>

\* Escape reaches the menu and the panel.
Escape ==
    /\ menuOpen \/ panelOpen
    /\ menuOpen' = FALSE /\ panelOpen' = FALSE
    /\ UNCHANGED <<lists, pathname, navCounts, fetches, seen, notes, data, loading, error,
                   calls, mixed>>

---------------------------------------------------------------------------
(* The notification panel. *)

\* A call starts; those it overlaps are not clean any more.
Start(kind, n) ==
    /\ Len(calls) < MaxCalls
    /\ calls' = Append([i \in DOMAIN calls |->
                           IF calls[i] = Ended THEN Ended ELSE [calls[i] EXCEPT !.clean = FALSE]],
                       Call(kind, n, TRUE, Waiting = {}))

End(i) == calls' = [calls EXCEPT ![i] = Ended]
InMenu == UNCHANGED <<lists, menuVars>>

\* The bell, and a click outside the panel.
TogglePanel ==
    /\ panelOpen' = ~panelOpen
    /\ InMenu /\ UNCHANGED <<notes, data, loading, error, calls, mixed>>

\* load(), by Refresh and Retry.
Load ==
    /\ panelOpen /\ Start("load", "none")
    /\ loading' = TRUE /\ error' = FALSE
    /\ InMenu /\ UNCHANGED <<notes, data, panelOpen, mixed>>

\* list(): the two queries of one load run side by side.
ListItems(i) ==
    /\ calls[i] # Ended /\ calls[i].kind = "load" /\ calls[i].token
    /\ \/ calls[i].items = NoItems /\ calls' = [calls EXCEPT ![i].items = notes]
       \/ /\ calls[i].unreadCount = Unanswered
          /\ calls' = [calls EXCEPT ![i].unreadCount =
                          Cardinality({n \in Notes : notes[n] = "unread"})]
    /\ InMenu /\ UNCHANGED <<notes, data, panelOpen, loading, error, mixed>>

EndLoad(i) ==
    /\ calls[i] # Ended /\ calls[i].kind = "load" /\ End(i)
    /\ loading' = FALSE
    /\ \/ /\ calls[i].items # NoItems /\ calls[i].unreadCount # Unanswered
          /\ data' = [items |-> calls[i].items, unreadCount |-> calls[i].unreadCount]
          /\ mixed' = ~calls[i].clean
          /\ UNCHANGED error
       \/ error' = TRUE /\ UNCHANGED <<data, mixed>>
    /\ InMenu /\ UNCHANGED <<notes, panelOpen>>

Shown(n) == panelOpen /\ ~loading /\ ~error /\ data.items[n] # "absent"

\* mutant: the item is marked when it is clicked
ClickItemMarks(n) ==
    /\ Shown(n) /\ OpenPath("/approvals")
    /\ IF data.items[n] = "unread"
       THEN /\ Start("read", n)
            /\ data' = [items |-> [data.items EXCEPT ![n] = "read"],
                        unreadCount |-> IF data.unreadCount = 0 THEN 0 ELSE data.unreadCount - 1]
            /\ UNCHANGED panelOpen
       ELSE panelOpen' = FALSE /\ UNCHANGED <<calls, data>>
    /\ UNCHANGED <<lists, navCounts, seen, notes, loading, error, mixed>>

\* An item is a link to /approvals; read(item) asks the server first, and an
\* item that was read only closes the panel.
ClickItem(n) ==
    /\ Shown(n) /\ OpenPath("/approvals")
    /\ IF data.items[n] = "unread" THEN Start("read", n) /\ UNCHANGED panelOpen
       ELSE panelOpen' = FALSE /\ UNCHANGED calls
    /\ UNCHANGED <<lists, navCounts, seen, notes, data, loading, error, mixed>>

\* readAll(), by its button.
ReadAll ==
    /\ panelOpen /\ data.unreadCount > 0 /\ Start("readAll", "none")
    /\ InMenu /\ UNCHANGED <<notes, data, panelOpen, loading, error, mixed>>

\* read and readAll of NotificationsService.
MarkRead(i) ==
    /\ calls[i] # Ended /\ calls[i].kind # "load" /\ ~calls[i].done
    /\ notes' = [n \in Notes |->
                    IF notes[n] = "unread" /\ (calls[i].kind = "readAll" \/ n = calls[i].note)
                    THEN "read" ELSE notes[n]]
    /\ calls' = [calls EXCEPT ![i].done = TRUE]
    /\ InMenu /\ UNCHANGED <<data, panelOpen, loading, error, mixed>>

Marked(i) ==
    {n \in Notes : /\ data.items[n] = "unread"
                   /\ calls[i].kind = "readAll" \/ n = calls[i].note}

\* mutant: the badge is not kept from going below zero
UnreadAfterFalls(i) == IF calls[i].kind = "readAll" THEN 0 ELSE data.unreadCount - 1

UnreadAfter(i) ==
    IF calls[i].kind = "readAll" \/ data.unreadCount = 0 THEN 0 ELSE data.unreadCount - 1

\* The answer changes the items of now, not those of the call; read() then
\* closes the panel. A failure changes nothing.
EndMark(i) ==
    /\ calls[i] # Ended /\ calls[i].kind # "load" /\ End(i)
    /\ \/ /\ calls[i].done
          /\ data' = [items |-> [n \in Notes |-> IF n \in Marked(i) THEN "read" ELSE data.items[n]],
                      unreadCount |-> UnreadAfter(i)]
          /\ panelOpen' = (panelOpen /\ calls[i].kind = "readAll")
          /\ mixed' = (mixed \/ ~calls[i].clean)
       \/ UNCHANGED <<data, panelOpen, mixed>>
    /\ InMenu /\ UNCHANGED <<notes, loading, error>>

---------------------------------------------------------------------------
\* A note arrives, or a list behind the counts changes.
Others ==
    \/ /\ \E n \in Notes : notes[n] = "absent" /\ notes' = [notes EXCEPT ![n] = "unread"]
       /\ calls' = [i \in DOMAIN calls |->
                       IF calls[i] = Ended THEN Ended ELSE [calls[i] EXCEPT !.clean = FALSE]]
       /\ InMenu /\ UNCHANGED <<data, panelOpen, loading, error, mixed>>
    \/ /\ \E p \in Lists : lists[p] < MaxOthers /\ lists' = [lists EXCEPT ![p] = @ + 1]
       /\ UNCHANGED <<menuVars, notes, panelVars>>

ShellNext ==
    \/ \E path \in Paths \ {pathname} : FollowMenu(path)
    \/ \E f \in DOMAIN fetches : ShowCounts(f) \/ \E p \in Lists : ReadList(f, p)
    \/ OpenMenu \/ CloseMenu \/ Escape \/ TogglePanel \/ Load \/ ReadAll
    \/ \E n \in Notes : ClickItem(n)
    \/ \E i \in DOMAIN calls : ListItems(i) \/ EndLoad(i) \/ MarkRead(i) \/ EndMark(i)
    \/ Others

ShellSpec == ShellInit /\ [][ShellNext]_shellVars

---------------------------------------------------------------------------
\* The counts on the menu never give way to older ones, in whatever order the
\* fetches of the paths opened are answered: each is at least as new as the
\* last one shown, also when a failure has emptied the menu in between.
CountsNeverGoBack ==
    [][navCounts' # NoCounts => \A p \in Lists : navCounts'[p] >= seen[p]]_shellVars

\* What the panel shows as read is read at the server, and the badge is the
\* number of unread items, while the calls of the panel do not overlap each
\* other or an arrival. (Two clicks on one item before the first is answered
\* take it off the badge twice; a load between readAll and its answer lets a
\* new item be shown as read.)
ShownReadIsRead ==
    ~mixed =>
        /\ \A n \in Notes : data.items[n] = "read" => notes[n] = "read"
        /\ data.unreadCount = Cardinality({n \in Notes : data.items[n] = "unread"})
=============================================================================
