-------------------------- MODULE BackofficeAccess --------------------------
(***************************************************************************)
(* One browser tab of the back office: the proxy that guards every request, *)
(* the layout that decides what a visitor sees, and the forms that change   *)
(* who is signed in. The layout is rendered anew by a full load and by      *)
(* router.refresh, not by following a link.                                 *)
(***************************************************************************)
EXTENDS Naturals, FiniteSets

CONSTANTS
    Roles,     \* roles of the visitor's employee that may come up
    Calls,     \* calls of the tab to Supabase or the API in flight
    MaxClicks  \* bound: what the visitor, other tabs and HR do, claims that cannot be read

Paths      == {"/", "/login", "/auth/confirm", "/account/security", "/reset-password"}
Backoffice == {"SUPERVISOR", "HR", "PAYROLL", "FINANCE", "ADMIN", "AUDITOR"}  \* BACKOFFICE_ROLES
Managers   == {"HR", "ADMIN", "SUPER_ADMIN"}  \* roles of the Account security link and page
Frames     == {"blank", "bare", "setup", "forced", "shell"}
Forms      == {"login", "logout", "complete", "reset", "change", "recovery"}

VARIABLES
    account,  \* the employee linked to the visitor's login
    cookie,   \* whether the browser holds a session
    nav,      \* the navigation in flight
    page,     \* what the tab shows: a path, the layout's frame, a refusal
    call,     \* the calls in flight
    busy,     \* the forms on the page whose submitting, saving, sending or busy is set
    clicks,   \* things done so far
    stale     \* history: since the layout was rendered others changed account or
              \* cookie, or a read, an answer or a refresh was lost

accessVars == <<account, cookie, nav, page, call, busy, clicks, stale>>

Account == [active : BOOLEAN, role : Roles, mustReset : BOOLEAN]
NoNav   == [at |-> "idle"]
NoCall  == [kind |-> "none"]
Navs    == [at : {"proxy", "confirm", "render"}, path : Paths, fresh : BOOLEAN, hard : BOOLEAN,
            clean : BOOLEAN, signedIn : BOOLEAN, frame : Frames, refused : BOOLEAN,
            pending : SUBSET {"layout", "page"}]
Kinds   == {"signIn", "sendLink"} \cup (Forms \ {"login"})
FormOf(kind) == IF kind \in {"signIn", "sendLink"} THEN "login" ELSE kind

AccessTypeOK ==
    /\ account \in Account /\ cookie \in BOOLEAN
    /\ nav \in Navs \cup {NoNav}
    /\ page \in [path : Paths, frame : Frames, refused : BOOLEAN]
    /\ call \in [Calls -> [kind : Kinds, at : {"asked", "second", "done", "failed", "left"},
                           mounted : BOOLEAN] \cup {NoCall}]
    /\ busy \subseteq Forms
    /\ clicks \in 0..MaxClicks /\ stale \in BOOLEAN

Load(path, fresh, hard, frame) ==
    [at |-> "proxy", path |-> path, fresh |-> fresh, hard |-> hard, clean |-> TRUE,
     signedIn |-> FALSE, frame |-> frame, refused |-> FALSE, pending |-> {"layout", "page"}]

\* The router asks for a page. A router.refresh that still waits behind another
\* page stays in the queue; a full load in flight will replace the whole page.
Request(path, fresh) ==
    IF nav # NoNav /\ nav.hard THEN [nav EXCEPT !.clean = @ /\ ~fresh]
    ELSE Load(path, fresh \/ (nav # NoNav /\ nav.fresh), FALSE, page.frame)

AccessInit ==
    /\ account \in Account /\ cookie \in BOOLEAN
    /\ page = [path |-> "/", frame |-> "blank", refused |-> FALSE]
    /\ nav \in {Load(p, TRUE, TRUE, "blank") : p \in Paths}
    /\ call = [c \in Calls |-> NoCall]
    /\ busy = {} /\ clicks = 0 /\ stale = FALSE

---------------------------------------------------------------------------
(* The server: proxy, confirm route, layout and page. *)

\* mutant: the sign-in page is not public
IsPublicForgetsLogin(path) == path = "/auth/confirm"

IsPublic(path) == path \in {"/login", "/auth/confirm"}

Happens == clicks < MaxClicks /\ clicks' = clicks + 1

\* updateSession: no session and no public page leads to /login, a session
\* and /login lead home; a redirect is a request of its own. When the claims
\* cannot be read the visitor counts as not signed in.
Redirect(path, signedIn) ==
    IF ~signedIn /\ ~IsPublic(path) THEN "/login"
    ELSE IF signedIn /\ path = "/login" THEN "/"
    ELSE "none"

Proxy ==
    /\ nav.at = "proxy"
    /\ \E signedIn \in {cookie, FALSE} :
           LET to == Redirect(nav.path, signedIn)
           IN  /\ nav' = [nav EXCEPT
                      !.at = IF to # "none" THEN "proxy"
                             ELSE IF nav.path = "/auth/confirm" THEN "confirm" ELSE "render",
                      !.path = IF to # "none" THEN to ELSE nav.path,
                      !.signedIn = cookie,
                      !.clean = @ /\ signedIn = cookie]
               /\ IF signedIn = cookie THEN UNCHANGED clicks ELSE Happens
    /\ UNCHANGED <<account, cookie, page, call, busy, stale>>

\* GET of auth/confirm: a good link signs in and leads to the page it names (this
\* route, then without a code, is as a bad link), any other to /login.
Confirm ==
    /\ nav.at = "confirm"
    /\ \/ \E next \in Paths \ {"/auth/confirm"} :
              /\ cookie' = TRUE
              /\ nav' = [nav EXCEPT !.at = "proxy", !.path = next]
       \/ /\ nav' = [nav EXCEPT !.at = "proxy", !.path = "/login"]
          /\ UNCHANGED cookie
    /\ UNCHANGED <<account, page, call, busy, clicks, stale>>

\* RootLayout: what is put around the page.
Frame(signedIn) ==
    IF ~signedIn THEN "bare"
    ELSE IF ~(account.active /\ account.role \in Backoffice) THEN "setup"
    ELSE IF account.mustReset THEN "forced" ELSE "shell"

\* loadAuthState and resolveLinkedEmployee: when the API does not answer there
\* is no employee; when Supabase throws, the visitor is not signed in.
RenderLayout ==
    /\ nav.at = "render" /\ "layout" \in nav.pending
    /\ \/ ~nav.fresh /\ nav' = [nav EXCEPT !.pending = @ \ {"layout"}] /\ UNCHANGED stale
       \/ /\ nav.fresh
          /\ nav' = [nav EXCEPT !.pending = @ \ {"layout"}, !.frame = Frame(nav.signedIn)]
          /\ UNCHANGED stale
       \/ /\ nav.fresh /\ nav.signedIn
          /\ \E frame \in {"setup", "bare"} :
                 nav' = [nav EXCEPT !.pending = @ \ {"layout"}, !.frame = frame, !.clean = FALSE]
          /\ stale' = TRUE
    /\ UNCHANGED <<account, cookie, page, call, busy, clicks>>

\* AccountSecurityPage asks for the session and the employee itself.
RenderPage ==
    /\ nav.at = "render" /\ "page" \in nav.pending
    /\ \/ /\ nav' = [nav EXCEPT !.pending = @ \ {"page"},
                        !.refused = /\ nav.path = "/account/security"
                                    /\ ~(nav.signedIn /\ account.active /\ account.role \in Managers)]
          /\ UNCHANGED stale
       \/ /\ nav.path = "/account/security"
          /\ nav' = [nav EXCEPT !.pending = @ \ {"page"}, !.refused = TRUE, !.clean = FALSE]
          /\ stale' = TRUE
    /\ UNCHANGED <<account, cookie, page, call, busy, clicks>>

\* A form keeps its state as long as it stays on the page: the sign-out button
\* and the forced reset go with the frame, the others with the page as well.
Stays(form) ==
    /\ ~nav.hard /\ page.frame = nav.frame
    /\ form \in {"logout", "complete"} \/ (page.path = nav.path /\ page.refused = nav.refused)

\* What is left of a call when its page goes: the API may still get to serve the
\* forced reset; the others are steps of Supabase's client in the page.
Remains(c) ==
    IF call[c].kind = "complete" /\ call[c].at \in {"asked", "left"}
    THEN [call[c] EXCEPT !.at = "left", !.mounted = FALSE]
    ELSE NoCall

Show ==
    /\ nav.at = "render" /\ nav.pending = {}
    /\ page' = [path |-> nav.path, frame |-> nav.frame, refused |-> nav.refused]
    /\ nav' = NoNav
    /\ call' = [c \in Calls |->
                   IF call[c] = NoCall \/ nav.hard THEN Remains(c)
                   ELSE [call[c] EXCEPT !.mounted = @ /\ Stays(FormOf(call[c].kind))]]
    /\ busy' = {f \in busy : Stays(f)}
    /\ stale' = ((stale /\ ~nav.fresh) \/ ~nav.clean)
    /\ UNCHANGED <<account, cookie, clicks>>

---------------------------------------------------------------------------
(* The forms. *)

\* What is on the page, and not disabled by a call of its own.
Offered(kind) ==
    /\ FormOf(kind) \notin busy
    /\ CASE kind = "logout"   -> page.frame \in {"setup", "shell"}
         [] kind = "complete" -> page.frame = "forced"
         [] OTHER             ->
                /\ page.frame \in {"bare", "shell"}
                /\ CASE FormOf(kind) = "login" -> page.path = "/login"
                     [] kind = "reset"         -> page.path = "/reset-password"
                     [] OTHER                  -> /\ page.path = "/account/security" /\ ~page.refused
                                                  /\ busy \cap {"change", "recovery"} = {}

\* A submit that passes the checks on length and confirmation.
Submit(c, kind) ==
    /\ Happens /\ call[c] = NoCall /\ Offered(kind)
    /\ call' = [call EXCEPT ![c] = [kind |-> kind, at |-> "asked", mounted |-> TRUE]]
    /\ busy' = busy \cup {FormOf(kind)}
    /\ UNCHANGED <<account, cookie, nav, page, stale>>

\* The handler ends: its finally clears the flag, if the form is still there.
Ends(c) ==
    /\ call' = [call EXCEPT ![c] = NoCall]
    /\ busy' = IF call[c].mounted THEN busy \ {FormOf(call[c].kind)} ELSE busy

Asked(c, kind) == call[c].kind = kind /\ call[c].at = "asked"
Kept == UNCHANGED <<account, page, clicks>>

\* History: something the page in flight or on show does not know of.
Disturb ==
    /\ stale' = TRUE
    /\ nav' = IF nav = NoNav THEN NoNav ELSE [nav EXCEPT !.clean = FALSE]

\* SupabaseLoginForm.onSubmit
AnswerSignIn(c) ==
    /\ Asked(c, "signIn") /\ Ends(c)
    /\ \/ cookie' = TRUE /\ nav' = Request("/", TRUE)
       \/ UNCHANGED <<cookie, nav>>
    /\ UNCHANGED stale /\ Kept

\* requestPasswordReset and sendRecoveryEmail
AnswerSendLink(c) ==
    /\ Asked(c, "sendLink") \/ Asked(c, "recovery")
    /\ Ends(c)
    /\ UNCHANGED <<cookie, nav, stale>> /\ Kept

\* LogoutButton: it goes to /login whether the session ended or not, and
\* nothing ever clears its flag.
AnswerLogout(c) ==
    /\ Asked(c, "logout")
    /\ call' = [call EXCEPT ![c] = NoCall]
    /\ \/ cookie' = FALSE /\ nav' = Request("/login", TRUE)
       \/ nav' = Request("/login", TRUE) /\ UNCHANGED cookie
       \/ UNCHANGED <<cookie, nav>>  \* signOut throws
    /\ UNCHANGED <<busy, stale>> /\ Kept

\* ForcedPasswordReset.submit: the API clears the flag of the account, ...
CompleteAtServer(c) ==
    /\ Asked(c, "complete")
    /\ \/ /\ cookie /\ account.active
          /\ account' = [account EXCEPT !.mustReset = FALSE]
          /\ call' = [call EXCEPT ![c].at = "done"]
          /\ IF nav # NoNav /\ nav.hard THEN Disturb ELSE UNCHANGED <<nav, stale>>
       \/ call' = [call EXCEPT ![c].at = "failed"] /\ UNCHANGED <<account, nav, stale>>
    /\ UNCHANGED <<cookie, page, busy, clicks>>

\* mutant: the page is replaced, not refreshed
AnswerCompleteStays(c) ==
    /\ call[c].kind = "complete" /\ call[c].at \in {"done", "failed"} /\ Ends(c)
    /\ \/ call[c].at = "done" /\ nav' = Request(page.path, FALSE) /\ UNCHANGED stale
       \/ call[c].at = "done" /\ Disturb
       \/ call[c].at = "failed" /\ UNCHANGED <<nav, stale>>
    /\ UNCHANGED cookie /\ Kept

\* ... and the answer makes the router refresh, unless it is lost.
AnswerComplete(c) ==
    /\ call[c].kind = "complete" /\ call[c].at \in {"done", "failed"} /\ Ends(c)
    /\ \/ call[c].at = "done" /\ nav' = Request(page.path, TRUE) /\ UNCHANGED stale
       \/ call[c].at = "done" /\ Disturb
       \/ call[c].at = "failed" /\ UNCHANGED <<nav, stale>>
    /\ UNCHANGED cookie /\ Kept

\* Served, or not, after the page that asked is gone.
CompleteLate(c) ==
    /\ call[c].kind = "complete" /\ call[c].at = "left"
    /\ call' = [call EXCEPT ![c] = NoCall]
    /\ \/ /\ account.active
          /\ account' = [account EXCEPT !.mustReset = FALSE]
          /\ Disturb
       \/ UNCHANGED <<account, nav, stale>>
    /\ UNCHANGED <<cookie, page, busy, clicks>>

\* ResetPasswordPage.submit has no finally: what updateUser throws leaves the
\* flag set.
AnswerReset(c) ==
    /\ Asked(c, "reset")
    /\ \/ Ends(c) /\ nav' = Request("/", TRUE)
       \/ Ends(c) /\ UNCHANGED nav
       \/ call' = [call EXCEPT ![c] = NoCall] /\ UNCHANGED <<busy, nav>>
    /\ UNCHANGED <<cookie, stale>> /\ Kept

\* updatePassword of AccountSecurityForm: the current password is verified by
\* signing in with it, which makes a session; then the new one is set.
AnswerVerify(c) ==
    /\ Asked(c, "change")
    /\ \/ /\ cookie' = TRUE
          /\ call' = [call EXCEPT ![c].at = "second"]
          /\ UNCHANGED busy
          /\ IF cookie THEN UNCHANGED <<nav, stale>> ELSE Disturb
       \/ Ends(c) /\ UNCHANGED <<cookie, nav, stale>>
    /\ Kept

AnswerChange(c) ==
    /\ call[c].kind = "change" /\ call[c].at = "second" /\ Ends(c)
    /\ UNCHANGED <<cookie, nav, stale>> /\ Kept

---------------------------------------------------------------------------
(* The visitor and the others. *)

\* The links of the shell (AppShell), by the role of the session.
Linked(path) ==
    \/ path = "/"
    \/ path = "/account/security" /\ account.role \in Managers

\* AppShell reads the role the layout was rendered with, which may be another one
\* once that is out of date. The router discards a refresh it is at when a link is
\* followed.
FollowLink ==
    /\ Happens /\ page.frame = "shell"
    /\ \E path \in Paths :
           /\ Linked(path) \/ (stale /\ path = "/account/security")
           /\ \/ nav' = Request(path, FALSE) /\ UNCHANGED stale
              \/ /\ nav # NoNav /\ nav.fresh /\ ~nav.hard
                 /\ nav' = Load(path, FALSE, FALSE, page.frame)
                 /\ stale' = TRUE
    /\ UNCHANGED <<account, cookie, page, call, busy>>

\* An address typed in, or the link of a mail.
Visit ==
    /\ Happens
    /\ \E path \in Paths : nav' = Load(path, TRUE, TRUE, "blank")
    /\ UNCHANGED <<account, cookie, page, call, busy, stale>>

\* HR changes the employee, a session ends or begins in another tab.
Outside ==
    /\ Happens
    /\ \/ \E a \in Account \ {account} : account' = a /\ UNCHANGED cookie
       \/ cookie' = ~cookie /\ UNCHANGED account
    /\ Disturb
    /\ UNCHANGED <<page, call, busy>>

Navigate == Proxy \/ Confirm \/ RenderLayout \/ RenderPage \/ Show

AnswerCall(c) ==
    \/ AnswerSignIn(c) \/ AnswerSendLink(c) \/ AnswerLogout(c) \/ CompleteAtServer(c)
    \/ AnswerComplete(c) \/ CompleteLate(c) \/ AnswerReset(c) \/ AnswerVerify(c) \/ AnswerChange(c)

AccessNext ==
    \/ Navigate
    \/ \E c \in Calls : AnswerCall(c) \/ \E kind \in Kinds : Submit(c, kind)
    \/ FollowLink \/ Visit \/ Outside

\* Every request is answered in the end, if only with an error.
AccessFairness == WF_accessVars(Navigate) /\ \A c \in Calls : WF_accessVars(AnswerCall(c))

AccessSpec == AccessInit /\ [][AccessNext]_accessVars /\ AccessFairness

---------------------------------------------------------------------------
\* Nobody waits for ever: when the visitor and the others do nothing more, every
\* navigation arrives, however the proxy and the confirm route redirect it, and
\* the forms give their buttons back. (Sign out and reset-password have no
\* finally: see their actions.)
EveryWaitEnds == <>[](nav = NoNav /\ busy \subseteq {"logout", "reset"})

\* When nothing is in flight the tab shows what the session and the account
\* call for: signing in and out and choosing the first own password change
\* what is shown without a reload; and a link of the shell is never refused.
\* Not so after others changed the account or the session, or where an answer was
\* lost or a refresh discarded.
ViewMatchesAccount ==
    nav = NoNav /\ (\A c \in Calls : call[c] = NoCall) /\ ~stale =>
        /\ page.frame = Frame(cookie)
        /\ cookie <=> page.path # "/login"
        /\ page.frame = "shell" /\ Linked(page.path) => ~page.refused
=============================================================================
