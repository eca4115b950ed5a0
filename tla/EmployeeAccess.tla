--------------------------- MODULE EmployeeAccess ---------------------------
(***************************************************************************)
(* Employees and the Supabase logins they sign in with: the guard in front  *)
(* of every endpoint (apps/api/src/auth/auth.guard.ts), and the endpoints   *)
(* that change an employee, a password or both                              *)
(* (apps/api/src/workforce/workforce.controller.ts).  Requests are slots,   *)
(* each awaited query or call of Supabase is a step; the transactions of    *)
(* the endpoints are one.                                                   *)
(*                                                                         *)
(* Roles, emails and organisations never change once an employee exists.    *)
(***************************************************************************)
EXTENDS FiniteSets, Naturals

CONSTANTS
    Employees,
    RoleOf, EmailOf, OrgOf,  \* of each employee
    Seeded,       \* employees there are from the start
    Users,        \* Supabase users, the subjects of tokens
    UserEmail,    \* the verified email of each, or NULL
    Slots,        \* requests the API may have in flight
    NULL,
    MaxCrashes    \* bound: crashes of the API process

PeopleAdmins == {e \in Employees : RoleOf[e] \in {"ADMIN", "HR"}}

ASSUME AccessAssumption ==
    /\ Seeded \subseteq Employees
    /\ \A e \in Employees : EmailOf[e] # NULL
    /\ NULL \notin Employees /\ NULL \notin Users
    /\ NULL \notin [login : Users \cup {NULL}, reset : BOOLEAN, active : BOOLEAN]
    /\ MaxCrashes \in Nat

\* login: authUserId.  reset: passwordResetRequired.
EmployeeRow == [login : Users \cup {NULL}, reset : BOOLEAN, active : BOOLEAN]

VARIABLES
    employee,  \* the Employee table, NULL where no row is
    password,  \* of each user: chosen by the user, by a reset, or by a reset whose
               \* answer handed it out ("issued")
    op,        \* what each slot is doing
    crashes

vars == <<employee, password, op, crashes>>

\* "use" stands for every endpoint that neither changes this state nor is open
\* while a password must be changed.
Endpoints == {"use", "complete", "reset", "status", "create"}

Passwords == {"own", "temporary", "issued"}

Steps == {"idle", "match", "link", "recheck", "handle", "lookUp",
          "setTemporary", "markReset", "setOwn", "clear", "setStatus"}

\* employee and required: the identity, once the guard has found it.
\* login: the user whose password is changed.
Op == [pc       : Steps,
       user     : Users \cup {NULL},
       endpoint : Endpoints,
       target   : Employees \cup {NULL},
       on       : BOOLEAN,
       employee : Employees \cup {NULL},
       required : BOOLEAN,
       login    : Users \cup {NULL}]

IdleOp == [pc |-> "idle", user |-> NULL, endpoint |-> "use", target |-> NULL,
           on |-> FALSE, employee |-> NULL, required |-> FALSE, login |-> NULL]

TypeOK ==
    /\ employee \in [Employees -> EmployeeRow \cup {NULL}]
    /\ password \in [Users -> Passwords]
    /\ op \in [Slots -> Op]
    /\ crashes \in 0..MaxCrashes

NewEmployee == [login |-> NULL, reset |-> FALSE, active |-> TRUE]

Init ==
    /\ employee = [e \in Employees |-> IF e \in Seeded THEN NewEmployee ELSE NULL]
    /\ password = [u \in Users |-> "own"]
    /\ op = [s \in Slots |-> IdleOp]
    /\ crashes = 0

Exists(e) == employee[e] # NULL

\* authUserId is unique.
Taken(u, e) == \E f \in Employees \ {e} : Exists(f) /\ employee[f].login = u

At(s, pc) == op[s].pc = pc
Handles(s, endpoint) == op[s].pc = "handle" /\ op[s].endpoint = endpoint

Goto(s, pc) == op' = [op EXCEPT ![s].pc = pc]
Finish(s) == op' = [op EXCEPT ![s] = IdleOp]

---------------------------------------------------------------------------
(* AuthGuard *)

\* The end of the guard for a request o of employee e: while the password must be
\* changed, only the endpoint that does so is open; the endpoints of people
\* administration turn others away before their first query.
Admitted(o, e, required) ==
    /\ required => o.endpoint = "complete"
    /\ o.endpoint \in {"reset", "status", "create"} => e \in PeopleAdmins

Enter(s, o, e, required) ==
    op' = [op EXCEPT ![s] =
              IF Admitted(o, e, required)
              THEN [o EXCEPT !.pc       = "handle",
                             !.employee = e,
                             !.required = required]
              ELSE IdleOp]

Request(u, endpoint, target, on) ==
    [IdleOp EXCEPT !.user     = u,
                   !.endpoint = endpoint,
                   !.target   = target,
                   !.on       = on]

\* A token of user u: the row linked to it, if it is active, is the identity.
Find(s, u, endpoint, target, on) ==
    /\ At(s, "idle")
    /\ LET o == Request(u, endpoint, target, on)
       IN  \/ \E e \in Employees :
                 /\ Exists(e) /\ employee[e].login = u /\ employee[e].active
                 /\ Enter(s, o, e, employee[e].reset)
           \/ /\ \A e \in Employees : Exists(e) => employee[e].login # u
              /\ UserEmail[u] # NULL
              /\ op' = [op EXCEPT ![s] = [o EXCEPT !.pc = "match"]]
    /\ UNCHANGED <<employee, password, crashes>>

Matches(u) ==
    {e \in Employees : /\ Exists(e)
                       /\ employee[e].active
                       /\ EmailOf[e] = UserEmail[u]}

Match(s) ==
    /\ At(s, "match")
    /\ \/ \E e \in Employees :
             /\ Matches(op[s].user) = {e}
             /\ \/ /\ employee[e].login = op[s].user
                   /\ Enter(s, op[s], e, employee[e].reset)
                \/ /\ employee[e].login = NULL
                   /\ op' = [op EXCEPT ![s].pc       = "link",
                                       ![s].employee = e,
                                       ![s].required = employee[e].reset]
                \/ /\ employee[e].login \notin {op[s].user, NULL}
                   /\ Finish(s)
       \/ Cardinality(Matches(op[s].user)) # 1 /\ Finish(s)
    /\ UNCHANGED <<employee, password, crashes>>

\* updateMany where authUserId is null; it fails where another row has the login.
Link(s) ==
    /\ At(s, "link")
    /\ LET e == op[s].employee
           u == op[s].user
       IN  \/ /\ employee[e].login # NULL
              /\ Goto(s, "recheck")
              /\ UNCHANGED employee
           \/ /\ employee[e].login = NULL /\ ~Taken(u, e)
              /\ employee' = [employee EXCEPT ![e].login = u]
              /\ Enter(s, op[s], e, op[s].required) \/ Finish(s)  \* the answer is lost
    /\ UNCHANGED <<password, crashes>>

\* Mutant: nobody looks who has linked the row meanwhile.
RecheckNothing(s) ==
    /\ At(s, "recheck")
    /\ Enter(s, op[s], op[s].employee, op[s].required)
    /\ UNCHANGED <<employee, password, crashes>>

Recheck(s) ==
    /\ At(s, "recheck")
    /\ IF employee[op[s].employee].login = op[s].user
       THEN Enter(s, op[s], op[s].employee, op[s].required)
       ELSE Finish(s)
    /\ UNCHANGED <<employee, password, crashes>>

---------------------------------------------------------------------------
(* The endpoints *)

SameOrg(s) == OrgOf[op[s].target] = OrgOf[op[s].employee]

\* createEmployee: email is unique in an organisation.
CreateEmployee(s) ==
    /\ Handles(s, "create")
    /\ IF /\ ~Exists(op[s].target)
          /\ SameOrg(s)
          /\ \A e \in Employees :
                Exists(e) /\ OrgOf[e] = OrgOf[op[s].target] =>
                    EmailOf[e] # EmailOf[op[s].target]
       THEN employee' = [employee EXCEPT ![op[s].target] = NewEmployee]
       ELSE UNCHANGED employee
    /\ Finish(s)
    /\ UNCHANGED <<password, crashes>>

\* Mutant: the login is looked up by email, also that of a linked employee.
ResetReadByEmail(s) ==
    /\ Handles(s, "reset")
    /\ LET t == op[s].target
       IN  IF /\ Exists(t)
              /\ SameOrg(s)
              /\ t # op[s].employee
              /\ ~(RoleOf[op[s].employee] = "HR" /\ RoleOf[t] = "ADMIN")
           THEN Goto(s, "lookUp")
           ELSE Finish(s)
    /\ UNCHANGED <<employee, password, crashes>>

\* resetEmployeePassword
ResetRead(s) ==
    /\ Handles(s, "reset")
    /\ LET t == op[s].target
       IN  IF /\ Exists(t)
              /\ SameOrg(s)
              /\ t # op[s].employee
              /\ ~(RoleOf[op[s].employee] = "HR" /\ RoleOf[t] = "ADMIN")
           THEN op' = [op EXCEPT ![s].pc    = IF employee[t].login = NULL
                                              THEN "lookUp" ELSE "setTemporary",
                                 ![s].login = employee[t].login]
           ELSE Finish(s)
    /\ UNCHANGED <<employee, password, crashes>>

\* resolveUserId: a user with the email of the employee, the first that is listed.
LookUp(s) ==
    /\ At(s, "lookUp")
    /\ \E u \in Users :
          /\ UserEmail[u] = EmailOf[op[s].target]
          /\ op' = [op EXCEPT ![s].pc = "setTemporary", ![s].login = u]
    /\ UNCHANGED <<employee, password, crashes>>

\* updateUserById.  It may have set the password and still report an error.
SetTemporary(s) ==
    /\ At(s, "setTemporary")
    /\ password' = [password EXCEPT ![op[s].login] = "temporary"]
    /\ Goto(s, "markReset") \/ Finish(s)
    /\ UNCHANGED <<employee, crashes>>

\* The password is handed out, unless the answer is lost or the user has chosen
\* another.  (Where resets overlap, either answer counts as that of the last.)
HandOut(u) ==
    password' = [password EXCEPT ![u] = IF @ = "temporary" THEN "issued" ELSE @]

\* Mutant: the transaction is not awaited, the answer comes though it fails.
MarkResetNotAwaited(s) ==
    /\ At(s, "markReset")
    /\ \/ employee' = [employee EXCEPT ![op[s].target].login = op[s].login,
                                      ![op[s].target].reset = TRUE]
       \/ UNCHANGED employee
    /\ HandOut(op[s].login)
    /\ Finish(s)
    /\ UNCHANGED crashes

\* The login looked up is written back, whatever the row holds by now; the
\* transaction fails where another row has it.
MarkReset(s) ==
    /\ At(s, "markReset")
    /\ ~Taken(op[s].login, op[s].target)
    /\ employee' = [employee EXCEPT ![op[s].target].login = op[s].login,
                                   ![op[s].target].reset = TRUE]
    /\ HandOut(op[s].login) \/ UNCHANGED password
    /\ Finish(s)
    /\ UNCHANGED crashes

\* completePasswordReset
CompleteRead(s) ==
    /\ Handles(s, "complete")
    /\ LET row == employee[op[s].employee]
       IN  IF row.active /\ row.reset /\ row.login # NULL
           THEN op' = [op EXCEPT ![s].pc = "setOwn", ![s].login = row.login]
           ELSE Finish(s)
    /\ UNCHANGED <<employee, password, crashes>>

\* As SetTemporary.
SetOwn(s) ==
    /\ At(s, "setOwn")
    /\ password' = [password EXCEPT ![op[s].login] = "own"]
    /\ Goto(s, "clear") \/ Finish(s)
    /\ UNCHANGED <<employee, crashes>>

ClearReset(s) ==
    /\ At(s, "clear")
    /\ employee' = [employee EXCEPT ![op[s].employee].reset = FALSE]
    /\ Finish(s)
    /\ UNCHANGED <<password, crashes>>

\* Mutant: administrators may suspend themselves.
StatusReadOwn(s) ==
    /\ Handles(s, "status")
    /\ IF Exists(op[s].target) /\ SameOrg(s)
       THEN Goto(s, "setStatus")
       ELSE Finish(s)
    /\ UNCHANGED <<employee, password, crashes>>

\* updateEmployeeStatus
StatusRead(s) ==
    /\ Handles(s, "status")
    /\ IF /\ Exists(op[s].target)
          /\ SameOrg(s)
          /\ op[s].on \/ op[s].target # op[s].employee
       THEN Goto(s, "setStatus")
       ELSE Finish(s)
    /\ UNCHANGED <<employee, password, crashes>>

SetStatus(s) ==
    /\ At(s, "setStatus")
    /\ employee' = [employee EXCEPT ![op[s].target].active = op[s].on]
    /\ Finish(s)
    /\ UNCHANGED <<password, crashes>>

---------------------------------------------------------------------------
\* The request ends and nothing was written: it was one that writes nothing, a
\* query or a transaction failed, Supabase found no such user or reported an error.
End(s) ==
    /\ op[s].pc # "idle"
    /\ Finish(s)
    /\ UNCHANGED <<employee, password, crashes>>

\* A signed-in user changes the password at Supabase itself (updatePassword of
\* the app, the reset page of the back office).
ChangeOwn(u) ==
    /\ password' = [password EXCEPT ![u] = "own"]
    /\ UNCHANGED <<employee, op, crashes>>

Crash ==
    /\ crashes < MaxCrashes
    /\ crashes' = crashes + 1
    /\ op' = [s \in Slots |-> IdleOp]
    /\ UNCHANGED <<employee, password>>

Arrive(s) ==
    \E u \in Users :
        \/ \E endpoint \in {"use", "complete"} : Find(s, u, endpoint, NULL, FALSE)
        \/ \E t \in Employees, endpoint \in {"reset", "create"} :
              Find(s, u, endpoint, t, FALSE)
        \/ \E t \in Employees, on \in BOOLEAN : Find(s, u, "status", t, on)

Guard(s) == Match(s) \/ Link(s) \/ Recheck(s)

Handle(s) ==
    \/ CreateEmployee(s)
    \/ ResetRead(s) \/ LookUp(s) \/ SetTemporary(s) \/ MarkReset(s)
    \/ CompleteRead(s) \/ SetOwn(s) \/ ClearReset(s)
    \/ StatusRead(s) \/ SetStatus(s)
    \/ End(s)

Next ==
    \/ \E s \in Slots : Arrive(s) \/ Guard(s) \/ Handle(s)
    \/ \E u \in Users : ChangeOwn(u)
    \/ Crash

Spec == Init /\ [][Next]_vars

---------------------------------------------------------------------------
\* "The API then stores the immutable Supabase user ID in Employee.authUserId"
\* (docs/SECURITY.md:5): an employee who is linked to a login stays linked to it,
\* although resetEmployeePassword writes back a login it looked up earlier.
LinkKept ==
    [][\A e \in Employees :
          Exists(e) /\ employee[e].login # NULL =>
              employee'[e] # NULL /\ employee'[e].login = employee[e].login
      ]_vars

\* Past the guard, a request acts for the employee its token is linked to, also
\* when several first requests race to link a row (resolveEmployeeIdentity).
ActsForLinkedEmployee ==
    \A s \in Slots :
        op[s].pc \notin {"idle", "match", "link", "recheck"} =>
            /\ Exists(op[s].employee)
            /\ employee[op[s].employee].login = op[s].user

\* "The employee signs in with this password and must create a new private
\* password before using HERRERA ATTEND" (workforce-employees-view.tsx:145): where
\* the temporary password an administrator was handed is in force, its login belongs
\* to an employee who must change it, whatever failed or crashed on the way there.
\* Not so when the requests overlap: completePasswordReset clears the flag after
\* another reset has set it.
IssuedIsFlagged ==
    \A u \in Users : password[u] = "issued" =>
        \E e \in Employees : Exists(e) /\ employee[e].login = u /\ employee[e].reset

\* "You cannot suspend your own account" (workforce.controller.ts:104): someone
\* active is left who can administer people.  True of requests one at a time: two
\* administrators may suspend each other.
AdministratorRemains == \E e \in PeopleAdmins : Exists(e) /\ employee[e].active
=============================================================================
