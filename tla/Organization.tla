---------------------------- MODULE Organization ----------------------------
(***************************************************************************)
(* The employees of one organization, as the services of pay periods and    *)
(* pilots see them: who there is and which role each has.                   *)
(***************************************************************************)
CONSTANTS
    People,     \* employees of the organization
    RoleOf,     \* the role of each
    NULL        \* no row, no request, a field left out

\* The actor helpers: the employee named in the request has one of the roles.
Actor(roles) == \E a \in People : RoleOf[a] \in roles
=============================================================================
