--------------------------- MODULE PayrollPolicy ---------------------------
(***************************************************************************)
(* The versioned payroll policies of one organisation and the two requests *)
(* that change them, PayrollService.createPolicy and approvePolicy         *)
(* (apps/api/src/payroll/payroll.service.ts).                              *)
(*                                                                         *)
(* The API is a set of request slots.  Every awaited database call is a    *)
(* step of its own and other requests run between two of them, so what a   *)
(* request read may be stale when it writes.  The policies considered share *)
(* one name: the version number is the key of the row.                     *)
(***************************************************************************)
EXTENDS Naturals, FiniteSets

CONSTANTS
    Staff,        \* employees of the organisation
    RoleOf,       \* the role of each employee
    NULL,         \* the database's null, and the absence of a row
    PolicySlots,  \* policy requests the API may have in flight
    MaxVersion,   \* bound: policy versions
    MaxCrashes    \* bound: crashes of the API process

Roles == {"EMPLOYEE", "SUPERVISOR", "HR", "PAYROLL", "FINANCE", "ADMIN",
          "AUDITOR"}

Versions == 1..MaxVersion

\* Who prepares and who checks: the role lists passed to PayrollService.actor.
Makers   == {a \in Staff : RoleOf[a] \in {"PAYROLL", "ADMIN"}}
Checkers == {a \in Staff : RoleOf[a] \in {"FINANCE", "ADMIN"}}

PolicyRow == [status     : {"DRAFT", "APPROVED"},
              createdBy  : Staff,
              approvedBy : Staff \cup {NULL}]

ASSUME PolicyAssumption ==
    /\ RoleOf \in [Staff -> Roles]
    /\ NULL \notin Staff /\ NULL \notin PolicyRow
    /\ MaxVersion \in Nat
    /\ MaxCrashes \in Nat

VARIABLES
    policy,    \* the PayrollPolicy table, by version; NULL where no row is
    policyOp,  \* what each request slot is doing
    auditLog,  \* the AuditLog rows about policies
    crashes    \* how often the API process has crashed

policyVars == <<policy, policyOp, auditLog, crashes>>

AuditRow == [action  : {"PAYROLL_POLICY_CREATED", "PAYROLL_POLICY_APPROVED"},
             version : Versions,
             actor   : Staff]

\* A request knows the version it acts on and the employee who sent it.
\* "auditCreated" and "auditApproved": the row is written, its audit is not.
PolicyOp == [pc      : {"idle", "create", "approve", "auditCreated",
                        "auditApproved"},
             actor   : Staff \cup {NULL},
             version : Versions \cup {NULL}]

IdlePolicyOp == [pc |-> "idle", actor |-> NULL, version |-> NULL]

PolicyTypeOK ==
    /\ policy \in [Versions -> PolicyRow \cup {NULL}]
    /\ policyOp \in [PolicySlots -> PolicyOp]
    /\ auditLog \subseteq AuditRow
    /\ crashes \in 0..MaxCrashes

PolicyInit ==
    /\ policy = [v \in Versions |-> NULL]
    /\ policyOp = [s \in PolicySlots |-> IdlePolicyOp]
    /\ auditLog = {}
    /\ crashes = 0

Exists(v) == policy[v] # NULL

---------------------------------------------------------------------------
\* createPolicy: the aggregate query finds the largest version of the name.
CreatePolicyRead(s, a, v) ==
    /\ policyOp[s].pc = "idle"
    /\ a \in Makers
    /\ \A w \in Versions : Exists(w) <=> w < v
    /\ policyOp' = [policyOp EXCEPT ![s] =
                       [pc |-> "create", actor |-> a, version |-> v]]
    /\ UNCHANGED <<policy, auditLog, crashes>>

\* Mutant: the insert is an upsert, a version read by two requests is shared.
CreatePolicyUpsert(s) ==
    /\ policyOp[s].pc = "create"
    /\ policy' = [policy EXCEPT ![policyOp[s].version] =
                     [status     |-> "DRAFT",
                      createdBy  |-> policyOp[s].actor,
                      approvedBy |-> NULL]]
    /\ policyOp' = [policyOp EXCEPT ![s].pc = "auditCreated"]
    /\ UNCHANGED <<auditLog, crashes>>

\* The insert.  @@unique([organizationId, name, version]) fails the request
\* when another one has inserted that version since the aggregate was read.
CreatePolicyWrite(s) ==
    /\ policyOp[s].pc = "create"
    /\ LET v == policyOp[s].version
       IN  \/ /\ ~Exists(v)
              /\ policy' = [policy EXCEPT ![v] =
                               [status     |-> "DRAFT",
                                createdBy  |-> policyOp[s].actor,
                                approvedBy |-> NULL]]
              /\ policyOp' = [policyOp EXCEPT ![s].pc = "auditCreated"]
           \/ /\ Exists(v)
              /\ policyOp' = [policyOp EXCEPT ![s] = IdlePolicyOp]
              /\ UNCHANGED policy
    /\ UNCHANGED <<auditLog, crashes>>

\* Mutant: the author may approve.
ApproveOwnPolicyRead(s, a, v) ==
    /\ policyOp[s].pc = "idle"
    /\ Exists(v)
    /\ a \in Checkers
    /\ policy[v].status = "DRAFT"
    /\ policyOp' = [policyOp EXCEPT ![s] =
                       [pc |-> "approve", actor |-> a, version |-> v]]
    /\ UNCHANGED <<policy, auditLog, crashes>>

\* approvePolicy up to its write: role, maker-checker and status are tested on
\* the row read first.
ApprovePolicyRead(s, a, v) ==
    /\ policyOp[s].pc = "idle"
    /\ Exists(v)
    /\ a \in Checkers
    /\ policy[v].createdBy # a
    /\ policy[v].status = "DRAFT"
    /\ policyOp' = [policyOp EXCEPT ![s] =
                       [pc |-> "approve", actor |-> a, version |-> v]]
    /\ UNCHANGED <<policy, auditLog, crashes>>

\* The update names the row by its id alone: a second approval overwrites the
\* first.
ApprovePolicyWrite(s) ==
    /\ policyOp[s].pc = "approve"
    /\ policy' = [policy EXCEPT ![policyOp[s].version].status = "APPROVED",
                                ![policyOp[s].version].approvedBy =
                                    policyOp[s].actor]
    /\ policyOp' = [policyOp EXCEPT ![s].pc = "auditApproved"]
    /\ UNCHANGED <<auditLog, crashes>>

\* this.audit(...): a write of its own, after the change it reports.
PolicyAudit(s) ==
    /\ policyOp[s].pc \in {"auditCreated", "auditApproved"}
    /\ auditLog' = auditLog \cup
          {[action  |-> IF policyOp[s].pc = "auditCreated"
                        THEN "PAYROLL_POLICY_CREATED"
                        ELSE "PAYROLL_POLICY_APPROVED",
            version |-> policyOp[s].version,
            actor   |-> policyOp[s].actor]}
    /\ policyOp' = [policyOp EXCEPT ![s] = IdlePolicyOp]
    /\ UNCHANGED <<policy, crashes>>

PolicyStep ==
    \E s \in PolicySlots :
        \/ \E a \in Staff, v \in Versions :
              CreatePolicyRead(s, a, v) \/ ApprovePolicyRead(s, a, v)
        \/ CreatePolicyWrite(s)
        \/ ApprovePolicyWrite(s)
        \/ PolicyAudit(s)

\* The process dies: requests in flight are gone, the tables stay.
ForgetPolicyOps == policyOp' = [s \in PolicySlots |-> IdlePolicyOp]

PolicyCrash ==
    /\ crashes < MaxCrashes
    /\ crashes' = crashes + 1
    /\ ForgetPolicyOps
    /\ UNCHANGED <<policy, auditLog>>

PolicyNext == PolicyStep \/ PolicyCrash

PolicySpec == PolicyInit /\ [][PolicyNext]_policyVars

---------------------------------------------------------------------------
\* An approved policy version was approved by a checker other than the
\* employee who wrote it, whichever of several racing approvals came last
\* (approvePolicy's ForbiddenException, docs/UAT.md:8).
PolicyMakerChecker ==
    \A v \in Versions :
        Exists(v) /\ policy[v].status = "APPROVED" =>
            /\ policy[v].approvedBy \in Checkers
            /\ policy[v].approvedBy # policy[v].createdBy

\* A policy version is never taken over: once a row exists its author stays,
\* and once it is approved it stays approved, although the version number is
\* read in one query and inserted in another.
PolicyFrozen ==
    [][\A v \in Versions :
          Exists(v) =>
            /\ policy'[v] # NULL
            /\ policy'[v].createdBy = policy[v].createdBy
            /\ policy[v].status = "APPROVED" => policy'[v].status = "APPROVED"
      ]_policyVars
=============================================================================
