----------------------------- MODULE PayrollRun -----------------------------
(***************************************************************************)
(* Payroll runs: created under an approved policy, calculated, adjusted,   *)
(* approved, locked, reopened and shown as payslips                        *)
(* (apps/api/src/payroll/payroll.service.ts).                              *)
(*                                                                         *)
(* Requests are handled as in PayrollPolicy: one step per awaited database *)
(* call.  A request keeps the row it read at the start ("seen") and decides *)
(* by it; the updates carry no condition but the id, so the last one wins. *)
(* Prisma's $transaction([...]) runs under PostgreSQL's READ COMMITTED: a  *)
(* statement sees what was committed when the statement started.           *)
(*                                                                         *)
(* What the engine computes is left out: the lines of one calculation are  *)
(* one batch, told apart by the adjustments it took in.                    *)
(***************************************************************************)
EXTENDS PayrollPolicy

CONSTANTS
    Runs,            \* ids of payroll runs
    Slots,           \* payroll-run requests the API may have in flight
    MaxRevision,     \* bound: how often a run is reopened, plus 1
    MaxAdjustments,  \* bound: manual adjustments of one run
    MaxCalculations  \* bound: calculations of all runs

\* The adjustments of a run are numbered in the order they are created and
\* never removed, so a natural number says which of them a calculation read.
Batch == [calculation : Nat, adjustments : Nat]

RunRow == [status     : {"DRAFT", "CALCULATED", "APPROVED", "LOCKED"},
           revision   : Nat,
           policy     : Versions,
           createdBy  : Staff,
           approvedBy : Staff \cup {NULL},
           hash       : Nat \cup {NULL}]  \* adjustments the hash covers

HistoryRow == [run      : Runs,
               actor    : Staff,
               action   : {"CREATED", "CALCULATED", "APPROVED", "LOCKED",
                           "REOPENED"},
               from     : {"DRAFT", "CALCULATED", "APPROVED", "LOCKED"},
               revision : Nat]

ASSUME RunAssumption ==
    /\ NULL \notin Nat /\ NULL \notin Runs
    /\ NULL \notin RunRow /\ NULL \notin HistoryRow
    /\ MaxRevision \in Nat
    /\ MaxAdjustments \in Nat
    /\ MaxCalculations \in Nat

VARIABLES
    run,              \* the PayrollRun table
    items,            \* the PayrollLineItem rows of each run, by batch
    adjustments,      \* number of PayrollAdjustment rows of each run
    history,          \* the PayrollRunHistory rows
    adjustmentAudit,  \* adjustments with an AuditLog row
    calculations,     \* calculations begun so far; numbers the batches
    op                \* what each request slot is doing

tables  == <<run, items, adjustments, history, adjustmentAudit>>
runVars == <<tables, calculations, op>>
vars    == <<policyVars, runVars>>

Steps == {"idle", "create", "readAdjustments", "deleteItems", "commitItems",
          "adjust", "auditAdjustment", "approve", "lock", "reopen",
          "readItems", "history"}

\* seen: the run row read first.  adjustments: those calculate read, or the
\* one adjust created.  deleted: line items its deleteMany took.  row: the
\* history row still to be written.  version: the policy createRun read.
Op == [pc          : Steps,
       actor       : Staff \cup {NULL},
       run         : Runs \cup {NULL},
       version     : Versions \cup {NULL},
       seen        : RunRow \cup {NULL},
       adjustments : Nat,
       deleted     : SUBSET Batch,
       row         : HistoryRow \cup {NULL}]

IdleOp == [pc |-> "idle", actor |-> NULL, run |-> NULL, version |-> NULL,
           seen |-> NULL, adjustments |-> 0, deleted |-> {}, row |-> NULL]

RunTypeOK ==
    /\ run \in [Runs -> RunRow \cup {NULL}]
    /\ items \in [Runs -> SUBSET Batch]
    /\ adjustments \in [Runs -> Nat]
    /\ history \subseteq HistoryRow
    /\ adjustmentAudit \subseteq Runs \X Nat
    /\ calculations \in Nat
    /\ op \in [Slots -> Op]

TypeOK == PolicyTypeOK /\ RunTypeOK

RunInit ==
    /\ run = [r \in Runs |-> NULL]
    /\ items = [r \in Runs |-> {}]
    /\ adjustments = [r \in Runs |-> 0]
    /\ history = {}
    /\ adjustmentAudit = {}
    /\ calculations = 0
    /\ op = [s \in Slots |-> IdleOp]

Init == PolicyInit /\ RunInit

Created(r) == run[r] # NULL

\* The request of slot s is at step pc of a request about run r.
At(s, pc) == op[s].pc = pc

Goto(s, pc) == op' = [op EXCEPT ![s].pc = pc]

Finish(s) == op' = [op EXCEPT ![s] = IdleOp]

\* A request arrives: it reads run r (findUnique), tests it and its actor,
\* and continues at step pc with what it has read.
Begin(s, a, r, pc) ==
    /\ At(s, "idle")
    /\ Created(r)
    /\ op' = [op EXCEPT ![s] = [IdleOp EXCEPT !.pc    = pc,
                                              !.actor = a,
                                              !.run   = r,
                                              !.seen  = run[r]]]
    /\ UNCHANGED <<tables, calculations>>

\* The change is made; its history row is written by a later call.
OweHistory(s, action, from, revision) ==
    op' = [op EXCEPT ![s] =
              [IdleOp EXCEPT !.pc  = "history",
                             !.row = [run      |-> op[s].run,
                                      actor    |-> op[s].actor,
                                      action   |-> action,
                                      from     |-> from,
                                      revision |-> revision]]]

---------------------------------------------------------------------------
\* Mutant: any policy will do.
CreateRunReadAnyPolicy(s, a, r, v) ==
    /\ At(s, "idle")
    /\ a \in Makers
    /\ ~Created(r)
    /\ \A t \in Slots : op[t].run # r
    /\ Exists(v)
    /\ op' = [op EXCEPT ![s] = [IdleOp EXCEPT !.pc      = "create",
                                              !.actor   = a,
                                              !.run     = r,
                                              !.version = v]]
    /\ UNCHANGED <<tables, calculations>>

\* createRun: the policy read must be APPROVED; the snapshot holds its version.
CreateRunRead(s, a, r, v) ==
    /\ At(s, "idle")
    /\ a \in Makers
    /\ ~Created(r)
    /\ \A t \in Slots : op[t].run # r   \* the database makes a fresh id
    /\ Exists(v) /\ policy[v].status = "APPROVED"
    /\ op' = [op EXCEPT ![s] = [IdleOp EXCEPT !.pc      = "create",
                                              !.actor   = a,
                                              !.run     = r,
                                              !.version = v]]
    /\ UNCHANGED <<tables, calculations>>

\* Mutant: the revision is left to be filled in later.
CreateRunWriteNoRevision(s) ==
    /\ At(s, "create")
    /\ run' = [run EXCEPT ![op[s].run] = [status     |-> "DRAFT",
                                          revision   |-> NULL,
                                          policy     |-> op[s].version,
                                          createdBy  |-> op[s].actor,
                                          approvedBy |-> NULL,
                                          hash       |-> NULL]]
    /\ OweHistory(s, "CREATED", "DRAFT", 1)
    /\ UNCHANGED <<items, adjustments, history, adjustmentAudit, calculations>>

CreateRunWrite(s) ==
    /\ At(s, "create")
    /\ run' = [run EXCEPT ![op[s].run] = [status     |-> "DRAFT",
                                          revision   |-> 1,
                                          policy     |-> op[s].version,
                                          createdBy  |-> op[s].actor,
                                          approvedBy |-> NULL,
                                          hash       |-> NULL]]
    /\ OweHistory(s, "CREATED", "DRAFT", 1)
    /\ UNCHANGED <<items, adjustments, history, adjustmentAudit, calculations>>

\* calculate: the run first, then the relations the query includes.
CalculateRead(s, a, r) ==
    /\ a \in Makers
    /\ run[r].status \in {"DRAFT", "CALCULATED"}
    /\ Begin(s, a, r, "readAdjustments")

CalculateReadAdjustments(s) ==
    /\ At(s, "readAdjustments")
    /\ op' = [op EXCEPT ![s].pc = "deleteItems",
                        ![s].adjustments = adjustments[op[s].run]]
    /\ UNCHANGED <<tables, calculations>>

\* The transaction starts; deleteMany takes the items it can see.
CalculateDelete(s) ==
    /\ At(s, "deleteItems")
    /\ calculations < MaxCalculations
    /\ op' = [op EXCEPT ![s].pc = "commitItems",
                        ![s].deleted = items[op[s].run]]
    /\ UNCHANGED <<tables, calculations>>

\* Mutant: createMany comes before deleteMany, which takes the new items too.
CalculateCommitDeletingLast(s) ==
    /\ At(s, "commitItems")
    /\ calculations < MaxCalculations
    /\ items' = [items EXCEPT ![op[s].run] = {}]
    /\ run' = [run EXCEPT ![op[s].run].status = "CALCULATED",
                          ![op[s].run].hash = op[s].adjustments]
    /\ calculations' = calculations + 1
    /\ OweHistory(s, "CALCULATED", op[s].seen.status, op[s].seen.revision)
    /\ UNCHANGED <<adjustments, history, adjustmentAudit>>

\* createMany, the update of the run and the commit become visible at once.  The
\* snapshot has employees and the adjustments are about them: an adjustment about
\* anybody else, and any where the snapshot is empty, reaches no items.
CalculateCommit(s) ==
    /\ At(s, "commitItems")
    /\ calculations < MaxCalculations
    /\ LET r == op[s].run
           n == op[s].adjustments
       IN  /\ items' = [items EXCEPT ![r] = (@ \ op[s].deleted) \cup
                           {[calculation |-> calculations, adjustments |-> n]}]
           /\ run' = [run EXCEPT ![r].status = "CALCULATED", ![r].hash = n]
    /\ calculations' = calculations + 1
    /\ OweHistory(s, "CALCULATED", op[s].seen.status, op[s].seen.revision)
    /\ UNCHANGED <<adjustments, history, adjustmentAudit>>

\* adjust: the adjustment and its audit row are two writes.
AdjustRead(s, a, r) ==
    /\ a \in Makers
    /\ run[r].status \in {"DRAFT", "CALCULATED"}
    /\ Begin(s, a, r, "adjust")

AdjustWrite(s) ==
    /\ At(s, "adjust")
    /\ adjustments[op[s].run] < MaxAdjustments
    /\ adjustments' = [adjustments EXCEPT ![op[s].run] = @ + 1]
    /\ op' = [op EXCEPT ![s].pc = "auditAdjustment",
                        ![s].adjustments = adjustments[op[s].run] + 1]
    /\ UNCHANGED <<run, items, history, adjustmentAudit, calculations>>

AdjustAudit(s) ==
    /\ At(s, "auditAdjustment")
    /\ adjustmentAudit' = adjustmentAudit \cup
                             {<<op[s].run, op[s].adjustments>>}
    /\ Finish(s)
    /\ UNCHANGED <<run, items, adjustments, history, calculations>>

\* Mutant: the preparer may approve.
ApproveOwnRunRead(s, a, r) ==
    /\ a \in Checkers
    /\ run[r].status = "CALCULATED"
    /\ Begin(s, a, r, "approve")

\* transition(..., 'APPROVED'): the preparer cannot approve the same run.
ApproveRead(s, a, r) ==
    /\ a \in Checkers
    /\ run[r].status = "CALCULATED"
    /\ run[r].createdBy # a
    /\ Begin(s, a, r, "approve")

ApproveWrite(s) ==
    /\ At(s, "approve")
    /\ run' = [run EXCEPT ![op[s].run].status = "APPROVED",
                          ![op[s].run].approvedBy = op[s].actor]
    /\ OweHistory(s, "APPROVED", op[s].seen.status, op[s].seen.revision)
    /\ UNCHANGED <<items, adjustments, history, adjustmentAudit, calculations>>

\* Mutant: a calculated run can be locked.
LockReadUnapproved(s, a, r) ==
    /\ a \in Checkers
    /\ run[r].status \in {"CALCULATED", "APPROVED"}
    /\ Begin(s, a, r, "lock")

\* transition(..., 'LOCKED'): writes back the approver of the row it read.
LockRead(s, a, r) ==
    /\ a \in Checkers
    /\ run[r].status = "APPROVED"
    /\ Begin(s, a, r, "lock")

LockWrite(s) ==
    /\ At(s, "lock")
    /\ run' = [run EXCEPT ![op[s].run].status = "LOCKED",
                          ![op[s].run].approvedBy = op[s].seen.approvedBy]
    /\ OweHistory(s, "LOCKED", op[s].seen.status, op[s].seen.revision)
    /\ UNCHANGED <<items, adjustments, history, adjustmentAudit, calculations>>

\* reopen, with a reason of five characters or more.  The revision is
\* incremented by the database, and the history row carries the new one.
ReopenRead(s, a, r) ==
    /\ RoleOf[a] = "ADMIN"
    /\ run[r].status = "LOCKED"
    /\ Begin(s, a, r, "reopen")

\* Mutant: the history row carries the revision read first plus one, not that of
\* the row the update returns.
ReopenWriteSeenRevision(s) ==
    /\ At(s, "reopen")
    /\ run[op[s].run].revision < MaxRevision
    /\ run' = [run EXCEPT ![op[s].run].status = "DRAFT",
                          ![op[s].run].revision = @ + 1,
                          ![op[s].run].approvedBy = NULL]
    /\ OweHistory(s, "REOPENED", "LOCKED", op[s].seen.revision + 1)
    /\ UNCHANGED <<items, adjustments, history, adjustmentAudit, calculations>>

ReopenWrite(s) ==
    /\ At(s, "reopen")
    /\ LET r == op[s].run
       IN  /\ run[r].revision < MaxRevision
           /\ run' = [run EXCEPT ![r].status = "DRAFT",
                                 ![r].revision = @ + 1,
                                 ![r].approvedBy = NULL]
           /\ OweHistory(s, "REOPENED", "LOCKED", run[r].revision + 1)
    /\ UNCHANGED <<items, adjustments, history, adjustmentAudit, calculations>>

\* payslip: the run is read first, its items by the query that follows.
PayslipRead(s, a, r) ==
    /\ run[r].status = "LOCKED"
    /\ Begin(s, a, r, "readItems")

PayslipItems(s) ==
    /\ At(s, "readItems")
    /\ Finish(s)
    /\ UNCHANGED <<tables, calculations>>

\* history(...): the last call of createRun, calculate, transition and reopen.
WriteHistory(s) ==
    /\ At(s, "history")
    /\ history' = history \cup {op[s].row}
    /\ Finish(s)
    /\ UNCHANGED <<run, items, adjustments, adjustmentAudit, calculations>>

Arrive(s) ==
    \E a \in Staff, r \in Runs :
        \/ \E v \in Versions : CreateRunRead(s, a, r, v)
        \/ /\ Created(r)
           /\ \/ CalculateRead(s, a, r)
              \/ AdjustRead(s, a, r)
              \/ ApproveRead(s, a, r)
              \/ LockRead(s, a, r)
              \/ ReopenRead(s, a, r)
              \/ PayslipRead(s, a, r)

Continue(s) ==
    \/ CreateRunWrite(s)
    \/ CalculateReadAdjustments(s)
    \/ CalculateDelete(s)
    \/ CalculateCommit(s)
    \/ AdjustWrite(s)
    \/ AdjustAudit(s)
    \/ ApproveWrite(s)
    \/ LockWrite(s)
    \/ ReopenWrite(s)
    \/ PayslipItems(s)
    \/ WriteHistory(s)

RunStep == \E s \in Slots : Arrive(s) \/ Continue(s)

\* A crash ends every request; an open transaction is rolled back, so only
\* the memory of the process is lost.
Crash ==
    /\ PolicyCrash
    /\ op' = [s \in Slots |-> IdleOp]
    /\ UNCHANGED <<tables, calculations>>

Next ==
    \/ PolicyStep /\ UNCHANGED runVars
    \/ RunStep /\ UNCHANGED policyVars
    \/ Crash

Spec == Init /\ [][Next]_vars

---------------------------------------------------------------------------
(* What holds however requests interleave. *)

\* The approver of an approved or locked run is a finance officer or an
\* administrator and not the employee who prepared it, even when a lock writes
\* back the approver of a row that has changed since (transition;
\* docs/UAT.md:8, "maker-checker rules prevent self-approval").
MakerChecker ==
    \A r \in Runs :
        Created(r) /\ run[r].status \in {"APPROVED", "LOCKED"} =>
            /\ run[r].approvedBy \in Checkers
            /\ run[r].approvedBy # run[r].createdBy

\* A run, and so every calculation, rests on a policy version that is approved
\* now, by someone other than its author: createRun's test of the policy is not
\* outdated when the run is inserted or calculated (docs/UAT.md:8, "Payroll
\* cannot calculate without an approved policy").
RunsUnderApprovedPolicy ==
    \A r \in Runs :
        Created(r) =>
            /\ Exists(run[r].policy)
            /\ policy[run[r].policy].status = "APPROVED"
            /\ policy[run[r].policy].approvedBy # policy[run[r].policy].createdBy

\* The row is in the table, or the request that owes it is still running.
Recorded(row) == row \in history \/ \E s \in Slots : op[s].row = row

\* Every revision after the first goes back to an administrator's reopening
\* that the history tells, unless the process has crashed (reopen takes the
\* revision from the updated row, so racing reopenings get rows of their own).
ReopeningsAudited ==
    crashes = 0 =>
      \A r \in Runs : Created(r) =>
        \A n \in 2..run[r].revision :
          \E a \in Staff :
            /\ RoleOf[a] = "ADMIN"
            /\ Recorded([run |-> r, actor |-> a, action |-> "REOPENED",
                         from |-> "LOCKED", revision |-> n])

\* The stored hash always describes line items that are stored: racing
\* calculations never leave a run with the hash of one and only the items of
\* another, nor a calculated run without items (calculate's $transaction).
HashDescribesItems ==
    \A r \in Runs :
        Created(r) /\ run[r].hash # NULL =>
            \E b \in items[r] : b.adjustments = run[r].hash

---------------------------------------------------------------------------
(* What the documents promise; true of requests handled one at a time. *)

\* "A locked payroll cannot change without an authorized, audited reopening"
\* (IMPLEMENTATION_PLAN.md:202): status, items and adjustments of a locked run
\* stay until a step that raises its revision.
LockedChangesOnlyByReopening ==
    [][\A r \in Runs :
          Created(r) /\ run[r].status = "LOCKED" =>
              \/ run'[r].revision = run[r].revision + 1
              \/ /\ run'[r] = run[r]
                 /\ items'[r] = items[r]
                 /\ adjustments'[r] = adjustments[r]
      ]_vars

\* Calculating an approved or locked run again from what is stored would give
\* the line items that are stored (IMPLEMENTATION_PLAN.md:199): no adjustment
\* on file is missing from them.
Reproducible ==
    \A r \in Runs :
        Created(r) /\ run[r].status \in {"APPROVED", "LOCKED"} =>
            \A b \in items[r] : b.adjustments = adjustments[r]

\* A payslip shows the items of the locked run it was asked of: the run is
\* still locked, in the same revision, when its items are read (payslip;
\* payslip.ts:3, "generated from a locked payroll input snapshot").
PayslipOfLockedRun ==
    \A s \in Slots :
        At(s, "readItems") =>
            /\ run[op[s].run].status = "LOCKED"
            /\ run[op[s].run] = op[s].seen
=============================================================================
