-------------------------- MODULE PayrollRunProofs --------------------------
(***************************************************************************)
(* Proofs about PayrollRun, for any number of employees, runs and requests *)
(* in flight, and wherever the process crashes.                            *)
(*                                                                         *)
(* MakerChecker is not inductive: approve and lock write by what they read *)
(* earlier.  RunInv adds what every request in flight knows, above all that *)
(* a pending lock carries an approver who is not the preparer, and that a  *)
(* pending creation has its row to itself, so that a preparer never changes. *)
(*                                                                         *)
(* The last part is about requests one at a time: what the one in flight    *)
(* has read still holds (ReadSlot), so that its writes are steps of         *)
(* PayrollLifecycle.                                                        *)
(***************************************************************************)
EXTENDS PayrollRefinement, PayrollPolicyProofs

ApprovedPolicy(v) == Exists(v) /\ policy[v].status = "APPROVED"

RunsApproved ==
    \A r \in Runs : Created(r) => ApprovedPolicy(run[r].policy)

\* What the request in slot s knows, once it acts on an existing run.
OnRun(o) == o.pc \notin {"idle", "create", "history"}

SlotOK(s) ==
    /\ op[s].pc = "create" =>
         /\ op[s].actor \in Staff /\ op[s].run \in Runs
         /\ op[s].version \in Versions
         /\ ApprovedPolicy(op[s].version)
    /\ op[s].pc = "history" => op[s].row \in HistoryRow
    /\ OnRun(op[s]) =>
         /\ op[s].actor \in Staff /\ op[s].run \in Runs /\ op[s].seen \in RunRow
         /\ Created(op[s].run)
    /\ op[s].pc = "approve" =>
         /\ op[s].actor \in Checkers
         /\ op[s].actor # run[op[s].run].createdBy
    /\ op[s].pc = "lock" =>
         /\ op[s].seen.approvedBy \in Checkers
         /\ op[s].seen.approvedBy # run[op[s].run].createdBy

\* The row a request is about to create is nobody else's.
FreshOK(s) ==
    op[s].pc = "create" =>
        /\ ~Created(op[s].run)
        /\ \A t \in Slots \ {s} : op[t].run # op[s].run

RunInv ==
    /\ RunTypeOK
    /\ RunsApproved
    /\ MakerChecker
    /\ \A s \in Slots : SlotOK(s)
    /\ \A s \in Slots : FreshOK(s)

Inv == PolicyInv /\ RunInv

\* A run is never removed, nor given another preparer or policy.
RunKept ==
    \A r \in Runs :
        Created(r) =>
          /\ run'[r] # NULL
          /\ run'[r].createdBy = run[r].createdBy
          /\ run'[r].policy = run[r].policy

\* Only the request about to create a run creates it.
OnlyCreates(s) ==
    \A r \in Runs :
        run'[r] # NULL => Created(r) \/ (op[s].pc = "create" /\ r = op[s].run)

LEMMA IdleOpIsOp == IdleOp \in Op
  BY DEF IdleOp, Op, Steps, Batch

\* Nothing is in flight and no run exists at the start.
LEMMA InitInv == Init => Inv
<1> SUFFICES ASSUME Init PROVE Inv
  OBVIOUS
<1> USE DEF Init, RunInit
<1>1. PolicyInv
  BY PolicyInitInv
<1>2. RunTypeOK
  BY IdleOpIsOp DEF RunTypeOK
<1>3. RunsApproved /\ MakerChecker
  BY DEF RunsApproved, MakerChecker, Created
<1>4. \A s \in Slots : SlotOK(s) /\ FreshOK(s)
  BY DEF SlotOK, FreshOK, OnRun, IdleOp
<1> QED
  BY <1>1, <1>2, <1>3, <1>4 DEF Inv, RunInv

\* A request keeps what it knows while another one, in slot s, takes a step.
LEMMA OtherSlots ==
  ASSUME Inv, NEW s \in Slots, NEW t \in Slots, t # s,
         RunKept, OnlyCreates(s), policy' = policy,
         op'[t] = op[t], op'[s].pc # "create",
         op'[s].run = NULL \/ op'[s].run = op[s].run \/ Created(op'[s].run),
         \A u \in Slots \ {s} : op'[u] = op[u]
  PROVE  SlotOK(t)' /\ FreshOK(t)'
<1>1. SlotOK(t) /\ FreshOK(t) /\ FreshOK(s)
  BY DEF Inv, RunInv
<1>2. SlotOK(t)'
  <2>1. OnRun(op[t]) => /\ run'[op[t].run] # NULL
                        /\ run'[op[t].run].createdBy = run[op[t].run].createdBy
    BY <1>1 DEF SlotOK, RunKept
  <2>2. op[t].pc \in {"approve", "lock"} => OnRun(op[t])
    BY DEF OnRun
  <2> QED
    BY <1>1, <2>1, <2>2 DEF SlotOK, OnRun, Created, ApprovedPolicy, Exists
<1>3. FreshOK(t)'
  <2> SUFFICES ASSUME op[t].pc = "create"
               PROVE  /\ run'[op[t].run] = NULL
                      /\ \A u \in Slots \ {t} : op'[u].run # op[t].run
    BY DEF FreshOK, Created
  <2>1. op[t].run \in Runs /\ op[t].run # NULL
    BY <1>1, RunAssumption DEF SlotOK
  <2>2. /\ ~Created(op[t].run)
        /\ \A u \in Slots \ {t} : op[u].run # op[t].run
    BY <1>1 DEF FreshOK
  <2>3. run'[op[t].run] = NULL
    BY <2>1, <2>2 DEF OnlyCreates
  <2>4. op'[s].run # op[t].run
    BY <2>1, <2>2
  <2> QED
    BY <2>2, <2>3, <2>4
<1> QED
  BY <1>2, <1>3

TablesTypeOK ==
    /\ run \in [Runs -> RunRow \cup {NULL}]
    /\ items \in [Runs -> SUBSET Batch]
    /\ adjustments \in [Runs -> Nat]
    /\ history \subseteq HistoryRow
    /\ adjustmentAudit \subseteq Runs \X Nat
    /\ calculations \in Nat

\* What is left to show of a step of the request in slot s that does not begin
\* to create a run: it becomes o, and the tables stay in order.
LEMMA SlotStep ==
  ASSUME Inv, UNCHANGED policyVars,
         NEW s \in Slots, NEW o \in Op, op' = [op EXCEPT ![s] = o],
         o.pc # "create",
         o.run = NULL \/ o.run = op[s].run \/ Created(o.run),
         TablesTypeOK', RunKept, OnlyCreates(s), RunsApproved', MakerChecker',
         SlotOK(s)'
  PROVE  Inv'
<1>1. PolicyInv'
  BY PolicyStutterInv DEF Inv
<1>2. op \in [Slots -> Op]
  BY DEF Inv, RunInv, RunTypeOK
<1>3. RunTypeOK'
  BY <1>2 DEF RunTypeOK, TablesTypeOK
<1>4. op'[s] = o /\ \A u \in Slots \ {s} : op'[u] = op[u]
  BY <1>2
<1>5. ASSUME NEW t \in Slots
      PROVE  SlotOK(t)' /\ FreshOK(t)'
  <2>1. CASE t = s
    BY <1>4, <2>1 DEF FreshOK
  <2>2. CASE t # s
    BY <1>4, <2>2, OtherSlots DEF policyVars
  <2> QED
    BY <2>1, <2>2
<1> QED
  BY <1>1, <1>3, <1>5 DEF Inv, RunInv

\* Steps that only move the request on leave the tables in order.
LEMMA TablesStay ==
  ASSUME Inv, UNCHANGED policyVars, UNCHANGED <<tables, calculations>>,
         NEW s \in Slots
  PROVE  /\ TablesTypeOK' /\ RunKept /\ OnlyCreates(s)
         /\ RunsApproved' /\ MakerChecker'
  BY DEF Inv, RunInv, RunTypeOK, TablesTypeOK, RunKept, OnlyCreates, tables,
         policyVars, RunsApproved, ApprovedPolicy, Exists, MakerChecker, Created

\* A request that starts on an existing run knows the row it read.
LEMMA BeginInv ==
  ASSUME Inv, UNCHANGED policyVars,
         NEW s \in Slots, NEW a \in Staff, NEW r \in Runs, NEW pc \in Steps,
         pc \notin {"idle", "create", "history"},
         Begin(s, a, r, pc),
         pc = "approve" => a \in Checkers /\ a # run[r].createdBy,
         pc = "lock" => run[r].status = "APPROVED"
  PROVE  Inv'
<1> DEFINE o == [IdleOp EXCEPT !.pc = pc, !.actor = a, !.run = r,
                               !.seen = run[r]]
<1>1. Created(r) /\ op' = [op EXCEPT ![s] = o]
      /\ UNCHANGED <<tables, calculations>>
  BY DEF Begin
<1>2. run[r] \in RunRow
  BY <1>1 DEF Inv, RunInv, RunTypeOK, Created
<1>3. o \in Op
  BY <1>2, IdleOpIsOp DEF Op, IdleOp
<1>4. o.pc = pc /\ o.actor = a /\ o.run = r /\ o.seen = run[r]
  BY DEF IdleOp
<1>5. op'[s] = o /\ run' = run
  BY <1>1 DEF Inv, RunInv, RunTypeOK, tables
<1>6. pc = "lock" => /\ run[r].approvedBy \in Checkers
                     /\ run[r].approvedBy # run[r].createdBy
  BY <1>1 DEF Inv, RunInv, MakerChecker
<1>7. SlotOK(s)'
  BY <1>1, <1>2, <1>4, <1>5, <1>6 DEF SlotOK, OnRun, Created
<1> HIDE DEF o
<1> QED
  BY <1>1, <1>3, <1>4, <1>7, TablesStay, SlotStep

LEMMA ArriveInv ==
  ASSUME Inv, UNCHANGED policyVars, NEW s \in Slots, Arrive(s)
  PROVE  Inv'
<1>1. PICK a \in Staff, r \in Runs :
        \/ \E v \in Versions : CreateRunRead(s, a, r, v)
        \/ CalculateRead(s, a, r) \/ AdjustRead(s, a, r)
        \/ ApproveRead(s, a, r)   \/ LockRead(s, a, r)
        \/ ReopenRead(s, a, r)    \/ PayslipRead(s, a, r)
  BY DEF Arrive
<1>2. ASSUME NEW v \in Versions, CreateRunRead(s, a, r, v)
      PROVE  Inv'
  <2> DEFINE o == [IdleOp EXCEPT !.pc = "create", !.actor = a, !.run = r,
                                 !.version = v]
  <2>1. /\ ~Created(r) /\ ApprovedPolicy(v)
        /\ \A t \in Slots : op[t].run # r
        /\ op' = [op EXCEPT ![s] = o]
        /\ UNCHANGED <<tables, calculations>>
    BY <1>2 DEF CreateRunRead, ApprovedPolicy
  <2>2. op \in [Slots -> Op] /\ o \in Op
    BY IdleOpIsOp DEF Inv, RunInv, RunTypeOK, Op, IdleOp, Steps
  <2>3. /\ op'[s].pc = "create" /\ op'[s].actor = a /\ op'[s].run = r
        /\ op'[s].version = v
        /\ \A u \in Slots \ {s} : op'[u] = op[u]
    BY <2>1, <2>2 DEF IdleOp
  <2>4. PolicyInv' /\ policy' = policy /\ run' = run
    BY <2>1, PolicyStutterInv DEF Inv, tables, policyVars
  <2>5. TablesTypeOK' /\ RunsApproved' /\ MakerChecker'
    BY <2>1, TablesStay
  <2>6. RunTypeOK'
    BY <2>1, <2>2, <2>5 DEF RunTypeOK, TablesTypeOK
  <2>7. \A t \in Slots : SlotOK(t)'
    BY <2>1, <2>3, <2>4
       DEF Inv, RunInv, SlotOK, OnRun, Created, ApprovedPolicy, Exists
  <2>8. \A t \in Slots : FreshOK(t)'
    BY <2>1, <2>3, <2>4 DEF Inv, RunInv, FreshOK, Created
  <2> QED
    BY <2>4, <2>5, <2>6, <2>7, <2>8 DEF Inv, RunInv
<1>3. CASE CalculateRead(s, a, r)
  BY <1>3, BeginInv DEF CalculateRead, Steps
<1>4. CASE AdjustRead(s, a, r)
  BY <1>4, BeginInv DEF AdjustRead, Steps
<1>5. CASE ApproveRead(s, a, r)
  BY <1>5, BeginInv DEF ApproveRead, Steps
<1>6. CASE LockRead(s, a, r)
  BY <1>6, BeginInv DEF LockRead, Steps
<1>7. CASE ReopenRead(s, a, r)
  BY <1>7, BeginInv DEF ReopenRead, Steps
<1>8. CASE PayslipRead(s, a, r)
  BY <1>8, BeginInv DEF PayslipRead, Steps
<1> QED
  BY <1>1, <1>2, <1>3, <1>4, <1>5, <1>6, <1>7, <1>8

---------------------------------------------------------------------------
(* The steps that follow the first read. *)

\* A request that has made its change owes a history row, and nothing else.
LEMMA OweHistoryInv ==
  ASSUME Inv, UNCHANGED policyVars, NEW s \in Slots,
         op[s].actor \in Staff, op[s].run \in Runs,
         NEW action \in {"CREATED", "CALCULATED", "APPROVED", "LOCKED",
                         "REOPENED"},
         NEW from \in {"DRAFT", "CALCULATED", "APPROVED", "LOCKED"},
         NEW revision \in Nat,
         OweHistory(s, action, from, revision),
         TablesTypeOK', RunKept, OnlyCreates(s), RunsApproved', MakerChecker'
  PROVE  Inv'
<1> DEFINE row == [run |-> op[s].run, actor |-> op[s].actor,
                   action |-> action, from |-> from, revision |-> revision]
           o   == [IdleOp EXCEPT !.pc = "history", !.row = row]
<1>1. row \in HistoryRow
  BY DEF HistoryRow
<1>2. o \in Op /\ o.pc = "history" /\ o.row = row /\ o.run = NULL
  BY <1>1, IdleOpIsOp DEF Op, IdleOp, Steps
<1>3. op' = [op EXCEPT ![s] = o]
  BY DEF OweHistory
<1>4. op'[s] = o
  BY <1>3 DEF Inv, RunInv, RunTypeOK
<1>5. SlotOK(s)'
  BY <1>1, <1>2, <1>4 DEF SlotOK, OnRun
<1> HIDE DEF o
<1> QED
  BY <1>2, <1>3, <1>5, SlotStep

\* A request that is over leaves an idle slot.
LEMMA FinishInv ==
  ASSUME Inv, UNCHANGED policyVars, NEW s \in Slots, Finish(s),
         TablesTypeOK', RunKept, OnlyCreates(s), RunsApproved', MakerChecker'
  PROVE  Inv'
<1>1. op' = [op EXCEPT ![s] = IdleOp]
  BY DEF Finish
<1>2. op'[s] = IdleOp
  BY <1>1 DEF Inv, RunInv, RunTypeOK
<1>3. SlotOK(s)' /\ IdleOp.pc = "idle" /\ IdleOp.run = NULL
  BY <1>2 DEF SlotOK, OnRun, IdleOp
<1> QED
  BY <1>1, <1>3, IdleOpIsOp, SlotStep

\* An update of the run of slot s that keeps preparer and policy, and leaves
\* an approved or locked row with a checker who is not the preparer.
LEMMA UpdateRun ==
  ASSUME Inv, UNCHANGED policyVars, NEW s \in Slots, OnRun(op[s]),
         NEW row \in RunRow, run' = [run EXCEPT ![op[s].run] = row],
         row.createdBy = run[op[s].run].createdBy,
         row.policy = run[op[s].run].policy,
         row.status \in {"APPROVED", "LOCKED"} =>
             row.approvedBy \in Checkers /\ row.approvedBy # row.createdBy
  PROVE  /\ RunKept /\ OnlyCreates(s) /\ RunsApproved' /\ MakerChecker'
         /\ run' \in [Runs -> RunRow \cup {NULL}]
<1> DEFINE r == op[s].run
<1>1. run \in [Runs -> RunRow \cup {NULL}]
  BY DEF Inv, RunInv, RunTypeOK
<1>2. r \in Runs /\ Created(r)
  BY DEF Inv, RunInv, SlotOK
<1>3. run'[r] = row /\ \A q \in Runs \ {r} : run'[q] = run[q]
  BY <1>1, <1>2
<1>4. row # NULL
  BY RunAssumption
<1>5. RunKept
  BY <1>2, <1>3, <1>4 DEF RunKept, Created
<1>6. OnlyCreates(s)
  BY <1>2, <1>3 DEF OnlyCreates, Created
<1>7. RunsApproved'
  BY <1>2, <1>3
     DEF Inv, RunInv, RunsApproved, ApprovedPolicy, Exists, Created, policyVars
<1>8. MakerChecker'
  BY <1>2, <1>3 DEF Inv, RunInv, MakerChecker, Created, Checkers
<1> QED
  BY <1>1, <1>5, <1>6, <1>7, <1>8

\* What UpdateRun and the lemmas above need of the run the request acts on.
LEMMA OnItsRun ==
  ASSUME Inv, NEW s \in Slots, OnRun(op[s])
  PROVE  /\ op[s].run \in Runs /\ op[s].actor \in Staff
         /\ op[s].seen \in RunRow /\ run[op[s].run] \in RunRow
  BY DEF Inv, RunInv, SlotOK, RunTypeOK, Created

LEMMA CreateRunWriteInv ==
  ASSUME Inv, UNCHANGED policyVars, NEW s \in Slots, CreateRunWrite(s)
  PROVE  Inv'
<1> DEFINE r   == op[s].run
           row == [status |-> "DRAFT", revision |-> 1,
                   policy |-> op[s].version, createdBy |-> op[s].actor,
                   approvedBy |-> NULL, hash |-> NULL]
<1>1. /\ op[s].pc = "create" /\ run' = [run EXCEPT ![r] = row]
      /\ UNCHANGED <<items, adjustments, history, adjustmentAudit, calculations>>
      /\ OweHistory(s, "CREATED", "DRAFT", 1)
  BY DEF CreateRunWrite, At
<1>2. /\ op[s].actor \in Staff /\ r \in Runs /\ op[s].version \in Versions
      /\ ApprovedPolicy(op[s].version) /\ ~Created(r)
  BY <1>1 DEF Inv, RunInv, SlotOK, FreshOK
<1>3. run \in [Runs -> RunRow \cup {NULL}] /\ row \in RunRow
  BY <1>2 DEF Inv, RunInv, RunTypeOK, RunRow
<1>4. run'[r] = row /\ \A q \in Runs \ {r} : run'[q] = run[q]
  BY <1>1, <1>2, <1>3
<1>4a. row.policy = op[s].version /\ row.status = "DRAFT"
  OBVIOUS
<1> HIDE DEF row
<1>5. TablesTypeOK'
  BY <1>1, <1>3 DEF Inv, RunInv, RunTypeOK, TablesTypeOK
<1>6. RunKept /\ OnlyCreates(s)
  BY <1>1, <1>2, <1>4 DEF RunKept, OnlyCreates, Created
<1>7. RunsApproved'
  BY <1>2, <1>4, <1>4a
     DEF Inv, RunInv, RunsApproved, ApprovedPolicy, Exists, Created, policyVars
<1>8. MakerChecker'
  BY <1>4, <1>4a DEF Inv, RunInv, MakerChecker, Created, Checkers
<1> QED
  BY <1>1, <1>2, <1>5, <1>6, <1>7, <1>8, OweHistoryInv

LEMMA CalculateReadAdjustmentsInv ==
  ASSUME Inv, UNCHANGED policyVars, NEW s \in Slots, CalculateReadAdjustments(s)
  PROVE  Inv'
<1> DEFINE o == [op[s] EXCEPT !.pc = "deleteItems",
                              !.adjustments = adjustments[op[s].run]]
<1>1. /\ op[s].pc = "readAdjustments"
      /\ op' = [op EXCEPT ![s] = o]
      /\ UNCHANGED <<tables, calculations>>
  BY DEF CalculateReadAdjustments, At, Inv, RunInv, RunTypeOK
<1>2. OnRun(op[s]) /\ op[s] \in Op /\ op[s].run \in Runs
  BY <1>1, OnItsRun DEF OnRun, Inv, RunInv, RunTypeOK
<1>3. adjustments[op[s].run] \in Nat
  BY <1>2 DEF Inv, RunInv, RunTypeOK
<1>4. o \in Op /\ o.pc = "deleteItems" /\ o.run = op[s].run
      /\ o.actor = op[s].actor /\ o.seen = op[s].seen
  BY <1>2, <1>3 DEF Op, Steps
<1>5. op'[s] = o /\ run' = run
  BY <1>1 DEF Inv, RunInv, RunTypeOK, tables
<1>6. SlotOK(s)'
  BY <1>2, <1>4, <1>5 DEF Inv, RunInv, SlotOK, OnRun, Created
<1> HIDE DEF o
<1> QED
  BY <1>1, <1>4, <1>6, TablesStay, SlotStep

LEMMA CalculateDeleteInv ==
  ASSUME Inv, UNCHANGED policyVars, NEW s \in Slots, CalculateDelete(s)
  PROVE  Inv'
<1> DEFINE o == [op[s] EXCEPT !.pc = "commitItems",
                              !.deleted = items[op[s].run]]
<1>1. /\ op[s].pc = "deleteItems"
      /\ op' = [op EXCEPT ![s] = o]
      /\ UNCHANGED <<tables, calculations>>
  BY DEF CalculateDelete, At, Inv, RunInv, RunTypeOK
<1>2. OnRun(op[s]) /\ op[s] \in Op /\ op[s].run \in Runs
  BY <1>1, OnItsRun DEF OnRun, Inv, RunInv, RunTypeOK
<1>3. items[op[s].run] \in SUBSET Batch
  BY <1>2 DEF Inv, RunInv, RunTypeOK
<1>4. o \in Op /\ o.pc = "commitItems" /\ o.run = op[s].run
      /\ o.actor = op[s].actor /\ o.seen = op[s].seen
  BY <1>2, <1>3 DEF Op, Steps
<1>5. op'[s] = o /\ run' = run
  BY <1>1 DEF Inv, RunInv, RunTypeOK, tables
<1>6. SlotOK(s)'
  BY <1>2, <1>4, <1>5 DEF Inv, RunInv, SlotOK, OnRun, Created
<1> HIDE DEF o
<1> QED
  BY <1>1, <1>4, <1>6, TablesStay, SlotStep

LEMMA CalculateCommitInv ==
  ASSUME Inv, UNCHANGED policyVars, NEW s \in Slots, CalculateCommit(s)
  PROVE  Inv'
<1> DEFINE r   == op[s].run
           n   == op[s].adjustments
           row == [run[r] EXCEPT !.status = "CALCULATED", !.hash = n]
           new == [calculation |-> calculations, adjustments |-> n]
<1>1. /\ op[s].pc = "commitItems"
      /\ items' = [items EXCEPT ![r] = (@ \ op[s].deleted) \cup {new}]
      /\ run' = [run EXCEPT ![r].status = "CALCULATED", ![r].hash = n]
      /\ calculations' = calculations + 1
      /\ OweHistory(s, "CALCULATED", op[s].seen.status, op[s].seen.revision)
      /\ UNCHANGED <<adjustments, history, adjustmentAudit>>
  BY DEF CalculateCommit, At
<1>2. OnRun(op[s])
  BY <1>1 DEF OnRun
<1>3. /\ r \in Runs /\ op[s].actor \in Staff
      /\ op[s].seen.status \in {"DRAFT", "CALCULATED", "APPROVED", "LOCKED"}
      /\ op[s].seen.revision \in Nat
      /\ run[r] \in RunRow
  BY <1>2, OnItsRun DEF RunRow
<1>4. op[s] \in Op /\ n \in Nat /\ calculations \in Nat
  BY DEF Inv, RunInv, RunTypeOK, Op
<1>5. /\ row \in RunRow /\ row.createdBy = run[r].createdBy
      /\ row.policy = run[r].policy /\ row.status = "CALCULATED"
  BY <1>3, <1>4 DEF RunRow
<1>6. run' = [run EXCEPT ![r] = row]
  BY <1>1, <1>3 DEF Inv, RunInv, RunTypeOK
<1>7. /\ RunKept /\ OnlyCreates(s) /\ RunsApproved' /\ MakerChecker'
      /\ run' \in [Runs -> RunRow \cup {NULL}]
  <2> HIDE DEF row
  <2> QED
    BY <1>2, <1>5, <1>6, UpdateRun
<1>8. items' \in [Runs -> SUBSET Batch]
  <2>1. new \in Batch
    BY <1>4 DEF Batch
  <2> HIDE DEF new
  <2> QED
    BY <1>1, <1>3, <2>1 DEF Inv, RunInv, RunTypeOK
<1>9. TablesTypeOK'
  BY <1>1, <1>4, <1>7, <1>8 DEF Inv, RunInv, RunTypeOK, TablesTypeOK
<1> QED
  BY <1>1, <1>3, <1>7, <1>9, OweHistoryInv

LEMMA AdjustWriteInv ==
  ASSUME Inv, UNCHANGED policyVars, NEW s \in Slots, AdjustWrite(s)
  PROVE  Inv'
<1> DEFINE n == adjustments[op[s].run] + 1
           o == [op[s] EXCEPT !.pc = "auditAdjustment", !.adjustments = n]
<1>1. /\ op[s].pc = "adjust"
      /\ adjustments' = [adjustments EXCEPT ![op[s].run] = @ + 1]
      /\ op' = [op EXCEPT ![s] = o]
      /\ UNCHANGED <<run, items, history, adjustmentAudit, calculations>>
  BY DEF AdjustWrite, At, Inv, RunInv, RunTypeOK
<1>2. OnRun(op[s]) /\ op[s] \in Op /\ op[s].run \in Runs
  BY <1>1, OnItsRun DEF OnRun, Inv, RunInv, RunTypeOK
<1>3. n \in Nat /\ adjustments' \in [Runs -> Nat]
  BY <1>1, <1>2 DEF Inv, RunInv, RunTypeOK
<1>4. o \in Op /\ o.pc = "auditAdjustment" /\ o.run = op[s].run
      /\ o.actor = op[s].actor /\ o.seen = op[s].seen
  BY <1>2, <1>3 DEF Op, Steps
<1>5. op'[s] = o
  BY <1>1 DEF Inv, RunInv, RunTypeOK
<1>6. SlotOK(s)'
  BY <1>1, <1>2, <1>4, <1>5 DEF Inv, RunInv, SlotOK, OnRun, Created
<1>7. TablesTypeOK'
  BY <1>1, <1>3 DEF Inv, RunInv, RunTypeOK, TablesTypeOK
<1>8. RunKept /\ OnlyCreates(s) /\ RunsApproved' /\ MakerChecker'
  BY <1>1 DEF Inv, RunInv, RunKept, OnlyCreates, RunsApproved, MakerChecker,
              ApprovedPolicy, Exists, Created, policyVars
<1> HIDE DEF o
<1> QED
  BY <1>1, <1>4, <1>6, <1>7, <1>8, SlotStep

LEMMA AdjustAuditInv ==
  ASSUME Inv, UNCHANGED policyVars, NEW s \in Slots, AdjustAudit(s)
  PROVE  Inv'
<1>1. /\ op[s].pc = "auditAdjustment" /\ Finish(s)
      /\ adjustmentAudit' = adjustmentAudit \cup
                               {<<op[s].run, op[s].adjustments>>}
      /\ UNCHANGED <<run, items, adjustments, history, calculations>>
  BY DEF AdjustAudit, At
<1>2. op[s].run \in Runs /\ op[s].adjustments \in Nat
  BY <1>1, OnItsRun DEF OnRun, Inv, RunInv, RunTypeOK, Op
<1>3. TablesTypeOK'
  BY <1>1, <1>2 DEF Inv, RunInv, RunTypeOK, TablesTypeOK
<1>4. RunKept /\ OnlyCreates(s) /\ RunsApproved' /\ MakerChecker'
  BY <1>1 DEF Inv, RunInv, RunKept, OnlyCreates, RunsApproved, MakerChecker,
              ApprovedPolicy, Exists, Created, policyVars
<1> QED
  BY <1>1, <1>3, <1>4, FinishInv

\* The approver was compared with a preparer who has not changed since.
LEMMA ApproveWriteInv ==
  ASSUME Inv, UNCHANGED policyVars, NEW s \in Slots, ApproveWrite(s)
  PROVE  Inv'
<1> DEFINE r   == op[s].run
           row == [run[r] EXCEPT !.status = "APPROVED",
                                 !.approvedBy = op[s].actor]
<1>1. /\ op[s].pc = "approve"
      /\ run' = [run EXCEPT ![r].status = "APPROVED",
                            ![r].approvedBy = op[s].actor]
      /\ OweHistory(s, "APPROVED", op[s].seen.status, op[s].seen.revision)
      /\ UNCHANGED <<items, adjustments, history, adjustmentAudit, calculations>>
  BY DEF ApproveWrite, At
<1>2. OnRun(op[s])
  BY <1>1 DEF OnRun
<1>3. /\ r \in Runs /\ op[s].actor \in Staff
      /\ op[s].seen.status \in {"DRAFT", "CALCULATED", "APPROVED", "LOCKED"}
      /\ op[s].seen.revision \in Nat
      /\ run[r] \in RunRow
  BY <1>2, OnItsRun DEF RunRow
<1>4. op[s].actor \in Checkers /\ op[s].actor # run[r].createdBy
  BY <1>1 DEF Inv, RunInv, SlotOK
<1>5. /\ row \in RunRow /\ row.createdBy = run[r].createdBy
      /\ row.policy = run[r].policy /\ row.approvedBy = op[s].actor
  BY <1>3 DEF RunRow
<1>6. run' = [run EXCEPT ![r] = row]
  BY <1>1, <1>3 DEF Inv, RunInv, RunTypeOK
<1>7. /\ RunKept /\ OnlyCreates(s) /\ RunsApproved' /\ MakerChecker'
      /\ run' \in [Runs -> RunRow \cup {NULL}]
  <2> HIDE DEF row
  <2> QED
    BY <1>2, <1>4, <1>5, <1>6, UpdateRun
<1>8. TablesTypeOK'
  BY <1>1, <1>7 DEF Inv, RunInv, RunTypeOK, TablesTypeOK
<1> QED
  BY <1>1, <1>3, <1>7, <1>8, OweHistoryInv

\* The approver written back is the one of the row read, who was not the
\* preparer; the row itself may have been reopened or approved again since.
LEMMA LockWriteInv ==
  ASSUME Inv, UNCHANGED policyVars, NEW s \in Slots, LockWrite(s)
  PROVE  Inv'
<1> DEFINE r   == op[s].run
           row == [run[r] EXCEPT !.status = "LOCKED",
                                 !.approvedBy = op[s].seen.approvedBy]
<1>1. /\ op[s].pc = "lock"
      /\ run' = [run EXCEPT ![r].status = "LOCKED",
                            ![r].approvedBy = op[s].seen.approvedBy]
      /\ OweHistory(s, "LOCKED", op[s].seen.status, op[s].seen.revision)
      /\ UNCHANGED <<items, adjustments, history, adjustmentAudit, calculations>>
  BY DEF LockWrite, At
<1>2. OnRun(op[s])
  BY <1>1 DEF OnRun
<1>3. /\ r \in Runs /\ op[s].actor \in Staff
      /\ op[s].seen.status \in {"DRAFT", "CALCULATED", "APPROVED", "LOCKED"}
      /\ op[s].seen.revision \in Nat
      /\ run[r] \in RunRow
  BY <1>2, OnItsRun DEF RunRow
<1>4. /\ op[s].seen.approvedBy \in Checkers
      /\ op[s].seen.approvedBy # run[r].createdBy
  BY <1>1 DEF Inv, RunInv, SlotOK
<1>5. /\ row \in RunRow /\ row.createdBy = run[r].createdBy
      /\ row.policy = run[r].policy /\ row.approvedBy = op[s].seen.approvedBy
  BY <1>3, <1>4 DEF RunRow, Checkers
<1>6. run' = [run EXCEPT ![r] = row]
  BY <1>1, <1>3 DEF Inv, RunInv, RunTypeOK
<1>7. /\ RunKept /\ OnlyCreates(s) /\ RunsApproved' /\ MakerChecker'
      /\ run' \in [Runs -> RunRow \cup {NULL}]
  <2> HIDE DEF row
  <2> QED
    BY <1>2, <1>4, <1>5, <1>6, UpdateRun
<1>8. TablesTypeOK'
  BY <1>1, <1>7 DEF Inv, RunInv, RunTypeOK, TablesTypeOK
<1> QED
  BY <1>1, <1>3, <1>7, <1>8, OweHistoryInv

LEMMA ReopenWriteInv ==
  ASSUME Inv, UNCHANGED policyVars, NEW s \in Slots, ReopenWrite(s)
  PROVE  Inv'
<1> DEFINE r   == op[s].run
           row == [run[r] EXCEPT !.status = "DRAFT",
                                 !.revision = run[r].revision + 1,
                                 !.approvedBy = NULL]
<1>1. /\ op[s].pc = "reopen"
      /\ run' = [run EXCEPT ![r].status = "DRAFT", ![r].revision = @ + 1,
                            ![r].approvedBy = NULL]
      /\ OweHistory(s, "REOPENED", "LOCKED", run[r].revision + 1)
      /\ UNCHANGED <<items, adjustments, history, adjustmentAudit, calculations>>
  BY DEF ReopenWrite, At
<1>2. OnRun(op[s])
  BY <1>1 DEF OnRun
<1>3. r \in Runs /\ op[s].actor \in Staff /\ run[r] \in RunRow
  BY <1>2, OnItsRun
<1>3a. run[r].revision + 1 \in Nat
  BY <1>3 DEF RunRow
<1>4. /\ row \in RunRow /\ row.createdBy = run[r].createdBy
      /\ row.policy = run[r].policy /\ row.status = "DRAFT"
  BY <1>3, <1>3a DEF RunRow
<1>5. run' = [run EXCEPT ![r] = row]
  BY <1>1, <1>3 DEF Inv, RunInv, RunTypeOK
<1>6. /\ RunKept /\ OnlyCreates(s) /\ RunsApproved' /\ MakerChecker'
      /\ run' \in [Runs -> RunRow \cup {NULL}]
  <2> HIDE DEF row
  <2> QED
    BY <1>2, <1>4, <1>5, UpdateRun
<1>7. TablesTypeOK'
  BY <1>1, <1>6 DEF Inv, RunInv, RunTypeOK, TablesTypeOK
<1> QED
  BY <1>1, <1>3, <1>3a, <1>6, <1>7, OweHistoryInv

LEMMA PayslipItemsInv ==
  ASSUME Inv, UNCHANGED policyVars, NEW s \in Slots, PayslipItems(s)
  PROVE  Inv'
  BY TablesStay, FinishInv DEF PayslipItems

LEMMA WriteHistoryInv ==
  ASSUME Inv, UNCHANGED policyVars, NEW s \in Slots, WriteHistory(s)
  PROVE  Inv'
<1>1. /\ op[s].pc = "history" /\ history' = history \cup {op[s].row}
      /\ Finish(s)
      /\ UNCHANGED <<run, items, adjustments, adjustmentAudit, calculations>>
  BY DEF WriteHistory, At
<1>2. op[s].row \in HistoryRow
  BY <1>1 DEF Inv, RunInv, SlotOK
<1>3. TablesTypeOK'
  BY <1>1, <1>2 DEF Inv, RunInv, RunTypeOK, TablesTypeOK
<1>4. RunKept /\ OnlyCreates(s) /\ RunsApproved' /\ MakerChecker'
  BY <1>1 DEF Inv, RunInv, RunKept, OnlyCreates, RunsApproved, MakerChecker,
              ApprovedPolicy, Exists, Created, policyVars
<1> QED
  BY <1>1, <1>3, <1>4, FinishInv

LEMMA RunStepInv ==
  ASSUME Inv, RunStep, UNCHANGED policyVars
  PROVE  Inv'
<1>1. PICK s \in Slots : Arrive(s) \/ Continue(s)
  BY DEF RunStep
<1>2. CASE Arrive(s)
  BY <1>2, ArriveInv
<1>3. CASE Continue(s)
  BY <1>3, CreateRunWriteInv, CalculateReadAdjustmentsInv, CalculateDeleteInv,
     CalculateCommitInv, AdjustWriteInv, AdjustAuditInv, ApproveWriteInv,
     LockWriteInv, ReopenWriteInv, PayslipItemsInv, WriteHistoryInv
     DEF Continue
<1> QED
  BY <1>1, <1>2, <1>3

---------------------------------------------------------------------------
(* Steps of the policies and crashes. *)

LEMMA PolicyPartInv ==
  ASSUME Inv, PolicyStep, UNCHANGED runVars
  PROVE  Inv'
<1>1. PolicyInv' /\ PolicyKept
  BY PolicyStepInv DEF Inv, PolicyNext
<1>2. /\ run' = run /\ items' = items /\ adjustments' = adjustments
      /\ history' = history /\ adjustmentAudit' = adjustmentAudit
      /\ calculations' = calculations /\ op' = op
  BY DEF runVars, tables
<1>3. RunTypeOK' /\ MakerChecker'
  BY <1>2 DEF Inv, RunInv, RunTypeOK, MakerChecker, Created
<1>4. \A v \in Versions : ApprovedPolicy(v) => ApprovedPolicy(v)'
  BY <1>1 DEF PolicyKept, ApprovedPolicy, Exists
<1>5. RunsApproved'
  BY <1>2, <1>4 DEF Inv, RunInv, RunTypeOK, RunRow, RunsApproved, Created
<1>6. ASSUME NEW s \in Slots
      PROVE  SlotOK(s)' /\ FreshOK(s)'
  <2>1. SlotOK(s) /\ FreshOK(s)
    BY DEF Inv, RunInv
  <2>2. SlotOK(s)'
    BY <1>2, <1>4, <2>1 DEF SlotOK, OnRun, Created
  <2>3. FreshOK(s)'
    BY <1>2, <2>1 DEF FreshOK, Created
  <2> QED
    BY <2>2, <2>3
<1> QED
  BY <1>1, <1>3, <1>5, <1>6 DEF Inv, RunInv

LEMMA CrashInv ==
  ASSUME Inv, Crash
  PROVE  Inv'
<1>1. PolicyInv' /\ policy' = policy
  BY PolicyStepInv DEF Inv, PolicyNext, Crash, PolicyCrash
<1>2. /\ run' = run /\ items' = items /\ adjustments' = adjustments
      /\ history' = history /\ adjustmentAudit' = adjustmentAudit
      /\ calculations' = calculations /\ op' = [s \in Slots |-> IdleOp]
  BY DEF Crash, tables
<1>3. RunTypeOK'
  BY <1>2, IdleOpIsOp DEF Inv, RunInv, RunTypeOK
<1>4. RunsApproved' /\ MakerChecker'
  BY <1>1, <1>2
     DEF Inv, RunInv, RunsApproved, ApprovedPolicy, Exists, MakerChecker, Created
<1>5. \A s \in Slots : SlotOK(s)' /\ FreshOK(s)'
  BY <1>2 DEF SlotOK, FreshOK, OnRun, IdleOp
<1> QED
  BY <1>1, <1>3, <1>4, <1>5 DEF Inv, RunInv

LEMMA StutterInv ==
  ASSUME Inv, UNCHANGED vars
  PROVE  Inv'
<1>1. PolicyInv' /\ policy' = policy
  BY PolicyStutterInv DEF Inv, vars, policyVars
<1>2. RunInv'
  BY <1>1 DEF vars, runVars, tables, Inv, RunInv, RunTypeOK, RunsApproved,
              ApprovedPolicy, Exists, MakerChecker, Created, SlotOK, FreshOK,
              OnRun
<1> QED
  BY <1>1, <1>2 DEF Inv

---------------------------------------------------------------------------
LEMMA NextInv ==
  ASSUME Inv, [Next]_vars
  PROVE  Inv'
BY RunStepInv, PolicyPartInv, CrashInv, StutterInv DEF Next

\* The inductive invariant.
THEOREM Invariance == Spec => []Inv
<1>1. Inv /\ [Next]_vars => Inv'
  BY NextInv
<1> QED
  BY InitInv, <1>1, PTL DEF Spec

\* Every table row and every request in flight is well formed.
THEOREM TypeCorrect == Spec => []TypeOK
<1>1. Inv => TypeOK
  BY DEF Inv, RunInv, PolicyInv, TypeOK
<1> QED
  BY Invariance, <1>1, PTL

\* No payroll run is ever approved or locked by the employee who prepared it.
THEOREM RunMakerChecker == Spec => []MakerChecker
<1>1. Inv => MakerChecker
  BY DEF Inv, RunInv
<1> QED
  BY Invariance, <1>1, PTL

\* Every payroll run rests on a policy version approved by someone other than
\* its author.
THEOREM RunPolicyApproved == Spec => []RunsUnderApprovedPolicy
<1>1. Inv => RunsUnderApprovedPolicy
  BY DEF Inv, RunInv, RunTypeOK, RunRow, RunsApproved, ApprovedPolicy,
         RunsUnderApprovedPolicy, PolicyInv, PolicyMakerChecker, Created
<1> QED
  BY Invariance, <1>1, PTL

---------------------------------------------------------------------------
(* The items the hash covers. Every commit of calculate stores the hash and *)
(* the batch it covers at once, and no other step touches either.          *)

LEMMA HashInitially == Init => HashDescribesItems
BY DEF Init, RunInit, HashDescribesItems, Created

LEMMA HashStays ==
  ASSUME Inv, HashDescribesItems, items' = items,
         \A r \in Runs : run'[r] # NULL =>
             \/ Created(r) /\ run'[r].hash = run[r].hash
             \/ run'[r].hash = NULL
  PROVE  HashDescribesItems'
BY DEF HashDescribesItems, Created

LEMMA HashStep ==
  ASSUME Inv, HashDescribesItems, [Next]_vars
  PROVE  HashDescribesItems'
<1>1. ASSUME UNCHANGED <<run, items>> PROVE HashDescribesItems'
  BY <1>1 DEF HashDescribesItems, Created
<1>2. ASSUME NEW s \in Slots, CalculateCommit(s) PROVE HashDescribesItems'
  <2> DEFINE r   == op[s].run
             n   == op[s].adjustments
             new == [calculation |-> calculations, adjustments |-> n]
  <2>1. r \in Runs /\ run[r] \in RunRow
    BY <1>2, OnItsRun DEF CalculateCommit, At, OnRun
  <2>2. /\ items' = [items EXCEPT ![r] = (@ \ op[s].deleted) \cup {new}]
        /\ run' = [run EXCEPT ![r].status = "CALCULATED", ![r].hash = n]
    BY <1>2 DEF CalculateCommit
  <2>3. run'[r].hash = n /\ new \in items'[r] /\ new.adjustments = n
    BY <2>1, <2>2 DEF Inv, RunInv, RunTypeOK, RunRow
  <2>4. \A q \in Runs \ {r} : run'[q] = run[q] /\ items'[q] = items[q]
    BY <2>1, <2>2 DEF Inv, RunInv, RunTypeOK
  <2> HIDE DEF new
  <2> QED
    BY <2>3, <2>4 DEF HashDescribesItems, Created
<1>3. ASSUME NEW s \in Slots, CreateRunWrite(s) PROVE HashDescribesItems'
  <2>1. op[s].run \in Runs
    BY <1>3 DEF CreateRunWrite, At, Inv, RunInv, SlotOK
  <2>2. /\ run'[op[s].run].hash = NULL
        /\ \A q \in Runs \ {op[s].run} : run'[q] = run[q]
    BY <1>3, <2>1 DEF CreateRunWrite, Inv, RunInv, RunTypeOK
  <2> QED
    BY <1>3, <2>2, HashStays DEF CreateRunWrite, Created
<1>4. ASSUME NEW s \in Slots, ApproveWrite(s) \/ LockWrite(s) \/ ReopenWrite(s)
      PROVE  HashDescribesItems'
  <2>1. op[s].run \in Runs /\ run[op[s].run] \in RunRow /\ Created(op[s].run)
    BY <1>4, OnItsRun
       DEF ApproveWrite, LockWrite, ReopenWrite, At, OnRun, Inv, RunInv, SlotOK
  <2>2. /\ run'[op[s].run].hash = run[op[s].run].hash
        /\ \A q \in Runs \ {op[s].run} : run'[q] = run[q]
    BY <1>4, <2>1 DEF ApproveWrite, LockWrite, ReopenWrite, Inv, RunInv, RunTypeOK, RunRow
  <2> QED
    BY <1>4, <2>1, <2>2, HashStays DEF ApproveWrite, LockWrite, ReopenWrite, Created
<1>5. ASSUME NEW s \in Slots, Arrive(s) \/ Continue(s) PROVE HashDescribesItems'
  <2>1. CASE Arrive(s)
    <3>1. UNCHANGED tables
      <4>1. ASSUME NEW a \in Staff, NEW r \in Runs, NEW v \in Versions,
                   CreateRunRead(s, a, r, v)
            PROVE  UNCHANGED tables
        BY <4>1 DEF CreateRunRead
      <4>2. ASSUME NEW a \in Staff, NEW r \in Runs,
                   \/ CalculateRead(s, a, r) \/ AdjustRead(s, a, r) \/ ApproveRead(s, a, r)
                   \/ LockRead(s, a, r) \/ ReopenRead(s, a, r) \/ PayslipRead(s, a, r)
            PROVE  UNCHANGED tables
        BY <4>2 DEF CalculateRead, AdjustRead, ApproveRead, LockRead, ReopenRead, PayslipRead,
                    Begin
      <4> HIDE DEF tables
      <4> QED BY <2>1, <4>1, <4>2 DEF Arrive
    <3>2. UNCHANGED <<run, items>>
      BY ONLY <3>1 DEF tables
    <3> QED BY <1>1, <3>2
  <2>2. CASE \/ CalculateReadAdjustments(s) \/ CalculateDelete(s) \/ AdjustWrite(s)
             \/ AdjustAudit(s) \/ PayslipItems(s) \/ WriteHistory(s)
    <3>1. UNCHANGED <<run, items>>
      BY <2>2 DEF CalculateReadAdjustments, CalculateDelete, AdjustWrite, AdjustAudit,
                  PayslipItems, WriteHistory, tables
    <3> QED BY <1>1, <3>1
  <2> QED BY <1>2, <1>3, <1>4, <1>5, <2>1, <2>2 DEF Continue
<1>6. ASSUME UNCHANGED runVars \/ Crash \/ UNCHANGED vars PROVE HashDescribesItems'
  BY <1>1, <1>6 DEF runVars, vars, tables, Crash
<1> QED
  BY <1>5, <1>6 DEF Next, RunStep

\* The stored hash describes stored line items, for any number of racing
\* calculations of a run.
THEOREM HashOfStoredItems == Spec => []HashDescribesItems
<1>1. Init => HashDescribesItems
  BY HashInitially
<1>2. Inv /\ HashDescribesItems /\ [Next]_vars => HashDescribesItems'
  BY HashStep
<1> QED
  BY Invariance, <1>1, <1>2, PTL DEF Spec

---------------------------------------------------------------------------
(* The history of reopenings. A request holds a row only while it owes it,  *)
(* and a pending reopening is an administrator's.                          *)

AuditInv ==
    /\ \A s \in Slots : /\ op[s].pc # "history" => op[s].row = NULL
                        /\ op[s].pc = "reopen" => RoleOf[op[s].actor] = "ADMIN"
    /\ ReopeningsAudited

\* The row of the reopening that led to revision n of run r, by employee a.
Reopening(r, a, n) == [run |-> r, actor |-> a, action |-> "REOPENED",
                       from |-> "LOCKED", revision |-> n]

\* Every revision of run r after the first is accounted for.
Accounted(r) ==
    \A n \in 2..run[r].revision :
        \E a \in Staff : RoleOf[a] = "ADMIN" /\ Recorded(Reopening(r, a, n))

\* Run r keeps its revision, is new, or is reopened by what the request o owes.
Explained(r, o) ==
    \/ Created(r) /\ run'[r].revision = run[r].revision
    \/ run'[r].revision = 1
    \/ /\ Created(r) /\ run'[r].revision = run[r].revision + 1
       /\ \E a \in Staff : /\ RoleOf[a] = "ADMIN"
                           /\ o.row = Reopening(r, a, run'[r].revision)

\* A step of the request in slot s, which becomes o.
LEMMA AuditStep ==
  ASSUME Inv, AuditInv, NEW s \in Slots, NEW o, op' = [op EXCEPT ![s] = o],
         o.pc # "history" => o.row = NULL,
         o.pc = "reopen" => RoleOf[o.actor] = "ADMIN",
         crashes' = crashes, history \subseteq history',
         op[s].pc = "history" => op[s].row \in history',
         \A r \in Runs : run'[r] # NULL => Explained(r, o)
  PROVE  AuditInv'
<1>1. op'[s] = o /\ \A t \in Slots \ {s} : op'[t] = op[t]
  BY DEF Inv, RunInv, RunTypeOK
<1>2. ASSUME NEW row \in HistoryRow, Recorded(row) PROVE Recorded(row)'
  <2>1. row # NULL
    BY RunAssumption
  <2>2. ASSUME NEW t \in Slots, op[t].row = row PROVE Recorded(row)'
    <3>1. t = s => row \in history'
      BY <2>1, <2>2 DEF AuditInv
    <3> QED
      BY <1>1, <2>2, <3>1 DEF Recorded
  <2> QED
    BY <1>2, <2>2 DEF Recorded
<1>3. ASSUME crashes' = 0, NEW r \in Runs, run'[r] # NULL, NEW n \in 2..run'[r].revision
      PROVE  \E a \in Staff : RoleOf[a] = "ADMIN" /\ Recorded(Reopening(r, a, n))'
  <2>1. ASSUME Created(r), n \in 2..run[r].revision
        PROVE  \E a \in Staff : RoleOf[a] = "ADMIN" /\ Recorded(Reopening(r, a, n))'
    <3>1. PICK a \in Staff : RoleOf[a] = "ADMIN" /\ Recorded(Reopening(r, a, n))
      BY <1>3, <2>1 DEF AuditInv, ReopeningsAudited, Reopening
    <3>2. Reopening(r, a, n) \in HistoryRow
      BY DEF Reopening, HistoryRow
    <3> QED
      BY <1>2, <3>1, <3>2
  <2>2. ASSUME NEW a \in Staff, RoleOf[a] = "ADMIN", o.row = Reopening(r, a, run'[r].revision),
               n = run'[r].revision
        PROVE  RoleOf[a] = "ADMIN" /\ Recorded(Reopening(r, a, n))'
    BY <1>1, <2>2 DEF Recorded
  <2>3. Created(r) => run[r].revision \in Nat
    BY DEF Created, Inv, RunInv, RunTypeOK, RunRow
  <2> QED
    BY <1>3, <2>1, <2>2, <2>3 DEF Explained
<1>4. ReopeningsAudited'
  BY <1>3 DEF ReopeningsAudited, Created, Reopening
<1>5. \A t \in Slots : /\ op'[t].pc # "history" => op'[t].row = NULL
                       /\ op'[t].pc = "reopen" => RoleOf[op'[t].actor] = "ADMIN"
  BY <1>1 DEF AuditInv
<1> QED
  BY <1>4, <1>5 DEF AuditInv

\* Requests that start, and those that only move on.
LEMMA AuditQuiet ==
  ASSUME Inv, AuditInv, NEW s \in Slots, NEW o, op' = [op EXCEPT ![s] = o],
         o.row = NULL, o.pc = "reopen" => RoleOf[o.actor] = "ADMIN",
         op[s].pc # "history", UNCHANGED <<run, history, crashes>>
  PROVE  AuditInv'
BY AuditStep DEF Created, Explained

LEMMA AuditArrive ==
  ASSUME Inv, AuditInv, UNCHANGED policyVars, NEW s \in Slots, Arrive(s)
  PROVE  AuditInv'
<1>1. PICK a \in Staff, r \in Runs :
        \/ \E v \in Versions : CreateRunRead(s, a, r, v)
        \/ CalculateRead(s, a, r) \/ AdjustRead(s, a, r)
        \/ ApproveRead(s, a, r)   \/ LockRead(s, a, r)
        \/ ReopenRead(s, a, r)    \/ PayslipRead(s, a, r)
  BY DEF Arrive
<1>2. ASSUME NEW v \in Versions, CreateRunRead(s, a, r, v)
      PROVE  AuditInv'
  <2> DEFINE o == [IdleOp EXCEPT !.pc = "create", !.actor = a, !.run = r, !.version = v]
  <2>1. /\ op' = [op EXCEPT ![s] = o] /\ op[s].pc = "idle"
        /\ UNCHANGED <<run, history, crashes>>
    BY <1>2 DEF CreateRunRead, At, tables, policyVars
  <2>2. o.row = NULL /\ o.pc = "create"
    BY DEF IdleOp
  <2> HIDE DEF o
  <2> QED
    BY <2>1, <2>2, AuditQuiet
<1>3. ASSUME NEW pc, Begin(s, a, r, pc), pc = "reopen" => RoleOf[a] = "ADMIN"
      PROVE  AuditInv'
  <2> DEFINE o == [IdleOp EXCEPT !.pc = pc, !.actor = a, !.run = r, !.seen = run[r]]
  <2>1. /\ op' = [op EXCEPT ![s] = o] /\ op[s].pc = "idle"
        /\ UNCHANGED <<run, history, crashes>>
    BY <1>3 DEF Begin, At, tables, policyVars
  <2>2. o.row = NULL /\ o.pc = pc /\ o.actor = a
    BY DEF IdleOp
  <2> HIDE DEF o
  <2> QED
    BY <1>3, <2>1, <2>2, AuditQuiet
<1> QED
  BY <1>1, <1>2, <1>3
     DEF CalculateRead, AdjustRead, ApproveRead, LockRead, ReopenRead, PayslipRead

\* The steps that move on, and those that end the request.
LEMMA AuditMoves ==
  ASSUME Inv, AuditInv, UNCHANGED policyVars, NEW s \in Slots,
         \/ CalculateReadAdjustments(s) \/ CalculateDelete(s) \/ AdjustWrite(s)
         \/ AdjustAudit(s) \/ PayslipItems(s) \/ WriteHistory(s)
  PROVE  AuditInv'
<1>1. op[s] \in Op
  BY DEF Inv, RunInv, RunTypeOK
<1>2. ASSUME CalculateReadAdjustments(s) \/ CalculateDelete(s) \/ AdjustWrite(s)
      PROVE  AuditInv'
  <2>1. PICK o : o = op'[s]
    OBVIOUS
  <2>2. /\ op' = [op EXCEPT ![s] = o] /\ o.row = op[s].row
        /\ op[s].pc # "history" /\ o.pc # "reopen"
        /\ UNCHANGED <<run, history, crashes>>
    BY <1>1, <1>2, <2>1
       DEF CalculateReadAdjustments, CalculateDelete, AdjustWrite, At, tables, policyVars, Op,
           Inv, RunInv, RunTypeOK
  <2> QED
    BY <2>2, AuditQuiet DEF AuditInv
<1>3. IdleOp.row = NULL /\ IdleOp.pc = "idle"
  BY DEF IdleOp
<1>4. ASSUME AdjustAudit(s) \/ PayslipItems(s) PROVE AuditInv'
  <2>1. /\ op' = [op EXCEPT ![s] = IdleOp] /\ op[s].pc # "history"
        /\ UNCHANGED <<run, history, crashes>>
    BY <1>4 DEF AdjustAudit, PayslipItems, Finish, At, tables, policyVars
  <2> QED
    BY <1>3, <2>1, AuditQuiet
<1>5. ASSUME WriteHistory(s) PROVE AuditInv'
  <2>1. /\ op' = [op EXCEPT ![s] = IdleOp] /\ op[s].row \in history'
        /\ history \subseteq history' /\ UNCHANGED <<run, crashes>>
    BY <1>5 DEF WriteHistory, Finish, policyVars
  <2> QED
    BY <1>3, <2>1, AuditStep DEF Created, Explained
<1> QED
  BY <1>2, <1>4, <1>5

\* The steps that change a run and owe its history row.
LEMMA AuditWrites ==
  ASSUME Inv, AuditInv, UNCHANGED policyVars, NEW s \in Slots,
         \/ CreateRunWrite(s) \/ CalculateCommit(s) \/ ApproveWrite(s)
         \/ LockWrite(s) \/ ReopenWrite(s)
  PROVE  AuditInv'
<1>1. op[s].pc # "history" /\ UNCHANGED <<history, crashes>>
  BY DEF CreateRunWrite, CalculateCommit, ApproveWrite, LockWrite, ReopenWrite, At, policyVars
<1>2. PICK action, from, revision : OweHistory(s, action, from, revision)
  BY DEF CreateRunWrite, CalculateCommit, ApproveWrite, LockWrite, ReopenWrite
<1>3. PICK o : op' = [op EXCEPT ![s] = o] /\ o.pc = "history" /\ o = op'[s]
  BY <1>2 DEF OweHistory, IdleOp, Inv, RunInv, RunTypeOK
<1>4. ASSUME NEW r \in Runs, r # op[s].run, run'[r] # NULL
      PROVE  Created(r) /\ run'[r].revision = run[r].revision
  BY <1>4 DEF CreateRunWrite, CalculateCommit, ApproveWrite, LockWrite, ReopenWrite, Created,
              Inv, RunInv, RunTypeOK
<1>5. op[s].run \in Runs /\ op[s].actor \in Staff
  BY DEF CreateRunWrite, CalculateCommit, ApproveWrite, LockWrite, ReopenWrite, At, Inv, RunInv,
         SlotOK, OnRun
<1>6. ~CreateRunWrite(s) => Created(op[s].run) /\ run[op[s].run] \in RunRow
  BY OnItsRun DEF CalculateCommit, ApproveWrite, LockWrite, ReopenWrite, At, OnRun, Inv, RunInv,
                  SlotOK
<1>7. Explained(op[s].run, o)
  <2> USE DEF Explained
  <2>1. CASE CreateRunWrite(s)
    BY <1>5, <2>1 DEF CreateRunWrite, Inv, RunInv, RunTypeOK
  <2>2. CASE CalculateCommit(s) \/ ApproveWrite(s) \/ LockWrite(s)
    <3>1. ~CreateRunWrite(s)
      BY <2>2 DEF CalculateCommit, ApproveWrite, LockWrite, CreateRunWrite, At
    <3> QED
      BY <1>5, <1>6, <2>2, <3>1
         DEF CalculateCommit, ApproveWrite, LockWrite, Inv, RunInv, RunTypeOK, RunRow
  <2>3. CASE ReopenWrite(s)
    <3>1. ~CreateRunWrite(s)
      BY <2>3 DEF ReopenWrite, CreateRunWrite, At
    <3>2. run'[op[s].run].revision = run[op[s].run].revision + 1
      BY <1>5, <1>6, <2>3, <3>1 DEF ReopenWrite, Inv, RunInv, RunTypeOK, RunRow
    <3>3. o.row = Reopening(op[s].run, op[s].actor, run[op[s].run].revision + 1)
      <4>1. OweHistory(s, "REOPENED", "LOCKED", run[op[s].run].revision + 1)
        BY <2>3 DEF ReopenWrite
      <4>2. op' = [op EXCEPT ![s] = [IdleOp EXCEPT !.pc  = "history",
                                !.row = Reopening(op[s].run, op[s].actor,
                                                  run[op[s].run].revision + 1)]]
        BY <4>1 DEF OweHistory, Reopening
      <4>3. op'[s] = [IdleOp EXCEPT !.pc  = "history",
                                    !.row = Reopening(op[s].run, op[s].actor,
                                                      run[op[s].run].revision + 1)]
        BY <4>2 DEF Inv, RunInv, RunTypeOK
      <4>4. \A x : [IdleOp EXCEPT !.pc = "history", !.row = x].row = x
        BY DEF IdleOp
      <4> QED
        BY <1>3, <4>3, <4>4
    <3>4. RoleOf[op[s].actor] = "ADMIN"
      BY <2>3 DEF ReopenWrite, At, AuditInv
    <3> QED
      BY <1>5, <1>6, <3>1, <3>2, <3>3, <3>4
  <2> QED
    BY <2>1, <2>2, <2>3
<1>8. \A r \in Runs : run'[r] # NULL => Explained(r, o)
  BY ONLY <1>4, <1>7 DEF Explained
<1>9. /\ o.pc # "history" => o.row = NULL
      /\ o.pc = "reopen" => RoleOf[o.actor] = "ADMIN"
      /\ crashes' = crashes /\ history \subseteq history'
      /\ op[s].pc = "history" => op[s].row \in history'
  BY <1>1, <1>3
<1> QED
  BY ONLY <1>3, <1>8, <1>9, Inv, AuditInv, s \in Slots, AuditStep

LEMMA AuditInitially == Init => AuditInv
BY DEF Init, RunInit, AuditInv, IdleOp, ReopeningsAudited, Created

LEMMA AuditNext ==
  ASSUME Inv, AuditInv, [Next]_vars
  PROVE  AuditInv'
<1>1. ASSUME UNCHANGED runVars, crashes' = 0 => crashes = 0 PROVE AuditInv'
  <2>1. UNCHANGED <<run, history, op>>
    BY <1>1 DEF runVars, tables
  <2> QED
    BY <1>1, <2>1 DEF AuditInv, ReopeningsAudited, Created, Recorded
<1>2. ASSUME PolicyStep, UNCHANGED runVars PROVE AuditInv'
  <2>1. crashes' = crashes
    BY <1>2 DEF PolicyStep, CreatePolicyRead, ApprovePolicyRead, CreatePolicyWrite,
                ApprovePolicyWrite, PolicyAudit
  <2> QED
    BY <1>1, <1>2, <2>1
<1>3. ASSUME Crash PROVE AuditInv'
  <2>1. crashes' # 0 /\ \A s \in Slots : op'[s].pc = "idle" /\ op'[s].row = NULL
    BY <1>3 DEF Crash, PolicyCrash, Inv, PolicyInv, PolicyTypeOK, IdleOp
  <2> QED
    BY <2>1 DEF AuditInv, ReopeningsAudited
<1>4. ASSUME UNCHANGED vars PROVE AuditInv'
  BY <1>1, <1>4 DEF vars, policyVars
<1>5. ASSUME RunStep, UNCHANGED policyVars PROVE AuditInv'
  BY <1>5, AuditArrive, AuditMoves, AuditWrites DEF RunStep, Continue
<1> QED
  BY <1>2, <1>3, <1>4, <1>5 DEF Next

\* As long as the process does not crash, every revision of a run after the
\* first has the history row of an administrator's reopening, or the request
\* that is about to write it, however many reopenings race.
THEOREM ReopeningsOnRecord == Spec => []ReopeningsAudited
<1>1. Inv /\ AuditInv /\ [Next]_vars => AuditInv'
  BY AuditNext
<1>2. AuditInv => ReopeningsAudited
  BY DEF AuditInv
<1> QED
  BY Invariance, AuditInitially, <1>1, <1>2, PTL DEF Spec

---------------------------------------------------------------------------
(* One run request at a time.                                              *)

Unlocked == {"DRAFT", "CALCULATED"}

\* What a request has read still holds.
ReadSlot(o) ==
    /\ o.pc = "create" => o.actor \in Makers
    /\ OnRun(o) => o.seen = run[o.run]
    /\ o.pc \in {"readAdjustments", "deleteItems", "commitItems", "adjust"} =>
           o.seen.status \in Unlocked
    /\ o.pc \in {"deleteItems", "commitItems"} => o.adjustments = adjustments[o.run]
    /\ o.pc = "commitItems" => o.deleted = items[o.run]
    /\ o.pc = "approve" => o.seen.status = "CALCULATED"
    /\ o.pc = "lock" => o.seen.status = "APPROVED"
    /\ o.pc = "reopen" => o.seen.status = "LOCKED" /\ RoleOf[o.actor] = "ADMIN"
    /\ o.pc = "readItems" => o.seen.status = "LOCKED"

\* A run that does not exist yet has neither items nor adjustments.
NothingBefore ==
    \A r \in Runs : ~Created(r) => items[r] = {} /\ adjustments[r] = 0

SerialInv ==
    /\ OneAtATime
    /\ \A s \in Slots : ReadSlot(op[s])
    /\ NothingBefore

LEMMA IdleReads == ReadSlot(IdleOp) /\ ReadSlot(IdleOp)'
BY DEF ReadSlot, OnRun, IdleOp

\* The other slots are idle, or nothing they have read changes.
LEMMA ReadsHold ==
  ASSUME Inv, SerialInv, NEW s \in Slots, NEW o, op' = [op EXCEPT ![s] = o],
         op[s] # IdleOp \/ UNCHANGED tables, ReadSlot(o)'
  PROVE  \A t \in Slots : ReadSlot(op[t])'
<1> SUFFICES ASSUME NEW t \in Slots PROVE ReadSlot(op[t])'
  OBVIOUS
<1>1. op'[s] = o /\ (t # s => op'[t] = op[t])
  BY DEF Inv, RunInv, RunTypeOK
<1>2. CASE t = s
  BY <1>1, <1>2
<1>3. CASE t # s /\ op[t] = IdleOp
  BY <1>1, <1>3, IdleReads
<1>4. CASE t # s /\ op[t] # IdleOp
  <2>1. UNCHANGED tables
    BY <1>4 DEF SerialInv, OneAtATime, Busy
  <2>2. PICK q : q = op[t]
    OBVIOUS
  <2>3. ReadSlot(q)
    BY <2>2 DEF SerialInv
  <2>4. ReadSlot(q)'
    BY <2>1, <2>3 DEF ReadSlot, tables
  <2> QED
    BY <1>1, <1>4, <2>2, <2>4
<1> QED
  BY <1>2, <1>3, <1>4

LEMMA SameTables ==
  ASSUME NothingBefore, UNCHANGED <<run, items, adjustments>>
  PROVE  NothingBefore' /\ UNCHANGED Payroll
<1>1. \A r \in Runs : Lines(r)' = Lines(r)
  BY DEF Lines
<1>2. UNCHANGED Payroll
  BY <1>1 DEF Payroll, Created
<1> QED
  BY <1>2 DEF NothingBefore, Created

\* A step of slot s that shows nothing of the run.
LEMMA SerialQuiet ==
  ASSUME Inv, SerialInv, OneAtATime', NEW s \in Slots, NEW o, op' = [op EXCEPT ![s] = o],
         UNCHANGED <<run, items, adjustments>>,
         op[s] # IdleOp \/ UNCHANGED tables, ReadSlot(o)
  PROVE  SerialInv' /\ UNCHANGED Payroll
<1>1. ReadSlot(o)'
  BY DEF ReadSlot
<1> QED
  BY <1>1, ReadsHold, SameTables DEF SerialInv

LEMMA SerialArrive ==
  ASSUME Inv, SerialInv, OneAtATime', NEW s \in Slots, Arrive(s)
  PROVE  SerialInv' /\ UNCHANGED Payroll
<1>1. PICK a \in Staff, r \in Runs :
        \/ \E v \in Versions : CreateRunRead(s, a, r, v)
        \/ CalculateRead(s, a, r) \/ AdjustRead(s, a, r)
        \/ ApproveRead(s, a, r)   \/ LockRead(s, a, r)
        \/ ReopenRead(s, a, r)    \/ PayslipRead(s, a, r)
  BY DEF Arrive
<1>2. ASSUME NEW v \in Versions, CreateRunRead(s, a, r, v)
      PROVE  SerialInv' /\ UNCHANGED Payroll
  <2>1. PICK o : o = [IdleOp EXCEPT !.pc = "create", !.actor = a, !.run = r, !.version = v]
    OBVIOUS
  <2>2. /\ op' = [op EXCEPT ![s] = o] /\ a \in Makers
        /\ UNCHANGED <<run, items, adjustments>> /\ UNCHANGED tables
    BY <1>2, <2>1 DEF CreateRunRead, tables
  <2>3. ReadSlot(o)
    BY <2>1, <2>2 DEF ReadSlot, OnRun, IdleOp
  <2> QED
    BY <2>2, <2>3, SerialQuiet
<1>3. ASSUME NEW pc, Begin(s, a, r, pc), pc # "create",
             pc # "deleteItems", pc # "commitItems",
             pc \in {"readAdjustments", "adjust"} => run[r].status \in Unlocked,
             pc = "approve" => run[r].status = "CALCULATED",
             pc = "lock" => run[r].status = "APPROVED",
             pc = "reopen" => run[r].status = "LOCKED" /\ RoleOf[a] = "ADMIN",
             pc = "readItems" => run[r].status = "LOCKED"
      PROVE  SerialInv' /\ UNCHANGED Payroll
  <2>1. PICK o : o = [IdleOp EXCEPT !.pc = pc, !.actor = a, !.run = r, !.seen = run[r]]
    OBVIOUS
  <2>2. /\ op' = [op EXCEPT ![s] = o]
        /\ UNCHANGED <<run, items, adjustments>> /\ UNCHANGED tables
    BY <1>3, <2>1 DEF Begin, tables
  <2>3. o.pc = pc /\ o.actor = a /\ o.run = r /\ o.seen = run[r]
    BY <2>1 DEF IdleOp
  <2>4. ReadSlot(o)
    BY <1>3, <2>3 DEF ReadSlot, OnRun
  <2> QED
    BY <2>2, <2>4, SerialQuiet
<1> QED
  BY <1>1, <1>2, <1>3
     DEF CalculateRead, AdjustRead, ApproveRead, LockRead, ReopenRead, PayslipRead, Unlocked

\* The steps that move on and those that end the request.
LEMMA SerialMoves ==
  ASSUME Inv, SerialInv, OneAtATime', NEW s \in Slots,
         \/ CalculateReadAdjustments(s) \/ CalculateDelete(s)
         \/ AdjustAudit(s) \/ PayslipItems(s) \/ WriteHistory(s)
  PROVE  SerialInv' /\ UNCHANGED Payroll
<1>1. op[s] \in Op /\ ReadSlot(op[s])
  BY DEF Inv, RunInv, RunTypeOK, SerialInv
<1>2. op[s] # IdleOp /\ UNCHANGED <<run, items, adjustments>>
  BY DEF CalculateReadAdjustments, CalculateDelete, AdjustAudit, PayslipItems, WriteHistory, At,
         tables, IdleOp
<1>3. PICK q : q = op[s]
  OBVIOUS
<1>4. ASSUME CalculateReadAdjustments(s) PROVE SerialInv' /\ UNCHANGED Payroll
  <2>1. PICK o : o = [q EXCEPT !.pc = "deleteItems", !.adjustments = adjustments[q.run]]
    OBVIOUS
  <2>2. op' = [op EXCEPT ![s] = o]
    BY <1>1, <1>3, <1>4, <2>1 DEF CalculateReadAdjustments, Inv, RunInv, RunTypeOK
  <2>3. /\ o.pc = "deleteItems" /\ o.adjustments = adjustments[q.run]
        /\ o.run = q.run /\ o.seen = q.seen
    BY <1>1, <1>3, <2>1 DEF Op
  <2>4. ReadSlot(o)
    BY <1>1, <1>3, <1>4, <2>3 DEF ReadSlot, OnRun, CalculateReadAdjustments, At
  <2> QED
    BY <1>2, <2>2, <2>4, SerialQuiet
<1>5. ASSUME CalculateDelete(s) PROVE SerialInv' /\ UNCHANGED Payroll
  <2>1. PICK o : o = [q EXCEPT !.pc = "commitItems", !.deleted = items[q.run]]
    OBVIOUS
  <2>2. op' = [op EXCEPT ![s] = o]
    BY <1>1, <1>3, <1>5, <2>1 DEF CalculateDelete, Inv, RunInv, RunTypeOK
  <2>3. /\ o.pc = "commitItems" /\ o.adjustments = q.adjustments
        /\ o.run = q.run /\ o.seen = q.seen /\ o.deleted = items[q.run]
    BY <1>1, <1>3, <2>1 DEF Op
  <2>4. ReadSlot(o)
    BY <1>1, <1>3, <1>5, <2>3 DEF ReadSlot, OnRun, CalculateDelete, At
  <2> QED
    BY <1>2, <2>2, <2>4, SerialQuiet
<1>6. ASSUME AdjustAudit(s) \/ PayslipItems(s) \/ WriteHistory(s)
      PROVE  SerialInv' /\ UNCHANGED Payroll
  <2>1. op' = [op EXCEPT ![s] = IdleOp]
    BY <1>6 DEF AdjustAudit, PayslipItems, WriteHistory, Finish
  <2> QED
    BY <1>2, <2>1, IdleReads, SerialQuiet
<1> QED
  BY <1>4, <1>5, <1>6

---------------------------------------------------------------------------
(* The writes: each is the step of the lifecycle it is named for.          *)

\* Run r as the lifecycle sees it.
LifeRow(r) ==
    IF Created(r)
    THEN [status      |-> run[r].status,
          revision    |-> run[r].revision,
          preparer    |-> run[r].createdBy,
          approver    |-> run[r].approvedBy,
          lines       |-> Lines(r),
          adjustments |-> adjustments[r]]
    ELSE NULL

LEMMA LifeRowExists ==
  ASSUME Inv, NEW r \in Runs, Created(r)
  PROVE  LifeRow(r) # NULL
<1>1. run[r] \in RunRow /\ items[r] \subseteq Batch /\ adjustments[r] \in Nat
  BY DEF Inv, RunInv, RunTypeOK, Created
<1>2. Lines(r) \in Nat \cup {NULL}
  BY <1>1 DEF Lines, Batch
<1>3. LifeRow(r) \in LifecycleRow
  BY <1>1, <1>2 DEF LifeRow, LifecycleRow, RunRow
<1> QED
  BY <1>3, LifecycleAssumption

\* A run of the lifecycle, and what its steps make of it.
Life(status, revision, preparer, approver, lines, n) ==
    [status      |-> status,
     revision    |-> revision,
     preparer    |-> preparer,
     approver    |-> approver,
     lines       |-> lines,
     adjustments |-> n]

LEMMA LifeParts ==
  ASSUME NEW st, NEW rev, NEW p, NEW a, NEW l, NEW n,
         NEW x, x = Life(st, rev, p, a, l, n)
  PROVE  x.status = st /\ x.revision = rev /\ x.preparer = p /\ x.adjustments = n
BY DEF Life

LEMMA LifeStatus ==
  ASSUME NEW st, NEW rev, NEW p, NEW a, NEW l, NEW n,
         NEW x, x = Life(st, rev, p, a, l, n), NEW y
  PROVE  [x EXCEPT !.status = y] = Life(y, rev, p, a, l, n)
BY DEF Life

LEMMA LifeRevision ==
  ASSUME NEW st, NEW rev, NEW p, NEW a, NEW l, NEW n,
         NEW x, x = Life(st, rev, p, a, l, n), NEW y
  PROVE  [x EXCEPT !.revision = y] = Life(st, y, p, a, l, n)
BY DEF Life

LEMMA LifeApprover ==
  ASSUME NEW st, NEW rev, NEW p, NEW a, NEW l, NEW n,
         NEW x, x = Life(st, rev, p, a, l, n), NEW y
  PROVE  [x EXCEPT !.approver = y] = Life(st, rev, p, y, l, n)
BY DEF Life

LEMMA LifeLines ==
  ASSUME NEW st, NEW rev, NEW p, NEW a, NEW l, NEW n,
         NEW x, x = Life(st, rev, p, a, l, n), NEW y
  PROVE  [x EXCEPT !.lines = y] = Life(st, rev, p, a, y, n)
BY DEF Life

LEMMA LifeAdjustments ==
  ASSUME NEW st, NEW rev, NEW p, NEW a, NEW l, NEW n,
         NEW x, x = Life(st, rev, p, a, l, n), NEW y
  PROVE  [x EXCEPT !.adjustments = y] = Life(st, rev, p, a, l, y)
BY DEF Life

LEMMA LifeRows == Payroll = [r \in Runs |-> LifeRow(r)]
BY DEF Payroll, LifeRow

\* A step that touches one run.
LEMMA OneRun ==
  ASSUME NEW r \in Runs, run'[r] # NULL,
         \A q \in Runs \ {r} :
             run'[q] = run[q] /\ items'[q] = items[q] /\ adjustments'[q] = adjustments[q],
         NothingBefore
  PROVE  /\ Payroll' = [Payroll EXCEPT ![r] = LifeRow(r)']
         /\ Payroll[r] = LifeRow(r)
         /\ NothingBefore'
<1>1. ASSUME NEW q \in Runs \ {r} PROVE LifeRow(q)' = LifeRow(q)
  <2>1. Lines(q)' = Lines(q)
    BY DEF Lines
  <2> QED
    BY <2>1 DEF LifeRow, Created
<1>2. Payroll' = [q \in Runs |-> LifeRow(q)']
  BY DEF Payroll, LifeRow
<1>3. NothingBefore'
  BY DEF NothingBefore, Created
<1> QED
  BY <1>1, <1>2, <1>3, LifeRows

\* A request that has made its change knows nothing more.
LEMMA SerialWrite ==
  ASSUME Inv, SerialInv, OneAtATime', NEW s \in Slots, op[s] # IdleOp,
         NEW action, NEW from, NEW revision, OweHistory(s, action, from, revision),
         NothingBefore'
  PROVE  SerialInv'
<1>1. PICK o : op' = [op EXCEPT ![s] = o] /\ o.pc = "history"
  <2>1. PICK row : op' = [op EXCEPT ![s] = [IdleOp EXCEPT !.pc = "history", !.row = row]]
    BY DEF OweHistory
  <2>2. [IdleOp EXCEPT !.pc = "history", !.row = row].pc = "history"
    BY DEF IdleOp
  <2> QED
    BY <2>1, <2>2
<1>2. ReadSlot(o)'
  BY <1>1 DEF ReadSlot, OnRun
<1> QED
  BY <1>1, <1>2, ReadsHold DEF SerialInv

LifecycleStep == Lifecycle!Next \/ UNCHANGED Payroll

\* The run that a request at one of the later steps acts on, as it was read.
LEMMA AsRead ==
  ASSUME Inv, SerialInv, NEW s \in Slots, OnRun(op[s])
  PROVE  /\ op[s].run \in Runs /\ Created(op[s].run) /\ run[op[s].run] \in RunRow
         /\ op[s].seen = run[op[s].run] /\ op[s] # IdleOp
BY OnItsRun DEF SerialInv, ReadSlot, Inv, RunInv, SlotOK, OnRun, IdleOp

LEMMA CreateRunWriteSerial ==
  ASSUME Inv, SerialInv, OneAtATime', NEW s \in Slots, CreateRunWrite(s)
  PROVE  SerialInv' /\ LifecycleStep
<1>1. PICK r, a : r = op[s].run /\ a = op[s].actor
  OBVIOUS
<1>2. /\ op[s].pc = "create" /\ r \in Runs /\ a \in Makers /\ ~Created(r)
      /\ op[s] # IdleOp
  BY <1>1 DEF CreateRunWrite, At, Inv, RunInv, SlotOK, FreshOK, SerialInv, ReadSlot, IdleOp
<1>3. PICK row : row = [status |-> "DRAFT", revision |-> 1, policy |-> op[s].version,
                        createdBy |-> a, approvedBy |-> NULL, hash |-> NULL]
  OBVIOUS
<1>4. /\ run' = [run EXCEPT ![r] = row] /\ UNCHANGED <<items, adjustments>>
      /\ OweHistory(s, "CREATED", "DRAFT", 1)
  BY <1>1, <1>3 DEF CreateRunWrite
<1>5. run'[r] = row /\ \A q \in Runs \ {r} : run'[q] = run[q]
  BY <1>2, <1>4 DEF Inv, RunInv, RunTypeOK
<1>6. row # NULL
  <2>1. row \in RunRow
    BY <1>1, <1>2, <1>3 DEF RunRow, Inv, RunInv, SlotOK
  <2> QED
    BY <2>1, RunAssumption
<1>7. /\ Payroll' = [Payroll EXCEPT ![r] = LifeRow(r)'] /\ Payroll[r] = LifeRow(r)
      /\ NothingBefore'
  BY <1>2, <1>4, <1>5, <1>6, OneRun DEF SerialInv
<1>8. items[r] = {} /\ adjustments[r] = 0
  BY <1>2 DEF SerialInv, NothingBefore
<1>9. LifeRow(r) = NULL /\ LifeRow(r)' = Lifecycle!New(a)
  <2>1. Lines(r)' = NULL
    BY <1>4, <1>8 DEF Lines
  <2> QED
    BY <1>2, <1>3, <1>4, <1>5, <1>6, <1>8, <2>1 DEF LifeRow, Created, Lifecycle!New
<1>10. Lifecycle!Prepare(r, a)
  BY <1>7, <1>9 DEF Lifecycle!Prepare
<1> QED
  BY <1>2, <1>4, <1>7, <1>10, SerialWrite DEF LifecycleStep, Lifecycle!Next

\* calculate: the items the transaction finds are those it deletes.
LEMMA CalculateCommitSerial ==
  ASSUME Inv, SerialInv, OneAtATime', NEW s \in Slots, CalculateCommit(s)
  PROVE  SerialInv' /\ LifecycleStep
<1>1. PICK r, n : r = op[s].run /\ n = adjustments[r]
  OBVIOUS
<1>2. /\ r \in Runs /\ Created(r) /\ run[r] \in RunRow
      /\ run[r].status \in Unlocked /\ op[s] # IdleOp
      /\ op[s].adjustments = n /\ op[s].deleted = items[r]
  BY <1>1, AsRead DEF CalculateCommit, At, OnRun, SerialInv, ReadSlot
<1>3. PICK row : row = [run[r] EXCEPT !.status = "CALCULATED", !.hash = n]
  OBVIOUS
<1>4. /\ run' = [run EXCEPT ![r] = row] /\ UNCHANGED adjustments
      /\ items' = [items EXCEPT ![r] =
                      (@ \ items[r]) \cup {[calculation |-> calculations, adjustments |-> n]}]
      /\ \E from, revision : OweHistory(s, "CALCULATED", from, revision)
  BY <1>1, <1>2, <1>3 DEF CalculateCommit
<1>5. /\ run'[r] = row
      /\ items'[r] = {[calculation |-> calculations, adjustments |-> n]}
      /\ \A q \in Runs \ {r} : run'[q] = run[q] /\ items'[q] = items[q]
  BY <1>2, <1>4 DEF Inv, RunInv, RunTypeOK
<1>6. /\ row # NULL /\ row.status = "CALCULATED" /\ row.revision = run[r].revision
      /\ row.createdBy = run[r].createdBy /\ row.approvedBy = run[r].approvedBy
  <2>1. n \in Nat
    BY <1>1, <1>2 DEF Inv, RunInv, RunTypeOK
  <2>2. row \in RunRow
    BY <1>2, <1>3, <2>1 DEF RunRow
  <2> QED
    BY <1>2, <1>3, <2>2, RunAssumption DEF RunRow
<1>7. /\ Payroll' = [Payroll EXCEPT ![r] = LifeRow(r)'] /\ Payroll[r] = LifeRow(r)
      /\ NothingBefore'
  BY <1>2, <1>4, <1>5, <1>6, OneRun DEF SerialInv
<1>8. Lines(r)' = n
  <2>1. PICK b : b = [calculation |-> calculations, adjustments |-> n]
    OBVIOUS
  <2>2. items'[r] = {b} /\ b.adjustments = n
    BY <1>5, <2>1
  <2> QED
    BY <2>2 DEF Lines
<1>9. Lifecycle!Calculate(r)
  <2>1. PICK st, rev, p, a, l : /\ st = run[r].status /\ rev = run[r].revision
                                /\ p = run[r].createdBy /\ a = run[r].approvedBy
                                /\ l = Lines(r)
    OBVIOUS
  <2>2. LifeRow(r) = Life(st, rev, p, a, l, n)
    BY <1>1, <1>2, <2>1 DEF LifeRow, Life
  <2>3. LifeRow(r)' = Life("CALCULATED", rev, p, a, n, n)
    BY <1>1, <1>4, <1>5, <1>6, <1>8, <2>1 DEF LifeRow, Life, Created
  <2>4. PICK x : x = LifeRow(r)
    OBVIOUS
  <2>5. x.status = st /\ x.adjustments = n
    BY <2>2, <2>4, LifeParts
  <2>6. LifeRow(r)' = [x EXCEPT !.status = "CALCULATED", !.lines = x.adjustments]
    <3>1. PICK y : y = [x EXCEPT !.status = "CALCULATED"]
      OBVIOUS
    <3>2. y = Life("CALCULATED", rev, p, a, l, n)
      BY <2>2, <2>4, <3>1, LifeStatus
    <3>3. [y EXCEPT !.lines = n] = Life("CALCULATED", rev, p, a, n, n)
      BY <3>2, LifeLines
    <3> QED
      BY <2>3, <2>5, <3>1, <3>3
  <2> QED
    BY <1>2, <1>7, <2>1, <2>4, <2>5, <2>6, LifeRowExists
    DEF Lifecycle!Calculate, Lifecycle!Open, Unlocked
<1> QED
  BY <1>2, <1>4, <1>7, <1>9, SerialWrite DEF LifecycleStep, Lifecycle!Next

\* A step that writes the row of a run and leaves its items alone.
LEMMA RunRewritten ==
  ASSUME Inv, SerialInv, NEW r \in Runs, Created(r), NEW row \in RunRow,
         row.createdBy = run[r].createdBy,
         run' = [run EXCEPT ![r] = row], UNCHANGED <<items, adjustments>>
  PROVE  /\ NothingBefore'
         /\ Payroll[r] # NULL
         /\ Payroll[r] = Life(run[r].status, run[r].revision, run[r].createdBy,
                              run[r].approvedBy, Lines(r), adjustments[r])
         /\ Payroll' = [Payroll EXCEPT ![r] =
                           Life(row.status, row.revision, run[r].createdBy,
                                row.approvedBy, Lines(r), adjustments[r])]
<1>1. run'[r] = row /\ \A q \in Runs \ {r} : run'[q] = run[q]
  BY DEF Inv, RunInv, RunTypeOK
<1>2. row # NULL
  BY RunAssumption
<1>3. /\ Payroll' = [Payroll EXCEPT ![r] = LifeRow(r)'] /\ Payroll[r] = LifeRow(r)
      /\ NothingBefore'
  BY <1>1, <1>2, OneRun DEF SerialInv
<1>4. Lines(r)' = Lines(r)
  BY DEF Lines
<1>5. LifeRow(r) = Life(run[r].status, run[r].revision, run[r].createdBy, run[r].approvedBy,
                        Lines(r), adjustments[r])
  BY DEF LifeRow, Life
<1>6. LifeRow(r)' = Life(row.status, row.revision, run[r].createdBy, row.approvedBy,
                         Lines(r), adjustments[r])
  BY <1>1, <1>2, <1>4 DEF LifeRow, Life, Created
<1> QED
  BY <1>3, <1>5, <1>6, LifeRowExists

LEMMA ApproveWriteSerial ==
  ASSUME Inv, SerialInv, OneAtATime', NEW s \in Slots, ApproveWrite(s)
  PROVE  SerialInv' /\ LifecycleStep
<1>1. PICK r, c : r = op[s].run /\ c = op[s].actor
  OBVIOUS
<1>2. /\ r \in Runs /\ Created(r) /\ run[r] \in RunRow /\ op[s] # IdleOp
      /\ run[r].status = "CALCULATED" /\ c \in Checkers /\ c # run[r].createdBy
  BY <1>1, AsRead DEF ApproveWrite, At, OnRun, SerialInv, ReadSlot, Inv, RunInv, SlotOK
<1>3. PICK row : row = [run[r] EXCEPT !.status = "APPROVED", !.approvedBy = c]
  OBVIOUS
<1>4. /\ run' = [run EXCEPT ![r] = row] /\ UNCHANGED <<items, adjustments>>
      /\ \E from, revision : OweHistory(s, "APPROVED", from, revision)
  BY <1>1, <1>3 DEF ApproveWrite
<1>5. /\ row \in RunRow /\ row.status = "APPROVED" /\ row.revision = run[r].revision
      /\ row.createdBy = run[r].createdBy /\ row.approvedBy = c
  BY <1>2, <1>3 DEF RunRow, Checkers
<1>6. PICK st, rev, p, a, l, n :
         /\ st = run[r].status /\ rev = run[r].revision /\ p = run[r].createdBy
         /\ a = run[r].approvedBy /\ l = Lines(r) /\ n = adjustments[r]
  OBVIOUS
<1>7. /\ Payroll[r] = Life(st, rev, p, a, l, n) /\ Payroll[r] # NULL /\ NothingBefore'
      /\ Payroll' = [Payroll EXCEPT ![r] = Life("APPROVED", rev, p, c, l, n)]
  <2>1. /\ NothingBefore'
        /\ Payroll[r] # NULL
        /\ Payroll[r] = Life(run[r].status, run[r].revision, run[r].createdBy,
                             run[r].approvedBy, Lines(r), adjustments[r])
        /\ Payroll' = [Payroll EXCEPT ![r] =
                          Life(row.status, row.revision, run[r].createdBy,
                               row.approvedBy, Lines(r), adjustments[r])]
    BY <1>2, <1>4, <1>5, RunRewritten
  <2> QED
    BY <1>1, <1>5, <1>6, <2>1
<1>8. Lifecycle!Approve(r, c)
  <2>1. PICK x, y : x = Payroll[r] /\ y = [x EXCEPT !.status = "APPROVED"]
    OBVIOUS
  <2>2. x.status = st /\ x.preparer = p
    BY <1>7, <2>1, LifeParts
  <2>3. y = Life("APPROVED", rev, p, a, l, n)
    BY <1>7, <2>1, LifeStatus
  <2>4. [y EXCEPT !.approver = c] = Life("APPROVED", rev, p, c, l, n)
    BY <2>3, LifeApprover
  <2> QED
    <3>1. /\ Payroll[r] # NULL /\ Payroll[r].status = "CALCULATED"
          /\ c # Payroll[r].preparer
      BY <1>2, <1>6, <1>7, <2>1, <2>2
    <3>2. Payroll' = [Payroll EXCEPT ![r].status = "APPROVED", ![r].approver = c]
      BY <1>7, <2>1, <2>4
    <3> QED
      BY ONLY <3>1, <3>2 DEF Lifecycle!Approve, Lifecycle!Is
<1> QED
  BY <1>2, <1>4, <1>7, <1>8, SerialWrite DEF LifecycleStep, Lifecycle!Next

\* A lock writes back the approver it read, who is still the approver.
LEMMA LockWriteSerial ==
  ASSUME Inv, SerialInv, OneAtATime', NEW s \in Slots, LockWrite(s)
  PROVE  SerialInv' /\ LifecycleStep
<1>1. PICK r, c : r = op[s].run /\ c = run[r].approvedBy
  OBVIOUS
<1>2. /\ r \in Runs /\ Created(r) /\ run[r] \in RunRow /\ op[s] # IdleOp
      /\ run[r].status = "APPROVED" /\ op[s].seen.approvedBy = c
  BY <1>1, AsRead DEF LockWrite, At, OnRun, SerialInv, ReadSlot
<1>3. PICK row : row = [run[r] EXCEPT !.status = "LOCKED", !.approvedBy = c]
  OBVIOUS
<1>4. /\ run' = [run EXCEPT ![r] = row] /\ UNCHANGED <<items, adjustments>>
      /\ \E from, revision : OweHistory(s, "LOCKED", from, revision)
  BY <1>1, <1>2, <1>3 DEF LockWrite
<1>5. /\ row \in RunRow /\ row.status = "LOCKED" /\ row.revision = run[r].revision
      /\ row.createdBy = run[r].createdBy /\ row.approvedBy = c
  BY <1>1, <1>2, <1>3 DEF RunRow
<1>6. PICK st, rev, p, l, n :
         /\ st = run[r].status /\ rev = run[r].revision /\ p = run[r].createdBy
         /\ l = Lines(r) /\ n = adjustments[r]
  OBVIOUS
<1>7. /\ Payroll[r] = Life(st, rev, p, c, l, n) /\ Payroll[r] # NULL /\ NothingBefore'
      /\ Payroll' = [Payroll EXCEPT ![r] = Life("LOCKED", rev, p, c, l, n)]
  <2>1. /\ NothingBefore'
        /\ Payroll[r] # NULL
        /\ Payroll[r] = Life(run[r].status, run[r].revision, run[r].createdBy,
                             run[r].approvedBy, Lines(r), adjustments[r])
        /\ Payroll' = [Payroll EXCEPT ![r] =
                          Life(row.status, row.revision, run[r].createdBy,
                               row.approvedBy, Lines(r), adjustments[r])]
    BY <1>1, <1>2, <1>4, <1>5, RunRewritten
  <2> QED
    BY <1>1, <1>5, <1>6, <2>1
<1>8. Lifecycle!Lock(r)
  <2>1. PICK x, y : x = Payroll[r] /\ y = [x EXCEPT !.status = "LOCKED"]
    OBVIOUS
  <2>2. x.status = st
    BY <1>7, <2>1, LifeParts
  <2>3. y = Life("LOCKED", rev, p, c, l, n)
    BY <1>7, <2>1, LifeStatus
  <2> QED
    BY <1>2, <1>6, <1>7, <2>1, <2>2, <2>3 DEF Lifecycle!Lock, Lifecycle!Is
<1> QED
  BY <1>2, <1>4, <1>7, <1>8, SerialWrite DEF LifecycleStep, Lifecycle!Next

LEMMA ReopenWriteSerial ==
  ASSUME Inv, SerialInv, OneAtATime', NEW s \in Slots, ReopenWrite(s)
  PROVE  SerialInv' /\ LifecycleStep
<1>1. PICK r, m : r = op[s].run /\ m = run[r].revision + 1
  OBVIOUS
<1>2. /\ r \in Runs /\ Created(r) /\ run[r] \in RunRow /\ op[s] # IdleOp
      /\ run[r].status = "LOCKED"
      /\ op[s].actor \in {a \in Staff : RoleOf[a] = "ADMIN"}
  BY <1>1, AsRead DEF ReopenWrite, At, OnRun, SerialInv, ReadSlot, Inv, RunInv, SlotOK
<1>3. PICK row : row = [run[r] EXCEPT !.status = "DRAFT", !.revision = m, !.approvedBy = NULL]
  OBVIOUS
<1>4. /\ run' = [run EXCEPT ![r] = row] /\ UNCHANGED <<items, adjustments>>
      /\ \E from, revision : OweHistory(s, "REOPENED", from, revision)
  BY <1>1, <1>3 DEF ReopenWrite
<1>5. /\ row \in RunRow /\ row.status = "DRAFT" /\ row.revision = m
      /\ row.createdBy = run[r].createdBy /\ row.approvedBy = NULL
  <2>1. m \in Nat
    BY <1>1, <1>2 DEF RunRow
  <2> QED
    BY <1>2, <1>3, <2>1 DEF RunRow
<1>6. PICK st, rev, p, a, l, n :
         /\ st = run[r].status /\ rev = run[r].revision /\ p = run[r].createdBy
         /\ a = run[r].approvedBy /\ l = Lines(r) /\ n = adjustments[r]
  OBVIOUS
<1>7. /\ Payroll[r] = Life(st, rev, p, a, l, n) /\ Payroll[r] # NULL /\ NothingBefore'
      /\ Payroll' = [Payroll EXCEPT ![r] = Life("DRAFT", m, p, NULL, l, n)]
  <2>1. /\ NothingBefore'
        /\ Payroll[r] # NULL
        /\ Payroll[r] = Life(run[r].status, run[r].revision, run[r].createdBy,
                             run[r].approvedBy, Lines(r), adjustments[r])
        /\ Payroll' = [Payroll EXCEPT ![r] =
                          Life(row.status, row.revision, run[r].createdBy,
                               row.approvedBy, Lines(r), adjustments[r])]
    BY <1>2, <1>4, <1>5, RunRewritten
  <2> QED
    BY <1>1, <1>5, <1>6, <2>1
<1>8. Lifecycle!Reopen(r)
  <2>1. PICK x, y, z : /\ x = Payroll[r] /\ y = [x EXCEPT !.status = "DRAFT"]
                       /\ z = [y EXCEPT !.revision = m]
    OBVIOUS
  <2>2. x.status = st /\ x.revision = rev
    BY <1>7, <2>1, LifeParts
  <2>3. y = Life("DRAFT", rev, p, a, l, n)
    BY <1>7, <2>1, LifeStatus
  <2>4. z = Life("DRAFT", m, p, a, l, n)
    <3>1. [y EXCEPT !.revision = m] = Life("DRAFT", m, p, a, l, n)
      BY <2>3, LifeRevision
    <3> QED
      BY <2>1, <3>1
  <2>5. [z EXCEPT !.approver = NULL] = Life("DRAFT", m, p, NULL, l, n)
    BY <2>4, LifeApprover
  <2>6. x.revision + 1 = m /\ x.status = "LOCKED" /\ x # NULL
    BY <1>1, <1>2, <1>6, <1>7, <2>1, <2>2
  <2>7. Payroll' = [Payroll EXCEPT ![r].status   = "DRAFT",
                                   ![r].revision = @ + 1,
                                   ![r].approver = NULL]
    <3>1. [x EXCEPT !.status = "DRAFT", !.revision = @ + 1, !.approver = NULL] =
              [z EXCEPT !.approver = NULL]
      BY <2>1, <2>6
    <3> QED
      BY <1>7, <2>1, <2>5, <3>1
  <2> QED
    BY <1>2, <2>1, <2>6, <2>7 DEF Lifecycle!Reopen, Lifecycle!Is
<1> QED
  BY <1>2, <1>4, <1>7, <1>8, SerialWrite DEF LifecycleStep, Lifecycle!Next

LEMMA AdjustWriteSerial ==
  ASSUME Inv, SerialInv, OneAtATime', NEW s \in Slots, AdjustWrite(s)
  PROVE  SerialInv' /\ LifecycleStep
<1>1. PICK r, n : r = op[s].run /\ n = adjustments[r]
  OBVIOUS
<1>2. /\ r \in Runs /\ Created(r) /\ run[r] \in RunRow /\ run[r].status \in Unlocked
      /\ op[s] # IdleOp /\ op[s] \in Op /\ op[s].pc = "adjust"
      /\ op[s].seen = run[r]
  BY <1>1, AsRead DEF AdjustWrite, At, OnRun, SerialInv, ReadSlot, Inv, RunInv, RunTypeOK
<1>3. /\ adjustments' = [adjustments EXCEPT ![r] = n + 1] /\ UNCHANGED <<run, items>>
      /\ op' = [op EXCEPT ![s].pc = "auditAdjustment", ![s].adjustments = n + 1]
  BY <1>1 DEF AdjustWrite
<1>4. adjustments'[r] = n + 1 /\ \A q \in Runs \ {r} : adjustments'[q] = adjustments[q]
  BY <1>2, <1>3 DEF Inv, RunInv, RunTypeOK
<1>5. /\ Payroll' = [Payroll EXCEPT ![r] = LifeRow(r)'] /\ Payroll[r] = LifeRow(r)
      /\ NothingBefore'
  BY <1>2, <1>3, <1>4, OneRun DEF SerialInv, Created
<1>6. PICK st, rev, p, a, l :
         /\ st = run[r].status /\ rev = run[r].revision /\ p = run[r].createdBy
         /\ a = run[r].approvedBy /\ l = Lines(r)
  OBVIOUS
<1>7. Payroll[r] = Life(st, rev, p, a, l, n) /\ Payroll[r] # NULL
  BY <1>1, <1>2, <1>5, <1>6, LifeRowExists DEF LifeRow, Life
<1>8. LifeRow(r)' = Life(st, rev, p, a, l, n + 1)
  <2>1. Lines(r)' = Lines(r)
    BY <1>3 DEF Lines
  <2> QED
    BY <1>2, <1>3, <1>4, <1>6, <2>1 DEF LifeRow, Life, Created
<1>9. Lifecycle!Adjust(r)
  <2>1. PICK x : x = Payroll[r]
    OBVIOUS
  <2>2. x.status = st /\ x.adjustments = n
    BY <1>7, <2>1, LifeParts
  <2>3. [x EXCEPT !.adjustments = n + 1] = Life(st, rev, p, a, l, n + 1)
    BY <1>7, <2>1, LifeAdjustments
  <2> QED
    BY <1>2, <1>5, <1>6, <1>7, <1>8, <2>1, <2>2, <2>3
    DEF Lifecycle!Adjust, Lifecycle!Open, Unlocked
<1>10. SerialInv'
  <2>1. PICK q, o : q = op[s] /\ o = [q EXCEPT !.pc = "auditAdjustment", !.adjustments = n + 1]
    OBVIOUS
  <2>2. op' = [op EXCEPT ![s] = o]
    BY <1>3, <2>1 DEF Inv, RunInv, RunTypeOK
  <2>3. o.pc = "auditAdjustment" /\ o.run = r /\ o.seen = run[r]
    BY <1>1, <1>2, <2>1 DEF Op
  <2>4. ReadSlot(o)'
    BY <1>3, <2>3 DEF ReadSlot
  <2> QED
    BY <1>2, <1>5, <2>2, <2>4, ReadsHold DEF SerialInv
<1> QED
  BY <1>2, <1>9, <1>10 DEF LifecycleStep, Lifecycle!Next

LEMMA SerialNext ==
  ASSUME Inv, SerialInv, OneAtATime', [Next]_vars
  PROVE  SerialInv' /\ LifecycleStep
<1>1. ASSUME UNCHANGED <<tables, op>> PROVE SerialInv' /\ LifecycleStep
  <2>1. ASSUME NEW s \in Slots PROVE ReadSlot(op[s])'
    <3>1. ReadSlot(op[s])
      BY DEF SerialInv
    <3> QED
      BY <1>1, <3>1 DEF ReadSlot, tables
  <2>2. UNCHANGED <<run, items, adjustments>>
    BY <1>1 DEF tables
  <2> QED
    BY <2>1, <2>2, SameTables DEF SerialInv, LifecycleStep
<1>2. ASSUME Crash PROVE SerialInv' /\ LifecycleStep
  <2>1. ASSUME NEW s \in Slots PROVE ReadSlot(op[s])'
    <3>1. op'[s] = IdleOp
      BY <1>2 DEF Crash
    <3> QED
      BY <3>1, IdleReads
  <2>2. UNCHANGED <<run, items, adjustments>>
    BY <1>2 DEF Crash, tables
  <2> QED
    BY <2>1, <2>2, SameTables DEF SerialInv, LifecycleStep
<1>3. ASSUME RunStep PROVE SerialInv' /\ LifecycleStep
  <2>1. PICK s \in Slots : Arrive(s) \/ Continue(s)
    BY <1>3 DEF RunStep
  <2> QED
    BY <2>1, SerialArrive, SerialMoves, CreateRunWriteSerial, CalculateCommitSerial,
       AdjustWriteSerial, ApproveWriteSerial, LockWriteSerial, ReopenWriteSerial
    DEF Continue, LifecycleStep
<1> QED
  BY <1>1, <1>2, <1>3 DEF Next, vars, runVars

LEMMA SerialInitially ==
  ASSUME Init
  PROVE  SerialInv /\ Lifecycle!Init
<1>1. \A s \in Slots : op[s] = IdleOp
  BY DEF Init, RunInit
<1>2. OneAtATime /\ \A s \in Slots : ReadSlot(op[s])
  BY <1>1, IdleReads DEF OneAtATime, Busy
<1>3. NothingBefore
  BY DEF Init, RunInit, NothingBefore
<1>4. Lifecycle!Init
  BY DEF Init, RunInit, Lifecycle!Init, Payroll, Created
<1> QED
  BY <1>2, <1>3, <1>4 DEF SerialInv

\* One run request at a time, crashes and overlapping policy requests included,
\* the six operations implement the abstract lifecycle of a payroll run.
THEOREM ServedImplementsLifecycle == ServedSpec => SerialImplementsLifecycle
<1> DEFINE Serial == Inv /\ (~interleaved => SerialInv)
           Step   == ~interleaved => Lifecycle!Next \/ UNCHANGED Payroll
<1>1. ServedInit => Serial /\ Lifecycle!Init
  BY InitInv, SerialInitially DEF ServedInit
<1>2. Serial /\ [ServedNext]_<<vars, interleaved>> => Serial' /\ Step
  <2> SUFFICES ASSUME Serial, [ServedNext]_<<vars, interleaved>>
               PROVE  Serial' /\ Step
    OBVIOUS
  <2>1. [Next]_vars /\ interleaved' = interleaved
    BY DEF ServedNext
  <2>2. Inv'
    BY <2>1, NextInv
  <2>3. ~interleaved => OneAtATime'
    BY DEF ServedNext, SerialInv, OneAtATime, Busy, vars, runVars
  <2> QED
    BY <2>1, <2>2, <2>3, SerialNext DEF LifecycleStep
<1>3. Serial => (~interleaved => PayslipOfLockedRun)
  <2> SUFFICES ASSUME Inv, SerialInv, NEW s \in Slots, At(s, "readItems")
               PROVE  /\ run[op[s].run].status = "LOCKED"
                      /\ run[op[s].run] = op[s].seen
    BY DEF PayslipOfLockedRun
  <2> QED
    BY DEF At, SerialInv, ReadSlot, OnRun
<1>4. Step => [~interleaved => Lifecycle!Next \/ UNCHANGED Payroll]_<<vars, interleaved>>
  OBVIOUS
<1> HIDE DEF Serial, Step
<1> QED
  BY <1>1, <1>2, <1>3, <1>4, PTL DEF ServedSpec, SerialImplementsLifecycle
=============================================================================
