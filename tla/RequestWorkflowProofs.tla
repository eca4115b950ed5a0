----------------------- MODULE RequestWorkflowProofs -----------------------
(***************************************************************************)
(* Proofs about RequestWorkflow, for any number of employees, requests,    *)
(* steps of a policy and requests of the API in flight.                    *)
(*                                                                         *)
(* decide writes the step number it read, whatever happened meanwhile.     *)
(* What saves the order of the steps is that a step number, once read, is  *)
(* preceded by decided steps for ever (Reached): decisions are overwritten *)
(* but never taken back.                                                   *)
(*                                                                         *)
(* The last part shows that requests one at a time implement Approval.      *)
(***************************************************************************)
EXTENDS WorkflowRefinement, SequenceTheorems, TLAPS

\* Step k of request q exists and all steps before it are decided.
Reached(q, k) ==
    /\ k \in 1..Len(steps[q])
    /\ \A j \in 1..(k - 1) : Decided(q, j)

CurrentReached == \A q \in Requests : Exists(q) => Reached(q, request[q].current)

EventsExist == \A q \in events : Exists(q)

Deciding   == {"decideSteps", "decideCommit"}
Delegating == {"delegateSteps", "delegateWrite", "delegated"}

\* What a request in flight knows of the rows it has read.
SlotOK(o) ==
    /\ o.pc # "idle" => o.request \in Requests /\ Exists(o.request)
    /\ o.pc \in Deciding \cup Delegating =>
           o.actor \in Staff /\ Reached(o.request, o.current)
    /\ o.pc \in Deciding => o.verdict \in {"APPROVED", "REJECTED"}
    /\ o.pc \in Delegating => o.target \in Staff

\* The role of the step a request waits at was told, unless it waits at its
\* first step and the request that created it is still running.
RoleTold(q) ==
    Pending(q) =>
        \/ Holders(q, request[q].current) \subseteq notified
        \/ /\ request[q].current = 1
           /\ \E s \in Slots : At(s, "submitted") /\ op[s].request = q

\* Whoever a step is delegated to was told, or is about to be.
DelegateTold(q, k) ==
    LET d == steps[q][k].delegate
    IN  d # NULL =>
           \/ <<q, k, d>> \in notified
           \/ \E s \in Slots : /\ At(s, "delegated") /\ op[s].request = q
                               /\ op[s].current = k  /\ op[s].target = d

Told ==
    \A q \in Requests : RoleTold(q) /\ \A k \in 1..Len(steps[q]) : DelegateTold(q, k)

WorkflowInv ==
    /\ TypeOK
    /\ CurrentReached
    /\ EventsExist
    /\ \A s \in Slots : SlotOK(op[s])
    /\ StepsInOrder
    /\ CorrectionEvents
    /\ crashes = 0 => Told

\* No request is removed, and no decision is taken back.
RowsKept ==
    \A q \in Requests : Exists(q) =>
        /\ request'[q] # NULL /\ request'[q].type = request[q].type
        /\ Len(steps'[q]) = Len(steps[q])
        /\ \A k \in 1..Len(steps[q]) :
               /\ steps'[q][k].role = steps[q][k].role
               /\ Decided(q, k) => steps'[q][k].decision # NULL

Others(s) == \A t \in Slots \ {s} : op'[t] = op[t]

---------------------------------------------------------------------------
LEMMA IdleOpIsOp == IdleOp \in Op /\ IdleOp.pc = "idle"
BY DEF IdleOp, Op, Steps

\* What was reached stays so.
LEMMA ReachedStays ==
    ASSUME RowsKept, NEW q \in Requests, NEW k, Exists(q), Reached(q, k),
           steps[q] \in Seq(StepRow)
    PROVE  Reached(q, k)'
<1>1. Len(steps[q]) \in Nat /\ Len(steps'[q]) = Len(steps[q])
  BY DEF RowsKept
<1>2. k \in 1..Len(steps[q]) /\ \A j \in 1..(k - 1) : j \in 1..Len(steps[q]) /\ Decided(q, j)
  BY <1>1 DEF Reached
<1>3. \A j \in 1..(k - 1) : Decided(q, j)'
  BY <1>2 DEF RowsKept, Decided
<1> QED
  BY <1>1, <1>2, <1>3 DEF Reached

\* A request in flight that takes no step keeps what it knows.
LEMMA SlotStays ==
    ASSUME WorkflowInv, RowsKept, NEW t \in Slots, op'[t] = op[t]
    PROVE  SlotOK(op[t])'
<1>1. PICK o : o = op[t]
  OBVIOUS
<1>2. SlotOK(o)
  BY <1>1 DEF WorkflowInv
<1>3. \A q \in Requests : Exists(q) => Exists(q)'
  BY DEF RowsKept, Exists
<1>4. o.pc \in Deciding \cup Delegating => Reached(o.request, o.current)'
  BY <1>2, ReachedStays DEF SlotOK, Deciding, Delegating, WorkflowInv, TypeOK
<1>5. SlotOK(o)'
  BY <1>2, <1>3, <1>4 DEF SlotOK, Deciding, Delegating
<1> QED
  BY <1>1, <1>5

LEMMA SlotsStay ==
    ASSUME WorkflowInv, RowsKept, NEW s \in Slots, Others(s), SlotOK(op[s])'
    PROVE  \A t \in Slots : SlotOK(op[t])'
BY SlotStays DEF Others

\* A step that leaves requests and steps alone keeps their invariants.
LEMMA RowsAlone ==
    ASSUME WorkflowInv, UNCHANGED <<request, steps, events>>
    PROVE  /\ RowsKept /\ CurrentReached' /\ EventsExist'
           /\ StepsInOrder' /\ CorrectionEvents'
BY DEF WorkflowInv, RowsKept, CurrentReached, EventsExist, Reached, Exists, Decided,
       StepsInOrder, CorrectionEvents

\* A step of a request that owes no notification, and only moves on.
LEMMA MoveOn ==
    ASSUME WorkflowInv, NEW s \in Slots, NEW o \in Op,
           op' = [op EXCEPT ![s] = o], SlotOK(o),
           op[s].pc \notin {"submitted", "delegated"},
           UNCHANGED <<request, steps, events, notified, crashes>>
    PROVE  WorkflowInv'
<1>1. op \in [Slots -> Op]
  BY DEF WorkflowInv, TypeOK
<1>2. op'[s] = o /\ Others(s) /\ op' \in [Slots -> Op]
  BY <1>1 DEF Others
<1>3. TypeOK'
  BY <1>2 DEF WorkflowInv, TypeOK
<1>4. RowsKept /\ CurrentReached' /\ EventsExist' /\ StepsInOrder' /\ CorrectionEvents'
  BY RowsAlone
<1>5. SlotOK(op[s])'
  BY <1>2 DEF SlotOK, Reached, Exists, Decided
<1>6. Told => Told'
  <2>1. \A q \in Requests, t \in Slots :
          /\ At(t, "submitted") => At(t, "submitted")' /\ op'[t].request = op[t].request
          /\ At(t, "delegated") => At(t, "delegated")' /\ op'[t] = op[t]
    BY <1>2 DEF At, Others
  <2>2. \A q \in Requests : RoleTold(q) => RoleTold(q)'
    BY <2>1 DEF RoleTold, Pending, Exists, Holders
  <2>3. \A q \in Requests, k \in Nat : DelegateTold(q, k) => DelegateTold(q, k)'
    BY <2>1 DEF DelegateTold
  <2> QED
    BY <2>2, <2>3 DEF Told
<1> QED
  BY <1>2, <1>3, <1>4, <1>5, <1>6, SlotsStay DEF WorkflowInv

---------------------------------------------------------------------------
(* create *)

LEMMA SubmitReportInv ==
    ASSUME WorkflowInv, NEW s \in Slots, SubmitReport(s)
    PROVE  WorkflowInv'
<1>1. /\ op[s].pc = "submitted" /\ op' = [op EXCEPT ![s] = IdleOp]
      /\ notified' = notified \cup Holders(op[s].request, 1)
      /\ UNCHANGED <<request, steps, events, crashes>>
  BY DEF SubmitReport, At, Finish
<1>2. op' \in [Slots -> Op] /\ op'[s] = IdleOp /\ Others(s)
  BY <1>1, IdleOpIsOp DEF WorkflowInv, TypeOK, Others
<1>3. op[s].request \in Requests
  BY <1>1 DEF WorkflowInv, SlotOK
<1>4. Holders(op[s].request, 1) \subseteq Requests \X Nat \X Staff
  BY <1>3 DEF Holders
<1>5. TypeOK'
  BY <1>1, <1>2, <1>4 DEF WorkflowInv, TypeOK
<1>6. RowsKept /\ CurrentReached' /\ EventsExist' /\ StepsInOrder' /\ CorrectionEvents'
  BY <1>1, RowsAlone
<1>7. SlotOK(op[s])'
  BY <1>2, IdleOpIsOp DEF SlotOK, Deciding, Delegating
<1>8. Told => Told'
  <2>1. \A t \in Slots \ {s} : op'[t] = op[t]
    BY <1>2 DEF Others
  <2>2. \A q \in Requests : RoleTold(q) => RoleTold(q)'
    BY <1>1, <2>1 DEF RoleTold, Pending, Exists, Holders, At
  <2>3. \A q \in Requests, k \in Nat : DelegateTold(q, k) => DelegateTold(q, k)'
    BY <1>1, <2>1 DEF DelegateTold, At
  <2> QED
    BY <1>1, <2>2, <2>3 DEF Told
<1> QED
  BY <1>1, <1>2, <1>5, <1>6, <1>7, <1>8, SlotsStay DEF WorkflowInv

\* Whoever is told of the step 1 of an unknown request has not been born: the
\* steps a request is created with.
NewSteps(type) ==
    [k \in 1..Len(RolesFor(type)) |-> [role     |-> RolesFor(type)[k],
                                       approver |-> NULL,
                                       delegate |-> NULL,
                                       decision |-> NULL]]

LEMMA NewStepsOK ==
    ASSUME NEW type \in Types, RolesFor(type) # <<>>
    PROVE  /\ NewSteps(type) \in Seq(StepRow)
           /\ Len(NewSteps(type)) = Len(RolesFor(type))
           /\ Len(NewSteps(type)) \in Nat \ {0}
           /\ \A k \in 1..Len(NewSteps(type)) : /\ NewSteps(type)[k].decision = NULL
                                                /\ NewSteps(type)[k].delegate = NULL
<1> DEFINE roles == RolesFor(type)
<1>1. roles \in Seq(Roles)
  <2>1. <<"SUPERVISOR", "HR">> \in Seq(Roles) /\ <<"SUPERVISOR">> \in Seq(Roles)
    BY DEF Roles
  <2>2. PolicySteps[type] # NULL => PolicySteps[type] \in Seq(Roles)
    BY WorkflowAssumption
  <2> QED
    BY <2>1, <2>2 DEF RolesFor, defaultApprovalRoles
<1>2. Len(roles) \in Nat \ {0} /\ \A k \in 1..Len(roles) : roles[k] \in Roles
  BY <1>1, EmptySeq
<1>3. NewSteps(type) \in [1..Len(roles) -> StepRow]
  BY <1>2 DEF NewSteps, StepRow
<1>4. NewSteps(type) \in Seq(StepRow) /\ Len(NewSteps(type)) = Len(roles)
  BY <1>2, <1>3
<1> QED
  BY <1>2, <1>4 DEF NewSteps

LEMMA SubmitInv ==
    ASSUME WorkflowInv, NEW s \in Slots, NEW q \in Requests, NEW type \in Types,
           Submit(s, q, type)
    PROVE  WorkflowInv'
<1> DEFINE row == [type |-> type, status |-> "PENDING", current |-> 1]
           o   == [IdleOp EXCEPT !.pc = "submitted", !.request = q]
<1>1. /\ ~Exists(q) /\ RolesFor(type) # <<>> /\ op[s].pc = "idle"
      /\ steps' = [steps EXCEPT ![q] = NewSteps(type)]
      /\ request' = [request EXCEPT ![q] = row]
      /\ op' = [op EXCEPT ![s] = o]
      /\ UNCHANGED <<events, notified, crashes>>
  BY DEF Submit, At, NewSteps
<1>2. /\ row \in RequestRow /\ row.status = "PENDING" /\ row.type = type /\ row.current = 1
      /\ row # NULL
  BY WorkflowAssumption DEF RequestRow
<1>3. o \in Op /\ o.pc = "submitted" /\ o.request = q
  BY DEF Op, IdleOp, Steps
<1> HIDE DEF row, o
<1>4. /\ op' \in [Slots -> Op] /\ op'[s] = o /\ Others(s)
      /\ request' \in [Requests -> RequestRow \cup {NULL}]
      /\ request'[q] = row /\ \A p \in Requests \ {q} : request'[p] = request[p]
      /\ steps' \in [Requests -> Seq(StepRow)]
      /\ steps'[q] = NewSteps(type) /\ \A p \in Requests \ {q} : steps'[p] = steps[p]
  BY <1>1, <1>2, <1>3, NewStepsOK DEF WorkflowInv, TypeOK, Others
<1>5. TypeOK'
  BY <1>1, <1>4 DEF WorkflowInv, TypeOK
<1>6. RowsKept
  BY <1>1, <1>4 DEF RowsKept, Exists, Decided
<1>7. CurrentReached'
  <2>1. Reached(q, request[q].current)'
    BY <1>1, <1>2, <1>4, NewStepsOK DEF Reached
  <2>2. \A p \in Requests \ {q} : Exists(p)' => Reached(p, request[p].current)'
    <3> SUFFICES ASSUME NEW p \in Requests \ {q}, Exists(p)'
                 PROVE  Reached(p, request[p].current)'
      OBVIOUS
    <3>1. request'[p] = request[p] /\ steps'[p] = steps[p]
      BY <1>4
    <3>2. Reached(p, request[p].current)
      BY <3>1 DEF WorkflowInv, CurrentReached, Exists
    <3> QED
      BY ONLY <3>1, <3>2 DEF Reached, Decided
  <2> QED
    BY <2>1, <2>2 DEF CurrentReached
<1>8. StepsInOrder'
  <2>1. \A k \in 1..Len(steps'[q]) : ~Decided(q, k)'
    BY <1>1, <1>4, NewStepsOK DEF Decided
  <2>2. \A k \in 2..Len(steps'[q]) : k \in 1..Len(steps'[q])
    BY <1>1, <1>4, NewStepsOK
  <2>3. \A p \in Requests \ {q} : \A k \in 2..Len(steps[p]) :
            Decided(p, k)' => Decided(p, k - 1)'
    BY <1>4 DEF WorkflowInv, StepsInOrder, Decided
  <2> QED
    BY <1>4, <2>1, <2>2, <2>3 DEF StepsInOrder
<1>9. CorrectionEvents' /\ EventsExist'
  <2>1. q \notin events
    BY <1>1 DEF WorkflowInv, EventsExist
  <2> QED
    BY <1>1, <1>2, <1>4, <2>1
       DEF WorkflowInv, TypeOK, CorrectionEvents, EventsExist, Exists, Decided
<1>10. SlotOK(op[s])'
  BY <1>2, <1>3, <1>4 DEF SlotOK, Exists, Deciding, Delegating
<1>11. Told => Told'
  <2>1. \A t \in Slots : op[t].pc \in {"submitted", "delegated"} => op'[t] = op[t]
    BY <1>1, <1>4 DEF Others
  <2>2. RoleTold(q)'
    BY <1>2, <1>3, <1>4 DEF RoleTold, At
  <2>3. \A k \in 1..Len(steps'[q]) : DelegateTold(q, k)'
    BY <1>1, <1>4, NewStepsOK DEF DelegateTold
  <2>4. \A p \in Requests \ {q} : RoleTold(p) => RoleTold(p)'
    BY <1>1, <1>4, <2>1 DEF RoleTold, Pending, Exists, Holders, At
  <2>5. \A p \in Requests \ {q}, k \in Nat : DelegateTold(p, k) => DelegateTold(p, k)'
    BY <1>1, <1>4, <2>1 DEF DelegateTold, At
  <2> QED
    BY <1>4, <2>2, <2>3, <2>4, <2>5 DEF Told
<1> QED
  BY <1>1, <1>4, <1>5, <1>6, <1>7, <1>8, <1>9, <1>10, <1>11, SlotsStay DEF WorkflowInv

---------------------------------------------------------------------------
(* Steps that read, test or give up. *)

LEMMA ReadsInv ==
    ASSUME WorkflowInv, NEW s \in Slots, NEW a \in Staff, NEW q \in Requests,
           \/ \E verdict \in {"APPROVED", "REJECTED"} : DecideRead(s, a, q, verdict)
           \/ \E d \in Staff : DelegateRead(s, a, q, d)
    PROVE  WorkflowInv'
<1>1. Exists(q) /\ request[q].current \in Nat /\ Reached(q, request[q].current)
  BY DEF DecideRead, DelegateRead, Pending, Exists, WorkflowInv, TypeOK, RequestRow, CurrentReached
<1>2. ASSUME NEW verdict \in {"APPROVED", "REJECTED"}, DecideRead(s, a, q, verdict)
      PROVE  WorkflowInv'
  <2> DEFINE o == [IdleOp EXCEPT !.pc = "decideSteps", !.actor = a, !.request = q,
                                 !.current = request[q].current, !.verdict = verdict]
  <2>1. /\ o \in Op /\ o.pc = "decideSteps" /\ o.actor = a /\ o.request = q
        /\ o.current = request[q].current /\ o.verdict = verdict
    BY <1>1 DEF Op, IdleOp, Steps
  <2>2. /\ op[s].pc = "idle" /\ op' = [op EXCEPT ![s] = o]
        /\ UNCHANGED <<request, steps, events, notified, crashes>>
    BY <1>2 DEF DecideRead, At
  <2> HIDE DEF o
  <2>3. SlotOK(o)
    BY <1>1, <2>1 DEF SlotOK, Deciding, Delegating
  <2> QED
    BY <2>1, <2>2, <2>3, MoveOn
<1>3. ASSUME NEW d \in Staff, DelegateRead(s, a, q, d)
      PROVE  WorkflowInv'
  <2> DEFINE o == [IdleOp EXCEPT !.pc = "delegateSteps", !.actor = a, !.request = q,
                                 !.current = request[q].current, !.target = d]
  <2>1. /\ o \in Op /\ o.pc = "delegateSteps" /\ o.actor = a /\ o.request = q
        /\ o.current = request[q].current /\ o.target = d
    BY <1>1 DEF Op, IdleOp, Steps
  <2>2. /\ op[s].pc = "idle" /\ op' = [op EXCEPT ![s] = o]
        /\ UNCHANGED <<request, steps, events, notified, crashes>>
    BY <1>3 DEF DelegateRead, At
  <2> HIDE DEF o
  <2>3. SlotOK(o)
    BY <1>1, <2>1 DEF SlotOK, Deciding, Delegating
  <2> QED
    BY <2>1, <2>2, <2>3, MoveOn
<1> QED
  BY <1>2, <1>3

LEMMA TestsInv ==
    ASSUME WorkflowInv, NEW s \in Slots, DecideSteps(s) \/ DecideAbort(s) \/ DelegateSteps(s)
    PROVE  WorkflowInv'
<1>1. PICK pc : \/ op[s].pc = "decideSteps" /\ pc = "decideCommit"
                \/ op[s].pc = "delegateSteps" /\ pc = "delegateWrite"
                \/ op[s].pc = "decideCommit" /\ pc = "decideCommit"
  BY DEF DecideSteps, DecideAbort, DelegateSteps, At
<1> DEFINE o == [op[s] EXCEPT !.pc = pc]
<1>2. op[s] \in Op /\ SlotOK(op[s])
  BY DEF WorkflowInv, TypeOK
<1>3. /\ o \in Op /\ o.pc = pc /\ o.actor = op[s].actor /\ o.request = op[s].request
      /\ o.current = op[s].current /\ o.verdict = op[s].verdict /\ o.target = op[s].target
  BY <1>1, <1>2 DEF Op, Steps
<1>4. \/ op' = [op EXCEPT ![s] = o]
      \/ op' = [op EXCEPT ![s] = IdleOp]
  BY <1>1 DEF DecideSteps, DecideAbort, DelegateSteps, At, Goto, Finish, WorkflowInv, TypeOK
<1>5. UNCHANGED <<request, steps, events, notified, crashes>>
  BY DEF DecideSteps, DecideAbort, DelegateSteps
<1> HIDE DEF o
<1>6. SlotOK(o) /\ SlotOK(IdleOp)
  BY <1>1, <1>2, <1>3, IdleOpIsOp DEF SlotOK, Deciding, Delegating
<1> QED
  BY <1>1, <1>3, <1>4, <1>5, <1>6, IdleOpIsOp, MoveOn

---------------------------------------------------------------------------
(* The steps that write one approval step. *)

\* One step of a request is given a new row with the old role.
StepWritten(q, k, row) ==
    /\ steps' = [steps EXCEPT ![q] = [steps[q] EXCEPT ![k] = row]]
    /\ row \in StepRow
    /\ row.role = steps[q][k].role
    /\ Decided(q, k) => row.decision # NULL

LEMMA WrittenStep ==
    ASSUME WorkflowInv, NEW q \in Requests, NEW k \in 1..Len(steps[q]), NEW row,
           StepWritten(q, k, row)
    PROVE  /\ steps' \in [Requests -> Seq(StepRow)]
           /\ \A p \in Requests : /\ Len(steps'[p]) = Len(steps[p])
                                  /\ Len(steps[p]) \in Nat
           /\ \A p \in Requests \ {q} : steps'[p] = steps[p]
           /\ steps'[q][k] = row
           /\ \A j \in 1..Len(steps[q]) : j # k => steps'[q][j] = steps[q][j]
<1>1. steps \in [Requests -> Seq(StepRow)] /\ steps[q] \in Seq(StepRow)
  BY DEF WorkflowInv, TypeOK
<1> DEFINE new == [steps[q] EXCEPT ![k] = row]
<1>2. /\ new \in Seq(StepRow) /\ Len(new) = Len(steps[q])
      /\ \A j \in 1..Len(steps[q]) : new[j] = IF j = k THEN row ELSE steps[q][j]
  BY <1>1, ExceptSeq DEF StepWritten
<1>3. steps' = [steps EXCEPT ![q] = new]
  BY DEF StepWritten
<1> HIDE DEF new
<1>4. steps'[q] = new /\ steps' \in [Requests -> Seq(StepRow)]
      /\ \A p \in Requests \ {q} : steps'[p] = steps[p]
  BY <1>1, <1>2, <1>3
<1>5. ASSUME NEW p \in Requests PROVE Len(steps'[p]) = Len(steps[p]) /\ Len(steps[p]) \in Nat
  <2>1. steps[p] \in Seq(StepRow)
    BY <1>1
  <2>2. p = q \/ steps'[p] = steps[p]
    BY <1>4
  <2> QED
    BY <1>2, <1>4, <2>1, <2>2, LenProperties
<1> QED
  BY <1>2, <1>4, <1>5

\* Delegating a step leaves its role and its decision.
LEMMA DelegationWrites ==
    ASSUME WorkflowInv, NEW s \in Slots, DelegateWrite(s)
    PROVE  \A p \in Requests :
              /\ Len(steps'[p]) = Len(steps[p]) /\ Len(steps[p]) \in Nat
              /\ \A j \in 1..Len(steps[p]) : steps'[p][j].decision = steps[p][j].decision
<1>0. PICK q, k, d : q = op[s].request /\ k = op[s].current /\ d = op[s].target
  OBVIOUS
<1> DEFINE row == [steps[q][k] EXCEPT !.delegate = d]
<1>1. op[s].pc = "delegateWrite" /\ SlotOK(op[s])
  BY DEF DelegateWrite, At, WorkflowInv
<1>2. q \in Requests /\ k \in 1..Len(steps[q]) /\ d \in Staff
  BY <1>0, <1>1 DEF SlotOK, Delegating, Deciding, Reached
<1>3. steps[q][k] \in StepRow
  BY <1>2, ElementOfSeq DEF WorkflowInv, TypeOK
<1>4. /\ row \in StepRow /\ row.role = steps[q][k].role
      /\ row.decision = steps[q][k].decision
  BY <1>2, <1>3 DEF StepRow
<1>5. steps' = [steps EXCEPT ![q] = [steps[q] EXCEPT ![k] = row]]
  <2>1. steps' = [steps EXCEPT ![q][k].delegate = d]
    BY <1>0 DEF DelegateWrite
  <2> QED
    BY <1>2, <2>1 DEF WorkflowInv, TypeOK
<1> HIDE DEF row
<1>6. StepWritten(q, k, row)
  BY <1>4, <1>5 DEF StepWritten, Decided
<1> QED
  BY <1>2, <1>4, <1>6, WrittenStep

LEMMA DelegateWriteInv ==
    ASSUME WorkflowInv, NEW s \in Slots, DelegateWrite(s)
    PROVE  WorkflowInv'
<1>0. PICK q, k, d : q = op[s].request /\ k = op[s].current /\ d = op[s].target
  OBVIOUS
<1> DEFINE row == [steps[q][k] EXCEPT !.delegate = d]
           o   == [op[s] EXCEPT !.pc = "delegated"]
<1>1. /\ op[s].pc = "delegateWrite" /\ op[s] \in Op /\ SlotOK(op[s])
      /\ UNCHANGED <<request, events, notified, crashes>>
  BY DEF DelegateWrite, At, WorkflowInv, TypeOK
<1>2. /\ q \in Requests /\ Exists(q) /\ Reached(q, k) /\ k \in 1..Len(steps[q]) /\ d \in Staff
  BY <1>0, <1>1 DEF SlotOK, Delegating, Deciding, Reached
<1>3. steps[q][k] \in StepRow
  BY <1>2, ElementOfSeq DEF WorkflowInv, TypeOK
<1>4. /\ row \in StepRow /\ row.delegate = d /\ row.role = steps[q][k].role
      /\ row.decision = steps[q][k].decision
  BY <1>2, <1>3 DEF StepRow
<1>5. /\ steps' = [steps EXCEPT ![q] = [steps[q] EXCEPT ![k] = row]]
      /\ op' = [op EXCEPT ![s] = o]
  <2>1. steps' = [steps EXCEPT ![q][k].delegate = d]
    BY <1>0 DEF DelegateWrite
  <2> QED
    BY <1>2, <2>1 DEF DelegateWrite, Goto, WorkflowInv, TypeOK
<1>6. /\ o \in Op /\ o.pc = "delegated" /\ o.request = q /\ o.current = k /\ o.target = d
      /\ o.actor = op[s].actor
  BY <1>0, <1>1 DEF Op, Steps
<1> HIDE DEF row, o
<1>7. StepWritten(q, k, row)
  BY <1>4, <1>5 DEF StepWritten, Decided
<1>8. /\ steps' \in [Requests -> Seq(StepRow)]
      /\ \A p \in Requests : Len(steps'[p]) = Len(steps[p]) /\ Len(steps[p]) \in Nat
      /\ \A p \in Requests \ {q} : steps'[p] = steps[p]
      /\ steps'[q][k] = row
      /\ \A j \in 1..Len(steps[q]) : j # k => steps'[q][j] = steps[q][j]
  BY <1>2, <1>7, WrittenStep
<1>9. op' \in [Slots -> Op] /\ op'[s] = o /\ Others(s)
  BY <1>5, <1>6 DEF WorkflowInv, TypeOK, Others
<1>10. TypeOK'
  BY <1>1, <1>8, <1>9 DEF WorkflowInv, TypeOK
<1>11. \A p \in Requests : \A j \in 1..Len(steps[p]) :
          /\ steps'[p][j].role = steps[p][j].role
          /\ steps'[p][j].decision = steps[p][j].decision
  BY <1>4, <1>8
<1>12. RowsKept
  BY <1>1, <1>8, <1>11 DEF RowsKept, Exists, Decided
<1>13. CurrentReached'
  BY <1>1, <1>12, ReachedStays DEF WorkflowInv, TypeOK, CurrentReached, Exists
<1>14. StepsInOrder'
  <2> SUFFICES ASSUME NEW p \in Requests, NEW j \in 2..Len(steps[p]), Decided(p, j)'
               PROVE  Decided(p, j - 1)'
    BY <1>8 DEF StepsInOrder
  <2>1. j \in 1..Len(steps[p]) /\ j - 1 \in 1..Len(steps[p])
    BY <1>8
  <2> QED
    BY <1>11, <2>1 DEF WorkflowInv, StepsInOrder, Decided
<1>15. CorrectionEvents' /\ EventsExist'
  <2>1. events \subseteq Requests /\ CorrectionEvents /\ EventsExist
    BY DEF WorkflowInv, TypeOK
  <2>2. EventsExist'
    BY <1>1, <2>1 DEF EventsExist, Exists
  <2>3. \A p \in events : \A j \in 1..Len(steps'[p]) : Decided(p, j)'
    BY <1>8, <1>11, <2>1 DEF CorrectionEvents, Decided
  <2> QED
    BY <1>1, <2>1, <2>2, <2>3 DEF CorrectionEvents, Exists
<1>16. SlotOK(op[s])'
  <2>1. Reached(q, k)'
    BY <1>2, <1>12, ReachedStays DEF WorkflowInv, TypeOK
  <2> QED
    BY <1>1, <1>2, <1>6, <1>9, <2>1 DEF SlotOK, Exists, Deciding, Delegating
<1>17. Told => Told'
  <2>1. \A t \in Slots : op[t].pc \in {"submitted", "delegated"} => op'[t] = op[t]
    BY <1>1, <1>9 DEF Others
  <2>2. \A p \in Requests : RoleTold(p) => RoleTold(p)'
    <3> SUFFICES ASSUME NEW p \in Requests, RoleTold(p), Pending(p)
                 PROVE  RoleTold(p)'
      BY <1>1 DEF RoleTold, Pending, Exists
    <3>1. Reached(p, request[p].current)
      BY DEF Pending, WorkflowInv, CurrentReached
    <3>2. steps'[p][request[p].current].role = steps[p][request[p].current].role
      BY <1>11, <3>1 DEF Reached
    <3>3. Holders(p, request[p].current)' = Holders(p, request[p].current)
      BY <1>1, <3>2 DEF Holders
    <3>4. (\E t \in Slots : At(t, "submitted") /\ op[t].request = p) =>
              \E t \in Slots : At(t, "submitted")' /\ op'[t].request = p
      BY <2>1 DEF At
    <3> QED
      BY <1>1, <3>3, <3>4 DEF RoleTold
  <2>3. ASSUME NEW p \in Requests, NEW j \in 1..Len(steps[p]), DelegateTold(p, j)
        PROVE  DelegateTold(p, j)'
    <3>1. CASE p = q /\ j = k
      BY <1>4, <1>6, <1>8, <1>9, <3>1 DEF DelegateTold, At
    <3>2. CASE ~(p = q /\ j = k)
      <4>1. steps'[p][j] = steps[p][j]
        BY <1>8, <3>2
      <4> QED
        BY <1>1, <2>1, <2>3, <4>1 DEF DelegateTold, At
    <3> QED
      BY <3>1, <3>2
  <2> QED
    BY <1>8, <2>2, <2>3 DEF Told
<1> QED
  BY <1>1, <1>9, <1>10, <1>12, <1>13, <1>14, <1>15, <1>16, <1>17, SlotsStay DEF WorkflowInv

\* What decide writes: verdict v as the decision of step k of request q, and n
\* as the state of the request.
CommitEffect(s, q, k, v, n, row, req) ==
    /\ q = op[s].request /\ k = op[s].current /\ v = op[s].verdict
    /\ op[s].pc = "decideCommit" /\ Finish(s) /\ crashes' = crashes
    /\ q \in Requests /\ Exists(q) /\ Reached(q, k) /\ k \in 1..Len(steps[q]) /\ k \in Nat
    /\ v \in {"APPROVED", "REJECTED"} /\ v # NULL
    /\ n = nextRequestState(v, k, Len(steps[q])) /\ Len(steps[q]) \in Nat
    /\ StepWritten(q, k, row)
    /\ row.delegate = steps[q][k].delegate /\ row.role = steps[q][k].role
    /\ row.decision = v
    /\ request' = [request EXCEPT ![q] = req]
    /\ req \in RequestRow /\ req # NULL /\ req.status = n.status
    /\ req.current = n.current /\ req.type = request[q].type
    /\ Corrects(s) <=> n.status = "APPROVED" /\ request[q].type = "ATTENDANCE_CORRECTION"
    /\ events' = IF Corrects(s) THEN events \cup {q} ELSE events
    /\ notified' = IF n.status = "PENDING" THEN notified \cup Holders(q, n.current)
                   ELSE notified

LEMMA NextStateCases ==
    ASSUME NEW v \in {"APPROVED", "REJECTED"}, NEW total \in Nat, NEW k \in 1..total, NEW n,
           n = nextRequestState(v, k, total)
    PROVE  /\ n.status \in {"PENDING", "APPROVED", "REJECTED"}
           /\ n.current \in 1..total
           /\ n.status = "PENDING" <=> v = "APPROVED" /\ k < total
           /\ n.status = "PENDING" => n.current = k + 1
           /\ n.status # "PENDING" => n.current = k
           /\ n.status = "APPROVED" <=> v = "APPROVED" /\ k = total
BY DEF nextRequestState

LEMMA CommitWrites ==
    ASSUME WorkflowInv, NEW s \in Slots, DecideCommit(s)
    PROVE  \E q, k, v, n, row, req : CommitEffect(s, q, k, v, n, row, req)
<1>0. PICK q, k, v, n : /\ q = op[s].request /\ k = op[s].current /\ v = op[s].verdict
                        /\ n = NextState(s)
  OBVIOUS
<1> DEFINE row == [steps[q][k] EXCEPT !.approver = op[s].actor, !.decision = v]
           req == [request[q] EXCEPT !.status = n.status, !.current = n.current]
<1>1. /\ op[s].pc = "decideCommit" /\ op[s] \in Op /\ SlotOK(op[s]) /\ Finish(s)
      /\ crashes' = crashes
  BY DEF DecideCommit, At, WorkflowInv, TypeOK
<1>2. /\ q \in Requests /\ Exists(q) /\ Reached(q, k) /\ k \in 1..Len(steps[q])
      /\ v \in {"APPROVED", "REJECTED"} /\ op[s].actor \in Staff
  BY <1>0, <1>1 DEF SlotOK, Delegating, Deciding, Reached
<1>3. steps[q][k] \in StepRow /\ request[q] \in RequestRow /\ v # NULL
  BY <1>2, ElementOfSeq, WorkflowAssumption DEF WorkflowInv, TypeOK, Exists
<1>4. /\ row \in StepRow /\ row.delegate = steps[q][k].delegate
      /\ row.role = steps[q][k].role /\ row.decision = v
  BY <1>2, <1>3 DEF StepRow
<1>5. n = nextRequestState(v, k, Len(steps[q]))
  BY <1>0 DEF NextState
<1>6. /\ Len(steps[q]) \in Nat /\ k \in Nat
      /\ n.status \in {"PENDING", "APPROVED", "REJECTED"}
      /\ n.current \in 1..Len(steps[q])
  <2>1. Len(steps[q]) \in Nat
    BY <1>2, LenProperties DEF WorkflowInv, TypeOK
  <2> QED
    BY <1>2, <1>5, <2>1, NextStateCases
<1>7. /\ req \in RequestRow /\ req # NULL /\ req.status = n.status
      /\ req.current = n.current /\ req.type = request[q].type
  <2>1. n.current \in Nat
    BY <1>6
  <2>2. /\ req \in RequestRow /\ req.status = n.status
        /\ req.current = n.current /\ req.type = request[q].type
    BY <1>3, <1>6, <2>1 DEF RequestRow
  <2> HIDE DEF req
  <2> QED
    BY <2>2, WorkflowAssumption
<1>8. /\ steps' = [steps EXCEPT ![q] = [steps[q] EXCEPT ![k] = row]]
      /\ request' = [request EXCEPT ![q] = req]
      /\ Corrects(s) <=> n.status = "APPROVED" /\ request[q].type = "ATTENDANCE_CORRECTION"
      /\ events' = IF Corrects(s) THEN events \cup {q} ELSE events
      /\ notified' = IF n.status = "PENDING" THEN notified \cup Holders(q, n.current)
                     ELSE notified
  <2>1. /\ steps' = [steps EXCEPT ![q][k].approver = op[s].actor, ![q][k].decision = v]
        /\ request' = [request EXCEPT ![q].status = n.status, ![q].current = n.current]
    BY <1>0 DEF DecideCommit
  <2>2. request' = [request EXCEPT ![q] = req]
    BY <1>2, <2>1 DEF WorkflowInv, TypeOK
  <2>3. steps' = [steps EXCEPT ![q] = [steps[q] EXCEPT ![k] = row]]
    BY <1>2, <2>1 DEF WorkflowInv, TypeOK
  <2> QED
    BY <1>0, <2>2, <2>3 DEF DecideCommit, Corrects
<1> HIDE DEF row, req
<1>9. StepWritten(q, k, row)
  BY <1>3, <1>4, <1>8 DEF StepWritten
<1>10. CommitEffect(s, q, k, v, n, row, req)
  BY <1>0, <1>1, <1>2, <1>3, <1>4, <1>5, <1>6, <1>7, <1>8, <1>9 DEF CommitEffect
<1> QED
  BY <1>10

\* The decision is written where the request stood when it was read: that step
\* was reached and still is, whoever decided it meanwhile.
LEMMA DecideCommitInv ==
    ASSUME WorkflowInv, NEW s \in Slots, DecideCommit(s)
    PROVE  WorkflowInv'
<1>0. PICK q, k, v, n, row, req : CommitEffect(s, q, k, v, n, row, req)
  BY CommitWrites
<1>1. /\ op[s].pc = "decideCommit" /\ Finish(s) /\ crashes' = crashes
  BY <1>0 DEF CommitEffect
<1>2. /\ q \in Requests /\ Exists(q) /\ Reached(q, k) /\ k \in 1..Len(steps[q])
      /\ v \in {"APPROVED", "REJECTED"}
  BY <1>0 DEF CommitEffect
<1>4. /\ row.delegate = steps[q][k].delegate /\ row.role = steps[q][k].role
      /\ row.decision = v /\ v # NULL
  BY <1>0 DEF CommitEffect
<1>6. /\ Len(steps[q]) \in Nat /\ k \in Nat
      /\ n.status \in {"PENDING", "APPROVED", "REJECTED"}
      /\ n.current \in 1..Len(steps[q])
      /\ n.status = "PENDING" => n.current = k + 1 /\ k < Len(steps[q])
      /\ n.status # "PENDING" => n.current = k
      /\ n.status = "APPROVED" => k = Len(steps[q])
  <2>1. n = nextRequestState(v, k, Len(steps[q])) BY <1>0 DEF CommitEffect
  <2>2. PICK total : total = Len(steps[q]) OBVIOUS
  <2>3. total \in Nat /\ k \in 1..total
    BY <1>0, <1>2, <2>2 DEF CommitEffect
  <2>4. k \in Nat BY <2>3
  <2> QED BY <1>2, <2>1, <2>2, <2>3, <2>4, NextStateCases
<1>7. /\ req \in RequestRow /\ req # NULL /\ req.status = n.status
      /\ req.current = n.current /\ req.type = request[q].type
  BY <1>0 DEF CommitEffect
<1>8. /\ request' = [request EXCEPT ![q] = req]
      /\ Corrects(s) <=> n.status = "APPROVED" /\ request[q].type = "ATTENDANCE_CORRECTION"
      /\ events' = IF Corrects(s) THEN events \cup {q} ELSE events
      /\ notified' = IF n.status = "PENDING" THEN notified \cup Holders(q, n.current)
                     ELSE notified
  BY <1>0 DEF CommitEffect
<1>9. StepWritten(q, k, row)
  BY <1>0 DEF CommitEffect
<1>10. /\ steps' \in [Requests -> Seq(StepRow)]
       /\ \A p \in Requests : Len(steps'[p]) = Len(steps[p]) /\ Len(steps[p]) \in Nat
       /\ \A p \in Requests \ {q} : steps'[p] = steps[p]
       /\ steps'[q][k] = row
       /\ \A j \in 1..Len(steps[q]) : j # k => steps'[q][j] = steps[q][j]
  BY <1>2, <1>9, WrittenStep
<1>11. /\ request' \in [Requests -> RequestRow \cup {NULL}] /\ request'[q] = req
       /\ \A p \in Requests \ {q} : request'[p] = request[p]
       /\ op' \in [Slots -> Op] /\ op'[s] = IdleOp /\ Others(s)
  BY <1>1, <1>2, <1>7, <1>8, IdleOpIsOp DEF WorkflowInv, TypeOK, Finish, Others
<1>12. \A p \in Requests : \A j \in 1..Len(steps[p]) :
          /\ steps'[p][j].role = steps[p][j].role
          /\ steps'[p][j].delegate = steps[p][j].delegate
          /\ Decided(p, j) => Decided(p, j)'
  BY <1>4, <1>10 DEF Decided
<1>13. RowsKept
  BY <1>7, <1>10, <1>11, <1>12 DEF RowsKept, Exists, Decided
<1>14. events' \subseteq Requests /\ notified \subseteq notified' /\ events \subseteq events'
  BY <1>2, <1>8 DEF WorkflowInv, TypeOK
<1>15. TypeOK'
  <2>1. Holders(q, n.current) \subseteq Requests \X Nat \X Staff
    BY <1>2, <1>6 DEF Holders
  <2>2. notified' \subseteq Requests \X Nat \X Staff
    BY <1>8, <2>1 DEF WorkflowInv, TypeOK
  <2> QED
    BY <1>1, <1>10, <1>11, <1>14, <2>2 DEF WorkflowInv, TypeOK
<1>16. Reached(q, k)' /\ Decided(q, k)'
  BY <1>2, <1>4, <1>10, <1>13, ReachedStays DEF WorkflowInv, TypeOK, Decided
<1>17. CurrentReached'
  <2>1. Reached(q, n.current)'
    <3>1. CASE n.status # "PENDING"
      BY <1>6, <1>16, <3>1
    <3>2. CASE n.status = "PENDING"
      <4>1. n.current = k + 1 /\ k + 1 \in 1..Len(steps'[q])
        BY <1>2, <1>6, <1>10, <3>2
      <4>2. \A j \in 1..k : Decided(q, j)'
        BY <1>6, <1>16 DEF Reached
      <4> QED
        BY <1>6, <4>1, <4>2 DEF Reached
    <3> QED
      BY <3>1, <3>2
  <2>2. ASSUME NEW p \in Requests \ {q}, Exists(p)' PROVE Reached(p, request[p].current)'
    <3>1. steps'[p] = steps[p] /\ request'[p] = request[p]
      BY <1>10, <1>11
    <3>2. Reached(p, request[p].current)
      BY <2>2, <3>1 DEF WorkflowInv, CurrentReached, Exists
    <3> QED
      BY <3>1, <3>2 DEF Reached, Decided
  <2> QED
    BY <1>7, <1>11, <2>1, <2>2 DEF CurrentReached
<1>18. StepsInOrder'
  <2> SUFFICES ASSUME NEW p \in Requests, NEW j \in 2..Len(steps[p]), Decided(p, j)'
               PROVE  Decided(p, j - 1)'
    BY <1>10 DEF StepsInOrder
  <2>1. j - 1 \in 1..Len(steps[p])
    BY <1>10
  <2>2. CASE p = q /\ j = k
    <3>1. j - 1 \in 1..(k - 1)
      BY <1>6, <2>2
    <3> QED
      BY <1>16, <2>2, <3>1 DEF Reached
  <2>3. CASE ~(p = q /\ j = k)
    <3>1. steps'[p][j] = steps[p][j]
      BY <1>10, <2>3
    <3>2. Decided(p, j - 1)
      BY <3>1 DEF WorkflowInv, StepsInOrder, Decided
    <3> QED
      BY <1>12, <2>1, <3>2
  <2> QED
    BY <2>2, <2>3
<1>19. CorrectionEvents' /\ EventsExist'
  <2>1. events \subseteq Requests /\ CorrectionEvents /\ EventsExist
    BY DEF WorkflowInv, TypeOK
  <2>2. \A p \in Requests : Exists(p) => Exists(p)' /\ request'[p].type = request[p].type
    BY <1>13 DEF RowsKept, Exists
  <2>3. EventsExist'
    BY <1>2, <1>8, <2>1, <2>2 DEF EventsExist
  <2>4. \A p \in events : /\ request'[p].type = "ATTENDANCE_CORRECTION"
                          /\ \A j \in 1..Len(steps'[p]) : Decided(p, j)'
    BY <1>10, <1>12, <2>1, <2>2 DEF CorrectionEvents, EventsExist
  <2>5. Corrects(s) => \A j \in 1..Len(steps'[q]) : Decided(q, j)'
    <3> SUFFICES ASSUME Corrects(s), NEW j \in 1..Len(steps'[q]) PROVE Decided(q, j)'
      OBVIOUS
    <3>1. k = Len(steps'[q])
      BY <1>2, <1>6, <1>8, <1>10
    <3>2. j = k \/ j \in 1..(k - 1)
      BY <1>6, <3>1
    <3> QED
      BY <1>16, <3>2 DEF Reached
  <2>6. Corrects(s) => request'[q].type = "ATTENDANCE_CORRECTION"
    BY <1>7, <1>8, <1>11
  <2>7. \A p \in events' : /\ request'[p].type = "ATTENDANCE_CORRECTION"
                           /\ \A j \in 1..Len(steps'[p]) : Decided(p, j)'
    BY <1>8, <2>4, <2>5, <2>6
  <2>8. \A p \in Requests :
            Exists(p)' /\ request'[p].status = "APPROVED"
                       /\ request'[p].type = "ATTENDANCE_CORRECTION" => p \in events'
    <3> SUFFICES ASSUME NEW p \in Requests, Exists(p)', request'[p].status = "APPROVED",
                        request'[p].type = "ATTENDANCE_CORRECTION"
                 PROVE  p \in events'
      OBVIOUS
    <3>1. CASE p = q
      BY <1>7, <1>8, <1>11, <3>1
    <3>2. CASE p # q
      BY <1>11, <1>14, <2>1, <3>2 DEF CorrectionEvents, Exists
    <3> QED
      BY <3>1, <3>2
  <2> QED
    BY <2>3, <2>7, <2>8 DEF CorrectionEvents
<1>20. SlotOK(op[s])'
  BY <1>11, IdleOpIsOp DEF SlotOK, Deciding, Delegating
<1>21. Told => Told'
  <2>1. \A t \in Slots : op[t].pc \in {"submitted", "delegated"} => op'[t] = op[t]
    BY <1>1, <1>11 DEF Others
  <2>2. RoleTold(q)'
    <3> SUFFICES ASSUME n.status = "PENDING"
                 PROVE  Holders(q, n.current)' \subseteq notified'
      BY <1>7, <1>11 DEF RoleTold, Pending
    <3>1. Holders(q, n.current)' = Holders(q, n.current)
      BY <1>2, <1>6, <1>12 DEF Holders
    <3> QED
      BY <1>8, <3>1
  <2>3. ASSUME NEW p \in Requests \ {q}, RoleTold(p) PROVE RoleTold(p)'
    <3>1. steps'[p] = steps[p] /\ request'[p] = request[p]
      BY <1>10, <1>11
    <3>2. (\E t \in Slots : At(t, "submitted") /\ op[t].request = p) =>
              \E t \in Slots : At(t, "submitted")' /\ op'[t].request = p
      BY <2>1 DEF At
    <3>3. Holders(p, request[p].current)' = Holders(p, request[p].current)
      BY <3>1 DEF Holders
    <3> QED
      BY <1>14, <2>3, <3>1, <3>2, <3>3 DEF RoleTold, Pending, Exists
  <2>4. \A p \in Requests : \A j \in 1..Len(steps[p]) : DelegateTold(p, j) => DelegateTold(p, j)'
    BY <1>12, <1>14, <2>1 DEF DelegateTold, At
  <2> QED
    BY <1>10, <2>2, <2>3, <2>4 DEF Told
<1> QED
  BY <1>1, <1>11, <1>13, <1>15, <1>17, <1>18, <1>19, <1>20, <1>21, SlotsStay DEF WorkflowInv

LEMMA DelegateReportInv ==
    ASSUME WorkflowInv, NEW s \in Slots, DelegateReport(s)
    PROVE  WorkflowInv'
<1>0. PICK o : o = op[s]
  OBVIOUS
<1>1. /\ o.pc = "delegated" /\ op' = [op EXCEPT ![s] = IdleOp]
      /\ notified' = notified \cup {<<o.request, o.current, o.target>>}
      /\ UNCHANGED <<request, steps, events, crashes>>
  BY <1>0 DEF DelegateReport, At, Finish
<1>2. op' \in [Slots -> Op] /\ op'[s] = IdleOp /\ Others(s)
  BY <1>1, IdleOpIsOp DEF WorkflowInv, TypeOK, Others
<1>3. o.request \in Requests /\ o.current \in Nat /\ o.target \in Staff
  <2>1. o \in Op /\ SlotOK(o)
    BY <1>0 DEF WorkflowInv, TypeOK
  <2> QED
    BY <1>1, <2>1 DEF SlotOK, Delegating, Op
<1>4. TypeOK'
  BY <1>1, <1>2, <1>3 DEF WorkflowInv, TypeOK
<1>5. RowsKept /\ CurrentReached' /\ EventsExist' /\ StepsInOrder' /\ CorrectionEvents'
  BY <1>1, RowsAlone
<1>6. SlotOK(op[s])'
  BY <1>2, IdleOpIsOp DEF SlotOK, Deciding, Delegating
<1>7. Told => Told'
  <2>1. \A t \in Slots \ {s} : op'[t] = op[t]
    BY <1>2 DEF Others
  <2>2. \A q \in Requests : RoleTold(q) => RoleTold(q)'
    BY <1>0, <1>1, <2>1 DEF RoleTold, Pending, Exists, Holders, At
  <2>3. \A q \in Requests, k \in Nat : DelegateTold(q, k) => DelegateTold(q, k)'
    BY <1>0, <1>1, <2>1 DEF DelegateTold, At
  <2> QED
    BY <1>1, <2>2, <2>3 DEF Told
<1> QED
  BY <1>1, <1>2, <1>4, <1>5, <1>6, <1>7, SlotsStay DEF WorkflowInv

---------------------------------------------------------------------------
LEMMA CrashInv ==
    ASSUME WorkflowInv, Crash
    PROVE  WorkflowInv'
<1>1. /\ UNCHANGED <<request, steps, events, notified>>
      /\ op' = [s \in Slots |-> IdleOp]
      /\ crashes' \in 0..MaxCrashes /\ crashes' # 0
  BY WorkflowAssumption DEF Crash, WorkflowInv, TypeOK
<1>2. TypeOK'
  BY <1>1, IdleOpIsOp DEF WorkflowInv, TypeOK
<1>3. CurrentReached' /\ EventsExist' /\ StepsInOrder' /\ CorrectionEvents'
  BY <1>1, RowsAlone
<1>4. \A s \in Slots : SlotOK(op[s])'
  BY <1>1, IdleOpIsOp DEF SlotOK, Deciding, Delegating
<1> QED
  BY <1>1, <1>2, <1>3, <1>4 DEF WorkflowInv

LEMMA StutterInv ==
    ASSUME WorkflowInv, UNCHANGED vars
    PROVE  WorkflowInv'
<1>1. UNCHANGED <<request, steps, events, notified, op, crashes>>
  BY DEF vars
<1>2. CurrentReached' /\ EventsExist' /\ StepsInOrder' /\ CorrectionEvents'
  BY <1>1, RowsAlone
<1>3. TypeOK' /\ \A s \in Slots : SlotOK(op[s])'
  BY <1>1 DEF WorkflowInv, TypeOK, SlotOK, Reached, Exists, Decided
<1>4. Told => Told'
  BY <1>1 DEF Told, RoleTold, DelegateTold, Pending, Exists, Holders, At
<1> QED
  BY <1>1, <1>2, <1>3, <1>4 DEF WorkflowInv

LEMMA InitInv == Init => WorkflowInv
<1> SUFFICES ASSUME Init PROVE WorkflowInv
  OBVIOUS
<1>1. \A q \in Requests : ~Exists(q) /\ Len(steps[q]) = 0
  BY DEF Init, Exists
<1>2. TypeOK
  BY IdleOpIsOp, WorkflowAssumption DEF Init, TypeOK
<1>3. CurrentReached /\ StepsInOrder /\ CorrectionEvents /\ EventsExist
  BY <1>1 DEF Init, CurrentReached, StepsInOrder, CorrectionEvents, EventsExist
<1>4. \A s \in Slots : SlotOK(op[s])
  BY IdleOpIsOp DEF Init, SlotOK, Deciding, Delegating
<1>5. Told
  BY <1>1 DEF Told, RoleTold, Pending
<1> QED
  BY <1>2, <1>3, <1>4, <1>5 DEF WorkflowInv

LEMMA NextInv == WorkflowInv /\ [Next]_vars => WorkflowInv'
<1> SUFFICES ASSUME WorkflowInv, [Next]_vars PROVE WorkflowInv'
  OBVIOUS
<1>1. ASSUME NEW s \in Slots, Arrive(s) PROVE WorkflowInv'
  BY <1>1, SubmitInv, ReadsInv DEF Arrive
<1>2. ASSUME NEW s \in Slots, Continue(s) PROVE WorkflowInv'
  BY <1>2, SubmitReportInv, TestsInv, DecideCommitInv, DelegateWriteInv, DelegateReportInv
     DEF Continue
<1> QED
  BY <1>1, <1>2, CrashInv, StutterInv DEF Next

THEOREM Invariance == Spec => []WorkflowInv
BY InitInv, NextInv, PTL DEF Spec

\* The tables and the requests in flight are well formed.
THEOREM WorkflowTypes == Spec => []TypeOK
<1>1. WorkflowInv => TypeOK
  BY DEF WorkflowInv
<1> QED
  BY Invariance, <1>1, PTL

\* However decisions of a request overlap, abort or are cut off by a crash, no
\* step of it is decided before its predecessors (decide's currentStep).
THEOREM DecidedInOrder == Spec => []StepsInOrder
<1>1. WorkflowInv => StepsInOrder
  BY DEF WorkflowInv
<1> QED
  BY Invariance, <1>1, PTL

\* An approved correction has its event, and an event is of a correction all
\* steps of which were decided, for any number of overlapping decisions.
THEOREM EventsOfApprovals == Spec => []CorrectionEvents
<1>1. WorkflowInv => CorrectionEvents
  BY DEF WorkflowInv
<1> QED
  BY Invariance, <1>1, PTL

\* Without a crash, those a request waits for were told so or are about to be.
THEOREM ApproversAreTold == Spec => []WaitingOnSomeoneWhoKnows
<1>1. WorkflowInv => WaitingOnSomeoneWhoKnows
  <2> SUFFICES ASSUME WorkflowInv, crashes = 0, NEW q \in Requests, Pending(q)
               PROVE  LET k == request[q].current
                          d == steps[q][k].delegate
                      IN  /\ \/ Holders(q, k) \subseteq notified
                             \/ \E s \in Slots : At(s, "submitted") /\ op[s].request = q
                          /\ d # NULL =>
                               \/ <<q, k, d>> \in notified
                               \/ \E s \in Slots : /\ At(s, "delegated")
                                                   /\ op[s].request = q
                                                   /\ op[s].target = d
    BY DEF WaitingOnSomeoneWhoKnows
  <2>1. request[q].current \in 1..Len(steps[q])
    BY DEF WorkflowInv, CurrentReached, Reached, Pending
  <2> QED
    BY <2>1 DEF WorkflowInv, Told, RoleTold, DelegateTold
<1> QED
  BY Invariance, <1>1, PTL

---------------------------------------------------------------------------
(* Requests handled one at a time implement Approval.  What the handlers    *)
(* read is then still so when they write (Fresh), and the steps before the *)
(* one a request waits at have all been approved (ApprovedSoFar).          *)

Fresh(s) ==
    op[s].pc \in Deciding \cup {"delegateSteps", "delegateWrite"} =>
        Pending(op[s].request) /\ op[s].current = request[op[s].request].current

ApprovedSoFar ==
    \A q \in Requests : Pending(q) =>
        \A k \in 1..(request[q].current - 1) : steps[q][k].decision = "APPROVED"

SerialInv == ~interleaved => /\ OneAtATime
                             /\ \A s \in Slots : Fresh(s)
                             /\ ApprovedSoFar

\* A request that takes a step is alone.
LEMMA Alone ==
    ASSUME WorkflowInv, OneAtATime, OneAtATime', NEW s \in Slots,
           Arrive(s) \/ Continue(s)
    PROVE  \A t \in Slots \ {s} : op[t] = IdleOp /\ op'[t] = IdleOp
<1>1. op \in [Slots -> Op]
  BY DEF WorkflowInv, TypeOK
<1>2. \A t \in Slots \ {s} : op'[t] = op[t]
  BY <1>1 DEF Arrive, Submit, DecideRead, DelegateRead, Continue, SubmitReport, DecideSteps,
     DecideCommit, DecideAbort, DelegateSteps, DelegateWrite, DelegateReport, Goto, Finish
<1>3. CASE Busy(s)
  BY <1>2, <1>3 DEF OneAtATime, Busy
<1>4. CASE ~Busy(s)
  <2>1. Arrive(s)
    BY <1>4, IdleOpIsOp DEF Busy, Continue, SubmitReport, DecideSteps, DecideCommit, DecideAbort,
       DelegateSteps, DelegateWrite, DelegateReport, At
  <2>2. op'[s].pc # "idle"
    <3>1. ASSUME NEW o, op' = [op EXCEPT ![s] = o], o.pc # "idle" PROVE op'[s].pc # "idle"
      BY <1>1, <3>1
    <3>2. ASSUME NEW q, NEW type, Submit(s, q, type) PROVE op'[s].pc # "idle"
      <4>1. PICK o : o = [IdleOp EXCEPT !.pc = "submitted", !.request = q]
        OBVIOUS
      <4>2. op' = [op EXCEPT ![s] = o] /\ o.pc # "idle"
        BY <3>2, <4>1 DEF Submit, IdleOp
      <4> QED
        BY <3>1, <4>2
    <3>3. ASSUME NEW a, NEW q, NEW verdict, DecideRead(s, a, q, verdict)
          PROVE  op'[s].pc # "idle"
      <4>1. PICK o : o = [IdleOp EXCEPT !.pc = "decideSteps", !.actor = a, !.request = q,
                                        !.current = request[q].current, !.verdict = verdict]
        OBVIOUS
      <4>2. op' = [op EXCEPT ![s] = o] /\ o.pc # "idle"
        BY <3>3, <4>1 DEF DecideRead, IdleOp
      <4> QED
        BY <3>1, <4>2
    <3>4. ASSUME NEW a, NEW q, NEW d, DelegateRead(s, a, q, d) PROVE op'[s].pc # "idle"
      <4>1. PICK o : o = [IdleOp EXCEPT !.pc = "delegateSteps", !.actor = a, !.request = q,
                                        !.current = request[q].current, !.target = d]
        OBVIOUS
      <4>2. op' = [op EXCEPT ![s] = o] /\ o.pc # "idle"
        BY <3>4, <4>1 DEF DelegateRead, IdleOp
      <4> QED
        BY <3>1, <4>2
    <3> QED
      BY <2>1, <3>2, <3>3, <3>4 DEF Arrive
  <2> QED
    BY <1>2, <2>2, IdleOpIsOp DEF OneAtATime, Busy
<1> QED
  BY <1>3, <1>4

\* What a step must keep, once the others are idle.
LEMMA SerialStep ==
    ASSUME WorkflowInv, OneAtATime, OneAtATime', NEW s \in Slots,
           Arrive(s) \/ Continue(s), Fresh(s)', ApprovedSoFar'
    PROVE  SerialInv'
<1>1. \A t \in Slots \ {s} : Fresh(t)'
  BY Alone, IdleOpIsOp DEF Fresh, Deciding
<1> QED
  BY <1>1 DEF SerialInv

MappedStays == UNCHANGED <<Required, Correcting, Verdicts, events>>

\* Steps of requests that leave the tables alone.
LEMMA QuietStep ==
    ASSUME WorkflowInv, SerialInv, ~interleaved, UNCHANGED <<request, steps, events>>
    PROVE  MappedStays /\ ApprovedSoFar'
<1>1. \A q \in Requests : DecidedSteps(q)' = DecidedSteps(q)
  BY DEF DecidedSteps, Pending, Exists
<1>2. MappedStays
  BY <1>1 DEF MappedStays, Required, Correcting, Verdicts, Exists
<1> QED
  BY <1>2 DEF SerialInv, ApprovedSoFar, Pending, Exists

\* What the step of an abstract approval reads and writes, in terms of the tables.
LEMMA SubmitMaps ==
    ASSUME WorkflowInv, SerialInv, ~interleaved, OneAtATime', NEW s \in Slots,
           NEW q \in Requests, NEW type \in Types, Submit(s, q, type)
    PROVE  /\ \E n \in StepsToTake : Approvals!Submit(q, n)
           /\ Fresh(s)' /\ ApprovedSoFar'
<1> DEFINE row == [type |-> type, status |-> "PENDING", current |-> 1]
           o   == [IdleOp EXCEPT !.pc = "submitted", !.request = q]
<1>1. /\ ~Exists(q) /\ RolesFor(type) # <<>>
      /\ steps' = [steps EXCEPT ![q] = NewSteps(type)]
      /\ request' = [request EXCEPT ![q] = row]
      /\ op' = [op EXCEPT ![s] = o]
      /\ UNCHANGED <<events, notified, crashes>>
  BY DEF Submit, NewSteps
<1>2. /\ row \in RequestRow /\ row.status = "PENDING" /\ row.type = type /\ row.current = 1
      /\ row # NULL
  BY WorkflowAssumption DEF RequestRow
<1>3. o.pc = "submitted"
  BY DEF IdleOp
<1> HIDE DEF row, o
<1>4. /\ op'[s] = o
      /\ request'[q] = row /\ \A p \in Requests \ {q} : request'[p] = request[p]
      /\ steps'[q] = NewSteps(type) /\ \A p \in Requests \ {q} : steps'[p] = steps[p]
  BY <1>1 DEF WorkflowInv, TypeOK
<1>5. Len(NewSteps(type)) = Len(RolesFor(type)) /\ Len(NewSteps(type)) \in Nat \ {0}
  BY <1>1, NewStepsOK
<1>6. Len(NewSteps(type)) \in StepsToTake
  BY <1>5 DEF StepsToTake
<1>7. Exists(q)' /\ Pending(q)' /\ \A p \in Requests \ {q} : Exists(p)' = Exists(p)
  BY <1>2, <1>4 DEF Exists, Pending
<1>8. Required' = [Required EXCEPT ![q] = Len(NewSteps(type))] /\ Required[q] = NULL
  <2>1. \A p \in Requests \ {q} : Required'[p] = Required[p]
    BY <1>4, <1>7 DEF Required
  <2>2. Required'[q] = Len(NewSteps(type)) /\ Required[q] = NULL
    BY <1>1, <1>4, <1>7 DEF Required
  <2>3. /\ Required = [p \in Requests |-> Required[p]]
        /\ Required' = [p \in Requests |-> Required'[p]]
    BY DEF Required
  <2> QED
    BY <2>1, <2>2, <2>3
<1>9. Correcting' \in {Correcting, Correcting \cup {q}}
  <2>1. \A p \in Requests \ {q} : p \in Correcting' <=> p \in Correcting
    BY <1>4, <1>7 DEF Correcting
  <2>2. Correcting \subseteq Requests /\ Correcting' \subseteq Requests /\ q \notin Correcting
    BY <1>1 DEF Correcting
  <2> QED
    BY <2>1, <2>2
<1>10. Verdicts' = Verdicts
  <2>1. DecidedSteps(q) = 0 /\ DecidedSteps(q)' = 0
    BY <1>1, <1>2, <1>4, <1>7 DEF DecidedSteps
  <2>2. \A p \in Requests \ {q} : DecidedSteps(p)' = DecidedSteps(p)
    BY <1>4, <1>7 DEF DecidedSteps, Pending
  <2>3. \A p \in Requests :
          [k \in 1..DecidedSteps(p) |-> steps[p][k].decision]' =
          [k \in 1..DecidedSteps(p) |-> steps[p][k].decision]
    BY <1>4, <2>1, <2>2
  <2> QED
    BY <2>3 DEF Verdicts
<1>11. Approvals!Submit(q, Len(NewSteps(type)))
  BY <1>1, <1>8, <1>9, <1>10 DEF Approvals!Submit
<1>12. Fresh(s)'
  BY <1>3, <1>4 DEF Fresh, Deciding
<1>13. ApprovedSoFar'
  <2>1. \A p \in Requests \ {q} : Pending(p)' => Pending(p)
    BY <1>4, <1>7 DEF Pending
  <2> QED
    BY <1>2, <1>4, <2>1 DEF ApprovedSoFar, SerialInv
<1> QED
  BY <1>6, <1>11, <1>12, <1>13

\* A decision adds its verdict to those given: nothing happened to the request
\* since it was read.
LEMMA CommitMaps ==
    ASSUME WorkflowInv, SerialInv, ~interleaved, OneAtATime', NEW s \in Slots,
           DecideCommit(s)
    PROVE  /\ \E q \in Requests : Approvals!Approve(q) \/ Approvals!Reject(q)
           /\ Fresh(s)' /\ ApprovedSoFar'
<1>0. PICK q, k, v, n, row, req : CommitEffect(s, q, k, v, n, row, req)
  BY CommitWrites
<1>1. /\ op[s].pc = "decideCommit" /\ op' = [op EXCEPT ![s] = IdleOp]
      /\ q = op[s].request /\ k = op[s].current
      /\ q \in Requests /\ Exists(q) /\ Reached(q, k) /\ k \in 1..Len(steps[q]) /\ k \in Nat
      /\ v \in {"APPROVED", "REJECTED"}
  BY <1>0 DEF CommitEffect, Finish
<1>2. Pending(q) /\ k = request[q].current /\ DecidedSteps(q) = k - 1
  BY <1>1 DEF SerialInv, Fresh, Deciding, DecidedSteps
<1>3. /\ row.decision = v /\ StepWritten(q, k, row) /\ Len(steps[q]) \in Nat
      /\ req # NULL /\ req.status = n.status /\ req.current = n.current
      /\ req.type = request[q].type /\ request' = [request EXCEPT ![q] = req]
      /\ Corrects(s) <=> n.status = "APPROVED" /\ request[q].type = "ATTENDANCE_CORRECTION"
      /\ events' = IF Corrects(s) THEN events \cup {q} ELSE events
  BY <1>0 DEF CommitEffect
<1>4. /\ n.status \in {"PENDING", "APPROVED", "REJECTED"}
      /\ n.status = "PENDING" <=> v = "APPROVED" /\ k < Len(steps[q])
      /\ n.status = "PENDING" => n.current = k + 1
      /\ n.status # "PENDING" => n.current = k
      /\ n.status = "APPROVED" <=> v = "APPROVED" /\ k = Len(steps[q])
  <2>1. n = nextRequestState(v, k, Len(steps[q])) BY <1>0 DEF CommitEffect
  <2>2. /\ v \in {"APPROVED", "REJECTED"} /\ Len(steps[q]) \in Nat
        /\ k \in 1..Len(steps[q])
    BY <1>1, <1>3
  <2> QED BY ONLY <2>1, <2>2, NextStateCases
<1>5. /\ \A p \in Requests : Len(steps'[p]) = Len(steps[p])
      /\ \A p \in Requests \ {q} : steps'[p] = steps[p]
      /\ steps'[q][k] = row
      /\ \A j \in 1..Len(steps[q]) : j # k => steps'[q][j] = steps[q][j]
  BY <1>1, <1>3, WrittenStep
<1>6. /\ request'[q] = req /\ \A p \in Requests \ {q} : request'[p] = request[p]
      /\ op'[s] = IdleOp
  BY <1>1, <1>3 DEF WorkflowInv, TypeOK
<1>7. Exists(q)' /\ DecidedSteps(q)' = k
  BY <1>1, <1>3, <1>4, <1>6 DEF DecidedSteps, Pending, Exists
<1>8. \A p \in Requests \ {q} : /\ Exists(p)' = Exists(p) /\ Pending(p)' = Pending(p)
                                /\ DecidedSteps(p)' = DecidedSteps(p)
  BY <1>6 DEF DecidedSteps, Pending, Exists
<1>9. Required' = Required /\ Correcting' = Correcting
  <2>1. \A p \in Requests : Exists(p)' = Exists(p)
    BY <1>1, <1>3, <1>6 DEF Exists
  <2>2. \A p \in Requests : request'[p].type = request[p].type
    BY <1>3, <1>6
  <2> QED
    BY <1>5, <2>1, <2>2 DEF Required, Correcting
<1>10. \A j \in 1..(k - 1) : /\ j \in 1..Len(steps[q]) /\ j # k
                             /\ steps[q][j].decision = "APPROVED"
  BY <1>1, <1>2, <1>3 DEF SerialInv, ApprovedSoFar
<1>11. Verdicts' = [Verdicts EXCEPT ![q] = Append(Verdicts[q], v)]
  <2> DEFINE old == [j \in 1..(k - 1) |-> steps[q][j].decision]
             new == [j \in 1..k |-> steps'[q][j].decision]
  <2>1. Verdicts[q] = old /\ Verdicts'[q] = new
    BY <1>1, <1>2, <1>7 DEF Verdicts
  <2>0. /\ k - 1 \in Nat /\ k \in 1..k
        /\ \A j \in 1..k : j = k \/ j \in 1..(k - 1)
        /\ \A j \in 1..(k - 1) : j \in 1..k /\ steps'[q][j].decision = "APPROVED"
        /\ steps'[q][k].decision = v
    <3>1. k \in Nat \ {0}
      BY <1>1, <1>3
    <3>2. \A j \in 1..(k - 1) : steps'[q][j].decision = "APPROVED"
      BY <1>5, <1>10
    <3> QED
      BY <1>3, <1>5, <3>1, <3>2
  <2>2. old \in Seq({"APPROVED"}) /\ Len(old) = k - 1
    BY <1>10, <2>0
  <2>3. new \in [1..k -> {"APPROVED", "REJECTED"}]
    BY <1>1, <2>0
  <2>31. new \in Seq({"APPROVED", "REJECTED"}) /\ Len(new) = k
    BY <1>1, <2>3
  <2>32. new[k] = v /\ \A j \in 1..(k - 1) : new[j] = old[j]
    BY <1>10, <2>0
  <2> HIDE DEF old, new
  <2>4. new = Append(old, v)
    BY <1>1, <2>2, <2>31, <2>32, SeqEqual
  <2>5. \A p \in Requests \ {q} : Verdicts'[p] = Verdicts[p]
    BY <1>5, <1>8 DEF Verdicts
  <2>6. /\ Verdicts = [p \in Requests |-> Verdicts[p]]
        /\ Verdicts' = [p \in Requests |-> Verdicts'[p]]
    BY DEF Verdicts
  <2> QED
    BY <2>1, <2>4, <2>5, <2>6
<1>12. /\ Required[q] = Len(steps[q]) /\ Required[q] # NULL
       /\ Len(Verdicts[q]) = k - 1 /\ \A j \in 1..(k - 1) : Verdicts[q][j] = "APPROVED"
       /\ Len(Verdicts'[q]) = k
  <2>1. Required[q] = Len(steps[q]) /\ Required[q] # NULL
    BY <1>1, <1>3, WorkflowAssumption DEF Required
  <2>2. Verdicts[q] = [j \in 1..(k - 1) |-> steps[q][j].decision]
    BY <1>1, <1>2 DEF Verdicts
  <2>3. Verdicts'[q] = [j \in 1..k |-> steps'[q][j].decision]
    BY <1>1, <1>7 DEF Verdicts
  <2>4. k - 1 \in Nat
    BY <1>1
  <2>5. Len(Verdicts[q]) = k - 1 /\ \A j \in 1..(k - 1) : Verdicts[q][j] = "APPROVED"
    BY <1>10, <2>2, <2>4
  <2>6. Len(Verdicts'[q]) = k
    BY <1>1, <2>3
  <2> QED
    BY <2>1, <2>5, <2>6
<1>13. Approvals!Undecided(q)
  BY <1>1, <1>3, <1>12 DEF Approvals!Undecided
<1>14. v = "REJECTED" => Approvals!Reject(q)
  BY <1>3, <1>4, <1>9, <1>11, <1>13 DEF Approvals!Reject
<1>15. v = "APPROVED" => Approvals!Approve(q)
  <2>1. q \in Correcting <=> request[q].type = "ATTENDANCE_CORRECTION"
    BY <1>1 DEF Correcting
  <2> QED
    BY <1>3, <1>4, <1>9, <1>11, <1>12, <1>13, <2>1 DEF Approvals!Approve
<1>16. Fresh(s)'
  BY <1>6, IdleOpIsOp DEF Fresh, Deciding
<1>17. ApprovedSoFar'
  <2>1. ASSUME Pending(q)', NEW j \in 1..(request'[q].current - 1)
        PROVE  steps'[q][j].decision = "APPROVED"
    <3>1. v = "APPROVED" /\ j \in 1..k
      BY <1>1, <1>3, <1>4, <1>6, <2>1 DEF Pending
    <3>2. CASE j = k
      BY ONLY <1>3, <1>5, <3>1, <3>2
    <3>3. CASE j # k
      <4>1. j \in 1..(k - 1)
        BY <1>1, <1>3, <3>1, <3>3
      <4>2. /\ j \in 1..Len(steps[q]) /\ j # k /\ steps[q][j].decision = "APPROVED"
        BY ONLY <1>10, <4>1
      <4>3. steps'[q][j] = steps[q][j]
        BY ONLY <1>5, <4>2
      <4> QED
        BY ONLY <4>2, <4>3
    <3> QED
      BY <3>2, <3>3
  <2>2. \A p \in Requests \ {q} : Pending(p)' =>
            \A j \in 1..(request'[p].current - 1) : steps'[p][j].decision = "APPROVED"
    BY <1>5, <1>6, <1>8 DEF SerialInv, ApprovedSoFar
  <2> QED
    BY <2>1, <2>2 DEF ApprovedSoFar
<1> QED
  BY <1>1, <1>14, <1>15, <1>16, <1>17

LEMMA DelegationMaps ==
    ASSUME WorkflowInv, SerialInv, ~interleaved, NEW s \in Slots, DelegateWrite(s)
    PROVE  MappedStays /\ Fresh(s)' /\ ApprovedSoFar'
<1>1. \A p \in Requests : /\ Len(steps'[p]) = Len(steps[p]) /\ Len(steps[p]) \in Nat
                          /\ \A j \in 1..Len(steps[p]) :
                                steps'[p][j].decision = steps[p][j].decision
  BY DelegationWrites
<1>2. UNCHANGED <<request, events>> /\ op'[s].pc = "delegated"
  BY DEF DelegateWrite, Goto, WorkflowInv, TypeOK, Op
<1>3. \A p \in Requests : /\ DecidedSteps(p)' = DecidedSteps(p)
                          /\ \A j \in 1..DecidedSteps(p) : j \in 1..Len(steps[p])
  <2> SUFFICES ASSUME NEW p \in Requests
               PROVE  /\ DecidedSteps(p)' = DecidedSteps(p)
                      /\ \A j \in 1..DecidedSteps(p) : j \in 1..Len(steps[p])
    OBVIOUS
  <2>1. DecidedSteps(p)' = DecidedSteps(p)
    BY <1>2 DEF DecidedSteps, Pending, Exists
  <2>2. Exists(p) => request[p].current \in 1..Len(steps[p])
    BY DEF WorkflowInv, CurrentReached, Reached
  <2> QED
    BY <1>1, <2>1, <2>2 DEF DecidedSteps
<1>4. \A p \in Requests : [k \in 1..DecidedSteps(p) |-> steps[p][k].decision]' =
                          [k \in 1..DecidedSteps(p) |-> steps[p][k].decision]
  BY <1>1, <1>3
<1>5. MappedStays
  BY <1>1, <1>2, <1>4 DEF MappedStays, Required, Correcting, Verdicts, Exists
<1>6. Fresh(s)'
  BY <1>2 DEF Fresh, Deciding
<1>7. ApprovedSoFar'
  <2> SUFFICES ASSUME NEW p \in Requests, Pending(p)', NEW k \in 1..(request'[p].current - 1)
               PROVE  steps'[p][k].decision = "APPROVED"
    BY DEF ApprovedSoFar
  <2>1. Pending(p) /\ Exists(p) /\ request'[p].current = request[p].current
    BY <1>2 DEF Pending, Exists
  <2>2. request[p].current \in 1..Len(steps[p])
    BY <2>1 DEF WorkflowInv, CurrentReached, Reached
  <2>3. k \in 1..Len(steps[p]) /\ steps[p][k].decision = "APPROVED"
    BY <1>1, <2>1, <2>2 DEF SerialInv, ApprovedSoFar
  <2> QED
    BY <1>1, <2>3
<1> QED
  BY <1>5, <1>6, <1>7

\* Every other step leaves what the abstraction sees.
LEMMA OtherStepsMap ==
    ASSUME WorkflowInv, SerialInv, ~interleaved, OneAtATime', NEW s \in Slots,
           \/ \E q \in Requests, a \in Staff :
                 \/ \E verdict \in {"APPROVED", "REJECTED"} : DecideRead(s, a, q, verdict)
                 \/ \E d \in Staff : DelegateRead(s, a, q, d)
           \/ SubmitReport(s) \/ DecideSteps(s) \/ DecideAbort(s)
           \/ DelegateSteps(s) \/ DelegateReport(s)
    PROVE  MappedStays /\ Fresh(s)' /\ ApprovedSoFar'
<1>1. UNCHANGED <<request, steps, events>>
  BY DEF DecideRead, DelegateRead, SubmitReport, DecideSteps, DecideAbort, DelegateSteps,
     DelegateReport
<1>2. op \in [Slots -> Op] /\ Fresh(s)
  BY DEF WorkflowInv, TypeOK, SerialInv
<1>3. Fresh(s)'
  <2>1. ASSUME NEW q \in Requests, NEW a \in Staff,
               \/ \E verdict \in {"APPROVED", "REJECTED"} : DecideRead(s, a, q, verdict)
               \/ \E d \in Staff : DelegateRead(s, a, q, d)
        PROVE  Fresh(s)'
    <3>1. Pending(q) /\ op'[s].request = q /\ op'[s].current = request[q].current
      BY <1>2, <2>1 DEF DecideRead, DelegateRead, IdleOp
    <3> QED
      BY <1>1, <3>1 DEF Fresh, Pending, Exists
  <2>2. ASSUME op'[s] = IdleOp PROVE Fresh(s)'
    BY <2>2, IdleOpIsOp DEF Fresh, Deciding
  <2>3. ASSUME NEW pc \in {"decideCommit", "delegateWrite"},
               op[s].pc \in {"decideSteps", "delegateSteps"}, Goto(s, pc)
        PROVE  Fresh(s)'
    <3>1. op'[s].request = op[s].request /\ op'[s].current = op[s].current
      BY <1>2, <2>3 DEF Goto, Op
    <3> QED
      BY <1>1, <1>2, <2>3, <3>1 DEF Fresh, Pending, Exists, Deciding
  <2>4. SubmitReport(s) \/ DecideAbort(s) \/ DelegateReport(s) => op'[s] = IdleOp
    BY <1>2 DEF SubmitReport, DecideAbort, DelegateReport, Finish
  <2>5. DecideSteps(s) => \/ op'[s] = IdleOp
                          \/ op[s].pc = "decideSteps" /\ Goto(s, "decideCommit")
    BY <1>2 DEF DecideSteps, Finish, At
  <2>6. DelegateSteps(s) => \/ op'[s] = IdleOp
                            \/ op[s].pc = "delegateSteps" /\ Goto(s, "delegateWrite")
    BY <1>2 DEF DelegateSteps, Finish, At
  <2> QED
    BY <2>1, <2>2, <2>3, <2>4, <2>5, <2>6
<1> QED
  BY <1>1, <1>3, QuietStep

LEMMA CrashMaps ==
    ASSUME WorkflowInv, SerialInv, ~interleaved, Crash
    PROVE  MappedStays /\ ApprovedSoFar' /\ \A s \in Slots : Fresh(s)'
<1>1. \A s \in Slots : Fresh(s)'
  BY IdleOpIsOp DEF Crash, Fresh, Deciding
<1> QED
  BY <1>1, QuietStep DEF Crash

\* A step of the served system, one request at a time.
LEMMA ServedStep ==
    ASSUME WorkflowInv, SerialInv, [ServedNext]_<<vars, interleaved>>, ~interleaved
    PROVE  /\ SerialInv'
           /\ Approvals!Next \/ MappedStays
<1>1. CASE UNCHANGED <<vars, interleaved>>
  <2>1. UNCHANGED <<request, steps, events, op, interleaved>>
    BY <1>1 DEF vars
  <2>2. MappedStays /\ ApprovedSoFar'
    BY <2>1, QuietStep
  <2>3. OneAtATime' /\ \A s \in Slots : Fresh(s)'
    BY <2>1 DEF SerialInv, OneAtATime, Busy, Fresh, Pending, Exists
  <2> QED
    BY <2>2, <2>3 DEF SerialInv
<1>2. CASE ServedNext
  <2>0. Next /\ OneAtATime /\ OneAtATime'
    BY <1>2 DEF ServedNext, SerialInv
  <2>1. ASSUME NEW s \in Slots, NEW q \in Requests, NEW type \in Types, Submit(s, q, type)
        PROVE  SerialInv' /\ Approvals!Next
    <3>1. Arrive(s)
      BY <2>1 DEF Arrive
    <3>2. (\E n \in StepsToTake : Approvals!Submit(q, n)) /\ Fresh(s)' /\ ApprovedSoFar'
      BY <2>0, <2>1, SubmitMaps
    <3> QED
      BY <2>0, <3>1, <3>2, SerialStep DEF Approvals!Next
  <2>2. ASSUME NEW s \in Slots, DecideCommit(s) PROVE SerialInv' /\ Approvals!Next
    <3>1. Continue(s)
      BY <2>2 DEF Continue
    <3>2. /\ \E q \in Requests : Approvals!Approve(q) \/ Approvals!Reject(q)
          /\ Fresh(s)' /\ ApprovedSoFar'
      BY <2>0, <2>2, CommitMaps
    <3> QED
      BY <2>0, <3>1, <3>2, SerialStep DEF Approvals!Next
  <2>3. ASSUME NEW s \in Slots, Arrive(s) \/ Continue(s), ~DecideCommit(s),
               ~\E q \in Requests, type \in Types : Submit(s, q, type)
        PROVE  SerialInv' /\ MappedStays
    <3>1. MappedStays /\ Fresh(s)' /\ ApprovedSoFar'
      BY <2>0, <2>3, DelegationMaps, OtherStepsMap DEF Arrive, Continue
    <3> QED
      BY <2>0, <2>3, <3>1, SerialStep
  <2>4. ASSUME Crash PROVE SerialInv' /\ MappedStays
    BY <2>0, <2>4, CrashMaps DEF SerialInv
  <2> QED
    BY <2>0, <2>1, <2>2, <2>3, <2>4 DEF Next, Arrive
<1> QED
  BY <1>1, <1>2

LEMMA ServedInitially == ServedInit => SerialInv /\ Approvals!Init
<1> SUFFICES ASSUME ServedInit PROVE SerialInv /\ Approvals!Init
  OBVIOUS
<1>1. \A q \in Requests : ~Exists(q) /\ ~Pending(q)
  BY DEF ServedInit, Init, Exists, Pending
<1>2. \A s \in Slots : op[s] = IdleOp
  BY DEF ServedInit, Init
<1>3. SerialInv
  BY <1>1, <1>2, IdleOpIsOp DEF SerialInv, OneAtATime, Busy, Fresh, Deciding, ApprovedSoFar
<1>4. \A q \in Requests : [k \in 1..DecidedSteps(q) |-> steps[q][k].decision] = <<>>
  BY <1>1 DEF DecidedSteps
<1>5. Required = [q \in Requests |-> NULL] /\ Correcting = {} /\ events = {}
  BY <1>1 DEF Required, Correcting, ServedInit, Init
<1>6. Verdicts = [q \in Requests |-> <<>>]
  BY <1>4 DEF Verdicts
<1> QED
  BY <1>3, <1>5, <1>6 DEF Approvals!Init

\* As long as requests of the API are handled one at a time, create, decide and
\* delegate implement the abstract approval: verdicts one step after the other,
\* none after the decision, and the correction event with the last approval.
THEOREM ServedImplementsApproval == ServedSpec => SerialImplementsApproval
<1>1. ServedInit => WorkflowInv /\ SerialInv /\ Approvals!Init
  BY InitInv, ServedInitially DEF ServedInit
<1>2. /\ WorkflowInv /\ SerialInv /\ [ServedNext]_<<vars, interleaved>>
      => WorkflowInv' /\ SerialInv'
  <2> SUFFICES ASSUME WorkflowInv, SerialInv, [ServedNext]_<<vars, interleaved>>
               PROVE  WorkflowInv' /\ SerialInv'
    OBVIOUS
  <2>1. [Next]_vars /\ interleaved' = interleaved
    BY DEF ServedNext
  <2> QED
    BY <2>1, NextInv, ServedStep DEF SerialInv
<1>3. /\ WorkflowInv /\ SerialInv /\ [ServedNext]_<<vars, interleaved>>
      => [~interleaved => Approvals!Next \/ UNCHANGED Approvals!vars]_<<vars, interleaved>>
  BY ServedStep DEF MappedStays, Approvals!vars
<1> QED
  BY <1>1, <1>2, <1>3, PTL DEF ServedSpec, SerialImplementsApproval
=============================================================================
