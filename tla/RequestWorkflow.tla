-------------------------- MODULE RequestWorkflow --------------------------
(***************************************************************************)
(* Leave, overtime and correction requests and their approval steps        *)
(* (apps/api/src/requests/requests.service.ts, workflow.ts).               *)
(*                                                                         *)
(* decide is an interactive transaction under READ COMMITTED: its reads see *)
(* what is committed at that moment, its writes become visible together    *)
(* when it commits, and they carry no condition on what was read.  The row *)
(* locks its updates take only delay other writers, so the updates and the *)
(* commit are one step here.  delegate uses no transaction.                *)
(***************************************************************************)
EXTENDS Naturals, Sequences, FiniteSets

CONSTANTS
    Staff,        \* active employees of the organisation
    RoleOf,       \* the role of each
    Requests,     \* ids of requests
    Types,        \* request types submitted
    PolicySteps,  \* the steps of the active approval policy of a type, or NULL
    Slots,        \* requests the API may have in flight
    NULL,
    MaxCrashes    \* bound: crashes of the API process

Roles == {"EMPLOYEE", "SUPERVISOR", "HR", "PAYROLL", "FINANCE", "ADMIN",
          "AUDITOR"}

RequestTypes == {"LEAVE", "OVERTIME", "ATTENDANCE_CORRECTION", "REMOTE_WORK",
                 "FIELD_ASSIGNMENT"}

\* The employee a request is about plays no part in its decision.
RequestRow == [type    : Types,
               status  : {"PENDING", "APPROVED", "REJECTED"},
               current : Nat]

StepRow == [role     : Roles,
            approver : Staff \cup {NULL},
            delegate : Staff \cup {NULL},
            decision : {"APPROVED", "REJECTED"} \cup {NULL}]

ASSUME WorkflowAssumption ==
    /\ RoleOf \in [Staff -> Roles]
    /\ Types \subseteq RequestTypes
    /\ PolicySteps \in [Types -> Seq(Roles) \cup {NULL}]
    /\ NULL \notin Staff /\ NULL \notin Requests /\ NULL \notin RequestRow
    /\ NULL \notin {"APPROVED", "REJECTED"}
    /\ NULL \notin Seq(Roles) /\ NULL \notin Nat
    /\ MaxCrashes \in Nat

VARIABLES
    request,   \* the Request table
    steps,     \* the ApprovalStep rows of each request, in order
    events,    \* requests with an approved-correction attendance event
    notified,  \* who was told of which step: <<request, step, employee>>
    op,        \* what each slot is doing
    crashes

vars == <<request, steps, events, notified, op, crashes>>

Steps == {"idle", "submitted", "decideSteps", "decideCommit",
          "delegateSteps", "delegateWrite", "delegated"}

\* current: the step number read with the request.
Op == [pc      : Steps,
       actor   : Staff \cup {NULL},
       request : Requests \cup {NULL},
       current : Nat,
       verdict : {"APPROVED", "REJECTED"} \cup {NULL},
       target  : Staff \cup {NULL}]

IdleOp == [pc |-> "idle", actor |-> NULL, request |-> NULL, current |-> 0,
           verdict |-> NULL, target |-> NULL]

TypeOK ==
    /\ request \in [Requests -> RequestRow \cup {NULL}]
    /\ steps \in [Requests -> Seq(StepRow)]
    /\ events \subseteq Requests
    /\ notified \subseteq Requests \X Nat \X Staff
    /\ op \in [Slots -> Op]
    /\ crashes \in 0..MaxCrashes

Init ==
    /\ request = [q \in Requests |-> NULL]
    /\ steps = [q \in Requests |-> <<>>]
    /\ events = {}
    /\ notified = {}
    /\ op = [s \in Slots |-> IdleOp]
    /\ crashes = 0

Exists(q) == request[q] # NULL
Pending(q) == Exists(q) /\ request[q].status = "PENDING"

At(s, pc) == op[s].pc = pc
Goto(s, pc) == op' = [op EXCEPT ![s].pc = pc]
Finish(s) == op' = [op EXCEPT ![s] = IdleOp]

---------------------------------------------------------------------------
(* workflow.ts *)

defaultApprovalRoles(type) ==
    IF type \in {"OVERTIME", "ATTENDANCE_CORRECTION", "LEAVE"}
    THEN <<"SUPERVISOR", "HR">>
    ELSE <<"SUPERVISOR">>

\* Mutants: the last step is not waited for; a rejection of an earlier step
\* moves on.
nextRequestStateOneLess(decision, current, total) ==
    IF decision = "REJECTED" THEN [status |-> "REJECTED", current |-> current]
    ELSE IF current + 1 >= total
         THEN [status |-> "APPROVED", current |-> current]
    ELSE [status |-> "PENDING", current |-> current + 1]

nextRequestState(decision, current, total) ==
    IF decision = "REJECTED" THEN [status |-> "REJECTED", current |-> current]
    ELSE IF current >= total THEN [status |-> "APPROVED", current |-> current]
    ELSE [status |-> "PENDING", current |-> current + 1]

---------------------------------------------------------------------------
(* create *)

RolesFor(type) ==
    IF PolicySteps[type] # NULL THEN PolicySteps[type]
    ELSE defaultApprovalRoles(type)

\* The request and its steps are one nested insert; a policy without steps is
\* refused before.
Submit(s, q, type) ==
    /\ At(s, "idle")
    /\ ~Exists(q)
    /\ LET roles == RolesFor(type)
       IN  /\ roles # <<>>
           /\ steps' = [steps EXCEPT ![q] =
                 [k \in 1..Len(roles) |-> [role     |-> roles[k],
                                           approver |-> NULL,
                                           delegate |-> NULL,
                                           decision |-> NULL]]]
    /\ request' = [request EXCEPT ![q] = [type    |-> type,
                                          status  |-> "PENDING",
                                          current |-> 1]]
    /\ op' = [op EXCEPT ![s] = [IdleOp EXCEPT !.pc = "submitted",
                                              !.request = q]]
    /\ UNCHANGED <<events, notified, crashes>>

Holders(q, k) == {<<q, k, a>> : a \in {b \in Staff : RoleOf[b] = steps[q][k].role}}

\* notifyRole(..., roles[0], ...), after the insert and outside it.
SubmitReport(s) ==
    /\ At(s, "submitted")
    /\ notified' = notified \cup Holders(op[s].request, 1)
    /\ Finish(s)
    /\ UNCHANGED <<request, steps, events, crashes>>

---------------------------------------------------------------------------
(* decide *)

DecideRead(s, a, q, verdict) ==
    /\ At(s, "idle")
    /\ Pending(q)
    /\ op' = [op EXCEPT ![s] = [IdleOp EXCEPT !.pc      = "decideSteps",
                                              !.actor   = a,
                                              !.request = q,
                                              !.current = request[q].current,
                                              !.verdict = verdict]]
    /\ UNCHANGED <<request, steps, events, notified, crashes>>

\* The step the request in slot s is about.
Step(s) == steps[op[s].request][op[s].current]

MayDecide(s) ==
    \/ Step(s).delegate = op[s].actor
    \/ Step(s).approver = op[s].actor
    \/ Step(s).role = RoleOf[op[s].actor]

\* Mutant: the step is looked up by the role of the actor.
DecideStepsByRole(s) ==
    /\ At(s, "decideSteps")
    /\ \E k \in 1..Len(steps[op[s].request]) :
          /\ steps[op[s].request][k].role = RoleOf[op[s].actor]
          /\ op' = [op EXCEPT ![s].pc = "decideCommit", ![s].current = k]
    /\ UNCHANGED <<request, steps, events, notified, crashes>>

\* The steps come with the request, by a query of their own.
DecideSteps(s) ==
    /\ At(s, "decideSteps")
    /\ IF MayDecide(s) THEN Goto(s, "decideCommit") ELSE Finish(s)
    /\ UNCHANGED <<request, steps, events, notified, crashes>>

NextState(s) == nextRequestState(op[s].verdict, op[s].current,
                             Len(steps[op[s].request]))

\* Mutant: the event is created by any approval.
CorrectsByVerdict(s) ==
    /\ op[s].verdict = "APPROVED"
    /\ request[op[s].request].type = "ATTENDANCE_CORRECTION"

\* The decision completes an attendance correction.
Corrects(s) ==
    /\ NextState(s).status = "APPROVED"
    /\ request[op[s].request].type = "ATTENDANCE_CORRECTION"

\* The writes of the transaction: the step, the request, the correction event
\* under its unique idempotency key, the notifications of the next approvers.
DecideCommit(s) ==
    /\ At(s, "decideCommit")
    /\ Corrects(s) => op[s].request \notin events
    /\ LET q == op[s].request
           n == NextState(s)
       IN  /\ steps' = [steps EXCEPT ![q][op[s].current].approver = op[s].actor,
                                     ![q][op[s].current].decision = op[s].verdict]
           /\ request' = [request EXCEPT ![q].status  = n.status,
                                         ![q].current = n.current]
           /\ events' = IF Corrects(s) THEN events \cup {q} ELSE events
           /\ notified' = IF n.status = "PENDING"
                          THEN notified \cup Holders(q, n.current)
                          ELSE notified
    /\ Finish(s)
    /\ UNCHANGED crashes

\* The transaction is rolled back: the correction event exists already (unique
\* idempotencyKey), or Prisma's transaction timeout has run out.
DecideAbort(s) ==
    /\ \/ At(s, "decideSteps")
       \/ At(s, "decideCommit")
    /\ Finish(s)
    /\ UNCHANGED <<request, steps, events, notified, crashes>>

---------------------------------------------------------------------------
(* delegate *)

DelegateRead(s, a, q, d) ==
    /\ At(s, "idle")
    /\ Pending(q)
    /\ op' = [op EXCEPT ![s] = [IdleOp EXCEPT !.pc      = "delegateSteps",
                                              !.actor   = a,
                                              !.request = q,
                                              !.current = request[q].current,
                                              !.target  = d]]
    /\ UNCHANGED <<request, steps, events, notified, crashes>>

DelegateSteps(s) ==
    /\ At(s, "delegateSteps")
    /\ IF \/ RoleOf[op[s].actor] = Step(s).role
          \/ Step(s).approver = op[s].actor
       THEN Goto(s, "delegateWrite")
       ELSE Finish(s)
    /\ UNCHANGED <<request, steps, events, notified, crashes>>

\* Mutants: the delegate is not told; the role is stored in place of the delegate.
DelegateWriteSilently(s) ==
    /\ At(s, "delegateWrite")
    /\ steps' = [steps EXCEPT ![op[s].request][op[s].current].delegate =
                    op[s].target]
    /\ Finish(s)
    /\ UNCHANGED <<request, events, notified, crashes>>

DelegateWriteRole(s) ==
    /\ At(s, "delegateWrite")
    /\ steps' = [steps EXCEPT ![op[s].request][op[s].current].delegate =
                    RoleOf[op[s].target]]
    /\ Goto(s, "delegated")
    /\ UNCHANGED <<request, events, notified, crashes>>

DelegateWrite(s) ==
    /\ At(s, "delegateWrite")
    /\ steps' = [steps EXCEPT ![op[s].request][op[s].current].delegate =
                    op[s].target]
    /\ Goto(s, "delegated")
    /\ UNCHANGED <<request, events, notified, crashes>>

DelegateReport(s) ==
    /\ At(s, "delegated")
    /\ notified' = notified \cup
                     {<<op[s].request, op[s].current, op[s].target>>}
    /\ Finish(s)
    /\ UNCHANGED <<request, steps, events, crashes>>

---------------------------------------------------------------------------
\* The process dies: open transactions are rolled back, slots are empty.
Crash ==
    /\ crashes < MaxCrashes
    /\ crashes' = crashes + 1
    /\ op' = [s \in Slots |-> IdleOp]
    /\ UNCHANGED <<request, steps, events, notified>>

Arrive(s) ==
    \E q \in Requests :
        \/ \E type \in Types : Submit(s, q, type)
        \/ \E a \in Staff, verdict \in {"APPROVED", "REJECTED"} :
              DecideRead(s, a, q, verdict)
        \/ \E a, d \in Staff : DelegateRead(s, a, q, d)

Continue(s) ==
    \/ SubmitReport(s)
    \/ DecideSteps(s)
    \/ DecideCommit(s)
    \/ DecideAbort(s)
    \/ DelegateSteps(s)
    \/ DelegateWrite(s)
    \/ DelegateReport(s)

Next == (\E s \in Slots : Arrive(s) \/ Continue(s)) \/ Crash

Spec == Init /\ [][Next]_vars

---------------------------------------------------------------------------
(* What holds however transactions interleave. *)

Decided(q, k) == steps[q][k].decision # NULL

\* No step is decided before all its predecessors were, even by a decision that
\* was overtaken by another one (decide's currentStep).
StepsInOrder ==
    \A q \in Requests : \A k \in 2..Len(steps[q]) :
        Decided(q, k) => Decided(q, k - 1)

\* Once a request for an attendance correction is approved its event exists,
\* and an event exists only of a correction every step of which was decided:
\* of two overlapping transactions that both create it the unique key aborts one
\* with all its writes, and a decision that was overtaken creates none early
\* (decide, idempotencyKey approved-correction:id).
CorrectionEvents ==
    /\ \A q \in Requests :
          Exists(q) /\ request[q].status = "APPROVED"
                    /\ request[q].type = "ATTENDANCE_CORRECTION" => q \in events
    /\ \A q \in events :
          /\ request[q].type = "ATTENDANCE_CORRECTION"
          /\ \A k \in 1..Len(steps[q]) : Decided(q, k)

\* While a request waits at a step, everyone with the role of the step and the
\* employee it was delegated to was told so, or is about to be by a request in
\* flight, unless the process crashed (create's and delegate's notifications are
\* written after the change they tell of).
WaitingOnSomeoneWhoKnows ==
    crashes = 0 =>
      \A q \in Requests : Pending(q) =>
        LET k == request[q].current
            d == steps[q][k].delegate
        IN  /\ \/ Holders(q, k) \subseteq notified
               \/ \E s \in Slots : At(s, "submitted") /\ op[s].request = q
            /\ d # NULL =>
                 \/ <<q, k, d>> \in notified
                 \/ \E s \in Slots : /\ At(s, "delegated")
                                     /\ op[s].request = q
                                     /\ op[s].target = d

---------------------------------------------------------------------------
(* What the code says of itself; true of transactions one at a time. *)

\* "Request is already decided" (requests.service.ts:31): a request that was
\* approved or rejected keeps its status.
DecidedStaysDecided ==
    [][\A q \in Requests :
          Exists(q) /\ ~Pending(q) => request'[q].status = request[q].status
      ]_vars
=============================================================================
