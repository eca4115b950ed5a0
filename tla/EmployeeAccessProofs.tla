------------------------ MODULE EmployeeAccessProofs ------------------------
(***************************************************************************)
(* Proofs about EmployeeAccess, for any number of employees, users and      *)
(* requests in flight; up to the last part, if no two Supabase users share  *)
(* an email.                                                               *)
(*                                                                         *)
(* Neither ActsForLinkedEmployee nor LinkKept is inductive: a reset writes  *)
(* back a login it found earlier.  It is the one the row holds by now, as   *)
(* both have the email of the employee (LinkedByEmail, SlotOK).             *)
(*                                                                         *)
(* The last part is about requests one at a time, where what a request has  *)
(* read still holds when it writes (SerialSlot).  There two Supabase users  *)
(* may share an email.                                                     *)
(***************************************************************************)
EXTENDS AccessServed, TLAPS

EmailsUnique ==
    \A u, v \in Users : UserEmail[u] = UserEmail[v] /\ UserEmail[u] # NULL => u = v

\* A linked login has the email of its employee.
LinkedByEmail ==
    \A e \in Employees :
        Exists(e) /\ employee[e].login # NULL =>
            UserEmail[employee[e].login] = EmailOf[e]

Targeted(o) == o.endpoint \in {"reset", "status", "create"} => o.target \in Employees

Acting(o) ==
    /\ o.employee \in Employees
    /\ Exists(o.employee)
    /\ employee[o.employee].login = o.user

Resetting == {"lookUp", "setTemporary", "markReset"}

\* What a request in flight knows of the rows it has read, whatever the others do.
SlotOK(o) ==
    /\ o.pc # "idle" => o.user \in Users /\ Targeted(o)
    /\ o.pc \in {"link", "recheck"} =>
           /\ o.employee \in Employees
           /\ Exists(o.employee)
           /\ EmailOf[o.employee] = UserEmail[o.user]
    /\ o.pc \notin {"idle", "match", "link", "recheck"} => Acting(o)
    /\ o.pc \in Resetting \cup {"setStatus"} =>
           o.target \in Employees /\ Exists(o.target)
    /\ o.pc \in {"setTemporary", "markReset"} =>
           o.login \in Users /\ UserEmail[o.login] = EmailOf[o.target]
    /\ o.pc \in {"setOwn", "clear"} => o.login \in Users

AccessInv ==
    /\ TypeOK
    /\ LinkedByEmail
    /\ \A s \in Slots : SlotOK(op[s])

\* No row is removed and no link replaced.
RowsGrow ==
    \A e \in Employees :
        Exists(e) => /\ employee'[e] # NULL
                     /\ employee[e].login # NULL =>
                            employee'[e].login = employee[e].login

Others(s) == \A r \in Slots \ {s} : op'[r] = op[r]

\* What each action of slot s does to the parts of the invariant.
StepOK(s) ==
    /\ TypeOK'
    /\ LinkedByEmail'
    /\ RowsGrow
    /\ Others(s)
    /\ SlotOK(op[s])'

---------------------------------------------------------------------------
\* An IdleOp claims nothing.
LEMMA IdleOK == IdleOp \in Op /\ IdleOp.pc = "idle"
BY DEF IdleOp, Op, Steps, Endpoints

\* A slot that takes no step keeps what it knows while rows only grow.
LEMMA SlotKept ==
    ASSUME TypeOK, RowsGrow, NEW s \in Slots, SlotOK(op[s]), op'[s] = op[s]
    PROVE  SlotOK(op[s])'
<1> DEFINE o == op[s]
<1>1. \A e \in Employees : Exists(e) => Exists(e)'
  BY DEF RowsGrow, Exists
<1>2. o \in Op
  BY DEF TypeOK
<1>3. Acting(o) /\ o.user \in Users => Acting(op[s])'
  <2> SUFFICES ASSUME Acting(o), o.user \in Users
               PROVE  Acting(op[s])'
    OBVIOUS
  <2>1. o.user # NULL
    BY AccessAssumption
  <2> QED
    BY <1>1, <2>1 DEF Acting, RowsGrow, Exists
<1> QED
  BY <1>1, <1>2, <1>3 DEF SlotOK, Targeted, Resetting

\* The invariant is that of its parts.
LEMMA StepKeepsInv ==
    ASSUME AccessInv, NEW s \in Slots, StepOK(s)
    PROVE  AccessInv' /\ RowsGrow
<1>1. ASSUME NEW r \in Slots PROVE SlotOK(op[r])'
  <2>1. CASE r = s
    BY <2>1 DEF StepOK
  <2>2. CASE r # s
    <3>1. op'[r] = op[r]
      BY <2>2 DEF StepOK, Others
    <3> QED
      BY <3>1, SlotKept DEF AccessInv, StepOK
  <2> QED
    BY <2>1, <2>2
<1> QED
  BY <1>1 DEF AccessInv, StepOK

\* An action that leaves the rows alone.
LEMMA RowsAlone ==
    ASSUME AccessInv, UNCHANGED employee
    PROVE  LinkedByEmail' /\ RowsGrow
BY DEF AccessInv, LinkedByEmail, RowsGrow, Exists

\* A slot that ends.
LEMMA FinishOK ==
    ASSUME AccessInv, NEW s \in Slots, Finish(s)
    PROVE  op' \in [Slots -> Op] /\ Others(s) /\ SlotOK(op[s])'
<1>1. op' \in [Slots -> Op] /\ op'[s] = IdleOp /\ Others(s)
  BY IdleOK DEF Finish, AccessInv, TypeOK, Others
<1> QED
  BY <1>1, IdleOK DEF SlotOK, Resetting

\* The end of the guard.
LEMMA EnterOK ==
    ASSUME AccessInv, NEW s \in Slots, NEW o \in Op, NEW e \in Employees,
           NEW required \in BOOLEAN, o.user \in Users, Targeted(o),
           Enter(s, o, e, required),
           employee'[e] # NULL, employee'[e].login = o.user
    PROVE  op' \in [Slots -> Op] /\ Others(s) /\ SlotOK(op[s])'
<1> DEFINE n == [o EXCEPT !.pc = "handle", !.employee = e, !.required = required]
<1>1. /\ n \in Op /\ n.pc = "handle" /\ n.employee = e /\ n.user = o.user
      /\ n.endpoint = o.endpoint /\ n.target = o.target
  BY DEF Op, Steps
<1>2. PICK x \in {n, IdleOp} : op' = [op EXCEPT ![s] = x]
  BY DEF Enter
<1>3. op' \in [Slots -> Op] /\ op'[s] = x /\ Others(s)
  BY <1>1, <1>2, IdleOK DEF AccessInv, TypeOK, Others
<1>4. CASE x = n
  BY <1>1, <1>3, <1>4 DEF SlotOK, Targeted, Acting, Exists, Resetting
<1>5. CASE x = IdleOp
  BY <1>3, <1>5, IdleOK DEF SlotOK, Resetting
<1> QED
  BY <1>3, <1>4, <1>5

---------------------------------------------------------------------------
(* The guard *)

LEMMA FindOK ==
    ASSUME AccessInv, NEW s \in Slots, NEW u \in Users, NEW endpoint \in Endpoints,
           NEW target \in Employees \cup {NULL}, NEW on \in BOOLEAN,
           endpoint \in {"reset", "status", "create"} => target \in Employees,
           Find(s, u, endpoint, target, on)
    PROVE  StepOK(s)
<1> DEFINE o == Request(u, endpoint, target, on)
<1>1. /\ o \in Op /\ o.user = u /\ o.endpoint = endpoint /\ o.target = target
      /\ [o EXCEPT !.pc = "match"] \in Op
  BY IdleOK DEF Request, IdleOp, Op, Steps
<1>2. Targeted(o)
  BY <1>1 DEF Targeted
<1>3. op' \in [Slots -> Op] /\ Others(s) /\ SlotOK(op[s])'
  <2>1. ASSUME NEW e \in Employees, Exists(e), employee[e].login = u,
               Enter(s, o, e, employee[e].reset)
        PROVE  op' \in [Slots -> Op] /\ Others(s) /\ SlotOK(op[s])'
    <3>1. employee[e].reset \in BOOLEAN
      BY <2>1 DEF AccessInv, TypeOK, EmployeeRow, Exists
    <3>2. employee'[e] # NULL /\ employee'[e].login = o.user
      BY <1>1, <2>1 DEF Find, Exists
    <3> HIDE DEF o
    <3> QED
      BY <1>1, <1>2, <2>1, <3>1, <3>2, EnterOK
  <2>2. CASE op' = [op EXCEPT ![s] = [o EXCEPT !.pc = "match"]]
    <3>1. op' \in [Slots -> Op] /\ op'[s] = [o EXCEPT !.pc = "match"] /\ Others(s)
      BY <1>1, <2>2 DEF AccessInv, TypeOK, Others
    <3> QED
      BY <1>1, <1>2, <3>1 DEF SlotOK, Targeted, Resetting, Op
  <2> QED
    BY <2>1, <2>2 DEF Find
<1> QED
  BY <1>3, RowsAlone DEF Find, StepOK, AccessInv, TypeOK

\* The request of a slot that is not idle.
LEMMA OpFacts ==
    ASSUME AccessInv, NEW s \in Slots, op[s].pc # "idle"
    PROVE  op[s] \in Op /\ op[s].user \in Users /\ op[s].user # NULL /\ Targeted(op[s])
BY AccessAssumption DEF AccessInv, TypeOK, SlotOK

LEMMA MatchOK ==
    ASSUME AccessInv, NEW s \in Slots, Match(s)
    PROVE  StepOK(s)
<1>1. op[s] \in Op /\ op[s].user \in Users /\ op[s].user # NULL /\ Targeted(op[s])
  BY OpFacts DEF Match, At
<1>2. op' \in [Slots -> Op] /\ Others(s) /\ SlotOK(op[s])'
  <2>1. CASE Finish(s)
    BY <2>1, FinishOK
  <2>2. ASSUME NEW e \in Employees, Matches(op[s].user) = {e}, ~Finish(s)
        PROVE  op' \in [Slots -> Op] /\ Others(s) /\ SlotOK(op[s])'
    <3>1. Exists(e) /\ EmailOf[e] = UserEmail[op[s].user]
      BY <2>2 DEF Matches
    <3>2. employee[e].reset \in BOOLEAN
      BY <3>1 DEF AccessInv, TypeOK, EmployeeRow, Exists
    <3>3. CASE employee[e].login = op[s].user /\ Enter(s, op[s], e, employee[e].reset)
      <4>1. employee'[e] # NULL /\ employee'[e].login = op[s].user
        BY <3>1, <3>3 DEF Match, Exists
      <4> QED
        BY <1>1, <3>2, <3>3, <4>1, EnterOK
    <3>4. CASE op' = [op EXCEPT ![s].pc       = "link",
                                ![s].employee = e,
                                ![s].required = employee[e].reset]
      <4>1. /\ op' \in [Slots -> Op] /\ Others(s)
            /\ op'[s].pc = "link" /\ op'[s].employee = e /\ op'[s].user = op[s].user
            /\ op'[s].endpoint = op[s].endpoint /\ op'[s].target = op[s].target
        BY <1>1, <3>2, <3>4 DEF AccessInv, TypeOK, Others, Op, Steps
      <4>2. Exists(e)'
        BY <3>1 DEF Match, Exists
      <4> QED
        BY <1>1, <3>1, <4>1, <4>2 DEF SlotOK, Targeted, Resetting
    <3> QED
      BY <2>2, <3>3, <3>4 DEF Match
  <2> QED
    BY <2>1, <2>2 DEF Match
<1> QED
  BY <1>2, RowsAlone DEF Match, StepOK, AccessInv, TypeOK

\* Writing a row with login u, an account with the email of the employee; if the
\* employee was linked, then to u.
LEMMA LoginWritten ==
    ASSUME AccessInv, NEW e \in Employees, Exists(e),
           NEW row \in EmployeeRow, row.login \in Users, UserEmail[row.login] = EmailOf[e],
           employee[e].login # NULL => employee[e].login = row.login,
           employee' = [employee EXCEPT ![e] = row]
    PROVE  /\ employee' \in [Employees -> EmployeeRow \cup {NULL}]
           /\ LinkedByEmail' /\ RowsGrow
           /\ employee'[e] # NULL /\ employee'[e].login = row.login
<1>1. row # NULL
  BY AccessAssumption DEF EmployeeRow
<1>2. /\ employee' \in [Employees -> EmployeeRow \cup {NULL}]
      /\ employee'[e] = row
      /\ \A f \in Employees \ {e} : employee'[f] = employee[f]
  BY DEF AccessInv, TypeOK
<1>3. LinkedByEmail'
  BY <1>2 DEF AccessInv, LinkedByEmail, Exists
<1>4. RowsGrow
  BY <1>1, <1>2 DEF RowsGrow, Exists
<1> QED
  BY <1>1, <1>2, <1>3, <1>4

LEMMA LinkOK ==
    ASSUME AccessInv, NEW s \in Slots, Link(s)
    PROVE  StepOK(s)
<1> DEFINE e == op[s].employee
<1>1. op[s] \in Op /\ op[s].user \in Users /\ op[s].user # NULL /\ Targeted(op[s])
  BY OpFacts DEF Link, At
<1>2. op[s].pc = "link" /\ e \in Employees /\ Exists(e) /\ EmailOf[e] = UserEmail[op[s].user]
  BY DEF Link, At, AccessInv, SlotOK
<1>4. CASE Goto(s, "recheck") /\ UNCHANGED employee
  <2>1. /\ op' \in [Slots -> Op] /\ Others(s)
        /\ op'[s].pc = "recheck" /\ op'[s].employee = e /\ op'[s].user = op[s].user
        /\ op'[s].endpoint = op[s].endpoint /\ op'[s].target = op[s].target
    BY <1>1, <1>4 DEF Goto, AccessInv, TypeOK, Others, Op, Steps
  <2>2. employee'[e] # NULL
    BY <1>2, <1>4 DEF Exists
  <2>3. SlotOK(op[s])'
    BY <1>1, <1>2, <2>1, <2>2 DEF SlotOK, Exists, Targeted, Resetting
  <2> QED
    BY <1>4, <2>1, <2>3, RowsAlone DEF Link, StepOK, AccessInv, TypeOK
<1>5. CASE /\ employee[e].login = NULL
           /\ employee' = [employee EXCEPT ![e].login = op[s].user]
           /\ Enter(s, op[s], e, op[s].required) \/ Finish(s)
  <2> DEFINE row == [employee[e] EXCEPT !.login = op[s].user]
  <2>1. employee[e] \in EmployeeRow
    BY <1>2 DEF AccessInv, TypeOK, Exists
  <2>2. row \in EmployeeRow /\ row.login = op[s].user
    BY <1>1, <2>1 DEF EmployeeRow
  <2>3. op[s].required \in BOOLEAN
    BY <1>1 DEF Op
  <2>4. employee' = [employee EXCEPT ![e] = row]
    BY <1>5
  <2>5. /\ employee' \in [Employees -> EmployeeRow \cup {NULL}]
        /\ LinkedByEmail' /\ RowsGrow
        /\ employee'[e] # NULL /\ employee'[e].login = op[s].user
    <3> HIDE DEF e, row
    <3> QED
      BY <1>1, <1>2, <1>5, <2>2, <2>4, LoginWritten
  <2>6. op' \in [Slots -> Op] /\ Others(s) /\ SlotOK(op[s])'
    BY <1>1, <1>2, <1>5, <2>3, <2>5, EnterOK, FinishOK
  <2> QED
    BY <2>5, <2>6 DEF Link, StepOK, AccessInv, TypeOK
<1> QED
  BY <1>4, <1>5 DEF Link

LEMMA RecheckOK ==
    ASSUME AccessInv, NEW s \in Slots, Recheck(s)
    PROVE  StepOK(s)
<1>1. op[s] \in Op /\ op[s].user \in Users /\ Targeted(op[s])
  BY OpFacts DEF Recheck, At
<1>2. op[s].employee \in Employees /\ Exists(op[s].employee) /\ op[s].required \in BOOLEAN
  BY <1>1 DEF Recheck, At, AccessInv, SlotOK, Op
<1>3. op' \in [Slots -> Op] /\ Others(s) /\ SlotOK(op[s])'
  <2>1. CASE Finish(s)
    BY <2>1, FinishOK
  <2>2. CASE /\ employee[op[s].employee].login = op[s].user
             /\ Enter(s, op[s], op[s].employee, op[s].required)
    <3>1. employee'[op[s].employee] # NULL /\ employee'[op[s].employee].login = op[s].user
      BY <1>2, <2>2 DEF Recheck, Exists
    <3> QED
      BY <1>1, <1>2, <2>2, <3>1, EnterOK
  <2> QED
    BY <2>1, <2>2 DEF Recheck
<1> QED
  BY <1>3, RowsAlone DEF Recheck, StepOK, AccessInv, TypeOK

---------------------------------------------------------------------------
(* The endpoints *)

\* Past the guard.
LEMMA HandlerFacts ==
    ASSUME AccessInv, NEW s \in Slots,
           op[s].pc \notin {"idle", "match", "link", "recheck"}
    PROVE  /\ op[s] \in Op /\ op[s].user \in Users /\ Targeted(op[s])
           /\ Acting(op[s])
           /\ employee[op[s].employee] \in EmployeeRow
BY OpFacts DEF AccessInv, SlotOK, Acting, Exists, TypeOK

\* The rows are left alone and the slot ends.
LEMMA EndOK ==
    ASSUME AccessInv, NEW s \in Slots, Finish(s), UNCHANGED <<employee, crashes>>,
           password' \in [Users -> Passwords]
    PROVE  StepOK(s)
BY FinishOK, RowsAlone DEF StepOK, AccessInv, TypeOK

\* The rows are left alone and the slot goes on with a login and a target it knows.
LEMMA GoOnOK ==
    ASSUME AccessInv, NEW s \in Slots,
           op[s].pc \notin {"idle", "match", "link", "recheck"},
           NEW pc \in Resetting \cup {"setOwn", "clear", "setStatus"},
           NEW login \in Users \cup {NULL},
           op' = [op EXCEPT ![s].pc = pc, ![s].login = login],
           pc \in Resetting \cup {"setStatus"} =>
               op[s].target \in Employees /\ Exists(op[s].target),
           pc \in {"setTemporary", "markReset"} =>
               login \in Users /\ UserEmail[login] = EmailOf[op[s].target],
           pc \in {"setOwn", "clear"} => login \in Users,
           UNCHANGED <<employee, crashes>>,
           password' \in [Users -> Passwords]
    PROVE  StepOK(s)
<1>1. /\ op[s] \in Op /\ op[s].user \in Users /\ Targeted(op[s]) /\ Acting(op[s])
  BY HandlerFacts
<1>2. /\ op' \in [Slots -> Op] /\ Others(s)
      /\ op'[s].pc = pc /\ op'[s].login = login
      /\ op'[s].user = op[s].user /\ op'[s].employee = op[s].employee
      /\ op'[s].endpoint = op[s].endpoint /\ op'[s].target = op[s].target
  BY <1>1 DEF AccessInv, TypeOK, Others, Op, Steps, Resetting
<1>3. Targeted(op[s])' /\ Acting(op[s])'
  BY <1>1, <1>2 DEF Targeted, Acting, Exists
<1>4. SlotOK(op[s])'
  BY <1>1, <1>2, <1>3 DEF SlotOK, Exists, Resetting
<1> QED
  BY <1>2, <1>4, RowsAlone DEF StepOK, AccessInv, TypeOK

\* Writing a row without a change of the login, or one where none was.
LEMMA RowWritten ==
    ASSUME AccessInv, NEW s \in Slots, NEW e \in Employees, NEW row \in EmployeeRow,
           employee' = [employee EXCEPT ![e] = row],
           row.login = (IF Exists(e) THEN employee[e].login ELSE NULL),
           Finish(s), UNCHANGED <<password, crashes>>
    PROVE  StepOK(s)
<1>1. row # NULL
  BY AccessAssumption DEF EmployeeRow
<1>2. /\ employee' \in [Employees -> EmployeeRow \cup {NULL}]
      /\ employee'[e] = row
      /\ \A f \in Employees \ {e} : employee'[f] = employee[f]
  BY DEF AccessInv, TypeOK
<1>3. LinkedByEmail'
  BY <1>2 DEF AccessInv, LinkedByEmail, Exists
<1>4. RowsGrow
  BY <1>1, <1>2 DEF RowsGrow, Exists
<1> QED
  BY <1>2, <1>3, <1>4, FinishOK DEF StepOK, AccessInv, TypeOK

LEMMA CreateEmployeeOK ==
    ASSUME AccessInv, NEW s \in Slots, CreateEmployee(s)
    PROVE  StepOK(s)
<1>1. op[s].target \in Employees
  BY HandlerFacts DEF CreateEmployee, Handles, Targeted
<1>2. CASE UNCHANGED employee
  BY <1>2, EndOK DEF CreateEmployee, AccessInv, TypeOK
<1>3. CASE /\ ~Exists(op[s].target)
           /\ employee' = [employee EXCEPT ![op[s].target] = NewEmployee]
  <2>1. NewEmployee \in EmployeeRow /\ NewEmployee.login = NULL
    BY DEF NewEmployee, EmployeeRow
  <2> QED
    BY <1>1, <1>3, <2>1, RowWritten DEF CreateEmployee
<1> QED
  BY <1>2, <1>3 DEF CreateEmployee

LEMMA ResetReadOK ==
    ASSUME AccessInv, NEW s \in Slots, ResetRead(s)
    PROVE  StepOK(s)
<1> DEFINE t == op[s].target
<1>1. op[s] \in Op /\ t \in Employees
  BY HandlerFacts DEF ResetRead, Handles, Targeted
<1>2. CASE Finish(s)
  BY <1>2, EndOK DEF ResetRead, AccessInv, TypeOK
<1>3. ASSUME Exists(t),
             op' = [op EXCEPT ![s].pc    = IF employee[t].login = NULL
                                           THEN "lookUp" ELSE "setTemporary",
                              ![s].login = employee[t].login]
      PROVE  StepOK(s)
  <2>1. employee[t].login \in Users \cup {NULL}
    BY <1>1, <1>3 DEF AccessInv, TypeOK, EmployeeRow, Exists
  <2>2. employee[t].login # NULL => UserEmail[employee[t].login] = EmailOf[t]
    BY <1>1, <1>3 DEF AccessInv, LinkedByEmail
  <2>3. CASE employee[t].login = NULL
    <3>1. op' = [op EXCEPT ![s].pc = "lookUp", ![s].login = NULL]
      BY <1>3, <2>3
    <3>2. /\ op[s].pc = "handle" /\ UNCHANGED <<employee, crashes>>
          /\ password' \in [Users -> Passwords]
      BY DEF ResetRead, Handles, AccessInv, TypeOK
    <3>3. op[s].pc \notin {"idle", "match", "link", "recheck"}
      BY <3>2
    <3>4. \A pc \in {"lookUp"} :
             /\ pc \in Resetting
             /\ pc \notin {"setTemporary", "markReset", "setOwn", "clear"}
             /\ op' = [op EXCEPT ![s].pc = pc, ![s].login = NULL]
      BY <3>1 DEF Resetting
    <3> QED
      BY <1>1, <1>3, <3>2, <3>3, <3>4, GoOnOK
  <2>4. CASE employee[t].login # NULL
    <3>1. op' = [op EXCEPT ![s].pc = "setTemporary", ![s].login = employee[t].login]
      BY <1>3, <2>4
    <3> QED
      BY <1>1, <1>3, <2>1, <2>2, <2>4, <3>1, GoOnOK
      DEF ResetRead, Handles, Resetting, AccessInv, TypeOK
  <2> QED
    BY <2>3, <2>4
<1> QED
  BY <1>2, <1>3 DEF ResetRead

LEMMA LookUpOK ==
    ASSUME AccessInv, NEW s \in Slots, LookUp(s)
    PROVE  StepOK(s)
<1>1. op[s].target \in Employees /\ Exists(op[s].target)
  BY DEF LookUp, At, AccessInv, SlotOK, Resetting
<1>2. PICK u \in Users :
         /\ UserEmail[u] = EmailOf[op[s].target]
         /\ op' = [op EXCEPT ![s].pc = "setTemporary", ![s].login = u]
  BY DEF LookUp
<1> QED
  BY <1>1, <1>2, GoOnOK DEF LookUp, At, Resetting, AccessInv, TypeOK

\* A slot that only moves on keeps its login.
LEMMA GotoKeepsLogin ==
    ASSUME AccessInv, NEW s \in Slots, NEW pc, Goto(s, pc)
    PROVE  op' = [op EXCEPT ![s].pc = pc, ![s].login = op[s].login]
<1>1. op[s] \in Op
  BY DEF AccessInv, TypeOK
<1>2. [op[s] EXCEPT !.pc = pc] = [op[s] EXCEPT !.pc = pc, !.login = op[s].login]
  BY <1>1 DEF Op
<1> QED
  BY <1>2 DEF Goto

LEMMA SetTemporaryOK ==
    ASSUME AccessInv, NEW s \in Slots, SetTemporary(s)
    PROVE  StepOK(s)
<1>1. /\ op[s].target \in Employees /\ Exists(op[s].target)
      /\ op[s].login \in Users /\ UserEmail[op[s].login] = EmailOf[op[s].target]
  BY DEF SetTemporary, At, AccessInv, SlotOK, Resetting
<1>2. password' \in [Users -> Passwords]
  BY DEF SetTemporary, AccessInv, TypeOK, Passwords
<1>3. CASE Goto(s, "markReset")
  <2>1. op' = [op EXCEPT ![s].pc = "markReset", ![s].login = op[s].login]
    BY <1>3, GotoKeepsLogin
  <2> QED
    BY <1>1, <1>2, <2>1, GoOnOK DEF SetTemporary, At, Resetting
<1>4. CASE Finish(s)
  BY <1>2, <1>4, EndOK DEF SetTemporary
<1> QED
  BY <1>3, <1>4 DEF SetTemporary

\* The login a reset writes back is the one the row holds by now, if it holds any.
LoginsHeld ==
    \A s \in Slots :
        op[s].pc = "markReset" /\ employee[op[s].target].login # NULL =>
            employee[op[s].target].login = op[s].login

\* Two accounts with the email of one employee are one.
LEMMA UniqueEmailsHold ==
    ASSUME EmailsUnique, AccessInv
    PROVE  LoginsHeld
<1> SUFFICES ASSUME NEW s \in Slots, op[s].pc = "markReset",
                    employee[op[s].target].login # NULL
             PROVE  employee[op[s].target].login = op[s].login
  BY DEF LoginsHeld
<1>1. PICK t, u : t = op[s].target /\ u = op[s].login
  OBVIOUS
<1>2. t \in Employees /\ Exists(t) /\ u \in Users /\ UserEmail[u] = EmailOf[t]
  BY <1>1 DEF AccessInv, SlotOK, Resetting
<1>3. employee[t].login \in Users
  BY <1>1, <1>2 DEF AccessInv, TypeOK, EmployeeRow, Exists
<1>4. UserEmail[employee[t].login] = EmailOf[t] /\ EmailOf[t] # NULL
  BY <1>1, <1>2, AccessAssumption DEF AccessInv, LinkedByEmail
<1> QED
  BY <1>1, <1>2, <1>3, <1>4 DEF EmailsUnique

LEMMA MarkResetOK ==
    ASSUME LoginsHeld, AccessInv, NEW s \in Slots, MarkReset(s)
    PROVE  StepOK(s)
<1> DEFINE t == op[s].target
           u == op[s].login
           row == [employee[t] EXCEPT !.login = u, !.reset = TRUE]
<1>1. t \in Employees /\ Exists(t) /\ u \in Users /\ UserEmail[u] = EmailOf[t]
  BY DEF MarkReset, At, AccessInv, SlotOK, Resetting
<1>2. employee[t] \in EmployeeRow
  BY <1>1 DEF AccessInv, TypeOK, Exists
<1>3. row \in EmployeeRow /\ row.login = u
  BY <1>1, <1>2 DEF EmployeeRow
<1>4. employee' = [employee EXCEPT ![t] = row]
  BY DEF MarkReset
<1>5. employee[t].login # NULL => employee[t].login = u
  BY DEF MarkReset, At, LoginsHeld
<1>6. /\ employee' \in [Employees -> EmployeeRow \cup {NULL}]
      /\ LinkedByEmail' /\ RowsGrow
  <2> HIDE DEF t, u, row
  <2> QED
    BY <1>1, <1>3, <1>4, <1>5, LoginWritten
<1>7. password' \in [Users -> Passwords]
  BY DEF MarkReset, HandOut, AccessInv, TypeOK, Passwords
<1> QED
  BY <1>6, <1>7, FinishOK DEF MarkReset, StepOK, AccessInv, TypeOK

LEMMA CompleteReadOK ==
    ASSUME AccessInv, NEW s \in Slots, CompleteRead(s)
    PROVE  StepOK(s)
<1> DEFINE login == employee[op[s].employee].login
<1>1. CASE Finish(s)
  BY <1>1, EndOK DEF CompleteRead, AccessInv, TypeOK
<1>2. CASE /\ login # NULL
           /\ op' = [op EXCEPT ![s].pc = "setOwn", ![s].login = login]
  <2>1. login \in Users
    BY <1>2, HandlerFacts DEF CompleteRead, Handles, EmployeeRow
  <2> QED
    BY <1>2, <2>1, GoOnOK DEF CompleteRead, Handles, Resetting, AccessInv, TypeOK
<1> QED
  BY <1>1, <1>2 DEF CompleteRead

LEMMA SetOwnOK ==
    ASSUME AccessInv, NEW s \in Slots, SetOwn(s)
    PROVE  StepOK(s)
<1>1. op[s].login \in Users
  BY DEF SetOwn, At, AccessInv, SlotOK
<1>2. password' \in [Users -> Passwords]
  BY DEF SetOwn, AccessInv, TypeOK, Passwords
<1>3. CASE Goto(s, "clear")
  <2>1. op' = [op EXCEPT ![s].pc = "clear", ![s].login = op[s].login]
    BY <1>3, GotoKeepsLogin
  <2> QED
    BY <1>1, <1>2, <2>1, GoOnOK DEF SetOwn, At, Resetting
<1>4. CASE Finish(s)
  BY <1>2, <1>4, EndOK DEF SetOwn
<1> QED
  BY <1>3, <1>4 DEF SetOwn

LEMMA ClearResetOK ==
    ASSUME AccessInv, NEW s \in Slots, ClearReset(s)
    PROVE  StepOK(s)
<1> DEFINE e == op[s].employee
           row == [employee[e] EXCEPT !.reset = FALSE]
<1>1. e \in Employees /\ Exists(e) /\ employee[e] \in EmployeeRow
  BY HandlerFacts DEF ClearReset, At, Acting
<1>2. row \in EmployeeRow /\ row.login = employee[e].login
  BY <1>1 DEF EmployeeRow
<1>3. employee' = [employee EXCEPT ![e] = row] /\ Finish(s) /\ UNCHANGED <<password, crashes>>
  BY DEF ClearReset
<1> HIDE DEF e, row
<1> QED
  BY <1>1, <1>2, <1>3, RowWritten

LEMMA StatusReadOK ==
    ASSUME AccessInv, NEW s \in Slots, StatusRead(s)
    PROVE  StepOK(s)
<1>1. op[s] \in Op /\ op[s].target \in Employees
  BY HandlerFacts DEF StatusRead, Handles, Targeted
<1>2. CASE Finish(s)
  BY <1>2, EndOK DEF StatusRead, AccessInv, TypeOK
<1>3. CASE Exists(op[s].target) /\ Goto(s, "setStatus")
  <2>1. op' = [op EXCEPT ![s].pc = "setStatus", ![s].login = op[s].login]
    BY <1>3, GotoKeepsLogin
  <2>2. op[s].login \in Users \cup {NULL}
    BY <1>1 DEF Op
  <2>3. \A pc \in {"setStatus"} :
           /\ pc \notin {"setTemporary", "markReset", "setOwn", "clear"}
           /\ op' = [op EXCEPT ![s].pc = pc, ![s].login = op[s].login]
    BY <2>1
  <2> QED
    BY <1>1, <1>3, <2>2, <2>3, GoOnOK DEF StatusRead, Handles, AccessInv, TypeOK
<1> QED
  BY <1>2, <1>3 DEF StatusRead

LEMMA SetStatusOK ==
    ASSUME AccessInv, NEW s \in Slots, SetStatus(s)
    PROVE  StepOK(s)
<1> DEFINE e == op[s].target
           row == [employee[e] EXCEPT !.active = op[s].on]
<1>1. e \in Employees /\ Exists(e) /\ employee[e] \in EmployeeRow
  BY DEF SetStatus, At, AccessInv, SlotOK, TypeOK, Exists
<1>2. op[s].on \in BOOLEAN
  BY DEF AccessInv, TypeOK, Op
<1>3. row \in EmployeeRow /\ row.login = employee[e].login
  BY <1>1, <1>2 DEF EmployeeRow
<1>4. employee' = [employee EXCEPT ![e] = row] /\ Finish(s) /\ UNCHANGED <<password, crashes>>
  BY DEF SetStatus
<1> HIDE DEF e, row
<1> QED
  BY <1>1, <1>3, <1>4, RowWritten

---------------------------------------------------------------------------
LEMMA ArriveOK ==
    ASSUME AccessInv, NEW s \in Slots, Arrive(s)
    PROVE  StepOK(s)
<1>1. PICK u \in Users, endpoint \in Endpoints, target \in Employees \cup {NULL},
           on \in BOOLEAN :
         /\ endpoint \in {"reset", "status", "create"} => target \in Employees
         /\ Find(s, u, endpoint, target, on)
  BY DEF Arrive, Endpoints
<1> QED
  BY <1>1, FindOK

LEMMA HandleOK ==
    ASSUME LoginsHeld, AccessInv, NEW s \in Slots, Handle(s)
    PROVE  StepOK(s)
<1>1. CASE End(s)
  BY <1>1, EndOK DEF End, AccessInv, TypeOK
<1> QED
  BY <1>1, CreateEmployeeOK, ResetReadOK, LookUpOK, SetTemporaryOK, MarkResetOK,
     CompleteReadOK, SetOwnOK, ClearResetOK, StatusReadOK, SetStatusOK
  DEF Handle

LEMMA InitOK ==
    ASSUME Init
    PROVE  AccessInv
<1>1. NewEmployee \in EmployeeRow /\ NewEmployee.login = NULL
  BY DEF NewEmployee, EmployeeRow
<1>2. TypeOK
  BY <1>1, IdleOK, AccessAssumption DEF Init, TypeOK, Passwords
<1>3. LinkedByEmail
  BY <1>1 DEF Init, LinkedByEmail, Exists
<1>4. ASSUME NEW s \in Slots PROVE SlotOK(op[s])
  BY <1>4, IdleOK DEF Init, SlotOK, Resetting
<1> QED
  BY <1>2, <1>3, <1>4 DEF AccessInv

LEMMA NextOK ==
    ASSUME LoginsHeld, AccessInv, [Next]_vars
    PROVE  AccessInv' /\ RowsGrow
<1>1. ASSUME NEW s \in Slots, Arrive(s) \/ Guard(s) \/ Handle(s)
      PROVE  AccessInv' /\ RowsGrow
  <2>1. StepOK(s)
    BY <1>1, ArriveOK, MatchOK, LinkOK, RecheckOK, HandleOK DEF Guard
  <2> QED
    BY <2>1, StepKeepsInv
<1>2. ASSUME UNCHANGED <<employee, op, crashes>>,
             password' \in [Users -> Passwords]
      PROVE  AccessInv' /\ RowsGrow
  <2>1. \A s \in Slots : SlotOK(op[s])'
    BY <1>2 DEF AccessInv, SlotOK, Acting, Exists, Targeted
  <2> QED
    BY <1>2, <2>1, RowsAlone DEF AccessInv, TypeOK
<1>3. ASSUME NEW u \in Users, ChangeOwn(u)
      PROVE  AccessInv' /\ RowsGrow
  <2>1. password' \in [Users -> Passwords]
    BY <1>3 DEF ChangeOwn, AccessInv, TypeOK, Passwords
  <2> QED
    BY <1>2, <1>3, <2>1 DEF ChangeOwn
<1>4. CASE UNCHANGED vars
  <2>1. password' \in [Users -> Passwords]
    BY <1>4 DEF vars, AccessInv, TypeOK
  <2> QED
    BY <1>2, <1>4, <2>1 DEF vars
<1>5. CASE Crash
  <2>1. crashes' \in 0..MaxCrashes
    BY <1>5, AccessAssumption DEF Crash, AccessInv, TypeOK
  <2>2. TypeOK'
    BY <1>5, <2>1, IdleOK DEF Crash, AccessInv, TypeOK
  <2>3. ASSUME NEW s \in Slots PROVE SlotOK(op[s])'
    <3>1. op'[s] = IdleOp
      BY <1>5 DEF Crash
    <3> QED
      BY <3>1, IdleOK DEF SlotOK, Resetting
  <2> QED
    BY <1>5, <2>2, <2>3, RowsAlone DEF Crash, AccessInv
<1> QED
  BY <1>1, <1>3, <1>4, <1>5 DEF Next

---------------------------------------------------------------------------
LEMMA AccessInvariance ==
    ASSUME EmailsUnique
    PROVE  Spec => []AccessInv
<1>1. Init => AccessInv
  BY InitOK
<1>2. AccessInv /\ [Next]_vars => AccessInv'
  BY NextOK, UniqueEmailsHold
<1> QED
  BY <1>1, <1>2, PTL DEF Spec

\* Employees, passwords and the requests in flight keep their types.
THEOREM AccessTypes ==
    ASSUME EmailsUnique
    PROVE  Spec => []TypeOK
<1>1. AccessInv => TypeOK
  BY DEF AccessInv
<1> QED
  BY <1>1, AccessInvariance, PTL

\* Whatever first requests, resets and crashes interleave: past the guard a request
\* acts for the employee its token is linked to (resolveEmployeeIdentity).
THEOREM RequestsActForLinked ==
    ASSUME EmailsUnique
    PROVE  Spec => []ActsForLinkedEmployee
<1>1. AccessInv => ActsForLinkedEmployee
  BY DEF AccessInv, SlotOK, Acting, ActsForLinkedEmployee
<1> QED
  BY <1>1, AccessInvariance, PTL

\* The login of an employee, once stored, is never replaced (docs/SECURITY.md:5),
\* also not by resetEmployeePassword, which writes back one it found earlier.
THEOREM LinksAreKept ==
    ASSUME EmailsUnique
    PROVE  Spec => LinkKept
<1>1. AccessInv /\ [Next]_vars =>
          [\A e \in Employees :
              Exists(e) /\ employee[e].login # NULL =>
                  employee'[e] # NULL /\ employee'[e].login = employee[e].login]_vars
  BY NextOK, UniqueEmailsHold DEF RowsGrow
<1> QED
  BY <1>1, AccessInvariance, PTL DEF Spec, LinkKept

---------------------------------------------------------------------------
(* Requests one at a time.  Two Supabase users may share an email here, and   *)
(* employees of several organisations.                                        *)

\* What the one request in flight has read still holds.
SerialSlot(o) ==
    /\ o.pc \notin {"idle", "match"} => employee[o.employee].active
    /\ o.pc \notin {"idle", "match", "link", "recheck"} =>
           (o.endpoint \in {"reset", "status", "create"} => o.employee \in PeopleAdmins)
    /\ o.pc = "setStatus" => o.endpoint = "status" /\ (o.on \/ o.target # o.employee)
    /\ o.pc = "lookUp" => employee[o.target].login = NULL
    /\ o.pc \in {"setTemporary", "markReset"} =>
           employee[o.target].login \in {NULL, o.login}
    /\ o.pc \in {"setOwn", "clear"} => employee[o.employee].login = o.login
    /\ o.pc = "clear" => password[o.login] = "own"

SerialInv ==
    /\ OneAtATime
    /\ \A s \in Slots : SerialSlot(op[s])
    /\ IssuedIsFlagged

LEMMA SerialLoginsHeld ==
    ASSUME AccessInv, SerialInv
    PROVE  LoginsHeld
BY DEF SerialInv, SerialSlot, LoginsHeld

\* The other slots are idle, or nothing they have read changes.
LEMMA SerialParts ==
    ASSUME AccessInv, SerialInv, OneAtATime', NEW s \in Slots, Others(s),
           op[s].pc # "idle" \/ UNCHANGED <<employee, password>>,
           SerialSlot(op[s])', IssuedIsFlagged'
    PROVE  SerialInv'
<1>1. ASSUME NEW r \in Slots PROVE SerialSlot(op[r])'
  <2>1. CASE r = s
    BY <2>1
  <2>2. CASE r # s /\ op[r] = IdleOp
    <3>1. op'[r] = IdleOp
      BY <2>2 DEF Others
    <3> QED
      BY <3>1, IdleOK DEF SerialSlot, IdleOp
  <2>3. CASE r # s /\ op[r] # IdleOp
    <3>1. op[s] = IdleOp
      BY <2>3 DEF SerialInv, OneAtATime, Busy
    <3>2. UNCHANGED <<employee, password>>
      BY <3>1, IdleOK
    <3>3. op'[r] = op[r] /\ SerialSlot(op[r])
      BY <2>3 DEF Others, SerialInv
    <3> QED
      BY <3>2, <3>3 DEF SerialSlot
  <2> QED
    BY <2>1, <2>2, <2>3
<1> QED
  BY <1>1 DEF SerialInv

\* Logins that must change their password stay marked.
LEMMA FlagsStay ==
    ASSUME IssuedIsFlagged,
           \A u \in Users : password'[u] = "issued" => password[u] = "issued",
           \A e \in Employees :
               /\ Exists(e) /\ employee[e].reset /\ employee[e].login \in Users
               /\ password'[employee[e].login] = "issued"
               => /\ Exists(e)' /\ employee'[e].reset
                  /\ employee'[e].login = employee[e].login
    PROVE  IssuedIsFlagged'
BY DEF IssuedIsFlagged

\* A step that writes no row and no password.
LEMMA SerialQuiet ==
    ASSUME AccessInv, SerialInv, OneAtATime', NEW s \in Slots, Others(s),
           UNCHANGED <<employee, password>>, SerialSlot(op[s])'
    PROVE  SerialInv'
<1>1. IssuedIsFlagged'
  BY FlagsStay DEF SerialInv, Exists
<1> QED
  BY <1>1, SerialParts

\* The end of the guard, for an active employee.
LEMMA SerialEnter ==
    ASSUME AccessInv, NEW s \in Slots, NEW o \in Op, NEW e \in Employees,
           NEW required \in BOOLEAN, Enter(s, o, e, required), employee'[e].active
    PROVE  SerialSlot(op[s])'
<1>1. PICK n : n = [o EXCEPT !.pc = "handle", !.employee = e, !.required = required]
  OBVIOUS
<1>2. /\ n \in Op /\ n.pc = "handle" /\ n.employee = e /\ n.endpoint = o.endpoint
  BY <1>1 DEF Op, Steps
<1>3. CASE Admitted(o, e, required)
  <2>1. op'[s] = n
    BY <1>1, <1>3 DEF Enter, AccessInv, TypeOK
  <2> QED
    BY <1>2, <1>3, <2>1 DEF SerialSlot, Admitted
<1>4. CASE ~Admitted(o, e, required)
  <2>1. op'[s] = IdleOp
    BY <1>4 DEF Enter, AccessInv, TypeOK
  <2> QED
    BY <2>1, IdleOK DEF SerialSlot, IdleOp
<1> QED
  BY <1>3, <1>4

LEMMA FinishSerial ==
    ASSUME AccessInv, NEW s \in Slots, Finish(s)
    PROVE  SerialSlot(op[s])'
<1>1. op'[s] = IdleOp
  BY DEF Finish, AccessInv, TypeOK
<1> QED
  BY <1>1, IdleOK DEF SerialSlot, IdleOp

---------------------------------------------------------------------------
\* The request of slot s goes on with another pc and login.
GoOn(s, pc, login) == op' = [op EXCEPT ![s].pc = pc, ![s].login = login]

\* What a slot keeps that goes on.
LEMMA GoOnSerial ==
    ASSUME AccessInv, NEW s \in Slots, NEW pc \in Steps, NEW login, GoOn(s, pc, login)
    PROVE  /\ op'[s].pc = pc /\ op'[s].login = login
           /\ op'[s].employee = op[s].employee /\ op'[s].endpoint = op[s].endpoint
           /\ op'[s].target = op[s].target /\ op'[s].on = op[s].on
BY DEF GoOn, AccessInv, TypeOK, Op

\* What the request of a slot has read, past the guard.
LEMMA ActingActive ==
    ASSUME AccessInv, SerialInv, NEW s \in Slots,
           op[s].pc \notin {"idle", "match", "link", "recheck"}
    PROVE  /\ employee[op[s].employee].active
           /\ op[s].endpoint \in {"reset", "status", "create"} =>
                  op[s].employee \in PeopleAdmins
BY DEF SerialInv, SerialSlot

(* The guard *)

LEMMA FindSerial ==
    ASSUME AccessInv, SerialInv, OneAtATime', NEW s \in Slots, Arrive(s)
    PROVE  SerialInv'
<1>1. PICK u \in Users, endpoint \in Endpoints, target \in Employees \cup {NULL},
           on \in BOOLEAN : Find(s, u, endpoint, target, on)
  BY DEF Arrive, Endpoints
<1>2. PICK o : o = Request(u, endpoint, target, on)
  OBVIOUS
<1>3. o \in Op
  BY <1>2, IdleOK DEF Request, IdleOp, Op, Steps
<1>4. SerialSlot(op[s])'
  <2>1. ASSUME NEW e \in Employees, Exists(e), employee[e].active,
               Enter(s, o, e, employee[e].reset)
        PROVE  SerialSlot(op[s])'
    <3>1. employee[e].reset \in BOOLEAN
      BY <2>1 DEF AccessInv, TypeOK, EmployeeRow, Exists
    <3>2. employee'[e].active
      BY <1>1, <2>1 DEF Find
    <3> QED
      BY <1>3, <2>1, <3>1, <3>2, SerialEnter
  <2>2. CASE op' = [op EXCEPT ![s] = [o EXCEPT !.pc = "match"]]
    <3>1. op'[s].pc = "match"
      BY <1>3, <2>2 DEF AccessInv, TypeOK, Op
    <3> QED
      BY <3>1 DEF SerialSlot
  <2> QED
    BY <1>1, <1>2, <2>1, <2>2 DEF Find
<1> QED
  BY <1>1, <1>4, ArriveOK, SerialQuiet DEF StepOK, Find, At

LEMMA MatchSerial ==
    ASSUME AccessInv, SerialInv, OneAtATime', NEW s \in Slots, Match(s)
    PROVE  SerialInv'
<1>1. op[s] \in Op
  BY OpFacts DEF Match, At
<1>2. SerialSlot(op[s])'
  <2>1. CASE Finish(s)
    BY <2>1, FinishSerial
  <2>2. ASSUME NEW e \in Employees, Matches(op[s].user) = {e}, ~Finish(s)
        PROVE  SerialSlot(op[s])'
    <3>1. Exists(e) /\ employee[e].active /\ employee'[e].active
      BY <2>2 DEF Matches, Match
    <3>2. employee[e].reset \in BOOLEAN
      BY <3>1 DEF AccessInv, TypeOK, EmployeeRow, Exists
    <3>3. CASE Enter(s, op[s], e, employee[e].reset)
      BY <1>1, <3>1, <3>2, <3>3, SerialEnter
    <3>4. CASE op' = [op EXCEPT ![s].pc       = "link",
                                ![s].employee = e,
                                ![s].required = employee[e].reset]
      <4>1. op'[s].pc = "link" /\ op'[s].employee = e
        BY <1>1, <3>4 DEF AccessInv, TypeOK, Op
      <4> QED
        BY <3>1, <4>1 DEF SerialSlot
    <3> QED
      BY <2>2, <3>3, <3>4 DEF Match
  <2> QED
    BY <2>1, <2>2 DEF Match
<1> QED
  BY <1>2, MatchOK, SerialQuiet DEF StepOK, Match, At

\* A row is written that was there.
LEMMA SerialRow ==
    ASSUME AccessInv, NEW e \in Employees, NEW row \in EmployeeRow,
           employee' = [employee EXCEPT ![e] = row]
    PROVE  /\ employee'[e] = row /\ row # NULL
           /\ \A f \in Employees \ {e} : employee'[f] = employee[f]
BY AccessAssumption DEF AccessInv, TypeOK, EmployeeRow

LEMMA LinkSerial ==
    ASSUME AccessInv, SerialInv, OneAtATime', NEW s \in Slots, Link(s)
    PROVE  SerialInv'
<1>1. PICK e, u : e = op[s].employee /\ u = op[s].user
  OBVIOUS
<1>2. op[s] \in Op /\ u \in Users /\ u # NULL /\ op[s].required \in BOOLEAN
  BY <1>1, OpFacts DEF Link, At, Op
<1>3. op[s].pc = "link" /\ e \in Employees /\ Exists(e) /\ employee[e].active
  BY <1>1 DEF Link, At, AccessInv, SlotOK, SerialInv, SerialSlot
<1>4. Others(s)
  BY LinkOK DEF StepOK
<1>6. CASE Goto(s, "recheck") /\ UNCHANGED employee
  <2>1. op'[s].pc = "recheck" /\ op'[s].employee = e
    BY <1>1, <1>2, <1>6 DEF Goto, AccessInv, TypeOK, Op
  <2>2. SerialSlot(op[s])'
    BY <1>3, <1>6, <2>1 DEF SerialSlot
  <2> QED
    BY <1>3, <1>4, <1>6, <2>2, SerialQuiet DEF Link
<1>7. CASE /\ employee[e].login = NULL
           /\ employee' = [employee EXCEPT ![e].login = u]
           /\ Enter(s, op[s], e, op[s].required) \/ Finish(s)
  <2>1. PICK row : row = [employee[e] EXCEPT !.login = u]
    OBVIOUS
  <2>2. /\ row \in EmployeeRow /\ row.active /\ row.login = u
        /\ row.reset = employee[e].reset
    BY <1>2, <1>3, <2>1 DEF AccessInv, TypeOK, Exists, EmployeeRow
  <2>3. employee' = [employee EXCEPT ![e] = row]
    BY <1>7, <2>1
  <2>4. /\ employee'[e] = row /\ row # NULL
        /\ \A f \in Employees \ {e} : employee'[f] = employee[f]
    BY <1>3, <2>2, <2>3, SerialRow
  <2>5. SerialSlot(op[s])'
    BY <1>2, <1>3, <1>7, <2>2, <2>4, SerialEnter, FinishSerial
  <2>6. IssuedIsFlagged'
    <3>1. employee[e].login \notin Users
      BY <1>7, AccessAssumption
    <3>2. ASSUME NEW f \in Employees, Exists(f), employee[f].reset,
                 employee[f].login \in Users
          PROVE  /\ Exists(f)' /\ employee'[f].reset
                 /\ employee'[f].login = employee[f].login
      BY <2>4, <3>1, <3>2 DEF Exists
    <3> QED
      BY <3>2, FlagsStay DEF Link, SerialInv
  <2> QED
    BY <1>3, <1>4, <2>5, <2>6, SerialParts
<1> QED
  BY <1>1, <1>6, <1>7 DEF Link

LEMMA RecheckSerial ==
    ASSUME AccessInv, SerialInv, OneAtATime', NEW s \in Slots, Recheck(s)
    PROVE  SerialInv'
<1>1. op[s] \in Op /\ op[s].required \in BOOLEAN
  BY OpFacts DEF Recheck, At, Op
<1>2. op[s].employee \in Employees /\ employee'[op[s].employee].active
  BY DEF Recheck, At, AccessInv, SlotOK, SerialInv, SerialSlot
<1>3. SerialSlot(op[s])'
  BY <1>1, <1>2, SerialEnter, FinishSerial DEF Recheck
<1> QED
  BY <1>3, RecheckOK, SerialQuiet DEF StepOK, Recheck, At

---------------------------------------------------------------------------
(* The endpoints *)

\* A request that ends without a change.
LEMMA EndSerial ==
    ASSUME AccessInv, SerialInv, OneAtATime', NEW s \in Slots, Finish(s),
           UNCHANGED <<employee, password>>
    PROVE  SerialInv'
BY FinishOK, FinishSerial, SerialQuiet

LEMMA ResetReadSerial ==
    ASSUME AccessInv, SerialInv, OneAtATime', NEW s \in Slots, ResetRead(s)
    PROVE  SerialInv'
<1>1. CASE Finish(s)
  BY <1>1, EndSerial DEF ResetRead, Handles
<1>2. CASE ~Finish(s)
  <2>1. PICK pc, login :
           /\ login = employee[op[s].target].login
           /\ pc = IF login = NULL THEN "lookUp" ELSE "setTemporary"
    OBVIOUS
  <2>2. GoOn(s, pc, login)
    BY <1>2, <2>1 DEF ResetRead, GoOn
  <2>3. pc \in Steps
    BY <2>1 DEF Steps
  <2>4. /\ op'[s].pc = pc /\ op'[s].login = login
        /\ op'[s].employee = op[s].employee /\ op'[s].endpoint = op[s].endpoint
        /\ op'[s].target = op[s].target
    BY ONLY <2>2, <2>3, AccessInv, s \in Slots, GoOnSerial
  <2>5. SerialSlot(op[s])'
    BY <2>1, <2>4, ActingActive DEF SerialSlot, ResetRead, Handles
  <2> QED
    BY <2>5, ResetReadOK, SerialQuiet DEF StepOK, ResetRead, Handles
<1> QED
  BY <1>1, <1>2

LEMMA LookUpSerial ==
    ASSUME AccessInv, SerialInv, OneAtATime', NEW s \in Slots, LookUp(s)
    PROVE  SerialInv'
<1>1. PICK u \in Users : GoOn(s, "setTemporary", u)
  BY DEF LookUp, GoOn
<1>2. /\ op'[s].pc = "setTemporary" /\ op'[s].login = u
      /\ op'[s].employee = op[s].employee /\ op'[s].endpoint = op[s].endpoint
      /\ op'[s].target = op[s].target
  <2>1. "setTemporary" \in Steps
    BY DEF Steps
  <2> QED
    BY ONLY <1>1, <2>1, AccessInv, s \in Slots, GoOnSerial
<1>3. employee[op[s].target].login = NULL
  BY DEF LookUp, At, SerialInv, SerialSlot
<1>4. SerialSlot(op[s])'
  BY <1>2, <1>3, ActingActive DEF SerialSlot, LookUp, At
<1> QED
  BY <1>4, LookUpOK, SerialQuiet DEF StepOK, LookUp, At

LEMMA CompleteReadSerial ==
    ASSUME AccessInv, SerialInv, OneAtATime', NEW s \in Slots, CompleteRead(s)
    PROVE  SerialInv'
<1>1. CASE Finish(s)
  BY <1>1, EndSerial DEF CompleteRead, Handles
<1>2. CASE ~Finish(s)
  <2>1. PICK login : login = employee[op[s].employee].login
    OBVIOUS
  <2>2. GoOn(s, "setOwn", login)
    BY <1>2, <2>1 DEF CompleteRead, GoOn
  <2>3. /\ op'[s].pc = "setOwn" /\ op'[s].login = login
        /\ op'[s].employee = op[s].employee /\ op'[s].endpoint = op[s].endpoint
    <3>1. "setOwn" \in Steps
      BY DEF Steps
    <3> QED
      BY ONLY <2>2, <3>1, AccessInv, s \in Slots, GoOnSerial
  <2>4. SerialSlot(op[s])'
    BY <2>1, <2>3, ActingActive DEF SerialSlot, CompleteRead, Handles
  <2> QED
    BY <2>4, CompleteReadOK, SerialQuiet DEF StepOK, CompleteRead, Handles
<1> QED
  BY <1>1, <1>2

LEMMA StatusReadSerial ==
    ASSUME AccessInv, SerialInv, OneAtATime', NEW s \in Slots, StatusRead(s)
    PROVE  SerialInv'
<1>1. CASE Finish(s)
  BY <1>1, EndSerial DEF StatusRead, Handles
<1>2. CASE Goto(s, "setStatus") /\ (op[s].on \/ op[s].target # op[s].employee)
  <2>1. GoOn(s, "setStatus", op[s].login)
    BY <1>2, GotoKeepsLogin DEF GoOn
  <2>2. /\ op'[s].pc = "setStatus"
        /\ op'[s].employee = op[s].employee /\ op'[s].endpoint = op[s].endpoint
        /\ op'[s].target = op[s].target /\ op'[s].on = op[s].on
    BY <2>1, GoOnSerial DEF Steps
  <2>3. SerialSlot(op[s])'
    BY <1>2, <2>2, ActingActive DEF SerialSlot, StatusRead, Handles
  <2> QED
    BY <2>3, StatusReadOK, SerialQuiet DEF StepOK, StatusRead, Handles
<1> QED
  BY <1>1, <1>2 DEF StatusRead

\* A new row is nobody's who must change a password.
LEMMA CreateSerial ==
    ASSUME AccessInv, SerialInv, OneAtATime', NEW s \in Slots, CreateEmployee(s)
    PROVE  SerialInv'
<1>1. PICK t : t = op[s].target
  OBVIOUS
<1>2. op[s].pc = "handle"
  BY DEF CreateEmployee, Handles
<1>3. ASSUME NEW e \in Employees, Exists(e)
      PROVE  Exists(e)' /\ employee'[e] = employee[e]
  BY <1>3 DEF CreateEmployee, AccessInv, TypeOK, Exists
<1>4. IssuedIsFlagged'
  BY <1>3, FlagsStay DEF CreateEmployee, SerialInv
<1> QED
  BY <1>2, <1>4, CreateEmployeeOK, FinishSerial, SerialParts DEF StepOK, CreateEmployee

LEMMA SetTemporarySerial ==
    ASSUME AccessInv, SerialInv, OneAtATime', NEW s \in Slots, SetTemporary(s)
    PROVE  SerialInv'
<1>1. op[s].pc = "setTemporary" /\ op[s].login \in Users
  BY DEF SetTemporary, At, AccessInv, SlotOK
<1>2. Others(s) /\ UNCHANGED employee
  BY SetTemporaryOK DEF StepOK, SetTemporary
<1>3. ASSUME Goto(s, "markReset") PROVE SerialSlot(op[s])'
  <2>1. PICK pc, login : pc = "markReset" /\ login = op[s].login
    OBVIOUS
  <2>2. pc \in Steps /\ GoOn(s, pc, login)
    <3>1. GoOn(s, "markReset", op[s].login)
      BY <1>3, GotoKeepsLogin DEF GoOn
    <3> QED
      BY <2>1, <3>1 DEF Steps, GoOn
  <2>3. /\ op'[s].pc = pc /\ op'[s].login = login
        /\ op'[s].employee = op[s].employee /\ op'[s].endpoint = op[s].endpoint
        /\ op'[s].target = op[s].target
    BY ONLY <2>2, AccessInv, s \in Slots, GoOnSerial
  <2> QED
    BY <1>1, <1>2, <2>1, <2>3, ActingActive DEF SerialInv, SerialSlot
<1>4. SerialSlot(op[s])'
  BY <1>3, FinishSerial DEF SetTemporary
<1>5. IssuedIsFlagged'
  <2>1. \A u \in Users : password'[u] = "issued" => password[u] = "issued"
    BY DEF SetTemporary, AccessInv, TypeOK
  <2> QED
    BY <1>2, <2>1, FlagsStay DEF SerialInv, Exists
<1> QED
  BY <1>1, <1>2, <1>4, <1>5, SerialParts

\* The password is handed out by the step that marks the row.
LEMMA MarkResetSerial ==
    ASSUME AccessInv, SerialInv, OneAtATime', NEW s \in Slots, MarkReset(s)
    PROVE  SerialInv'
<1>1. PICK t, u : t = op[s].target /\ u = op[s].login
  OBVIOUS
<1>2. op[s].pc = "markReset" /\ t \in Employees /\ Exists(t) /\ u \in Users
  BY <1>1 DEF MarkReset, At, AccessInv, SlotOK, Resetting
<1>3. employee[t].login \in {NULL, u}
  BY <1>1, <1>2 DEF SerialInv, SerialSlot
<1>4. PICK row : row = [employee[t] EXCEPT !.login = u, !.reset = TRUE]
  OBVIOUS
<1>5. row \in EmployeeRow /\ row.login = u /\ row.reset
  BY <1>2, <1>4 DEF AccessInv, TypeOK, Exists, EmployeeRow
<1>6. employee' = [employee EXCEPT ![t] = row]
  BY <1>1, <1>4 DEF MarkReset
<1>7. /\ employee'[t] = row /\ row # NULL
      /\ \A f \in Employees \ {t} : employee'[f] = employee[f]
  BY <1>2, <1>5, <1>6, SerialRow
<1>8. IssuedIsFlagged'
  <2> SUFFICES ASSUME NEW v \in Users, password'[v] = "issued"
               PROVE  \E e \in Employees :
                          Exists(e)' /\ employee'[e].login = v /\ employee'[e].reset
    BY DEF IssuedIsFlagged
  <2>1. CASE v = u
    BY <1>2, <1>5, <1>7, <2>1 DEF Exists
  <2>2. CASE v # u
    <3>1. password[v] = "issued"
      BY <1>1, <2>2 DEF MarkReset, HandOut, AccessInv, TypeOK
    <3>2. PICK e \in Employees : Exists(e) /\ employee[e].login = v /\ employee[e].reset
      BY <3>1 DEF SerialInv, IssuedIsFlagged
    <3>3. e # t
      BY <1>3, <2>2, <3>2, AccessAssumption
    <3> QED
      BY <1>7, <3>2, <3>3 DEF Exists
  <2> QED
    BY <2>1, <2>2
<1> QED
  BY <1>2, <1>8, SerialLoginsHeld, MarkResetOK, FinishSerial, SerialParts
  DEF StepOK, MarkReset

LEMMA SetOwnSerial ==
    ASSUME AccessInv, SerialInv, OneAtATime', NEW s \in Slots, SetOwn(s)
    PROVE  SerialInv'
<1>1. op[s].pc = "setOwn" /\ op[s].login \in Users
  BY DEF SetOwn, At, AccessInv, SlotOK
<1>2. Others(s) /\ UNCHANGED employee
  BY SetOwnOK DEF StepOK, SetOwn
<1>3. password' \in [Users -> Passwords] /\ password'[op[s].login] = "own"
  BY <1>1 DEF SetOwn, AccessInv, TypeOK, Passwords
<1>4. ASSUME Goto(s, "clear") PROVE SerialSlot(op[s])'
  <2>1. PICK pc, login : pc = "clear" /\ login = op[s].login
    OBVIOUS
  <2>2. pc \in Steps /\ GoOn(s, pc, login)
    <3>1. GoOn(s, "clear", op[s].login)
      BY <1>4, GotoKeepsLogin DEF GoOn
    <3> QED
      BY <2>1, <3>1 DEF Steps, GoOn
  <2>3. /\ op'[s].pc = pc /\ op'[s].login = login
        /\ op'[s].employee = op[s].employee /\ op'[s].endpoint = op[s].endpoint
        /\ op'[s].target = op[s].target
    BY ONLY <2>2, AccessInv, s \in Slots, GoOnSerial
  <2> QED
    BY <1>1, <1>2, <1>3, <2>1, <2>3, ActingActive DEF SerialInv, SerialSlot
<1>5. SerialSlot(op[s])'
  BY <1>4, FinishSerial DEF SetOwn
<1>6. IssuedIsFlagged'
  <2>1. \A u \in Users : password'[u] = "issued" => password[u] = "issued"
    BY DEF SetOwn, AccessInv, TypeOK
  <2> QED
    BY <1>2, <2>1, FlagsStay DEF SerialInv, Exists
<1> QED
  BY <1>1, <1>2, <1>5, <1>6, SerialParts

\* The mark is cleared of an account whose password is its own by now.
LEMMA ClearResetSerial ==
    ASSUME AccessInv, SerialInv, OneAtATime', NEW s \in Slots, ClearReset(s)
    PROVE  SerialInv'
<1>1. PICK e : e = op[s].employee
  OBVIOUS
<1>2. op[s].pc = "clear" /\ e \in Employees /\ Exists(e) /\ employee[e] \in EmployeeRow
  BY <1>1, HandlerFacts DEF ClearReset, At, Acting
<1>3. password[employee[e].login] = "own"
  BY <1>1, <1>2 DEF SerialInv, SerialSlot
<1>4. PICK row : row = [employee[e] EXCEPT !.reset = FALSE]
  OBVIOUS
<1>5. row \in EmployeeRow /\ employee' = [employee EXCEPT ![e] = row]
  BY <1>1, <1>2, <1>4 DEF ClearReset, EmployeeRow
<1>6. \A f \in Employees \ {e} : employee'[f] = employee[f]
  BY <1>2, <1>5, SerialRow
<1>7. IssuedIsFlagged'
  <2>1. UNCHANGED password
    BY DEF ClearReset
  <2>2. ASSUME NEW f \in Employees, Exists(f), password'[employee[f].login] = "issued"
        PROVE  Exists(f)' /\ employee'[f] = employee[f]
    BY <1>3, <1>6, <2>1, <2>2 DEF Exists
  <2> QED
    BY <2>1, <2>2, FlagsStay DEF SerialInv
<1> QED
  BY <1>2, <1>7, ClearResetOK, FinishSerial, SerialParts DEF StepOK, ClearReset

\* A row keeps its login and its mark.
LEMMA SetStatusSerial ==
    ASSUME AccessInv, SerialInv, OneAtATime', NEW s \in Slots, SetStatus(s)
    PROVE  SerialInv'
<1>1. PICK t : t = op[s].target
  OBVIOUS
<1>2. /\ op[s].pc = "setStatus" /\ t \in Employees
      /\ employee[t] \in EmployeeRow /\ op[s].on \in BOOLEAN
  BY <1>1 DEF SetStatus, At, AccessInv, SlotOK, TypeOK, Exists, Op
<1>3. PICK row : row = [employee[t] EXCEPT !.active = op[s].on]
  OBVIOUS
<1>4. /\ row \in EmployeeRow
      /\ row.login = employee[t].login /\ row.reset = employee[t].reset
      /\ employee' = [employee EXCEPT ![t] = row]
  BY <1>1, <1>2, <1>3 DEF SetStatus, EmployeeRow
<1>5. /\ employee'[t] = row /\ row # NULL
      /\ \A f \in Employees \ {t} : employee'[f] = employee[f]
  BY <1>2, <1>4, SerialRow
<1>6. IssuedIsFlagged'
  <2>1. ASSUME NEW f \in Employees, Exists(f), employee[f].reset
        PROVE  /\ Exists(f)' /\ employee'[f].reset
               /\ employee'[f].login = employee[f].login
    BY <1>4, <1>5, <2>1 DEF Exists
  <2> QED
    BY <2>1, FlagsStay DEF SetStatus, SerialInv
<1> QED
  BY <1>2, <1>6, SetStatusOK, FinishSerial, SerialParts DEF StepOK, SetStatus

LEMMA HandleSerial ==
    ASSUME AccessInv, SerialInv, OneAtATime', NEW s \in Slots, Handle(s)
    PROVE  SerialInv'
<1>1. CASE End(s)
  BY <1>1, EndSerial DEF End
<1> QED
  BY <1>1, CreateSerial, ResetReadSerial, LookUpSerial, SetTemporarySerial,
     MarkResetSerial, CompleteReadSerial, SetOwnSerial, ClearResetSerial,
     StatusReadSerial, SetStatusSerial
  DEF Handle

---------------------------------------------------------------------------
LEMMA SerialNext ==
    ASSUME AccessInv, SerialInv, OneAtATime', [Next]_vars
    PROVE  SerialInv'
<1>1. ASSUME NEW s \in Slots, Arrive(s) \/ Guard(s) \/ Handle(s)
      PROVE  SerialInv'
  BY <1>1, FindSerial, MatchSerial, LinkSerial, RecheckSerial, HandleSerial DEF Guard
<1>2. ASSUME UNCHANGED <<employee, op, crashes>>,
             \A u \in Users : password'[u] \in {password[u], "own"}
      PROVE  SerialInv'
  <2>1. ASSUME NEW s \in Slots PROVE SerialSlot(op[s])'
    <3>1. SerialSlot(op[s]) /\ (op[s].pc = "clear" => op[s].login \in Users)
      BY DEF SerialInv, AccessInv, SlotOK
    <3> QED
      BY <1>2, <3>1 DEF SerialSlot
  <2>2. IssuedIsFlagged'
    BY <1>2 DEF SerialInv, IssuedIsFlagged, Exists
  <2> QED
    BY <2>1, <2>2 DEF SerialInv
<1>3. CASE \E u \in Users : ChangeOwn(u)
  <2>1. \A u \in Users : password'[u] \in {password[u], "own"}
    BY <1>3 DEF ChangeOwn, AccessInv, TypeOK
  <2> QED
    BY <1>2, <1>3, <2>1 DEF ChangeOwn
<1>4. CASE UNCHANGED vars
  BY <1>2, <1>4 DEF vars
<1>5. CASE Crash
  <2>1. ASSUME NEW s \in Slots PROVE SerialSlot(op[s])'
    <3>1. op'[s] = IdleOp
      BY <1>5 DEF Crash
    <3> QED
      BY <3>1, IdleOK DEF SerialSlot, IdleOp
  <2>2. IssuedIsFlagged'
    BY <1>5 DEF Crash, SerialInv, IssuedIsFlagged, Exists
  <2> QED
    BY <2>1, <2>2 DEF SerialInv
<1> QED
  BY <1>1, <1>3, <1>4, <1>5 DEF Next

LEMMA SerialInitOK ==
    ASSUME Init
    PROVE  SerialInv
<1>1. \A s \in Slots : op[s] = IdleOp
  BY DEF Init
<1>2. OneAtATime /\ \A s \in Slots : SerialSlot(op[s])
  BY <1>1, IdleOK DEF OneAtATime, Busy, SerialSlot, IdleOp
<1>3. IssuedIsFlagged
  BY DEF Init, IssuedIsFlagged
<1> QED
  BY <1>2, <1>3 DEF SerialInv

SerialAccess == ~interleaved => AccessInv /\ SerialInv

\* While they are handled one at a time.
LEMMA SerialStep ==
    ASSUME SerialAccess, [ServedNext]_<<vars, interleaved>>, ~interleaved'
    PROVE  /\ ~interleaved /\ AccessInv /\ SerialInv /\ [Next]_vars
           /\ AccessInv' /\ SerialInv'
<1>1. ~interleaved /\ [Next]_vars /\ AccessInv /\ SerialInv
  BY DEF ServedNext, SerialAccess
<1>2. OneAtATime'
  BY <1>1 DEF ServedNext, SerialInv, OneAtATime, Busy, vars
<1> QED
  BY <1>1, <1>2, SerialLoginsHeld, NextOK, SerialNext

LEMMA SerialInvariance == ServedSpec => []SerialAccess
<1>1. ServedInit => SerialAccess
  BY InitOK, SerialInitOK DEF ServedInit, SerialAccess
<1>2. SerialAccess /\ [ServedNext]_<<vars, interleaved>> => SerialAccess'
  BY SerialStep DEF SerialAccess
<1> QED
  BY <1>1, <1>2, PTL DEF ServedSpec

\* Requests one at a time: where a temporary password that was handed out is in
\* force, its login belongs to an employee who must change it, whatever calls of
\* Supabase and transactions fail and wherever the process crashes
\* (resetEmployeePassword, completePasswordReset, workforce-employees-view.tsx:145).
THEOREM TemporaryPasswordsAreMarked == ServedSpec => []SerialIssuedIsFlagged
<1>1. SerialAccess => SerialIssuedIsFlagged
  BY DEF SerialAccess, SerialInv, SerialIssuedIsFlagged
<1> QED
  BY <1>1, SerialInvariance, PTL

---------------------------------------------------------------------------
(* The last administrator. *)

SomeAdminSeeded == Seeded \cap PeopleAdmins # {}

\* The administrator who suspends another stays active.
LEMMA SetStatusAdmin ==
    ASSUME AccessInv, SerialInv, NEW s \in Slots, SetStatus(s), AdministratorRemains
    PROVE  AdministratorRemains'
<1>1. PICK t, a : t = op[s].target /\ a = op[s].employee
  OBVIOUS
<1>2. op[s].pc = "setStatus" /\ t \in Employees /\ op[s].on \in BOOLEAN
  BY <1>1 DEF SetStatus, At, AccessInv, SlotOK, TypeOK, Op
<1>3. /\ a \in PeopleAdmins /\ a \in Employees /\ employee[a].active
      /\ op[s].on \/ t # a
  BY <1>1, <1>2, HandlerFacts, ActingActive DEF Acting, SerialInv, SerialSlot
<1>4. employee'[a].active
  BY <1>1, <1>2, <1>3, HandlerFacts DEF SetStatus, AccessInv, TypeOK, Acting, EmployeeRow
<1>5. Exists(a)'
  BY <1>1, <1>2, SetStatusOK, HandlerFacts DEF StepOK, RowsGrow, Acting, Exists
<1> QED
  BY <1>3, <1>4, <1>5 DEF AdministratorRemains

\* No other action makes an employee inactive.
LEMMA OtherRowsAdmin ==
    ASSUME AdministratorRemains,
           \A e \in Employees : Exists(e) /\ employee[e].active =>
                                    Exists(e)' /\ employee'[e].active
    PROVE  AdministratorRemains'
BY DEF AdministratorRemains, PeopleAdmins

\* A row that is written without its field active keeps it.
LEMMA ActiveKept ==
    ASSUME AccessInv, NEW s \in Slots, Link(s) \/ CreateEmployee(s) \/ MarkReset(s) \/ ClearReset(s)
    PROVE  \A e \in Employees : Exists(e) /\ employee[e].active => employee'[e].active
<1> SUFFICES ASSUME NEW e \in Employees, Exists(e), employee[e].active
             PROVE  employee'[e].active
  OBVIOUS
<1>1. employee \in [Employees -> EmployeeRow \cup {NULL}] /\ employee[e] \in EmployeeRow
  BY DEF AccessInv, TypeOK, Exists
<1>2. CASE Link(s)
  BY <1>1, <1>2 DEF Link, EmployeeRow
<1>3. CASE CreateEmployee(s)
  BY <1>1, <1>3 DEF CreateEmployee, NewEmployee
<1>4. CASE MarkReset(s)
  BY <1>1, <1>4 DEF MarkReset, EmployeeRow
<1>5. CASE ClearReset(s)
  BY <1>1, <1>5 DEF ClearReset, EmployeeRow
<1> QED
  BY <1>2, <1>3, <1>4, <1>5

LEMMA AdminNext ==
    ASSUME AccessInv, SerialInv, [Next]_vars, AdministratorRemains
    PROVE  AdministratorRemains'
<1>1. RowsGrow
  BY SerialLoginsHeld, NextOK
<1>2. \A e \in Employees : Exists(e) => Exists(e)'
  BY <1>1 DEF RowsGrow, Exists
<1>3. CASE UNCHANGED employee
  BY <1>2, <1>3, OtherRowsAdmin
<1>4. ASSUME NEW s \in Slots, SetStatus(s) PROVE AdministratorRemains'
  BY <1>4, SetStatusAdmin
<1>5. ASSUME NEW s \in Slots,
             Link(s) \/ CreateEmployee(s) \/ MarkReset(s) \/ ClearReset(s)
      PROVE  AdministratorRemains'
  BY <1>2, <1>5, ActiveKept, OtherRowsAdmin
<1>6. ASSUME NEW s \in Slots, Arrive(s) \/ Guard(s) \/ Handle(s)
      PROVE  AdministratorRemains'
  <2>1. CASE Arrive(s)
    BY <1>3, <2>1 DEF Arrive, Find
  <2>2. CASE Guard(s)
    BY <1>3, <1>5, <2>2 DEF Guard, Match, Recheck
  <2>3. CASE Handle(s)
    BY <1>3, <1>4, <1>5, <2>3
    DEF Handle, ResetRead, LookUp, SetTemporary, CompleteRead, SetOwn, StatusRead, End
  <2> QED
    BY <1>6, <2>1, <2>2, <2>3
<1> QED
  BY <1>3, <1>6 DEF Next, ChangeOwn, Crash, vars

\* Requests one at a time: whoever is suspended, someone active is left who can
\* administer people (updateEmployeeStatus, workforce.controller.ts:104).
THEOREM SomeoneCanAdminister ==
    ASSUME SomeAdminSeeded
    PROVE  ServedSpec => []SerialAdministratorRemains
<1>1. ServedInit => SerialAdministratorRemains
  <2> SUFFICES ASSUME Init PROVE AdministratorRemains
    BY DEF ServedInit, SerialAdministratorRemains
  <2>1. PICK e \in Seeded : e \in PeopleAdmins
    BY DEF SomeAdminSeeded
  <2>2. NewEmployee \in EmployeeRow /\ NewEmployee.active
    BY DEF NewEmployee, EmployeeRow
  <2>3. Exists(e) /\ employee[e].active
    BY <2>1, <2>2, AccessAssumption DEF Init, Exists, EmployeeRow
  <2> QED
    BY <2>1, <2>3 DEF AdministratorRemains
<1>2. SerialAccess /\ SerialAdministratorRemains /\ [ServedNext]_<<vars, interleaved>> =>
          SerialAdministratorRemains'
  BY SerialStep, AdminNext DEF SerialAdministratorRemains
<1> QED
  BY <1>1, <1>2, SerialInvariance, PTL DEF ServedSpec
=============================================================================
