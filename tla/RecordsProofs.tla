--------------------------- MODULE RecordsProofs ---------------------------
(***************************************************************************)
(* Proofs about Compensation, PilotReconciliation and the overview over     *)
(* them, for any number of profiles, days, pilots, runs, lines, employees   *)
(* and requests in flight.                                                  *)
(*                                                                         *)
(* CompletionNotMissed is inductive together with the types: whoever raises *)
(* the number of signed cycles still has to count them. The other invariants *)
(* need what a request holds between its queries: the number it has counted *)
(* (NumbersInv), the lines it has found ready (SignInv), the signed cycles   *)
(* it has found enough (CompletedInv), and the part of a response that has  *)
(* been read (ViewOK).                                                      *)
(***************************************************************************)
EXTENDS MobileOverview, TLAPS, FiniteSetTheorems, WellFoundedInduction

(* Compensation. A period is tested when its request is read and written whole
   (PeriodOK of the request in flight), so no race can turn one around. *)

\* A period that begins before it ends.
Sound(row) == row \in Period /\ row.from <= row.to

OpSound(op) ==
    \/ op = NoCompOp
    \/ /\ op \in CompOps
       /\ op.at = "audit" => op.id \in Profiles
       /\ Sound(op.row)

CompInv ==
    /\ profile \in [Profiles -> ProfileRow]
    /\ DOMAIN compOp = CompSlots
    /\ \A s \in CompSlots : OpSound(compOp[s])
    /\ PeriodsValid

LEMMA OpStep ==
    ASSUME CompInv, NEW s \in CompSlots, NEW op, OpSound(op), compOp' = [compOp EXCEPT ![s] = op]
    PROVE  DOMAIN compOp' = CompSlots /\ \A t \in CompSlots : OpSound(compOp'[t])
<1>1. \A t \in CompSlots : compOp'[t] = IF t = s THEN op ELSE compOp[t] BY DEF CompInv
<1> QED BY <1>1 DEF CompInv

LEMMA CompStepKeeps == CompInv /\ [CompNext]_compVars => CompInv'
<1> SUFFICES ASSUME CompInv, [CompNext]_compVars PROVE CompInv' OBVIOUS
<1>1. CASE UNCHANGED compVars BY <1>1 DEF compVars, CompInv, PeriodsValid
<1>2. ASSUME NEW s \in CompSlots, CompStep(s) PROVE CompInv'
  <2>1. CASE CompCreate(s)
    <3>1. PICK e \in People, from \in Days, to \in Days \cup {Forever} :
              /\ InOrder(from, to)
              /\ StartCheck(s, NULL, [employee |-> e, from |-> from, to |-> to])
      BY <2>1 DEF CompCreate
    <3>2. PICK row : row = [employee |-> e, from |-> from, to |-> to] OBVIOUS
    <3>3. Sound(row) BY <3>1, <3>2 DEF Sound, Period, InOrder
    <3>4. OpSound([at |-> "check", id |-> NULL, row |-> row]) BY <3>3 DEF OpSound, CompOps, Sound
    <3>5. /\ profile' = profile
          /\ compOp' = [compOp EXCEPT ![s] = [at |-> "check", id |-> NULL, row |-> row]]
      BY <3>1, <3>2 DEF StartCheck
    <3> QED BY <3>4, <3>5, OpStep DEF CompInv, PeriodsValid
  <2>2. CASE CompUpdate(s)
    <3>1. PICK p, from, to, row :
              /\ p \in Profiles /\ profile[p] # NULL
              /\ from \in Days /\ to \in Days \cup {Forever, Epoch}
              /\ InOrder(from, to)
              /\ row = [profile[p] EXCEPT !.from = from, !.to = to]
              /\ StartCheck(s, p, row)
      <4>1. PICK p \in Profiles, f \in Days \cup {NULL}, t \in Days \cup {NULL, Epoch} :
                /\ profile[p] # NULL
                /\ LET from == IF f = NULL THEN profile[p].from ELSE f
                       to   == IF t = NULL THEN profile[p].to ELSE t
                   IN  /\ InOrder(from, to)
                       /\ StartCheck(s, p, [profile[p] EXCEPT !.from = from, !.to = to])
        BY <2>2 DEF CompUpdate
      <4>2. profile[p] \in Period BY <4>1 DEF CompInv, ProfileRow
      <4>3. PICK from, to : /\ from = IF f = NULL THEN profile[p].from ELSE f
                            /\ to   = IF t = NULL THEN profile[p].to ELSE t
        OBVIOUS
      <4>4. from \in Days /\ to \in Days \cup {Forever, Epoch}
        BY <4>2, <4>3 DEF Period
      <4>5. InOrder(from, to) /\ StartCheck(s, p, [profile[p] EXCEPT !.from = from, !.to = to])
        BY <4>1, <4>3
      <4> QED BY <4>1, <4>4, <4>5
    <3>2. profile[p] \in Period BY <3>1 DEF CompInv, ProfileRow
    <3>3. row.employee \in People /\ row.from = from /\ row.to = to
          /\ row = [employee |-> row.employee, from |-> from, to |-> to]
      BY <3>1, <3>2 DEF Period
    <3>4. to \in Days \cup {Forever}
      BY <3>1, CompensationAssumption DEF InOrder, Days, Epoch
    <3>5. Sound(row) BY <3>1, <3>3, <3>4 DEF Sound, Period, InOrder
    <3>6. OpSound([at |-> "check", id |-> p, row |-> row])
      BY <3>1, <3>5 DEF OpSound, CompOps, Sound
    <3>7. /\ profile' = profile
          /\ compOp' = [compOp EXCEPT ![s] = [at |-> "check", id |-> p, row |-> row]]
      BY <3>1 DEF StartCheck
    <3> QED BY <3>6, <3>7, OpStep DEF CompInv, PeriodsValid
  <2>3. CASE CompCheck(s)
    <3>1. PICK op : op = IF Overlaps(compOp[s].row, compOp[s].id) THEN NoCompOp
                         ELSE [compOp[s] EXCEPT !.at = "write"]
      OBVIOUS
    <3>2. OpSound(op)
      <4>1. PICK before : before = compOp[s] OBVIOUS
      <4>2. OpSound(before) /\ before.at = "check" BY <2>3, <4>1 DEF CompCheck, CompInv
      <4>3. before \in CompOps /\ Sound(before.row) BY <4>2 DEF OpSound, NoCompOp
      <4>4. CASE op = NoCompOp BY <4>4 DEF OpSound
      <4>5. CASE op = [before EXCEPT !.at = "write"]
        <5>1. op \in CompOps /\ op.at = "write" /\ op.row = before.row BY <4>3, <4>5 DEF CompOps
        <5> QED BY <4>3, <5>1 DEF OpSound
      <4> QED BY <3>1, <4>1, <4>4, <4>5
    <3>3. profile' = profile /\ compOp' = [compOp EXCEPT ![s] = op]
      BY <2>3, <3>1 DEF CompCheck, CompInv
    <3> QED BY <3>2, <3>3, OpStep DEF CompInv, PeriodsValid
  <2>4. CASE CompWrite(s)
    <3>1. PICK id \in Profiles : Store(s, id)
      <4>1. compOp[s].at = "write" /\ OpSound(compOp[s]) BY <2>4 DEF CompWrite, CompInv
      <4>2. compOp[s].id \in Profiles \cup {NULL} BY <4>1 DEF OpSound, NoCompOp, CompOps
      <4> QED BY <2>4, <4>2 DEF CompWrite
    <3>2. PICK before, op : before = compOp[s] /\ op = [before EXCEPT !.at = "audit", !.id = id]
      OBVIOUS
    <3>3. before \in CompOps /\ Sound(before.row)
      <4>1. before.at = "write" /\ OpSound(before) BY <2>4, <3>2 DEF CompWrite, CompInv
      <4> QED BY <4>1 DEF OpSound, NoCompOp
    <3>4. /\ profile' = [profile EXCEPT ![id] = before.row]
          /\ compOp' = [compOp EXCEPT ![s] = op]
      BY <3>1, <3>2 DEF Store
    <3>5. OpSound(op)
      <4>1. op \in CompOps /\ op.id = id /\ op.row = before.row BY <3>2, <3>3 DEF CompOps
      <4> QED BY <3>3, <4>1 DEF OpSound
    <3>6. profile' \in [Profiles -> ProfileRow] BY <3>3, <3>4 DEF CompInv, ProfileRow, Sound
    <3>7. \A p \in Profiles : profile'[p] = IF p = id THEN before.row ELSE profile[p]
      BY <3>4 DEF CompInv
    <3>8. PeriodsValid' BY <3>3, <3>7 DEF CompInv, PeriodsValid, Sound
    <3> QED BY <3>4, <3>5, <3>6, <3>8, OpStep DEF CompInv
  <2>5. CASE CompAudit(s) \/ CompFail(s)
    <3>1. profile' = profile /\ compOp' = [compOp EXCEPT ![s] = NoCompOp]
      BY <2>5 DEF CompAudit, CompFail
    <3>2. OpSound(NoCompOp) BY DEF OpSound
    <3> QED BY <3>1, <3>2, OpStep DEF CompInv, PeriodsValid
  <2> QED BY <1>2, <2>1, <2>2, <2>3, <2>4, <2>5 DEF CompStep
<1> QED BY <1>1, <1>2 DEF CompNext

\* No stored period ends before it begins, however the requests about one
\* profile interleave: create and update write both of its ends in one query.
THEOREM PeriodsAreValid == CompSpec => []PeriodsValid
<1>1. CompInit => CompInv
  BY DEF CompInit, CompInv, PeriodsValid, ProfileRow, OpSound
<1>2. CompInv => PeriodsValid BY DEF CompInv
<1> QED BY <1>1, <1>2, CompStepKeeps, PTL DEF CompSpec

---------------------------------------------------------------------------
\* Two requests about one employee at once are remembered.
Exclusive ==
    \A s, t \in CompSlots :
        /\ s # t /\ compOp[s] # NoCompOp /\ compOp[t] # NoCompOp
        /\ compOp[s].row.employee = compOp[t].row.employee
        => compOp[s].row.employee \in raced

\* An update works on a profile of the employee it names.
OwnRow ==
    \A s \in CompSlots : compOp[s] # NoCompOp /\ compOp[s].id \in Profiles =>
        /\ profile[compOp[s].id] # NULL
        /\ profile[compOp[s].id].employee = compOp[s].row.employee

\* What the overlap test found is still true when the period is written.
Tested ==
    \A s \in CompSlots : compOp[s].at = "write" /\ compOp[s].row.employee \notin raced =>
        ~Overlaps(compOp[s].row, compOp[s].id)

SoundInv ==
    /\ CompInv /\ Exclusive /\ OwnRow /\ Tested
    /\ \A e \in People \ raced : PeriodsDisjoint(e)

LEMMA Flight ==
    ASSUME CompInv, NEW s \in CompSlots
    PROVE  \/ compOp[s] = NoCompOp /\ compOp[s].at = "idle"
           \/ /\ compOp[s] # NoCompOp /\ compOp[s].at # "idle"
              /\ compOp[s] \in CompOps /\ Sound(compOp[s].row)
BY DEF CompInv, OpSound, NoCompOp, CompOps

\* A request begins: only its slot and the employees raced change.
LEMMA BeginSound ==
    ASSUME SoundInv, CompInv', NEW s \in CompSlots, NEW id \in Profiles \cup {NULL},
           NEW row \in Period,
           StartCheck(s, id, row),
           id \in Profiles => profile[id] # NULL /\ profile[id].employee = row.employee
    PROVE  SoundInv'
<1>1. /\ profile' = profile /\ raced \subseteq raced'
      /\ compOp' = [compOp EXCEPT ![s] = [at |-> "check", id |-> id, row |-> row]]
      /\ \A t \in CompSlots \ {s} : compOp[t] # NoCompOp /\ compOp[t].row.employee = row.employee =>
             row.employee \in raced'
  BY DEF StartCheck
<1>2. /\ compOp'[s].at = "check" /\ compOp'[s].id = id /\ compOp'[s].row = row
      /\ \A t \in CompSlots \ {s} : compOp'[t] = compOp[t]
  BY <1>1 DEF SoundInv, CompInv
<1>3. Exclusive' BY <1>1, <1>2 DEF SoundInv, Exclusive
<1>4. OwnRow' BY <1>1, <1>2 DEF SoundInv, OwnRow
<1>5. Tested' BY <1>1, <1>2 DEF SoundInv, Tested, Overlaps
<1>6. (\A e \in People \ raced : PeriodsDisjoint(e))'
  BY <1>1 DEF SoundInv, PeriodsDisjoint, DaysOf
<1> QED BY <1>3, <1>4, <1>5, <1>6 DEF SoundInv

\* A request goes on or ends without writing.
LEMMA GoOnSound ==
    ASSUME SoundInv, CompInv', NEW s \in CompSlots, NEW op,
           profile' = profile, raced' = raced, compOp' = [compOp EXCEPT ![s] = op],
           \/ op = NoCompOp
           \/ /\ compOp[s] # NoCompOp /\ op.id = compOp[s].id /\ op.row = compOp[s].row
              /\ ~Overlaps(op.row, op.id)
    PROVE  SoundInv'
<1>2. /\ compOp'[s] = op
      /\ \A t \in CompSlots \ {s} : compOp'[t] = compOp[t]
  BY DEF SoundInv, CompInv
<1>3. Exclusive' BY <1>2 DEF SoundInv, Exclusive
<1>4. OwnRow' BY <1>2 DEF SoundInv, OwnRow
<1>5. Tested' BY <1>2 DEF SoundInv, Tested, Overlaps, NoCompOp
<1>6. (\A e \in People \ raced : PeriodsDisjoint(e))' BY DEF SoundInv, PeriodsDisjoint, DaysOf
<1> QED BY <1>3, <1>4, <1>5, <1>6 DEF SoundInv

\* The period tested is written.
LEMMA StoreSound ==
    ASSUME SoundInv, CompInv', NEW s \in CompSlots, NEW id \in Profiles, Store(s, id),
           compOp[s].at = "write",
           \/ compOp[s].id = NULL /\ profile[id] = NULL
           \/ compOp[s].id = id
    PROVE  SoundInv'
<1> USE NullProfileAssumption, CompensationAssumption
<1>1. PICK before, row : before = compOp[s] /\ row = before.row OBVIOUS
<1>2. /\ before \in CompOps /\ before # NoCompOp /\ row \in Period /\ row.from <= row.to
  BY <1>1, Flight DEF SoundInv, Sound
<1>3. /\ profile' = [profile EXCEPT ![id] = row] /\ raced' = raced
      /\ compOp' = [compOp EXCEPT ![s] = [before EXCEPT !.at = "audit", !.id = id]]
  BY <1>1 DEF Store
<1>4. /\ profile'[id] = row /\ profile'[id] # NULL
      /\ \A p \in Profiles \ {id} : profile'[p] = profile[p]
  BY <1>2, <1>3 DEF SoundInv, CompInv
<1>5. /\ compOp'[s] # NoCompOp /\ compOp'[s].at = "audit"
      /\ compOp'[s].id = id /\ compOp'[s].row = row
      /\ \A t \in CompSlots \ {s} : compOp'[t] = compOp[t]
  BY <1>1, <1>2, <1>3 DEF SoundInv, CompInv, CompOps, NoCompOp
<1>6. profile[id] # NULL => profile[id].employee = row.employee
  BY <1>1, <1>2 DEF SoundInv, OwnRow
<1>7. Exclusive' BY <1>1, <1>2, <1>3, <1>5 DEF SoundInv, Exclusive
<1>8. OwnRow' BY <1>4, <1>5, <1>6 DEF SoundInv, OwnRow
<1>9. Tested'
  <2> SUFFICES ASSUME NEW t \in CompSlots, compOp'[t].at = "write",
                      compOp'[t].row.employee \notin raced'
               PROVE  ~Overlaps(compOp[t].row, compOp[t].id)'
    BY DEF Tested
  <2>1. t # s /\ compOp'[t] = compOp[t] /\ compOp[t] # NoCompOp BY <1>5 DEF NoCompOp
  <2>2. compOp[t].row.employee # row.employee
    BY <1>1, <1>2, <1>3, <2>1 DEF SoundInv, Exclusive
  <2>3. ~Overlaps(compOp[t].row, compOp[t].id) BY <1>3, <2>1 DEF SoundInv, Tested
  <2>4. \A p \in Profiles : profile'[p] # NULL /\ profile'[p].employee = compOp[t].row.employee =>
            profile'[p] = profile[p]
    BY <1>4, <2>2
  <2> QED BY <2>1, <2>3, <2>4 DEF Overlaps
<1>10. (\A e \in People \ raced : PeriodsDisjoint(e))'
  <2> SUFFICES ASSUME NEW e \in People \ raced, NEW p \in Profiles, NEW q \in Profiles,
                      p # q, profile'[p] # NULL, profile'[q] # NULL,
                      profile'[p].employee = e, profile'[q].employee = e
               PROVE  (DaysOf(p) \cap DaysOf(q) = {})'
    BY <1>3 DEF PeriodsDisjoint
  <2>1. CASE p # id /\ q # id
    <3>1. profile'[p] = profile[p] /\ profile'[q] = profile[q] BY <1>4, <2>1
    <3> QED BY <3>1 DEF SoundInv, PeriodsDisjoint, DaysOf
  <2>2. ASSUME NEW x \in Profiles \ {id}, profile'[x] # NULL, profile'[x].employee = e,
               row.employee = e
        PROVE  (DaysOf(id) \cap DaysOf(x) = {})'
    <3>1. ~Overlaps(row, before.id) BY <1>1, <1>2, <2>2 DEF SoundInv, Tested
    <3>2. x # before.id /\ profile'[x] = profile[x] BY <1>1, <1>4, <2>2
    <3>3. ~(profile[x].from <= row.to /\ profile[x].to >= row.from)
      BY <2>2, <3>1, <3>2 DEF Overlaps
    <3>4. profile[x] \in Period BY <2>2, <3>2 DEF SoundInv, CompInv, ProfileRow
    <3>5. /\ profile[x].from \in Nat /\ profile[x].to \in Nat
          /\ row.from \in Nat /\ row.to \in Nat
      BY <1>2, <3>4 DEF Period, Days, Forever
    <3>6. \A d \in Days : ~(/\ row.from <= d /\ d <= row.to
                            /\ profile[x].from <= d /\ d <= profile[x].to)
      BY <3>3, <3>5 DEF Days
    <3> QED BY <1>4, <3>2, <3>6 DEF DaysOf
  <2> QED BY <1>4, <2>1, <2>2
<1> QED BY <1>7, <1>8, <1>9, <1>10 DEF SoundInv

LEMMA SoundStep == SoundInv /\ [CompNext]_compVars => SoundInv'
<1> SUFFICES ASSUME SoundInv, [CompNext]_compVars PROVE SoundInv' OBVIOUS
<1> USE NullProfileAssumption, CompensationAssumption
<1>0. CompInv /\ CompInv' BY CompStepKeeps DEF SoundInv
<1>1. CASE UNCHANGED compVars
  BY <1>0, <1>1 DEF compVars, SoundInv, Exclusive, OwnRow, Tested, Overlaps, PeriodsDisjoint, DaysOf
<1>2. ASSUME NEW s \in CompSlots, CompStep(s) PROVE SoundInv'
  <2>1. CASE CompCreate(s)
    <3>1. PICK row \in Period : StartCheck(s, NULL, row)
      BY <2>1 DEF CompCreate, Period
    <3> QED BY <1>0, <3>1, BeginSound
  <2>2. CASE CompUpdate(s)
    <3>1. PICK p, row : /\ p \in Profiles /\ profile[p] # NULL
                        /\ row.employee = profile[p].employee
                        /\ StartCheck(s, p, row)
      <4>1. PICK p, from, to :
                /\ p \in Profiles /\ profile[p] # NULL
                /\ StartCheck(s, p, [profile[p] EXCEPT !.from = from, !.to = to])
        BY <2>2 DEF CompUpdate
      <4>2. profile[p] \in Period BY <1>0, <4>1 DEF CompInv, ProfileRow
      <4>3. [profile[p] EXCEPT !.from = from, !.to = to].employee = profile[p].employee
        BY <4>2 DEF Period
      <4> QED BY <4>1, <4>3
    <3>2. row \in Period
      <4>1. compOp'[s].row = row /\ compOp'[s] # NoCompOp
        <5>1. compOp' = [compOp EXCEPT ![s] = [at |-> "check", id |-> p, row |-> row]]
          BY <3>1 DEF StartCheck
        <5> QED BY <1>0, <5>1 DEF CompInv, NoCompOp
      <4> QED BY <1>0, <4>1 DEF CompInv, OpSound, Sound
    <3> QED BY <1>0, <3>1, <3>2, BeginSound
  <2>3. CASE CompCheck(s)
    <3>1. PICK before, op : /\ before = compOp[s]
                            /\ op = IF Overlaps(before.row, before.id) THEN NoCompOp
                                    ELSE [before EXCEPT !.at = "write"]
      OBVIOUS
    <3>2. before \in CompOps /\ before # NoCompOp
      BY <1>0, <2>3, <3>1, Flight DEF CompCheck, NoCompOp
    <3>3. \/ op = NoCompOp
          \/ /\ op.id = before.id /\ op.row = before.row
             /\ ~Overlaps(op.row, op.id)
      BY <3>1, <3>2 DEF CompOps
    <3>4. /\ profile' = profile /\ raced' = raced /\ compOp' = [compOp EXCEPT ![s] = op]
      BY <1>0, <2>3, <3>1 DEF CompCheck, CompInv
    <3> QED BY <1>0, <3>1, <3>2, <3>3, <3>4, GoOnSound
  <2>4. CASE CompWrite(s)
    <3>1. compOp[s].at = "write" /\ compOp[s].id \in Profiles \cup {NULL}
      BY <1>0, <2>4, Flight DEF CompWrite, CompOps
    <3>2. PICK id \in Profiles : /\ Store(s, id)
                                 /\ \/ compOp[s].id = NULL /\ profile[id] = NULL
                                    \/ compOp[s].id = id
      BY <2>4, <3>1 DEF CompWrite
    <3> QED BY <1>0, <3>1, <3>2, StoreSound
  <2>5. CASE CompAudit(s) \/ CompFail(s)
    <3>1. profile' = profile /\ raced' = raced /\ compOp' = [compOp EXCEPT ![s] = NoCompOp]
      BY <2>5 DEF CompAudit, CompFail
    <3> QED BY <1>0, <3>1, GoOnSound
  <2> QED BY <1>2, <2>1, <2>2, <2>3, <2>4, <2>5 DEF CompStep
<1> QED BY <1>1, <1>2 DEF CompNext

\* Periods never end before they begin, and no day of an employee is paid
\* under two profiles unless two requests about that employee overlapped:
\* for any number of employees, profiles, days and requests.
THEOREM PeriodsAreSound == CompSpec => []PeriodsSound
<1>1. CompInit => SoundInv
  <2> SUFFICES ASSUME CompInit PROVE SoundInv OBVIOUS
  <2>1. CompInv
    BY DEF CompInit, CompInv, PeriodsValid, ProfileRow, OpSound
  <2> QED BY <2>1 DEF CompInit, SoundInv, Exclusive, OwnRow, Tested, PeriodsDisjoint, NoCompOp
<1>2. SoundInv => PeriodsSound BY DEF SoundInv, CompInv, PeriodsSound
<1> QED BY <1>1, <1>2, SoundStep, PTL DEF CompSpec

---------------------------------------------------------------------------
(* Pilot reconciliation. *)

\* No row goes away and no cycle changes its pilot.
RowsStay ==
    /\ \A p \in Pilots : pilot[p] # NULL => pilot'[p] # NULL
    /\ \A r \in Runs : cycle[r] # NULL => cycle'[r] # NULL /\ cycle'[r].pilot = cycle[r].pilot

---------------------------------------------------------------------------
LEMMA OpTyped ==
    ASSUME PilotTypeOK, RowsStay, NEW s \in PilotSlots, NEW op, Go(s, op), PilotOpOK(op)'
    PROVE  DOMAIN pilotOp' = PilotSlots /\ \A t \in PilotSlots : PilotOpOK(pilotOp[t])'
<1>1. \A t \in PilotSlots : PilotOpOK(pilotOp[t]) BY DEF PilotTypeOK
<1>2. DOMAIN pilotOp' = PilotSlots /\ pilotOp'[s] = op /\
      \A t \in PilotSlots \ {s} : pilotOp'[t] = pilotOp[t]
  BY DEF PilotTypeOK, Go
<1>3. ASSUME NEW t \in PilotSlots \ {s} PROVE PilotOpOK(pilotOp[t])'
  <2> DEFINE o == pilotOp[t]
  <2>1. PilotOpOK(o) /\ pilotOp'[t] = o BY <1>1, <1>2
  <2> HIDE DEF o
  <2> QED BY <2>1, <1>2 DEF PilotOpOK, RowsStay, o
<1> QED BY <1>2, <1>3 DEF PilotOpOK

\* A request that ends leaves a slot that asks nothing of the rows.
LEMMA DoneTyped ==
    ASSUME PilotTypeOK, RowsStay, NEW s \in PilotSlots, Done(s)
    PROVE  DOMAIN pilotOp' = PilotSlots /\ \A t \in PilotSlots : PilotOpOK(pilotOp[t])'
<1>1. Go(s, NoPilotOp) BY DEF Done, Go
<1>2. PilotOpOK(NoPilotOp)' BY DEF PilotOpOK, NoPilotOp
<1> QED BY <1>1, <1>2, OpTyped

LEMMA RowsUnchanged == UNCHANGED <<pilot, cycle>> => RowsStay
BY DEF RowsStay

\* The lines reconcileLines returns are lines of the cohort.
LEMMA OutcomesAreLines ==
    ASSUME NEW members \in SUBSET People, NEW new \in Outcomes[members]
    PROVE  new \in Lines
<1> DEFINE keys  == members \X Codes
           items == UNION {[1..n -> [key : keys, amount : Amounts]] : n \in 0..2}
<1>1. PICK K \in (SUBSET keys) \ {{}} : \E ref \in [K -> Amounts], i \in items :
          new = ReconcileLines(ref, i)
  BY DEF Outcomes
<1>2. PICK ref \in [K -> Amounts], i \in items : new = ReconcileLines(ref, i) BY <1>1
<1>3. new \in [K -> BOOLEAN] BY <1>2 DEF ReconcileLines
<1>4. K \in SUBSET Keys BY DEF Keys
<1> QED BY <1>3, <1>4 DEF Lines

---------------------------------------------------------------------------
(* What the three steps that write a cycle make of it. *)

LEMMA InsertEffect ==
    ASSUME PilotTypeOK, NEW s \in PilotSlots, InsertCycle(s), NEW o, o = pilotOp[s]
    PROVE  /\ o.pilot \in Pilots /\ pilot[o.pilot] # NULL /\ o.at = "insert"
           /\ o.run \in Runs /\ o.number \in Nat \ {0}
           /\ cycle[o.run] = NULL /\ NumberFree(o.pilot, o.number)
           /\ cycle' \in [Runs -> CycleRow \cup {NULL}]
           /\ cycle'[o.run] \in CycleRow /\ cycle'[o.run] # NULL
           /\ cycle'[o.run].pilot = o.pilot /\ cycle'[o.run].number = o.number
           /\ cycle'[o.run].status = "OPEN"
           /\ \A r \in Runs \ {o.run} : cycle'[r] = cycle[r]
           /\ Go(s, [at |-> "opened", run |-> o.run])
           /\ UNCHANGED <<pilot, cut, overtaken>>
<1> DEFINE row == [pilot |-> o.pilot, number |-> o.number, lines |-> <<>>, status |-> "OPEN"]
<1>1. /\ o.pilot \in Pilots /\ pilot[o.pilot] # NULL /\ o.at = "insert"
      /\ o.run \in Runs /\ o.number \in Nat \ {0}
  BY DEF InsertCycle, At, PilotTypeOK, PilotOpOK
<1>2. /\ cycle[o.run] = NULL /\ NumberFree(o.pilot, o.number)
      /\ cycle' = [cycle EXCEPT ![o.run] = row]
      /\ Go(s, [at |-> "opened", run |-> o.run])
      /\ UNCHANGED <<pilot, cut, overtaken>>
  BY DEF InsertCycle
<1>3. row \in CycleRow
  <2>1. <<>> \in [{} -> BOOLEAN] OBVIOUS
  <2>2. <<>> \in Lines BY <2>1 DEF Lines
  <2> QED BY <1>1, <2>2 DEF CycleRow
<1>4. row.pilot = o.pilot /\ row.number = o.number /\ row.status = "OPEN" OBVIOUS
<1> HIDE DEF row
<1> QED BY <1>1, <1>2, <1>3, <1>4, NullAssumption DEF PilotTypeOK

LEMMA CommitEffect ==
    ASSUME PilotTypeOK, NEW s \in PilotSlots, CommitLines(s), NEW o, o = pilotOp[s]
    PROVE  /\ o.run \in Runs /\ cycle[o.run] # NULL /\ o.at = "commit"
           /\ cycle' \in [Runs -> CycleRow \cup {NULL}]
           /\ cycle'[o.run] \in CycleRow /\ cycle'[o.run] # NULL
           /\ cycle'[o.run].pilot = cycle[o.run].pilot
           /\ cycle'[o.run].number = cycle[o.run].number
           /\ cycle'[o.run].status = "RECONCILED"
           /\ \A r \in Runs \ {o.run} : cycle'[r] = cycle[r]
           /\ DOMAIN pilotOp' = PilotSlots
           /\ \A t \in PilotSlots : \/ t = s /\ pilotOp'[t] = NoPilotOp
                                    \/ t # s /\ pilotOp'[t] = pilotOp[t]
                                    \/ /\ t # s /\ pilotOp[t].at = "commit" /\ pilotOp[t].run = o.run
                                       /\ \E g : pilotOp'[t] = [at |-> "commit", run |-> o.run,
                                                                new |-> pilotOp[t].new, gone |-> g]
           /\ UNCHANGED <<pilot, cut, overtaken>>
<1>0. PICK stay, lines :
          /\ stay = DOMAIN cycle[o.run].lines \ o.gone
          /\ lines = [k \in stay \cup DOMAIN o.new |->
                        IF k \in stay THEN cycle[o.run].lines[k] ELSE o.new[k]]
  OBVIOUS
<1>1. o.run \in Runs /\ cycle[o.run] \in CycleRow /\ o.new \in Lines /\ o.at = "commit"
  BY DEF CommitLines, At, PilotTypeOK, PilotOpOK
<1>2. lines \in Lines
  <2>1. PICK K \in SUBSET Keys : o.new \in [K -> BOOLEAN] BY <1>1 DEF Lines
  <2>2. cycle[o.run].lines \in Lines BY <1>1 DEF CycleRow
  <2>3. PICK L \in SUBSET Keys : cycle[o.run].lines \in [L -> BOOLEAN] BY <2>2 DEF Lines
  <2>4. stay \subseteq L BY <1>0, <2>3
  <2>5. lines \in [stay \cup K -> BOOLEAN] BY <1>0, <2>1, <2>3, <2>4
  <2>6. stay \cup K \in SUBSET Keys BY <2>4
  <2> QED BY <2>5, <2>6 DEF Lines
<1>3. cycle' = [cycle EXCEPT ![o.run].lines = lines, ![o.run].status = "RECONCILED"]
  BY <1>0 DEF CommitLines
<1>4. /\ cycle' \in [Runs -> CycleRow \cup {NULL}]
      /\ cycle'[o.run] \in CycleRow /\ cycle'[o.run].pilot = cycle[o.run].pilot
      /\ cycle'[o.run].number = cycle[o.run].number
      /\ cycle'[o.run].status = "RECONCILED"
      /\ \A r \in Runs \ {o.run} : cycle'[r] = cycle[r]
  BY <1>1, <1>2, <1>3 DEF PilotTypeOK, CycleRow
<1>5. /\ DOMAIN pilotOp' = PilotSlots
      /\ \A t \in PilotSlots : \/ t = s /\ pilotOp'[t] = NoPilotOp
                               \/ t # s /\ pilotOp'[t] = pilotOp[t]
                               \/ /\ t # s /\ pilotOp[t].at = "commit" /\ pilotOp[t].run = o.run
                                  /\ \E g : pilotOp'[t] = [at |-> "commit", run |-> o.run,
                                                           new |-> pilotOp[t].new, gone |-> g]
  BY DEF CommitLines, At
<1> QED BY <1>1, <1>4, <1>5, NullAssumption DEF CommitLines

LEMMA SignEffect ==
    ASSUME PilotTypeOK, NEW s \in PilotSlots, Sign(s), NEW o, o = pilotOp[s]
    PROVE  /\ o.run \in Runs /\ cycle[o.run] # NULL /\ o.at = "sign"
           /\ cycle' \in [Runs -> CycleRow \cup {NULL}]
           /\ cycle'[o.run] \in CycleRow /\ cycle'[o.run] # NULL
           /\ cycle'[o.run].pilot = cycle[o.run].pilot
           /\ cycle'[o.run].number = cycle[o.run].number
           /\ cycle'[o.run].lines = cycle[o.run].lines
           /\ cycle'[o.run].status = "SIGNED_OFF"
           /\ \A r \in Runs \ {o.run} : cycle'[r] = cycle[r]
           /\ Go(s, [at |-> "tally", run |-> o.run])
           /\ UNCHANGED <<pilot, cut, overtaken>>
<1>1. o.run \in Runs /\ cycle[o.run] \in CycleRow /\ o.at = "sign"
  BY DEF Sign, At, PilotTypeOK, PilotOpOK
<1>2. cycle' = [cycle EXCEPT ![o.run].status = "SIGNED_OFF"] BY DEF Sign
<1>3. /\ cycle' \in [Runs -> CycleRow \cup {NULL}]
      /\ cycle'[o.run] \in CycleRow /\ cycle'[o.run].pilot = cycle[o.run].pilot
      /\ cycle'[o.run].number = cycle[o.run].number
      /\ cycle'[o.run].lines = cycle[o.run].lines
      /\ cycle'[o.run].status = "SIGNED_OFF"
      /\ \A r \in Runs \ {o.run} : cycle'[r] = cycle[r]
  BY <1>1, <1>2 DEF PilotTypeOK, CycleRow
<1> QED BY <1>1, <1>3, NullAssumption DEF Sign

---------------------------------------------------------------------------
\* Every step keeps the types and the references between the rows.
LEMMA TypeStep == PilotTypeOK /\ [PilotNext]_pilotVars => PilotTypeOK'
<1> SUFFICES ASSUME PilotTypeOK, [PilotNext]_pilotVars PROVE PilotTypeOK' OBVIOUS
<1> USE NullAssumption
<1>1. CASE UNCHANGED pilotVars BY <1>1 DEF PilotTypeOK, pilotVars, PilotOpOK
<1>2. ASSUME NEW s \in PilotSlots, PilotStep(s) PROVE PilotTypeOK'
  <2>1. CASE CreatePilot(s)
    <3>1. PICK p \in Pilots, members \in (SUBSET People) \ {{}} :
              /\ pilot' = [pilot EXCEPT ![p] = [status |-> "ACTIVE", members |-> members]]
              /\ Go(s, [at |-> "started", pilot |-> p])
      BY <2>1 DEF CreatePilot
    <3>2. [status |-> "ACTIVE", members |-> members] \in PilotRow BY DEF PilotRow
    <3>3. /\ pilot' \in [Pilots -> PilotRow \cup {NULL}]
          /\ pilot'[p] # NULL
          /\ \A q \in Pilots \ {p} : pilot'[q] = pilot[q]
      BY <3>1, <3>2 DEF PilotTypeOK
    <3>4. RowsStay BY <2>1, <3>3 DEF CreatePilot, RowsStay, PilotTypeOK
    <3>5. PilotOpOK([at |-> "started", pilot |-> p])' BY <3>3 DEF PilotOpOK
    <3>6. DOMAIN pilotOp' = PilotSlots /\ \A t \in PilotSlots : PilotOpOK(pilotOp[t])'
      BY <3>1, <3>4, <3>5, OpTyped
    <3>7. \A r \in Runs : cycle[r] # NULL => cycle[r].pilot \in Pilots BY DEF PilotTypeOK, CycleRow
    <3> QED BY <2>1, <3>3, <3>6, <3>7 DEF CreatePilot, PilotTypeOK
  <2>2. CASE AuditPilot(s) \/ AuditCycle(s) \/ AuditSignOff(s)
    <3>1. RowsStay BY <2>2, RowsUnchanged DEF AuditPilot, AuditCycle, AuditSignOff
    <3>2. Done(s) BY <2>2 DEF AuditPilot, AuditCycle, AuditSignOff
    <3> QED BY <2>2, <3>1, <3>2, DoneTyped DEF AuditPilot, AuditCycle, AuditSignOff, PilotTypeOK
  <2>3. CASE OpenCycle(s)
    <3>1. PICK p \in Pilots, r \in Runs : /\ pilot[p] # NULL
                                          /\ Go(s, [at |-> "count", pilot |-> p, run |-> r])
      BY <2>3 DEF OpenCycle
    <3>2. RowsStay BY <2>3, RowsUnchanged DEF OpenCycle
    <3>3. PilotOpOK([at |-> "count", pilot |-> p, run |-> r])'
      BY <2>3, <3>1 DEF PilotOpOK, OpenCycle
    <3>4. DOMAIN pilotOp' = PilotSlots /\ \A t \in PilotSlots : PilotOpOK(pilotOp[t])'
      BY <3>1, <3>2, <3>3, OpTyped
    <3> QED BY <2>3, <3>4 DEF OpenCycle, PilotTypeOK
  <2>4. CASE CountCycles(s)
    <3>1. PICK o, n : o = pilotOp[s] /\ n = Cardinality(CyclesOf(o.pilot)) + 1 OBVIOUS
    <3> DEFINE op == [at |-> "insert", pilot |-> o.pilot, run |-> o.run, number |-> n]
    <3>2. RowsStay BY <2>4, RowsUnchanged DEF CountCycles
    <3>3. n \in Nat \ {0}
      <4>1. CyclesOf(o.pilot) \subseteq Runs BY DEF CyclesOf
      <4>2. Cardinality(CyclesOf(o.pilot)) \in Nat
        BY <4>1, FS_Subset, FS_CardinalityType, PilotAssumption
      <4> QED BY <3>1, <4>2
    <3>4. /\ o.pilot \in Pilots /\ pilot[o.pilot] # NULL /\ o.run \in Runs
          /\ pilot' = pilot /\ cycle' = cycle
      BY <2>4, <3>1 DEF CountCycles, At, PilotTypeOK, PilotOpOK
    <3>5. PilotOpOK(op)' BY <3>3, <3>4 DEF PilotOpOK
    <3>6. Go(s, op) BY <2>4, <3>1 DEF CountCycles
    <3> HIDE DEF op
    <3>7. DOMAIN pilotOp' = PilotSlots /\ \A t \in PilotSlots : PilotOpOK(pilotOp[t])'
      BY <3>2, <3>5, <3>6, OpTyped
    <3> QED BY <2>4, <3>7 DEF CountCycles, PilotTypeOK
  <2>5. CASE InsertCycle(s)
    <3>0. PICK o : o = pilotOp[s] OBVIOUS
    <3>1. /\ o.pilot \in Pilots /\ pilot[o.pilot] # NULL /\ o.run \in Runs
          /\ cycle[o.run] = NULL
          /\ cycle' \in [Runs -> CycleRow \cup {NULL}]
          /\ cycle'[o.run] # NULL /\ cycle'[o.run].pilot = o.pilot
          /\ \A r \in Runs \ {o.run} : cycle'[r] = cycle[r]
          /\ Go(s, [at |-> "opened", run |-> o.run])
          /\ UNCHANGED <<pilot, cut, overtaken>>
      BY <2>5, <3>0, InsertEffect
    <3>2. RowsStay BY <3>1 DEF RowsStay
    <3>3. PilotOpOK([at |-> "opened", run |-> o.run])' BY <3>1 DEF PilotOpOK
    <3>4. DOMAIN pilotOp' = PilotSlots /\ \A t \in PilotSlots : PilotOpOK(pilotOp[t])'
      BY <3>1, <3>2, <3>3, OpTyped
    <3> QED BY <3>1, <3>4 DEF PilotTypeOK
  <2>6. CASE Reconcile(s)
    <3>1. PICK r \in Runs : /\ cycle[r] # NULL
                            /\ \E new \in Outcomes[pilot[cycle[r].pilot].members] :
                                   Enter(s, r, [at |-> "delete", run |-> r, new |-> new])
      BY <2>6 DEF Reconcile
    <3>2. PICK new \in Outcomes[pilot[cycle[r].pilot].members] :
              Enter(s, r, [at |-> "delete", run |-> r, new |-> new])
      BY <3>1
    <3>3. new \in Lines
      <4>1. cycle[r].pilot \in Pilots /\ pilot[cycle[r].pilot] # NULL
        BY <3>1 DEF PilotTypeOK, CycleRow
      <4>2. pilot[cycle[r].pilot].members \in SUBSET People BY <4>1 DEF PilotTypeOK, PilotRow
      <4> QED BY <4>2, OutcomesAreLines
    <3>4. RowsStay BY <2>6, RowsUnchanged DEF Reconcile
    <3>5. PilotOpOK([at |-> "delete", run |-> r, new |-> new])'
      BY <2>6, <3>1, <3>3 DEF PilotOpOK, Reconcile
    <3>6. DOMAIN pilotOp' = PilotSlots /\ \A t \in PilotSlots : PilotOpOK(pilotOp[t])'
      BY <3>2, <3>4, <3>5, OpTyped DEF Enter
    <3>7. overtaken' \subseteq Runs BY <3>2 DEF Enter, PilotTypeOK
    <3> QED BY <2>6, <3>6, <3>7 DEF Reconcile, PilotTypeOK
  <2>7. CASE DeleteLines(s)
    <3>0. PICK o, g : o = pilotOp[s] /\ g = DOMAIN cycle[o.run].lines OBVIOUS
    <3> DEFINE op == [at |-> "commit", run |-> o.run, new |-> o.new, gone |-> g]
    <3>1. o.run \in Runs /\ cycle[o.run] # NULL /\ o.new \in Lines
      BY <2>7, <3>0 DEF DeleteLines, At, PilotTypeOK, PilotOpOK
    <3>2. RowsStay BY <2>7, RowsUnchanged DEF DeleteLines
    <3>3. PilotOpOK(op)' BY <2>7, <3>1 DEF PilotOpOK, DeleteLines
    <3>4. Go(s, op) BY <2>7, <3>0 DEF DeleteLines
    <3> HIDE DEF op
    <3>5. DOMAIN pilotOp' = PilotSlots /\ \A t \in PilotSlots : PilotOpOK(pilotOp[t])'
      BY <3>2, <3>3, <3>4, OpTyped
    <3> QED BY <2>7, <3>5 DEF DeleteLines, PilotTypeOK
  <2>8. CASE CommitLines(s)
    <3>0. PICK o : o = pilotOp[s] OBVIOUS
    <3>1. /\ o.run \in Runs /\ cycle[o.run] # NULL
          /\ cycle' \in [Runs -> CycleRow \cup {NULL}]
          /\ cycle'[o.run] # NULL /\ cycle'[o.run].pilot = cycle[o.run].pilot
          /\ \A r \in Runs \ {o.run} : cycle'[r] = cycle[r]
      BY <2>8, <3>0, CommitEffect
    <3>5. RowsStay BY <2>8, <3>1 DEF RowsStay, CommitLines
    <3>6. /\ DOMAIN pilotOp' = PilotSlots
          /\ \A t \in PilotSlots : \/ pilotOp'[t] = NoPilotOp
                                   \/ pilotOp'[t] = pilotOp[t]
                                   \/ /\ pilotOp[t].at = "commit" /\ pilotOp[t].run = o.run
                                      /\ \E g : pilotOp'[t] = [at |-> "commit", run |-> o.run,
                                                               new |-> pilotOp[t].new, gone |-> g]
      <4>1. DOMAIN pilotOp' = PilotSlots BY <2>8, <3>0, CommitEffect
      <4>2. ASSUME NEW t \in PilotSlots
            PROVE  \/ pilotOp'[t] = NoPilotOp
                   \/ pilotOp'[t] = pilotOp[t]
                   \/ /\ pilotOp[t].at = "commit" /\ pilotOp[t].run = o.run
                      /\ \E g : pilotOp'[t] = [at |-> "commit", run |-> o.run,
                                               new |-> pilotOp[t].new, gone |-> g]
        BY <2>8, <3>0 DEF CommitLines, At
      <4> QED BY <4>1, <4>2
    <3>7. ASSUME NEW t \in PilotSlots PROVE PilotOpOK(pilotOp[t])'
      <4>1. PICK before, after : before = pilotOp[t] /\ after = pilotOp'[t] OBVIOUS
      <4>2. PilotOpOK(before) BY <4>1 DEF PilotTypeOK
      <4>3. CASE after = NoPilotOp BY <4>1, <4>3 DEF PilotOpOK, NoPilotOp
      <4>4. CASE after = before BY <3>5, <4>1, <4>2, <4>4 DEF PilotOpOK, RowsStay
      <4>5. CASE /\ before.at = "commit" /\ before.run = o.run
                 /\ \E g : after = [at |-> "commit", run |-> o.run, new |-> before.new, gone |-> g]
        BY <3>5, <4>1, <4>2, <4>5 DEF PilotOpOK, RowsStay
      <4>6. \/ after = NoPilotOp \/ after = before
            \/ /\ before.at = "commit" /\ before.run = o.run
               /\ \E g : after = [at |-> "commit", run |-> o.run, new |-> before.new, gone |-> g]
        BY <3>6, <4>1
      <4> QED BY <4>3, <4>4, <4>5, <4>6
    <3>8. UNCHANGED <<pilot, cut, overtaken>> BY <2>8 DEF CommitLines
    <3>9. \A r \in Runs : cycle'[r] # NULL => pilot'[cycle'[r].pilot] # NULL
      BY <3>1, <3>8 DEF PilotTypeOK
    <3> QED BY <3>1, <3>6, <3>7, <3>8, <3>9 DEF PilotTypeOK
  <2>9. CASE SignOff(s)
    <3>1. PICK r \in Runs : cycle[r] # NULL /\ Enter(s, r, [at |-> "sign", run |-> r])
      BY <2>9 DEF SignOff
    <3>2. RowsStay BY <2>9, RowsUnchanged DEF SignOff
    <3>3. PilotOpOK([at |-> "sign", run |-> r])' BY <2>9, <3>1 DEF PilotOpOK, SignOff
    <3>4. DOMAIN pilotOp' = PilotSlots /\ \A t \in PilotSlots : PilotOpOK(pilotOp[t])'
      BY <3>1, <3>2, <3>3, OpTyped DEF Enter
    <3>5. overtaken' \subseteq Runs BY <3>1 DEF Enter, PilotTypeOK
    <3> QED BY <2>9, <3>4, <3>5 DEF SignOff, PilotTypeOK
  <2>10. CASE Sign(s)
    <3>0. PICK o : o = pilotOp[s] OBVIOUS
    <3>1. /\ o.run \in Runs /\ cycle[o.run] # NULL
          /\ cycle' \in [Runs -> CycleRow \cup {NULL}]
          /\ cycle'[o.run] # NULL /\ cycle'[o.run].pilot = cycle[o.run].pilot
          /\ \A r \in Runs \ {o.run} : cycle'[r] = cycle[r]
          /\ Go(s, [at |-> "tally", run |-> o.run])
          /\ UNCHANGED <<pilot, cut, overtaken>>
      BY <2>10, <3>0, SignEffect
    <3>2. RowsStay BY <3>1 DEF RowsStay
    <3>3. PilotOpOK([at |-> "tally", run |-> o.run])' BY <3>1 DEF PilotOpOK
    <3>4. DOMAIN pilotOp' = PilotSlots /\ \A t \in PilotSlots : PilotOpOK(pilotOp[t])'
      BY <3>1, <3>2, <3>3, OpTyped
    <3> QED BY <3>1, <3>4 DEF PilotTypeOK
  <2>11. CASE Tally(s)
    <3>0. PICK o, next : /\ o = pilotOp[s]
                         /\ next = IF Cardinality(Signed(cycle[o.run].pilot)) >= Target
                                   THEN "complete" ELSE "signed"
      OBVIOUS
    <3> DEFINE op == [at |-> next, run |-> o.run]
    <3>1. o.run \in Runs /\ cycle[o.run] # NULL
      BY <2>11, <3>0 DEF Tally, At, PilotTypeOK, PilotOpOK
    <3>2. RowsStay BY <2>11, RowsUnchanged DEF Tally
    <3>3. PilotOpOK(op)' BY <2>11, <3>0, <3>1 DEF PilotOpOK, Tally
    <3>4. Go(s, op) BY <2>11, <3>0 DEF Tally
    <3> HIDE DEF op
    <3>5. DOMAIN pilotOp' = PilotSlots /\ \A t \in PilotSlots : PilotOpOK(pilotOp[t])'
      BY <3>2, <3>3, <3>4, OpTyped
    <3> QED BY <2>11, <3>5 DEF Tally, PilotTypeOK
  <2>12. CASE Complete(s)
    <3>0. PICK o, p : o = pilotOp[s] /\ p = cycle[o.run].pilot OBVIOUS
    <3>1. o.run \in Runs /\ cycle[o.run] # NULL
      BY <2>12, <3>0 DEF Complete, At, PilotTypeOK, PilotOpOK
    <3>2. p \in Pilots /\ pilot[p] \in PilotRow BY <3>0, <3>1 DEF PilotTypeOK, CycleRow
    <3>3. /\ pilot' = [pilot EXCEPT ![p].status = "COMPLETED"]
          /\ Go(s, [at |-> "signed", run |-> o.run])
      BY <2>12, <3>0 DEF Complete
    <3>4. /\ pilot' \in [Pilots -> PilotRow \cup {NULL}]
          /\ pilot'[p] \in PilotRow
          /\ \A q \in Pilots \ {p} : pilot'[q] = pilot[q]
      BY <3>2, <3>3 DEF PilotTypeOK, PilotRow
    <3>5. RowsStay BY <2>12, <3>4 DEF RowsStay, Complete
    <3>6. PilotOpOK([at |-> "signed", run |-> o.run])' BY <2>12, <3>1 DEF PilotOpOK, Complete
    <3>7. DOMAIN pilotOp' = PilotSlots /\ \A t \in PilotSlots : PilotOpOK(pilotOp[t])'
      BY <3>3, <3>5, <3>6, OpTyped
    <3>8. \A r \in Runs : cycle[r] # NULL => cycle[r].pilot \in Pilots BY DEF PilotTypeOK, CycleRow
    <3> QED BY <2>12, <3>4, <3>7, <3>8 DEF Complete, PilotTypeOK
  <2>13. CASE PilotFail(s)
    <3>1. RowsStay /\ Done(s) BY <2>13, RowsUnchanged DEF PilotFail
    <3>2. cut' \subseteq Pilots
      <4>1. CASE pilotOp[s].at \in {"tally", "complete"}
        <5>1. pilotOp[s].run \in Runs /\ cycle[pilotOp[s].run] # NULL
          BY <4>1 DEF PilotTypeOK, PilotOpOK
        <5>2. cycle[pilotOp[s].run].pilot \in Pilots BY <5>1 DEF PilotTypeOK, CycleRow
        <5> QED BY <2>13, <5>2 DEF PilotFail, PilotTypeOK
      <4> QED BY <2>13, <4>1 DEF PilotFail, PilotTypeOK
    <3> QED BY <2>13, <3>1, <3>2, DoneTyped DEF PilotFail, PilotTypeOK
  <2> QED BY <1>2, <2>1, <2>2, <2>3, <2>4, <2>5, <2>6, <2>7, <2>8, <2>9, <2>10, <2>11,
             <2>12, <2>13 DEF PilotStep
<1> QED BY <1>1, <1>2 DEF PilotNext

\* However the requests about pilots interleave and fail, the rows have their
\* types, every row refers to a row there is, and so does every request.
THEOREM PilotTypes == PilotSpec => []PilotTypeOK
<1>1. PilotInit => PilotTypeOK
  BY DEF PilotInit, PilotTypeOK, PilotOpOK, NoPilotOp
<1> QED BY <1>1, TypeStep, PTL DEF PilotSpec

---------------------------------------------------------------------------
\* What a step may do without missing a completion: no cycle is signed, no
\* completed pilot is reopened, no failure forgotten, no count given up.
LEMMA Steady ==
    ASSUME PilotTypeOK, CompletionNotMissed,
           \A p \in Pilots : Signed(p)' \subseteq Signed(p),
           \A p \in Pilots : pilot[p] # NULL /\ pilot[p].status = "COMPLETED" =>
                                 pilot'[p].status = "COMPLETED",
           cut \subseteq cut',
           \A p \in Pilots, s \in PilotSlots : WillComplete(s, p) => WillComplete(s, p)'
    PROVE  CompletionNotMissed'
<1> SUFFICES ASSUME NEW p \in Pilots, (Cardinality(Signed(p)) >= Target)'
             PROVE  \/ pilot'[p].status = "COMPLETED"
                    \/ p \in cut'
                    \/ \E s \in PilotSlots : WillComplete(s, p)'
  BY DEF CompletionNotMissed
<1>1. Signed(p) \subseteq Runs BY DEF Signed, CyclesOf
<1>2. /\ IsFiniteSet(Signed(p)) /\ IsFiniteSet(Signed(p)')
      /\ Cardinality(Signed(p)') <= Cardinality(Signed(p))
      /\ Cardinality(Signed(p)) \in Nat /\ Cardinality(Signed(p)') \in Nat
  BY <1>1, FS_Subset, FS_CardinalityType, PilotAssumption
<1>3. Cardinality(Signed(p)) >= Target BY <1>2, PilotAssumption
<1>4. pilot[p] # NULL
  <2>1. Signed(p) # {} BY <1>3, FS_EmptySet, PilotAssumption
  <2>2. PICK r \in Signed(p) : TRUE BY <2>1
  <2> QED BY <2>2 DEF Signed, CyclesOf, PilotTypeOK
<1> QED BY <1>3, <1>4 DEF CompletionNotMissed

\* A step of a request that is not counting, on rows it leaves alone.
LEMMA Aside ==
    ASSUME PilotTypeOK, CompletionNotMissed, NEW s \in PilotSlots,
           pilotOp[s].at \notin {"tally", "complete"},
           UNCHANGED <<pilot, cycle, cut>>,
           \A t \in PilotSlots \ {s} : pilotOp'[t] = pilotOp[t]
    PROVE  CompletionNotMissed'
<1>1. \A p \in Pilots : Signed(p)' = Signed(p) BY DEF Signed, CyclesOf
<1>2. \A p \in Pilots, t \in PilotSlots : WillComplete(t, p) => WillComplete(t, p)'
  BY DEF WillComplete
<1> QED BY <1>1, <1>2, Steady

LEMMA OthersStay ==
    ASSUME NEW s, NEW op, Go(s, op), DOMAIN pilotOp = PilotSlots
    PROVE  \A t \in PilotSlots \ {s} : pilotOp'[t] = pilotOp[t]
BY DEF Go

LEMMA CompletionStep ==
    PilotTypeOK /\ CompletionNotMissed /\ [PilotNext]_pilotVars => CompletionNotMissed'
<1> SUFFICES ASSUME PilotTypeOK, CompletionNotMissed, [PilotNext]_pilotVars
             PROVE  CompletionNotMissed'
  OBVIOUS
<1> USE NullAssumption
<1>0. PilotTypeOK' BY TypeStep
<1>1. CASE UNCHANGED pilotVars
  BY <1>1 DEF CompletionNotMissed, pilotVars, Signed, CyclesOf, WillComplete
<1>2. ASSUME NEW s \in PilotSlots, PilotStep(s) PROVE CompletionNotMissed'
  <2>0. DOMAIN pilotOp = PilotSlots BY DEF PilotTypeOK
  <2>1. CASE CreatePilot(s)
    <3>1. pilotOp[s].at = "idle" BY <2>1 DEF CreatePilot, Idle, NoPilotOp
    <3>2. \A t \in PilotSlots \ {s} : pilotOp'[t] = pilotOp[t]
      BY <2>0, <2>1, OthersStay DEF CreatePilot
    <3>3. \A p \in Pilots : Signed(p)' = Signed(p) BY <2>1 DEF Signed, CyclesOf, CreatePilot
    <3>4. \A p \in Pilots : pilot[p] # NULL => pilot'[p] = pilot[p]
      BY <2>1 DEF CreatePilot, PilotTypeOK
    <3>5. \A p \in Pilots, t \in PilotSlots : WillComplete(t, p) => WillComplete(t, p)'
      BY <2>1, <3>1, <3>2 DEF WillComplete, CreatePilot
    <3>6. cut' = cut BY <2>1 DEF CreatePilot
    <3> QED BY <3>3, <3>4, <3>5, <3>6, Steady
  <2>2. CASE AuditPilot(s) \/ OpenCycle(s) \/ CountCycles(s) \/ AuditCycle(s) \/ Reconcile(s)
             \/ DeleteLines(s) \/ SignOff(s) \/ AuditSignOff(s)
    <3>1. pilotOp[s].at \notin {"tally", "complete"}
      BY <2>2 DEF AuditPilot, OpenCycle, CountCycles, AuditCycle, Reconcile, DeleteLines, SignOff,
                  AuditSignOff, At, Idle, NoPilotOp
    <3>2. UNCHANGED <<pilot, cycle, cut>>
      BY <2>2 DEF AuditPilot, OpenCycle, CountCycles, AuditCycle, Reconcile, DeleteLines, SignOff,
                  AuditSignOff
    <3>3. \A t \in PilotSlots \ {s} : pilotOp'[t] = pilotOp[t]
      BY <2>0, <2>2 DEF AuditPilot, OpenCycle, CountCycles, AuditCycle, Reconcile, DeleteLines,
                        SignOff, AuditSignOff, Done, Go, Enter
    <3> QED BY <3>1, <3>2, <3>3, Aside
  <2>3. CASE InsertCycle(s)
    <3>0. PICK o : o = pilotOp[s] OBVIOUS
    <3>1. /\ o.at = "insert" /\ o.run \in Runs /\ cycle[o.run] = NULL
          /\ pilot' = pilot /\ cut' = cut
          /\ cycle'[o.run].status = "OPEN"
      BY <2>3, <3>0, InsertEffect
    <3>2. \A r \in Runs \ {o.run} : cycle'[r] = cycle[r] BY <2>3, <3>0, InsertEffect
    <3>3. \A t \in PilotSlots \ {s} : pilotOp'[t] = pilotOp[t]
      BY <2>0, <2>3, OthersStay DEF InsertCycle
    <3>4. \A p \in Pilots : Signed(p)' \subseteq Signed(p) BY <3>1, <3>2 DEF Signed, CyclesOf
    <3>5. \A t \in PilotSlots : pilotOp[t].at \in {"tally", "complete"} =>
              pilotOp[t].run \in Runs \ {o.run}
      BY <3>1 DEF PilotTypeOK, PilotOpOK
    <3>6. \A p \in Pilots, t \in PilotSlots : WillComplete(t, p) => WillComplete(t, p)'
      BY <3>0, <3>1, <3>2, <3>3, <3>5 DEF WillComplete
    <3> QED BY <3>1, <3>4, <3>6, Steady
  <2>4. CASE CommitLines(s)
    <3>0. PICK o : o = pilotOp[s] OBVIOUS
    <3>1. o.at = "commit" BY <2>4, <3>0, CommitEffect
    <3>2. /\ cycle'[o.run].status = "RECONCILED" /\ cycle'[o.run].pilot = cycle[o.run].pilot
          /\ \A r \in Runs \ {o.run} : cycle'[r] = cycle[r]
      BY <2>4, <3>0, CommitEffect
    <3>3. \A p \in Pilots : Signed(p)' \subseteq Signed(p) BY <3>2 DEF Signed, CyclesOf
    <3>4. \A t \in PilotSlots : pilotOp[t].at \in {"tally", "complete"} => pilotOp'[t] = pilotOp[t]
      BY <2>4, <3>0, <3>1 DEF CommitLines, At
    <3>5. \A t \in PilotSlots : pilotOp[t].at \in {"tally", "complete"} => pilotOp[t].run \in Runs
      BY DEF PilotTypeOK, PilotOpOK
    <3>6. \A p \in Pilots, t \in PilotSlots : WillComplete(t, p) => WillComplete(t, p)'
      BY <3>2, <3>4, <3>5 DEF WillComplete
    <3>7. pilot' = pilot /\ cut' = cut BY <2>4 DEF CommitLines
    <3> QED BY <3>3, <3>6, <3>7, Steady
  <2>5. CASE Sign(s)
    <3>0. PICK o : o = pilotOp[s] OBVIOUS
    <3>1. /\ o.at = "sign" /\ o.run \in Runs /\ cycle[o.run] \in CycleRow
          /\ cycle' = [cycle EXCEPT ![o.run].status = "SIGNED_OFF"]
          /\ pilotOp' = [pilotOp EXCEPT ![s] = [at |-> "tally", run |-> o.run]]
          /\ pilot' = pilot /\ cut' = cut
      BY <2>5, <3>0 DEF Sign, At, Go, PilotTypeOK, PilotOpOK
    <3>2. /\ cycle'[o.run].pilot = cycle[o.run].pilot
          /\ \A r \in Runs \ {o.run} : cycle'[r] = cycle[r]
      BY <3>1 DEF PilotTypeOK, CycleRow
    <3>3. /\ pilotOp'[s].at = "tally" /\ pilotOp'[s].run = o.run
          /\ \A t \in PilotSlots \ {s} : pilotOp'[t] = pilotOp[t]
      BY <2>0, <3>1
    <3>4. \A p \in Pilots : p = cycle[o.run].pilot => WillComplete(s, p)'
      BY <3>2, <3>3 DEF WillComplete
    <3>5. \A t \in PilotSlots : pilotOp[t].at \in {"tally", "complete"} => pilotOp[t].run \in Runs
      BY DEF PilotTypeOK, PilotOpOK
    <3>6. \A p \in Pilots, t \in PilotSlots : WillComplete(t, p) => WillComplete(t, p)'
      BY <3>0, <3>1, <3>2, <3>3, <3>5 DEF WillComplete
    <3>7. ASSUME NEW p \in Pilots, p # cycle[o.run].pilot, (Cardinality(Signed(p)) >= Target)'
          PROVE  \/ pilot'[p].status = "COMPLETED" \/ p \in cut'
                 \/ \E t \in PilotSlots : WillComplete(t, p)'
      <4>1. Signed(p)' = Signed(p) BY <3>1, <3>2, <3>7 DEF Signed, CyclesOf
      <4>2. Cardinality(Signed(p)) >= Target BY <3>7, <4>1
      <4>3. CASE \E t \in PilotSlots : WillComplete(t, p) BY <3>6, <4>3
      <4> QED BY <3>1, <4>2, <4>3 DEF CompletionNotMissed
    <3>8. SUFFICES ASSUME NEW p \in Pilots, (Cardinality(Signed(p)) >= Target)'
                   PROVE  \/ pilot'[p].status = "COMPLETED" \/ p \in cut'
                          \/ \E t \in PilotSlots : WillComplete(t, p)'
      BY DEF CompletionNotMissed
    <3>9. CASE p = cycle[o.run].pilot BY <3>4, <3>9
    <3> QED BY <3>7, <3>8, <3>9
  <2>6. CASE Tally(s)
    <3>0. PICK o, q : o = pilotOp[s] /\ q = cycle[o.run].pilot OBVIOUS
    <3>1. /\ o.at = "tally" /\ o.run \in Runs /\ UNCHANGED <<pilot, cycle, cut>>
          /\ \A t \in PilotSlots \ {s} : pilotOp'[t] = pilotOp[t]
      BY <2>0, <2>6, <3>0 DEF Tally, At, Go, PilotTypeOK, PilotOpOK
    <3>2. \A p \in Pilots : Signed(p)' = Signed(p) BY <3>1 DEF Signed, CyclesOf
    <3>3. \A p \in Pilots, t \in PilotSlots \ {s} : WillComplete(t, p) => WillComplete(t, p)'
      BY <3>1 DEF WillComplete
    <3>4. Cardinality(Signed(q)) >= Target => WillComplete(s, q)'
      <4>1. Cardinality(Signed(q)) >= Target =>
                pilotOp' = [pilotOp EXCEPT ![s] = [at |-> "complete", run |-> o.run]]
        BY <2>6, <3>0 DEF Tally, Go
      <4> QED BY <2>0, <3>0, <3>1, <4>1 DEF WillComplete
    <3>5. \A p \in Pilots : WillComplete(s, p) => p = q BY <3>0 DEF WillComplete
    <3> QED BY <3>1, <3>2, <3>3, <3>4, <3>5 DEF CompletionNotMissed
  <2>7. CASE Complete(s)
    <3>0. PICK o, q : o = pilotOp[s] /\ q = cycle[o.run].pilot OBVIOUS
    <3>1. /\ o.at = "complete" /\ o.run \in Runs /\ cycle[o.run] # NULL
          /\ UNCHANGED <<cycle, cut>>
          /\ pilot' = [pilot EXCEPT ![q].status = "COMPLETED"]
          /\ \A t \in PilotSlots \ {s} : pilotOp'[t] = pilotOp[t]
      BY <2>0, <2>7, <3>0 DEF Complete, At, Go, PilotTypeOK, PilotOpOK
    <3>2. q \in Pilots /\ pilot[q] \in PilotRow BY <3>0, <3>1 DEF PilotTypeOK, CycleRow
    <3>3. /\ pilot'[q].status = "COMPLETED"
          /\ \A p \in Pilots \ {q} : pilot'[p] = pilot[p]
      BY <3>1, <3>2 DEF PilotTypeOK, PilotRow
    <3>4. \A p \in Pilots : Signed(p)' = Signed(p) BY <3>1 DEF Signed, CyclesOf
    <3>5. \A p \in Pilots, t \in PilotSlots \ {s} : WillComplete(t, p) => WillComplete(t, p)'
      BY <3>1 DEF WillComplete
    <3>6. \A p \in Pilots : WillComplete(s, p) => p = q BY <3>0 DEF WillComplete
    <3> QED BY <3>1, <3>3, <3>4, <3>5, <3>6 DEF CompletionNotMissed
  <2>8. CASE PilotFail(s)
    <3>0. PICK o, q : o = pilotOp[s] /\ q = cycle[o.run].pilot OBVIOUS
    <3>1. /\ UNCHANGED <<pilot, cycle>>
          /\ cut' = IF o.at \in {"tally", "complete"} THEN cut \cup {q} ELSE cut
          /\ \A t \in PilotSlots \ {s} : pilotOp'[t] = pilotOp[t]
      BY <2>0, <2>8, <3>0 DEF PilotFail, Done
    <3>2. \A p \in Pilots : Signed(p)' = Signed(p) BY <3>1 DEF Signed, CyclesOf
    <3>3. \A p \in Pilots, t \in PilotSlots \ {s} : WillComplete(t, p) => WillComplete(t, p)'
      BY <3>1 DEF WillComplete
    <3>4. \A p \in Pilots : WillComplete(s, p) => p \in cut' BY <3>0, <3>1 DEF WillComplete
    <3> QED BY <3>1, <3>2, <3>3, <3>4 DEF CompletionNotMissed
  <2> QED BY <1>2, <2>1, <2>2, <2>3, <2>4, <2>5, <2>6, <2>7, <2>8 DEF PilotStep
<1> QED BY <1>1, <1>2 DEF PilotNext

\* A pilot with enough signed cycles is completed or about to be, for any
\* number of sign-offs and reconciliations at once, unless a sign-off failed
\* between its writes.
THEOREM CompletionHolds == PilotSpec => []CompletionNotMissed
<1>1. PilotInit => CompletionNotMissed
  <2> SUFFICES ASSUME PilotInit, NEW p \in Pilots PROVE ~(Cardinality(Signed(p)) >= Target)
    BY DEF CompletionNotMissed
  <2>1. Signed(p) = {} BY DEF PilotInit, Signed, CyclesOf
  <2> QED BY <2>1, FS_EmptySet, PilotAssumption
<1> QED BY <1>1, PilotTypes, CompletionStep, PTL DEF PilotSpec

---------------------------------------------------------------------------
(* The numbers of the cycles. A number, once counted, is at most one more   *)
(* than the cycles there are; that it is free makes it exactly so.          *)

Count(p) == Cardinality(CyclesOf(p))

NumbersInv ==
    /\ CyclesNumbered
    /\ \A s \in PilotSlots, p \in Pilots :
           At(s, "insert") /\ pilotOp[s].pilot = p => pilotOp[s].number \in 1..(Count(p) + 1)

LEMMA CountType ==
    ASSUME NEW p
    PROVE  IsFiniteSet(CyclesOf(p)) /\ Count(p) \in Nat
<1>1. CyclesOf(p) \subseteq Runs BY DEF CyclesOf
<1> QED BY <1>1, FS_Subset, FS_CardinalityType, PilotAssumption DEF Count

\* No step but the insertion of a cycle touches which cycles there are and
\* how they are numbered.
LEMMA NumbersStay ==
    ASSUME PilotTypeOK, NEW s \in PilotSlots, PilotStep(s), ~InsertCycle(s)
    PROVE  \A r \in Runs : /\ cycle'[r] # NULL <=> cycle[r] # NULL
                           /\ cycle[r] # NULL => /\ cycle'[r].pilot = cycle[r].pilot
                                                 /\ cycle'[r].number = cycle[r].number
<1>1. CASE CommitLines(s) \/ Sign(s)
  <2>0. PICK o : o = pilotOp[s] OBVIOUS
  <2>1. /\ o.run \in Runs /\ cycle[o.run] # NULL
        /\ cycle'[o.run] # NULL
        /\ cycle'[o.run].pilot = cycle[o.run].pilot
        /\ cycle'[o.run].number = cycle[o.run].number
        /\ \A r \in Runs \ {o.run} : cycle'[r] = cycle[r]
    <3>1. CASE CommitLines(s) BY <2>0, <3>1, CommitEffect
    <3>2. CASE Sign(s) BY <2>0, <3>2, SignEffect
    <3> QED BY <1>1, <3>1, <3>2
  <2> QED BY <2>1
<1>2. CASE ~(CommitLines(s) \/ Sign(s))
  <2>1. cycle' = cycle
    BY <1>2 DEF PilotStep, CreatePilot, AuditPilot, OpenCycle, CountCycles, AuditCycle, Reconcile,
                DeleteLines, SignOff, Tally, Complete, AuditSignOff, PilotFail
  <2> QED BY <2>1
<1> QED BY <1>1, <1>2

LEMMA NumbersKept ==
    ASSUME PilotTypeOK, NumbersInv,
           \A r \in Runs : /\ cycle'[r] # NULL <=> cycle[r] # NULL
                           /\ cycle[r] # NULL => /\ cycle'[r].pilot = cycle[r].pilot
                                                 /\ cycle'[r].number = cycle[r].number,
           \A s \in PilotSlots : pilotOp'[s].at = "insert" =>
               \/ pilotOp'[s] = pilotOp[s]
               \/ \A p \in Pilots : pilotOp'[s].pilot = p => pilotOp'[s].number = Count(p) + 1
    PROVE  NumbersInv'
<1>1. ASSUME NEW p PROVE CyclesOf(p)' = CyclesOf(p) BY DEF CyclesOf
<1>2. ASSUME NEW p PROVE Count(p)' = Count(p) BY <1>1 DEF Count
<1>3. CyclesNumbered'
  <2> SUFFICES ASSUME NEW p \in Pilots
               PROVE  {cycle'[r].number : r \in CyclesOf(p)} = 1..Count(p)
    BY <1>1, <1>2 DEF CyclesNumbered, Count
  <2>1. \A r \in CyclesOf(p) : cycle'[r].number = cycle[r].number BY DEF CyclesOf
  <2>2. {cycle'[r].number : r \in CyclesOf(p)} = {cycle[r].number : r \in CyclesOf(p)} BY <2>1
  <2> QED BY <2>2 DEF NumbersInv, CyclesNumbered, Count
<1>4. ASSUME NEW s \in PilotSlots, NEW p \in Pilots, pilotOp'[s].at = "insert",
             pilotOp'[s].pilot = p
      PROVE  pilotOp'[s].number \in 1..(Count(p)' + 1)
  <2>1. Count(p)' = Count(p) /\ Count(p) \in Nat BY <1>2, CountType
  <2> QED BY <1>4, <2>1 DEF NumbersInv, At
<1> QED BY <1>3, <1>4 DEF NumbersInv, At

LEMMA NumbersStep == PilotTypeOK /\ NumbersInv /\ [PilotNext]_pilotVars => NumbersInv'
<1> SUFFICES ASSUME PilotTypeOK, NumbersInv, [PilotNext]_pilotVars PROVE NumbersInv' OBVIOUS
<1>1. CASE UNCHANGED pilotVars
  <2>1. pilotOp' = pilotOp /\ cycle' = cycle BY <1>1 DEF pilotVars
  <2> QED BY <2>1, NumbersKept
<1>2. ASSUME NEW s \in PilotSlots, PilotStep(s), ~InsertCycle(s) PROVE NumbersInv'
  <2>1. DOMAIN pilotOp = PilotSlots BY DEF PilotTypeOK
  <2>2. \A t \in PilotSlots : pilotOp'[t].at = "insert" =>
            \/ pilotOp'[t] = pilotOp[t]
            \/ \A p \in Pilots : pilotOp'[t].pilot = p => pilotOp'[t].number = Count(p) + 1
    <3>1. CASE CountCycles(s) BY <2>1, <3>1 DEF CountCycles, Go, Count
    <3>2. CASE CommitLines(s) BY <3>2 DEF CommitLines, NoPilotOp
    <3>3. CASE \/ CreatePilot(s) \/ AuditPilot(s) \/ OpenCycle(s) \/ AuditCycle(s)
      BY <2>1, <3>3 DEF CreatePilot, AuditPilot, OpenCycle, AuditCycle, Done, Go, Enter, NoPilotOp
    <3>4. CASE Reconcile(s) \/ DeleteLines(s) \/ SignOff(s) \/ Sign(s)
      BY <2>1, <3>4 DEF Reconcile, DeleteLines, SignOff, Sign, Done, Go, Enter, NoPilotOp
    <3>5. CASE Tally(s) \/ Complete(s) \/ AuditSignOff(s) \/ PilotFail(s)
      BY <2>1, <3>5 DEF Tally, Complete, AuditSignOff, PilotFail, Done, Go, NoPilotOp
    <3> QED BY <1>2, <3>1, <3>2, <3>3, <3>4, <3>5 DEF PilotStep
  <2> QED BY <1>2, <2>2, NumbersStay, NumbersKept
<1>3. ASSUME NEW s \in PilotSlots, InsertCycle(s) PROVE NumbersInv'
  <2>0. PICK o, q, n : o = pilotOp[s] /\ q = o.pilot /\ n = o.number OBVIOUS
  <2>1. /\ q \in Pilots /\ o.run \in Runs /\ cycle[o.run] = NULL
        /\ NumberFree(q, n) /\ n \in 1..(Count(q) + 1)
        /\ cycle'[o.run] # NULL /\ cycle'[o.run].pilot = q /\ cycle'[o.run].number = n
        /\ Go(s, [at |-> "opened", run |-> o.run])
    BY <1>3, <2>0, InsertEffect DEF At, NumbersInv
  <2>3. \A r \in Runs \ {o.run} : cycle'[r] = cycle[r] BY <1>3, <2>0, InsertEffect
  <2>4. n = Count(q) + 1
    <3>1. {cycle[r].number : r \in CyclesOf(q)} = 1..Count(q)
      BY <2>1 DEF NumbersInv, CyclesNumbered, Count
    <3>2. n \notin {cycle[r].number : r \in CyclesOf(q)} BY <2>1 DEF NumberFree
    <3>3. Count(q) \in Nat /\ n \notin 1..Count(q) BY <3>1, <3>2, CountType
    <3>4. n \in 1..(Count(q) + 1) BY <2>1
    <3> QED BY <3>3, <3>4
  <2>5. CyclesOf(q)' = CyclesOf(q) \cup {o.run} /\ o.run \notin CyclesOf(q)
    BY <2>1, <2>3 DEF CyclesOf
  <2>6. \A p \in Pilots \ {q} : CyclesOf(p)' = CyclesOf(p) BY <2>1, <2>3 DEF CyclesOf
  <2>7. Count(q)' = Count(q) + 1 BY <2>5, CountType, FS_AddElement DEF Count
  <2>8. CyclesNumbered'
    <3>1. ASSUME NEW p \in Pilots, p # q
          PROVE  {cycle'[r].number : r \in CyclesOf(p)'} = 1..Cardinality(CyclesOf(p)')
      <4>1. CyclesOf(p)' = CyclesOf(p) BY <2>6, <3>1
      <4>2. \A r \in CyclesOf(p) : cycle'[r].number = cycle[r].number BY <2>1, <2>3 DEF CyclesOf
      <4>3. {cycle'[r].number : r \in CyclesOf(p)} = {cycle[r].number : r \in CyclesOf(p)}
        BY <4>2
      <4> QED BY <4>1, <4>3 DEF NumbersInv, CyclesNumbered
    <3>2. {cycle'[r].number : r \in CyclesOf(q)'} = 1..Cardinality(CyclesOf(q)')
      <4>1. \A r \in CyclesOf(q) : cycle'[r].number = cycle[r].number BY <2>1, <2>3 DEF CyclesOf
      <4>2. {cycle'[r].number : r \in CyclesOf(q)} = {cycle[r].number : r \in CyclesOf(q)}
        BY <4>1
      <4>3. {cycle'[r].number : r \in CyclesOf(q)'} =
            {cycle[r].number : r \in CyclesOf(q)} \cup {n}
        BY <2>1, <2>5, <4>2
      <4>4. {cycle[r].number : r \in CyclesOf(q)} = 1..Count(q)
        BY <2>1 DEF NumbersInv, CyclesNumbered, Count
      <4>5. 1..Count(q) \cup {n} = 1..(Count(q) + 1) BY <2>4, CountType
      <4> QED BY <2>7, <4>3, <4>4, <4>5 DEF Count
    <3> QED BY <3>1, <3>2 DEF CyclesNumbered
  <2>9. ASSUME NEW t \in PilotSlots, NEW p \in Pilots, pilotOp'[t].at = "insert",
               pilotOp'[t].pilot = p
        PROVE  pilotOp'[t].number \in 1..(Count(p)' + 1)
    <3>1. pilotOp'[t] = pilotOp[t] BY <2>1, <2>9 DEF Go, PilotTypeOK
    <3>2. pilotOp[t].number \in 1..(Count(p) + 1) BY <2>9, <3>1 DEF NumbersInv, At
    <3>3. Count(p) \in Nat /\ (Count(p)' = Count(p) \/ Count(p)' = Count(p) + 1)
      BY <2>6, <2>7, CountType DEF Count
    <3> QED BY <3>1, <3>2, <3>3
  <2> QED BY <2>8, <2>9 DEF NumbersInv, At
<1> QED BY <1>1, <1>2, <1>3 DEF PilotNext

\* The cycles of a pilot are numbered without a gap or a double, for any
\* number of overlapping requests of createCycle.
THEOREM CyclesAreNumbered == PilotSpec => []CyclesNumbered
<1>1. PilotInit => NumbersInv
  <2> SUFFICES ASSUME PilotInit PROVE NumbersInv OBVIOUS
  <2>1. \A p \in Pilots : CyclesOf(p) = {} BY DEF PilotInit, CyclesOf
  <2>2. CyclesNumbered BY <2>1, FS_EmptySet DEF CyclesNumbered
  <2> QED BY <2>2 DEF NumbersInv, PilotInit, At, NoPilotOp
<1>2. NumbersInv => CyclesNumbered BY DEF NumbersInv
<1> QED BY <1>1, <1>2, PilotTypes, NumbersStep, PTL DEF PilotSpec

---------------------------------------------------------------------------
(* What is signed. As long as no two requests about a cycle have            *)
(* overlapped, one request at most holds what it read of the cycle, and     *)
(* that is still so.                                                       *)

Works(s, r)  == pilotOp[s].at \in {"delete", "commit", "sign"} /\ pilotOp[s].run = r
Resolved(r)  == {cycle[r].lines[k] : k \in DOMAIN cycle[r].lines} = {TRUE}
SignedOff(r) == cycle[r] # NULL /\ cycle[r].status = "SIGNED_OFF"

SignInv ==
    \A r \in Runs \ overtaken :
        /\ SignedOff(r) => Resolved(r)
        /\ \A s, t \in PilotSlots : Works(s, r) /\ Works(t, r) => s = t
        /\ \A s \in PilotSlots : Works(s, r) =>
               IF At(s, "sign") THEN Resolved(r) ELSE ~SignedOff(r)

\* Lines that are ready are resolved, every one.
LEMMA ReadyIsResolved ==
    ASSUME PilotTypeOK, NEW r \in Runs, cycle[r] # NULL, Ready(cycle[r].lines)
    PROVE  Resolved(r)
<1>1. cycle[r].lines \in Lines BY DEF PilotTypeOK, CycleRow
<1>2. PICK K \in SUBSET Keys : cycle[r].lines \in [K -> BOOLEAN] BY <1>1 DEF Lines
<1>3. DOMAIN cycle[r].lines # {} /\ \A k \in DOMAIN cycle[r].lines : cycle[r].lines[k] = TRUE
  BY <1>2 DEF Ready
<1> QED BY <1>3 DEF Resolved

\* A step that leaves the rows alone and begins no request about a cycle.
LEMMA SignKept ==
    ASSUME SignInv, overtaken' = overtaken,
           \A r \in Runs : cycle'[r] = cycle[r] \/ ~SignedOff(r)',
           \A r \in Runs, s \in PilotSlots : Works(s, r)' =>
               Works(s, r) /\ (At(s, "sign")' <=> At(s, "sign")) /\ cycle'[r] = cycle[r]
    PROVE  SignInv'
<1> SUFFICES ASSUME NEW r \in Runs \ overtaken
             PROVE  /\ SignedOff(r)' => Resolved(r)'
                    /\ \A s, t \in PilotSlots : Works(s, r)' /\ Works(t, r)' => s = t
                    /\ \A s \in PilotSlots : Works(s, r)' =>
                           IF At(s, "sign")' THEN Resolved(r)' ELSE ~SignedOff(r)'
  BY DEF SignInv
<1>1. cycle'[r] = cycle[r] => (Resolved(r)' <=> Resolved(r)) /\ (SignedOff(r)' <=> SignedOff(r))
  BY DEF Resolved, SignedOff
<1> QED BY <1>1 DEF SignInv

\* A request begins: whoever else is about the cycle has been overtaken.
LEMMA SignEntered ==
    ASSUME PilotTypeOK, SignInv, NEW s \in PilotSlots, NEW r \in Runs, NEW op, Enter(s, r, op),
           cycle' = cycle, op.run = r, op.at \in {"delete", "sign"},
           IF op.at = "sign" THEN Resolved(r) ELSE ~SignedOff(r)
    PROVE  SignInv'
<1> SUFFICES ASSUME NEW q \in Runs \ overtaken'
             PROVE  /\ SignedOff(q) => Resolved(q)
                    /\ \A t, u \in PilotSlots : Works(t, q)' /\ Works(u, q)' => t = u
                    /\ \A t \in PilotSlots : Works(t, q)' =>
                           IF At(t, "sign")' THEN Resolved(q) ELSE ~SignedOff(q)
  BY DEF SignInv, SignedOff, Resolved
<1>1. q \in Runs \ overtaken BY DEF Enter
<1>2. pilotOp'[s] = op /\ \A t \in PilotSlots \ {s} : pilotOp'[t] = pilotOp[t]
  BY DEF Enter, Go, PilotTypeOK
<1>3. \A t \in PilotSlots \ {s} : (Works(t, q)' <=> Works(t, q)) /\ (At(t, "sign")' <=> At(t, "sign"))
  BY <1>2 DEF Works, At
<1>4. CASE q = r
  <2>1. \A t \in PilotSlots \ {s} : ~Works(t, q) BY <1>4 DEF Enter, Works
  <2> QED BY <1>1, <1>2, <1>3, <1>4, <2>1 DEF SignInv, Works, At
<1>5. CASE q # r
  <2>1. ~Works(s, q)' BY <1>2, <1>5 DEF Works
  <2> QED BY <1>1, <1>3, <2>1 DEF SignInv
<1> QED BY <1>4, <1>5

LEMMA SignStep == PilotTypeOK /\ SignInv /\ [PilotNext]_pilotVars => SignInv'
<1> SUFFICES ASSUME PilotTypeOK, SignInv, [PilotNext]_pilotVars PROVE SignInv' OBVIOUS
<1>1. CASE UNCHANGED pilotVars
  <2>1. UNCHANGED <<pilotOp, cycle, overtaken>> BY <1>1 DEF pilotVars
  <2>2. \A r \in Runs, s \in PilotSlots : Works(s, r)' =>
            Works(s, r) /\ (At(s, "sign")' <=> At(s, "sign"))
    BY <2>1 DEF Works, At
  <2> QED BY <2>1, <2>2, SignKept
<1>2. ASSUME NEW s \in PilotSlots, PilotStep(s) PROVE SignInv'
  <2>0. DOMAIN pilotOp = PilotSlots BY DEF PilotTypeOK
  <2>1. CASE Reconcile(s)
    <3>1. PICK r \in Runs : /\ cycle[r] # NULL /\ cycle[r].status # "SIGNED_OFF"
                            /\ \E new \in Outcomes[pilot[cycle[r].pilot].members] :
                                   Enter(s, r, [at |-> "delete", run |-> r, new |-> new])
      BY <2>1 DEF Reconcile
    <3>2. PICK new : Enter(s, r, [at |-> "delete", run |-> r, new |-> new]) BY <3>1
    <3>3. PICK op : op = [at |-> "delete", run |-> r, new |-> new] OBVIOUS
    <3>4. op.at = "delete" /\ op.run = r /\ Enter(s, r, op) BY <3>2, <3>3
    <3>5. cycle' = cycle /\ ~SignedOff(r) BY <2>1, <3>1 DEF Reconcile, SignedOff
    <3> QED BY <3>4, <3>5, SignEntered
  <2>2. CASE SignOff(s)
    <3>1. PICK r \in Runs : /\ cycle[r] # NULL /\ Ready(cycle[r].lines)
                            /\ Enter(s, r, [at |-> "sign", run |-> r])
      BY <2>2 DEF SignOff
    <3>2. Resolved(r) BY <3>1, ReadyIsResolved
    <3>3. cycle' = cycle BY <2>2 DEF SignOff
    <3> QED BY <3>1, <3>2, <3>3, SignEntered
  <2>3. CASE DeleteLines(s)
    <3>1. UNCHANGED <<cycle, overtaken>> BY <2>3 DEF DeleteLines
    <3>2. \A r \in Runs, t \in PilotSlots : Works(t, r)' =>
              Works(t, r) /\ (At(t, "sign")' <=> At(t, "sign"))
      BY <2>0, <2>3 DEF DeleteLines, Go, Works, At
    <3> QED BY <3>1, <3>2, SignKept
  <2>4. CASE InsertCycle(s)
    <3>0. PICK o : o = pilotOp[s] OBVIOUS
    <3>1. /\ o.run \in Runs /\ cycle[o.run] = NULL /\ cycle'[o.run].status = "OPEN"
          /\ \A r \in Runs \ {o.run} : cycle'[r] = cycle[r]
          /\ Go(s, [at |-> "opened", run |-> o.run])
          /\ overtaken' = overtaken
      BY <2>4, <3>0, InsertEffect
    <3>2. \A r \in Runs : cycle'[r] = cycle[r] \/ ~SignedOff(r)' BY <3>1 DEF SignedOff
    <3>3. \A r \in Runs, t \in PilotSlots : Works(t, r) => cycle[r] # NULL
      BY DEF PilotTypeOK, PilotOpOK, Works
    <3>4. \A r \in Runs, t \in PilotSlots : Works(t, r)' =>
              Works(t, r) /\ (At(t, "sign")' <=> At(t, "sign"))
      BY <2>0, <3>1 DEF Go, Works, At
    <3>5. \A r \in Runs, t \in PilotSlots : Works(t, r)' => cycle'[r] = cycle[r]
      BY <3>1, <3>3, <3>4
    <3> QED BY <3>1, <3>2, <3>4, <3>5, SignKept
  <2>5. CASE CommitLines(s)
    <3>0. PICK o : o = pilotOp[s] OBVIOUS
    <3>1. /\ o.run \in Runs /\ o.at = "commit" /\ cycle'[o.run].status = "RECONCILED"
          /\ \A r \in Runs \ {o.run} : cycle'[r] = cycle[r]
          /\ overtaken' = overtaken
      BY <2>5, <3>0, CommitEffect
    <3>2. ASSUME NEW t \in PilotSlots
          PROVE  \/ t = s /\ pilotOp'[t] = NoPilotOp
                 \/ t # s /\ pilotOp'[t] = pilotOp[t]
                 \/ /\ t # s /\ pilotOp[t].at = "commit" /\ pilotOp[t].run = o.run
                    /\ pilotOp'[t].at = "commit" /\ pilotOp'[t].run = o.run
      <4>1. CASE t = s BY <2>5, <4>1 DEF CommitLines
      <4>2. CASE t # s /\ ~(At(t, "commit") /\ pilotOp[t].run = o.run)
        BY <2>5, <3>0, <4>2 DEF CommitLines
      <4>3. CASE t # s /\ At(t, "commit") /\ pilotOp[t].run = o.run
        <5>1. \E g : pilotOp'[t] = [at |-> "commit", run |-> o.run,
                                    new |-> pilotOp[t].new, gone |-> g]
          BY <2>5, <3>0, <4>3 DEF CommitLines
        <5> QED BY <4>3, <5>1 DEF At
      <4> QED BY <4>1, <4>2, <4>3
    <3>3. \A r \in Runs, t \in PilotSlots : Works(t, r)' =>
              t # s /\ Works(t, r) /\ (At(t, "sign")' <=> At(t, "sign"))
      BY <3>2 DEF Works, At, NoPilotOp
    <3>4. ASSUME NEW r \in Runs \ overtaken
          PROVE  /\ SignedOff(r)' => Resolved(r)'
                 /\ \A t, u \in PilotSlots : Works(t, r)' /\ Works(u, r)' => t = u
                 /\ \A t \in PilotSlots : Works(t, r)' =>
                        IF At(t, "sign")' THEN Resolved(r)' ELSE ~SignedOff(r)'
      <4>1. CASE r = o.run
        <5>1. Works(s, r) BY <3>0, <3>1, <4>1 DEF Works
        <5>2. \A t \in PilotSlots : ~Works(t, r)' BY <3>3, <5>1 DEF SignInv
        <5>3. ~SignedOff(r)' BY <3>1, <4>1 DEF SignedOff
        <5> QED BY <5>2, <5>3
      <4>2. CASE r # o.run
        <5>1. cycle'[r] = cycle[r] BY <3>1, <4>2
        <5>2. (Resolved(r)' <=> Resolved(r)) /\ (SignedOff(r)' <=> SignedOff(r))
          BY <5>1 DEF Resolved, SignedOff
        <5> QED BY <3>3, <5>2 DEF SignInv
      <4> QED BY <4>1, <4>2
    <3> QED BY <3>1, <3>4 DEF SignInv
  <2>6. CASE Sign(s)
    <3>0. PICK o : o = pilotOp[s] OBVIOUS
    <3>1. /\ o.run \in Runs /\ o.at = "sign" /\ cycle'[o.run].lines = cycle[o.run].lines
          /\ \A r \in Runs \ {o.run} : cycle'[r] = cycle[r]
          /\ Go(s, [at |-> "tally", run |-> o.run])
          /\ overtaken' = overtaken
      BY <2>6, <3>0, SignEffect
    <3>2. \A r \in Runs, t \in PilotSlots : Works(t, r)' =>
              t # s /\ Works(t, r) /\ (At(t, "sign")' <=> At(t, "sign"))
      BY <2>0, <3>1 DEF Go, Works, At
    <3>3. ASSUME NEW r \in Runs \ overtaken
          PROVE  /\ SignedOff(r)' => Resolved(r)'
                 /\ \A t, u \in PilotSlots : Works(t, r)' /\ Works(u, r)' => t = u
                 /\ \A t \in PilotSlots : Works(t, r)' =>
                        IF At(t, "sign")' THEN Resolved(r)' ELSE ~SignedOff(r)'
      <4>1. CASE r = o.run
        <5>1. Works(s, r) /\ At(s, "sign") BY <3>0, <3>1, <4>1 DEF Works, At
        <5>2. \A t \in PilotSlots : ~Works(t, r)' BY <3>2, <5>1 DEF SignInv
        <5>3. Resolved(r) BY <5>1 DEF SignInv
        <5>4. Resolved(r)' BY <3>1, <4>1, <5>3 DEF Resolved
        <5> QED BY <5>2, <5>4
      <4>2. CASE r # o.run
        <5>1. cycle'[r] = cycle[r] BY <3>1, <4>2
        <5>2. (Resolved(r)' <=> Resolved(r)) /\ (SignedOff(r)' <=> SignedOff(r))
          BY <5>1 DEF Resolved, SignedOff
        <5> QED BY <3>2, <5>2 DEF SignInv
      <4> QED BY <4>1, <4>2
    <3> QED BY <3>1, <3>3 DEF SignInv
  <2>7. CASE \/ CreatePilot(s) \/ AuditPilot(s) \/ OpenCycle(s) \/ CountCycles(s) \/ AuditCycle(s)
             \/ Tally(s) \/ Complete(s) \/ AuditSignOff(s) \/ PilotFail(s)
    <3>1. UNCHANGED <<cycle, overtaken>>
      BY <2>7 DEF CreatePilot, AuditPilot, OpenCycle, CountCycles, AuditCycle, Tally, Complete,
                  AuditSignOff, PilotFail
    <3>2. \A t \in PilotSlots : \/ pilotOp'[t] = pilotOp[t]
                                \/ pilotOp'[t].at \notin {"delete", "commit", "sign"}
      BY <2>0, <2>7 DEF CreatePilot, AuditPilot, OpenCycle, CountCycles, AuditCycle, Tally, Complete,
                        AuditSignOff, PilotFail, Go, Done, NoPilotOp
    <3>3. \A r \in Runs, t \in PilotSlots : Works(t, r)' =>
              Works(t, r) /\ (At(t, "sign")' <=> At(t, "sign"))
      BY <3>2 DEF Works, At
    <3> QED BY <3>1, <3>3, SignKept
  <2> QED BY <1>2, <2>1, <2>2, <2>3, <2>4, <2>5, <2>6, <2>7 DEF PilotStep
<1> QED BY <1>1, <1>2 DEF PilotNext

\* A signed cycle has lines and every one is within the tolerance, for any
\* number of requests, unless two about the cycle overlapped.
THEOREM SignedIsResolved == PilotSpec => []SignOffOfResolved
<1>1. PilotInit => SignInv BY DEF PilotInit, SignInv, SignedOff, Works, NoPilotOp
<1>2. SignInv => SignOffOfResolved BY DEF SignInv, SignOffOfResolved, SignedOff, Resolved
<1> QED BY <1>1, <1>2, PilotTypes, SignStep, PTL DEF PilotSpec
---------------------------------------------------------------------------
(* What the overview shows. Signed cycles only grow in number while no two  *)
(* requests about a cycle of the pilot overlap, so a completed pilot keeps  *)
(* the cycles it was completed for, and whoever reads its status first and  *)
(* its cycles later finds them.                                            *)

SignedCount(p) == Cardinality(Signed(p))
Disturbed(p)   == \E r \in overtaken : cycle[r].pilot = p

CompletedInv ==
    /\ \A r \in overtaken : cycle[r] # NULL
    /\ \A p \in Pilots : ~Disturbed(p) =>
           /\ pilot[p] # NULL /\ pilot[p].status = "COMPLETED" => SignedCount(p) >= Target
           /\ \A s \in PilotSlots : At(s, "complete") /\ cycle[pilotOp[s].run].pilot = p =>
                  SignedCount(p) >= Target

LEMMA RowsKept ==
    ASSUME PilotTypeOK, NEW s \in PilotSlots, PilotStep(s)
    PROVE  \A r \in Runs : cycle[r] # NULL => cycle'[r] # NULL /\ cycle'[r].pilot = cycle[r].pilot
<1>1. CASE InsertCycle(s)
  <2>0. PICK o : o = pilotOp[s] OBVIOUS
  <2>1. cycle[o.run] = NULL /\ \A r \in Runs \ {o.run} : cycle'[r] = cycle[r]
    BY <1>1, <2>0, InsertEffect
  <2> QED BY <2>1
<1> QED BY <1>1, NumbersStay

\* Pilots are created active and only completed by the step that does so.
LEMMA PilotEffect ==
    ASSUME PilotTypeOK, NEW s \in PilotSlots, PilotStep(s), NEW p \in Pilots
    PROVE  \/ pilot'[p] = pilot[p]
           \/ pilot[p] = NULL /\ pilot'[p] # NULL /\ pilot'[p].status = "ACTIVE"
           \/ /\ pilot[p] # NULL /\ pilot'[p] # NULL /\ pilot'[p].status = "COMPLETED"
              /\ At(s, "complete") /\ cycle[pilotOp[s].run].pilot = p
<1>1. CASE CreatePilot(s)
  <2>1. PICK q \in Pilots, members \in (SUBSET People) \ {{}} :
            /\ pilot[q] = NULL
            /\ pilot' = [pilot EXCEPT ![q] = [status |-> "ACTIVE", members |-> members]]
    BY <1>1 DEF CreatePilot
  <2>2. [status |-> "ACTIVE", members |-> members] \in PilotRow BY DEF PilotRow
  <2> QED BY <2>1, <2>2, NullAssumption DEF PilotTypeOK
<1>2. CASE Complete(s)
  <2>0. PICK o, q : o = pilotOp[s] /\ q = cycle[o.run].pilot OBVIOUS
  <2>1. /\ o.at = "complete" /\ o.run \in Runs /\ cycle[o.run] # NULL
        /\ pilot' = [pilot EXCEPT ![q].status = "COMPLETED"]
    BY <1>2, <2>0 DEF Complete, At, PilotTypeOK, PilotOpOK
  <2>2. q \in Pilots /\ pilot[q] \in PilotRow /\ pilot[q] # NULL
    BY <2>0, <2>1, NullAssumption DEF PilotTypeOK, CycleRow
  <2>3. /\ pilot'[q].status = "COMPLETED" /\ pilot'[q] \in PilotRow
        /\ \A r \in Pilots \ {q} : pilot'[r] = pilot[r]
    BY <2>1, <2>2 DEF PilotTypeOK, PilotRow
  <2> QED BY <2>0, <2>1, <2>2, <2>3, NullAssumption DEF At
<1>3. CASE ~CreatePilot(s) /\ ~Complete(s)
  BY <1>3 DEF PilotStep, AuditPilot, OpenCycle, CountCycles, InsertCycle, AuditCycle, Reconcile,
              DeleteLines, CommitLines, SignOff, Sign, Tally, AuditSignOff, PilotFail
<1> QED BY <1>1, <1>2, <1>3

\* Only requests about a cycle there is overtake one another.
LEMMA OvertakenRows ==
    ASSUME PilotTypeOK, NEW s \in PilotSlots, PilotStep(s), \A r \in overtaken : cycle[r] # NULL
    PROVE  overtaken \subseteq overtaken' /\ \A r \in overtaken' : cycle'[r] # NULL
<1>1. overtaken \subseteq Runs BY DEF PilotTypeOK
<1>2. CASE Reconcile(s)
  <2>1. PICK r \in Runs : /\ cycle[r] # NULL
                          /\ \E new \in Outcomes[pilot[cycle[r].pilot].members] :
                                 Enter(s, r, [at |-> "delete", run |-> r, new |-> new])
    BY <1>2 DEF Reconcile
  <2>2. cycle' = cycle BY <1>2 DEF Reconcile
  <2> QED BY <1>1, <2>1, <2>2 DEF Enter
<1>3. CASE SignOff(s)
  <2>1. PICK r \in Runs : cycle[r] # NULL /\ Enter(s, r, [at |-> "sign", run |-> r])
    BY <1>3 DEF SignOff
  <2>2. cycle' = cycle BY <1>3 DEF SignOff
  <2> QED BY <1>1, <2>1, <2>2 DEF Enter
<1>4. CASE ~Reconcile(s) /\ ~SignOff(s)
  <2>1. overtaken' = overtaken
    BY <1>4 DEF PilotStep, CreatePilot, AuditPilot, OpenCycle, CountCycles, InsertCycle, AuditCycle,
                DeleteLines, CommitLines, Sign, Tally, Complete, AuditSignOff, PilotFail
  <2> QED BY <1>1, <2>1, RowsKept
<1> QED BY <1>2, <1>3, <1>4

\* An undisturbed pilot loses no signed cycle.
LEMMA SignedGrows ==
    ASSUME PilotTypeOK, SignInv, \A r \in overtaken : cycle[r] # NULL,
           NEW s \in PilotSlots, PilotStep(s), NEW p \in Pilots, ~Disturbed(p)'
    PROVE  /\ ~Disturbed(p)
           /\ SignedCount(p) \in Nat /\ SignedCount(p)' \in Nat
           /\ SignedCount(p) <= SignedCount(p)'
<1>1. overtaken \subseteq overtaken' /\ overtaken \subseteq Runs /\ overtaken' \subseteq Runs
  BY OvertakenRows, TypeStep DEF PilotTypeOK, PilotNext
<1>2. ~Disturbed(p) BY <1>1, RowsKept DEF Disturbed
<1>3. Signed(p) \subseteq Signed(p)'
  <2> SUFFICES ASSUME NEW r \in Runs, SignedOff(r), cycle[r].pilot = p
               PROVE  SignedOff(r)'
    BY RowsKept DEF Signed, CyclesOf, SignedOff
  <2>1. r \notin overtaken BY <1>2 DEF Disturbed
  <2>2. CASE CommitLines(s)
    <3>0. PICK o : o = pilotOp[s] OBVIOUS
    <3>1. /\ o.run \in Runs /\ o.at = "commit" /\ \A q \in Runs \ {o.run} : cycle'[q] = cycle[q]
      BY <2>2, <3>0, CommitEffect
    <3>2. r # o.run BY <2>1, <3>0, <3>1 DEF SignInv, Works, At
    <3> QED BY <3>1, <3>2 DEF SignedOff
  <2>3. CASE Sign(s)
    <3>0. PICK o : o = pilotOp[s] OBVIOUS
    <3>1. /\ o.run \in Runs /\ cycle'[o.run].status = "SIGNED_OFF" /\ cycle'[o.run] # NULL
          /\ \A q \in Runs \ {o.run} : cycle'[q] = cycle[q]
      BY <2>3, <3>0, SignEffect
    <3> QED BY <3>1 DEF SignedOff
  <2>4. CASE InsertCycle(s)
    <3>0. PICK o : o = pilotOp[s] OBVIOUS
    <3>1. cycle[o.run] = NULL /\ \A q \in Runs \ {o.run} : cycle'[q] = cycle[q]
      BY <2>4, <3>0, InsertEffect
    <3> QED BY <3>1 DEF SignedOff
  <2>5. CASE ~CommitLines(s) /\ ~Sign(s) /\ ~InsertCycle(s)
    <3>1. cycle' = cycle
      BY <2>5 DEF PilotStep, CreatePilot, AuditPilot, OpenCycle, CountCycles, AuditCycle, Reconcile,
                  DeleteLines, SignOff, Tally, Complete, AuditSignOff, PilotFail
    <3> QED BY <3>1 DEF SignedOff
  <2> QED BY <2>2, <2>3, <2>4, <2>5
<1>4. Signed(p) \subseteq Runs /\ Signed(p)' \subseteq Runs BY DEF Signed, CyclesOf
<1>5. IsFiniteSet(Signed(p)) /\ IsFiniteSet(Signed(p)')
  BY <1>4, FS_Subset, PilotAssumption
<1> QED BY <1>2, <1>3, <1>5, FS_Subset, FS_CardinalityType DEF SignedCount

LEMMA CompletedStep ==
    PilotTypeOK /\ SignInv /\ CompletedInv /\ [PilotNext]_pilotVars => CompletedInv'
<1> SUFFICES ASSUME PilotTypeOK, SignInv, CompletedInv, [PilotNext]_pilotVars PROVE CompletedInv'
  OBVIOUS
<1>1. CASE UNCHANGED pilotVars
  <2>1. UNCHANGED <<pilot, cycle, pilotOp, overtaken>> BY <1>1 DEF pilotVars
  <2>2. \A p : SignedCount(p)' = SignedCount(p) /\ (Disturbed(p)' <=> Disturbed(p))
    BY <2>1 DEF SignedCount, Signed, CyclesOf, Disturbed
  <2> QED BY <2>1, <2>2 DEF CompletedInv, At
<1>2. ASSUME NEW s \in PilotSlots, PilotStep(s) PROVE CompletedInv'
  <2>0. DOMAIN pilotOp = PilotSlots BY DEF PilotTypeOK
  <2>1. \A r \in overtaken : cycle[r] # NULL BY DEF CompletedInv
  <2>2. \A r \in overtaken' : cycle'[r] # NULL BY <1>2, <2>1, OvertakenRows
  <2>3. ASSUME NEW p \in Pilots, ~Disturbed(p)'
        PROVE  /\ pilot'[p] # NULL /\ pilot'[p].status = "COMPLETED" => SignedCount(p)' >= Target
               /\ \A t \in PilotSlots : At(t, "complete")' /\ cycle'[pilotOp'[t].run].pilot = p =>
                      SignedCount(p)' >= Target
    <3>1. /\ ~Disturbed(p)
          /\ SignedCount(p) \in Nat /\ SignedCount(p)' \in Nat /\ SignedCount(p) <= SignedCount(p)'
      BY <1>2, <2>1, <2>3, SignedGrows
    <3>2. Target \in Nat BY PilotAssumption
    <3>3. SignedCount(p) >= Target => SignedCount(p)' >= Target BY <3>1, <3>2
    <3>4. ASSUME pilot'[p] # NULL, pilot'[p].status = "COMPLETED" PROVE SignedCount(p)' >= Target
      <4>1. \/ pilot'[p] = pilot[p]
            \/ At(s, "complete") /\ cycle[pilotOp[s].run].pilot = p
        BY <1>2, <3>4, PilotEffect
      <4> QED BY <3>1, <3>3, <3>4, <4>1 DEF CompletedInv
    <3>5. ASSUME NEW t \in PilotSlots, At(t, "complete")', cycle'[pilotOp'[t].run].pilot = p
          PROVE  SignedCount(p)' >= Target
      <4>1. CASE pilotOp'[t] = pilotOp[t]
        <5>1. At(t, "complete") BY <3>5, <4>1 DEF At
        <5>2. pilotOp[t].run \in Runs /\ cycle[pilotOp[t].run] # NULL
          BY <5>1 DEF PilotTypeOK, PilotOpOK, At
        <5>3. cycle[pilotOp[t].run].pilot = p BY <1>2, <3>5, <4>1, <5>2, RowsKept
        <5> QED BY <3>1, <3>3, <5>1, <5>3 DEF CompletedInv
      <4>2. CASE pilotOp'[t] # pilotOp[t]
        <5>0. PICK o, q : o = pilotOp[s] /\ q = cycle[o.run].pilot OBVIOUS
        <5>1. CASE Tally(s)
          <6>1. Go(s, [at |-> IF SignedCount(q) >= Target THEN "complete" ELSE "signed",
                       run |-> o.run])
            BY <5>0, <5>1 DEF Tally, SignedCount
          <6>2. t = s /\ pilotOp'[t].run = o.run /\ SignedCount(q) >= Target
            BY <2>0, <3>5, <4>2, <6>1 DEF Go, At
          <6>3. cycle' = cycle BY <5>1 DEF Tally
          <6>4. q = p BY <3>5, <5>0, <6>2, <6>3
          <6> QED BY <3>3, <6>2, <6>4
        <5>2. CASE CommitLines(s)
          <6>1. ~At(t, "complete")'
            BY <5>2, <4>2 DEF CommitLines, NoPilotOp, At
          <6> QED BY <3>5, <6>1
        <5>3. CASE ~Tally(s) /\ ~CommitLines(s)
          <6>1. ~At(t, "complete")'
            <7>1. CASE \/ CreatePilot(s) \/ AuditPilot(s) \/ OpenCycle(s) \/ CountCycles(s)
                       \/ InsertCycle(s) \/ AuditCycle(s)
              BY <2>0, <4>2, <7>1
                 DEF CreatePilot, AuditPilot, OpenCycle, CountCycles, InsertCycle, AuditCycle,
                     Done, Go, Enter, NoPilotOp, At
            <7>2. CASE \/ Reconcile(s) \/ DeleteLines(s) \/ SignOff(s) \/ Sign(s)
                       \/ Complete(s) \/ AuditSignOff(s) \/ PilotFail(s)
              BY <2>0, <4>2, <7>2
                 DEF Reconcile, DeleteLines, SignOff, Sign, Complete, AuditSignOff, PilotFail,
                     Done, Go, Enter, NoPilotOp, At
            <7> QED BY <1>2, <5>3, <7>1, <7>2 DEF PilotStep
          <6> QED BY <3>5, <6>1
        <5> QED BY <5>1, <5>2, <5>3
      <4> QED BY <4>1, <4>2
    <3> QED BY <3>4, <3>5
  <2> QED BY <2>2, <2>3 DEF CompletedInv
<1> QED BY <1>1, <1>2 DEF PilotNext
---------------------------------------------------------------------------
\* A finite set of numbers has a largest.
LEMMA MaxIsMember ==
    ASSUME NEW S \in SUBSET Int, IsFiniteSet(S), S # {}
    PROVE  Max(S) \in S /\ \A y \in S : Max(S) >= y
<1> DEFINE Above(x) == {y \in S : y > x}
           T == {Above(x) : x \in S}
<1>1. T \subseteq FiniteSubsetsOf(S) /\ T # {}
  <2>1. \A x \in S : Above(x) \in FiniteSubsetsOf(S) BY FS_Subset DEF FiniteSubsetsOf
  <2> QED BY <2>1
<1>2. PICK A \in T : \A B \in T : <<B, A>> \notin StrictSubsetOrdering(S)
  <2> HIDE DEF T
  <2> QED BY <1>1, WFMin, FS_StrictSubsetOrderingWellFounded
<1>3. PICK x \in S : A = Above(x) BY <1>2
<1>4. ASSUME NEW y \in S PROVE x >= y
  <2>1. CASE y > x
    <3>1. x \in Int /\ y \in Int /\ \A z \in S : z \in Int OBVIOUS
    <3>2. Above(y) \subseteq Above(x)
      <4> SUFFICES ASSUME NEW z \in S, z > y PROVE z > x OBVIOUS
      <4> QED BY <2>1, <3>1
    <3>3. y \in Above(x) /\ y \notin Above(y) BY <2>1, <3>1
    <3>4. <<Above(y), Above(x)>> \in StrictSubsetOrdering(S)
      BY <3>2, <3>3 DEF StrictSubsetOrdering
    <3> QED BY <1>2, <1>3, <3>4
  <2>2. x \in Int /\ y \in Int OBVIOUS
  <2> QED BY <2>1, <2>2
<1> QED BY <1>4 DEF Max

\* The profile that begins last is one of the table.
LEMMA LastProfileTyped ==
    ASSUME CompTypeOK, NEW e
    PROVE  LastProfile(e) \in Profiles \cup {NULL}
<1> DEFINE S == ProfilesOf(e)
           F == {profile[q].from : q \in S}
<1>1. CASE S = {} BY <1>1 DEF LastProfile
<1>2. CASE S # {}
  <2>1. \A q \in S : q \in Profiles /\ profile[q].from \in Days
    BY DEF ProfilesOf, CompTypeOK, ProfileRow, Period
  <2>2. IsFiniteSet(Days) /\ Days \subseteq Int
    BY CompensationAssumption, FS_Interval DEF Days
  <2>3. F \in SUBSET Int /\ IsFiniteSet(F) /\ F # {}
    <3>1. F \subseteq Days BY <2>1
    <3>2. F # {} BY <1>2
    <3> HIDE DEF F
    <3> QED BY <2>2, <3>1, <3>2, FS_Subset
  <2>4. Max(F) \in F /\ \A y \in F : Max(F) >= y
    <3> HIDE DEF F
    <3> QED BY <2>3, MaxIsMember
  <2>5. PICK p \in S : profile[p].from = Max(F) BY <2>4
  <2>6. \A q \in S : profile[q].from <= profile[p].from
    <3> SUFFICES ASSUME NEW q \in S PROVE profile[q].from <= profile[p].from OBVIOUS
    <3>1. profile[q].from \in F BY DEF F
    <3>2. profile[q].from \in Int /\ profile[p].from \in Int BY <2>1, <2>2
    <3>3. profile[p].from >= profile[q].from BY <2>4, <2>5, <3>1
    <3> QED BY <3>2, <3>3
  <2>7. LastProfile(e) \in S BY <1>2, <2>6 DEF LastProfile
  <2> QED BY <2>1, <2>7
<1> QED BY <1>1, <1>2

\* The cycles are read after the status: what the status says still holds of
\* the pilot, and of the cycles once they are read.
ViewOK(v) ==
    \/ v = NoView
    \/ /\ v \in Overviews
       /\ v.at = "shown" => v.pending = {}
       /\ "pilot" \in v.pending => v.pilot = NULL /\ "cycles" \in v.pending
       /\ v.pilot # NULL => pilot[v.pilot] # NULL
       /\ v.pilot # NULL /\ v.status = "COMPLETED" =>
              /\ pilot[v.pilot].status = "COMPLETED"
              /\ "cycles" \notin v.pending /\ ~Disturbed(v.pilot) => v.signed >= Target

RecordsInv ==
    /\ CompInv /\ PilotTypeOK /\ SignInv /\ CompletedInv
    /\ CompTypeOK
    /\ runOf \subseteq Viewers /\ device \in [Phones -> Viewers \cup {NULL}]
    /\ view \in [Viewers -> Overviews \cup {NoView}]
    /\ \A e \in Viewers : ViewOK(view[e])

\* The audit rows and the history of the compensation requests.
LEMMA CompHistory ==
    ASSUME CompInv, CompTypeOK, CompNext
    PROVE  CompTypeOK'
<1>0. PICK s \in CompSlots : CompStep(s) BY DEF CompNext
<1> SUFFICES /\ compAudit' \subseteq Profiles \X Days /\ raced' \subseteq People
             /\ compOp' = [t \in CompSlots |-> compOp'[t]]
  <2>1. CompInv' BY CompStepKeeps
  <2>2. \A t \in CompSlots : compOp'[t] \in CompOps \cup {NoCompOp}
    BY <2>1 DEF CompInv, OpSound
  <2> QED BY <2>1, <2>2 DEF CompTypeOK, CompInv
<1> USE DEF CompTypeOK
<1>1. CASE CompCreate(s)
  <2>1. PICK e \in People, from \in Days, to \in Days \cup {Forever} :
            StartCheck(s, NULL, [employee |-> e, from |-> from, to |-> to])
    BY <1>1 DEF CompCreate
  <2> QED BY <2>1 DEF StartCheck
<1>2. CASE CompUpdate(s)
  <2>1. PICK p, from, to :
            /\ p \in Profiles /\ profile[p] # NULL
            /\ StartCheck(s, p, [profile[p] EXCEPT !.from = from, !.to = to])
    BY <1>2 DEF CompUpdate
  <2>2. profile[p] \in Period BY <2>1 DEF CompInv, ProfileRow
  <2>3. [profile[p] EXCEPT !.from = from, !.to = to].employee \in People BY <2>2 DEF Period
  <2> QED BY <2>1, <2>3 DEF StartCheck
<1>3. CASE CompAudit(s)
  <2>1. OpSound(compOp[s]) /\ compOp[s].at = "audit" BY <1>3 DEF CompInv, CompAudit
  <2>2. compOp[s].id \in Profiles /\ compOp[s].row.from \in Days
    BY <2>1 DEF OpSound, NoCompOp, CompOps, Period
  <2>3. compAudit' \subseteq Profiles \X Days BY <1>3, <2>2 DEF CompAudit
  <2>4. raced' \subseteq People BY <1>3 DEF CompAudit
  <2>5. compOp' = [t \in CompSlots |-> compOp'[t]] BY <1>3 DEF CompAudit
  <2> QED BY <2>3, <2>4, <2>5
<1>4. CASE CompCheck(s) \/ CompWrite(s) \/ CompFail(s)
  <2>1. CASE CompCheck(s) BY <2>1 DEF CompCheck
  <2>2. CASE CompFail(s) BY <2>2 DEF CompFail
  <2>3. CASE CompWrite(s)
    <3>1. PICK id : Store(s, id) BY <2>3 DEF CompWrite
    <3> QED BY <3>1 DEF Store
  <2> QED BY <1>4, <2>1, <2>2, <2>3
<1> QED BY <1>0, <1>1, <1>2, <1>3, <1>4 DEF CompStep

\* A step of the pilots makes nothing untrue that has been read.
LEMMA ViewKept ==
    ASSUME PilotTypeOK, SignInv, CompletedInv, PilotNext, NEW v, ViewOK(v)
    PROVE  ViewOK(v)'
<1> SUFFICES ASSUME v # NoView PROVE ViewOK(v)' BY DEF ViewOK
<1>1. PICK s \in PilotSlots : PilotStep(s) BY DEF PilotNext
<1>2. v \in Overviews BY DEF ViewOK
<1>3. CASE v.pilot = NULL BY <1>2, <1>3 DEF ViewOK
<1>4. CASE v.pilot # NULL
  <2>1. v.pilot \in Pilots BY <1>2, <1>4 DEF Overviews, Queries
  <2>2. pilot[v.pilot] # NULL BY <1>4 DEF ViewOK
  <2>3. /\ pilot'[v.pilot] # NULL
        /\ pilot'[v.pilot] = pilot[v.pilot] \/ pilot'[v.pilot].status = "COMPLETED"
    BY <1>1, <2>1, <2>2, PilotEffect
  <2>4. Disturbed(v.pilot) => Disturbed(v.pilot)'
    <3>1. \A r \in overtaken : cycle[r] # NULL BY DEF CompletedInv
    <3> QED BY <1>1, <2>1, <3>1, SignedGrows
  <2> QED BY <1>2, <1>4, <2>3, <2>4 DEF ViewOK
<1> QED BY <1>3, <1>4

\* A step of the overview: of one employee, with what the rows say then.
LEMMA ViewStep ==
    ASSUME RecordsInv, OverviewNext, UNCHANGED <<compVars, pilotVars>>
    PROVE  /\ view' \in [Viewers -> Overviews \cup {NoView}] /\ (\A e \in Viewers : ViewOK(view[e]))'
           /\ runOf' \subseteq Viewers /\ device' \in [Phones -> Viewers \cup {NULL}]
<1>1. PICK e \in Viewers : OverviewStep(e) BY DEF OverviewNext
<1>2. PICK v : v = view[e] OBVIOUS
<1>3. ViewOK(v) BY <1>2 DEF RecordsInv
<1> DEFINE Read == UNCHANGED view \/ \E w \in Overviews \cup {NoView} : Answer(e, w) /\ ViewOK(w)
<1>4. Read
  <2>1. CASE AskOverview(e)
    <3>1. PICK w : w = [at |-> "queries", pending |-> Queries, pilot |-> NULL, status |-> NULL,
                        signed |-> 0, run |-> FALSE, profile |-> NULL]
      OBVIOUS
    <3>2. w \in Overviews BY <3>1 DEF Overviews, Queries
    <3>3. ViewOK(w) BY <3>1, <3>2 DEF ViewOK, Queries
    <3> QED BY <2>1, <3>1, <3>2, <3>3 DEF AskOverview
  <2>2. CASE DropOverview(e) BY <2>2 DEF DropOverview, ViewOK
  <2>3. CASE ReadPilot(e)
    <3>1. v # NoView /\ v \in Overviews /\ v.at = "queries" /\ "pilot" \in v.pending
      BY <1>2, <1>3, <2>3 DEF ReadPilot, Pending, NoView, ViewOK
    <3>2. CASE PilotsOf(e) = {}
      <4>1. PICK w : w = [v EXCEPT !.pending = @ \ {"pilot", "cycles"}] OBVIOUS
      <4>2. w \in Overviews /\ w.at = "queries" /\ w.pilot = v.pilot /\ w.status = v.status
        BY <3>1, <4>1 DEF Overviews, Queries
      <4>3. "pilot" \notin w.pending BY <3>1, <4>1 DEF Overviews, Queries
      <4>4. v.pilot = NULL BY <1>3, <3>1 DEF ViewOK
      <4>5. Answer(e, w) BY <1>2, <2>3, <3>2, <4>1 DEF ReadPilot
      <4> QED BY <4>2, <4>3, <4>4, <4>5 DEF ViewOK
    <3>3. CASE PilotsOf(e) # {}
      <4>1. PICK p : p = Max(PilotsOf(e)) OBVIOUS
      <4>2. p \in Pilots /\ pilot[p] # NULL /\ pilot[p] \in PilotRow
        <5>1. PilotsOf(e) \in SUBSET Int BY PilotAssumption DEF PilotsOf, Pilots
        <5>2. IsFiniteSet(Pilots) BY PilotAssumption, FS_Interval DEF Pilots
        <5>3. IsFiniteSet(PilotsOf(e)) BY <5>2, FS_Subset DEF PilotsOf
        <5>4. p \in PilotsOf(e) BY <3>3, <4>1, <5>1, <5>3, MaxIsMember
        <5> QED BY <5>4 DEF PilotsOf, RecordsInv, PilotTypeOK
      <4>3. PICK w : w = [v EXCEPT !.pending = @ \ {"pilot"}, !.pilot = p,
                                   !.status = pilot[p].status]
        OBVIOUS
      <4>4. Answer(e, w) BY <1>2, <2>3, <3>3, <4>1, <4>3 DEF ReadPilot
      <4>5. pilot[p].status \in {"ACTIVE", "COMPLETED"} BY <4>2 DEF PilotRow
      <4>6. /\ w \in Overviews /\ w.at = "queries" /\ w.pilot = p /\ w.status = pilot[p].status
            /\ w.pending = v.pending \ {"pilot"}
        BY <3>1, <4>2, <4>3, <4>5 DEF Overviews, Queries
      <4>7. "cycles" \in w.pending BY <1>3, <3>1, <4>6 DEF ViewOK
      <4> QED BY <4>2, <4>4, <4>6, <4>7 DEF ViewOK
    <3> QED BY <3>2, <3>3
  <2>4. CASE ReadCycles(e)
    <3>1. /\ v # NoView /\ v \in Overviews /\ v.at = "queries" /\ "cycles" \in v.pending
          /\ "pilot" \notin v.pending
      BY <1>2, <1>3, <2>4 DEF ReadCycles, Pending, NoView, ViewOK
    <3>2. PICK n : n = SignedCount(v.pilot) OBVIOUS
    <3>3. n \in Nat
      <4>1. Signed(v.pilot) \subseteq Runs BY DEF Signed, CyclesOf
      <4> QED BY <3>2, <4>1, FS_Subset, FS_CardinalityType, PilotAssumption DEF SignedCount
    <3>4. PICK w : w = [v EXCEPT !.pending = @ \ {"cycles"}, !.signed = n] OBVIOUS
    <3>5. Answer(e, w) BY <1>2, <2>4, <3>2, <3>4 DEF ReadCycles, SignedCount
    <3>6. /\ w \in Overviews /\ w.at = "queries" /\ w.pilot = v.pilot /\ w.status = v.status
          /\ w.signed = n /\ "pilot" \notin w.pending
      BY <3>1, <3>3, <3>4 DEF Overviews, Queries
    <3>7. w.pilot # NULL /\ w.status = "COMPLETED" /\ ~Disturbed(w.pilot) => w.signed >= Target
      <4>1. v.pilot # NULL /\ w.status = "COMPLETED" =>
                pilot[v.pilot].status = "COMPLETED" /\ pilot[v.pilot] # NULL
        BY <1>3, <3>1, <3>6 DEF ViewOK
      <4>2. v.pilot # NULL => v.pilot \in Pilots BY <3>1 DEF Overviews, Queries
      <4> QED BY <3>2, <3>6, <4>1, <4>2 DEF RecordsInv, CompletedInv
    <3> QED BY <1>3, <3>1, <3>5, <3>6, <3>7 DEF ViewOK
  <2>5. CASE ReadRun(e)
    <3>1. v # NoView /\ v \in Overviews /\ v.at = "queries"
      BY <1>2, <1>3, <2>5 DEF ReadRun, Pending, NoView, ViewOK
    <3>2. PICK w : w = [v EXCEPT !.pending = @ \ {"run"}, !.run = e \in runOf] OBVIOUS
    <3>3. Answer(e, w) BY <1>2, <2>5, <3>2 DEF ReadRun
    <3>4. /\ w \in Overviews /\ w.at = "queries" /\ w.pilot = v.pilot /\ w.status = v.status
          /\ w.signed = v.signed
          /\ "pilot" \in w.pending <=> "pilot" \in v.pending
          /\ "cycles" \in w.pending <=> "cycles" \in v.pending
      <4>1. (e \in runOf) \in BOOLEAN OBVIOUS
      <4>2. PICK runs : runs = (e \in runOf) OBVIOUS
      <4> QED BY <3>1, <3>2, <4>1, <4>2 DEF Overviews, Queries
    <3> QED BY <1>3, <3>1, <3>3, <3>4 DEF ViewOK
  <2>6. CASE ShowOverview(e)
    <3>1. v # NoView /\ v \in Overviews /\ v.at = "queries" /\ v.pending = {}
      BY <1>2, <1>3, <2>6 DEF ShowOverview, NoView, ViewOK
    <3>2. PICK last \in Profiles \cup {NULL} :
              last = (IF v.run THEN NULL ELSE LastProfile(e))
      BY LastProfileTyped DEF RecordsInv
    <3>3. PICK w : w = [v EXCEPT !.at = "shown", !.profile = last] OBVIOUS
    <3>4. Answer(e, w) BY <1>2, <2>6, <3>2, <3>3 DEF ShowOverview
    <3>5. /\ w \in Overviews /\ w.at = "shown" /\ w.pilot = v.pilot /\ w.status = v.status
          /\ w.signed = v.signed /\ w.pending = v.pending
      BY <3>1, <3>3 DEF Overviews, Queries
    <3> QED BY <1>3, <3>1, <3>4, <3>5 DEF ViewOK
  <2>7. CASE PayrollCalculates(e) \/ \E d \in Phones : RegisterDevice(d, e)
    BY <2>7 DEF PayrollCalculates, RegisterDevice
  <2> HIDE DEF Read
  <2> QED BY <1>1, <2>1, <2>2, <2>3, <2>4, <2>5, <2>6, <2>7 DEF OverviewStep
<1>5. \A u : ViewOK(u)' <=> ViewOK(u) 
  BY DEF ViewOK, pilotVars, Disturbed
<1>6. runOf' \subseteq Viewers /\ device' \in [Phones -> Viewers \cup {NULL}]
  <2>1. \/ UNCHANGED <<runOf, device>>
        \/ PayrollCalculates(e)
        \/ \E d \in Phones : RegisterDevice(d, e)
    BY <1>1 DEF OverviewStep, AskOverview, ReadPilot, ReadCycles, ReadRun, ShowOverview,
                DropOverview, Answer
  <2> QED BY <2>1 DEF RecordsInv, PayrollCalculates, RegisterDevice
<1> QED BY <1>4, <1>5, <1>6 DEF Answer, RecordsInv

LEMMA RecordsStep == RecordsInv /\ [RecordsNext]_recordsVars => RecordsInv'
<1> SUFFICES ASSUME RecordsInv, [RecordsNext]_recordsVars PROVE RecordsInv' OBVIOUS
<1>1. CASE UNCHANGED recordsVars
  <2>1. UNCHANGED compVars /\ UNCHANGED pilotVars /\ UNCHANGED overviewVars
    BY <1>1 DEF recordsVars
  <2>2. /\ CompInv' /\ CompTypeOK' /\ PilotTypeOK' /\ SignInv' /\ CompletedInv'
        /\ UNCHANGED overviewVars
    BY <2>1, CompStepKeeps, TypeStep, SignStep, CompletedStep DEF RecordsInv, compVars, CompTypeOK
  <2>3. \A v : ViewOK(v) => ViewOK(v)' BY <2>1 DEF pilotVars, ViewOK, Disturbed
  <2> QED BY <2>2, <2>3 DEF RecordsInv, overviewVars
<1>2. CASE CompNext /\ UNCHANGED <<pilotVars, overviewVars>>
  <2>1. CompInv' /\ CompTypeOK'
    BY <1>2, CompStepKeeps, CompHistory DEF RecordsInv
  <2>2. PilotTypeOK' /\ SignInv' /\ CompletedInv'
    BY <1>2, TypeStep, SignStep, CompletedStep DEF RecordsInv
  <2>3. \A v : ViewOK(v) => ViewOK(v)' BY <1>2 DEF pilotVars, ViewOK, Disturbed
  <2> QED BY <1>2, <2>1, <2>2, <2>3 DEF RecordsInv, overviewVars
<1>3. CASE PilotNext /\ UNCHANGED <<compVars, overviewVars>>
  <2>1. PilotTypeOK' /\ SignInv' /\ CompletedInv'
    BY <1>3, TypeStep, SignStep, CompletedStep DEF RecordsInv
  <2>2. CompInv' /\ CompTypeOK'
    BY <1>3, CompStepKeeps DEF RecordsInv, compVars, CompTypeOK
  <2>3. \A v : ViewOK(v) => ViewOK(v)' BY <1>3, ViewKept DEF RecordsInv
  <2> QED BY <1>3, <2>1, <2>2, <2>3 DEF RecordsInv, overviewVars
<1>4. CASE OverviewNext /\ UNCHANGED <<compVars, pilotVars>>
  <2>1. CompInv' /\ CompTypeOK' /\ PilotTypeOK' /\ SignInv' /\ CompletedInv'
    BY <1>4, CompStepKeeps, TypeStep, SignStep, CompletedStep DEF RecordsInv, compVars, CompTypeOK
  <2> QED BY <1>4, <2>1, ViewStep DEF RecordsInv
<1> QED BY <1>1, <1>2, <1>3, <1>4 DEF RecordsNext

LEMMA RecordsInvariance == RecordsSpec => []RecordsInv
<1>1. RecordsInit => RecordsInv
  <2> SUFFICES ASSUME RecordsInit PROVE RecordsInv OBVIOUS
  <2> USE DEF RecordsInit
  <2>1. CompInv BY DEF CompInit, CompInv, PeriodsValid, ProfileRow, OpSound
  <2>2. PilotTypeOK BY DEF PilotInit, PilotTypeOK, PilotOpOK, NoPilotOp
  <2>3. SignInv BY DEF PilotInit, SignInv, SignedOff, Works, NoPilotOp
  <2>4. CompletedInv BY DEF PilotInit, CompletedInv, At, NoPilotOp
  <2>5. /\ CompTypeOK
        /\ runOf \subseteq Viewers /\ device \in [Phones -> Viewers \cup {NULL}]
        /\ view \in [Viewers -> Overviews \cup {NoView}]
        /\ \A e \in Viewers : ViewOK(view[e])
    BY DEF CompInit, CompTypeOK, ProfileRow, OverviewInit, ViewOK
  <2> QED BY <2>1, <2>2, <2>3, <2>4, <2>5 DEF RecordsInv
<1> QED BY <1>1, RecordsStep, PTL DEF RecordsSpec

\* Profiles, pilots and phones hold rows of their tables, and the requests in
\* flight work on rows there are.
THEOREM RecordsTypes == RecordsSpec => []RecordsTypeOK
<1>1. RecordsInv => RecordsTypeOK BY DEF RecordsInv, RecordsTypeOK
<1> QED BY <1>1, RecordsInvariance, PTL

\* No employee is told that the pilot is completed next to too few signed
\* cycles, for any number of employees and pilots, unless two requests about
\* one of its cycles overlapped.
THEOREM OverviewIsRight == RecordsSpec => []OverviewAgrees
<1>1. RecordsInv => OverviewAgrees
  <2> SUFFICES ASSUME RecordsInv, NEW e \in Viewers, NEW v, v = view[e],
                      v.at = "shown", v.pilot # NULL, v.status = "COMPLETED",
                      \A r \in overtaken : cycle[r].pilot # v.pilot
               PROVE  v.signed >= Target
    BY DEF OverviewAgrees
  <2>1. ViewOK(v) /\ v # NoView BY DEF RecordsInv, NoView
  <2>2. ~Disturbed(v.pilot) BY DEF Disturbed
  <2> QED BY <2>1, <2>2 DEF ViewOK
<1> QED BY <1>1, RecordsInvariance, PTL

\* The services do not disturb one another: what is proved of each alone holds
\* of the composition the overview reads.
THEOREM ServicesAlone == RecordsSpec => CompSpec /\ PilotSpec
<1>1. RecordsInit => CompInit /\ PilotInit BY DEF RecordsInit
<1>2. [RecordsNext]_recordsVars => [CompNext]_compVars /\ [PilotNext]_pilotVars
  BY DEF RecordsNext, recordsVars, compVars, pilotVars
<1> QED BY <1>1, <1>2, PTL DEF RecordsSpec, CompSpec, PilotSpec
=============================================================================
