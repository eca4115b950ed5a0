------------------------ MODULE PayrollPolicyProofs ------------------------
(***************************************************************************)
(* Proofs about PayrollPolicy, for any number of employees, request slots  *)
(* and versions.  PolicyInv is inductive: PolicyMakerChecker alone is not, *)
(* because an approval in flight acts on the row it read; what saves it is *)
(* that the approver was compared with an author who never changes.        *)
(***************************************************************************)
EXTENDS PayrollPolicy, TLAPS

\* What is known of the requests in flight.
PolicyOpsOK ==
    \A s \in PolicySlots :
        policyOp[s].pc # "idle" =>
            /\ policyOp[s].actor \in Staff
            /\ policyOp[s].version \in Versions
            /\ policyOp[s].pc = "approve" =>
                 /\ Exists(policyOp[s].version)
                 /\ policyOp[s].actor \in Checkers
                 /\ policyOp[s].actor # policy[policyOp[s].version].createdBy

PolicyInv == PolicyTypeOK /\ PolicyOpsOK /\ PolicyMakerChecker

\* The promise of PolicyFrozen about one step: a row never goes away, keeps
\* its author, and stays approved.
PolicyKept ==
    \A v \in Versions :
        Exists(v) =>
          /\ policy'[v] # NULL
          /\ policy'[v].createdBy = policy[v].createdBy
          /\ policy[v].status = "APPROVED" => policy'[v].status = "APPROVED"

LEMMA IdlePolicyOpIsOp == IdlePolicyOp \in PolicyOp
  BY DEF IdlePolicyOp, PolicyOp

\* The invariant holds when the organisation has no policy yet.
LEMMA PolicyInitInv == PolicyInit => PolicyInv
<1> SUFFICES ASSUME PolicyInit PROVE PolicyInv
  OBVIOUS
<1> USE DEF PolicyInit
<1>1. PolicyTypeOK
  BY IdlePolicyOpIsOp, PolicyAssumption DEF PolicyTypeOK
<1>2. PolicyOpsOK
  BY DEF PolicyOpsOK, IdlePolicyOp
<1>3. PolicyMakerChecker
  BY DEF PolicyMakerChecker, Exists
<1> QED
  BY <1>1, <1>2, <1>3 DEF PolicyInv

\* Neither a request step nor a crash breaks the invariant (createPolicy,
\* approvePolicy), and no step takes a policy row over.
LEMMA PolicyStepInv ==
  ASSUME PolicyInv, PolicyNext
  PROVE  PolicyInv' /\ PolicyKept
<1> USE DEF PolicyInv
<1>1. ASSUME NEW s \in PolicySlots, NEW a \in Staff, NEW v \in Versions,
             CreatePolicyRead(s, a, v)
      PROVE  PolicyInv' /\ PolicyKept
  <2> USE <1>1 DEF CreatePolicyRead
  <2>1. PolicyTypeOK'
    BY DEF PolicyTypeOK, PolicyOp
  <2>2. PolicyOpsOK'
    BY DEF PolicyTypeOK, PolicyOpsOK, PolicyOp, Exists
  <2>3. PolicyMakerChecker' /\ PolicyKept
    BY DEF PolicyMakerChecker, PolicyKept, Exists
  <2> QED
    BY <2>1, <2>2, <2>3
<1>2. ASSUME NEW s \in PolicySlots, CreatePolicyWrite(s)
      PROVE  PolicyInv' /\ PolicyKept
  <2> DEFINE v == policyOp[s].version
             new == [status     |-> "DRAFT",
                     createdBy  |-> policyOp[s].actor,
                     approvedBy |-> NULL]
  <2>1. policyOp[s].pc = "create" /\ UNCHANGED <<auditLog, crashes>>
    BY <1>2 DEF CreatePolicyWrite
  <2>2. v \in Versions /\ policyOp[s].actor \in Staff
    BY <2>1 DEF PolicyOpsOK
  <2>3. CASE /\ ~Exists(v)
             /\ policy' = [policy EXCEPT ![v] = new]
             /\ policyOp' = [policyOp EXCEPT ![s].pc = "auditCreated"]
    <3>1. new \in PolicyRow /\ new # NULL
      BY <2>2, PolicyAssumption DEF PolicyRow
    <3>2. PolicyTypeOK'
      BY <2>1, <2>2, <2>3, <3>1 DEF PolicyTypeOK, PolicyOp
    <3>3. PolicyOpsOK'
      BY <2>2, <2>3, <3>1 DEF PolicyTypeOK, PolicyOpsOK, PolicyOp, Exists
    <3>4. PolicyMakerChecker'
      BY <2>2, <2>3 DEF PolicyTypeOK, PolicyMakerChecker, Exists
    <3>5. PolicyKept
      BY <2>2, <2>3, <3>1 DEF PolicyTypeOK, PolicyKept, Exists
    <3> QED
      BY <3>2, <3>3, <3>4, <3>5
  <2>4. CASE /\ policyOp' = [policyOp EXCEPT ![s] = IdlePolicyOp]
             /\ UNCHANGED policy
    <3>1. PolicyTypeOK'
      BY <2>1, <2>4, IdlePolicyOpIsOp DEF PolicyTypeOK
    <3>2. PolicyOpsOK'
      BY <2>4 DEF PolicyTypeOK, PolicyOpsOK, IdlePolicyOp, Exists
    <3>3. PolicyMakerChecker' /\ PolicyKept
      BY <2>4 DEF PolicyMakerChecker, PolicyKept, Exists
    <3> QED
      BY <3>1, <3>2, <3>3
  <2> QED
    BY <1>2, <2>3, <2>4 DEF CreatePolicyWrite
<1>3. ASSUME NEW s \in PolicySlots, NEW a \in Staff, NEW v \in Versions,
             ApprovePolicyRead(s, a, v)
      PROVE  PolicyInv' /\ PolicyKept
  <2> USE <1>3 DEF ApprovePolicyRead
  <2>1. PolicyTypeOK'
    BY DEF PolicyTypeOK, PolicyOp
  <2>2. PolicyOpsOK'
    BY DEF PolicyTypeOK, PolicyOpsOK, PolicyOp, Exists
  <2>3. PolicyMakerChecker' /\ PolicyKept
    BY DEF PolicyMakerChecker, PolicyKept, Exists
  <2> QED
    BY <2>1, <2>2, <2>3
<1>4. ASSUME NEW s \in PolicySlots, ApprovePolicyWrite(s)
      PROVE  PolicyInv' /\ PolicyKept
  <2> USE <1>4 DEF ApprovePolicyWrite
  <2> DEFINE v == policyOp[s].version
  <2>0. PolicyOpsOK
    OBVIOUS
  <2>1. /\ v \in Versions /\ Exists(v)
        /\ policyOp[s].actor \in Checkers
        /\ policyOp[s].actor # policy[v].createdBy
    BY DEF PolicyOpsOK
  <2>2. policy[v] \in PolicyRow
    BY <2>1 DEF PolicyTypeOK, Exists
  <2>3. /\ policy'[v] \in PolicyRow /\ policy'[v] # NULL
        /\ policy'[v].createdBy = policy[v].createdBy
        /\ policy'[v].approvedBy = policyOp[s].actor
        /\ policy'[v].status = "APPROVED"
    BY <2>1, <2>2, PolicyAssumption DEF PolicyTypeOK, PolicyRow, Checkers
  <2>4. \A w \in Versions \ {v} : policy'[w] = policy[w]
    BY <2>1 DEF PolicyTypeOK
  <2>5. PolicyTypeOK'
    <3>1. /\ DOMAIN policy' = Versions
          /\ \A w \in Versions : policy'[w] \in PolicyRow \cup {NULL}
      BY <2>1, <2>3, <2>4 DEF PolicyTypeOK
    <3>2. policy' \in [Versions -> PolicyRow \cup {NULL}]
      <4>1. policy' = [w \in Versions |-> policy'[w]]
        BY DEF PolicyTypeOK
      <4> QED
        BY ONLY <3>1, <4>1
    <3>3. policyOp' \in [PolicySlots -> PolicyOp]
      BY ONLY <1>4, PolicyTypeOK, s \in PolicySlots DEF ApprovePolicyWrite, PolicyTypeOK, PolicyOp
    <3> QED
      BY <3>2, <3>3 DEF PolicyTypeOK
  <2>5a. \A w \in Versions : Exists(w) =>
           policy'[w] # NULL /\ policy'[w].createdBy = policy[w].createdBy
    BY <2>3, <2>4 DEF Exists
  <2>6. PolicyOpsOK'
    <3>1. \A t \in PolicySlots \ {s} : policyOp'[t] = policyOp[t]
      BY DEF PolicyTypeOK
    <3>2. /\ policyOp'[s].pc = "auditApproved"
          /\ policyOp'[s].version = v
          /\ policyOp'[s].actor = policyOp[s].actor
      BY DEF PolicyTypeOK, PolicyOp
    <3> QED
      <4> SUFFICES ASSUME NEW t \in PolicySlots, policyOp'[t].pc # "idle"
                   PROVE  /\ policyOp'[t].actor \in Staff
                          /\ policyOp'[t].version \in Versions
                          /\ policyOp'[t].pc = "approve" =>
                               /\ policy'[policyOp'[t].version] # NULL
                               /\ policyOp'[t].actor \in Checkers
                               /\ policyOp'[t].actor #
                                    policy'[policyOp'[t].version].createdBy
        BY DEF PolicyOpsOK, Exists
      <4>1. CASE t = s
        BY <2>1, <3>2, <4>1 DEF Checkers
      <4>2. CASE t # s
        <5>1. policyOp'[t] = policyOp[t]
          BY <3>1, <4>2
        <5> QED
          BY ONLY <5>1, <2>5a, <2>0, t \in PolicySlots, policyOp'[t].pc # "idle"
             DEF PolicyOpsOK, Exists
      <4> QED
        BY <4>1, <4>2
  <2>7. PolicyMakerChecker'
    <3> SUFFICES ASSUME NEW w \in Versions, policy'[w] # NULL, policy'[w].status = "APPROVED"
                 PROVE  /\ policy'[w].approvedBy \in Checkers
                        /\ policy'[w].approvedBy # policy'[w].createdBy
      BY DEF PolicyMakerChecker, Exists
    <3>1. CASE w = v
      BY <2>1, <2>3, <3>1
    <3>2. CASE w # v
      BY <2>4, <3>2 DEF PolicyMakerChecker, Exists
    <3> QED
      BY <3>1, <3>2
  <2>8. PolicyKept
    BY <2>1, <2>3, <2>4 DEF PolicyKept, Exists
  <2> QED
    BY <2>5, <2>6, <2>7, <2>8
<1>5. ASSUME NEW s \in PolicySlots, PolicyAudit(s)
      PROVE  PolicyInv' /\ PolicyKept
  <2> USE <1>5 DEF PolicyAudit
  <2>1. policyOp[s].version \in Versions /\ policyOp[s].actor \in Staff
    BY DEF PolicyOpsOK
  <2>2. PolicyTypeOK'
    BY <2>1, IdlePolicyOpIsOp DEF PolicyTypeOK, AuditRow
  <2>3. PolicyOpsOK'
    BY DEF PolicyTypeOK, PolicyOpsOK, IdlePolicyOp, Exists
  <2>4. PolicyMakerChecker' /\ PolicyKept
    BY DEF PolicyMakerChecker, PolicyKept, Exists
  <2> QED
    BY <2>2, <2>3, <2>4
<1>6. ASSUME PolicyCrash
      PROVE  PolicyInv' /\ PolicyKept
  <2> USE <1>6 DEF PolicyCrash, ForgetPolicyOps
  <2>1. PolicyTypeOK'
    BY IdlePolicyOpIsOp, PolicyAssumption DEF PolicyTypeOK
  <2>2. PolicyOpsOK'
    BY DEF PolicyOpsOK, IdlePolicyOp
  <2>3. PolicyMakerChecker' /\ PolicyKept
    BY DEF PolicyMakerChecker, PolicyKept, Exists
  <2> QED
    BY <2>1, <2>2, <2>3
<1> QED
  BY <1>1, <1>2, <1>3, <1>4, <1>5, <1>6 DEF PolicyNext, PolicyStep

\* A step that leaves the policies alone keeps what is known of them.
LEMMA PolicyStutterInv ==
  ASSUME PolicyInv, UNCHANGED policyVars
  PROVE  PolicyInv' /\ PolicyKept
  BY DEF PolicyInv, policyVars, PolicyTypeOK, PolicyOpsOK, PolicyMakerChecker,
         PolicyKept, Exists

\* Types are kept and self-approval of a policy version is impossible, however
\* requests interleave and whenever the process crashes.
THEOREM PolicySafety == PolicySpec => [](PolicyTypeOK /\ PolicyMakerChecker)
<1>1. PolicyInv /\ [PolicyNext]_policyVars => PolicyInv'
  BY PolicyStepInv, PolicyStutterInv
<1>2. PolicyInv => PolicyTypeOK /\ PolicyMakerChecker
  BY DEF PolicyInv
<1> QED
  BY PolicyInitInv, <1>1, <1>2, PTL DEF PolicySpec

\* A policy version is never taken over (createPolicy's version number,
\* approvePolicy's unconditional update).
THEOREM PolicyRowsKept == PolicySpec => PolicyFrozen
<1>1. PolicyInv /\ [PolicyNext]_policyVars => PolicyInv'
  BY PolicyStepInv, PolicyStutterInv
<1>2. PolicyInv /\ [PolicyNext]_policyVars => [PolicyKept]_policyVars
  BY PolicyStepInv
<1>3. PolicySpec => [][PolicyKept]_policyVars
  BY PolicyInitInv, <1>1, <1>2, PTL DEF PolicySpec
<1> QED
  BY <1>3 DEF PolicyFrozen, PolicyKept
=============================================================================
