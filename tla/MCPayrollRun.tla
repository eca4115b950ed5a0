---------------------------- MODULE MCPayrollRun ----------------------------
(***************************************************************************)
(* PayrollRun with a payroll officer and an administrator, who may prepare, *)
(* approve and reopen; handled one at a time, also with a finance officer.  *)
(***************************************************************************)
EXTENDS PayrollRun

CONSTANTS paul, fay, ann

Duo  == {paul, ann}
Trio == {paul, fay, ann}

MCRoleOf == [a \in Staff |-> CASE a = paul -> "PAYROLL"
                               [] a = fay  -> "FINANCE"
                               [] OTHER    -> "ADMIN"]
=============================================================================
