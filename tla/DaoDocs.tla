------------------------------ MODULE DaoDocs ------------------------------
(***************************************************************************)
(* What the documentation and the comments say of the DAO, where the code  *)
(* does something else.  Each formula is refuted by a run of its own.      *)
(***************************************************************************)
EXTENDS Dao

\* contract_dao.rs:150 and 533: collateral is repaid upon execution.  execute
\* pays from the collateral contract configured when it runs, which need not
\* be the one the deposits were made in.
RepaidUponExecution ==
  \A p \in Pid :
    IsActive(p) /\ TimelockOver(p) =>
      \A x \in Asset : Total(Refund(p, x), Account) <= vault[x]
=============================================================================
