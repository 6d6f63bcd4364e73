----------------------------- MODULE MCDelegation -----------------------------
(* The delegation worker under two uploads. *)
EXTENDS Delegation

Budget(ip, account) == [d \in Dimension |-> IF d = "ip" THEN ip ELSE account]
Requests11 == Budget(1, 1)
Bytes      == Budget(4, 4)
===============================================================================
