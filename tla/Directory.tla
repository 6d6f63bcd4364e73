----------------------------- MODULE Directory -----------------------------
(***************************************************************************)
(* What the projects of the Tansu contract promise: a directory to which   *)
(* each name is added once, at the end, which loses and moves nothing, and *)
(* in which every project has a keeper at all times.  No pages, no counter *)
(* and no money: Registry has these and implements this.                   *)
(***************************************************************************)
EXTENDS Naturals, Sequences

CONSTANTS Name, Account

VARIABLES
  log,     \* the names, in the order in which they were added
  keepers  \* name -> the accounts that keep it, none before it is added

Init ==
  /\ log = <<>>
  /\ keepers = [n \in Name |-> {}]

\* A name is added with its first keepers.
Add(n, K) ==
  /\ keepers[n] = {}
  /\ K # {}
  /\ log' = Append(log, n)
  /\ keepers' = [keepers EXCEPT ![n] = K]

\* A name is handed over to others.
HandOver(n, K) ==
  /\ keepers[n] # {}
  /\ K # {}
  /\ keepers' = [keepers EXCEPT ![n] = K]
  /\ UNCHANGED log

Next ==
  \E n \in Name, K \in SUBSET Account : Add(n, K) \/ HandOver(n, K)

Spec == Init /\ [][Next]_<<log, keepers>>
=============================================================================
