----------------------------- MODULE Referendum -----------------------------
(***************************************************************************)
(* What the DAO of the Tansu contract promises about a vote: there is a    *)
(* set of ballots per question, a verdict is what more than half of their  *)
(* weight wants, it is given once, and it is final.  No running tally, no  *)
(* list of voters, no money and no clock: the module Dao has these, and    *)
(* implements this one (DaoRefinement).                                    *)
(***************************************************************************)
EXTENDS Naturals, Totals

CONSTANTS Question, Voter, Weights, None

VARIABLES
  phase,   \* question -> "Absent", "Active", a verdict, or "Malicious"
  ballots  \* question -> voter -> its ballot, or None

Choice  == {"Approve", "Reject", "Abstain"}
NoBallots == [a \in Voter |-> None]

\* The weight that ballots b give to a choice, and to all choices.
Support(b, c) ==
  Total([a \in Voter |-> IF b[a] # None /\ b[a].choice = c THEN b[a].weight ELSE 0], Voter)

Wins(b, c, others) == Support(b, c) > Support(b, others[1]) + Support(b, others[2])

Verdict(b) ==
  IF Wins(b, "Approve", <<"Reject", "Abstain">>) THEN "Approved"
  ELSE IF Wins(b, "Reject", <<"Approve", "Abstain">>) THEN "Rejected"
  ELSE "Cancelled"

Init ==
  /\ phase = [q \in Question |-> "Absent"]
  /\ ballots = [q \in Question |-> NoBallots]

\* A question is put by an author, whose ballot is an abstention without weight.
Open(q, author) ==
  /\ phase[q] = "Absent"
  /\ phase' = [phase EXCEPT ![q] = "Active"]
  /\ ballots' = [ballots EXCEPT ![q] =
       [NoBallots EXCEPT ![author] = [choice |-> "Abstain", weight |-> 0]]]

\* A voter without a ballot casts one of some weight.
Cast(q, a, c, w) ==
  /\ phase[q] = "Active"
  /\ ballots[q][a] = None
  /\ w > 0
  /\ ballots' = [ballots EXCEPT ![q][a] = [choice |-> c, weight |-> w]]
  /\ UNCHANGED phase

\* A ballot is struck.
Strike(q, a) ==
  /\ phase[q] = "Active"
  /\ ballots' = [ballots EXCEPT ![q][a] = None]
  /\ UNCHANGED phase

\* The ballots decide, or the question is voided.
Close(q) ==
  /\ phase[q] = "Active"
  /\ phase' \in {[phase EXCEPT ![q] = v] : v \in {Verdict(ballots[q]), "Malicious"}}
  /\ UNCHANGED ballots

Next ==
  \E q \in Question :
    \/ Close(q)
    \/ \E a \in Voter :
         \/ Open(q, a)
         \/ Strike(q, a)
         \/ \E c \in Choice, w \in Weights : Cast(q, a, c, w)

Spec == Init /\ [][Next]_<<phase, ballots>>
=============================================================================
