------------------------------- MODULE MCDao -------------------------------
(***************************************************************************)
(* Values of the constants of Dao for the runs of the model checker.       *)
(***************************************************************************)
EXTENDS DaoRefinement, DaoDocs

CONSTANTS k1, ann, bob, cyd, xlm, gov

MCMaintainers == [k \in Project |-> {ann}]

\* Balances of every asset: ann can propose and vote, the others can vote
\* again after one vote of theirs was struck.
AnnProposes == [x \in Asset |-> [a \in Account |-> IF a = ann THEN 4 ELSE 2]]

\* Two proposals of ann at a time; both accounts can vote in both.
TwoProposals ==
  [x \in Asset |-> [a \in Account |-> IF a = ann /\ x = xlm THEN 6 ELSE 2]]

MCPower(n) == [k \in Project |-> [a \in Account |-> n]]
Power2 == MCPower(2)

\* Two accounts may cast 2, the proposer 1.
AnnHas1 == [k \in Project |-> [a \in Account |-> IF a = ann THEN 1 ELSE 2]]

PublicOnly    == {TRUE}
BadgeOnly     == {None}
BadgeAndToken == {None, gov}
NoOutcome     == {{}}
WithOutcome   == {{"Approved", "Rejected"}}
SomeOutcomes  == {{}, {"Approved", "Rejected"}}
NoConflicts   == {}
BobConflicts  == {{bob}}
=============================================================================
