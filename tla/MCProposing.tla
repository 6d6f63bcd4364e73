----------------------------- MODULE MCProposing -----------------------------
EXTENDS Proposing

Named == [approved |-> {"c1"}, rejected |-> {"c2"}, cancelled |-> {"c2"}]
==============================================================================
