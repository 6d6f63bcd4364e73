--------------------------- MODULE DaoRefinement ---------------------------
(***************************************************************************)
(* The DAO of the contract implements Referendum: the phase of a question  *)
(* is the stored status of the proposal, its ballots the stored votes.     *)
(***************************************************************************)
EXTENDS Dao

R == INSTANCE Referendum
       WITH Question <- Pid, Voter <- Account, phase <- status, ballots <- votes

\* Every call is a step of the referendum or leaves it alone.  In particular
\* execute, which reads running tallies or an opening of commitments supplied
\* by the caller, gives the verdict of the ballots themselves.
ImplementsReferendum == R!Spec
=============================================================================
