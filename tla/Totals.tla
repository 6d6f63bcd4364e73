------------------------------- MODULE Totals -------------------------------
(***************************************************************************)
(* Sums of natural numbers over a finite set, counted unit by unit: the    *)
(* total of f over S is the number of pairs <<s, n>> with n in 1 .. f[s].  *)
(* Stated with Cardinality, and not as a fold, a total can be reasoned     *)
(* about with the library's theorems on finite sets (DaoProofs).           *)
(***************************************************************************)
EXTENDS Naturals, FiniteSets

\* The units that s contributes to the total of f.
UnitsOf(f, s) == {s} \X (1 .. f[s])

\* The sum of f[s] over all s in S, for f : S -> Nat.
Total(f, S) == Cardinality(UNION {UnitsOf(f, s) : s \in S})
=============================================================================
