------------------------- MODULE RegistryRefinement -------------------------
(***************************************************************************)
(* The pages and projects of the contract implement Directory: the log is  *)
(* read off the pages by the counter, the keepers are the maintainers.     *)
(***************************************************************************)
EXTENDS Registry

Keepers ==
  [n \in Name |-> IF projects[n] = None THEN {} ELSE ToSet(projects[n].maintainers)]

D == INSTANCE Directory WITH log <- Listing, keepers <- Keepers

\* Every call is a step of the directory or leaves it alone: a new project is
\* appended to what the pages list, across the boundary of a page too,
\* nothing that was listed moves, and no call leaves a project without a maintainer.
ImplementsDirectory == D!Spec
=============================================================================
