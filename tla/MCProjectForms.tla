--------------------------- MODULE MCProjectForms ---------------------------
(* A session of a maintainer with two projects: a text, and software whose file   *)
(* states its type or, being older, does not, or which is not registered yet.     *)
EXTENDS ProjectForms, TLC

CONSTANTS app, guild

FileFor(p, t) ==
  [type |-> t, extra |-> Unmanaged, readme |-> t = "GENERIC", doc |-> p, maint |-> p]

OneOrTwo == {(app :> file) @@ (guild :> FileFor(guild, "GENERIC")) :
               file \in {Absent, FileFor(app, "SOFTWARE"), FileFor(app, None)}}
===============================================================================
