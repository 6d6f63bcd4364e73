----------------------------- MODULE MCPublishing -----------------------------
(* Two flows of a member at once. *)
EXTENDS Publishing
===============================================================================
