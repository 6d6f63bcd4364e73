---------------------------- MODULE MCQueryCache ----------------------------
(* The query cache under the proposal page and the proposal list. *)
EXTENDS QueryCache

=============================================================================
