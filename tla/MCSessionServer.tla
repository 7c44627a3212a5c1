---------------------------- MODULE MCSessionServer ----------------------------
(* Two connections, which may overlap, asking for a target or for the empty one. *)
EXTENDS SessionServer
================================================================================
