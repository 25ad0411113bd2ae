-------------------------- MODULE MCContextServer --------------------------
(* Small instances of ContextServer for TLC. *)
EXTENDS ContextServer
=============================================================================
