------------------------------- MODULE MCGuest -------------------------------
(* A small instance of Guest for TLC. *)
EXTENDS Guest
=============================================================================
