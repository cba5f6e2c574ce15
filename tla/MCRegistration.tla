-------------------------- MODULE MCRegistration --------------------------
(* One key and its server. *)
EXTENDS Registration
=============================================================================
