-------------------------- MODULE MCBlockLifecycle --------------------------
(* TLC instance of BlockLifecycle: one attacked server, two rows at once. *)
EXTENDS BlockLifecycle

CONSTANTS s1, r1, r2

OneServer == {s1}
TwoSlots == {r1, r2}

AllOperations == {"unblock", "whitelist"}
=============================================================================
