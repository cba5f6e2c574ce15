------------------------- MODULE MCTelemetryFlush -------------------------
(* Four events of three addresses. *)
EXTENDS TelemetryFlush

MCEvents == 1 .. 4
MCAddress == <<"a", "b", "c", "a">>
=============================================================================
