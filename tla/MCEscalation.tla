---------------------------- MODULE MCEscalation ----------------------------
(* TLC instance of Escalation: both ends of every score range. *)
EXTENDS Escalation

MCScores == {29, 30, 49, 50, 69, 70, 89, 90}
============================================================================
