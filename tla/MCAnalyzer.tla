----------------------------- MODULE MCAnalyzer -----------------------------
(* Two addresses and a table of one state; two services of the host, one that it uses. *)
EXTENDS Analyzer, TLC

CONSTANTS a1, a2, http, ssh, dns, e1, e2

Symmetry == Permutations(Addresses) \cup Permutations(Ephemeral)
=============================================================================
