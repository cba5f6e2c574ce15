---------------------------- MODULE ReplayGuard ----------------------------
(***************************************************************************)
(* What one goroutine of the agent that verifies signed backend messages   *)
(* is promised by its nonce check: between two starts of the agent, the    *)
(* nonces of the messages it accepts strictly increase, so it accepts no   *)
(* message twice.  CommandVerify implements this once per goroutine.       *)
(***************************************************************************)
EXTENDS Naturals

VARIABLE high          \* nonce of the last accepted message, 0 before the first

Init == high = 0

\* A message with a larger nonce is accepted.
Accept == high' \in Nat /\ high' > high

\* The agent starts again and knows only what its nonce file says.
Restart == high' = 0

Next == Accept \/ Restart

Spec == Init /\ [][Next]_high
============================================================================
