-------------------------- MODULE OrderedDelivery --------------------------
(***************************************************************************)
(* What the command path from the backend to one agent promises: commands  *)
(* may be lost, but those the agent accepts were sent, are accepted once,  *)
(* and are accepted in the order in which they were signed.                *)
(***************************************************************************)
EXTENDS Naturals, Sequences

VARIABLES sent,   \* the commands signed so far, a set of nonces
          got     \* the commands accepted so far, oldest first

Init == sent = {} /\ got = <<>>

\* The backend signs a command.
Send == \E n \in sent' : sent' = sent \cup {n} /\ got' = got

\* The agent accepts one that is newer than all it has accepted.
Accept ==
    \E n \in sent :
        /\ \A i \in 1..Len(got) : n > got[i]
        /\ got' = Append(got, n)
        /\ sent' = sent

Next == Send \/ Accept

Spec == Init /\ [][Next]_<<sent, got>>
============================================================================
