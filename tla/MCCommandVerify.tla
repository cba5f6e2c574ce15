-------------------------- MODULE MCCommandVerify --------------------------
(* TLC instance of CommandVerify: three goroutines; two commands, two lists, *)
(* one command whose signature does not verify and one that is unsigned.     *)
EXTENDS CommandVerify

CONSTANTS stream, startup, reconcile, c2, l3, c4, l5, forged, unsigned

MCCallers == {stream, startup, reconcile}
MCMessages == {c2, l3, c4, l5, forged, unsigned}
MCLists == {l3, l5}
MCGenuine == {c2, l3, c4, l5}
MCNonce == [m \in MCMessages |->
    CASE m = c2 -> 2 [] m = l3 -> 3 [] m = c4 -> 4 [] m = l5 -> 5
      [] m = forged -> 9 [] m = unsigned -> 0]
============================================================================
