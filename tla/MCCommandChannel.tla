-------------------------- MODULE MCCommandChannel --------------------------
(* TLC instance of CommandChannel: the BlockManager loop and one HTTP handler. *)
EXTENDS CommandChannel, TLC

CONSTANTS manager, http

MCSigners == {manager, http}
SignerSymmetry == Permutations(MCSigners)
============================================================================
