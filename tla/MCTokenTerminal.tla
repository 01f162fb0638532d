-------------------------- MODULE MCTokenTerminal --------------------------
(* Small instances of TokenTerminal for TLC *)
EXTENDS TokenTerminal, TLC

AnyFlow == Permutations(Flow)
=============================================================================
