--------------------------- MODULE MCLogCanister ---------------------------
(* The log of a canister on its own, for TLC *)
EXTENDS LogCanister
=============================================================================
