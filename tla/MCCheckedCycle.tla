--------------------------- MODULE MCCheckedCycle ---------------------------
(* The autonomous cycle with the type checker its environment asks.        *)
EXTENDS MCCycle, MCFormal
=============================================================================
