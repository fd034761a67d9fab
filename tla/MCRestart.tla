----------------------------- MODULE MCRestart -----------------------------
(* Instances of LadderPersistence for TLC.                                 *)
EXTENDS LadderPersistence, MCLadder

InfoRestart   == InfoOf({"full", "slot"})
RestartTarget == {"research_topic", "_score_local_results"}
=============================================================================
