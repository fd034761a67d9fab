------------------------------ MODULE MCAudit ------------------------------
(* Instances of RestartAudit for TLC.                                      *)
EXTENDS RestartAudit, MCRestart
=============================================================================
