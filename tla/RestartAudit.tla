---------------------------- MODULE RestartAudit ----------------------------
(***************************************************************************)
(* LadderPersistence with the history of the gates kept across restarts.   *)
(***************************************************************************)
EXTENDS LadderPersistence

VARIABLE trail  \* <<p, c, s>>: code c, staged as p, once passed the gate
                \* out of stage s

AInit == PInit /\ trail = {}

KeepTrail ==
  trail' = trail \cup {x \in Patch \X Code \X Pipeline :
                         /\ x[2] = staged'[x[1]].code
                         /\ x[3] \in passed'[x[1]]}

ASpec == AInit /\ [][PNext /\ KeepTrail]_<<pvars, trail>>
-----------------------------------------------------------------------------
(* No stage can be skipped, restarts included: code that is live passed    *)
(* every gate before live under the name it was applied as.                *)
LiveCodeGated ==
  \A p \in Patch :
    staged[p].status = "applied" =>
      \A s \in Below["shadow_deployed"] : <<p, staged[p].code, s>> \in trail
=============================================================================
