--------------------------- MODULE PromotionGate ---------------------------
(***************************************************************************)
(* The policy half of patch promotion: which source may push a patch how   *)
(* far.  Two tests are combined, both pure functions of what the ladder    *)
(* knows about the source of a patch:                                      *)
(*                                                                         *)
(*  - the role policy of tasks/worker_roles.py, evaluate_promotion_target, *)
(*    over role, trust level, locality and risk class;                     *)
(*  - the adaptive gate of mutation/promotion_ladder.py, over the evidence *)
(*    count and the operational standing of the source, with the default   *)
(*    thresholds of modules/calibration.py.                                *)
(*                                                                         *)
(* The float metrics are modelled in hundredths, as integers; the maturity *)
(* bonus and the failure weight too.  The trust delta is in trust levels.  *)
(***************************************************************************)
EXTENDS Integers

Roles      == {"main", "hub", "subkernel"}
Localities == {"local", "remote"}
TrustLevel == {"untrusted", "low", "provisional", "trusted", "sovereign"}
RiskClass  == {"low", "medium", "high"}

TrustScore ==
  [l \in TrustLevel |-> CASE l = "untrusted"   -> 0
                          [] l = "low"         -> 1
                          [] l = "provisional" -> 2
                          [] l = "trusted"     -> 3
                          [] l = "sovereign"   -> 4]

RiskScore ==
  [r \in RiskClass |-> CASE r = "low" -> 1 [] r = "medium" -> 2 [] r = "high" -> 3]

(* The worker profiles: lowest trust a role may act with, where it may     *)
(* promote to, and the largest risk it may carry.                          *)
TrustFloor ==
  [r \in Roles |-> CASE r = "main" -> "sovereign"
                     [] r = "hub"  -> "provisional"
                     [] r = "subkernel" -> "low"]

PromotionTargets ==
  [r \in Roles |-> CASE r = "main" -> {"main", "hub", "subkernel"}
                     [] r = "hub"  -> {"hub", "main"}
                     [] r = "subkernel" -> {"hub"}]

MaxRisk ==
  [r \in Roles |-> CASE r = "main" -> "high"
                     [] r = "hub"  -> "medium"
                     [] r = "subkernel" -> "low"]

AtLeast(level, floor) == TrustScore[level] >= TrustScore[floor]

(* A trusted hub may carry high risk; nobody else's budget grows.          *)
WithinRisk(role, trust, risk) ==
  \/ RiskScore[risk] <= RiskScore[MaxRisk[role]]
  \/ role = "hub" /\ AtLeast(trust, "trusted")

(* The standing of a source when its metadata was last written.  cooldown  *)
(* says whether cooldown_until still lies in the future.                   *)
Standing == [rate     : 0..100,
             pressure : Nat,
             failures : Nat,
             delta    : -4..4,
             maturity : Int,
             cooldown : BOOLEAN]

(* What _source_context returns for a patch.                               *)
Context == [role     : Roles,
            trust    : TrustLevel,
            locality : Localities,
            risk     : RiskClass,
            standing : Standing]

(* A patch nobody declared a source for: least privilege, good standing.   *)
DefaultContext ==
  [role |-> "subkernel", trust |-> "provisional", locality |-> "local",
   risk |-> "medium",
   standing |-> [rate |-> 100, pressure |-> 0, failures |-> 0, delta |-> 0,
                 maturity |-> 0, cooldown |-> FALSE]]

SovereignMain(ctx) == ctx.role = "main" /\ ctx.trust = "sovereign"

(* evaluate_promotion_target: may this source promote to this kernel?      *)
PolicyAllows(ctx, target) ==
  /\ AtLeast(ctx.trust, TrustFloor[ctx.role])
  /\ target \in PromotionTargets[ctx.role]
  /\ (target = "main" /\ ctx.role # "main") =>
        AtLeast(ctx.trust, "trusted") /\ ctx.locality = "local"
  /\ WithinRisk(ctx.role, ctx.trust, ctx.risk)

(* AdaptiveGateCalibration.thresholds_for.                                 *)
HardStages == {"shadow_deployed", "live_promoted", "revertable", "main"}
LiveStages == HardStages \ {"shadow_deployed"}

Thresholds(desired) ==
  IF desired = "shadow_deployed"
  THEN [evidence |-> 2, rate |-> 45, pressure |-> 95, failures |-> 300]
  ELSE IF desired \in LiveStages
  THEN [evidence |-> 3, rate |-> 60, pressure |-> 80, failures |-> 175]
  ELSE IF desired = "promotable"
  THEN [evidence |-> 1, rate |-> 25, pressure |-> 100, failures |-> 500]
  ELSE [evidence |-> 1, rate |-> 0, pressure |-> 100, failures |-> 9900]

MaturityThreshold == 100
DeltaFloor        == -1

(* A mature source is let off one piece of evidence, but never the last.   *)
EvidenceNeeded(desired, maturity) ==
  LET required == Thresholds(desired).evidence
      discount == IF maturity >= MaturityThreshold /\ desired \in HardStages
                  THEN 1 ELSE 0
  IN  IF required - discount < 1 THEN 1 ELSE required - discount

(* _adaptive_gate_checks, for a source whose base policy test passed.      *)
AdaptiveAllows(ctx, desired, evidence) ==
  LET thr == Thresholds(desired)
      std == ctx.standing
  IN  \/ SovereignMain(ctx)
      \/ /\ ~(std.cooldown /\ desired \in HardStages)
         /\ evidence >= EvidenceNeeded(desired, std.maturity)
         /\ std.rate >= thr.rate
         /\ std.pressure <= thr.pressure
         /\ std.failures <= thr.failures
         /\ desired \in LiveStages => std.delta >= DeltaFloor

(* assess_stage_transition_gate at its two call sites: the ladder asks for *)
(* "hub" on the way to shadow_deployed and for "main" on the way to live.  *)
ShadowGate(ctx, evidence) ==
  PolicyAllows(ctx, "hub") /\ AdaptiveAllows(ctx, "shadow_deployed", evidence)

LiveGate(ctx, evidence) ==
  PolicyAllows(ctx, "main") /\ AdaptiveAllows(ctx, "main", evidence)
=============================================================================
