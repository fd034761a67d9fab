--------------------------- MODULE ModuleRegistry ---------------------------
(***************************************************************************)
(* Governed intake of module proposals: modules/registry.py with the two   *)
(* packet handlers of kernel/kernel.py that drive it.                      *)
(*                                                                         *)
(* A proposal is reviewed as it arrives, and again with every promotion    *)
(* request for it.  The weights and scores are left out; what remains of   *)
(* the feedback is whether a module or its family is on cooldown and       *)
(* whether its recent failures weigh enough to bar it from main.  All      *)
(* modules of the model are of one family.  Two readiness rules are        *)
(* weaker than they look: the packet and the gate leave an entry each      *)
(* before maturity is asked, so that two fresh entries are always there,   *)
(* and only aged evidence of low quality can make the total fall short.    *)
(* The copies of a proposal's first status in the hub and the subkernels   *)
(* are never refreshed and nothing decides by them: they are left out.     *)
(***************************************************************************)
EXTENDS Integers, FiniteSets, PromotionGate

CONSTANTS
  Proposal,   \* proposal identifiers
  Module,     \* module names
  Senders,    \* records [role, trust, locality, risk] a packet may carry
  Targets     \* targets named by proposals and requests

ASSUME RegistryAssumption ==
  /\ Senders \subseteq
       [role : Roles, trust : TrustLevel, locality : Localities, risk : RiskClass]
  /\ Targets \subseteq {"promotable", "hub", "main", "live_promoted", "revertable"}

VARIABLES
  records,      \* proposals: a record for every identifier proposed so far
  experimental, \* experimental_manifests: modules served as candidates
  cooled,       \* modules whose cooldown_until lies ahead
  familyCools,  \* the family's does
  burdened,     \* modules whose effective failure weight is 2.0 or more
  barred,       \* history: modules refused, until time passes or the hub lifts it
  slipped       \* history: modules admitted although barred

rvars == <<records, experimental, cooled, familyCools, burdened, barred, slipped>>
-----------------------------------------------------------------------------
Admitted == {"approved", "promoted"}
Record == [module : Module, role : Roles, risk : RiskClass, target : Targets, weak : BOOLEAN,
           status : {"proposed", "review_pending", "rejected"} \cup Admitted]

RTypeOK ==
  /\ DOMAIN records \subseteq Proposal /\ \A p \in DOMAIN records : records[p] \in Record
  /\ experimental \subseteq Module /\ cooled \subseteq Module /\ familyCools \in BOOLEAN
  /\ burdened \subseteq Module /\ barred \subseteq Module /\ slipped \subseteq Module

RInit ==
  /\ records = <<>> /\ experimental = {} /\ cooled = {} /\ familyCools = FALSE
  /\ burdened = {} /\ barred = {} /\ slipped = {}

HighTargets == {"main", "live_promoted", "revertable"}

(* Effective cooldown: the module's own, or its family's share.            *)
(* Variant: a proposal that was never reviewed starts afresh.              *)
OnCooldownOnceReviewed(rec) ==
  (rec.module \in cooled \/ familyCools) /\ rec.status # "proposed"
OnCooldown(rec) == rec.module \in cooled \/ familyCools

(* assess_promotion_gate: role and risk are the proposal's, trust and      *)
(* locality the asking packet's.                                           *)
GateOpen(rec, from, target) ==
  /\ PolicyAllows([role |-> rec.role, trust |-> from.trust, locality |-> from.locality,
                   risk |-> rec.risk], target)
  /\ ~OnCooldown(rec)
  /\ ~(target \in HighTargets /\ rec.module \in burdened)

(* _evidence_quality_total against what maturity_report requires: evidence *)
(* of low quality that ages may bring the total below it.                  *)
Mature(rec) == IF rec.weak THEN BOOLEAN ELSE {TRUE}

(* governed_review: the statuses it may end with.  A refusal by policy is  *)
(* final; an immature proposal waits; only main promotes.                  *)
Outcomes(rec, from, target) ==
  IF ~GateOpen(rec, from, target) THEN {"rejected"}
  ELSE {IF ~mature THEN "review_pending" ELSE IF target = "main" THEN "promoted" ELSE "approved" :
          mature \in Mature(rec)}

(* apply_module_feedback after a review.  Every review that does not admit *)
(* the module cools it down; one for main or a live stage cools its family.*)
(* A success lifts the module's own cooldown.  Failures may add up, and a  *)
(* success may bring them below the limit.                                 *)
Feedback(m, ok, target) ==
  /\ cooled' = IF ok THEN cooled \ {m} ELSE cooled \cup {m}
  /\ familyCools' = (familyCools \/ (~ok /\ target \in HighTargets))
  /\ burdened' \in IF ok THEN {burdened, burdened \ {m}} ELSE {burdened, burdened \cup {m}}
  /\ barred' = IF ok THEN barred ELSE barred \cup {m}
  /\ slipped' = IF ok THEN slipped \cup ({m} \cap barred) ELSE slipped

Reviewed(p, rec, from, target) ==
  \E status \in Outcomes(rec, from, target) :
    /\ records' = [q \in DOMAIN records \cup {p} |->
                     IF q = p THEN [rec EXCEPT !.status = status] ELSE records[q]]
    /\ experimental' = IF status = "promoted" THEN experimental \cup {rec.module}
                       ELSE experimental
    /\ Feedback(rec.module, status \in Admitted, target)

(* _record_module_proposal: an identifier already known is overwritten;    *)
(* feedback already given to the module stays.                             *)
ProposeModule(p, m, from, target) ==
  Reviewed(p, [module |-> m, role |-> from.role, risk |-> from.risk, target |-> target,
               weak |-> FALSE, status |-> "proposed"],
           from, target)

(* _record_promotion_request for a module.                                 *)
RequestModule(p, from, target) ==
  p \in DOMAIN records /\ Reviewed(p, records[p], from, target)

(* The hub's evidence and feedback, see HubReview: evidence of low quality *)
(* attached; a rework or a wave that closed well lifts the module's        *)
(* cooldown and may lift the family's; a wave that failed may add one.     *)
HubEvidence(p) ==
  /\ p \in DOMAIN records /\ records' = [records EXCEPT ![p].weak = TRUE]
  /\ UNCHANGED <<experimental, cooled, familyCools, burdened, barred, slipped>>

HubFeedback(m) ==
  /\ \/ /\ cooled' = cooled \ {m} /\ familyCools' \in {familyCools, FALSE}
        /\ burdened' \in {burdened, burdened \ {m}} /\ barred' = barred \ {m}
     \/ /\ cooled' \in {cooled, cooled \cup {m}} /\ familyCools' = TRUE
        /\ burdened' \in {burdened, burdened \cup {m}} /\ UNCHANGED barred
  /\ UNCHANGED <<records, experimental, slipped>>

(* Time passes: a cooldown ends, the failure weights halve.                *)
CooldownEnds ==
  /\ \/ /\ familyCools' = FALSE /\ UNCHANGED <<cooled, burdened, barred>>
     \/ \E m \in Module : /\ cooled' = cooled \ {m} /\ barred' = barred \ {m}
                          /\ burdened' \in {burdened, burdened \ {m}} /\ UNCHANGED familyCools
  /\ UNCHANGED <<records, experimental, slipped>>

RNext ==
  \/ \E p \in Proposal, from \in Senders, target \in Targets :
       \/ \E m \in Module : ProposeModule(p, m, from, target)
       \/ RequestModule(p, from, target)
  \/ \E p \in Proposal : HubEvidence(p)
  \/ \E m \in Module : HubFeedback(m)
  \/ CooldownEnds

RSpec == RInit /\ [][RNext]_rvars
-----------------------------------------------------------------------------
(* There is no way round a refusal: a module refused once is not admitted, *)
(* under whatever identifier, by whichever sender and for whatever target  *)
(* it is proposed again, before its cooldown ran out or the hub lifted it. *)
NoWayRound == slipped = {}
=============================================================================
