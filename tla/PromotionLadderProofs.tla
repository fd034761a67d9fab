----------------------- MODULE PromotionLadderProofs -----------------------
(***************************************************************************)
(* Theorems about patch governance, for every set of patches, codes,       *)
(* targets and child kernels.                                              *)
(***************************************************************************)
EXTENDS PromotionLadder, TLAPS

(* The length of the evidence log stays within its bound.                  *)
LEMMA EvidenceBounds ==
  /\ \A n \in 0..EvidenceHigh : OneMore(n) \in 0..EvidenceHigh
  /\ \A n \in 0..EvidenceHigh : ThreeMore(n) \in 0..EvidenceHigh
  /\ \A n \in 0..EvidenceHigh, k \in RequestSizes :
       OneMore(Extend(n, k)) \in 0..EvidenceHigh
<1>1. \A n \in 0..EvidenceHigh : OneMore(n) \in 0..EvidenceHigh
  BY EvidenceAssumption DEF OneMore
<1>2. \A n \in 0..EvidenceHigh : ThreeMore(n) \in 0..EvidenceHigh
  BY <1>1 DEF ThreeMore
<1>3. \A n \in 0..EvidenceHigh, k \in RequestSizes : Extend(n, k) \in 0..EvidenceHigh
  BY EvidenceAssumption, SourceAssumption DEF Extend
<1> QED BY <1>1, <1>2, <1>3

(* The contexts the operations record are contexts.                        *)
LEMMA ContextTypes ==
  /\ DefaultContext \in Context
  /\ \A s \in Standing : SovereignContext(s) \in Context
  /\ \A s \in Standing : Refreshed(s) \in Standing
  /\ \A k \in Kernel, trust \in PacketTrust, risk \in PacketRisk, s \in Standing :
       ProposalContext(k, trust, risk, s) \in Context
  /\ \A ctx \in Context, trust \in PacketTrust, risk \in PacketRisk, s \in Standing :
       Resourced(ctx, trust, risk, s) \in Context
<1>1. DefaultContext \in Context
  BY DEF DefaultContext, Context, Standing, Roles, Localities, TrustLevel, RiskClass
<1>2. \A s \in Standing : SovereignContext(s) \in Context
  BY DEF SovereignContext, Context, Roles, Localities, TrustLevel, RiskClass
<1>3. \A s \in Standing : Refreshed(s) \in Standing
  BY DEF Refreshed, Standing
<1>4. \A k \in Kernel, trust \in PacketTrust, risk \in PacketRisk, s \in Standing :
        ProposalContext(k, trust, risk, s) \in Context
  BY SourceAssumption DEF ProposalContext, Context, Roles, Localities
<1>5. \A ctx \in Context, trust \in PacketTrust, risk \in PacketRisk, s \in Standing :
        Resourced(ctx, trust, risk, s) \in Context
  BY SourceAssumption DEF Resourced, Context
<1> QED BY <1>1, <1>2, <1>3, <1>4, <1>5
-----------------------------------------------------------------------------
(* The tail of apply_live, shared by APPLY_PATCH and INJECT_METHOD.        *)
LEMMA BindType ==
  ASSUME TypeOK, NEW p \in Patch, NEW c \in Code, NEW s,
         NEW who \in Kernel \cup {"main"}, Bind(p, c, s, who)
  PROVE  /\ staged' \in [Patch -> [code : Code \cup {NoCode}, status : Status]]
         /\ stage' \in [Patch -> Stage]
         /\ bound' \in [Target -> Code \cup {Baseline, NoCode}]
         /\ originals' \in [Target -> Code \cup {Baseline, NoCode}]
         /\ evolved' \subseteq Target
         /\ vetted' \subseteq Code
         /\ liveAuthor' \in [Target -> Kernel \cup {"main"}]
<1>1. Defines(c) \in Target
  BY CodeAssumption DEF Defines
<1>2. staged' \in [Patch -> [code : Code \cup {NoCode}, status : Status]]
  BY DEF Bind, TypeOK, Status
<1>3. stage' \in [Patch -> Stage]
  BY DEF Bind, TypeOK, Stage
<1>4. /\ bound' \in [Target -> Code \cup {Baseline, NoCode}]
      /\ originals' \in [Target -> Code \cup {Baseline, NoCode}]
  BY <1>1 DEF Bind, TypeOK
<1>5. evolved' \subseteq Target /\ vetted' \subseteq Code
  BY <1>1 DEF Bind, TypeOK
<1>6. liveAuthor' \in [Target -> Kernel \cup {"main"}]
  BY <1>1 DEF Bind, TypeOK
<1> QED BY <1>2, <1>3, <1>4, <1>5, <1>6

(* The stages below a stage are stages of the pipeline.                    *)
LEMMA BelowType == \A s \in Pipeline : Below[s] \in SUBSET Pipeline
  BY DEF Below

(* A kernel without patches is well-typed.                                 *)
LEMMA InitType == Init => TypeOK
<1> SUFFICES ASSUME Init PROVE TypeOK
  OBVIOUS
<1>1. meta \in [Patch -> Context]
  BY ContextTypes DEF Init
<1>2. evidence \in [Patch -> 0..EvidenceHigh]
  BY EvidenceAssumption DEF Init
<1>3. staged \in [Patch -> [code : Code \cup {NoCode}, status : Status]]
  BY DEF Init, Status
<1>4. stage \in [Patch -> Stage] /\ passed \in [Patch -> SUBSET Pipeline]
  BY DEF Init, Stage, Pipeline
<1> QED BY <1>1, <1>2, <1>3, <1>4, TargetAssumption DEF Init, TypeOK

(* Operator commands about one patch, each keeps the types.                *)
LEMMA PatchStepType ==
  ASSUME TypeOK, NEW p \in Patch, PatchStep(p)
  PROVE  TypeOK'
<1>1. ASSUME NEW c \in Code, StagePatch(p, c) PROVE TypeOK'
  <2>1. meta' \in [Patch -> Context]
    BY <1>1, ContextTypes DEF StagePatch, TypeOK, Context
  <2>2. staged' \in [Patch -> [code : Code \cup {NoCode}, status : Status]]
    BY <1>1 DEF StagePatch, Enter, TypeOK, Status
  <2>3. stage' \in [Patch -> Stage] /\ passed' \in [Patch -> SUBSET Pipeline]
    BY <1>1 DEF StagePatch, TypeOK, Stage, Pipeline
  <2>4. author' \in [Patch -> Kernel \cup {"main"}]
    BY <1>1 DEF StagePatch, Enter, TypeOK
  <2> QED BY <1>1, <2>1, <2>2, <2>3, <2>4
          DEF StagePatch, TypeOK, classVars, policyVars
<1>2. ASSUME Advance(p) PROVE TypeOK'
  <2>1. stage' \in [Patch -> Stage]
    BY <1>2 DEF Advance, TypeOK, Stage, Pipeline
  <2>2. {"proposed", "regression_passed"} \subseteq Pipeline
    BY DEF Pipeline
  <2>3. passed' \in [Patch -> SUBSET Pipeline]
    BY <1>2, <2>2 DEF Advance, TypeOK
  <2> QED BY <1>2, <2>1, <2>3 DEF Advance, TypeOK, classVars, policyVars
<1>3. ASSUME NEW f \in FailureCounts, ApplyBlocked(p, f) PROVE TypeOK'
  <2>1. stage' \in [Patch -> Stage]
    BY <1>3 DEF ApplyBlocked, TypeOK, Stage
  <2>2. passed' \in [Patch -> SUBSET Pipeline]
    BY <1>3, BelowType DEF ApplyBlocked, TypeOK
  <2> QED BY <1>3, <2>1, <2>2 DEF ApplyBlocked, TypeOK, classVars, policyVars
<1>4. ASSUME NEW f \in FailureCounts, ApplyLive(p, f) PROVE TypeOK'
  <2> DEFINE now == passed[p] \cup (Below["shadow_deployed"] \ Below[stage[p]])
                              \cup {"shadow_deployed"}
  <2>1. staged[p].code \in Code /\ author[p] \in Kernel \cup {"main"}
    BY <1>4 DEF ApplyLive, Bindable, TypeOK
  <2>2. Bind(p, staged[p].code, now, author[p])
    BY <1>4 DEF ApplyLive
  <2>3. passed' \in [Patch -> SUBSET Pipeline]
    BY <1>4, BelowType DEF ApplyLive, TypeOK, Pipeline
  <2> HIDE DEF now
  <2> QED BY <1>4, <2>1, <2>2, <2>3, BindType DEF ApplyLive, TypeOK, policyVars
<1>5. ASSUME NEW c \in Code, NEW new \in BOOLEAN, NEW s \in Standings,
             NEW f \in FailureCounts, InjectBlocked(p, c, new, s, f)
      PROVE  TypeOK'
  <2>1. meta' \in [Patch -> Context] /\ evidence' \in [Patch -> 0..EvidenceHigh]
    BY <1>5, ContextTypes, EvidenceBounds, SourceAssumption DEF InjectBlocked, TypeOK
  <2>2. /\ staged' \in [Patch -> [code : Code \cup {NoCode}, status : Status]]
        /\ author' \in [Patch -> Kernel \cup {"main"}]
    BY <1>5 DEF InjectBlocked, Enter, TypeOK, Status
  <2>3. stage' \in [Patch -> Stage] /\ passed' \in [Patch -> SUBSET Pipeline]
    BY <1>5, BelowType DEF InjectBlocked, TypeOK, Stage
  <2> QED BY <1>5, <2>1, <2>2, <2>3 DEF InjectBlocked, TypeOK, classVars, policyVars
<1>6. ASSUME NEW c \in Code, NEW new \in BOOLEAN, NEW s \in Standings,
             NEW f \in FailureCounts, InjectLive(p, c, new, s, f)
      PROVE  TypeOK'
  <2>1. meta' \in [Patch -> Context] /\ evidence' \in [Patch -> 0..EvidenceHigh]
    BY <1>6, ContextTypes, EvidenceBounds, SourceAssumption DEF InjectLive, TypeOK
  <2>2. passed' \in [Patch -> SUBSET Pipeline] /\ author' \in [Patch -> Kernel \cup {"main"}]
    BY <1>6 DEF InjectLive, TypeOK
  <2>3. Bind(p, c, Pipeline, "main")
    BY <1>6 DEF InjectLive
  <2> QED BY <1>6, <2>1, <2>2, <2>3, BindType DEF InjectLive, TypeOK, policyVars
<1>7. ASSUME NEW s \in Standings, StandingMoves(p, s) PROVE TypeOK'
  <2>1. [meta[p] EXCEPT !.standing = s] \in Context
    <3>1. meta[p] \in Context /\ s \in Standing
      BY SourceAssumption DEF TypeOK
    <3> QED BY <3>1 DEF Context
  <2>2. meta' \in [Patch -> Context]
    BY <1>7, <2>1 DEF StandingMoves, TypeOK
  <2> QED BY <1>7, <2>2 DEF StandingMoves, TypeOK, classVars, policyVars, ghostVars
<1>8. ASSUME Quarantine(p) PROVE TypeOK'
  <2>1. staged' \in [Patch -> [code : Code \cup {NoCode}, status : Status]]
    BY <1>8 DEF Quarantine, TypeOK, Status
  <2> QED BY <1>8, <2>1 DEF Quarantine, TypeOK, classVars, policyVars, ghostVars
<1>9. ASSUME Release(p) PROVE TypeOK'
  BY <1>9 DEF Release, TypeOK, ladderVars, classVars, policyVars, ghostVars
<1>10. ASSUME EvidenceGathered(p) PROVE TypeOK'
  BY <1>10, EvidenceBounds DEF EvidenceGathered, TypeOK, classVars, policyVars, ghostVars
<1> QED BY <1>1, <1>2, <1>3, <1>4, <1>5, <1>6, <1>7, <1>8, <1>9, <1>10 DEF PatchStep

(* Reverts and changes of the policy sets keep the types.                  *)
LEMMA OperatorStepType == TypeOK /\ OperatorStep => TypeOK'
<1> SUFFICES ASSUME TypeOK, OperatorStep PROVE TypeOK'
  OBVIOUS
<1>1. ASSUME NEW t \in Target, RevertPatch(t) PROVE TypeOK'
  <2>1. staged' \in [Patch -> [code : Code \cup {NoCode}, status : Status]]
    BY <1>1 DEF RevertPatch, TypeOK, Status
  <2>2. stage' \in [Patch -> Stage]
    BY <1>1 DEF RevertPatch, TypeOK, Stage
  <2> QED BY <1>1, <2>1, <2>2 DEF RevertPatch, TypeOK, policyVars
<1>2. ASSUME NEW t \in Target, Unprotect(t) PROVE TypeOK'
  BY <1>2 DEF Unprotect, TypeOK, ladderVars, classVars, ghostVars
<1>3. ASSUME NEW t \in Target, AddTarget(t) PROVE TypeOK'
  BY <1>3 DEF AddTarget, TypeOK, ladderVars, classVars, ghostVars
<1>4. ASSUME NEW x \in Construct, RemoveBlock(x) PROVE TypeOK'
  BY <1>4 DEF RemoveBlock, TypeOK, ladderVars, classVars, ghostVars
<1> QED BY <1>1, <1>2, <1>3, <1>4 DEF OperatorStep

(* Packets of child kernels keep the types.                                *)
LEMMA PacketStepType == TypeOK /\ PacketStep => TypeOK'
<1> SUFFICES ASSUME TypeOK, NEW k \in Kernel, NEW p \in Patch,
                    NEW trust \in PacketTrust, NEW risk \in PacketRisk,
                    NEW s \in Standings,
                    \/ \E c \in Code : ProposalStaged(k, p, c, trust, risk, s)
                    \/ \E c \in Code : ProposalRejected(k, p, c, trust, risk, s)
                    \/ \E n \in RequestSizes : PromotionRequest(k, p, trust, risk, s, n)
             PROVE  TypeOK'
  BY DEF PacketStep
<1>0. s \in Standing
  BY SourceAssumption
<1>1. ASSUME NEW c \in Code, ProposalStaged(k, p, c, trust, risk, s) PROVE TypeOK'
  <2>1. meta' \in [Patch -> Context] /\ evidence' \in [Patch -> 0..EvidenceHigh]
    BY <1>0, <1>1, ContextTypes, EvidenceBounds DEF ProposalStaged, TypeOK
  <2>2. /\ staged' \in [Patch -> [code : Code \cup {NoCode}, status : Status]]
        /\ author' \in [Patch -> Kernel \cup {"main"}]
    BY <1>1 DEF ProposalStaged, Enter, TypeOK, Status
  <2>3. stage' \in [Patch -> Stage] /\ passed' \in [Patch -> SUBSET Pipeline]
    BY <1>1 DEF ProposalStaged, TypeOK, Stage, Pipeline
  <2> QED BY <1>1, <2>1, <2>2, <2>3 DEF ProposalStaged, TypeOK, classVars, policyVars
<1>2. ASSUME NEW c \in Code, ProposalRejected(k, p, c, trust, risk, s) PROVE TypeOK'
  <2>1. meta' \in [Patch -> Context] /\ evidence' \in [Patch -> 0..EvidenceHigh]
    BY <1>0, <1>2, ContextTypes, EvidenceBounds DEF ProposalRejected, TypeOK
  <2> QED BY <1>2, <2>1 DEF ProposalRejected, TypeOK, classVars, policyVars, ghostVars
<1>3. ASSUME NEW n \in RequestSizes, PromotionRequest(k, p, trust, risk, s, n)
      PROVE  TypeOK'
  <2>1. meta' \in [Patch -> Context] /\ evidence' \in [Patch -> 0..EvidenceHigh]
    BY <1>0, <1>3, ContextTypes, EvidenceBounds DEF PromotionRequest, TypeOK
  <2> QED BY <1>3, <2>1 DEF PromotionRequest, TypeOK, classVars, policyVars, ghostVars
<1> QED BY <1>1, <1>2, <1>3

(* Every step keeps the types.                                             *)
LEMMA StepType == TypeOK /\ [Next]_vars => TypeOK'
<1> SUFFICES ASSUME TypeOK, [Next]_vars PROVE TypeOK'
  OBVIOUS
<1>1. CASE Next
  BY <1>1, PatchStepType, OperatorStepType, PacketStepType DEF Next
<1>2. CASE UNCHANGED vars
  BY <1>2 DEF vars, ladderVars, classVars, policyVars, ghostVars, TypeOK
<1> QED BY <1>1, <1>2

(* Every variable keeps its type: in particular the evidence log of a patch*)
(* never outgrows the length at which record_evidence cuts it, and the     *)
(* stage of a patch is always a stage of the ladder.                       *)
THEOREM TypeCorrect == Spec => []TypeOK
<1> QED BY InitType, StepType, PTL DEF Spec
-----------------------------------------------------------------------------
(* The stages below, spelled out.                                          *)
LEMMA BelowValues ==
  /\ Below["proposed"] = {}
  /\ Below["static_approved"] = {"proposed"}
  /\ Below["sandbox_passed"] = {"proposed", "static_approved"}
  /\ Below["regression_passed"] = {"proposed", "static_approved", "sandbox_passed"}
  /\ Below["shadow_deployed"] = Pipeline \ {"shadow_deployed"}
  BY DEF Below, Rank, Pipeline

(* When a patch went live, it had passed the gate out of every stage.      *)
LEMMA FullClimb ==
  ASSUME TypeOK, StageBacked, NEW p \in Patch, stage[p] \in Pipeline
  PROVE  passed[p] \cup (Below["shadow_deployed"] \ Below[stage[p]])
           \cup {"shadow_deployed"} = Pipeline
<1>1. Below[stage[p]] \subseteq passed[p] /\ passed[p] \subseteq Pipeline
  BY DEF StageBacked, TypeOK
<1>2. "shadow_deployed" \in Pipeline
  BY DEF Pipeline
<1> QED BY <1>1, <1>2, BelowValues

(* How a step can change what a patch has passed and where it stands.      *)
LEMMA StageBackedStep == TypeOK /\ StageBacked /\ [Next]_vars => StageBacked'
<1> SUFFICES ASSUME TypeOK, StageBacked, [Next]_vars PROVE StageBacked'
  OBVIOUS
<1> DEFINE Backed(q) ==
      /\ stage[q] \in Pipeline => Below[stage[q]] \subseteq passed[q]
      /\ stage[q] \in {"live_promoted", "revertable"} => passed[q] = Pipeline
<1>a. \A q \in Patch : Backed(q)
  BY DEF StageBacked
<1>b. SUFFICES ASSUME NEW q \in Patch PROVE Backed(q)'
  BY DEF StageBacked
<1>c. ASSUME UNCHANGED <<stage, passed>> PROVE Backed(q)'
  BY <1>a, <1>c
<1>d. stage \in [Patch -> Stage] /\ passed \in [Patch -> SUBSET Pipeline]
  BY DEF TypeOK
<1>g. \A s \in Pipeline : s \notin {"live_promoted", "revertable"}
  BY DEF Pipeline
<1>e. ASSUME NEW p \in Patch, stage' = [stage EXCEPT ![p] = "proposed"],
             passed' = [passed EXCEPT ![p] = {}]
      PROVE  Backed(q)'
  BY <1>a, <1>d, <1>e, BelowValues
<1>f. ASSUME NEW p \in Patch, stage' = [stage EXCEPT ![p] = "live_promoted"],
             passed' = [passed EXCEPT ![p] = Pipeline]
      PROVE  Backed(q)'
  BY <1>a, <1>d, <1>f DEF Pipeline
<1>1. ASSUME NEW p \in Patch, NEW c \in Code, StagePatch(p, c) PROVE Backed(q)'
  BY <1>1, <1>e DEF StagePatch
<1>2. ASSUME NEW p \in Patch, Advance(p) PROVE Backed(q)'
  <2>1. CASE stage[p] = "proposed"
    <3>1. /\ stage' = [stage EXCEPT ![p] = "static_approved"]
          /\ passed' = [passed EXCEPT ![p] = @ \cup {"proposed"}]
      BY <1>2, <2>1 DEF Advance
    <3> QED BY <1>a, <1>d, <3>1, BelowValues DEF Pipeline
  <2>2. CASE stage[p] = "regression_passed"
    <3>1. /\ stage' = [stage EXCEPT ![p] = "shadow_deployed"]
          /\ passed' = [passed EXCEPT ![p] = @ \cup {"regression_passed"}]
      BY <1>2, <2>2 DEF Advance
    <3>2. Below["regression_passed"] \subseteq passed[p]
      BY <1>a, <2>2 DEF Pipeline
    <3>3. Below["shadow_deployed"] = Below["regression_passed"] \cup {"regression_passed"}
      BY BelowValues DEF Pipeline
    <3>4. CASE q = p
      <4>1. stage'[q] = "shadow_deployed" /\ passed'[q] = passed[p] \cup {"regression_passed"}
        BY <1>d, <3>1, <3>4
      <4> QED BY <3>2, <3>3, <4>1 DEF Pipeline
    <3>5. CASE q # p
      BY <1>a, <1>d, <3>1, <3>5
    <3> QED BY <3>4, <3>5
  <2>3. CASE stage[p] = "live_promoted"
    <3>1. stage' = [stage EXCEPT ![p] = "revertable"] /\ passed' = passed
      BY <1>2, <2>3 DEF Advance
    <3> QED BY <1>a, <1>d, <2>3, <3>1 DEF Pipeline
  <2> QED BY <1>2, <2>1, <2>2, <2>3 DEF Advance
<1>3. ASSUME NEW p \in Patch, NEW f \in FailureCounts, ApplyBlocked(p, f)
      PROVE  Backed(q)'
  <2>1. PICK to \in Pipeline :
          /\ stage' = [stage EXCEPT ![p] = to]
          /\ passed' = [passed EXCEPT ![p] = @ \cup (Below[to] \ Below[stage[p]])]
    BY <1>3 DEF ApplyBlocked
  <2>2. Below[stage[p]] \subseteq passed[p]
    BY <1>3, <1>a DEF ApplyBlocked
  <2>3. CASE q = p
    <3>1. stage'[q] = to /\ passed'[q] = passed[p] \cup (Below[to] \ Below[stage[p]])
      BY <1>d, <2>1, <2>3
    <3> QED BY <1>g, <2>2, <3>1
  <2>4. CASE q # p
    BY <1>a, <1>d, <2>1, <2>4
  <2> QED BY <2>3, <2>4
<1>4. ASSUME NEW p \in Patch, NEW f \in FailureCounts, ApplyLive(p, f)
      PROVE  Backed(q)'
  <2>1. /\ stage' = [stage EXCEPT ![p] = "live_promoted"]
        /\ passed' = [passed EXCEPT ![p] = Pipeline]
    BY <1>4, FullClimb DEF ApplyLive, Bind
  <2> QED BY <1>f, <2>1
<1>5. ASSUME NEW p \in Patch, NEW c \in Code, NEW new \in BOOLEAN,
             NEW s \in Standings, NEW f \in FailureCounts,
             InjectBlocked(p, c, new, s, f)
      PROVE  Backed(q)'
  <2>1. PICK to \in Pipeline : /\ stage' = [stage EXCEPT ![p] = to]
                               /\ passed' = [passed EXCEPT ![p] = Below[to]]
    BY <1>5 DEF InjectBlocked
  <2> QED BY <1>a, <1>d, <1>g, <2>1
<1>6. ASSUME NEW p \in Patch, NEW c \in Code, NEW new \in BOOLEAN,
             NEW s \in Standings, NEW f \in FailureCounts,
             InjectLive(p, c, new, s, f)
      PROVE  Backed(q)'
  BY <1>6, <1>f DEF InjectLive, Bind
<1>7. ASSUME NEW t \in Target, RevertPatch(t) PROVE Backed(q)'
  <2>1. passed' = passed /\ stage'[q] \in {"reverted", stage[q]}
    BY <1>7 DEF RevertPatch
  <2> QED BY <1>a, <2>1 DEF Pipeline
<1>8. ASSUME NEW k \in Kernel, NEW p \in Patch, NEW c \in Code, NEW trust \in PacketTrust,
             NEW risk \in PacketRisk, NEW s \in Standings,
             ProposalStaged(k, p, c, trust, risk, s)
      PROVE  Backed(q)'
  BY <1>8, <1>e DEF ProposalStaged
<1>9. ASSUME NEW p \in Patch, \/ \E s \in Standings : StandingMoves(p, s)
                              \/ EvidenceGathered(p) \/ Quarantine(p) \/ Release(p)
      PROVE  Backed(q)'
  BY <1>9, <1>c DEF StandingMoves, EvidenceGathered, Quarantine, Release,
                    ladderVars, ghostVars
<1>10. ASSUME \/ \E t \in Target : Unprotect(t) \/ AddTarget(t)
              \/ \E x \in Construct : RemoveBlock(x)
       PROVE  Backed(q)'
  BY <1>10, <1>c DEF Unprotect, AddTarget, RemoveBlock, ladderVars, ghostVars
<1>11. ASSUME NEW k \in Kernel, NEW p \in Patch, NEW trust \in PacketTrust,
              NEW risk \in PacketRisk, NEW s \in Standings,
              \/ \E c \in Code : ProposalRejected(k, p, c, trust, risk, s)
              \/ \E n \in RequestSizes : PromotionRequest(k, p, trust, risk, s, n)
       PROVE  Backed(q)'
  BY <1>11, <1>c DEF ProposalRejected, PromotionRequest, ghostVars
<1>12. CASE UNCHANGED vars
  BY <1>12, <1>c DEF vars, ladderVars, ghostVars
<1> HIDE DEF Backed
<1> QED BY <1>1, <1>2, <1>3, <1>4, <1>5, <1>6, <1>7, <1>8, <1>9, <1>10, <1>11, <1>12
        DEF Next, PatchStep, OperatorStep, PacketStep

(* No stage of the ladder is skipped, for any number of patches, whatever  *)
(* is restaged under whatever name.                                        *)
THEOREM NoStageSkipped == Spec => []StageBacked
<1>1. Init => StageBacked
  BY BelowValues DEF Init, StageBacked, Pipeline
<1> QED BY <1>1, TypeCorrect, StageBackedStep, PTL DEF Spec
-----------------------------------------------------------------------------
(* The kernel class moves in two ways only: through apply_live, with every *)
(* gate of the ladder passed, or through a revert.                         *)
ClassUnchanged == UNCHANGED <<bound, originals, evolved, vetted>>

(* Every step leaves the class and the vetted code alone, binds code that  *)
(* passed every gate, or restores a saved function.                        *)
LEMMA ClassMoves ==
  ASSUME TypeOK, StageBacked, [Next]_vars
  PROVE  \/ \E p \in Patch, c \in Code, who \in Kernel \cup {"main"} :
              Bindable(c) /\ Bind(p, c, Pipeline, who)
         \/ \E t \in Target : RevertPatch(t)
         \/ ClassUnchanged
<1> DEFINE Goal ==
      \/ \E p \in Patch, c \in Code, who \in Kernel \cup {"main"} :
           Bindable(c) /\ Bind(p, c, Pipeline, who)
      \/ \E t \in Target : RevertPatch(t)
      \/ ClassUnchanged
<1>1. ASSUME NEW p \in Patch, PatchStep(p) PROVE Goal
  <2>1. ASSUME NEW f \in FailureCounts, ApplyLive(p, f) PROVE Goal
    <3>1. author[p] \in Kernel \cup {"main"}
      BY DEF TypeOK
    <3>2. Bindable(staged[p].code) /\ staged[p].code \in Code
      BY <2>1 DEF ApplyLive, Bindable
    <3>3. Bind(p, staged[p].code, Pipeline, author[p])
      BY <2>1, FullClimb DEF ApplyLive
    <3> QED BY <3>1, <3>2, <3>3
  <2>2. ASSUME NEW c \in Code, NEW new \in BOOLEAN, NEW s \in Standings,
               NEW f \in FailureCounts, InjectLive(p, c, new, s, f)
        PROVE  Goal
    <3>1. Bindable(c) /\ Bind(p, c, Pipeline, "main")
      BY <2>2 DEF InjectLive
    <3> QED BY <3>1
  <2>3. ASSUME \/ \E c \in Code : StagePatch(p, c)
               \/ Advance(p)
               \/ \E f \in FailureCounts : ApplyBlocked(p, f)
               \/ \E c \in Code, new \in BOOLEAN, s \in Standings, f \in FailureCounts :
                    InjectBlocked(p, c, new, s, f)
        PROVE  ClassUnchanged
    BY <2>3 DEF StagePatch, Advance, ApplyBlocked, InjectBlocked, classVars, ClassUnchanged
  <2>4. ASSUME \/ \E s \in Standings : StandingMoves(p, s)
               \/ EvidenceGathered(p) \/ Quarantine(p) \/ Release(p)
        PROVE  ClassUnchanged
    BY <2>4 DEF StandingMoves, EvidenceGathered, Quarantine, Release, classVars,
                ghostVars, ClassUnchanged
  <2> QED BY <1>1, <2>1, <2>2, <2>3, <2>4 DEF PatchStep
<1>2. ASSUME OperatorStep PROVE Goal
  <2>1. ASSUME \/ \E t \in Target : Unprotect(t) \/ AddTarget(t)
               \/ \E x \in Construct : RemoveBlock(x)
        PROVE  ClassUnchanged
    BY <2>1 DEF Unprotect, AddTarget, RemoveBlock, classVars, ghostVars, ClassUnchanged
  <2> QED BY <1>2, <2>1 DEF OperatorStep
<1>3. ASSUME PacketStep PROVE ClassUnchanged
  <2> SUFFICES ASSUME NEW k \in Kernel, NEW p \in Patch, NEW trust \in PacketTrust,
                      NEW risk \in PacketRisk, NEW s \in Standings,
                      \/ \E c \in Code : ProposalStaged(k, p, c, trust, risk, s)
                      \/ \E c \in Code : ProposalRejected(k, p, c, trust, risk, s)
                      \/ \E n \in RequestSizes : PromotionRequest(k, p, trust, risk, s, n)
               PROVE  ClassUnchanged
    BY <1>3 DEF PacketStep
  <2>1. ASSUME NEW c \in Code, ProposalStaged(k, p, c, trust, risk, s)
        PROVE  ClassUnchanged
    BY <2>1 DEF ProposalStaged, classVars, ClassUnchanged
  <2>2. ASSUME NEW c \in Code, ProposalRejected(k, p, c, trust, risk, s)
        PROVE  ClassUnchanged
    BY <2>2 DEF ProposalRejected, classVars, ghostVars, ClassUnchanged
  <2>3. ASSUME NEW n \in RequestSizes, PromotionRequest(k, p, trust, risk, s, n)
        PROVE  ClassUnchanged
    BY <2>3 DEF PromotionRequest, classVars, ghostVars, ClassUnchanged
  <2> QED BY <2>1, <2>2, <2>3
<1>4. CASE UNCHANGED vars
  BY <1>4 DEF vars, classVars, ghostVars, ClassUnchanged
<1> QED BY <1>1, <1>2, <1>3, <1>4 DEF Next

(* What the properties of the class rest on: nothing but the original is   *)
(* ever saved for a native method, which is never unbound, and whatever is *)
(* saved for a created method was vetted when it was bound.                *)
NativeKept  == \A t \in Native : originals[t] \in {NoCode, Baseline} /\ bound[t] # NoCode
SavedVetted == \A t \in Target : originals[t] \in Code => originals[t] \in vetted

ClassInv ==
  TypeOK /\ StageBacked /\ LiveVetted /\ SavedVetted
    /\ BaselineKept /\ EvolvedExact /\ NativeKept

(* The class as written satisfies the invariant of the class.              *)
LEMMA ClassInvInit == Init => ClassInv
<1> SUFFICES ASSUME Init PROVE ClassInv
  OBVIOUS
<1>1. TypeOK
  BY InitType
<1>2. StageBacked
  BY BelowValues DEF Init, StageBacked, Pipeline
<1> QED BY <1>1, <1>2, CodeAssumption, TargetAssumption
        DEF Init, ClassInv, LiveVetted, SavedVetted, BaselineKept, EvolvedExact, NativeKept

(* apply_live saves the original at the first override and keeps it.       *)
LEMMA BindKeeps ==
  ASSUME ClassInv, NEW p \in Patch, NEW c \in Code, NEW who, Bind(p, c, Pipeline, who)
  PROVE  LiveVetted' /\ SavedVetted' /\ BaselineKept' /\ EvolvedExact' /\ NativeKept'
<1> DEFINE t0 == Defines(c)
<1>1. t0 \in Target /\ c # Baseline /\ c # NoCode /\ Baseline # NoCode
  BY CodeAssumption DEF Defines
<1>2. /\ \A t \in Target : bound'[t] = IF t = t0 THEN c ELSE bound[t]
      /\ \A t \in Target : originals'[t] = IF t = t0 /\ originals[t] = NoCode
                                           THEN bound[t] ELSE originals[t]
      /\ evolved' = evolved \cup {t0}
      /\ vetted' = vetted \cup {c}
  BY <1>1 DEF Bind, ClassInv, TypeOK
<1>3. Native \subseteq Target
  BY TargetAssumption
<1> HIDE DEF t0
<1>4. LiveVetted'
  BY <1>1, <1>2 DEF ClassInv, LiveVetted
<1>5. SavedVetted'
  BY <1>1, <1>2 DEF ClassInv, LiveVetted, SavedVetted
<1>6. BaselineKept' /\ NativeKept'
  BY <1>1, <1>2, <1>3 DEF ClassInv, BaselineKept, NativeKept
<1>7. EvolvedExact'
  BY <1>1, <1>2, <1>3 DEF ClassInv, EvolvedExact
<1> QED BY <1>4, <1>5, <1>6, <1>7

(* Putting the saved function back keeps the invariant of the class.       *)
LEMMA RevertKeeps ==
  ASSUME ClassInv, NEW t0 \in Target, RevertPatch(t0)
  PROVE  LiveVetted' /\ SavedVetted' /\ BaselineKept' /\ EvolvedExact' /\ NativeKept'
<1>1. /\ \A t \in Target : bound'[t] = IF t = t0 THEN originals[t] ELSE bound[t]
      /\ originals' = originals /\ originals[t0] # NoCode
      /\ evolved' = evolved \ {t0}
      /\ vetted' = vetted
  BY DEF RevertPatch, ClassInv, TypeOK
<1>2. Native \subseteq Target /\ Baseline # NoCode
  BY TargetAssumption, CodeAssumption
<1>3. LiveVetted' /\ SavedVetted'
  BY <1>1 DEF ClassInv, LiveVetted, SavedVetted
<1>4. BaselineKept' /\ NativeKept' /\ EvolvedExact'
  BY <1>1, <1>2 DEF ClassInv, BaselineKept, NativeKept, EvolvedExact
<1> QED BY <1>3, <1>4

(* So every step keeps it: each way the class can move does.               *)
LEMMA ClassInvStep == ClassInv /\ [Next]_vars => ClassInv'
<1> SUFFICES ASSUME ClassInv, [Next]_vars PROVE ClassInv'
  OBVIOUS
<1>1. TypeOK' /\ StageBacked'
  BY StepType, StageBackedStep DEF ClassInv
<1>2. LiveVetted' /\ SavedVetted' /\ BaselineKept' /\ EvolvedExact' /\ NativeKept'
  <2>1. CASE \E p \in Patch, c \in Code, who \in Kernel \cup {"main"} :
               Bindable(c) /\ Bind(p, c, Pipeline, who)
    BY <2>1, BindKeeps
  <2>2. CASE \E t \in Target : RevertPatch(t)
    BY <2>2, RevertKeeps
  <2>3. CASE ClassUnchanged
    BY <2>3 DEF ClassUnchanged, ClassInv, LiveVetted, SavedVetted, BaselineKept,
                EvolvedExact, NativeKept
  <2> QED BY <2>1, <2>2, <2>3, ClassMoves DEF ClassInv
<1> QED BY <1>1, <1>2 DEF ClassInv

(* The invariant of the class always holds.                                *)
LEMMA ClassInvariant == Spec => []ClassInv
<1> QED BY ClassInvInit, ClassInvStep, PTL DEF Spec

(* Whatever the kernel class is bound to, other than what it was written   *)
(* with, was vetted by every gate of the ladder.                           *)
THEOREM OnlyVettedCodeRuns == Spec => []LiveVetted
<1>1. ClassInv => LiveVetted
  BY DEF ClassInv
<1> QED BY <1>1, ClassInvariant, PTL

(* However many patches are stacked on a method, its original is at hand.  *)
THEOREM OriginalsSurvive == Spec => []BaselineKept
<1>1. ClassInv => BaselineKept
  BY DEF ClassInv
<1> QED BY <1>1, ClassInvariant, PTL

(* The report of patched methods is exact for the methods of the class.    *)
THEOREM ReportExact == Spec => []EvolvedExact
<1>1. ClassInv => EvolvedExact
  BY DEF ClassInv
<1> QED BY <1>1, ClassInvariant, PTL
-----------------------------------------------------------------------------
(* Nothing runs that is less callable than what it replaced.               *)
THEOREM CallersNeverBreak == Spec => ArityNeverGrows
<1> DEFINE A == \A t \in Native : bound'[t] \in Code /\ bound'[t] # bound[t] =>
                  Info[bound'[t]].arity <= ArityOf(bound[t], t)
<1>1. ClassInv /\ [Next]_vars => [A]_vars
  <2> SUFFICES ASSUME ClassInv, [Next]_vars, NEW t \in Native,
                      bound'[t] \in Code, bound'[t] # bound[t]
               PROVE  Info[bound'[t]].arity <= ArityOf(bound[t], t)
    OBVIOUS
  <2>0. t \in Target /\ bound[t] # NoCode /\ Baseline \notin Code /\ NoCode \notin Code
    BY TargetAssumption, CodeAssumption DEF ClassInv, NativeKept
  <2>1. CASE \E p \in Patch, c \in Code, who \in Kernel \cup {"main"} :
               Bindable(c) /\ Bind(p, c, Pipeline, who)
    <3>1. PICK c \in Code : Bindable(c) /\ bound' = [bound EXCEPT ![Defines(c)] = c]
      BY <2>1 DEF Bind
    <3>2. t = Defines(c) /\ bound'[t] = c
      BY <2>0, <3>1 DEF ClassInv, TypeOK
    <3> QED BY <2>0, <3>1, <3>2 DEF Bindable, Compatible
  <2>2. CASE \E s \in Target : RevertPatch(s)
    <3>1. PICK s \in Target : RevertPatch(s)
      BY <2>2
    <3>2. t = s /\ bound'[t] = originals[t]
      BY <2>0, <3>1 DEF RevertPatch, ClassInv, TypeOK
    <3> QED BY <2>0, <3>2 DEF ClassInv, NativeKept
  <2>3. CASE ClassUnchanged
    BY <2>3 DEF ClassUnchanged
  <2> QED BY <2>1, <2>2, <2>3, ClassMoves DEF ClassInv
<1> QED BY <1>1, ClassInvariant, PTL DEF Spec, ArityNeverGrows
-----------------------------------------------------------------------------
(* Refinement: the ladder with all its gates implements the method table.  *)
LEMMA TableInit == Init => Table!MInit
  BY DEF Init, Table!MInit, Table!Written, Table!NotSaved, Native

(* Each way the class can move is a step of the method table, or none.     *)
LEMMA TableStep == ClassInv /\ [Next]_vars => [Table!MNext]_<<bound, originals>>
<1> SUFFICES ASSUME ClassInv, [Next]_vars PROVE [Table!MNext]_<<bound, originals>>
  OBVIOUS
<1>1. CASE \E p \in Patch, c \in Code, who \in Kernel \cup {"main"} :
             Bindable(c) /\ Bind(p, c, Pipeline, who)
  <2>1. PICK c \in Code :
          /\ Bindable(c)
          /\ bound' = [bound EXCEPT ![Defines(c)] = c]
          /\ originals' = IF originals[Defines(c)] = NoCode
                          THEN [originals EXCEPT ![Defines(c)] = bound[Defines(c)]]
                          ELSE originals
    BY <1>1 DEF Bind
  <2>2. Table!Replaces(c, bound[Defines(c)])
    BY <2>1 DEF Table!Replaces, Table!Arity, Bindable, Compatible, ArityOf, Defines
  <2>3. Table!Override(c)
    BY <2>1, <2>2 DEF Table!Override, Defines
  <2> QED BY <2>3 DEF Table!MNext
<1>2. CASE \E t \in Target : RevertPatch(t)
  <2>1. PICK t \in Target : RevertPatch(t)
    BY <1>2
  <2>2. Table!Restore(t)
    BY <2>1 DEF RevertPatch, Table!Restore
  <2> QED BY <2>2 DEF Table!MNext
<1>3. CASE ClassUnchanged
  BY <1>3 DEF ClassUnchanged
<1> QED BY <1>1, <1>2, <1>3, ClassMoves DEF ClassInv

(* Every behaviour of patch governance is, seen from the kernel class, a   *)
(* sequence of sound overrides and restores.                               *)
THEOREM LadderImplementsTable == Spec => TableSpec
<1> QED BY TableInit, TableStep, ClassInvariant, PTL
        DEF Spec, TableSpec, Table!MSpec, Table!mvars
-----------------------------------------------------------------------------
(* The ways the record of a patch and its stage move together.             *)
Restaged(p, c, to) ==
  /\ staged' = [staged EXCEPT ![p] = [code |-> c, status |-> "staged"]]
  /\ stage' = [stage EXCEPT ![p] = to]
  /\ UNCHANGED bound

Climbed(p, to) ==
  /\ \/ stage[p] \in Pipeline /\ to \in Pipeline
     \/ stage[p] = "live_promoted" /\ to = "revertable"
  /\ stage' = [stage EXCEPT ![p] = to]
  /\ UNCHANGED <<staged, bound>>

RecordUnchanged == UNCHANGED <<staged, stage, bound>>

RecordMove ==
  \/ \E p \in Patch, c \in Code, to \in Pipeline : Restaged(p, c, to)
  \/ \E p \in Patch, to \in Stage : Climbed(p, to)
  \/ \E p \in Patch, c \in Code, s \in SUBSET Pipeline, who \in Kernel \cup {"main"} :
       Bind(p, c, s, who)
  \/ \E t \in Target : RevertPatch(t)
  \/ \E p \in Patch : Quarantine(p)
  \/ RecordUnchanged

(* Every step moves the records and stages in one of the six ways above.   *)
LEMMA RecordMoves == ASSUME TypeOK, [Next]_vars PROVE RecordMove
<1>0. "proposed" \in Pipeline /\ "static_approved" \in Pipeline
        /\ "regression_passed" \in Pipeline /\ "shadow_deployed" \in Pipeline
        /\ Pipeline \subseteq Stage /\ "revertable" \in Stage
  BY DEF Pipeline, Stage
<1>1. ASSUME NEW p \in Patch, PatchStep(p) PROVE RecordMove
  <2>1. ASSUME NEW c \in Code, StagePatch(p, c) PROVE RecordMove
    <3>1. Restaged(p, c, "proposed")
      BY <2>1 DEF StagePatch, Enter, Restaged, classVars
    <3> QED BY <1>0, <3>1 DEF RecordMove
  <2>2. ASSUME Advance(p) PROVE RecordMove
    <3>1. \/ Climbed(p, "static_approved") \/ Climbed(p, "shadow_deployed")
          \/ Climbed(p, "revertable")
      BY <1>0, <2>2 DEF Advance, Climbed, classVars
    <3> QED BY <1>0, <3>1 DEF RecordMove
  <2>3. ASSUME NEW f \in FailureCounts, ApplyBlocked(p, f) PROVE RecordMove
    <3>1. \E to \in Pipeline : Climbed(p, to)
      BY <2>3 DEF ApplyBlocked, Climbed, classVars
    <3> QED BY <1>0, <3>1 DEF RecordMove
  <2>4. ASSUME NEW f \in FailureCounts, ApplyLive(p, f) PROVE RecordMove
    <3> DEFINE now == passed[p] \cup (Below["shadow_deployed"] \ Below[stage[p]])
                                \cup {"shadow_deployed"}
    <3>1. Bind(p, staged[p].code, now, author[p]) /\ staged[p].code \in Code
      BY <2>4 DEF ApplyLive, Bindable
    <3>2. now \in SUBSET Pipeline /\ author[p] \in Kernel \cup {"main"}
      BY <1>0, BelowType DEF TypeOK
    <3> HIDE DEF now
    <3> QED BY <3>1, <3>2 DEF RecordMove
  <2>5. ASSUME NEW c \in Code, NEW new \in BOOLEAN, NEW s \in Standings,
               NEW f \in FailureCounts, InjectBlocked(p, c, new, s, f)
        PROVE  RecordMove
    <3>1. \E to \in Pipeline : Restaged(p, c, to)
      BY <2>5 DEF InjectBlocked, Enter, Restaged, classVars
    <3> QED BY <3>1 DEF RecordMove
  <2>6. ASSUME NEW c \in Code, NEW new \in BOOLEAN, NEW s \in Standings,
               NEW f \in FailureCounts, InjectLive(p, c, new, s, f)
        PROVE  RecordMove
    <3>1. Bind(p, c, Pipeline, "main")
      BY <2>6 DEF InjectLive
    <3> QED BY <3>1 DEF RecordMove
  <2>7. ASSUME NEW s \in Standings, StandingMoves(p, s) PROVE RecordUnchanged
    BY <2>7 DEF StandingMoves, classVars, RecordUnchanged
  <2>8. ASSUME Release(p) \/ EvidenceGathered(p) PROVE RecordUnchanged
    BY <2>8 DEF Release, EvidenceGathered, ladderVars, classVars, RecordUnchanged
  <2> QED BY <1>1, <2>1, <2>2, <2>3, <2>4, <2>5, <2>6, <2>7, <2>8
          DEF PatchStep, RecordMove
<1>2. ASSUME OperatorStep PROVE RecordMove
  <2>1. ASSUME \/ \E t \in Target : Unprotect(t) \/ AddTarget(t)
               \/ \E x \in Construct : RemoveBlock(x)
        PROVE  RecordUnchanged
    BY <2>1 DEF Unprotect, AddTarget, RemoveBlock, ladderVars, classVars, RecordUnchanged
  <2> QED BY <1>2, <2>1 DEF OperatorStep, RecordMove
<1>3. ASSUME PacketStep PROVE RecordMove
  <2> SUFFICES ASSUME NEW k \in Kernel, NEW p \in Patch, NEW trust \in PacketTrust,
                      NEW risk \in PacketRisk, NEW s \in Standings,
                      \/ \E c \in Code : ProposalStaged(k, p, c, trust, risk, s)
                      \/ \E c \in Code : ProposalRejected(k, p, c, trust, risk, s)
                      \/ \E n \in RequestSizes : PromotionRequest(k, p, trust, risk, s, n)
               PROVE  RecordMove
    BY <1>3 DEF PacketStep
  <2>1. ASSUME NEW c \in Code, ProposalStaged(k, p, c, trust, risk, s)
        PROVE  Restaged(p, c, "proposed")
    BY <2>1 DEF ProposalStaged, Enter, Restaged, classVars
  <2>2. ASSUME NEW c \in Code, ProposalRejected(k, p, c, trust, risk, s)
        PROVE  RecordUnchanged
    BY <2>2 DEF ProposalRejected, classVars, RecordUnchanged
  <2>3. ASSUME NEW n \in RequestSizes, PromotionRequest(k, p, trust, risk, s, n)
        PROVE  RecordUnchanged
    BY <2>3 DEF PromotionRequest, classVars, RecordUnchanged
  <2> QED BY <1>0, <2>1, <2>2, <2>3 DEF RecordMove
<1>4. CASE UNCHANGED vars
  BY <1>4 DEF vars, ladderVars, classVars, RecordMove, RecordUnchanged
<1> QED BY <1>1, <1>2, <1>3, <1>4 DEF Next

RecordInv == TypeOK /\ NoPhantomApplied /\ StageMatchesStatus

(* Each of the six ways keeps records and stages in agreement.             *)
LEMMA RecordInvStep == RecordInv /\ [Next]_vars => RecordInv'
<1> SUFFICES ASSUME RecordInv, [Next]_vars PROVE RecordInv'
  OBVIOUS
<1> USE DEF RecordInv
<1>0. TypeOK'
  BY StepType
<1>a. Baseline \notin Code /\ Native \subseteq Target
  BY CodeAssumption, TargetAssumption
<1>b. \A s \in Pipeline : s \notin {"live_promoted", "revertable"}
  BY DEF Pipeline
<1>c. /\ staged \in [Patch -> [code : Code \cup {NoCode}, status : Status]]
      /\ stage \in [Patch -> Stage] /\ bound \in [Target -> Code \cup {Baseline, NoCode}]
  BY DEF TypeOK
<1>1. ASSUME NEW p \in Patch, NEW c \in Code, NEW to \in Pipeline, Restaged(p, c, to)
      PROVE  NoPhantomApplied' /\ StageMatchesStatus'
  <2>1. \A q \in Patch \ {p} : staged'[q] = staged[q] /\ stage'[q] = stage[q]
    BY <1>1, <1>c DEF Restaged
  <2>2. staged'[p].status = "staged" /\ stage'[p] = to /\ bound' = bound
    BY <1>1, <1>c DEF Restaged
  <2> QED BY <1>b, <2>1, <2>2 DEF NoPhantomApplied, StageMatchesStatus
<1>2. ASSUME NEW p \in Patch, NEW to \in Stage, Climbed(p, to)
      PROVE  NoPhantomApplied' /\ StageMatchesStatus'
  <2>1. /\ staged' = staged /\ bound' = bound
        /\ \A q \in Patch \ {p} : stage'[q] = stage[q]
        /\ stage'[p] = to
    BY <1>2, <1>c DEF Climbed
  <2> QED BY <1>2, <1>b, <2>1 DEF Climbed, NoPhantomApplied, StageMatchesStatus
<1>3. ASSUME NEW p \in Patch, NEW c \in Code, NEW s, NEW who, Bind(p, c, s, who)
      PROVE  NoPhantomApplied' /\ StageMatchesStatus'
  <2>1. /\ \A q \in Patch \ {p} : staged'[q] = staged[q] /\ stage'[q] = stage[q]
        /\ staged'[p].code = c /\ staged'[p].status = "applied"
        /\ stage'[p] = "live_promoted"
    BY <1>3, <1>c DEF Bind
  <2>2. \A t \in Target : bound'[t] = IF t = Defines(c) THEN c ELSE bound[t]
    BY <1>3, <1>c DEF Bind
  <2>3. NoPhantomApplied'
    BY <1>a, <2>1, <2>2 DEF NoPhantomApplied
  <2>4. StageMatchesStatus'
    BY <2>1 DEF StageMatchesStatus
  <2> QED BY <2>3, <2>4
<1>4. ASSUME NEW t \in Target, RevertPatch(t)
      PROVE  NoPhantomApplied' /\ StageMatchesStatus'
  <2> DEFINE closed(q) == staged[q].status = "applied" /\ Defines(staged[q].code) = t
  <2>1. \A q \in Patch :
          /\ staged'[q] = IF closed(q) THEN [staged[q] EXCEPT !.status = "reverted"]
                                       ELSE staged[q]
          /\ stage'[q] = IF closed(q) THEN "reverted" ELSE stage[q]
    BY <1>4 DEF RevertPatch
  <2>2. \A q \in Patch : closed(q) =>
          staged'[q].status = "reverted" /\ stage'[q] = "reverted"
    BY <2>1, <1>c
  <2>3. \A q \in Patch : ~closed(q) => staged'[q] = staged[q] /\ stage'[q] = stage[q]
    BY <2>1
  <2>4. \A u \in Target \ {t} : bound'[u] = bound[u]
    BY <1>4, <1>c DEF RevertPatch
  <2>5. NoPhantomApplied'
    BY <1>a, <2>2, <2>3, <2>4 DEF NoPhantomApplied
  <2>6. StageMatchesStatus'
    <3> HIDE DEF closed
    <3> QED BY <2>2, <2>3 DEF StageMatchesStatus
  <2> QED BY <2>5, <2>6
<1>5. ASSUME NEW p \in Patch, Quarantine(p)
      PROVE  NoPhantomApplied' /\ StageMatchesStatus'
  <2>1. /\ \A q \in Patch \ {p} : staged'[q] = staged[q]
        /\ staged'[p].status = "quarantined"
        /\ stage' = stage /\ bound' = bound
    BY <1>5, <1>c DEF Quarantine, classVars
  <2> QED BY <2>1 DEF NoPhantomApplied, StageMatchesStatus
<1>6. ASSUME RecordUnchanged PROVE NoPhantomApplied' /\ StageMatchesStatus'
  <2>1. staged' = staged /\ stage' = stage /\ bound' = bound
    BY <1>6 DEF RecordUnchanged
  <2> QED BY <2>1 DEF NoPhantomApplied, StageMatchesStatus
<1>7. NoPhantomApplied' /\ StageMatchesStatus'
  <2>1. RecordMove
    BY RecordMoves
  <2> QED BY <1>1, <1>2, <1>3, <1>4, <1>5, <1>6, <2>1 DEF RecordMove
<1> QED BY <1>0, <1>7

(* Records and stages always agree.                                        *)
LEMMA RecordInvariant == Spec => []RecordInv
<1>1. Init => RecordInv
  <2> SUFFICES ASSUME Init PROVE RecordInv
    OBVIOUS
  <2>1. \A p \in Patch : staged[p].status = "absent" /\ stage[p] = "proposed"
    BY DEF Init
  <2> QED BY <2>1, InitType DEF RecordInv, NoPhantomApplied, StageMatchesStatus
<1> QED BY <1>1, RecordInvStep, PTL DEF Spec

(* An applied patch is never a phantom: reverting closes the whole stack.  *)
THEOREM NoPhantoms == Spec => []NoPhantomApplied
<1>1. RecordInv => NoPhantomApplied
  BY DEF RecordInv
<1> QED BY <1>1, RecordInvariant, PTL

(* Record and ladder agree on what is live, quarantine aside.              *)
THEOREM RecordMatchesLadder == Spec => []StageMatchesStatus
<1>1. RecordInv => StageMatchesStatus
  BY DEF RecordInv
<1> QED BY <1>1, RecordInvariant, PTL
-----------------------------------------------------------------------------
(* The gates of the ladder.                                                *)

(* A source that may go live may be deployed as a shadow: apply_live never *)
(* opens a gate that the climb to shadow_deployed would have refused.      *)
THEOREM LiveImpliesShadow ==
  ASSUME NEW ctx \in Context, NEW n \in Nat, LiveGate(ctx, n)
  PROVE  ShadowGate(ctx, n)
<1>1. PolicyAllows(ctx, "hub")
  <2>1. AtLeast(ctx.trust, TrustFloor[ctx.role]) /\ WithinRisk(ctx.role, ctx.trust, ctx.risk)
    BY DEF LiveGate, PolicyAllows
  <2>2. "main" \in PromotionTargets[ctx.role] /\ ctx.role \in Roles
    BY DEF LiveGate, PolicyAllows, Context
  <2>3. "hub" \in PromotionTargets[ctx.role]
    BY <2>2 DEF PromotionTargets, Roles
  <2> QED BY <2>1, <2>3 DEF PolicyAllows
<1>2. CASE SovereignMain(ctx)
  BY <1>1, <1>2 DEF ShadowGate, AdaptiveAllows
<1>3. CASE ~SovereignMain(ctx)
  <2> DEFINE std == ctx.standing
  <2>1. std \in Standing
    BY DEF Context
  <2>2. /\ Thresholds("main") = [evidence |-> 3, rate |-> 60, pressure |-> 80, failures |-> 175]
        /\ Thresholds("shadow_deployed")
             = [evidence |-> 2, rate |-> 45, pressure |-> 95, failures |-> 300]
    BY DEF Thresholds, LiveStages, HardStages
  <2>3. /\ ~(std.cooldown /\ "main" \in HardStages)
        /\ n >= EvidenceNeeded("main", std.maturity)
        /\ std.rate >= 60 /\ std.pressure <= 80 /\ std.failures <= 175
    BY <1>3, <2>2 DEF LiveGate, AdaptiveAllows
  <2>4. n >= EvidenceNeeded("shadow_deployed", std.maturity)
    BY <2>1, <2>2, <2>3 DEF EvidenceNeeded, HardStages, MaturityThreshold, Standing
  <2>5. /\ std.rate >= 45 /\ std.pressure <= 95 /\ std.failures <= 300
        /\ ~std.cooldown /\ "shadow_deployed" \notin LiveStages
    BY <2>1, <2>3 DEF Standing, HardStages, LiveStages
  <2> QED BY <1>1, <2>2, <2>4, <2>5 DEF ShadowGate, AdaptiveAllows
<1> QED BY <1>2, <1>3

(* Among child kernels only a trusted hub on a local node passes the gate  *)
(* to live, and only with at least two pieces of evidence.                 *)
THEOREM OnlyTrustedLocalHub ==
  ASSUME NEW ctx \in Context, NEW n \in Nat, ctx.role # "main", LiveGate(ctx, n)
  PROVE  /\ ctx.role = "hub" /\ ctx.locality = "local"
         /\ ctx.trust \in {"trusted", "sovereign"}
         /\ n >= 2
<1>1. PolicyAllows(ctx, "main") /\ AdaptiveAllows(ctx, "main", n)
  BY DEF LiveGate
<1>2. ctx.role \in Roles /\ ctx.trust \in TrustLevel /\ ctx.standing \in Standing
  BY DEF Context
<1>3. ctx.role = "hub" /\ ctx.locality = "local" /\ AtLeast(ctx.trust, "trusted")
  BY <1>1, <1>2 DEF PolicyAllows, PromotionTargets, Roles
<1>4. ctx.trust \in {"trusted", "sovereign"}
  BY <1>2, <1>3 DEF AtLeast, TrustScore, TrustLevel
<1>5. n >= EvidenceNeeded("main", ctx.standing.maturity)
  BY <1>1 DEF AdaptiveAllows, SovereignMain
<1>6. n >= 2
  BY <1>2, <1>5 DEF EvidenceNeeded, Thresholds, HardStages, LiveStages,
                    MaturityThreshold, Standing
<1> QED BY <1>3, <1>4, <1>6

(* Cutting the evidence log never takes a gate back.                       *)
THEOREM EvidenceNeverLost == Spec => EvidenceKept
<1> DEFINE Log == /\ EvidenceKeep \in Nat /\ EvidenceHigh \in Nat
                  /\ 3 <= EvidenceKeep /\ EvidenceKeep <= EvidenceHigh
<1>a. Log
  BY EvidenceAssumption
<1>b. \A n \in Nat : n >= 3 => OneMore(n) >= 3 /\ OneMore(n) \in Nat
  BY <1>a DEF OneMore
<1>c. \A n \in Nat : n >= 3 => ThreeMore(n) >= 3
  BY <1>b DEF ThreeMore
<1>d. \A n \in Nat, k \in RequestSizes : n >= 3 => OneMore(Extend(n, k)) >= 3
  <2>1. \A n \in Nat, k \in RequestSizes : n >= 3 => Extend(n, k) >= 3 /\ Extend(n, k) \in Nat
    BY <1>a, SourceAssumption DEF Extend
  <2> QED BY <1>b, <2>1
<1>1. TypeOK /\ [Next]_vars => [\A p \in Patch : evidence[p] >= 3 => evidence'[p] >= 3]_vars
  <2> SUFFICES ASSUME TypeOK, [Next]_vars, NEW q \in Patch, evidence[q] >= 3
               PROVE  evidence'[q] >= 3
    OBVIOUS
  <2>0. evidence \in [Patch -> Nat]
    BY <1>a DEF TypeOK
  <2>1. CASE UNCHANGED evidence
    BY <2>1
  <2>2. ASSUME NEW p \in Patch, evidence' = [evidence EXCEPT ![p] = ThreeMore(@)]
        PROVE  evidence'[q] >= 3
    BY <1>c, <2>0, <2>2
  <2>3. ASSUME NEW p \in Patch, \/ evidence' = [evidence EXCEPT ![p] = OneMore(@)]
                                \/ evidence' = [evidence EXCEPT ![p] = OneMore(OneMore(@))]
        PROVE  evidence'[q] >= 3
    BY <1>b, <2>0, <2>3
  <2>4. ASSUME NEW p \in Patch, NEW n \in RequestSizes,
               evidence' = [evidence EXCEPT ![p] = OneMore(Extend(@, n))]
        PROVE  evidence'[q] >= 3
    BY <1>d, <2>0, <2>4
  <2>5. ASSUME NEW p \in Patch, PatchStep(p) PROVE evidence'[q] >= 3
    <3>1. \/ UNCHANGED evidence
          \/ evidence' = [evidence EXCEPT ![p] = ThreeMore(@)]
          \/ evidence' = [evidence EXCEPT ![p] = OneMore(@)]
      BY <2>5 DEF PatchStep, StagePatch, Advance, ApplyBlocked, ApplyLive, InjectBlocked,
                  InjectLive, StandingMoves, EvidenceGathered, Quarantine, Release, ladderVars
    <3> QED BY <3>1, <2>1, <2>2, <2>3
  <2>6. ASSUME OperatorStep PROVE UNCHANGED evidence
    BY <2>6 DEF OperatorStep, RevertPatch, Unprotect, AddTarget, RemoveBlock, ladderVars
  <2>7. ASSUME PacketStep PROVE evidence'[q] >= 3
    <3>1. PICK k \in Kernel, p \in Patch, trust \in PacketTrust, risk \in PacketRisk,
               s \in Standings :
            \/ \E c \in Code : ProposalStaged(k, p, c, trust, risk, s)
            \/ \E c \in Code : ProposalRejected(k, p, c, trust, risk, s)
            \/ \E n \in RequestSizes : PromotionRequest(k, p, trust, risk, s, n)
      BY <2>7 DEF PacketStep
    <3>2. CASE \/ \E c \in Code : ProposalStaged(k, p, c, trust, risk, s)
               \/ \E c \in Code : ProposalRejected(k, p, c, trust, risk, s)
      BY <3>2, <2>3 DEF ProposalStaged, ProposalRejected
    <3>3. CASE \E n \in RequestSizes : PromotionRequest(k, p, trust, risk, s, n)
      BY <3>3, <2>4 DEF PromotionRequest
    <3> QED BY <3>1, <3>2, <3>3
  <2>8. CASE UNCHANGED vars
    BY <2>1, <2>8 DEF vars, ladderVars
  <2> QED BY <2>1, <2>5, <2>6, <2>7, <2>8 DEF Next
<1> QED BY <1>1, TypeCorrect, PTL DEF Spec, EvidenceKept
-----------------------------------------------------------------------------
(* A main kernel with subkernels and no hub.                               *)

(* What a child kernel staged is recorded as coming from a subkernel.      *)
AuthorRecorded == \A p \in Patch : author[p] # "main" => meta[p].role = "subkernel"

OnlyMainLive == \A t \in Target : liveAuthor[t] = "main"

(* Where no hub vouches for them, code of subkernels is never live,        *)
(* whatever trust, evidence or standing their packets claim.               *)
THEOREM SubkernelsAloneNeverLive ==
  ASSUME \A k \in Kernel : RoleOf[k] = "subkernel"
  PROVE  Spec => []SubkernelCodeNotLive
<1> DEFINE Inv == TypeOK /\ AuthorRecorded /\ OnlyMainLive
<1>1. Init => Inv
  BY InitType DEF Init, AuthorRecorded, OnlyMainLive
<1>2. Inv /\ [Next]_vars => Inv'
  <2> SUFFICES ASSUME Inv, [Next]_vars PROVE AuthorRecorded' /\ OnlyMainLive'
    BY StepType
  <2>0. /\ meta \in [Patch -> Context] /\ author \in [Patch -> Kernel \cup {"main"}]
        /\ liveAuthor \in [Target -> Kernel \cup {"main"}]
    BY DEF TypeOK
  <2>a. ASSUME UNCHANGED liveAuthor PROVE OnlyMainLive'
    BY <2>a DEF OnlyMainLive
  <2>b. ASSUME UNCHANGED <<meta, author>> PROVE AuthorRecorded'
    BY <2>b DEF AuthorRecorded
  <2>c. ASSUME NEW p \in Patch, NEW ctx,
               author' = [author EXCEPT ![p] = "main"],
               meta' = [meta EXCEPT ![p] = ctx]
        PROVE  AuthorRecorded'
    BY <2>0, <2>c DEF AuthorRecorded
  <2>d. ASSUME NEW p \in Patch, NEW c \in Code, NEW s, Bind(p, c, s, "main")
        PROVE  OnlyMainLive'
    BY <2>0, <2>d DEF Bind, OnlyMainLive
  <2>1. ASSUME NEW p \in Patch, PatchStep(p) PROVE AuthorRecorded' /\ OnlyMainLive'
    <3>1. ASSUME NEW c \in Code, StagePatch(p, c) PROVE AuthorRecorded' /\ OnlyMainLive'
      BY <3>1, <2>a, <2>c DEF StagePatch, Enter
    <3>2. ASSUME NEW f \in FailureCounts, ApplyLive(p, f)
          PROVE  AuthorRecorded' /\ OnlyMainLive'
      <4>1. author[p] = "main"
        <5>1. LiveGate(meta[p], evidence[p]) /\ meta[p] \in Context /\ evidence[p] \in Nat
          BY <3>2, EvidenceAssumption DEF ApplyLive, TypeOK
        <5>2. meta[p].role # "subkernel"
          BY <5>1 DEF LiveGate, PolicyAllows, PromotionTargets, Roles
        <5> QED BY <5>2 DEF AuthorRecorded
      <4>2. OnlyMainLive'
        BY <3>2, <4>1, <2>d DEF ApplyLive, Bindable
      <4> QED BY <3>2, <4>2, <2>b DEF ApplyLive
    <3>3. ASSUME NEW c \in Code, NEW new \in BOOLEAN, NEW s \in Standings,
                 NEW f \in FailureCounts, InjectBlocked(p, c, new, s, f)
          PROVE  AuthorRecorded' /\ OnlyMainLive'
      BY <3>3, <2>a, <2>c DEF InjectBlocked, Enter
    <3>4. ASSUME NEW c \in Code, NEW new \in BOOLEAN, NEW s \in Standings,
                 NEW f \in FailureCounts, InjectLive(p, c, new, s, f)
          PROVE  AuthorRecorded' /\ OnlyMainLive'
      BY <3>4, <2>c, <2>d DEF InjectLive
    <3>5. ASSUME NEW s \in Standings, StandingMoves(p, s)
          PROVE  AuthorRecorded' /\ OnlyMainLive'
      <4>1. \A q \in Patch : meta'[q].role = meta[q].role
        BY <3>5, <2>0 DEF StandingMoves, Context
      <4> QED BY <3>5, <4>1, <2>a DEF StandingMoves, ghostVars, AuthorRecorded
    <3>6. ASSUME \/ Advance(p) \/ \E f \in FailureCounts : ApplyBlocked(p, f)
          PROVE  AuthorRecorded' /\ OnlyMainLive'
      BY <3>6, <2>a, <2>b DEF Advance, ApplyBlocked
    <3>7. ASSUME EvidenceGathered(p) \/ Quarantine(p) \/ Release(p)
          PROVE  AuthorRecorded' /\ OnlyMainLive'
      BY <3>7, <2>a, <2>b DEF EvidenceGathered, Quarantine, Release, ladderVars, ghostVars
    <3> QED BY <2>1, <3>1, <3>2, <3>3, <3>4, <3>5, <3>6, <3>7 DEF PatchStep
  <2>2. ASSUME OperatorStep PROVE AuthorRecorded' /\ OnlyMainLive'
    <3>1. ASSUME NEW t \in Target, RevertPatch(t) PROVE AuthorRecorded' /\ OnlyMainLive'
      BY <3>1, <2>0, <2>b DEF RevertPatch, OnlyMainLive
    <3>2. ASSUME \/ \E t \in Target : Unprotect(t) \/ AddTarget(t)
                 \/ \E x \in Construct : RemoveBlock(x)
          PROVE  AuthorRecorded' /\ OnlyMainLive'
      BY <3>2, <2>a, <2>b DEF Unprotect, AddTarget, RemoveBlock, ladderVars, ghostVars
    <3> QED BY <2>2, <3>1, <3>2 DEF OperatorStep
  <2>3. ASSUME PacketStep PROVE AuthorRecorded' /\ OnlyMainLive'
    <3> SUFFICES ASSUME NEW k \in Kernel, NEW p \in Patch, NEW trust \in PacketTrust,
                        NEW risk \in PacketRisk, NEW s \in Standings,
                        \/ \E c \in Code : ProposalStaged(k, p, c, trust, risk, s)
                        \/ \E c \in Code : ProposalRejected(k, p, c, trust, risk, s)
                        \/ \E n \in RequestSizes : PromotionRequest(k, p, trust, risk, s, n)
                 PROVE  AuthorRecorded' /\ OnlyMainLive'
      BY <2>3 DEF PacketStep
    <3>0. ProposalContext(k, trust, risk, s).role = "subkernel"
      BY DEF ProposalContext
    <3>1. ASSUME NEW c \in Code, ProposalStaged(k, p, c, trust, risk, s)
          PROVE  AuthorRecorded' /\ OnlyMainLive'
      <4>1. /\ \A q \in Patch \ {p} : meta'[q] = meta[q] /\ author'[q] = author[q]
            /\ meta'[p] = ProposalContext(k, trust, risk, s)
        BY <3>1, <2>0 DEF ProposalStaged, Enter
      <4> QED BY <3>0, <3>1, <4>1, <2>a DEF ProposalStaged, AuthorRecorded
    <3>2. ASSUME NEW c \in Code, ProposalRejected(k, p, c, trust, risk, s)
          PROVE  AuthorRecorded' /\ OnlyMainLive'
      <4>1. /\ \A q \in Patch \ {p} : meta'[q] = meta[q]
            /\ meta'[p] = ProposalContext(k, trust, risk, s)
            /\ author' = author /\ liveAuthor' = liveAuthor
        BY <3>2, <2>0 DEF ProposalRejected, ghostVars
      <4> QED BY <3>0, <4>1, <2>a DEF AuthorRecorded
    <3>3. ASSUME NEW n \in RequestSizes, PromotionRequest(k, p, trust, risk, s, n)
          PROVE  AuthorRecorded' /\ OnlyMainLive'
      <4>1. /\ \A q \in Patch : meta'[q].role = meta[q].role
            /\ author' = author /\ liveAuthor' = liveAuthor
        BY <3>3, <2>0 DEF PromotionRequest, Resourced, ghostVars
      <4> QED BY <4>1, <2>a DEF AuthorRecorded
    <3> QED BY <3>1, <3>2, <3>3
  <2>4. CASE UNCHANGED vars
    BY <2>4, <2>a, <2>b DEF vars, ladderVars, ghostVars
  <2> QED BY <2>1, <2>2, <2>3, <2>4 DEF Next
<1>3. Inv => SubkernelCodeNotLive
  BY DEF OnlyMainLive, SubkernelCodeNotLive
<1> QED BY <1>1, <1>2, <1>3, PTL DEF Spec
=============================================================================
