-------------------------- MODULE PromotionLadder --------------------------
(***************************************************************************)
(* Patch governance of the main kernel: staging (mutation/staging.py and   *)
(* kernel/patch_preflight.py), the promotion ladder                        *)
(* (mutation/promotion_ladder.py), quarantine (mutation/quarantine.py) and *)
(* the operations of kernel/kernel.py that drive them: operator commands   *)
(* and packets from child kernels.  The kernel is single-threaded, so each *)
(* command or packet handler is one atomic action.                         *)
(*                                                                         *)
(* A patch is a name.  Its code is an abstract value; what the static      *)
(* analysis, the contract check, compilation and the final exec find out   *)
(* about a piece of code is given by the constant function Info.           *)
(***************************************************************************)
EXTENDS PromotionGate

CONSTANTS
  Patch,         \* patch names
  Code,          \* the pieces of code patches may carry
  NoCode,        \* no code: an absent record, or an attribute not defined
  Baseline,      \* the method the kernel class was defined with
  Target,        \* method names
  Construct,     \* the imports and calls the static analysis can block
  Info,          \* what the checks find in each piece of code
  BaseArity,     \* required parameters of the methods the class defines
  Unified,       \* ALLOWED_TARGETS_UNIFIED
  Extension,     \* EXTENSION_TARGETS
  Contracted,    \* targets with an entry in CONTRACT_REGISTRY
  Protected0,    \* PROTECTED_METHODS as imported
  Blocked0,      \* the blocked imports and calls as imported
  Kernel,        \* child kernels that send packets to main
  RoleOf,        \* their roles
  LocalityOf,    \* the locality of their nodes in the cluster registry
  PacketTrust,   \* trust levels a packet may carry
  PacketRisk,    \* risk classes a packet or proposal may carry
  Standings,     \* the standings a source may have
  FailureCounts, \* how many tests one regression run may fail
  RequestSizes,  \* number of evidence items a promotion request may carry
  EvidenceKeep,  \* entries kept when the evidence log is cut (100)
  EvidenceHigh   \* length beyond which the evidence log is cut (150)

Native == DOMAIN BaseArity     \* the methods the class was defined with

ASSUME CodeAssumption ==
  /\ NoCode \notin Code /\ Baseline \notin Code /\ Baseline # NoCode
  /\ Info \in [Code -> [defines  : Target,
                        arity    : Nat,
                        uses     : SUBSET Construct,
                        conforms : BOOLEAN,
                        compiles : BOOLEAN,
                        loads    : BOOLEAN]]
  /\ \A c \in Code : Info[c].loads => Info[c].compiles

ASSUME TargetAssumption ==
  /\ Native \subseteq Target
  /\ BaseArity \in [Native -> Nat]
  /\ Unified \subseteq Target /\ Extension \subseteq Unified
  /\ Contracted \subseteq Unified
  /\ Protected0 \subseteq Target /\ Blocked0 \subseteq Construct

ASSUME SourceAssumption ==
  /\ RoleOf \in [Kernel -> {"hub", "subkernel"}]
  /\ LocalityOf \in [Kernel -> Localities]
  /\ PacketTrust \subseteq TrustLevel /\ PacketRisk \subseteq RiskClass
  /\ Standings \subseteq Standing
  /\ RequestSizes \subseteq Nat /\ FailureCounts \subseteq Nat

(* The cut never takes the log below what the strictest gate asks for.     *)
ASSUME EvidenceAssumption ==
  /\ EvidenceKeep \in Nat /\ EvidenceHigh \in Nat
  /\ 3 <= EvidenceKeep /\ EvidenceKeep <= EvidenceHigh

VARIABLES
  staged,       \* staged_patches: code and status of each patch
  stage,        \* PromotionLadder.state
  evidence,     \* length of evidence_log
  meta,         \* source_metadata, with the defaults of _source_context
  bound,        \* the function each method name is bound to in the class
  originals,    \* _original_methods
  evolved,      \* _evolved_method_names
  quarantined,  \* patches with an unreleased record in QuarantineManager
  protected,    \* PROTECTED_METHODS
  blocked,      \* the blocked imports and calls
  granted       \* ALLOWED_PATCH_TARGETS and ALLOWED_INJECT_TARGETS

(* History variables, read by the properties only.                         *)
VARIABLES
  passed,       \* stages whose exit gate the staged code of a patch passed
  author,       \* who staged that code: "main" or a child kernel
  vetted,       \* code that was bound having passed every gate
  liveAuthor    \* who staged the code bound to each method

ladderVars == <<staged, stage, evidence, meta>>
classVars  == <<bound, originals, evolved>>
policyVars == <<protected, blocked, granted>>
ghostVars  == <<passed, author, vetted, liveAuthor>>
vars       == <<ladderVars, classVars, quarantined, policyVars, ghostVars>>
-----------------------------------------------------------------------------
(* The stages before a patch is live, in order.                            *)
Pipeline == {"proposed", "static_approved", "sandbox_passed",
             "regression_passed", "shadow_deployed"}
Stage    == Pipeline \cup {"live_promoted", "revertable", "reverted"}
Status   == {"absent", "staged", "applied", "reverted", "quarantined"}

Rank ==
  [s \in Pipeline |-> CASE s = "proposed"          -> 0
                        [] s = "static_approved"   -> 1
                        [] s = "sandbox_passed"    -> 2
                        [] s = "regression_passed" -> 3
                        [] s = "shadow_deployed"   -> 4]

Below == [s \in Pipeline |-> {q \in Pipeline : Rank[q] < Rank[s]}]

TypeOK ==
  /\ staged \in [Patch -> [code : Code \cup {NoCode}, status : Status]]
  /\ stage \in [Patch -> Stage]
  /\ evidence \in [Patch -> 0..EvidenceHigh]
  /\ meta \in [Patch -> Context]
  /\ bound \in [Target -> Code \cup {Baseline, NoCode}]
  /\ originals \in [Target -> Code \cup {Baseline, NoCode}]
  /\ evolved \subseteq Target
  /\ quarantined \subseteq Patch
  /\ protected \subseteq Target /\ blocked \subseteq Construct
  /\ granted \subseteq Target
  /\ passed \in [Patch -> SUBSET Pipeline]
  /\ author \in [Patch -> Kernel \cup {"main"}]
  /\ vetted \subseteq Code
  /\ liveAuthor \in [Target -> Kernel \cup {"main"}]

Init ==
  /\ staged = [p \in Patch |-> [code |-> NoCode, status |-> "absent"]]
  /\ stage = [p \in Patch |-> "proposed"]
  /\ evidence = [p \in Patch |-> 0]
  /\ meta = [p \in Patch |-> DefaultContext]
  /\ bound = [t \in Target |-> IF t \in Native THEN Baseline ELSE NoCode]
  /\ originals = [t \in Target |-> NoCode]
  /\ evolved = {}
  /\ quarantined = {}
  /\ protected = Protected0 /\ blocked = Blocked0 /\ granted = Unified
  /\ passed = [p \in Patch |-> {}]
  /\ author = [p \in Patch |-> "main"]
  /\ vetted = {}
  /\ liveAuthor = [t \in Target |-> "main"]
-----------------------------------------------------------------------------
(* The checks on a piece of code.                                          *)

Defines(c) == Info[c].defines

(* analyze_patch_code: no blocked construct, no protected function name.   *)
Clean(c) == Info[c].uses \cap blocked = {} /\ Defines(c) \notin protected

ArityOf(b, t) == IF b \in Code THEN Info[b].arity ELSE BaseArity[t]

(* Variant: the signature is compared with the method the class was        *)
(* written with, not with what is bound now.                               *)
CompatibleWithBaseline(c) ==
  Defines(c) \in Native => Info[c].arity <= BaseArity[Defines(c)]

(* What is bound now accepts every call the new code accepts.  A name that *)
(* is not bound has no callers to break.                                   *)
Compatible(c) ==
  bound[Defines(c)] # NoCode =>
    Info[c].arity <= ArityOf(bound[Defines(c)], Defines(c))

(* validate_patch_preflight                                                *)
Preflight(c, createNew) ==
  /\ Defines(c) \in Unified \/ createNew
  /\ bound[Defines(c)] = NoCode => createNew /\ Defines(c) \in Extension
  /\ Clean(c) /\ Info[c].conforms /\ Compatible(c)

(* analyze_patch_with_contract, the gate out of "proposed"; a record that  *)
(* quarantine made up for an unknown patch has no code and fails it.       *)
StaticPasses(c) ==
  /\ c \in Code
  /\ Clean(c)
  /\ IF Defines(c) \in Contracted THEN Info[c].conforms
                                  ELSE Defines(c) \in granted

(* _sandbox_run only rejects code that does not compile; empty code does.  *)
SandboxPasses(c) == c \in Code => Info[c].compiles

(* The gate out of each stage when the kernel supplies both runners; the   *)
(* regression suite tolerates one failed test.                             *)
GatePasses(s, c, ctx, n, failures) ==
  \/ s = "proposed"          /\ StaticPasses(c)
  \/ s = "static_approved"   /\ SandboxPasses(c)
  \/ s = "sandbox_passed"    /\ failures <= 1
  \/ s = "regression_passed" /\ ShadowGate(ctx, n)

(* The loop of apply_staged_patch: advance until shadow_deployed or until  *)
(* a gate blocks.  It started at stage "from" and ended at stage "to".     *)
Climbs(from, to, c, ctx, n, failures) ==
  /\ Rank[from] <= Rank[to]
  /\ \A s \in Below[to] \ Below[from] : GatePasses(s, c, ctx, n, failures)
  /\ to # "shadow_deployed" => ~GatePasses(to, c, ctx, n, failures)

(* Variant: code that does not define its target when run is bound.        *)
BindableUnloaded(c) ==
  /\ c \in Code
  /\ Defines(c) \in Unified
  /\ Clean(c) /\ Compatible(c)

(* The checks of apply_live after its policy gate.                         *)
Bindable(c) ==
  /\ c \in Code
  /\ Defines(c) \in Unified
  /\ Clean(c) /\ Info[c].loads /\ Compatible(c)
-----------------------------------------------------------------------------
(* The bookkeeping of the ladder.                                          *)

(* Variants: the log is never cut, or cut from the wrong end.              *)
OneMoreUncut(n) == n + 1
OneMoreHead(n)  == IF n + 1 > EvidenceHigh THEN n + 1 - EvidenceKeep ELSE n + 1

(* record_evidence: one more entry, and cut the log when it is too long.   *)
OneMore(n)   == IF n + 1 > EvidenceHigh THEN EvidenceKeep ELSE n + 1
ThreeMore(n) == OneMore(OneMore(OneMore(n)))

(* assess_request_gate adds all evidence of a request, then cuts the log.  *)
Extend(n, k) == IF k = 0 THEN n
                ELSE IF n + k > EvidenceKeep THEN EvidenceKeep ELSE n + k

(* stage_patch of kernel.py declares internal patches sovereign; it leaves *)
(* the failure weight, maturity and cooldown of the name as they were.     *)
SovereignContext(standing) ==
  [role |-> "main", trust |-> "sovereign", locality |-> "local",
   risk |-> "low", standing |-> standing]

Refreshed(s) ==
  [rate |-> 100, pressure |-> 0, failures |-> s.failures, delta |-> 0,
   maturity |-> s.maturity, cooldown |-> s.cooldown]

(* A staged record replaces whatever had the name, and starts over.        *)
Enter(p, c, who) ==
  /\ staged' = [staged EXCEPT ![p] = [code |-> c, status |-> "staged"]]
  /\ author' = [author EXCEPT ![p] = who]

(* Variant: the function now bound is saved at every override.             *)
BindSavesAlways(p, c, s, who) ==
  LET t == Defines(c) IN
  /\ originals' = [originals EXCEPT ![t] = bound[t]]
  /\ bound' = [bound EXCEPT ![t] = c]
  /\ evolved' = evolved \cup {t}
  /\ stage' = [stage EXCEPT ![p] = "live_promoted"]
  /\ staged' = [staged EXCEPT ![p] = [code |-> c, status |-> "applied"]]
  /\ vetted' = IF s = Pipeline THEN vetted \cup {c} ELSE vetted
  /\ liveAuthor' = [liveAuthor EXCEPT ![t] = who]

(* The tail of apply_live.  s is the set of gates the code has passed.     *)
Bind(p, c, s, who) ==
  LET t == Defines(c) IN
  /\ originals' = IF originals[t] = NoCode
                  THEN [originals EXCEPT ![t] = bound[t]] ELSE originals
  /\ bound' = [bound EXCEPT ![t] = c]
  /\ evolved' = evolved \cup {t}
  /\ stage' = [stage EXCEPT ![p] = "live_promoted"]
  /\ staged' = [staged EXCEPT ![p] = [code |-> c, status |-> "applied"]]
  /\ vetted' = IF s = Pipeline THEN vetted \cup {c} ELSE vetted
  /\ liveAuthor' = [liveAuthor EXCEPT ![t] = who]
-----------------------------------------------------------------------------
(* Operator commands.                                                      *)

(* Variant: a name that is staged again keeps its stage.                   *)
StagePatchKeepsStage(p, c) ==
  /\ Preflight(c, FALSE)
  /\ Enter(p, c, "main")
  /\ passed' = [passed EXCEPT ![p] = {}]
  /\ meta' = [meta EXCEPT ![p] = SovereignContext(Refreshed(@.standing))]
  /\ UNCHANGED <<stage, evidence, classVars, quarantined, policyVars, vetted, liveAuthor>>

(* STAGE_PATCH: preflight, replace the record, back to "proposed".         *)
StagePatch(p, c) ==
  /\ Preflight(c, FALSE)
  /\ Enter(p, c, "main")
  /\ stage' = [stage EXCEPT ![p] = "proposed"]
  /\ passed' = [passed EXCEPT ![p] = {}]
  /\ meta' = [meta EXCEPT ![p] = SovereignContext(Refreshed(@.standing))]
  /\ UNCHANGED <<evidence, classVars, quarantined, policyVars, vetted, liveAuthor>>

(* PROMOTE_LADDER and, for every record with status "staged", AUTO_PROMOTE:*)
(* one call of advance without runners, so the sandbox and the regression  *)
(* stage block.                                                            *)
Advance(p) ==
  /\ staged[p].status # "absent"
  /\ \/ /\ stage[p] = "proposed" /\ StaticPasses(staged[p].code)
        /\ stage' = [stage EXCEPT ![p] = "static_approved"]
        /\ passed' = [passed EXCEPT ![p] = @ \cup {"proposed"}]
     \/ /\ stage[p] = "regression_passed" /\ ShadowGate(meta[p], evidence[p])
        /\ stage' = [stage EXCEPT ![p] = "shadow_deployed"]
        /\ passed' = [passed EXCEPT ![p] = @ \cup {"regression_passed"}]
     \/ /\ stage[p] = "live_promoted"
        /\ stage' = [stage EXCEPT ![p] = "revertable"]
        /\ UNCHANGED passed
  /\ UNCHANGED <<staged, evidence, meta, classVars, quarantined, policyVars,
                 author, vetted, liveAuthor>>

(* APPLY_PATCH: apply_staged_patch climbs as far as the gates let it ...   *)
ApplyBlocked(p, failures) ==
  /\ staged[p].status # "absent"
  /\ stage[p] \in Pipeline
  /\ \E to \in Pipeline :
       /\ Climbs(stage[p], to, staged[p].code, meta[p], evidence[p], failures)
       /\ to = "shadow_deployed" =>
            ~(LiveGate(meta[p], evidence[p]) /\ Bindable(staged[p].code))
       /\ stage' = [stage EXCEPT ![p] = to]
       /\ passed' = [passed EXCEPT ![p] = @ \cup (Below[to] \ Below[stage[p]])]
  /\ UNCHANGED <<staged, evidence, meta, classVars, quarantined, policyVars,
                 author, vetted, liveAuthor>>

(* Variant: apply_live does not look at the stage.                         *)
ApplyLiveAnyStage(p, failures) ==
  LET now == passed[p] \cup {"shadow_deployed"} IN
  /\ staged[p].status # "absent"
  /\ stage[p] \in Pipeline /\ failures \in FailureCounts
  /\ LiveGate(meta[p], evidence[p])
  /\ Bindable(staged[p].code)
  /\ passed' = [passed EXCEPT ![p] = now]
  /\ Bind(p, staged[p].code, now, author[p])
  /\ UNCHANGED <<evidence, meta, quarantined, policyVars, author>>

(* ... and from shadow_deployed apply_live binds the method.               *)
ApplyLive(p, failures) ==
  LET c     == staged[p].code
      climb == Below["shadow_deployed"] \ Below[stage[p]]
      now   == passed[p] \cup climb \cup {"shadow_deployed"}
  IN
  /\ staged[p].status # "absent"
  /\ stage[p] \in Pipeline
  /\ Climbs(stage[p], "shadow_deployed", c, meta[p], evidence[p], failures)
  /\ LiveGate(meta[p], evidence[p])
  /\ Bindable(c)
  /\ passed' = [passed EXCEPT ![p] = now]
  /\ Bind(p, c, now, author[p])
  /\ UNCHANGED <<evidence, meta, quarantined, policyVars, author>>

(* INJECT_METHOD: stage as sovereign main with three pieces of evidence,   *)
(* then apply.  Main's own gates are open; the code checks are not.        *)
InjectBlocked(p, c, createNew, standing, failures) ==
  /\ Preflight(c, createNew)
  /\ Enter(p, c, "main")
  /\ meta' = [meta EXCEPT ![p] = SovereignContext(standing)]
  /\ evidence' = [evidence EXCEPT ![p] = ThreeMore(@)]
  /\ \E to \in Pipeline :
       /\ Climbs("proposed", to, c, SovereignContext(standing),
                 ThreeMore(evidence[p]), failures)
       /\ to = "shadow_deployed" =>
            ~(LiveGate(SovereignContext(standing), ThreeMore(evidence[p])) /\ Bindable(c))
       /\ stage' = [stage EXCEPT ![p] = to]
       /\ passed' = [passed EXCEPT ![p] = Below[to]]
  /\ UNCHANGED <<classVars, quarantined, policyVars, vetted, liveAuthor>>

InjectLive(p, c, createNew, standing, failures) ==
  /\ Preflight(c, createNew)
  /\ Climbs("proposed", "shadow_deployed", c, SovereignContext(standing),
            ThreeMore(evidence[p]), failures)
  /\ LiveGate(SovereignContext(standing), ThreeMore(evidence[p]))
  /\ Bindable(c)
  /\ meta' = [meta EXCEPT ![p] = SovereignContext(standing)]
  /\ evidence' = [evidence EXCEPT ![p] = ThreeMore(@)]
  /\ passed' = [passed EXCEPT ![p] = Pipeline]
  /\ author' = [author EXCEPT ![p] = "main"]
  /\ Bind(p, c, Pipeline, "main")
  /\ UNCHANGED <<quarantined, policyVars>>

(* Variants: the name stays on the list of patched methods; only one       *)
(* record is closed; the stages are left as they are.                      *)
RevertPatchKeepsName(t) ==
  /\ originals[t] # NoCode
  /\ bound' = [bound EXCEPT ![t] = originals[t]]
  /\ liveAuthor' = [liveAuthor EXCEPT ![t] = "main"]
  /\ UNCHANGED <<originals, evolved, ladderVars, quarantined, policyVars,
                 passed, author, vetted>>

RevertPatchOneRecord(t) ==
  /\ originals[t] # NoCode
  /\ bound' = [bound EXCEPT ![t] = originals[t]]
  /\ evolved' = evolved \ {t}
  /\ \E p \in Patch :
       /\ staged[p].status = "applied" /\ Defines(staged[p].code) = t
       /\ staged' = [staged EXCEPT ![p].status = "reverted"]
       /\ stage' = [stage EXCEPT ![p] = "reverted"]
  /\ liveAuthor' = [liveAuthor EXCEPT ![t] = "main"]
  /\ UNCHANGED <<originals, evidence, meta, quarantined, policyVars,
                 passed, author, vetted>>

RevertPatchKeepsStages(t) ==
  /\ originals[t] # NoCode
  /\ bound' = [bound EXCEPT ![t] = originals[t]]
  /\ evolved' = evolved \ {t}
  /\ staged' = [p \in Patch |->
                  IF staged[p].status = "applied" /\ Defines(staged[p].code) = t
                  THEN [staged[p] EXCEPT !.status = "reverted"] ELSE staged[p]]
  /\ liveAuthor' = [liveAuthor EXCEPT ![t] = "main"]
  /\ UNCHANGED <<originals, stage, evidence, meta, quarantined, policyVars,
                 passed, author, vetted>>

(* REVERT_PATCH: restore the saved function and close every applied patch  *)
(* of the target.  The saved function stays saved.  (Only main creates     *)
(* methods, so what is restored was not staged by a child kernel.)         *)
RevertPatch(t) ==
  /\ originals[t] # NoCode
  /\ bound' = [bound EXCEPT ![t] = originals[t]]
  /\ evolved' = evolved \ {t}
  /\ LET closed == {p \in Patch : /\ staged[p].status = "applied"
                                  /\ Defines(staged[p].code) = t}
     IN  /\ staged' = [p \in Patch |->
                         IF p \in closed THEN [staged[p] EXCEPT !.status = "reverted"]
                                         ELSE staged[p]]
         /\ stage' = [p \in Patch |-> IF p \in closed THEN "reverted" ELSE stage[p]]
  /\ liveAuthor' = [liveAuthor EXCEPT ![t] = "main"]
  /\ UNCHANGED <<originals, evidence, meta, quarantined, policyVars,
                 passed, author, vetted>>

(* UNPROTECT, REMOVE_BLOCK, ADD_PATCH_TARGET and ADD_INJECT_TARGET.        *)
Unprotect(t) ==
  /\ t \in protected
  /\ protected' = protected \ {t}
  /\ UNCHANGED <<ladderVars, classVars, quarantined, blocked, granted, ghostVars>>

RemoveBlock(x) ==
  /\ x \in blocked
  /\ blocked' = blocked \ {x}
  /\ UNCHANGED <<ladderVars, classVars, quarantined, protected, granted, ghostVars>>

AddTarget(t) ==
  /\ t \notin granted
  /\ granted' = granted \cup {t}
  /\ UNCHANGED <<ladderVars, classVars, quarantined, protected, blocked, ghostVars>>
-----------------------------------------------------------------------------
(* Packets of child kernels.                                               *)

(* Variant: a source nobody attested counts as main, as before v14.2.7.    *)
ProposalContextUnattested(k, trust, risk, standing) == SovereignContext(standing)

(* PATCH_PROPOSAL, _stage_patch_proposal: the metadata of the name and one *)
(* piece of evidence are recorded before the patch is staged ...           *)
ProposalContext(k, trust, risk, standing) ==
  [role |-> RoleOf[k], trust |-> trust, locality |-> LocalityOf[k],
   risk |-> risk, standing |-> standing]

ProposalStaged(k, p, c, trust, risk, standing) ==
  /\ Preflight(c, FALSE)
  /\ Enter(p, c, k)
  /\ stage' = [stage EXCEPT ![p] = "proposed"]
  /\ passed' = [passed EXCEPT ![p] = {}]
  /\ meta' = [meta EXCEPT ![p] = ProposalContext(k, trust, risk, standing)]
  /\ evidence' = [evidence EXCEPT ![p] = OneMore(OneMore(@))]
  /\ UNCHANGED <<classVars, quarantined, policyVars, vetted, liveAuthor>>

(* ... and stay when the preflight then rejects the code.                  *)
ProposalRejected(k, p, c, trust, risk, standing) ==
  /\ ~Preflight(c, FALSE)
  /\ meta' = [meta EXCEPT ![p] = ProposalContext(k, trust, risk, standing)]
  /\ evidence' = [evidence EXCEPT ![p] = OneMore(@)]
  /\ UNCHANGED <<staged, stage, classVars, quarantined, policyVars, ghostVars>>

(* PROMOTION_REQUEST, _record_promotion_request: the requester's trust,    *)
(* risk and standing replace those of the source; its role is not set.     *)
Resourced(ctx, trust, risk, standing) ==
  [role |-> ctx.role, trust |-> trust, locality |-> ctx.locality,
   risk |-> risk, standing |-> standing]

PromotionRequest(k, p, trust, risk, standing, items) ==
  /\ meta' = [meta EXCEPT ![p] = Resourced(@, trust, risk, standing)]
  /\ evidence' = [evidence EXCEPT ![p] = OneMore(Extend(@, items))]
  /\ UNCHANGED <<staged, stage, classVars, quarantined, policyVars, ghostVars>>
-----------------------------------------------------------------------------
(* The standing recorded for a patch also moves without a packet: a review *)
(* wave completes, or a cooldown runs out.                                 *)
StandingMoves(p, standing) ==
  /\ standing # meta[p].standing
  /\ meta' = [meta EXCEPT ![p].standing = standing]
  /\ UNCHANGED <<staged, stage, evidence, classVars, quarantined, policyVars, ghostVars>>

(* complete_hub_evidence_task: the hub gathered the evidence it owed a     *)
(* patch.  Such a task is only queued for a kernel's promotion request.    *)
EvidenceGathered(p) ==
  /\ \E k \in Kernel : RoleOf[k] = "hub"
  /\ evidence' = [evidence EXCEPT ![p] = OneMore(@)]
  /\ UNCHANGED <<staged, stage, meta, classVars, quarantined, policyVars, ghostVars>>

(* quarantine_patch marks the record, as process_wave_escalations calls it *)
(* (which first makes up a record for an unknown patch).                   *)
Quarantine(p) ==
  /\ staged' = [staged EXCEPT ![p].status = "quarantined"]
  /\ quarantined' = quarantined \cup {p}
  /\ UNCHANGED <<stage, evidence, meta, classVars, policyVars, ghostVars>>

(* QuarantineManager.release                                               *)
Release(p) ==
  /\ p \in quarantined
  /\ quarantined' = quarantined \ {p}
  /\ UNCHANGED <<ladderVars, classVars, policyVars, ghostVars>>
-----------------------------------------------------------------------------
PatchStep(p) ==
  \/ \E c \in Code : StagePatch(p, c)
  \/ Advance(p)
  \/ \E f \in FailureCounts : ApplyBlocked(p, f)
  \/ \E f \in FailureCounts : ApplyLive(p, f)
  \/ \E c \in Code, new \in BOOLEAN, s \in Standings, f \in FailureCounts :
       InjectBlocked(p, c, new, s, f)
  \/ \E c \in Code, new \in BOOLEAN, s \in Standings, f \in FailureCounts :
       InjectLive(p, c, new, s, f)
  \/ \E s \in Standings : StandingMoves(p, s)
  \/ EvidenceGathered(p)
  \/ Quarantine(p)
  \/ Release(p)

OperatorStep ==
  \/ \E t \in Target : RevertPatch(t) \/ Unprotect(t) \/ AddTarget(t)
  \/ \E x \in Construct : RemoveBlock(x)

PacketStep ==
  \E k \in Kernel, p \in Patch, trust \in PacketTrust, risk \in PacketRisk,
     s \in Standings :
    \/ \E c \in Code : ProposalStaged(k, p, c, trust, risk, s)
    \/ \E c \in Code : ProposalRejected(k, p, c, trust, risk, s)
    \/ \E n \in RequestSizes : PromotionRequest(k, p, trust, risk, s, n)

Next == (\E p \in Patch : PatchStep(p)) \/ OperatorStep \/ PacketStep

Spec == Init /\ [][Next]_vars
-----------------------------------------------------------------------------
(* Properties.                                                             *)

(* No stage is skipped: whatever stage a patch stands at, the code staged  *)
(* under its name now - not code staged earlier under the same name, and   *)
(* whatever its record was replaced by - passed the gate out of every      *)
(* earlier stage.                                                          *)
StageBacked ==
  \A p \in Patch :
    /\ stage[p] \in Pipeline => Below[stage[p]] \subseteq passed[p]
    /\ stage[p] \in {"live_promoted", "revertable"} => passed[p] = Pipeline

(* What runs was vetted: a method the kernel class is bound to by a patch  *)
(* got there through every gate of the ladder.                             *)
LiveVetted == \A t \in Target : bound[t] \in Code => bound[t] \in vetted

(* A patched method can always be put back: as long as a method the class  *)
(* was defined with is overridden, however many patches were stacked on    *)
(* it, the saved original is the function the class was defined with.      *)
BaselineKept ==
  \A t \in Native : bound[t] # Baseline => originals[t] = Baseline

(* The list of patched methods the kernel reports is exact for the methods *)
(* the class was defined with.                                             *)
EvolvedExact == \A t \in Native : t \in evolved <=> bound[t] # Baseline

(* No phantom patch: a record that says "applied" belongs to a method that *)
(* is overridden - reverting a method closes every patch stacked on it.    *)
NoPhantomApplied ==
  \A p \in Patch :
    staged[p].status = "applied" /\ Defines(staged[p].code) \in Native =>
      bound[Defines(staged[p].code)] # Baseline

(* The record and the ladder agree on which patches are live, but for      *)
(* patches put in quarantine while live.                                   *)
StageMatchesStatus ==
  \A p \in Patch :
    /\ staged[p].status = "applied" => stage[p] \in {"live_promoted", "revertable"}
    /\ stage[p] \in {"live_promoted", "revertable"} =>
         staged[p].status \in {"applied", "quarantined"}

(* Callers never break: whatever was staged before or after what, replacing*)
(* one function by another patch never asks for more required arguments    *)
(* than the function it replaces.                                          *)
ArityNeverGrows ==
  [][\A t \in Native : bound'[t] \in Code /\ bound'[t] # bound[t] =>
       Info[bound'[t]].arity <= ArityOf(bound[t], t)]_vars

(* What runs fits: only methods of the unified set are ever overridden,    *)
(* with code that defines them and loads, and whoever calls a method as    *)
(* the class was written is served - whatever was bound, saved and put     *)
(* back before, and whatever the operator unprotected or granted.          *)
ClassSound ==
  \A t \in Target :
    /\ bound[t] \in Code => t \in Unified /\ Defines(bound[t]) = t /\ Info[bound[t]].loads
    /\ t \in Native => bound[t] # NoCode /\ ArityOf(bound[t], t) <= BaseArity[t]

(* Cutting the evidence log never takes back a gate: once a patch has as   *)
(* much evidence as the strictest gate needs, it keeps it.                 *)
EvidenceKept == [][\A p \in Patch : evidence[p] >= 3 => evidence'[p] >= 3]_vars

(* A patch in quarantine cannot be promoted until it is released: APPLY_   *)
(* PATCH of a quarantined record does not bind it.                         *)
QuarantineHolds ==
  [][\A p \in Patch : p \in quarantined /\ staged[p].status = "quarantined" =>
       ~\E f \in FailureCounts : ApplyLive(p, f)]_vars

(* Code a subkernel staged only reaches the hub, never the live class:     *)
(* whatever trust its packets claim, whatever it requests, and whoever     *)
(* stages what under the same name.                                        *)
SubkernelCodeNotLive ==
  \A t \in Target : bound[t] \in Code /\ liveAuthor[t] # "main" =>
    RoleOf[liveAuthor[t]] # "subkernel"

(* The kernel class as MethodTable describes it: every step of the ladder  *)
(* leaves the class alone, overrides one method soundly or restores one.   *)
Table == INSTANCE MethodTable WITH live <- bound, saved <- originals
TableSpec == Table!MSpec
=============================================================================
