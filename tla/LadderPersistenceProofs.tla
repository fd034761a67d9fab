---------------------- MODULE LadderPersistenceProofs ----------------------
(***************************************************************************)
(* Theorems about the ladder and its two files, across any number of       *)
(* restarts.  What the steps of one life keep is proved in                 *)
(* PromotionLadderProofs; here the files and the restart are added.        *)
(***************************************************************************)
EXTENDS LadderPersistence, PromotionLadderProofs

(* What a handler does to the memory of the process is a step of the       *)
(* ladder, whichever file it writes.                                       *)
LEMMA HandlersAreSteps ==
  /\ VolatileStep => Next /\ UNCHANGED diskVars
  /\ EcologyStep => Next /\ UNCHANGED <<stateFile, flushing>>
  /\ SavingStep => Next /\ WriteStateFile(staged')
<1>1. VolatileStep => Next /\ UNCHANGED diskVars
  BY DEF VolatileStep, Next, PatchStep
<1>2. EcologyStep => Next /\ UNCHANGED <<stateFile, flushing>>
  BY DEF EcologyStep, Next, PatchStep
<1>3. SavingStep => Next /\ WriteStateFile(staged')
  BY DEF SavingStep, Next, PatchStep
<1> QED BY <1>1, <1>2, <1>3

(* The two files hold what the memory may hold.                            *)
FilesTyped ==
  /\ stateFile \in [Patch -> [code : Code \cup {NoCode}, status : Status]]
  /\ ecology \in [stage : [Patch -> Stage], evidence : [Patch -> 0..EvidenceHigh],
                  meta : [Patch -> Context]]
  /\ flushing \in BOOLEAN

(* What is written comes from memory of the right type.                    *)
LEMMA EcologyOfType ==
  ASSUME TypeOK
  PROVE  EcologyOf(stage, evidence, meta) \in
           [stage : [Patch -> Stage], evidence : [Patch -> 0..EvidenceHigh],
            meta : [Patch -> Context]]
BY DEF EcologyOf, TypeOK

(* A restart reads typed files into a fresh process.                       *)
LEMMA RestartType == TypeOK /\ FilesTyped /\ Restart => TypeOK' /\ FilesTyped'
<1> SUFFICES ASSUME TypeOK, FilesTyped, Restart PROVE TypeOK' /\ FilesTyped'
  OBVIOUS
<1> USE DEF Restart
<1>1. staged' \in [Patch -> [code : Code \cup {NoCode}, status : Status]]
  BY DEF StateLoaded, FilesTyped
<1>2. /\ stage' \in [Patch -> Stage] /\ evidence' \in [Patch -> 0..EvidenceHigh]
      /\ meta' \in [Patch -> Context]
  BY DEF EcologyLoaded, FilesTyped
<1>3. /\ bound' \in [Target -> Code \cup {Baseline, NoCode}]
      /\ originals' \in [Target -> Code \cup {Baseline, NoCode}]
      /\ evolved' \subseteq Target /\ quarantined' \subseteq Patch
      /\ protected' \subseteq Target /\ blocked' \subseteq Construct
      /\ granted' \subseteq Target
  BY TargetAssumption DEF ProcessStarts, NoneSaved
<1>4. /\ passed' \in [Patch -> SUBSET Pipeline]
      /\ author' \in [Patch -> Kernel \cup {"main"}]
      /\ vetted' \subseteq Code /\ liveAuthor' \in [Target -> Kernel \cup {"main"}]
  BY DEF HistoryAnew
<1>5. FilesTyped'
  BY DEF ProcessStarts, FilesTyped
<1> QED BY <1>1, <1>2, <1>3, <1>4, <1>5 DEF TypeOK

(* Every step keeps memory and files in their types, those included that   *)
(* write one file and not, or not yet, the other.                          *)
LEMMA PersistStepType == PTypeOK /\ [PNext]_pvars => PTypeOK'
<1> SUFFICES ASSUME PTypeOK, [PNext]_pvars PROVE PTypeOK'
  OBVIOUS
<1>0. TypeOK /\ FilesTyped
  BY DEF PTypeOK, FilesTyped
<1> SUFFICES TypeOK' /\ FilesTyped'
  BY DEF PTypeOK, FilesTyped
<1>1. CASE VolatileStep
  BY <1>0, <1>1, HandlersAreSteps, StepType DEF diskVars, FilesTyped
<1>2. CASE EcologyStep
  <2>1. TypeOK'
    BY <1>0, <1>2, HandlersAreSteps, StepType
  <2>2. ecology' = EcologyOf(stage', evidence', meta')
    BY <1>2 DEF EcologyStep
  <2>3. ecology' \in [stage : [Patch -> Stage], evidence : [Patch -> 0..EvidenceHigh],
                      meta : [Patch -> Context]]
    BY <2>1, <2>2 DEF EcologyOf, TypeOK
  <2> QED BY <1>0, <1>2, <2>1, <2>3, HandlersAreSteps DEF FilesTyped
<1>3. CASE SavingStep
  <2>1. TypeOK'
    BY <1>0, <1>3, HandlersAreSteps, StepType
  <2>2. WriteStateFile(staged')
    BY <1>3, HandlersAreSteps
  <2> QED BY <1>0, <2>1, <2>2 DEF WriteStateFile, FilesTyped, TypeOK
<1>4. CASE EcologySave \/ PeriodicSave \/ FlushEcology
  <2>1. TypeOK'
    BY <1>0, <1>4, StepType DEF EcologySave, PeriodicSave, FlushEcology
  <2> QED BY <1>0, <1>4, <2>1, EcologyOfType
          DEF EcologySave, PeriodicSave, FlushEcology, WriteStateFile, FilesTyped, TypeOK
<1>5. CASE Restart
  BY <1>0, <1>5, RestartType
<1>6. CASE UNCHANGED pvars
  BY <1>0, <1>6, StepType DEF pvars, diskVars, FilesTyped
<1> QED BY <1>1, <1>2, <1>3, <1>4, <1>5, <1>6 DEF PNext, KernelStep

(* Whatever was written when the process ended - one file new and one old, *)
(* or neither - what a restart reads are records, stages, evidence and     *)
(* metadata the ladder can go on from.                                     *)
THEOREM FilesAlwaysReadable == PSpec => []PTypeOK
<1>1. PInit => PTypeOK
  BY InitType, EcologyOfType DEF PInit, PTypeOK, TypeOK
<1> QED BY <1>1, PersistStepType, PTL DEF PSpec
-----------------------------------------------------------------------------
(* How the class moves in one life: code of the right arity is bound and   *)
(* what it replaces saved once, a saved function is restored, or nothing   *)
(* happens.  Nothing is assumed of the gates, whose history a restart      *)
(* forgets.                                                                *)
Binds(c) ==
  /\ Bindable(c)
  /\ bound' = [bound EXCEPT ![Defines(c)] = c]
  /\ originals' = IF originals[Defines(c)] = NoCode
                  THEN [originals EXCEPT ![Defines(c)] = bound[Defines(c)]]
                  ELSE originals
  /\ evolved' = evolved \cup {Defines(c)}
TableUnchanged == UNCHANGED <<bound, originals, evolved>>

LEMMA TableMoves ==
  ASSUME [Next]_vars
  PROVE  (\E c \in Code : Binds(c)) \/ (\E t \in Target : RevertPatch(t)) \/ TableUnchanged
<1> DEFINE Goal ==
      (\E c \in Code : Binds(c)) \/ (\E t \in Target : RevertPatch(t)) \/ TableUnchanged
<1>1. ASSUME NEW p \in Patch, PatchStep(p) PROVE Goal
  <2>1. ASSUME NEW f \in FailureCounts, ApplyLive(p, f) PROVE Goal
    <3>1. Bindable(staged[p].code) /\ staged[p].code \in Code
      BY <2>1 DEF ApplyLive, Bindable
    <3>2. Binds(staged[p].code)
      BY <2>1, <3>1 DEF ApplyLive, Bind, Binds
    <3> QED BY <3>1, <3>2
  <2>2. ASSUME NEW c \in Code, NEW new \in BOOLEAN, NEW s \in Standings,
               NEW f \in FailureCounts, InjectLive(p, c, new, s, f)
        PROVE  Goal
    <3>1. Binds(c)
      BY <2>2 DEF InjectLive, Bind, Binds
    <3> QED BY <3>1
  <2>3. ASSUME \/ \E c \in Code : StagePatch(p, c)
               \/ Advance(p)
               \/ \E f \in FailureCounts : ApplyBlocked(p, f)
               \/ \E c \in Code, new \in BOOLEAN, s \in Standings, f \in FailureCounts :
                    InjectBlocked(p, c, new, s, f)
        PROVE  TableUnchanged
    BY <2>3 DEF StagePatch, Advance, ApplyBlocked, InjectBlocked, classVars, TableUnchanged
  <2>4. ASSUME \/ \E s \in Standings : StandingMoves(p, s)
               \/ EvidenceGathered(p) \/ Quarantine(p) \/ Release(p)
        PROVE  TableUnchanged
    BY <2>4 DEF StandingMoves, EvidenceGathered, Quarantine, Release, classVars,
                TableUnchanged
  <2> QED BY <1>1, <2>1, <2>2, <2>3, <2>4 DEF PatchStep
<1>2. ASSUME OperatorStep PROVE Goal
  <2>1. ASSUME \/ \E t \in Target : Unprotect(t) \/ AddTarget(t)
               \/ \E x \in Construct : RemoveBlock(x)
        PROVE  TableUnchanged
    BY <2>1 DEF Unprotect, AddTarget, RemoveBlock, classVars, TableUnchanged
  <2> QED BY <1>2, <2>1 DEF OperatorStep
<1>3. ASSUME PacketStep PROVE TableUnchanged
  <2> SUFFICES ASSUME NEW k \in Kernel, NEW p \in Patch, NEW trust \in PacketTrust,
                      NEW risk \in PacketRisk, NEW s \in Standings,
                      \/ \E c \in Code : ProposalStaged(k, p, c, trust, risk, s)
                      \/ \E c \in Code : ProposalRejected(k, p, c, trust, risk, s)
                      \/ \E n \in RequestSizes : PromotionRequest(k, p, trust, risk, s, n)
               PROVE  TableUnchanged
    BY <1>3 DEF PacketStep
  <2>1. ASSUME NEW c \in Code, ProposalStaged(k, p, c, trust, risk, s)
        PROVE  TableUnchanged
    BY <2>1 DEF ProposalStaged, classVars, TableUnchanged
  <2>2. ASSUME NEW c \in Code, ProposalRejected(k, p, c, trust, risk, s)
        PROVE  TableUnchanged
    BY <2>2 DEF ProposalRejected, classVars, TableUnchanged
  <2>3. ASSUME NEW n \in RequestSizes, PromotionRequest(k, p, trust, risk, s, n)
        PROVE  TableUnchanged
    BY <2>3 DEF PromotionRequest, classVars, TableUnchanged
  <2> QED BY <2>1, <2>2, <2>3
<1>4. CASE UNCHANGED vars
  BY <1>4 DEF vars, classVars, TableUnchanged
<1> QED BY <1>1, <1>2, <1>3, <1>4 DEF Next

(* A step of one life is a step of the method table.                       *)
LEMMA LifeStep == [Next]_vars => [Table!MNext]_<<bound, originals>>
<1> SUFFICES ASSUME [Next]_vars PROVE [Table!MNext]_<<bound, originals>>
  OBVIOUS
<1>1. ASSUME NEW c \in Code, Binds(c) PROVE Table!MNext
  <2>1. Table!Replaces(c, bound[Defines(c)])
    BY <1>1 DEF Binds, Table!Replaces, Table!Arity, Bindable, Compatible, ArityOf, Defines
  <2>2. Table!Override(c)
    BY <1>1, <2>1 DEF Binds, Table!Override, Defines
  <2> QED BY <2>2 DEF Table!MNext
<1>2. ASSUME NEW t \in Target, RevertPatch(t) PROVE Table!MNext
  <2>1. Table!Restore(t)
    BY <1>2 DEF RevertPatch, Table!Restore
  <2> QED BY <2>1 DEF Table!MNext
<1> QED BY <1>1, <1>2, TableMoves DEF TableUnchanged

(* A restart is the reboot of the method table.                            *)
LEMMA RestartReboots == Restart => Table!Reboot
BY DEF Restart, ProcessStarts, NoneSaved, Table!Reboot, Table!Written, Table!NotSaved, Native

(* A step of the ladder, of its files or of a restart is a step of the     *)
(* method table or leaves it alone.                                        *)
LEMMA PersistTableStep == [PNext]_pvars => [Table!MNext]_<<bound, originals>>
<1> SUFFICES ASSUME [PNext]_pvars PROVE [Table!MNext]_<<bound, originals>>
  OBVIOUS
<1>1. CASE [Next]_vars
  BY <1>1, LifeStep
<1>2. CASE Restart
  BY <1>2, RestartReboots DEF Table!MNext
<1>3. [Next]_vars \/ Restart
  BY HandlersAreSteps
     DEF PNext, KernelStep, EcologySave, PeriodicSave, FlushEcology, pvars
<1> QED BY <1>1, <1>2, <1>3

(* Whatever the two files hold and however often the process restarts, the *)
(* kernel class only makes sound overrides, restores and reboots: code     *)
(* bound in an earlier life, gates whose history is forgotten and records  *)
(* read from a stale file never bring it into any other state.             *)
THEOREM PersistenceImplementsTable == PSpec => TableSpec
<1>1. PInit => Table!MInit
  BY TableInit DEF PInit
<1> QED BY <1>1, PersistTableStep, PTL DEF PSpec, TableSpec, Table!MSpec, Table!mvars
-----------------------------------------------------------------------------
(* What holds of the class in every life, without the history of the gates.*)

Fits(b, t) == t \in Unified /\ Defines(b) = t /\ Info[b].loads

(* Whatever is bound or saved fits its method, and a method the class was  *)
(* written with is bound to it or has it saved.                            *)
Kept(t, b, o) ==
  /\ b \in Code => Fits(b, t)
  /\ o \in Code => Fits(o, t)
  /\ t \in Native => /\ b # NoCode /\ ArityOf(b, t) <= BaseArity[t]
                     /\ o \in {NoCode, Baseline} /\ (b # Baseline => o = Baseline)
MethodInv(t) ==
  /\ Kept(t, bound[t], originals[t])
  /\ t \in Native => (t \in evolved <=> bound[t] # Baseline)

TableInv == PTypeOK /\ \A t \in Target : MethodInv(t)

(* The arities that are compared are numbers.                              *)
LEMMA AritiesCompare ==
  ASSUME NEW t \in Native
  PROVE  /\ BaseArity[t] \in Nat /\ t \in Target
         /\ \A b : ArityOf(b, t) \in Nat
         /\ ArityOf(Baseline, t) = BaseArity[t]
<1>1. BaseArity[t] \in Nat /\ t \in Target
  BY TargetAssumption DEF Native
<1>2. \A c \in Code : Info[c].arity \in Nat
  BY CodeAssumption
<1>3. Baseline \notin Code
  BY CodeAssumption
<1> QED BY <1>1, <1>2, <1>3 DEF ArityOf

(* A class as it was written satisfies it.                                 *)
LEMMA WrittenFits ==
  ASSUME NEW t \in Target
  PROVE  /\ t \in Native => Kept(t, Baseline, NoCode)
         /\ t \notin Native => Kept(t, NoCode, NoCode)
<1>1. Baseline \notin Code /\ NoCode \notin Code /\ Baseline # NoCode
  BY CodeAssumption
<1>2. t \in Native => ArityOf(Baseline, t) <= BaseArity[t]
  BY AritiesCompare
<1> QED BY <1>1, <1>2 DEF Kept

LEMMA BindsFits ==
  ASSUME PTypeOK, \A t \in Target : MethodInv(t), NEW c \in Code, Binds(c)
  PROVE  \A t \in Target : MethodInv(t)'
<1> DEFINE t0 == Defines(c)
<1>1. /\ t0 \in Target /\ t0 \in Unified /\ Info[c].loads
      /\ c # Baseline /\ c # NoCode /\ Baseline # NoCode
  BY CodeAssumption DEF Defines, Binds, Bindable
<1>2. /\ \A t \in Target : bound'[t] = IF t = t0 THEN c ELSE bound[t]
      /\ \A t \in Target : originals'[t] = IF t = t0 /\ originals[t] = NoCode
                                           THEN bound[t] ELSE originals[t]
      /\ evolved' = evolved \cup {t0}
  BY <1>1 DEF Binds, PTypeOK, TypeOK
<1>3. bound[t0] # NoCode => Info[c].arity <= ArityOf(bound[t0], t0)
  BY DEF Binds, Bindable, Compatible
<1>4. ArityOf(c, t0) = Info[c].arity /\ Info[c].arity \in Nat /\ Defines(c) = t0
  BY CodeAssumption DEF ArityOf
<1> HIDE DEF t0
<1> TAKE t \in Target
<1>5. CASE t # t0
  BY <1>2, <1>5 DEF MethodInv, Kept, Fits, ArityOf
<1>6. CASE t = t0
  <2>1. bound'[t] = c /\ Fits(c, t)
    BY <1>1, <1>2, <1>4, <1>6 DEF Fits
  <2>2. originals'[t] \in Code => Fits(originals'[t], t)
    BY <1>2, <1>6 DEF MethodInv, Kept
  <2>3. ASSUME t \in Native
        PROVE  /\ originals'[t] = Baseline /\ t \in evolved'
               /\ ArityOf(c, t) <= BaseArity[t]
    <3>1. bound[t] # NoCode /\ ArityOf(bound[t], t) <= BaseArity[t]
      BY <2>3 DEF MethodInv, Kept
    <3>2. originals[t] \in {NoCode, Baseline} /\ (bound[t] # Baseline => originals[t] = Baseline)
      BY <2>3 DEF MethodInv, Kept
    <3>3. ArityOf(c, t) <= ArityOf(bound[t], t)
      BY <1>3, <1>4, <1>6, <3>1
    <3>4. ArityOf(c, t) <= BaseArity[t]
      BY <2>3, <3>1, <3>3, AritiesCompare
    <3>5. originals'[t] = Baseline /\ t \in evolved'
      BY <1>1, <1>2, <1>6, <3>2
    <3> QED BY <3>4, <3>5
  <2> QED BY <1>1, <2>1, <2>2, <2>3 DEF MethodInv, Kept, Fits, ArityOf
<1> QED BY <1>5, <1>6

LEMMA RevertFits ==
  ASSUME PTypeOK, \A t \in Target : MethodInv(t), NEW t0 \in Target, RevertPatch(t0)
  PROVE  \A t \in Target : MethodInv(t)'
<1>1. /\ \A t \in Target : bound'[t] = IF t = t0 THEN originals[t] ELSE bound[t]
      /\ originals' = originals /\ originals[t0] # NoCode
      /\ evolved' = evolved \ {t0}
  BY DEF RevertPatch, PTypeOK, TypeOK
<1> TAKE t \in Target
<1>2. CASE t # t0
  BY <1>1, <1>2 DEF MethodInv, Kept, Fits, ArityOf
<1>3. CASE t = t0
  <2>1. bound'[t] = originals[t] /\ originals'[t] = originals[t] /\ t \notin evolved'
    BY <1>1, <1>3
  <2>2. originals[t] \in Code => Fits(originals[t], t)
    BY DEF MethodInv, Kept
  <2>3. ASSUME t \in Native
        PROVE  originals[t] = Baseline /\ ArityOf(Baseline, t) <= BaseArity[t]
    BY <1>1, <1>3, <2>3, AritiesCompare DEF MethodInv, Kept
  <2>4. Baseline # NoCode
    BY CodeAssumption
  <2> QED BY <2>1, <2>2, <2>3, <2>4 DEF MethodInv, Kept, Fits, ArityOf
<1> QED BY <1>2, <1>3

LEMMA TableInvStep == TableInv /\ [PNext]_pvars => TableInv'
<1> SUFFICES ASSUME TableInv, [PNext]_pvars PROVE TableInv'
  OBVIOUS
<1>1. PTypeOK'
  BY PersistStepType DEF TableInv
<1>2. CASE [Next]_vars
  <2>1. ASSUME NEW c \in Code, Binds(c) PROVE \A t \in Target : MethodInv(t)'
    BY <2>1, BindsFits DEF TableInv
  <2>2. ASSUME NEW t0 \in Target, RevertPatch(t0) PROVE \A t \in Target : MethodInv(t)'
    BY <2>2, RevertFits DEF TableInv
  <2>3. ASSUME TableUnchanged PROVE \A t \in Target : MethodInv(t)'
    BY <2>3 DEF TableUnchanged, TableInv, MethodInv, Kept, Fits, ArityOf
  <2> QED BY <1>1, <1>2, <2>1, <2>2, <2>3, TableMoves DEF TableInv
<1>3. CASE Restart
  <2>1. /\ bound' = [t \in Target |-> IF t \in Native THEN Baseline ELSE NoCode]
        /\ originals' = [t \in Target |-> NoCode] /\ evolved' = {}
    BY <1>3 DEF Restart, ProcessStarts, NoneSaved
  <2>2. \A t \in Target : MethodInv(t)'
    BY <2>1, WrittenFits DEF MethodInv
  <2> QED BY <1>1, <2>2 DEF TableInv
<1>4. [Next]_vars \/ Restart
  BY HandlersAreSteps
     DEF PNext, KernelStep, EcologySave, PeriodicSave, FlushEcology, pvars
<1> QED BY <1>2, <1>3, <1>4

LEMMA TableInvariant == PSpec => []TableInv
<1>1. PInit => TableInv
  <2> SUFFICES ASSUME PInit PROVE TableInv
    OBVIOUS
  <2>1. PTypeOK
    BY InitType, EcologyOfType DEF PInit, PTypeOK, TypeOK
  <2>2. \A t \in Target : MethodInv(t)
    BY WrittenFits DEF PInit, Init, MethodInv
  <2> QED BY <2>1, <2>2 DEF TableInv
<1> QED BY <1>1, TableInvStep, PTL DEF PSpec

(* However often the process ends and starts again, only methods of the    *)
(* unified set are overridden, with code that defines them and loads, and  *)
(* the callers of the class as it was written are served (apply_live, the  *)
(* signature check, revert_method and what a new process begins with).     *)
THEOREM ClassAlwaysSound == PSpec => []ClassSound
<1>1. TableInv => ClassSound
  BY DEF TableInv, MethodInv, Kept, Fits, ClassSound
<1> QED BY <1>1, TableInvariant, PTL

(* What a restart forgets of the ladder takes nothing from the operator:   *)
(* the original of every overridden method is at hand and the report of    *)
(* patched methods is exact in every life.                                 *)
THEOREM OriginalsInEveryLife == PSpec => [](BaselineKept /\ EvolvedExact)
<1>1. TableInv => BaselineKept /\ EvolvedExact
  BY TargetAssumption DEF TableInv, MethodInv, Kept, BaselineKept, EvolvedExact
<1> QED BY <1>1, TableInvariant, PTL

(* In no life and over no restart does a method come to ask for more       *)
(* arguments than what it was bound to before.                             *)
THEOREM CallersNeverBreakOverRestarts == PSpec => ArityNeverGrows
<1> DEFINE A == \A t \in Native : bound'[t] \in Code /\ bound'[t] # bound[t] =>
                  Info[bound'[t]].arity <= ArityOf(bound[t], t)
<1>1. TableInv /\ [PNext]_pvars => [A]_vars
  <2> SUFFICES ASSUME TableInv, [PNext]_pvars, NEW t \in Native,
                      bound'[t] \in Code, bound'[t] # bound[t]
               PROVE  Info[bound'[t]].arity <= ArityOf(bound[t], t)
    OBVIOUS
  <2>0. t \in Target /\ bound[t] # NoCode /\ Baseline \notin Code /\ NoCode \notin Code
    BY TargetAssumption, CodeAssumption DEF TableInv, MethodInv, Kept
  <2>1. ASSUME NEW c \in Code, Binds(c) PROVE Info[bound'[t]].arity <= ArityOf(bound[t], t)
    <3>1. t = Defines(c) /\ bound'[t] = c
      BY <2>0, <2>1 DEF Binds, TableInv, PTypeOK, TypeOK
    <3> QED BY <2>0, <2>1, <3>1 DEF Binds, Bindable, Compatible
  <2>2. ASSUME NEW s \in Target, RevertPatch(s) PROVE FALSE
    <3>1. t = s /\ bound'[t] = originals[t]
      BY <2>0, <2>2 DEF RevertPatch, TableInv, PTypeOK, TypeOK
    <3> QED BY <2>0, <3>1 DEF TableInv, MethodInv, Kept
  <2>3. ASSUME TableUnchanged PROVE FALSE
    BY <2>3 DEF TableUnchanged
  <2>4. ASSUME Restart PROVE FALSE
    BY <2>0, <2>4 DEF Restart, ProcessStarts
  <2>5. [Next]_vars \/ Restart
    BY HandlersAreSteps
       DEF PNext, KernelStep, EcologySave, PeriodicSave, FlushEcology, pvars
  <2> QED BY <2>1, <2>2, <2>3, <2>4, <2>5, TableMoves
<1> QED BY <1>1, TableInvariant, PTL DEF PSpec, ArityNeverGrows
=============================================================================
