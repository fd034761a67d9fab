------------------------- MODULE LadderPersistence -------------------------
(***************************************************************************)
(* The promotion ladder across restarts.  The kernel keeps the staged      *)
(* patches in the state file (save_state) and the ladder in the ecology    *)
(* file (_save_kernel_ecology_state); each file is replaced atomically,    *)
(* but they are written one after the other, and the ecology file is also  *)
(* written alone, at the end of every packet.  On start-up both are read   *)
(* back; the ladder's stages come from the ecology file.  What is bound to *)
(* the kernel class, the saved originals, the quarantine records and the   *)
(* operator's changes of the policy sets live in memory only.              *)
(***************************************************************************)
EXTENDS PromotionLadder

VARIABLES
  stateFile,   \* STATE_FILE: the staged patches
  ecology,     \* KERNEL_ECOLOGY_FILE: stages, evidence and metadata
  flushing     \* save_state wrote the state file, the ecology is to follow

diskVars == <<stateFile, ecology, flushing>>
pvars    == <<vars, diskVars>>

EcologyOf(st, ev, me) == [stage |-> st, evidence |-> ev, meta |-> me]

PTypeOK ==
  /\ TypeOK
  /\ stateFile \in [Patch -> [code : Code \cup {NoCode}, status : Status]]
  /\ ecology \in [stage : [Patch -> Stage], evidence : [Patch -> 0..EvidenceHigh],
                  meta : [Patch -> Context]]
  /\ flushing \in BOOLEAN

(* The first packets of a fresh kernel write the ecology file at boot.     *)
PInit ==
  /\ Init
  /\ stateFile = staged
  /\ ecology = EcologyOf(stage, evidence, meta)
  /\ flushing = FALSE

(* Handlers that leave the files alone until the next periodic save.       *)
VolatileStep ==
  /\ \/ \E p \in Patch :
          \/ \E c \in Code : StagePatch(p, c)
          \/ Advance(p)
          \/ \E f \in FailureCounts : ApplyBlocked(p, f)
          \/ \E c \in Code, new \in BOOLEAN, s \in Standings, f \in FailureCounts :
               InjectBlocked(p, c, new, s, f)
          \/ \E s \in Standings : StandingMoves(p, s)
          \/ Release(p)
     \/ OperatorStep
  /\ UNCHANGED diskVars

(* Packets, the escalation of a review wave and gathered evidence end in   *)
(* _save_kernel_ecology_state.                                             *)
EcologyStep ==
  /\ PacketStep \/ \E p \in Patch : Quarantine(p) \/ EvidenceGathered(p)
  /\ ecology' = EcologyOf(stage', evidence', meta')
  /\ UNCHANGED <<stateFile, flushing>>

(* Any other packet saves the ecology too.                                 *)
EcologySave ==
  /\ ecology' = EcologyOf(stage, evidence, meta)
  /\ UNCHANGED <<vars, stateFile, flushing>>

(* save_state: first the state file - whose write may fail, which is only  *)
(* logged - then the ecology.  apply_staged_patch calls it on success, the *)
(* main loop every fifteen seconds.                                        *)
WriteStateFile(content) ==
  /\ stateFile' \in {content, stateFile}
  /\ flushing' = TRUE
  /\ UNCHANGED ecology

SavingStep ==
  /\ \E p \in Patch, f \in FailureCounts :
       \/ ApplyLive(p, f)
       \/ \E c \in Code, new \in BOOLEAN, s \in Standings : InjectLive(p, c, new, s, f)
  /\ WriteStateFile(staged')

PeriodicSave ==
  /\ WriteStateFile(staged)
  /\ UNCHANGED vars

FlushEcology ==
  /\ flushing
  /\ ecology' = EcologyOf(stage, evidence, meta)
  /\ flushing' = FALSE
  /\ UNCHANGED <<vars, stateFile>>

(* load_state and _load_kernel_ecology_state                               *)
StateLoaded   == staged' = stateFile
EcologyLoaded == stage' = ecology.stage /\ evidence' = ecology.evidence /\ meta' = ecology.meta

(* A new process: the class as it was written, the sets as imported.       *)
ProcessStarts(saved) ==
  /\ bound' = [t \in Target |-> IF t \in Native THEN Baseline ELSE NoCode]
  /\ evolved' = {} /\ originals' = saved
  /\ quarantined' = {}
  /\ protected' = Protected0 /\ blocked' = Blocked0 /\ granted' = Unified
  /\ flushing' = FALSE
  /\ UNCHANGED <<stateFile, ecology>>

(* The history variables of PromotionLadder cover one life of the process. *)
HistoryAnew ==
  /\ passed' = [p \in Patch |-> {}] /\ author' = [p \in Patch |-> "main"]
  /\ vetted' = {} /\ liveAuthor' = [t \in Target |-> "main"]

NoneSaved == [t \in Target |-> NoCode]

(* Variant: the saved originals outlive the process.                       *)
RestartKeepsSaved ==
  StateLoaded /\ EcologyLoaded /\ ProcessStarts(originals) /\ HistoryAnew

(* The process ends at any point and starts again.                         *)
Restart ==
  StateLoaded /\ EcologyLoaded /\ ProcessStarts(NoneSaved) /\ HistoryAnew

KernelStep == VolatileStep \/ EcologyStep \/ EcologySave \/ SavingStep \/ PeriodicSave

PNext == (~flushing /\ KernelStep) \/ FlushEcology \/ Restart

PSpec == PInit /\ [][PNext]_pvars
=============================================================================
