-------------------------------- MODULE Boot --------------------------------
(***************************************************************************)
(* What the kernel keeps on disk besides its ecology (LadderPersistence):  *)
(* the state file, the file of shadow weights and the snapshots of them    *)
(* (persistence/), saved from the main loop of kernel/kernel.py and read   *)
(* again when it boots.                                                    *)
(*                                                                         *)
(* Versions stand for contents.  Two snapshots of one reason within one    *)
(* second share their file: the later one replaces the earlier.            *)
(***************************************************************************)
EXTENDS Integers, FiniteSets, Sequences, SequencesExt

CONSTANTS
  SnapshotsOnDisk, SnapshotsInMemory, \* MAX_SNAPSHOTS_DISK, _MEMORY
  MaxFailures,                        \* BOOT_VALIDATION_MAX_FAILURES
  MaxVersion, MaxCrashes, MaxDamage   \* bounds

ASSUME BootAssumption ==
  /\ {SnapshotsOnDisk, SnapshotsInMemory, MaxFailures} \subseteq Nat \ {0}
  /\ {MaxVersion, MaxCrashes, MaxDamage} \subseteq Nat

VARIABLES
  up,            \* is the kernel in its main loop?
  state, degraded, \* the state in memory and its carrier's flag
  stateFile,     \* <<version, degraded>>, Absent or Torn
  weights, weightsFile,
  debounced,     \* a checkpoint was tried within the last 30 seconds
  snapshotFiles, \* snapshot files, by time of modification
  cache,         \* _model_snapshots
  failed,        \* what the last validation found broken
  crashes, damage, \* counts, for the bounds
  taken          \* history: the snapshot that was last saved in full

bvars == <<up, state, degraded, stateFile, weights, weightsFile, debounced,
           snapshotFiles, cache, failed, crashes, damage, taken>>
-----------------------------------------------------------------------------
Versions == 0..MaxVersion
Absent   == <<>>
Torn     == <<-1>>
NoState  == -2 \* the metadata of a snapshot that failed holds no weights
Files    == {Absent, Torn}

BTypeOK ==
  /\ {up, degraded, debounced} \subseteq BOOLEAN /\ {state, weights} \subseteq Versions
  /\ stateFile \in Files \cup (Versions \X BOOLEAN)
  /\ weightsFile \in Files \cup {<<v>> : v \in Versions}
  /\ snapshotFiles \in Seq({Torn} \cup {<<v>> : v \in Versions})
  /\ Len(snapshotFiles) <= SnapshotsOnDisk + MaxCrashes
  /\ cache \in Seq(Versions \cup {NoState}) /\ Len(cache) <= SnapshotsInMemory
  /\ failed \subseteq {"state_file_readable"}
  /\ crashes \in 0..MaxCrashes /\ damage \in 0..MaxDamage
  /\ taken \in {Absent} \cup {<<v>> : v \in Versions}

BInit ==
  /\ up = TRUE /\ state = 0 /\ degraded = FALSE /\ stateFile = Absent
  /\ weights = 0 /\ weightsFile = Absent /\ debounced = FALSE
  /\ snapshotFiles = <<>> /\ cache = <<>> /\ failed = {}
  /\ crashes = 0 /\ damage = 0 /\ taken = Absent

(* What the program does to its state and its weights between two saves;   *)
(* a degraded kernel still trains.                                         *)
Change == /\ up /\ state < MaxVersion /\ state' = state + 1
          /\ UNCHANGED <<up, degraded, stateFile, weights, weightsFile, debounced,
                         snapshotFiles, cache, failed, crashes, damage, taken>>
TrainStep == /\ up /\ weights < MaxVersion /\ weights' = weights + 1
             /\ UNCHANGED <<up, state, degraded, stateFile, weightsFile, debounced,
                            snapshotFiles, cache, failed, crashes, damage, taken>>
-----------------------------------------------------------------------------
(* Writing to a temporary file that then replaces the file: a failure or a *)
(* crash leaves the file as it was.  Variant: writing in place.            *)
WriteOutcome == {"done", "failed", "crashed"}
WrittenInPlace(file, new, out) == IF out = "done" THEN new ELSE Torn
Written(file, new, out)        == IF out = "done" THEN new ELSE file

Crashes(out) == /\ out = "crashed" => crashes < MaxCrashes
                /\ crashes' = crashes + (IF out = "crashed" THEN 1 ELSE 0)
                /\ up' = (out # "crashed")

SaveState(out) ==
  /\ up /\ Crashes(out)
  /\ stateFile' = Written(stateFile, <<state, degraded>>, out)
  /\ UNCHANGED <<state, degraded, weights, weightsFile, debounced, snapshotFiles,
                 cache, failed, damage, taken>>

(* checkpoint_shadow: at most every 30 seconds, and a checkpoint that      *)
(* fails counts.                                                           *)
CheckpointShadow(out) ==
  /\ up /\ ~debounced /\ Crashes(out) /\ debounced' = TRUE
  /\ weightsFile' = Written(weightsFile, <<weights>>, out)
  /\ UNCHANGED <<state, degraded, stateFile, weights, snapshotFiles, cache, failed,
                 damage, taken>>

SecondsPass ==
  /\ debounced /\ debounced' = FALSE
  /\ UNCHANGED <<up, state, degraded, stateFile, weights, weightsFile,
                 snapshotFiles, cache, failed, crashes, damage, taken>>
-----------------------------------------------------------------------------
Newest(s, n) == IF Len(s) > n THEN SubSeq(s, Len(s) - n + 1, Len(s)) ELSE s

(* cleanup_snapshots deletes the oldest.  Variant: the newest.             *)
CleanedUpBackwards(files) ==
  IF Len(files) > SnapshotsOnDisk THEN SubSeq(files, 1, SnapshotsOnDisk) ELSE files
CleanedUp(files) == Newest(files, SnapshotsOnDisk)

(* A snapshot is written in place, under a new name (or that of the last   *)
(* one): a failure leaves nothing or a torn file, and metadata without     *)
(* weights joins the cache.                                                *)
SaveSnapshot(out, torn, sameName) ==
  LET old  == IF sameName /\ snapshotFiles # <<>> THEN Front(snapshotFiles) ELSE snapshotFiles
      file == IF out = "done" THEN << <<weights>> >> ELSE IF torn THEN <<Torn>> ELSE <<>>
  IN
  /\ up /\ Crashes(out) /\ (torn => out # "done")
  /\ (sameName => snapshotFiles # <<>> /\ file # <<>>)
  /\ snapshotFiles' = IF out = "crashed" THEN old \o file ELSE CleanedUp(old \o file)
  /\ cache' = CASE out = "done"    -> Newest(Append(cache, weights), SnapshotsInMemory)
                [] out = "failed"  -> Newest(Append(cache, NoState), SnapshotsInMemory)
                [] out = "crashed" -> cache
  /\ taken' = IF out = "done" THEN <<weights>> ELSE IF sameName THEN Absent ELSE taken
  /\ UNCHANGED <<state, degraded, stateFile, weights, weightsFile, debounced,
                 failed, damage>>

(* rollback_snapshot: the last in memory if it has weights, else the       *)
(* newest file, else nothing.                                              *)
RollbackModel ==
  LET cached == cache # <<>> /\ Last(cache) # NoState
      filed  == snapshotFiles # <<>> /\ Last(snapshotFiles) # Torn
  IN
  /\ up /\ (cached \/ filed)
  /\ weights' = IF cached THEN Last(cache) ELSE Last(snapshotFiles)[1]
  /\ UNCHANGED <<up, state, degraded, stateFile, weightsFile, debounced,
                 snapshotFiles, cache, failed, crashes, damage, taken>>
-----------------------------------------------------------------------------
(* Something outside the program spoils the state file.                    *)
Damaged == /\ damage < MaxDamage /\ damage' = damage + 1 /\ ~up /\ stateFile # Absent
           /\ stateFile' = Torn
           /\ UNCHANGED <<up, state, degraded, weights, weightsFile, debounced,
                          snapshotFiles, cache, failed, crashes, taken>>

Stops == /\ up /\ Crashes("crashed")
         /\ UNCHANGED <<state, degraded, stateFile, weights, weightsFile, debounced,
                        snapshotFiles, cache, failed, damage, taken>>

(* validate_boot: the directories it looks for have just been made and a   *)
(* belief converts, so that of its seven checks only that of the state     *)
(* file can fail.                                                          *)
BootChecks == {"state_file_readable", "bilateral_coercion", "snapshots_available",
               "command_channel", "patch_dir", "levbel_dir", "snapshot_dir"}
Broken     == {c \in BootChecks : c = "state_file_readable" /\ stateFile = Torn}
RepairNeeded == Cardinality(Broken) >= MaxFailures

(* load_shadow_weights: without a file it can read the model stays new.    *)
LoadedWeights == IF weightsFile \in Files THEN 0 ELSE weightsFile[1]

(* The kernel boots: the directories are made, what the files hold is      *)
(* loaded, a file that is absent or unreadable leaves a fresh state, and   *)
(* the boot is validated.                                                  *)
Boots ==
  LET loaded == IF stateFile \in Files THEN <<0, FALSE>> ELSE stateFile IN
  /\ ~up /\ up' = TRUE
  /\ state' = loaded[1] /\ weights' = LoadedWeights
  /\ failed' = Broken /\ cache' = <<>> /\ debounced' = FALSE
  /\ degraded' = (loaded[2] \/ RepairNeeded)
  /\ UNCHANGED <<stateFile, weightsFile, snapshotFiles, crashes, damage, taken>>

BNext == \/ Change \/ TrainStep \/ SecondsPass \/ RollbackModel \/ Damaged \/ Stops \/ Boots
         \/ \E out \in WriteOutcome : SaveState(out) \/ CheckpointShadow(out)
         \/ \E out \in WriteOutcome, torn, sameName \in BOOLEAN :
              SaveSnapshot(out, torn, sameName)
BSpec == BInit /\ [][BNext]_bvars
-----------------------------------------------------------------------------
(* No failure and no crash of the program leaves a state file or a file of *)
(* weights that cannot be read.                                            *)
FilesWhole == (damage = 0 => stateFile # Torn) /\ weightsFile # Torn

(* A rollback restores the snapshot that was last saved in full, through   *)
(* snapshots that failed since, clean-ups and restarts.                    *)
RollbackToLast == [][RollbackModel /\ taken # Absent => <<weights'>> = taken]_bvars
=============================================================================
