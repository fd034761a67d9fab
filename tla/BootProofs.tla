----------------------------- MODULE BootProofs -----------------------------
(***************************************************************************)
(* Theorems about the state file, the file of shadow weights and the       *)
(* snapshots, for any number of saves, failures, crashes and boots.        *)
(***************************************************************************)
EXTENDS Boot, SequenceTheorems, TLAPS

Weights == {<<v>> : v \in Versions}

(* What is written to the file of weights, and what a rollback reads, are  *)
(* weights; nothing the program does itself tears one of the two files.    *)
WholeInv ==
  /\ state \in Versions /\ weights \in Versions
  /\ stateFile \in Files \cup (Versions \X BOOLEAN)
  /\ weightsFile \in Files \cup Weights
  /\ degraded \in BOOLEAN
  /\ snapshotFiles \in Seq({Torn} \cup Weights)
  /\ cache \in Seq(Versions \cup {NoState})
  /\ damage \in Nat
  /\ FilesWhole

(* Cutting a sequence to its newest entries keeps its type.                *)
LEMMA NewestType ==
  ASSUME NEW S, NEW s \in Seq(S), NEW n \in Nat
  PROVE  Newest(s, n) \in Seq(S)
<1>1. CASE Len(s) > n
  <2>1. SubSeq(s, Len(s) - n + 1, Len(s)) \in Seq(S)
    BY <1>1, SubSeqProperties, LenProperties
  <2> QED BY <1>1, <2>1 DEF Newest
<1>2. CASE ~(Len(s) > n)
  BY <1>2 DEF Newest
<1> QED BY <1>1, <1>2

LEMMA LastType ==
  ASSUME NEW S, NEW s \in Seq(S), s # <<>>
  PROVE  Last(s) \in S /\ Front(s) \in Seq(S)
<1>1. Len(s) \in Nat /\ Len(s) > 0
  BY EmptySeq, LenProperties
<1>2. Last(s) \in S
  BY <1>1, ElementOfSeq DEF Last
<1>3. SubSeq(s, 1, Len(s) - 1) \in Seq(S)
  BY <1>1, SubSeqProperties
<1> QED BY <1>2, <1>3 DEF Front

LEMMA Whole == \A v \in Versions : <<v>> # Torn /\ \A d : <<v, d>> # Torn
  BY BootAssumption DEF Versions, Torn

(* A write either leaves the file or replaces it by what was meant.        *)
LEMMA SavesWhole ==
  ASSUME WholeInv, NEW out \in WriteOutcome, SaveState(out) \/ CheckpointShadow(out)
  PROVE  WholeInv'
<1>1. CASE SaveState(out)
  <2>1. stateFile' \in {stateFile, <<state, degraded>>}
    BY <1>1 DEF SaveState, Written
  <2>2. <<state, degraded>> \in Versions \X BOOLEAN /\ <<state, degraded>> # Torn
    BY Whole DEF WholeInv
  <2> QED BY <1>1, <2>1, <2>2 DEF SaveState, WholeInv, FilesWhole
<1>2. CASE CheckpointShadow(out)
  <2>1. weightsFile' \in {weightsFile, <<weights>>}
    BY <1>2 DEF CheckpointShadow, Written
  <2>2. <<weights>> \in Weights /\ <<weights>> # Torn
    BY Whole DEF WholeInv, Weights
  <2> QED BY <1>2, <2>1, <2>2 DEF CheckpointShadow, WholeInv, FilesWhole
<1> QED BY <1>1, <1>2

LEMMA SnapshotWhole ==
  ASSUME WholeInv, NEW out \in WriteOutcome, NEW torn \in BOOLEAN, NEW sameName \in BOOLEAN,
         SaveSnapshot(out, torn, sameName)
  PROVE  WholeInv'
<1> DEFINE old  == IF sameName /\ snapshotFiles # <<>> THEN Front(snapshotFiles) ELSE snapshotFiles
           file == IF out = "done" THEN << <<weights>> >> ELSE IF torn THEN <<Torn>> ELSE <<>>
           T == {Torn} \cup Weights
<1>0. SnapshotsOnDisk \in Nat /\ SnapshotsInMemory \in Nat
  BY BootAssumption
<1>1. old \in Seq(T)
  BY LastType DEF WholeInv
<1>2. file \in Seq(T)
  <2>1. <<weights>> \in T /\ Torn \in T
    BY DEF WholeInv, Weights
  <2> HIDE DEF T
  <2>2. << <<weights>> >> \in Seq(T) /\ <<Torn>> \in Seq(T) /\ <<>> \in Seq(T)
    BY <2>1
  <2> QED BY <2>2
<1>3. old \o file \in Seq(T)
  BY <1>1, <1>2, ConcatProperties
<1>4. snapshotFiles' = IF out = "crashed" THEN old \o file ELSE CleanedUp(old \o file)
  BY DEF SaveSnapshot
<1>5. snapshotFiles' \in Seq(T)
  BY <1>0, <1>3, <1>4, NewestType DEF CleanedUp
<1>6. /\ Append(cache, weights) \in Seq(Versions \cup {NoState})
      /\ Append(cache, NoState) \in Seq(Versions \cup {NoState})
  BY AppendProperties DEF WholeInv
<1>7. cache' \in Seq(Versions \cup {NoState})
  <2>1. \/ cache' = Newest(Append(cache, weights), SnapshotsInMemory)
        \/ cache' = Newest(Append(cache, NoState), SnapshotsInMemory)
        \/ cache' = cache
    BY DEF SaveSnapshot, WriteOutcome
  <2> QED BY <1>0, <1>6, <2>1, NewestType DEF WholeInv
<1> QED BY <1>5, <1>7 DEF SaveSnapshot, WholeInv, FilesWhole

(* A rollback restores weights.                                            *)
LEMMA RollbackWhole == WholeInv /\ RollbackModel => WholeInv'
<1> SUFFICES ASSUME WholeInv, RollbackModel PROVE WholeInv'
  OBVIOUS
<1>1. weights' \in Versions
  <2>1. CASE cache # <<>> /\ Last(cache) # NoState
    <3>1. Last(cache) \in Versions
      BY <2>1, LastType DEF WholeInv
    <3> QED BY <2>1, <3>1 DEF RollbackModel
  <2>2. CASE ~(cache # <<>> /\ Last(cache) # NoState)
    <3>1. snapshotFiles # <<>> /\ Last(snapshotFiles) # Torn
      BY <2>2 DEF RollbackModel
    <3>2. Last(snapshotFiles) \in Weights
      BY <3>1, LastType DEF WholeInv
    <3>3. Last(snapshotFiles)[1] \in Versions
      BY <3>2 DEF Weights
    <3> QED BY <2>2, <3>3 DEF RollbackModel
  <2> QED BY <2>1, <2>2
<1> QED BY <1>1 DEF RollbackModel, WholeInv, FilesWhole

(* A boot reads what the files hold, or starts afresh.                     *)
LEMMA BootsWhole == WholeInv /\ Boots => WholeInv'
<1> SUFFICES ASSUME WholeInv, Boots PROVE WholeInv'
  OBVIOUS
<1>1. 0 \in Versions
  BY BootAssumption DEF Versions
<1>2. CASE stateFile \in Files
  BY <1>1, <1>2 DEF Boots, LoadedWeights, WholeInv, FilesWhole, Weights
<1>3. CASE stateFile \notin Files
  <2>1. stateFile \in Versions \X BOOLEAN
    BY <1>3 DEF WholeInv
  <2> QED BY <1>1, <1>3, <2>1 DEF Boots, LoadedWeights, WholeInv, FilesWhole, Weights
<1> QED BY <1>2, <1>3

LEMMA WholeStep == WholeInv /\ [BNext]_bvars => WholeInv'
<1> SUFFICES ASSUME WholeInv, [BNext]_bvars PROVE WholeInv'
  OBVIOUS
<1>1. CASE Change \/ TrainStep
  BY <1>1, BootAssumption DEF Change, TrainStep, WholeInv, FilesWhole, Versions
<1>2. CASE SecondsPass \/ Stops
  BY <1>2 DEF SecondsPass, Stops, WholeInv, FilesWhole
<1>3. CASE Damaged
  BY <1>3 DEF Damaged, WholeInv, FilesWhole, Files
<1>4. CASE UNCHANGED bvars
  BY <1>4 DEF bvars, WholeInv, FilesWhole
<1> QED BY <1>1, <1>2, <1>3, <1>4, SavesWhole, SnapshotWhole, RollbackWhole, BootsWhole
        DEF BNext

LEMMA WholeInit == BInit => WholeInv
<1>1. Absent # Torn
  BY Len(Absent) = 0, Len(Torn) = 1 DEF Absent, Torn
<1>2. 0 \in Versions /\ 0 \in Nat /\ FALSE \in BOOLEAN
  BY BootAssumption DEF Versions
<1>3. <<>> \in Seq({Torn} \cup Weights) /\ <<>> \in Seq(Versions \cup {NoState})
  OBVIOUS
<1> QED BY <1>1, <1>2, <1>3 DEF BInit, WholeInv, FilesWhole, Files

(* No failed write and no crash leaves a state file, as long as nothing    *)
(* outside the program spoils it, or a file of weights that cannot be      *)
(* read (save_json, save_shadow and their temporary files).                *)
THEOREM FilesAlwaysWhole == BSpec => []FilesWhole
<1>1. BInit => WholeInv
  BY WholeInit
<1>2. WholeInv => FilesWhole
  BY DEF WholeInv
<1> QED BY <1>1, <1>2, WholeStep, PTL DEF BSpec
-----------------------------------------------------------------------------
(* As long as the last complete snapshot is known, whatever a rollback     *)
(* would read is that snapshot: in memory, else in the newest file.        *)
SnapshotInv ==
  taken # Absent =>
    /\ cache # <<>> /\ Last(cache) # NoState => <<Last(cache)>> = taken
    /\ snapshotFiles # <<>> /\ Last(snapshotFiles) # Torn => Last(snapshotFiles) = taken

LEMMA AppendLast ==
  ASSUME NEW S, NEW s \in Seq(S), NEW x \in S
  PROVE  Append(s, x) \in Seq(S) /\ Append(s, x) # <<>> /\ Last(Append(s, x)) = x
BY AppendProperties, EmptySeq, LenProperties DEF Last

(* Cutting a sequence keeps its newest entry.                              *)
LEMMA NewestLast ==
  ASSUME NEW S, NEW s \in Seq(S), s # <<>>, NEW n \in Nat \ {0}
  PROVE  Newest(s, n) # <<>> /\ Last(Newest(s, n)) = Last(s)
<1>1. CASE Len(s) > n
  <2> DEFINE cut == SubSeq(s, Len(s) - n + 1, Len(s))
  <2>1. Len(s) \in Nat /\ Len(s) - n + 1 \in 1..Len(s)
    BY <1>1, LenProperties
  <2>2. Len(cut) = n
    BY <2>1, SubSeqProperties
  <2>3. cut[n] = s[Len(s) - n + 1 + n - 1]
    BY <2>1, <2>2, SubSeqProperties
  <2>4. Len(s) - n + 1 + n - 1 = Len(s)
    BY <2>1
  <2> QED BY <1>1, <2>2, <2>3, <2>4, EmptySeq DEF Newest, Last
<1>2. CASE ~(Len(s) > n)
  BY <1>2 DEF Newest
<1> QED BY <1>1, <1>2

LEMMA NewestAppended ==
  ASSUME NEW S, NEW s \in Seq(S), NEW x \in S, NEW n \in Nat \ {0}
  PROVE  /\ Newest(Append(s, x), n) # <<>> /\ Last(Newest(Append(s, x), n)) = x
         /\ Append(s, x) # <<>> /\ Last(Append(s, x)) = x
<1>1. Append(s, x) \in Seq(S) /\ Append(s, x) # <<>> /\ Last(Append(s, x)) = x
  BY AppendLast
<1>2. /\ Newest(Append(s, x), n) # <<>>
      /\ Last(Newest(Append(s, x), n)) = Last(Append(s, x))
  BY <1>1, NewestLast
<1> QED BY <1>1, <1>2

LEMMA SnapshotKept ==
  ASSUME WholeInv, SnapshotInv,
         NEW out \in WriteOutcome, NEW torn \in BOOLEAN, NEW sameName \in BOOLEAN,
         SaveSnapshot(out, torn, sameName)
  PROVE  SnapshotInv'
<1> DEFINE T == {Torn} \cup Weights
           C == Versions \cup {NoState}
<1>0. /\ SnapshotsOnDisk \in Nat \ {0} /\ SnapshotsInMemory \in Nat \ {0}
      /\ snapshotFiles \in Seq(T) /\ cache \in Seq(C) /\ weights \in C /\ NoState \in C
      /\ <<weights>> \in T /\ Torn \in T
  BY BootAssumption DEF WholeInv, Weights
<1>1. CASE out = "done"
  <2> DEFINE old == IF sameName /\ snapshotFiles # <<>> THEN Front(snapshotFiles)
                    ELSE snapshotFiles
  <2>1. old \in Seq(T)
    BY <1>0, LastType
  <2>2. /\ snapshotFiles' = Newest(old \o << <<weights>> >>, SnapshotsOnDisk)
        /\ cache' = Newest(Append(cache, weights), SnapshotsInMemory)
        /\ taken' = <<weights>>
    BY <1>1 DEF SaveSnapshot, CleanedUp
  <2> HIDE DEF old, T, C
  <2>3. old \o << <<weights>> >> = Append(old, <<weights>>)
    BY <1>0, <2>1
  <2>4. snapshotFiles' # <<>> /\ Last(snapshotFiles') = <<weights>>
    <3> DEFINE grown == Append(old, <<weights>>)
    <3>1. Newest(grown, SnapshotsOnDisk) # <<>>
          /\ Last(Newest(grown, SnapshotsOnDisk)) = <<weights>>
      BY <1>0, <2>1, NewestAppended
    <3>2. snapshotFiles' = Newest(grown, SnapshotsOnDisk)
      BY <2>2, <2>3
    <3> QED BY <3>1, <3>2
  <2>5. cache' # <<>> /\ Last(cache') = weights
    BY <1>0, <2>2, NewestAppended
  <2> QED BY <2>2, <2>4, <2>5 DEF SnapshotInv
<1>2. CASE out # "done" /\ sameName
  BY <1>2 DEF SaveSnapshot, SnapshotInv
<1>3. CASE out # "done" /\ ~sameName
  <2>1. taken' = taken
    BY <1>3 DEF SaveSnapshot
  <2>2. ASSUME taken # Absent, cache' # <<>>, Last(cache') # NoState
        PROVE  <<Last(cache')>> = taken
    <3>1. CASE out = "failed"
      <4>1. cache' = Newest(Append(cache, NoState), SnapshotsInMemory)
        BY <3>1 DEF SaveSnapshot
      <4>2. Last(cache') = NoState
        BY <1>0, <4>1, NewestAppended
      <4> QED BY <2>2, <4>2
    <3>2. CASE out = "crashed"
      BY <2>2, <3>2 DEF SaveSnapshot, SnapshotInv
    <3> QED BY <1>3, <3>1, <3>2 DEF WriteOutcome
  <2>3. ASSUME taken # Absent, snapshotFiles' # <<>>, Last(snapshotFiles') # Torn
        PROVE  Last(snapshotFiles') = taken
    <3>1. CASE torn
      <4>1. \/ snapshotFiles' = snapshotFiles \o <<Torn>>
            \/ snapshotFiles' = Newest(snapshotFiles \o <<Torn>>, SnapshotsOnDisk)
        BY <1>3, <3>1 DEF SaveSnapshot, CleanedUp
      <4>2. snapshotFiles \o <<Torn>> = Append(snapshotFiles, Torn)
        BY <1>0
      <4> HIDE DEF T, C
      <4> DEFINE grown == Append(snapshotFiles, Torn)
      <4>3. Last(grown) = Torn /\ Last(Newest(grown, SnapshotsOnDisk)) = Torn
        BY <1>0, NewestAppended
      <4>4. snapshotFiles' \in {grown, Newest(grown, SnapshotsOnDisk)}
        BY <4>1, <4>2
      <4>5. Last(snapshotFiles') = Torn
        BY <4>3, <4>4
      <4> QED BY <2>3, <4>5
    <3>2. CASE ~torn
      <4>1. \/ snapshotFiles' = snapshotFiles \o <<>>
            \/ snapshotFiles' = Newest(snapshotFiles \o <<>>, SnapshotsOnDisk)
        BY <1>3, <3>2 DEF SaveSnapshot, CleanedUp
      <4>2. snapshotFiles \o <<>> = snapshotFiles
        BY <1>0
      <4>3. CASE snapshotFiles = <<>>
        <5>1. Len(snapshotFiles) = 0
          BY <4>3
        <5>2. snapshotFiles' = <<>>
          BY <1>0, <4>1, <4>2, <4>3, <5>1 DEF Newest
        <5> QED BY <2>3, <5>2
      <4>4. CASE snapshotFiles # <<>>
        <5> HIDE DEF T, C
        <5>1. Last(snapshotFiles') = Last(snapshotFiles)
          BY <1>0, <4>1, <4>2, <4>4, NewestLast
        <5> QED BY <2>3, <4>4, <5>1 DEF SnapshotInv
      <4> QED BY <4>3, <4>4
    <3> QED BY <3>1, <3>2
  <2> QED BY <2>1, <2>2, <2>3 DEF SnapshotInv
<1> QED BY <1>1, <1>2, <1>3

LEMMA SnapshotStep == WholeInv /\ SnapshotInv /\ [BNext]_bvars => SnapshotInv'
<1> SUFFICES ASSUME WholeInv, SnapshotInv, [BNext]_bvars PROVE SnapshotInv'
  OBVIOUS
<1>1. ASSUME \/ Change \/ TrainStep \/ SecondsPass \/ Stops \/ Damaged \/ RollbackModel
             \/ \E out \in WriteOutcome : SaveState(out) \/ CheckpointShadow(out)
      PROVE  SnapshotInv'
  BY <1>1 DEF Change, TrainStep, SecondsPass, Stops, Damaged, RollbackModel, SaveState,
              CheckpointShadow, SnapshotInv
<1>2. CASE Boots
  BY <1>2 DEF Boots, SnapshotInv
<1>3. CASE UNCHANGED bvars
  BY <1>3 DEF bvars, SnapshotInv
<1> QED BY <1>1, <1>2, <1>3, SnapshotKept DEF BNext

(* A rollback restores the last complete snapshot, whatever failed, was    *)
(* cleaned up or restarted since it was taken (save_snapshot,              *)
(* cleanup_snapshots and rollback_snapshot).                               *)
THEOREM RollbackRestoresLast == BSpec => RollbackToLast
<1>1. BInit => WholeInv /\ SnapshotInv
  BY WholeInit DEF BInit, SnapshotInv
<1>2. ASSUME WholeInv, SnapshotInv, RollbackModel, taken # Absent
      PROVE  <<weights'>> = taken
  <2>1. CASE cache # <<>> /\ Last(cache) # NoState
    BY <1>2, <2>1 DEF RollbackModel, SnapshotInv
  <2>2. CASE ~(cache # <<>> /\ Last(cache) # NoState)
    <3>1. /\ snapshotFiles # <<>> /\ Last(snapshotFiles) # Torn
          /\ weights' = Last(snapshotFiles)[1]
      BY <1>2, <2>2 DEF RollbackModel
    <3>2. Last(snapshotFiles) \in Weights /\ Last(snapshotFiles) = taken
      BY <1>2, <3>1, LastType DEF WholeInv, SnapshotInv
    <3> QED BY <3>1, <3>2 DEF Weights
  <2> QED BY <2>1, <2>2
<1>3. WholeInv /\ SnapshotInv => (RollbackModel /\ taken # Absent => <<weights'>> = taken)
  BY <1>2
<1> QED BY <1>1, <1>3, WholeStep, SnapshotStep, PTL DEF BSpec, RollbackToLast
-----------------------------------------------------------------------------
(* Types.  Clean-ups keep the snapshots within their limits; each crash    *)
(* may leave one file more.                                                *)
SizesInv ==
  /\ up \in BOOLEAN /\ debounced \in BOOLEAN
  /\ Len(snapshotFiles) <= SnapshotsOnDisk + crashes /\ Len(cache) <= SnapshotsInMemory
  /\ failed \subseteq {"state_file_readable"}
  /\ crashes \in 0..MaxCrashes /\ damage \in 0..MaxDamage
  /\ taken \in {Absent} \cup Weights

LEMMA NewestLength ==
  ASSUME NEW S, NEW s \in Seq(S), NEW n \in Nat
  PROVE  Len(Newest(s, n)) \in Nat /\ Len(Newest(s, n)) <= n /\ Len(Newest(s, n)) <= Len(s)
<1>1. Len(s) \in Nat
  BY LenProperties
<1>2. CASE Len(s) > n
  <2>1. Len(SubSeq(s, Len(s) - n + 1, Len(s))) = n
    BY <1>1, <1>2, SubSeqProperties
  <2> QED BY <1>1, <1>2, <2>1 DEF Newest
<1>3. CASE ~(Len(s) > n)
  BY <1>1, <1>3 DEF Newest
<1> QED BY <1>2, <1>3

LEMMA SnapshotSizes ==
  ASSUME WholeInv, SizesInv,
         NEW out \in WriteOutcome, NEW torn \in BOOLEAN, NEW sameName \in BOOLEAN,
         SaveSnapshot(out, torn, sameName)
  PROVE  SizesInv'
<1> DEFINE old  == IF sameName /\ snapshotFiles # <<>> THEN Front(snapshotFiles) ELSE snapshotFiles
           file == IF out = "done" THEN << <<weights>> >> ELSE IF torn THEN <<Torn>> ELSE <<>>
           T == {Torn} \cup Weights
<1>0. /\ SnapshotsOnDisk \in Nat /\ SnapshotsInMemory \in Nat /\ MaxCrashes \in Nat
      /\ snapshotFiles \in Seq(T) /\ Len(snapshotFiles) \in Nat
      /\ crashes \in 0..MaxCrashes /\ Len(snapshotFiles) <= SnapshotsOnDisk + crashes
  BY BootAssumption, LenProperties DEF WholeInv, SizesInv
<1>1. old \in Seq(T) /\ Len(old) \in Nat /\ Len(old) <= Len(snapshotFiles)
  <2>1. CASE snapshotFiles # <<>>
    <3>1. Len(snapshotFiles) > 0
      BY <1>0, <2>1, EmptySeq
    <3>2. Front(snapshotFiles) \in Seq(T)
      BY <1>0, <2>1, LastType
    <3>3. Len(SubSeq(snapshotFiles, 1, Len(snapshotFiles) - 1)) = Len(snapshotFiles) - 1
      <4> DEFINE m == Len(snapshotFiles) - 1
      <4>1. m \in Nat /\ \A i \in 1..m : snapshotFiles[i] \in T
        BY <1>0, <3>1, ElementOfSeq
      <4> HIDE DEF m
      <4>2. Len(SubSeq(snapshotFiles, 1, m)) = IF 1 <= m THEN m - 1 + 1 ELSE 0
        BY <4>1, SubSeqProperties
      <4>3. Len(SubSeq(snapshotFiles, 1, m)) = m
        BY <4>1, <4>2
      <4> QED BY <4>3 DEF m
    <3> QED BY <1>0, <3>1, <3>2, <3>3 DEF Front
  <2>2. CASE snapshotFiles = <<>>
    BY <1>0, <2>2
  <2> QED BY <2>1, <2>2
<1>2. file \in Seq(T) /\ Len(file) \in 0..1
  <2>1. <<weights>> \in T /\ Torn \in T
    BY DEF WholeInv, Weights
  <2> HIDE DEF T
  <2>2. /\ << <<weights>> >> \in Seq(T) /\ <<Torn>> \in Seq(T) /\ <<>> \in Seq(T)
        /\ Len(<< <<weights>> >>) = 1 /\ Len(<<Torn>>) = 1 /\ Len(<<>>) = 0
    BY <2>1
  <2> QED BY <2>2
<1> HIDE DEF T
<1>3. old \o file \in Seq(T) /\ Len(old \o file) = Len(old) + Len(file)
  BY <1>1, <1>2, ConcatProperties
<1>4. /\ snapshotFiles' = IF out = "crashed" THEN old \o file ELSE CleanedUp(old \o file)
      /\ crashes' = crashes + (IF out = "crashed" THEN 1 ELSE 0)
      /\ up' = (out # "crashed") /\ (out = "crashed" => crashes < MaxCrashes)
      /\ UNCHANGED <<debounced, failed, damage>>
  BY DEF SaveSnapshot, Crashes
<1>5. Len(snapshotFiles') <= SnapshotsOnDisk + crashes'
  <2> HIDE DEF old, file
  <2>1. CASE out = "crashed"
    <3>1. snapshotFiles' = old \o file /\ crashes' = crashes + 1
      BY <1>4, <2>1
    <3>2. Len(snapshotFiles') = Len(old) + Len(file)
      BY <1>3, <3>1
    <3> QED BY <1>0, <1>1, <1>2, <3>1, <3>2
  <2>2. CASE out # "crashed"
    <3>1. Len(CleanedUp(old \o file)) <= SnapshotsOnDisk /\ Len(CleanedUp(old \o file)) \in Nat
      BY <1>0, <1>3, NewestLength DEF CleanedUp
    <3> QED BY <1>0, <1>4, <2>2, <3>1
  <2> QED BY <2>1, <2>2
<1>6. Len(cache') <= SnapshotsInMemory
  <2> DEFINE V == Versions \cup {NoState}
  <2>1. Append(cache, weights) \in Seq(V) /\ Append(cache, NoState) \in Seq(V)
    BY AppendProperties DEF WholeInv
  <2>2. \/ cache' = Newest(Append(cache, weights), SnapshotsInMemory)
        \/ cache' = Newest(Append(cache, NoState), SnapshotsInMemory)
        \/ cache' = cache
    BY DEF SaveSnapshot, WriteOutcome
  <2> HIDE DEF V
  <2>3. /\ Len(Newest(Append(cache, weights), SnapshotsInMemory)) <= SnapshotsInMemory
        /\ Len(Newest(Append(cache, NoState), SnapshotsInMemory)) <= SnapshotsInMemory
    BY <1>0, <2>1, NewestLength
  <2> QED BY <2>2, <2>3 DEF SizesInv
<1>7. taken' \in {Absent} \cup Weights
  <2>1. taken' = <<weights>> \/ taken' = Absent \/ taken' = taken
    BY DEF SaveSnapshot
  <2> QED BY <2>1 DEF WholeInv, Weights, SizesInv
<1>8. crashes' \in 0..MaxCrashes
  BY <1>0, <1>4
<1> QED BY <1>4, <1>5, <1>6, <1>7, <1>8 DEF SizesInv

LEMMA SizesStep == WholeInv /\ SizesInv /\ [BNext]_bvars => SizesInv'
<1> SUFFICES ASSUME WholeInv, SizesInv, [BNext]_bvars PROVE SizesInv'
  OBVIOUS
<1>0. /\ SnapshotsOnDisk \in Nat /\ MaxCrashes \in Nat /\ MaxDamage \in Nat
      /\ SnapshotsInMemory \in Nat /\ Len(snapshotFiles) \in Nat
  BY BootAssumption, LenProperties DEF WholeInv
<1>1. CASE Change \/ TrainStep \/ SecondsPass \/ RollbackModel
  BY <1>1 DEF Change, TrainStep, SecondsPass, RollbackModel, SizesInv
<1>2. CASE Damaged
  BY <1>0, <1>2 DEF Damaged, SizesInv
<1>3. ASSUME NEW out \in WriteOutcome, SaveState(out) \/ CheckpointShadow(out) \/ (Stops /\ out = "crashed")
      PROVE  SizesInv'
  <2>1. Crashes(out) /\ UNCHANGED <<snapshotFiles, cache, failed, damage, taken>> /\ debounced' \in BOOLEAN
    BY <1>3 DEF SaveState, CheckpointShadow, Stops, SizesInv
  <2> QED BY <1>0, <2>1 DEF Crashes, SizesInv
<1>4. CASE Boots
  <2>1. failed' \subseteq {"state_file_readable"} /\ cache' = <<>> /\ up' \in BOOLEAN /\ debounced' \in BOOLEAN
    BY <1>4 DEF Boots, Broken
  <2> QED BY <1>0, <1>4, <2>1 DEF Boots, SizesInv
<1>5. CASE UNCHANGED bvars
  BY <1>5 DEF bvars, SizesInv
<1> QED BY <1>1, <1>2, <1>3, <1>4, <1>5, SnapshotSizes DEF BNext, WriteOutcome

LEMMA SizesInit == BInit => SizesInv
<1>1. {SnapshotsOnDisk, SnapshotsInMemory, MaxCrashes, MaxDamage} \subseteq Nat
  BY BootAssumption
<1>2. Len(<<>>) = 0
  OBVIOUS
<1> SUFFICES ASSUME BInit PROVE SizesInv
  OBVIOUS
<1>3. up \in BOOLEAN /\ debounced \in BOOLEAN /\ failed = {} /\ crashes = 0 /\ damage = 0
      /\ snapshotFiles = <<>> /\ cache = <<>> /\ taken = Absent
  BY DEF BInit
<1> QED BY <1>1, <1>2, <1>3 DEF SizesInv

LEMMA SizesTypes == WholeInv /\ SizesInv => BTypeOK
<1> SUFFICES ASSUME WholeInv, SizesInv PROVE BTypeOK
  OBVIOUS
<1>1. Len(snapshotFiles) <= SnapshotsOnDisk + MaxCrashes
  <2>1. SnapshotsOnDisk \in Nat /\ MaxCrashes \in Nat /\ Len(snapshotFiles) \in Nat
    BY BootAssumption, LenProperties DEF WholeInv
  <2> QED BY <2>1 DEF SizesInv
<1> QED BY <1>1 DEF WholeInv, SizesInv, BTypeOK, Weights

(* Snapshots do not pile up: on disk there are at most as many as are kept *)
(* and one for every crash in the middle of a save, in memory never more   *)
(* than are kept (cleanup_snapshots and save_model_snapshot).              *)
THEOREM SnapshotsBounded == BSpec => []BTypeOK
<1> QED BY WholeInit, SizesInit, WholeStep, SizesStep, SizesTypes, PTL DEF BSpec
=============================================================================
