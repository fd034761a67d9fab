----------------------------- MODULE HubReview -----------------------------
(***************************************************************************)
(* The hub's review of promotion requests: the promotion queue of          *)
(* kernel/hub_kernel.py, and the work queue and review waves that          *)
(* kernel/kernel.py builds from it.  A request is ranked, and then opens a *)
(* review wave, waits for a cooldown, or is turned into an evidence task   *)
(* that puts it back when done.  Each operation is one operator command or *)
(* one packet, and none is interrupted.                                    *)
(*                                                                         *)
(* Scores, caution levels and cooldowns are floats that grow, decay and    *)
(* are compared with the clock: the model leaves open in which order the   *)
(* requests rank (what waits for an open wave ranks last, with -12), which *)
(* artifacts are on cooldown when the queue is processed, and which of     *)
(* them are mature.  Waves are numbered as they are made; their number is  *)
(* their wave_id.  HUB_REVERT returns to the snapshot taken at boot, the   *)
(* only one the program takes.                                             *)
(***************************************************************************)
EXTENDS Integers, FiniteSets, Sequences, SequencesExt, Selections

CONSTANTS
  Patch, HubModule, \* artifacts
  Stage,         \* stages a patch is asked for
  ModuleStage,   \* and a module: "promotable", or "hub" if its caller says so
  NeedsTwo,      \* the stages of a patch that need two pieces of evidence
  Proposed,      \* the modules a proposal was recorded of
  PickLimit,     \* the operator's limit
  QueueCap,      \* items each queue keeps (200)
  MaxWaves,      \* bound: waves
  MaxQueue       \* bound: requests asked while so many wait

Artifact == Patch \cup HubModule
NoWave   == 0

ASSUME HubAssumption ==
  /\ Proposed \subseteq HubModule /\ Patch \cap HubModule = {}
  /\ NeedsTwo \subseteq Stage
  /\ PickLimit \in Nat \ {0} /\ QueueCap \in Nat \ {0}
  /\ MaxWaves \in Nat /\ MaxQueue \in Nat

VARIABLES
  promotionQueue, \* requests, oldest first
  workQueue,      \* evidence tasks, cooldown entries, wave resolutions
  waves,          \* review_waves: status, items, times surfaced
  evidence        \* entries of the ladder about each patch, up to 2

hvars == <<promotionQueue, workQueue, waves, evidence>>
-----------------------------------------------------------------------------
(* A request names its artifact and stage, and, for a module, whether its  *)
(* proposal and its kind are filled in.  ready is evidence_ready.          *)
Request == [art : Artifact, stage : Stage \cup ModuleStage,
            pid : BOOLEAN, known : BOOLEAN, ready : BOOLEAN]

(* artifact_dedup_key                                                      *)
DedupKey(art, stage, known) ==
  IF art \in Patch THEN <<art, stage>> ELSE <<art, stage, known>>

StoredKey(r) == DedupKey(r.art, r.stage, r.known)

(* The key computed when a request is ranked, and kept in its wave: the    *)
(* target of a module is the hub, its kind that of the latest proposal.    *)
RowKey(r) == IF r.art \in Patch THEN StoredKey(r)
             ELSE DedupKey(r.art, "hub", r.art \in Proposed)

Task(kind, r) ==
  [kind |-> kind, art |-> r.art, stage |-> r.stage,
   known |-> r.art \in Proposed, wave |-> NoWave, advice |-> "none"]
Evidence(r)   == Task("promotion_evidence", r)
Tracking(r)   == Task("promotion_cooldown_tracking", r)

Resolution(w, advice) ==
  [kind |-> "review_wave_resolution", art |-> NoWave, stage |-> "none",
   known |-> FALSE, wave |-> w, advice |-> advice]

TaskKey(t) == IF t.kind = "review_wave_resolution" THEN <<"wave", t.wave>>
              ELSE DedupKey(t.art, t.stage, t.known)

(* Variant: a queue is not cut.                                            *)
Uncut(s) == s

Last200(s) == IF Len(s) > QueueCap THEN SubSeq(s, Len(s) - QueueCap + 1, Len(s)) ELSE s

(* _hub_enqueue_work_item: an evidence task replaces what has its key.     *)
Enqueue(queue, t) ==
  Last200(Append(IF t.kind = "promotion_evidence"
                 THEN Pick(queue, {i \in DOMAIN queue : TaskKey(queue[i]) # TaskKey(t)})
                 ELSE queue, t))

(* HubKernel.queue_promotion_request: a request of the same key is merged. *)
Queued(queue, r) ==
  LET same == {i \in DOMAIN queue : StoredKey(queue[i]) = StoredKey(r)} IN
  Last200(Append(Pick(queue, DOMAIN queue \ same),
                 [r EXCEPT !.ready = @ \/ \E i \in same : queue[i].ready]))
-----------------------------------------------------------------------------
(* Waves.  Two lists say which are over: the one the selection asks and    *)
(* the one the resolution asks.                                            *)

OverForSelection  == {"completed", "auto_closed"}
OverForResolution == {"completed", "auto_closed", "escalated"}

(* A wave keeps the keys of its items.                                     *)
Wave == [status : {"open", "completed", "auto_closed", "escalated"},
         items : SUBSET {RowKey(r) : r \in Request}, surfaced : 0..2]

OpenKeys == UNION {waves[i].items : i \in {j \in DOMAIN waves :
                                              waves[j].status \notin OverForSelection}}
ArtsOf(w) == {key[1] : key \in w.items}

HTypeOK ==
  /\ promotionQueue \in Seq(Request) /\ Len(promotionQueue) <= QueueCap
  /\ workQueue \in Seq([kind : {"promotion_evidence", "promotion_cooldown_tracking",
                                "review_wave_resolution"},
                        art : Artifact \cup {NoWave},
                        stage : Stage \cup ModuleStage \cup {"none"},
                        known : BOOLEAN, wave : 0..MaxWaves,
                        advice : {"none", "wait", "auto_close", "auto_escalate"}])
  /\ Len(workQueue) <= QueueCap
  /\ waves \in Seq(Wave) /\ Len(waves) <= MaxWaves
  /\ evidence \in [Patch -> 0..2]

HInit ==
  /\ promotionQueue = <<>> /\ workQueue = <<>> /\ waves = <<>>
  /\ evidence = [p \in Patch |-> 0]
-----------------------------------------------------------------------------
(* Ranking and selection.                                                  *)

Required(stage) == IF stage \in NeedsTwo THEN 2 ELSE 1

(* _hub_promotion_priority_view: what is to be done with a request.        *)
(* mood.cold are the artifacts on cooldown, mood.ripe, of the others, the  *)
(* modules whose maturity report is ready and the patches that have waited *)
(* 1500 seconds.                                                           *)
Mood ==
  LET asked == {promotionQueue[i].art : i \in DOMAIN promotionQueue} IN
  {mood \in [cold : SUBSET asked, ripe : SUBSET asked] : mood.cold \cap mood.ripe = {}}

ReviewAction(r, mood) ==
  IF StoredKey(r) \in OpenKeys THEN "wait_open_wave"
  ELSE IF r.art \in mood.cold THEN "wait_cooldown"
  ELSE IF r.art \in mood.ripe \/ (r.art \in Patch /\ evidence[r.art] >= Required(r.stage))
       THEN "review_now" ELSE "gather_evidence"

(* The rows of the view: the queue in an order the scores allow.           *)
Rankings(mood) ==
  {order \in Bijection(DOMAIN promotionQueue, DOMAIN promotionQueue) :
     \A i, j \in DOMAIN promotionQueue :
       i < j => \/ ReviewAction(promotionQueue[order[i]], mood) # "wait_open_wave"
                \/ ReviewAction(promotionQueue[order[j]], mood) = "wait_open_wave"}

(* Variant: the waves under review are not asked.                          *)
CandidatesAgain(rows, mood) ==
  {i \in DOMAIN rows :
    /\ ReviewAction(rows[i], mood) = "review_now"
    /\ \A j \in 1..(i - 1) : ReviewAction(rows[j], mood) = "review_now" =>
                               RowKey(rows[j]) # RowKey(rows[i])}

(* The rows that may be reviewed: the first of each key no wave is open of.*)
WaveCandidates(rows, mood) ==
  {i \in DOMAIN rows :
    /\ ReviewAction(rows[i], mood) = "review_now"
    /\ RowKey(rows[i]) \notin OpenKeys
    /\ \A j \in 1..(i - 1) : ReviewAction(rows[j], mood) = "review_now" =>
                               RowKey(rows[j]) # RowKey(rows[i])}

(* _select_hub_review_wave: the first, and with a first that is ready the  *)
(* others of its sort that are ready (up to 8, more than a bounded queue   *)
(* holds).                                                                 *)
Selected(rows, mood) ==
  LET found == WaveCandidates(rows, mood)
      top   == rows[Min(found)]
  IN IF found = {} THEN {}
     ELSE {top} \cup {rows[i] : i \in {j \in found :
                        /\ top.ready /\ rows[j].ready
                        /\ (rows[j].art \in Patch) = (top.art \in Patch)}}
-----------------------------------------------------------------------------
(* process_hub_promotion_queue, row by row.  The rows know the proposal of *)
(* a module; the requests in the queue may not.                            *)

RowPid(r) == r.art \in Proposed
Matches(q, r) == q.art = r.art /\ q.pid = RowPid(r)

(* A cooling request is marked and an entry made of it, each time.         *)
Deferred(q, r) ==
  LET first == SelectInSeq(q.promotion, LAMBDA old : Matches(old, r)) IN
  [promotion |-> IF first = 0 THEN q.promotion
                 ELSE [q.promotion EXCEPT ![first].ready = FALSE],
   work      |-> Enqueue(q.work, Tracking(r))]

(* A request short of evidence becomes an evidence task.                   *)
AskedForEvidence(q, r) == [q EXCEPT !.work = Enqueue(@, Evidence(r))]
Consumed(q, r) ==
  [q EXCEPT !.promotion = Pick(@, {i \in DOMAIN @ : ~Matches(@[i], r)})]

(* Variant: the request leaves the queue and no task is made.              *)
WithoutWaveDropping(q, r, mood) ==
  CASE ReviewAction(r, mood) = "wait_open_wave" -> q
    [] ReviewAction(r, mood) = "wait_cooldown"  -> Deferred(q, r)
    [] OTHER -> Consumed(q, r)

(* Nothing is reviewed: the first rows are handled as they stand.          *)
WithoutWave(q, r, mood) ==
  CASE ReviewAction(r, mood) = "wait_open_wave" -> q
    [] ReviewAction(r, mood) = "wait_cooldown"  -> Deferred(q, r)
    [] OTHER -> Consumed(AskedForEvidence(q, r), r)

(* A wave is opened: what is in it leaves the queue, and the rows behind   *)
(* it make their entries but keep their place.                             *)
MarkedReviewed(q, chosen) ==
  [q EXCEPT !.promotion = Pick(@, {i \in DOMAIN @ :
     ~ \E r \in chosen : @[i].art = r.art /\ (RowPid(r) => @[i].pid)})]

BehindWave(q, r, chosen, mood) ==
  IF RowKey(r) \in {RowKey(c) : c \in chosen} THEN q
  ELSE CASE ReviewAction(r, mood) = "wait_cooldown"   -> Deferred(q, r)
         [] ReviewAction(r, mood) = "gather_evidence" -> AskedForEvidence(q, r)
         [] OTHER -> q

Queues == [promotion |-> promotionQueue, work |-> workQueue]

RowsHandled(chosen) ==
  LET limit == IF chosen = {} THEN PickLimit ELSE 2 * PickLimit
  IN IF limit < Len(promotionQueue) THEN limit ELSE Len(promotionQueue)

HandleRow(q, r, chosen, mood) ==
  IF chosen = {} THEN WithoutWave(q, r, mood) ELSE BehindWave(q, r, chosen, mood)

(* The queues after each of the first rows.                                *)
AfterRows(rows, chosen, mood) ==
  LET after[n \in 0..RowsHandled(chosen)] ==
        IF n = 0 THEN MarkedReviewed(Queues, chosen)
        ELSE HandleRow(after[n - 1], rows[n], chosen, mood)
  IN after[RowsHandled(chosen)]

(* PROCESS_HUB_PROMOTION_QUEUE.  The modules of a wave are reviewed by the *)
(* main kernel at once (ModuleRegistry).                                   *)
ProcessQueue(order, mood) ==
  LET rows   == [i \in DOMAIN promotionQueue |-> promotionQueue[order[i]]]
      chosen == Selected(rows, mood)
      after  == AfterRows(rows, chosen, mood)
  IN
  /\ promotionQueue # <<>>
  /\ chosen # {} => Len(waves) < MaxWaves
  /\ promotionQueue' = after.promotion
  /\ workQueue' = after.work
  /\ waves' = IF chosen = {} THEN waves
              ELSE Append(waves, [status |-> "open", items |-> {RowKey(r) : r \in chosen},
                                  surfaced |-> 0])
  /\ UNCHANGED evidence
-----------------------------------------------------------------------------
More(p) == [evidence EXCEPT ![p] = IF @ < 2 THEN @ + 1 ELSE @]

(* A PROMOTION_REQUEST of the hub: queued, and for a patch recorded by the *)
(* ladder (PromotionLadder).                                               *)
AskPatch(p, stage) ==
  /\ Len(promotionQueue) < MaxQueue
  /\ promotionQueue' = Queued(promotionQueue, [art |-> p, stage |-> stage, pid |-> FALSE,
                                               known |-> FALSE, ready |-> FALSE])
  /\ evidence' = More(p)
  /\ UNCHANGED <<workQueue, waves>>

AskModule(m, stage, pid) ==
  /\ Len(promotionQueue) < MaxQueue
  /\ pid => m \in Proposed
  /\ promotionQueue' = Queued(promotionQueue, [art |-> m, stage |-> stage, pid |-> pid,
                                               known |-> FALSE, ready |-> FALSE])
  /\ UNCHANGED <<workQueue, waves, evidence>>

(* complete_hub_evidence_task: the first task of the artifact is taken and *)
(* the request comes back, with its proposal and kind.                     *)
CompleteEvidence(a) ==
  LET first == SelectInSeq(workQueue, LAMBDA t : t.kind = "promotion_evidence" /\ t.art = a)
      task  == workQueue[first]
  IN
  /\ first # 0
  /\ promotionQueue' = Queued(promotionQueue,
                              [art |-> a, stage |-> task.stage, pid |-> a \in Proposed,
                               known |-> a \in Proposed, ready |-> TRUE])
  /\ workQueue' = RemoveAt(workQueue, first)
  /\ evidence' = IF a \in Patch THEN More(a) ELSE evidence
  /\ UNCHANGED waves

(* COMPLETE_HUB_REVIEW_WAVE, of any wave, one over already included.  Its  *)
(* feedback moves scores and cooldowns.                                    *)
CompleteWave(w) ==
  /\ waves' = [waves EXCEPT ![w].status = "completed"]
  /\ UNCHANGED <<promotionQueue, workQueue, evidence>>

(* What the resolution advises.  No task is ever tied to a wave, so none   *)
(* is unresolved; only the caution level of an artifact holds a wave back. *)
Advice(w, old) ==
  IF waves[w].surfaced >= 2 /\ old THEN {"auto_escalate"}
  ELSE {"auto_close", "wait"}

Surfaceable ==
  {w \in DOMAIN waves :
     /\ waves[w].status \notin OverForResolution
     /\ \A i \in DOMAIN workQueue : workQueue[i].wave # w}

(* SURFACE_OPEN_REVIEW_WAVES, for one wave old enough.                     *)
Surface(w, old, advice) ==
  /\ w \in Surfaceable
  /\ advice \in Advice(w, old)
  /\ workQueue' = Enqueue(workQueue, Resolution(w, advice))
  /\ waves' = [waves EXCEPT ![w].surfaced = IF @ < 2 THEN @ + 1 ELSE @]
  /\ UNCHANGED <<promotionQueue, evidence>>

(* PROCESS_WAVE_RESOLUTIONS (resolve_surfaced_review_waves): the first     *)
(* items whose advice can be followed.  The status of the wave is not      *)
(* asked for, and the escalation item queued on the way is lost: the work  *)
(* queue is replaced by the items kept.                                    *)
Followed ==
  LET due == {i \in DOMAIN workQueue : workQueue[i].advice \in {"auto_close", "auto_escalate"}}
  IN {i \in due : Rank(due, i) <= PickLimit}

ResolvedBy(advice) ==
  {workQueue[i].wave : i \in {j \in Followed : workQueue[j].advice = advice}}

Kept == Pick(workQueue, DOMAIN workQueue \ Followed)

Resolve ==
  /\ Followed # {}
  /\ workQueue' = Kept
  /\ waves' = [w \in DOMAIN waves |->
       CASE w \in ResolvedBy("auto_close")    -> [waves[w] EXCEPT !.status = "auto_closed"]
         [] w \in ResolvedBy("auto_escalate") -> [waves[w] EXCEPT !.status = "escalated"]
         [] OTHER -> waves[w]]
  /\ UNCHANGED <<promotionQueue, evidence>>

(* HUB_REVERT: both queues as they were at boot; the waves are not part of *)
(* the snapshot.                                                           *)
HubRevert ==
  /\ promotionQueue' = <<>> /\ workQueue' = <<>>
  /\ UNCHANGED <<waves, evidence>>

HNext ==
  \/ \E p \in Patch, stage \in Stage : AskPatch(p, stage)
  \/ \E m \in HubModule, stage \in ModuleStage, pid \in BOOLEAN : AskModule(m, stage, pid)
  \/ \E mood \in Mood : \E order \in Rankings(mood) : ProcessQueue(order, mood)
  \/ \E a \in Artifact : CompleteEvidence(a)
  \/ \E w \in DOMAIN waves : CompleteWave(w)
  \/ \E w \in DOMAIN waves, old \in BOOLEAN : \E advice \in Advice(w, old) :
       Surface(w, old, advice)
  \/ Resolve
  \/ HubRevert

HSpec == HInit /\ [][HNext]_hvars
-----------------------------------------------------------------------------
(* Two open waves never share an artifact key: one artifact is not handed  *)
(* to two reviewers (_select_hub_review_wave leaves out                    *)
(* _open_review_wave_artifact_keys, by the key of the row and not of the   *)
(* request).                                                               *)
NoParallelReview ==
  \A v, w \in DOMAIN waves :
    v # w /\ waves[v].status = "open" /\ waves[w].status = "open"
    => waves[v].items \cap waves[w].items = {}

(* A queue is at its limit, or the tasks would not all fit if each request *)
(* became one: something may have been forgotten.                          *)
CutNow == \/ Len(promotionQueue') = QueueCap \/ Len(workQueue') = QueueCap
          \/ Len(workQueue) + Len(promotionQueue) > QueueCap + 1

Pending(a) ==
  \/ \E i \in DOMAIN promotionQueue : promotionQueue[i].art = a
  \/ \E i \in DOMAIN workQueue : /\ workQueue[i].kind = "promotion_evidence"
                                 /\ workQueue[i].art = a

(* A request leaves the two queues through a review wave only, unless a    *)
(* queue is full or the operator reverts the hub: on its way from the      *)
(* promotion queue to an evidence task and back, through merges,           *)
(* cooldowns and resolutions, process_hub_promotion_queue and              *)
(* complete_hub_evidence_task lose no artifact.                            *)
LeavesThroughWave ==
  [][\A a \in Artifact :
       Pending(a) /\ ~Pending(a)' =>
         \/ Len(waves') > Len(waves) /\ a \in ArtsOf(waves'[Len(waves')])
         \/ CutNow
         \/ promotionQueue' = <<>> /\ workQueue' = <<>> /\ waves' = waves]_hvars

(* "The key for a given artifact is the same regardless of when in the     *)
(* lifecycle proposal_id becomes known" (artifact_dedup_key): a module     *)
(* asked for one stage has at most one request in the queue.               *)
OneEntryPerModule ==
  \A i, j \in DOMAIN promotionQueue :
    /\ promotionQueue[i].art \in HubModule
    /\ promotionQueue[i].art = promotionQueue[j].art
    /\ promotionQueue[i].stage = promotionQueue[j].stage
    => i = j
=============================================================================
