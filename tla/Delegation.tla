----------------------------- MODULE Delegation -----------------------------
(***************************************************************************)
(* Delegation of goals to subkernels: the choice of a target and the       *)
(* handlers of kernel/kernel.py, the leases of tasks/delegation.py, the    *)
(* jobs of tasks/distributed_queue.py, the trust ledger of                 *)
(* cluster/trust.py and the worker budgets of tools/budgets.py.            *)
(*                                                                         *)
(* Subkernels are numbered in the order they are spawned, as their         *)
(* identifiers are, and delegations in the order they are made; one        *)
(* delegation makes one lease and one job.  All of it is kept in the       *)
(* ecology file, which every handler writes last; the write may fail,      *)
(* which is only logged, and the process may end between two handlers.     *)
(***************************************************************************)
EXTENDS Integers, FiniteSets, Sequences

CONSTANTS
  Specialization, \* what a goal, or a subkernel, is about
  ParentTrust,    \* levels the parent of a subkernel may hold, as scores
  Capacity,       \* max_active_leases of the subkernel profile (3)
  Quota,          \* safe_autonomous tool calls of a subkernel (10)
  Severity,       \* the severities of an outcome
  DiskFails,      \* whether a write of the ecology file may fail
  MaxFleet,       \* bound: subkernels spawned
  MaxGoals        \* bound: goals delegated

Worker == 1..MaxFleet
Goal   == 1..MaxGoals
Level  == 0..4      \* untrusted, low, provisional, trusted, sovereign

ASSUME DelegationAssumption ==
  /\ ParentTrust \subseteq Level
  /\ Capacity \in Nat \ {0} /\ Quota \in Nat
  /\ Severity \subseteq {"minor", "normal", "high"} /\ DiskFails \in BOOLEAN
  /\ MaxFleet \in Nat /\ MaxGoals \in Nat

Lifecycle == {"born", "experimental", "degraded"}
Closed(record, success) ==
  [status |-> IF success THEN "completed" ELSE "failed", target |-> record.target]

VARIABLES
  fleet,     \* specializations of the subkernels, in the order of spawning
  life,      \* lifecycle of each
  trust,     \* trust score of each in the ledger, and its baseline
  cooling,   \* those whose cooldown_until lies in the future
  used,      \* safe_autonomous calls each has spent
  pending,   \* pending_goals of each: the goals it was handed
  lease,     \* DelegationManager.leases: status and target
  job,       \* DistributedQueue.records: status and target
  disk       \* the ecology file

memory == <<fleet, life, trust, cooling, used, pending, lease, job>>
dvars  == <<memory, disk>>
-----------------------------------------------------------------------------
Records(statuses) == UNION {[1..n -> [status : statuses, target : Worker]] : n \in 0..MaxGoals}
LeaseRecords == Records({"active", "completed", "failed"})
JobRecords   == Records({"assigned", "completed", "failed"})

Snapshot == [fleet : UNION {[1..n -> Specialization] : n \in 0..MaxFleet},
             life : [Worker -> Lifecycle], trust : [Worker -> [level : Level, base : Level]],
             cooling : SUBSET Worker, used : [Worker -> 0..Quota],
             pending : [Worker -> SUBSET Goal],
             lease : LeaseRecords, job : JobRecords]

SnapshotOf(f, li, tr, co, us, pe, le, jo) ==
  [fleet |-> f, life |-> li, trust |-> tr, cooling |-> co, used |-> us,
   pending |-> pe, lease |-> le, job |-> jo]

DTypeOK ==
  /\ SnapshotOf(fleet, life, trust, cooling, used, pending, lease, job) \in Snapshot
  /\ disk \in Snapshot

DInit ==
  /\ fleet = <<>>
  /\ life = [k \in Worker |-> "born"]
  /\ trust = [k \in Worker |-> [level |-> 0, base |-> 0]]
  /\ cooling = {} /\ used = [k \in Worker |-> 0] /\ pending = [k \in Worker |-> {}]
  /\ lease = <<>> /\ job = <<>>
  /\ disk = SnapshotOf(fleet, life, trust, cooling, used, pending, lease, job)

(* _save_kernel_ecology_state, the last thing a handler does.              *)
Save ==
  \/ disk' = SnapshotOf(fleet', life', trust', cooling', used', pending', lease', job')
  \/ DiskFails /\ UNCHANGED disk
-----------------------------------------------------------------------------
(* The trust ledger.                                                       *)

Clamp(n) == IF n < 0 THEN 0 ELSE IF n > 4 THEN 4 ELSE n

(* ClusterTrustLedger.record_outcome                                       *)
Delta(success, severity) ==
  CASE severity = "high"   -> IF success THEN 2 ELSE -2
    [] severity = "minor"  -> IF success THEN 1 ELSE 0
    [] severity = "normal" -> IF success THEN 1 ELSE -1

(* Variant: the score is not clamped.                                      *)
MovedFreely(t, success, severity) ==
  LET new == t.level + Delta(success, severity) IN
  [t EXCEPT !.level = IF success /\ new < t.base THEN new + 1 ELSE new]

Moved(t, success, severity) ==
  LET new == Clamp(t.level + Delta(success, severity)) IN
  [t EXCEPT !.level = IF success /\ new < t.base THEN new + 1 ELSE new]
-----------------------------------------------------------------------------
(* The choice of a target.                                                 *)

Spawned       == DOMAIN fleet
ActiveOf(ls, k) == Cardinality({g \in DOMAIN ls : ls[g].status = "active" /\ ls[g].target = k})
Specialists(s) == {k \in Spawned : fleet[k] = s}
Candidates(s) == IF Specialists(s) = {} THEN Spawned ELSE Specialists(s)

(* Variant: a worker at its limit may take one more.                       *)
EligibleAtLimit(s, required) ==
  {k \in Candidates(s) : /\ trust[k].level >= required
                         /\ ActiveOf(lease, k) <= Capacity
                         /\ k \notin cooling}

Eligible(s, required) ==
  {k \in Candidates(s) : /\ trust[k].level >= required
                         /\ ActiveOf(lease, k) < Capacity
                         /\ k \notin cooling}

(* _choose_delegation_target: the most trusted; the metrics that break the *)
(* tie are left open.                                                      *)
Chosen(s, required) ==
  {k \in Eligible(s, required) :
     \A other \in Eligible(s, required) : trust[other].level <= trust[k].level}
-----------------------------------------------------------------------------
(* _spawn_subkernel: the child takes over the trust of its parent.         *)
Join(s, base) ==
  /\ Len(fleet) < MaxFleet
  /\ fleet' = Append(fleet, s)
  /\ trust' = [trust EXCEPT ![Len(fleet) + 1] = [level |-> base, base |-> base]]

Spawn(s, base) ==
  /\ Join(s, base)
  /\ UNCHANGED <<life, cooling, used, pending, lease, job>>
  /\ Save

(* DelegationManager.issue, and DistributedQueue.enqueue with assign.      *)
Issued(k)   == Append(lease, [status |-> "active", target |-> k])
Assigned(k) == Append(job, [status |-> "assigned", target |-> k])

(* _delegate_task_to_subkernel, once it has a target: the job is queued,   *)
(* the lease issued, the job assigned and the goal handed over.            *)
Hand(k) ==
  LET g == Len(lease) + 1 IN
  /\ g \in Goal
  /\ lease' = Issued(k)
  /\ job' = Assigned(k)
  /\ pending' = [pending EXCEPT ![k] = @ \cup {g}]
  /\ life' = [life EXCEPT ![k] = "experimental"]
  /\ UNCHANGED <<cooling, used>>

Delegate(s, required) ==
  /\ \E k \in Chosen(s, required) : Hand(k)
  /\ UNCHANGED <<fleet, trust>>
  /\ Save

(* Nobody is eligible: a subkernel is spawned for the goal, whatever trust *)
(* the goal requires.  The ecology is saved after the spawning too.        *)
DelegateSpawning(s, required, base) ==
  /\ Eligible(s, required) = {}
  /\ Join(s, base)
  /\ Hand(Len(fleet) + 1)
  /\ \/ Save
     \/ disk' = SnapshotOf(fleet', life, trust', cooling, used, pending, lease, job)

(* Variant: a second outcome reaches the lease, but not the closed job.    *)
OutcomeJobOnce(g, success, severity) ==
  LET k == lease[g].target IN
  /\ lease' = [lease EXCEPT ![g] = Closed(@, success)]
  /\ job' = IF job[g].status = "assigned"
            THEN [job EXCEPT ![g] = Closed(@, success)] ELSE job
  /\ trust' = [trust EXCEPT ![k] = Moved(@, success, severity)]
  /\ UNCHANGED <<fleet, life, cooling, used, pending>>
  /\ Save

(* record_delegation_outcome, whatever was recorded for the lease before.  *)
Outcome(g, success, severity) ==
  LET k == lease[g].target IN
  /\ lease' = [lease EXCEPT ![g] = Closed(@, success)]
  /\ job' = [job EXCEPT ![g] = Closed(@, success)]
  /\ trust' = [trust EXCEPT ![k] = Moved(@, success, severity)]
  /\ cooling' = IF success THEN cooling \ {k} ELSE cooling
  /\ used' = IF success /\ used[k] > 0 THEN [used EXCEPT ![k] = @ - 1] ELSE used
  /\ life' = IF success /\ life[k] = "degraded"
             THEN [life EXCEPT ![k] = "experimental"]
             ELSE IF ~success /\ severity = "high"
                  THEN [life EXCEPT ![k] = "degraded"] ELSE life
  /\ UNCHANGED <<fleet, pending>>
  /\ Save

(* The review of a module or of a promotion request of a subkernel moves   *)
(* its trust too; a rejection puts it on cooldown.  Only the acceptance of *)
(* a module ends a cooldown.                                               *)
Judged(k, artifact, success, severity) ==
  /\ trust' = [trust EXCEPT ![k] = Moved(@, success, severity)]
  /\ cooling' = IF ~success THEN cooling \cup {k}
                ELSE IF artifact = "module" THEN cooling \ {k} ELSE cooling
  /\ UNCHANGED <<fleet, life, used, pending, lease, job>>
  /\ Save

CoolOver(k) ==
  /\ k \in cooling
  /\ cooling' = cooling \ {k}
  /\ UNCHANGED <<fleet, life, trust, used, pending, lease, job, disk>>

(* A granted TOOL_REQUEST for a tool a subkernel may use.                  *)
ToolRequest(k) ==
  /\ ActiveOf(lease, k) < Capacity
  /\ used[k] + 1 <= Quota
  /\ used' = [used EXCEPT ![k] = @ + 1]
  /\ UNCHANGED <<fleet, life, trust, cooling, pending, lease, job>>
  /\ Save

(* record_blocked_growth and its packet.                                   *)
BlockedGrowth(k) ==
  /\ life' = [life EXCEPT ![k] = "degraded"]
  /\ UNCHANGED <<fleet, trust, cooling, used, pending, lease, job>>
  /\ Save

(* Variant: the goals are not read back.                                   *)
RestartDropsGoals ==
  /\ fleet' = disk.fleet /\ life' = disk.life /\ trust' = disk.trust
  /\ cooling' = disk.cooling /\ used' = disk.used /\ pending' = [k \in Worker |-> {}]
  /\ lease' = disk.lease /\ job' = disk.job
  /\ UNCHANGED disk

(* Variant: what failed before the restart is tried again.                 *)
TriedAgain(s, again) ==
  [g \in DOMAIN s |-> IF s[g].status = "failed" THEN [s[g] EXCEPT !.status = again] ELSE s[g]]
RestartRetrying ==
  /\ fleet' = disk.fleet /\ life' = disk.life /\ trust' = disk.trust
  /\ cooling' = disk.cooling /\ used' = disk.used /\ pending' = disk.pending
  /\ lease' = TriedAgain(disk.lease, "active") /\ job' = TriedAgain(disk.job, "assigned")
  /\ UNCHANGED disk

(* The process ends and _load_kernel_ecology_state reads the file back.    *)
Restart ==
  /\ fleet' = disk.fleet /\ life' = disk.life /\ trust' = disk.trust
  /\ cooling' = disk.cooling /\ used' = disk.used /\ pending' = disk.pending
  /\ lease' = disk.lease /\ job' = disk.job
  /\ UNCHANGED disk

GoalStep ==
  \E s \in Specialization, base \in ParentTrust :
    \/ Spawn(s, base)
    \/ \E required \in Level : Delegate(s, required) \/ DelegateSpawning(s, required, base)

WorkerStep ==
  \E k \in Spawned :
    \/ \E artifact \in {"module", "patch"}, success \in BOOLEAN, severity \in Severity :
         Judged(k, artifact, success, severity)
    \/ CoolOver(k) \/ ToolRequest(k) \/ BlockedGrowth(k)

OutcomeStep ==
  \E g \in DOMAIN lease, success \in BOOLEAN, severity \in Severity :
    Outcome(g, success, severity)

DNext == GoalStep \/ WorkerStep \/ OutcomeStep \/ Restart

DSpec == DInit /\ [][DNext]_dvars
-----------------------------------------------------------------------------
(* Properties.                                                             *)

(* No worker holds more leases than its role allows: not through outcomes  *)
(* reported twice or late, not through a restart with an old file.         *)
CapacityKept == \A k \in Worker : ActiveOf(lease, k) <= Capacity

(* The lease manager and the queue tell the same story of every goal, in   *)
(* memory and after any restart: same worker, and a lease is active,       *)
(* completed or failed exactly when its job is.                            *)
Agree(ls, js) ==
  /\ DOMAIN ls = DOMAIN js
  /\ \A g \in DOMAIN ls :
       /\ ls[g].target = js[g].target
       /\ <<ls[g].status, js[g].status>> \in
            {<<"active", "assigned">>, <<"completed", "completed">>, <<"failed", "failed">>}

LeaseJobAgree == Agree(lease, job)

(* A goal under an active lease has been handed to a worker that exists,   *)
(* and that worker still holds it, restarts included.                      *)
Held(ls, fl, pe) ==
  \A g \in DOMAIN ls : ls[g].status = "active" =>
    ls[g].target \in DOMAIN fl /\ g \in pe[ls[g].target]

GoalHeld == Held(lease, fleet, pending)

(* What the queue calls assigned is what the leases call active.           *)
AsLease(r)  == [r EXCEPT !.status = IF @ = "assigned" THEN "active" ELSE @]
AsLeases(s) == [g \in DOMAIN s |-> AsLease(s[g])]

(* Both the lease manager and the queue keep the ledger of WorkLedger,     *)
(* whatever outcomes come late or twice and whatever file a restart finds. *)
Leases == INSTANCE WorkLedger WITH ledger <- lease, copy <- disk.lease
Jobs   == INSTANCE WorkLedger WITH ledger <- AsLeases(job), copy <- AsLeases(disk.job)
LedgerSpec == Leases!LSpec /\ Jobs!LSpec
=============================================================================
