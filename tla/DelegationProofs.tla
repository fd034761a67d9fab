-------------------------- MODULE DelegationProofs --------------------------
(***************************************************************************)
(* Theorems about delegation, for every number of workers and goals, every *)
(* capacity, and whether or not the ecology file can be written.           *)
(***************************************************************************)
EXTENDS Delegation, FiniteSetTheorems, SequenceTheorems, TLAPS

LeaseRecord == [status : {"active", "completed", "failed"}, target : Worker]
JobRecord   == [status : {"assigned", "completed", "failed"}, target : Worker]

(* What holds of leases, jobs, workers and their goals, in memory and in   *)
(* the file: the three properties, and what they need to be inductive.     *)
Books(ls, js, fl, pe) ==
  /\ ls \in Seq(LeaseRecord) /\ js \in Seq(JobRecord)
  /\ fl \in Seq(Specialization) /\ Len(fl) <= MaxFleet
  /\ pe \in [Worker -> SUBSET Goal]
  /\ Agree(ls, js)
  /\ \A k \in Worker : ActiveOf(ls, k) <= Capacity
  /\ Held(ls, fl, pe)

MemoryBooks == Books(lease, job, fleet, pending)
DiskBooks   == Books(disk.lease, disk.job, disk.fleet, disk.pending)

(* The goals of a worker under an active lease.                            *)
ActiveGoals(ls, k) == {g \in DOMAIN ls : ls[g].status = "active" /\ ls[g].target = k}

(* Two intervals from 1 are equal only when they end alike.                *)
LEMMA SameLength ==
  ASSUME NEW m \in Nat, NEW n \in Nat, 1..m = 1..n
  PROVE  m = n
<1>1. CASE m < n
  BY <1>1, n \in 1..n, n \notin 1..m
<1>2. CASE n < m
  BY <1>2, m \in 1..m, m \notin 1..n
<1> QED BY <1>1, <1>2

(* The active goals of a worker can be counted.                            *)
LEMMA ActiveFinite ==
  ASSUME NEW ls \in Seq(LeaseRecord), NEW k
  PROVE  IsFiniteSet(ActiveGoals(ls, k)) /\ ActiveOf(ls, k) \in Nat
<1>1. IsFiniteSet(DOMAIN ls)
  BY FS_Interval, DOMAIN ls = 1..Len(ls), Len(ls) \in Nat
<1>2. IsFiniteSet(ActiveGoals(ls, k))
  BY <1>1, FS_Subset DEF ActiveGoals
<1>3. ActiveOf(ls, k) = Cardinality(ActiveGoals(ls, k))
  BY DEF ActiveOf, ActiveGoals
<1> QED BY <1>2, <1>3, FS_CardinalityType

(* Closing a lease, again or for the first time, frees a place or none.    *)
LEMMA ClosingFrees ==
  ASSUME NEW ls \in Seq(LeaseRecord), NEW g \in DOMAIN ls, NEW success \in BOOLEAN, NEW k
  PROVE  LET new == [ls EXCEPT ![g] = Closed(@, success)] IN
         /\ new \in Seq(LeaseRecord) /\ DOMAIN new = DOMAIN ls
         /\ ActiveOf(new, k) <= ActiveOf(ls, k)
<1> DEFINE rec == Closed(ls[g], success)
           new == [ls EXCEPT ![g] = rec]
<1>1. new \in Seq(LeaseRecord) /\ DOMAIN new = DOMAIN ls
  <2>1. g \in 1..Len(ls) /\ ls[g] \in LeaseRecord
    BY LenProperties, ElementOfSeq
  <2>2. rec \in LeaseRecord
    BY <2>1 DEF LeaseRecord, Closed
  <2> QED BY <2>1, <2>2, ExceptSeq, LenProperties
<1>2. ActiveGoals(new, k) \subseteq ActiveGoals(ls, k)
  BY <1>1 DEF ActiveGoals, Closed
<1>3. Cardinality(ActiveGoals(new, k)) <= Cardinality(ActiveGoals(ls, k))
  BY <1>2, ActiveFinite, FS_Subset
<1> QED BY <1>1, <1>3 DEF ActiveOf, ActiveGoals

(* A new lease takes one place of its target, and none of anybody else.    *)
LEMMA IssuingTakesOne ==
  ASSUME NEW ls \in Seq(LeaseRecord), NEW w \in Worker, NEW k \in Worker
  PROVE  LET new == Append(ls, [status |-> "active", target |-> w]) IN
         /\ new \in Seq(LeaseRecord)
         /\ k # w => ActiveOf(new, k) = ActiveOf(ls, k)
         /\ k = w => ActiveOf(new, k) = ActiveOf(ls, k) + 1
<1> DEFINE new == Append(ls, [status |-> "active", target |-> w])
           n   == Len(ls) + 1
<1>1. /\ new \in Seq(LeaseRecord) /\ Len(ls) \in Nat
      /\ DOMAIN new = 1..n /\ DOMAIN ls = 1..Len(ls)
      /\ new[n] = [status |-> "active", target |-> w]
      /\ \A g \in 1..Len(ls) : new[g] = ls[g]
  BY DEF LeaseRecord
<1> HIDE DEF new
<1>2. CASE k # w
  <2>1. ActiveGoals(new, k) = ActiveGoals(ls, k)
    BY <1>1, <1>2 DEF ActiveGoals
  <2> QED BY <1>1, <1>2, <2>1 DEF ActiveOf, ActiveGoals, new
<1>3. CASE k = w
  <2>1. ActiveGoals(new, k) = ActiveGoals(ls, k) \cup {n} /\ n \notin ActiveGoals(ls, k)
    BY <1>1, <1>3 DEF ActiveGoals
  <2>2. Cardinality(ActiveGoals(new, k)) = Cardinality(ActiveGoals(ls, k)) + 1
    BY <2>1, ActiveFinite, FS_AddElement
  <2> QED BY <1>1, <1>3, <2>2 DEF ActiveOf, ActiveGoals, new
<1> QED BY <1>2, <1>3
-----------------------------------------------------------------------------
(* An empty fleet keeps good books, in memory and on disk.                 *)
LEMMA BooksInit == DInit => MemoryBooks /\ DiskBooks
<1> SUFFICES ASSUME DInit PROVE MemoryBooks /\ DiskBooks
  OBVIOUS
<1>1. ASSUME NEW k PROVE ActiveOf(<<>>, k) = 0
  <2>1. {g \in DOMAIN <<>> : <<>>[g].status = "active" /\ <<>>[g].target = k} = {}
    OBVIOUS
  <2> QED BY <2>1, FS_EmptySet DEF ActiveOf
<1>2. MemoryBooks
  BY <1>1, DelegationAssumption DEF DInit, MemoryBooks, Books, Agree, Held, Worker, Goal
<1>3. /\ disk.lease = lease /\ disk.job = job
      /\ disk.fleet = fleet /\ disk.pending = pending
  BY DEF DInit, SnapshotOf
<1> QED BY <1>2, <1>3 DEF MemoryBooks, DiskBooks

(* Whether or not the write succeeds, the file holds good books.           *)
LEMMA SaveKeeps ==
  ASSUME MemoryBooks', DiskBooks, Save
  PROVE  DiskBooks'
<1>1. CASE disk' = SnapshotOf(fleet', life', trust', cooling', used', pending', lease', job')
  <2>1. /\ disk'.lease = lease' /\ disk'.job = job'
        /\ disk'.fleet = fleet' /\ disk'.pending = pending'
    BY <1>1 DEF SnapshotOf
  <2> QED BY <2>1 DEF MemoryBooks, DiskBooks
<1>2. CASE UNCHANGED disk
  BY <1>2 DEF DiskBooks
<1> QED BY <1>1, <1>2 DEF Save

(* A worker that joins takes no goal away from the others.                 *)
LEMMA JoinKeeps ==
  ASSUME MemoryBooks, NEW s \in Specialization, NEW base, Join(s, base)
  PROVE  /\ Books(lease, job, fleet', pending)
         /\ DOMAIN fleet' = 1..(Len(fleet) + 1)
         /\ Len(fleet) + 1 \in Worker
<1>1. fleet \in Seq(Specialization) /\ fleet' = Append(fleet, s) /\ Len(fleet) < MaxFleet
  BY DEF MemoryBooks, Books, Join
<1>2. /\ fleet' \in Seq(Specialization) /\ Len(fleet) \in Nat
      /\ Len(fleet') = Len(fleet) + 1
      /\ DOMAIN fleet' = 1..(Len(fleet) + 1) /\ DOMAIN fleet = 1..Len(fleet)
  BY <1>1, AppendProperties, LenProperties
<1>3. Held(lease, fleet', pending)
  BY <1>2 DEF MemoryBooks, Books, Held
<1> QED BY <1>1, <1>2, <1>3, DelegationAssumption DEF MemoryBooks, Books, Worker

(* Handing a goal to a worker with a free place keeps the books.           *)
LEMMA HandKeeps ==
  ASSUME NEW fl, Books(lease, job, fl, pending), NEW k \in Worker, k \in DOMAIN fl,
         ActiveOf(lease, k) < Capacity, Hand(k)
  PROVE  Books(lease', job', fl, pending')
<1> DEFINE g == Len(lease) + 1
<1>1. /\ lease \in Seq(LeaseRecord) /\ job \in Seq(JobRecord) /\ g \in Goal
      /\ lease' = Append(lease, [status |-> "active", target |-> k])
      /\ job' = Append(job, [status |-> "assigned", target |-> k])
      /\ pending' = [pending EXCEPT ![k] = @ \cup {g}]
  BY DEF Hand, Issued, Assigned, Books
<1>2. /\ [status |-> "active", target |-> k] \in LeaseRecord
      /\ [status |-> "assigned", target |-> k] \in JobRecord
  BY DEF LeaseRecord, JobRecord
<1>3. /\ lease' \in Seq(LeaseRecord) /\ job' \in Seq(JobRecord)
      /\ DOMAIN lease = 1..Len(lease) /\ DOMAIN job = 1..Len(job)
      /\ DOMAIN lease' = 1..g /\ DOMAIN job' = 1..(Len(job) + 1)
      /\ Len(lease) \in Nat /\ Len(job) \in Nat
      /\ lease'[g] = [status |-> "active", target |-> k]
      /\ job'[Len(job) + 1] = [status |-> "assigned", target |-> k]
      /\ \A i \in 1..Len(lease) : lease'[i] = lease[i]
      /\ \A i \in 1..Len(job) : job'[i] = job[i]
  BY <1>1, <1>2, AppendProperties, LenProperties
<1>4. pending' \in [Worker -> SUBSET Goal]
  BY <1>1 DEF Books
<1>5. Agree(lease', job')
  <2>1. Len(job) = Len(lease)
    BY <1>3, SameLength DEF Books, Agree
  <2> QED BY <1>3, <2>1 DEF Books, Agree
<1>6. \A w \in Worker : ActiveOf(lease', w) <= Capacity
  <2> SUFFICES ASSUME NEW w \in Worker PROVE ActiveOf(lease', w) <= Capacity
    OBVIOUS
  <2>1. /\ ActiveOf(lease, w) \in Nat /\ ActiveOf(lease, w) <= Capacity
        /\ ActiveOf(lease, k) \in Nat /\ Capacity \in Nat
    BY <1>1, ActiveFinite, DelegationAssumption DEF Books
  <2>2. /\ w # k => ActiveOf(lease', w) = ActiveOf(lease, w)
        /\ w = k => ActiveOf(lease', w) = ActiveOf(lease, w) + 1
    BY <1>1, IssuingTakesOne
  <2> QED BY <2>1, <2>2
<1>7. Held(lease', fl, pending')
  <2> SUFFICES ASSUME NEW i \in DOMAIN lease', lease'[i].status = "active"
               PROVE  lease'[i].target \in DOMAIN fl /\ i \in pending'[lease'[i].target]
    BY DEF Held
  <2>1. CASE i = g
    BY <2>1, <1>1, <1>3 DEF Books
  <2>2. CASE i # g
    <3>1. i \in DOMAIN lease /\ lease'[i] = lease[i] /\ lease[i].target \in Worker
      <4>1. i \in 1..Len(lease)
        BY <2>2, <1>3
      <4>2. lease[i] \in LeaseRecord
        BY <1>1, <4>1, ElementOfSeq
      <4> QED BY <1>3, <4>1, <4>2 DEF LeaseRecord
    <3> QED BY <3>1, <1>1 DEF Books, Held
  <2> QED BY <2>1, <2>2
<1> QED BY <1>3, <1>4, <1>5, <1>6, <1>7 DEF Books

(* An outcome, first or repeated, keeps the books.                         *)
LEMMA OutcomeKeeps ==
  ASSUME MemoryBooks, NEW g \in DOMAIN lease, NEW success \in BOOLEAN, NEW severity,
         Outcome(g, success, severity)
  PROVE  MemoryBooks'
<1>1. /\ lease \in Seq(LeaseRecord) /\ job \in Seq(JobRecord)
      /\ DOMAIN job = DOMAIN lease
      /\ lease' = [lease EXCEPT ![g] = Closed(lease[g], success)]
      /\ job' = [job EXCEPT ![g] = Closed(job[g], success)]
      /\ fleet' = fleet /\ pending' = pending
  BY DEF MemoryBooks, Books, Agree, Outcome
<1>2. /\ lease' \in Seq(LeaseRecord) /\ DOMAIN lease' = DOMAIN lease
      /\ \A k \in Worker : ActiveOf(lease', k) <= ActiveOf(lease, k)
      /\ \A k \in Worker : ActiveOf(lease', k) \in Nat /\ ActiveOf(lease, k) \in Nat
  BY <1>1, ClosingFrees, ActiveFinite
<1>3. job' \in Seq(JobRecord) /\ DOMAIN job' = DOMAIN job
  <2>1. g \in 1..Len(job) /\ job[g] \in JobRecord
    BY <1>1, LenProperties, ElementOfSeq
  <2>2. Closed(job[g], success) \in JobRecord
    BY <2>1 DEF JobRecord, Closed
  <2> QED BY <1>1, <2>1, <2>2, ExceptSeq, LenProperties
<1>4. Agree(lease', job')
  BY <1>1, <1>2, <1>3 DEF MemoryBooks, Books, Agree, Closed
<1>5. Held(lease', fleet', pending')
  BY <1>1, <1>2 DEF MemoryBooks, Books, Held, Closed
<1>6. \A k \in Worker : ActiveOf(lease', k) <= Capacity
  BY <1>2, DelegationAssumption DEF MemoryBooks, Books
<1> QED BY <1>1, <1>2, <1>3, <1>4, <1>5, <1>6 DEF MemoryBooks, Books

(* Every handler, and a restart, keeps the books of memory and disk good.  *)
LEMMA BooksStep ==
  ASSUME MemoryBooks, DiskBooks, [DNext]_dvars
  PROVE  MemoryBooks' /\ DiskBooks'
<1> USE DEF MemoryBooks
<1>1. ASSUME NEW s \in Specialization, NEW base \in ParentTrust, Spawn(s, base)
      PROVE  MemoryBooks' /\ DiskBooks'
  <2>1. MemoryBooks'
    BY <1>1, JoinKeeps DEF Spawn
  <2> QED BY <1>1, <2>1, SaveKeeps DEF Spawn
<1>2. ASSUME NEW s \in Specialization, NEW required \in Level, Delegate(s, required)
      PROVE  MemoryBooks' /\ DiskBooks'
  <2>1. PICK k \in Chosen(s, required) : Hand(k)
    BY <1>2 DEF Delegate
  <2>2. k \in Worker /\ k \in DOMAIN fleet /\ ActiveOf(lease, k) < Capacity
    <3>1. DOMAIN fleet = 1..Len(fleet) /\ Len(fleet) \in Nat /\ Len(fleet) <= MaxFleet
      BY LenProperties DEF Books
    <3> QED BY <2>1, <3>1, DelegationAssumption
            DEF Chosen, Eligible, Candidates, Specialists, Spawned, Worker
  <2>3. MemoryBooks'
    BY <1>2, <2>1, <2>2, HandKeeps DEF Delegate
  <2> QED BY <1>2, <2>3, SaveKeeps DEF Delegate
<1>3. ASSUME NEW s \in Specialization, NEW required \in Level, NEW base \in ParentTrust,
             DelegateSpawning(s, required, base)
      PROVE  MemoryBooks' /\ DiskBooks'
  <2> DEFINE k == Len(fleet) + 1
  <2>1. /\ Books(lease, job, fleet', pending)
        /\ DOMAIN fleet' = 1..k /\ k \in Worker
    BY <1>3, JoinKeeps DEF DelegateSpawning
  <2>2. ActiveOf(lease, k) < Capacity
    <3>1. ActiveGoals(lease, k) = {}
      <4>1. DOMAIN fleet = 1..Len(fleet) /\ Len(fleet) \in Nat
        BY LenProperties DEF Books
      <4> QED BY <4>1 DEF ActiveGoals, Books, Held
    <3>2. ActiveOf(lease, k) = 0
      BY <3>1, FS_EmptySet DEF ActiveOf, ActiveGoals
    <3> QED BY <3>2, DelegationAssumption
  <2>3. MemoryBooks'
    <3>1. Hand(k) /\ k \in DOMAIN fleet'
      BY <1>3, <2>1 DEF DelegateSpawning, Worker
    <3> QED BY <2>1, <2>2, <3>1, HandKeeps
  <2>4. CASE Save
    BY <2>3, <2>4, SaveKeeps
  <2>5. CASE disk' = SnapshotOf(fleet', life, trust', cooling, used, pending, lease, job)
    <3>1. /\ disk'.lease = lease /\ disk'.job = job
          /\ disk'.fleet = fleet' /\ disk'.pending = pending
      BY <2>5 DEF SnapshotOf
    <3> QED BY <2>1, <2>3, <3>1 DEF DiskBooks
  <2> QED BY <1>3, <2>4, <2>5 DEF DelegateSpawning
<1>4. ASSUME NEW k \in Spawned, WorkerStep PROVE MemoryBooks' /\ DiskBooks'
  <2>1. /\ UNCHANGED <<fleet, pending, lease, job>>
        /\ Save \/ UNCHANGED disk
    BY <1>4 DEF WorkerStep, Judged, CoolOver, ToolRequest, BlockedGrowth
  <2>2. MemoryBooks'
    BY <2>1
  <2> QED BY <2>1, <2>2, SaveKeeps DEF DiskBooks
<1>5. ASSUME NEW g \in DOMAIN lease, NEW success \in BOOLEAN, NEW severity \in Severity,
             Outcome(g, success, severity)
      PROVE  MemoryBooks' /\ DiskBooks'
  <2>1. MemoryBooks'
    BY <1>5, OutcomeKeeps
  <2> QED BY <1>5, <2>1, SaveKeeps DEF Outcome
<1>6. ASSUME Restart PROVE MemoryBooks' /\ DiskBooks'
  BY <1>6 DEF Restart, DiskBooks
<1>7. CASE UNCHANGED dvars
  BY <1>7 DEF dvars, memory, DiskBooks
<1> QED
  BY <1>1, <1>2, <1>3, <1>4, <1>5, <1>6, <1>7 DEF DNext, GoalStep, OutcomeStep, WorkerStep

(* The books are always good.                                              *)
LEMMA BooksAlways == DSpec => [](MemoryBooks /\ DiskBooks)
<1>1. MemoryBooks /\ DiskBooks /\ [DNext]_dvars => (MemoryBooks /\ DiskBooks)'
  BY BooksStep
<1> QED BY BooksInit, <1>1, PTL DEF DSpec

(* No worker ever holds more leases than its role allows.                  *)
THEOREM NoWorkerOverloaded == DSpec => []CapacityKept
<1>1. MemoryBooks => CapacityKept
  BY DEF MemoryBooks, Books, CapacityKept
<1> QED BY BooksAlways, <1>1, PTL

(* The lease manager and the queue never disagree about a goal.            *)
THEOREM LedgersAgree == DSpec => []LeaseJobAgree
<1>1. MemoryBooks => LeaseJobAgree
  BY DEF MemoryBooks, Books, LeaseJobAgree
<1> QED BY BooksAlways, <1>1, PTL

(* A leased goal is always held by the worker it was leased to.            *)
THEOREM GoalsNeverDropped == DSpec => []GoalHeld
<1>1. MemoryBooks => GoalHeld
  BY DEF MemoryBooks, Books, GoalHeld
<1> QED BY BooksAlways, <1>1, PTL
-----------------------------------------------------------------------------
(* Types: what each worker stands at, and the bounds on goals.             *)
Staff(li, tr, co, us) ==
  /\ li \in [Worker -> Lifecycle] /\ tr \in [Worker -> [level : Level, base : Level]]
  /\ co \in SUBSET Worker /\ us \in [Worker -> 0..Quota]

StaffInv ==
  /\ Staff(life, trust, cooling, used) /\ Len(lease) <= MaxGoals
  /\ Staff(disk.life, disk.trust, disk.cooling, disk.used) /\ Len(disk.lease) <= MaxGoals
  /\ disk = SnapshotOf(disk.fleet, disk.life, disk.trust, disk.cooling, disk.used,
                       disk.pending, disk.lease, disk.job)

(* Trust stays on its scale: a success lifts it at most to the baseline.   *)
LEMMA MovedIs ==
  ASSUME NEW t \in [level : Level, base : Level], NEW success \in BOOLEAN,
         NEW severity \in Severity
  PROVE  Moved(t, success, severity) \in [level : Level, base : Level]
<1> DEFINE new == Clamp(t.level + Delta(success, severity))
           next == IF success /\ new < t.base THEN new + 1 ELSE new
<1>1. t.level \in 0..4 /\ t.base \in 0..4
  BY DEF Level
<1>2. Delta(success, severity) \in -2..2
  BY DelegationAssumption DEF Delta
<1>3. new \in 0..4
  BY <1>1, <1>2 DEF Clamp
<1> HIDE DEF new
<1>4. next \in 0..4
  BY <1>1, <1>3
<1>5. Moved(t, success, severity) = [t EXCEPT !.level = next]
  BY DEF Moved, new
<1> HIDE DEF next
<1> QED BY <1>4, <1>5 DEF Level

(* What is saved is as well typed as what is in memory.                    *)
LEMMA StaffSaved ==
  ASSUME StaffInv, Staff(life', trust', cooling', used'), Len(lease') <= MaxGoals,
         \/ Save
         \/ disk' = SnapshotOf(fleet', life, trust', cooling, used, pending, lease, job)
         \/ UNCHANGED disk
  PROVE  StaffInv'
<1>1. CASE disk' = SnapshotOf(fleet', life', trust', cooling', used', pending', lease', job')
  BY <1>1 DEF SnapshotOf, StaffInv
<1>2. CASE UNCHANGED disk
  BY <1>2 DEF StaffInv
<1>3. CASE disk' = SnapshotOf(fleet', life, trust', cooling, used, pending, lease, job)
  BY <1>3 DEF SnapshotOf, StaffInv, Staff
<1> QED BY <1>1, <1>2, <1>3 DEF Save

LEMMA StaffStep == MemoryBooks /\ StaffInv /\ [DNext]_dvars => StaffInv'
<1> SUFFICES ASSUME MemoryBooks, StaffInv, [DNext]_dvars PROVE StaffInv'
  OBVIOUS
<1>0. /\ Staff(life, trust, cooling, used) /\ Len(lease) <= MaxGoals /\ Quota \in Nat
      /\ MaxGoals \in Nat /\ MaxFleet \in Nat /\ ParentTrust \subseteq Level
      /\ lease \in Seq(LeaseRecord) /\ Len(lease) \in Nat
      /\ fleet \in Seq(Specialization) /\ Spawned \subseteq Worker
  <2>1. /\ fleet \in Seq(Specialization) /\ Len(fleet) <= MaxFleet /\ lease \in Seq(LeaseRecord)
        /\ MaxFleet \in Nat
    BY DelegationAssumption DEF MemoryBooks, Books
  <2>2. DOMAIN fleet = 1..Len(fleet) /\ Len(fleet) \in Nat /\ Len(lease) \in Nat
    BY <2>1, LenProperties
  <2>3. Spawned \subseteq Worker
    BY <2>1, <2>2 DEF Spawned, Worker
  <2> QED BY <2>1, <2>2, <2>3, DelegationAssumption DEF StaffInv
<1>1. ASSUME NEW s \in Specialization, NEW base \in ParentTrust, Join(s, base)
      PROVE  trust' \in [Worker -> [level : Level, base : Level]]
  BY <1>0, <1>1 DEF Join, Staff
<1>2. ASSUME NEW k, Hand(k)
      PROVE  /\ life' \in [Worker -> Lifecycle] /\ Len(lease') <= MaxGoals
             /\ cooling' = cooling /\ used' = used
  <2>1. lease' = Issued(k) /\ Len(lease) + 1 \in Goal
    BY <1>2 DEF Hand
  <2>2. Len(lease') = Len(lease) + 1
    BY <1>0, <2>1 DEF Issued
  <2>3. life' \in [Worker -> Lifecycle]
    BY <1>0, <1>2 DEF Hand, Staff, Lifecycle
  <2> QED BY <1>0, <1>2, <2>1, <2>2, <2>3 DEF Hand, Goal
<1>3. ASSUME NEW s \in Specialization, NEW base \in ParentTrust, Spawn(s, base) PROVE StaffInv'
  <2>1. Staff(life', trust', cooling', used') /\ Len(lease') <= MaxGoals
    BY <1>0, <1>1, <1>3 DEF Spawn, Staff
  <2> QED BY <1>3, <2>1, StaffSaved DEF Spawn
<1>4. ASSUME NEW s \in Specialization, NEW required \in Level, Delegate(s, required) PROVE StaffInv'
  <2>1. PICK k \in Chosen(s, required) : Hand(k)
    BY <1>4 DEF Delegate
  <2>2. Staff(life', trust', cooling', used') /\ Len(lease') <= MaxGoals
    BY <1>0, <1>2, <1>4, <2>1 DEF Delegate, Staff
  <2> QED BY <1>4, <2>2, StaffSaved DEF Delegate
<1>5. ASSUME NEW s \in Specialization, NEW required \in Level, NEW base \in ParentTrust,
             DelegateSpawning(s, required, base)
      PROVE  StaffInv'
  <2>1. Join(s, base) /\ Hand(Len(fleet) + 1)
    BY <1>5 DEF DelegateSpawning
  <2>2. Staff(life', trust', cooling', used') /\ Len(lease') <= MaxGoals
    BY <1>0, <1>1, <1>2, <2>1 DEF Staff
  <2> QED BY <1>5, <2>2, StaffSaved DEF DelegateSpawning
<1>6. ASSUME NEW k \in Spawned, NEW artifact, NEW success \in BOOLEAN, NEW severity \in Severity,
             Judged(k, artifact, success, severity)
      PROVE  StaffInv'
  <2>1. k \in Worker /\ trust[k] \in [level : Level, base : Level]
    BY <1>0 DEF Staff
  <2>2. Moved(trust[k], success, severity) \in [level : Level, base : Level]
    BY <2>1, MovedIs
  <2>3. trust' \in [Worker -> [level : Level, base : Level]]
    BY <1>0, <1>6, <2>2 DEF Judged, Staff
  <2>4. Staff(life', trust', cooling', used') /\ Len(lease') <= MaxGoals
    BY <1>0, <1>6, <2>1, <2>3 DEF Judged, Staff
  <2> QED BY <1>6, <2>4, StaffSaved DEF Judged
<1>7. ASSUME NEW k \in Spawned, CoolOver(k) \/ ToolRequest(k) \/ BlockedGrowth(k) PROVE StaffInv'
  <2>1. CASE CoolOver(k)
    BY <1>0, <2>1, StaffSaved DEF CoolOver, Staff
  <2>2. CASE ToolRequest(k)
    <3>1. used' \in [Worker -> 0..Quota]
      BY <1>0, <2>2 DEF ToolRequest, Staff
    <3> QED BY <1>0, <2>2, <3>1, StaffSaved DEF ToolRequest, Staff
  <2>3. CASE BlockedGrowth(k)
    <3>1. life' \in [Worker -> Lifecycle]
      BY <1>0, <2>3 DEF BlockedGrowth, Staff, Lifecycle
    <3> QED BY <1>0, <2>3, <3>1, StaffSaved DEF BlockedGrowth, Staff
  <2> QED BY <1>7, <2>1, <2>2, <2>3
<1>8. ASSUME NEW g \in DOMAIN lease, NEW success \in BOOLEAN, NEW severity \in Severity,
             Outcome(g, success, severity)
      PROVE  StaffInv'
  <2> DEFINE k == lease[g].target
  <2>1. k \in Worker
    <3>1. lease[g] \in LeaseRecord
      BY <1>0
    <3> QED BY <3>1 DEF LeaseRecord
  <2>2. trust' = [trust EXCEPT ![k] = Moved(@, success, severity)]
    BY <1>8 DEF Outcome
  <2>3. trust[k] \in [level : Level, base : Level] /\ life[k] \in Lifecycle /\ used[k] \in 0..Quota
    BY <1>0, <2>1 DEF Staff
  <2>4. Len(lease') = Len(lease)
    BY <1>0, <1>8 DEF Outcome
  <2>5. cooling' \in SUBSET Worker
    BY <1>0, <1>8 DEF Outcome, Staff
  <2>6. used' \in [Worker -> 0..Quota]
    <3>1. used' = used \/ (used[k] > 0 /\ used' = [used EXCEPT ![k] = @ - 1])
      BY <1>8 DEF Outcome
    <3> HIDE DEF k
    <3>2. used \in [Worker -> 0..Quota]
      BY <1>0 DEF Staff
    <3>3. used[k] > 0 => used[k] - 1 \in 0..Quota
      BY <1>0, <2>3
    <3> QED BY <3>1, <3>2, <3>3
  <2>7. life' \in [Worker -> Lifecycle]
    <3>1. \/ life' = life
          \/ life' = [life EXCEPT ![k] = "experimental"]
          \/ life' = [life EXCEPT ![k] = "degraded"]
      BY <1>8 DEF Outcome
    <3> HIDE DEF k
    <3> QED BY <1>0, <3>1 DEF Staff, Lifecycle
  <2> HIDE DEF k
  <2>8. trust' \in [Worker -> [level : Level, base : Level]]
    <3>1. Moved(trust[k], success, severity) \in [level : Level, base : Level]
      BY <2>3, MovedIs
    <3> QED BY <1>0, <2>2, <3>1 DEF Staff
  <2>9. Staff(life', trust', cooling', used') /\ Len(lease') <= MaxGoals
    BY <1>0, <2>4, <2>5, <2>6, <2>7, <2>8 DEF Staff
  <2> QED BY <1>8, <2>9, StaffSaved DEF Outcome
<1>9. CASE Restart
  BY <1>9 DEF Restart, StaffInv
<1>10. CASE UNCHANGED dvars
  BY <1>10 DEF dvars, memory, StaffInv
<1> QED BY <1>3, <1>4, <1>5, <1>6, <1>7, <1>8, <1>9, <1>10
        DEF DNext, GoalStep, WorkerStep, OutcomeStep

LEMMA StaffInit == DInit => StaffInv
<1> SUFFICES ASSUME DInit PROVE StaffInv
  OBVIOUS
<1>1. Staff(life, trust, cooling, used)
  BY DelegationAssumption DEF DInit, Staff, Lifecycle, Level
<1>2. Len(lease) <= MaxGoals
  BY DelegationAssumption DEF DInit
<1>3. disk = SnapshotOf(fleet, life, trust, cooling, used, pending, lease, job)
  BY DEF DInit
<1> QED BY <1>1, <1>2, <1>3 DEF StaffInv, SnapshotOf

(* Sequences as the types write them.                                      *)
LEMMA RecordsAre ==
  ASSUME NEW ls, NEW js, NEW fl, NEW pe, Books(ls, js, fl, pe), Len(ls) <= MaxGoals
  PROVE  /\ ls \in LeaseRecords /\ js \in JobRecords
         /\ fl \in UNION {[1..n -> Specialization] : n \in 0..MaxFleet}
<1>1. /\ ls \in Seq(LeaseRecord) /\ js \in Seq(JobRecord) /\ fl \in Seq(Specialization)
      /\ DOMAIN ls = DOMAIN js /\ Len(fl) <= MaxFleet
  BY DEF Books, Agree
<1>2. /\ Len(ls) \in Nat /\ Len(js) \in Nat /\ Len(fl) \in Nat
      /\ ls \in [1..Len(ls) -> LeaseRecord] /\ js \in [1..Len(js) -> JobRecord]
      /\ fl \in [1..Len(fl) -> Specialization]
  BY <1>1, LenProperties
<1>3. Len(ls) = Len(js)
  BY <1>1, <1>2, SameLength
<1>4. Len(ls) \in 0..MaxGoals /\ Len(js) \in 0..MaxGoals /\ Len(fl) \in 0..MaxFleet
  BY <1>1, <1>2, <1>3, DelegationAssumption
<1> QED BY <1>2, <1>4 DEF LeaseRecords, JobRecords, Records, LeaseRecord, JobRecord

LEMMA StaffTypes == MemoryBooks /\ DiskBooks /\ StaffInv => DTypeOK
<1> SUFFICES ASSUME MemoryBooks, DiskBooks, StaffInv PROVE DTypeOK
  OBVIOUS
<1>1. ASSUME NEW f, NEW li, NEW tr, NEW co, NEW us, NEW pe, NEW le, NEW jo,
             Books(le, jo, f, pe), Staff(li, tr, co, us), Len(le) <= MaxGoals
      PROVE  SnapshotOf(f, li, tr, co, us, pe, le, jo) \in Snapshot
  <2>1. /\ le \in LeaseRecords /\ jo \in JobRecords
        /\ f \in UNION {[1..n -> Specialization] : n \in 0..MaxFleet}
    BY <1>1, RecordsAre
  <2>2. pe \in [Worker -> SUBSET Goal]
    BY <1>1 DEF Books
  <2> QED BY <1>1, <2>1, <2>2 DEF SnapshotOf, Snapshot, Staff
<1>2. SnapshotOf(fleet, life, trust, cooling, used, pending, lease, job) \in Snapshot
  BY <1>1 DEF MemoryBooks, StaffInv
<1>3. disk \in Snapshot
  BY <1>1 DEF DiskBooks, StaffInv
<1> QED BY <1>2, <1>3 DEF DTypeOK

(* The ledgers of memory and of the ecology file keep their types and      *)
(* trust its scale, through outcomes reported again and again, failed      *)
(* writes and restarts (the handlers of delegation in kernel/kernel.py).   *)
THEOREM DelegationTyped == DSpec => []DTypeOK
<1>1. MemoryBooks /\ DiskBooks /\ [DNext]_dvars => (MemoryBooks /\ DiskBooks)'
  BY BooksStep
<1> QED BY BooksInit, StaffInit, <1>1, StaffStep, StaffTypes, PTL DEF DSpec
-----------------------------------------------------------------------------
(* Refinement: the leases and the jobs both keep the ledger of WorkLedger. *)

(* Good books hold one ledger, written down twice.                         *)
LEMMA OneLedger ==
  ASSUME NEW ls, NEW js, NEW fl, NEW pe, Books(ls, js, fl, pe)
  PROVE  AsLeases(js) = ls
<1>1. /\ ls \in Seq(LeaseRecord) /\ js \in Seq(JobRecord) /\ DOMAIN ls = DOMAIN js
      /\ DOMAIN ls = 1..Len(ls) /\ DOMAIN js = 1..Len(js)
  BY LenProperties DEF Books, Agree
<1>2. ASSUME NEW g \in DOMAIN js PROVE AsLease(js[g]) = ls[g]
  <2>1. ls[g] \in LeaseRecord /\ js[g] \in JobRecord
    BY <1>1, ElementOfSeq
  <2>2. /\ ls[g].target = js[g].target
        /\ <<ls[g].status, js[g].status>> \in
             {<<"active", "assigned">>, <<"completed", "completed">>, <<"failed", "failed">>}
    BY <1>1 DEF Books, Agree
  <2> QED BY <2>1, <2>2 DEF AsLease, LeaseRecord, JobRecord
<1>3. ls = [g \in DOMAIN js |-> ls[g]]
  BY <1>1
<1> QED BY <1>2, <1>3 DEF AsLeases

(* The load the ledger counts is the one the choice of a target counts.    *)
LEMMA SameLoad ==
  ASSUME lease \in Seq(LeaseRecord), NEW k \in Worker
  PROVE  Leases!LoadOf(k) = ActiveOf(lease, k)
<1>1. ASSUME NEW g \in DOMAIN lease
      PROVE  lease[g] = Leases!Under(k) <=> lease[g].status = "active" /\ lease[g].target = k
  <2>1. lease[g] \in LeaseRecord
    BY LenProperties, ElementOfSeq
  <2> QED BY <2>1 DEF LeaseRecord, Leases!Under
<1>2. \A S : Leases!Cardinality(S) = Cardinality(S)
  BY DEF Leases!Cardinality, Cardinality
<1> DEFINE A == {g \in DOMAIN lease : lease[g] = Leases!Under(k)}
<1>3. A = {g \in DOMAIN lease : lease[g].status = "active" /\ lease[g].target = k}
  BY <1>1
<1>4. Leases!LoadOf(k) = Leases!Cardinality(A)
  BY DEF Leases!LoadOf
<1>5. ActiveOf(lease, k) = Cardinality(A)
  BY <1>3 DEF ActiveOf
<1> QED BY <1>2, <1>4, <1>5

LEMMA SaveCopies ==
  ASSUME Save
  PROVE  disk'.lease \in {disk.lease, lease'}
BY DEF Save, SnapshotOf

LEMMA HandHands ==
  ASSUME MemoryBooks, NEW k \in Worker, Hand(k), ActiveOf(lease, k) < Capacity,
         disk'.lease \in {disk.lease, lease, lease'}
  PROVE  Leases!Handed(k)
<1>1. Leases!LoadOf(k) < Capacity
  BY SameLoad DEF MemoryBooks, Books
<1> QED BY <1>1 DEF Hand, Issued, Leases!Handed, Leases!Under

LEMMA OutcomeEnds ==
  ASSUME MemoryBooks, NEW g \in DOMAIN lease, NEW success \in BOOLEAN, NEW severity,
         Outcome(g, success, severity)
  PROVE  \E how \in {"completed", "failed"} : Leases!Ended(g, how)
<1> DEFINE how == IF success THEN "completed" ELSE "failed"
<1>1. lease \in Seq(LeaseRecord) /\ lease[g] \in LeaseRecord
  BY LenProperties, ElementOfSeq DEF MemoryBooks, Books
<1>2. Closed(lease[g], success) = [lease[g] EXCEPT !.status = how]
  BY <1>1 DEF Closed, LeaseRecord
<1>3. lease' = [lease EXCEPT ![g].status = how]
  BY <1>2 DEF Outcome
<1>4. disk'.lease \in {disk.lease, lease'}
  BY SaveCopies DEF Outcome
<1>5. how \in {"completed", "failed"}
  OBVIOUS
<1> HIDE DEF how
<1> QED BY <1>3, <1>4, <1>5 DEF Leases!Ended

(* A handler is a step of the ledger or leaves it alone, and a restart     *)
(* returns to the copy.                                                    *)
LEMMA LedgerStep ==
  ASSUME MemoryBooks, DiskBooks, [DNext]_dvars
  PROVE  [Leases!LNext]_<<lease, disk.lease>>
<1> DEFINE Goal0 == [Leases!LNext]_<<lease, disk.lease>>
<1>1. ASSUME UNCHANGED lease, disk'.lease \in {disk.lease, lease'} PROVE Goal0
  BY <1>1 DEF Leases!LNext, Leases!Copied
<1>2. ASSUME NEW s \in Specialization, NEW base \in ParentTrust, Spawn(s, base) PROVE Goal0
  BY <1>1, <1>2, SaveCopies DEF Spawn
<1>3. ASSUME NEW s \in Specialization, NEW required \in Level, Delegate(s, required)
      PROVE  Goal0
  <2>1. PICK k \in Chosen(s, required) : Hand(k)
    BY <1>3 DEF Delegate
  <2>2. k \in Worker /\ ActiveOf(lease, k) < Capacity
    <3>1. DOMAIN fleet = 1..Len(fleet) /\ Len(fleet) \in Nat /\ Len(fleet) <= MaxFleet
      BY LenProperties DEF MemoryBooks, Books
    <3> QED BY <2>1, <3>1, DelegationAssumption
            DEF Chosen, Eligible, Candidates, Specialists, Spawned, Worker
  <2>3. Leases!Handed(k)
    BY <1>3, <2>1, <2>2, SaveCopies, HandHands DEF Delegate
  <2> QED BY <2>2, <2>3 DEF Leases!LNext
<1>4. ASSUME NEW s \in Specialization, NEW required \in Level, NEW base \in ParentTrust,
             DelegateSpawning(s, required, base)
      PROVE  Goal0
  <2> DEFINE k == Len(fleet) + 1
  <2>1. k \in Worker /\ Hand(k)
    BY <1>4, JoinKeeps DEF DelegateSpawning
  <2>2. ActiveOf(lease, k) < Capacity
    <3>1. DOMAIN fleet = 1..Len(fleet) /\ Len(fleet) \in Nat
      BY LenProperties DEF MemoryBooks, Books
    <3>2. ActiveGoals(lease, k) = {}
      BY <3>1 DEF ActiveGoals, MemoryBooks, Books, Held
    <3>3. ActiveOf(lease, k) = 0
      BY <3>2, FS_EmptySet DEF ActiveOf, ActiveGoals
    <3> QED BY <3>3, DelegationAssumption
  <2>3. disk'.lease \in {disk.lease, lease, lease'}
    BY <1>4, SaveCopies DEF DelegateSpawning, SnapshotOf
  <2>4. Leases!Handed(k)
    BY <2>1, <2>2, <2>3, HandHands
  <2> QED BY <2>1, <2>4 DEF Leases!LNext
<1>5. ASSUME WorkerStep PROVE Goal0
  <2>1. UNCHANGED lease /\ (Save \/ UNCHANGED disk)
    BY <1>5 DEF WorkerStep, Judged, CoolOver, ToolRequest, BlockedGrowth
  <2> QED BY <1>1, <2>1, SaveCopies
<1>6. ASSUME NEW g \in DOMAIN lease, NEW success \in BOOLEAN, NEW severity \in Severity,
             Outcome(g, success, severity)
      PROVE  Goal0
  BY <1>6, OutcomeEnds DEF Leases!LNext
<1>7. ASSUME Restart PROVE Goal0
  BY <1>7 DEF Restart, Leases!LNext, Leases!Returned
<1>8. CASE UNCHANGED dvars
  BY <1>8 DEF dvars, memory
<1>9. ASSUME GoalStep PROVE Goal0
  BY <1>2, <1>3, <1>4, <1>9 DEF GoalStep
<1>10. ASSUME OutcomeStep PROVE Goal0
  BY <1>6, <1>10 DEF OutcomeStep
<1> QED BY <1>5, <1>7, <1>8, <1>9, <1>10 DEF DNext

(* The same step, read off the jobs.                                       *)
LEMMA JobsFollow ==
  ASSUME AsLeases(job) = lease, AsLeases(disk.job) = disk.lease,
         AsLeases(job)' = lease', AsLeases(disk.job)' = disk'.lease,
         [Leases!LNext]_<<lease, disk.lease>>
  PROVE  [Jobs!LNext]_<<AsLeases(job), AsLeases(disk.job)>>
<1>1. ASSUME NEW k \in Worker
      PROVE  Jobs!LoadOf(k) = Leases!LoadOf(k) /\ Jobs!Under(k) = Leases!Under(k)
  <2>1. \A S : Leases!Cardinality(S) = Jobs!Cardinality(S)
    BY DEF Leases!Cardinality, Jobs!Cardinality
  <2>2. Jobs!Under(k) = Leases!Under(k)
    BY DEF Jobs!Under, Leases!Under
  <2>3. {g \in DOMAIN AsLeases(job) : AsLeases(job)[g] = Jobs!Under(k)}
          = {g \in DOMAIN lease : lease[g] = Leases!Under(k)}
    BY <2>2
  <2> QED BY <2>1, <2>2, <2>3 DEF Jobs!LoadOf, Leases!LoadOf
<1>2. ASSUME NEW k \in Worker, Leases!Handed(k) PROVE Jobs!Handed(k)
  BY <1>1, <1>2 DEF Leases!Handed, Jobs!Handed
<1>3. ASSUME NEW g \in DOMAIN lease, NEW how, Leases!Ended(g, how) PROVE Jobs!Ended(g, how)
  BY <1>3 DEF Leases!Ended, Jobs!Ended
<1>4. ASSUME Leases!Copied PROVE Jobs!Copied
  BY <1>4 DEF Leases!Copied, Jobs!Copied
<1>5. ASSUME Leases!Returned PROVE Jobs!Returned
  BY <1>5 DEF Leases!Returned, Jobs!Returned
<1>6. ASSUME Leases!LNext PROVE Jobs!LNext
  BY <1>2, <1>3, <1>4, <1>5, <1>6 DEF Leases!LNext, Jobs!LNext
<1>7. CASE UNCHANGED <<lease, disk.lease>>
  BY <1>7
<1> QED BY <1>6, <1>7

(* Every behaviour of delegation is, seen from the lease manager as from   *)
(* the queue of jobs, one of the ledger: a goal is handed once, to one     *)
(* worker with room for it, and a restart returns to the ledger as it was  *)
(* last written, as a whole (_delegate_task_to_subkernel, the outcomes and *)
(* the ecology file).                                                      *)
THEOREM DelegationKeepsLedger == DSpec => LedgerSpec
<1> DEFINE BothBooks == MemoryBooks /\ DiskBooks
           One == AsLeases(job) = lease /\ AsLeases(disk.job) = disk.lease
<1>1. BothBooks => One
  BY OneLedger DEF MemoryBooks, DiskBooks
<1>2. DInit => Leases!LInit /\ Jobs!LInit
  <2> SUFFICES ASSUME DInit PROVE Leases!LInit /\ Jobs!LInit
    OBVIOUS
  <2>1. lease = <<>> /\ disk.lease = <<>>
    BY DEF DInit, SnapshotOf
  <2>2. One
    BY <1>1, BooksInit
  <2> QED BY <2>1, <2>2 DEF Leases!LInit, Jobs!LInit
<1>3. BothBooks /\ [DNext]_dvars => [Leases!LNext]_<<lease, disk.lease>>
  BY LedgerStep
<1>4. One /\ One' /\ [Leases!LNext]_<<lease, disk.lease>>
      => [Jobs!LNext]_<<AsLeases(job), AsLeases(disk.job)>>
  BY JobsFollow
<1>5. BothBooks /\ [DNext]_dvars => BothBooks'
  BY BooksStep
<1> QED BY <1>1, <1>2, <1>3, <1>4, <1>5, BooksInit, PTL
        DEF DSpec, LedgerSpec, Leases!LSpec, Jobs!LSpec, Leases!lvars, Jobs!lvars
=============================================================================
