------------------------------- MODULE CycleProofs -------------------------------
(***************************************************************************)
(* Theorems about what the autonomous cycle works on, for every value of   *)
(* the constants: the tasks, the beliefs, the pretraining, the corpus and  *)
(* the missions.                                                           *)
(***************************************************************************)
EXTENDS TaskQueue, Beliefs, Pretrain, Corpus, Mission, Foundations
-----------------------------------------------------------------------------
(* The task queue.                                                         *)

Queues == {s \in Seq(TaskRecord) : Len(s) <= TaskCap}

(* What is completed or worked on in a queue has its reason in the history.*)
Grounded(s, ever) ==
  \A i \in DOMAIN s : /\ s[i].status = "completed" => s[i].id \in ever
                      /\ s[i].status = "active" => s[i].deps \subseteq ever

TInv ==
  /\ tasks \in Queues /\ completedIds \in Seq(TaskId)
  /\ made \in 0..MaxTasks /\ lastId \in 0..made
  /\ crashes \in 0..MaxCrashes /\ everDone \in SUBSET TaskId /\ maintained \in BOOLEAN
  /\ tasksSaved \in [tasks : Queues, completed : Seq(TaskId)]
  /\ Len(tasksSaved.completed) <= CompletedKept
  /\ \A i \in DOMAIN completedIds : completedIds[i] \in everDone
  /\ \A i \in DOMAIN tasksSaved.completed : tasksSaved.completed[i] \in everDone
  /\ Grounded(tasks, everDone) /\ Grounded(tasksSaved.tasks, everDone)
  /\ ReadyRuns

LEMMA NewestIs ==
  ASSUME NEW S, NEW s \in Seq(S), NEW n \in Nat \ {0}
  PROVE  /\ Newest(s, n) \in Seq(S) /\ Len(Newest(s, n)) <= n
         /\ \A i \in DOMAIN Newest(s, n) : \E j \in DOMAIN s : Newest(s, n)[i] = s[j]
<1>1. CASE Len(s) > n
  <2> DEFINE m == Len(s) - n + 1
  <2>1. m \in 1..Len(s) /\ Newest(s, n) = SubSeq(s, m, Len(s)) /\ Len(s) - m + 1 = n
    BY <1>1 DEF Newest
  <2> HIDE DEF m
  <2>2. /\ SubSeq(s, m, Len(s)) \in Seq(S) /\ Len(SubSeq(s, m, Len(s))) = n
        /\ \A i \in 1..n : SubSeq(s, m, Len(s))[i] = s[m + i - 1]
    BY <2>1
  <2>3. \A i \in 1..n : m + i - 1 \in 1..Len(s)
    BY <2>1
  <2>4. DOMAIN SubSeq(s, m, Len(s)) = 1..n /\ DOMAIN s = 1..Len(s)
    BY <2>2
  <2> DEFINE w == SubSeq(s, m, Len(s))
  <2>5. \A i \in DOMAIN w : \E j \in DOMAIN s : w[i] = s[j]
    BY <2>2, <2>3, <2>4
  <2>6. w \in Seq(S) /\ Len(w) <= n
    BY <2>2
  <2>7. Newest(s, n) = w
    BY <2>1
  <2> HIDE DEF w
  <2> QED BY <2>5, <2>6, <2>7
<1>2. CASE ~(Len(s) > n)
  BY <1>2 DEF Newest
<1> QED BY <1>1, <1>2

(* A task keeps all but its status, and its new status has its reason.     *)
LEMMA AdvancedIs ==
  ASSUME NEW t \in TaskRecord, NEW done, NEW known
  PROVE  LET c == Cleaned(Advanced(t, done), known) IN
         /\ c \in TaskRecord /\ c.id = t.id /\ c.deps = t.deps
         /\ c.status = "completed" => t.status = "completed"
         /\ c.status = "active" => t.status = "active" \/ t.deps \subseteq done
         /\ c.status = "pending" => ~(t.deps \subseteq done)
BY DEF Cleaned, Advanced, TaskRecord, Live, Terminal

LEMMA TInvInit == TInit => TInv
<1> SUFFICES ASSUME TInit PROVE TInv
  OBVIOUS
<1>1. << >> \in Queues /\ << >> \in Seq(TaskId) /\ Len(<< >>) = 0 /\ DOMAIN << >> = {}
  BY TaskAssumption DEF Queues
<1>2. 0 \in 0..MaxTasks /\ 0 \in 0..0 /\ 0 \in 0..MaxCrashes /\ 0 <= CompletedKept
  BY TaskAssumption
<1>3. tasks = << >> /\ completedIds = << >> /\ tasksSaved.tasks = << >> /\ tasksSaved.completed = << >>
      /\ made = 0 /\ lastId = 0 /\ crashes = 0 /\ everDone = {} /\ maintained = FALSE
      /\ tasksSaved = [tasks |-> << >>, completed |-> << >>]
  BY DEF TInit, NoTask
<1>4. tasksSaved \in [tasks : Queues, completed : Seq(TaskId)]
  BY <1>1, <1>3
<1> QED BY <1>1, <1>2, <1>3, <1>4 DEF TInv, Grounded, ReadyRuns

LEMMA TInvNext == TInv /\ [TNext]_tvars => TInv'
<1> SUFFICES ASSUME TInv, [TNext]_tvars PROVE TInv'
  OBVIOUS
<1> USE TaskAssumption
<1>0. /\ tasks \in Queues /\ tasks \in Seq(TaskRecord) /\ Len(tasks) <= TaskCap
      /\ DOMAIN tasks = 1..Len(tasks) /\ \A i \in DOMAIN tasks : tasks[i] \in TaskRecord
      /\ everDone \in SUBSET TaskId
  BY DEF TInv, Queues
<1>1. ASSUME NEW same \in BOOLEAN, NEW deps \in SUBSET (1..lastId), NEW parent \in 0..lastId,
             NEW deadline \in {"none", "ahead"}, CreateTask(same, deps, parent, deadline)
      PROVE  TInv'
  <2> DEFINE t == [id |-> lastId', status |-> "pending", deps |-> deps,
                   parent |-> parent, deadline |-> deadline]
             full == Append(tasks, t)
  <2>1. made' \in 0..MaxTasks /\ lastId' \in 1..made' /\ lastId' \in TaskId
    <3>1. made \in 0..MaxTasks /\ lastId \in 0..made /\ made < MaxTasks /\ made' = made + 1
      BY <1>1 DEF CreateTask, TInv
    <3>2. CASE same
      <4>1. lastId \in TaskId
        BY <1>0, <1>1, <3>2 DEF CreateTask, TaskRecord
      <4> QED BY <1>1, <3>1, <3>2, <4>1 DEF CreateTask, TaskId
    <3>3. CASE ~same
      BY <1>1, <3>1, <3>3 DEF CreateTask, TaskId
    <3> QED BY <3>2, <3>3
  <2>2. t \in TaskRecord
    <3>1. deps \in SUBSET TaskId /\ parent \in TaskId \cup {NoTask}
      BY DEF TInv, TaskId, NoTask
    <3> QED BY <2>1, <3>1 DEF TaskRecord, Live
  <2>3. t.status = "pending"
    OBVIOUS
  <2>4. tasks' = Newest(full, TaskCap)
    BY <1>1 DEF CreateTask
  <2> HIDE DEF t
  <2>5. full \in Seq(TaskRecord) /\ \A i \in DOMAIN full : full[i] = t \/ (i \in DOMAIN tasks /\ full[i] = tasks[i])
    BY <1>0, <2>2
  <2> HIDE DEF full
  <2>6. /\ tasks' \in Seq(TaskRecord) /\ Len(tasks') <= TaskCap
        /\ \A i \in DOMAIN tasks' : \E j \in DOMAIN full : tasks'[i] = full[j]
    BY <2>4, <2>5, NewestIs
  <2>7. maintained' = FALSE /\ UNCHANGED <<completedIds, tasksSaved, crashes, everDone>>
    BY <1>1 DEF CreateTask
  <2>8. \A i \in DOMAIN tasks' : tasks'[i] = t \/ \E j \in DOMAIN tasks : tasks'[i] = tasks[j]
    BY <2>5, <2>6
  <2>9. Grounded(tasks, everDone)'
    BY <2>3, <2>7, <2>8 DEF Grounded, TInv
  <2>10. tasks' \in Queues
    BY <2>6 DEF Queues
  <2>11. Grounded(tasksSaved.tasks, everDone)'
    BY <2>7 DEF TInv
  <2>15. lastId' \in 0..made'
    BY <2>1
  <2>12. /\ completedIds' \in Seq(TaskId) /\ made' \in 0..MaxTasks /\ lastId' \in 0..made'
         /\ crashes' \in 0..MaxCrashes /\ everDone' \in SUBSET TaskId /\ maintained' \in BOOLEAN
         /\ tasksSaved' \in [tasks : Queues, completed : Seq(TaskId)]
         /\ Len(tasksSaved'.completed) <= CompletedKept
    BY <2>1, <2>7, <2>15 DEF TInv
  <2>13. /\ \A i \in DOMAIN completedIds' : completedIds'[i] \in everDone'
         /\ \A i \in DOMAIN tasksSaved'.completed : tasksSaved'.completed[i] \in everDone'
    BY <2>7 DEF TInv
  <2>14. ReadyRuns'
    BY <2>7 DEF ReadyRuns
  <2> QED BY <2>9, <2>10, <2>11, <2>12, <2>13, <2>14 DEF TInv
<1>2. ASSUME NEW id \in TaskId, CompleteTask(id) PROVE TInv'
  <2> DEFINE first == SelectInSeq(tasks, LAMBDA u : u.id = id)
  <2>1. first # 0 /\ tasks' = [tasks EXCEPT ![first].status = "completed"]
    BY <1>2 DEF CompleteTask
  <2>2. first \in DOMAIN tasks /\ tasks[first].id = id
    <3> DEFINE I == {i \in 1..Len(tasks) : tasks[i].id = id}
    <3>1. I # {} /\ first = Min(I)
      BY <2>1 DEF SelectInSeq
    <3>2. Min(I) \in I
      <4>1. I \subseteq Nat
        OBVIOUS
      <4> HIDE DEF I
      <4> QED BY <3>1, <4>1, MinIs
    <3> QED BY <1>0, <3>1, <3>2
  <2> HIDE DEF first
  <2>3. [tasks[first] EXCEPT !.status = "completed"] \in TaskRecord
    BY <1>0, <2>2 DEF TaskRecord, Terminal
  <2>4. tasks' \in Seq(TaskRecord) /\ Len(tasks') = Len(tasks) /\ DOMAIN tasks' = DOMAIN tasks
    BY <1>0, <2>1, <2>2, <2>3
  <2>5. \A i \in DOMAIN tasks : /\ tasks'[i].id = tasks[i].id /\ tasks'[i].deps = tasks[i].deps
                                /\ tasks'[i].status = (IF i = first THEN "completed" ELSE tasks[i].status)
    BY <1>0, <2>1, <2>2 DEF TaskRecord
  <2>6. everDone' = everDone \cup {id} /\ completedIds' = Append(completedIds, id) /\ maintained' = FALSE
        /\ UNCHANGED <<made, lastId, tasksSaved, crashes>>
    BY <1>2 DEF CompleteTask
  <2>7. completedIds' \in Seq(TaskId) /\ \A i \in DOMAIN completedIds' : completedIds'[i] \in everDone'
    BY <2>6 DEF TInv
  <2>8. Grounded(tasks, everDone)' /\ Grounded(tasksSaved.tasks, everDone)'
    BY <2>2, <2>4, <2>5, <2>6 DEF Grounded, TInv
  <2>9. tasks' \in Queues /\ everDone' \in SUBSET TaskId
    BY <1>0, <2>4, <2>6 DEF Queues
  <2>10. \A i \in DOMAIN tasksSaved'.completed : tasksSaved'.completed[i] \in everDone'
    BY <2>6 DEF TInv
  <2>11. ReadyRuns'
    BY <2>6 DEF ReadyRuns
  <2>12. /\ made' \in 0..MaxTasks /\ lastId' \in 0..made'
         /\ crashes' \in 0..MaxCrashes /\ maintained' \in BOOLEAN
         /\ tasksSaved' \in [tasks : Queues, completed : Seq(TaskId)]
         /\ Len(tasksSaved'.completed) <= CompletedKept
    BY <2>6 DEF TInv
  <2> QED BY <2>7, <2>8, <2>9, <2>10, <2>11, <2>12 DEF TInv
<1>3. ASSUME NEW gone \in SUBSET DOMAIN tasks, Maintain(gone) PROVE TInv'
  <2> DEFINE done     == ToSet(completedIds) \cup WithStatus("completed")
             known    == ToSet(completedIds) \cup QueuedIds
             cleaned  == [i \in DOMAIN tasks |-> Cleaned(Advanced(tasks[i], done), known)]
             I        == DOMAIN tasks \ gone
  <2>1. tasks' = Pick(cleaned, I) /\ maintained' = TRUE
        /\ UNCHANGED <<completedIds, made, lastId, tasksSaved, crashes, everDone>>
    BY <1>3 DEF Maintain
  <2>2. done \subseteq everDone /\ ToSet(completedIds) \subseteq done
    BY DEF TInv, Grounded, WithStatus, ToSet
  <2>3. \A i \in DOMAIN tasks :
          /\ cleaned[i] \in TaskRecord
          /\ cleaned[i].status = "completed" => cleaned[i].id \in everDone
          /\ cleaned[i].status = "active" => cleaned[i].deps \subseteq everDone
          /\ cleaned[i].status = "pending" => ~(cleaned[i].deps \subseteq ToSet(completedIds))
    <3> HIDE DEF done, known
    <3> SUFFICES ASSUME NEW i \in DOMAIN tasks PROVE
          /\ cleaned[i] \in TaskRecord
          /\ cleaned[i].status = "completed" => cleaned[i].id \in everDone
          /\ cleaned[i].status = "active" => cleaned[i].deps \subseteq everDone
          /\ cleaned[i].status = "pending" => ~(cleaned[i].deps \subseteq ToSet(completedIds))
      OBVIOUS
    <3>1. cleaned[i] = Cleaned(Advanced(tasks[i], done), known) /\ tasks[i] \in TaskRecord
      BY <1>0
    <3> HIDE DEF cleaned
    <3>2. /\ cleaned[i] \in TaskRecord /\ cleaned[i].id = tasks[i].id /\ cleaned[i].deps = tasks[i].deps
          /\ cleaned[i].status = "completed" => tasks[i].status = "completed"
          /\ cleaned[i].status = "active" => tasks[i].status = "active" \/ tasks[i].deps \subseteq done
          /\ cleaned[i].status = "pending" => ~(tasks[i].deps \subseteq done)
      BY <3>1, AdvancedIs
    <3> QED BY <2>2, <3>2 DEF TInv, Grounded
  <2>4. cleaned \in Seq(TaskRecord) /\ DOMAIN cleaned = DOMAIN tasks /\ Len(cleaned) = Len(tasks)
    <3>1. cleaned \in [1..Len(tasks) -> TaskRecord] /\ DOMAIN cleaned = DOMAIN tasks
      BY <1>0, <2>3
    <3> HIDE DEF cleaned
    <3> QED BY <1>0, <3>1
  <2> HIDE DEF cleaned, done, known
  <2>5. /\ tasks' \in Seq(TaskRecord) /\ Len(tasks') <= Len(tasks)
        /\ \A k \in DOMAIN tasks' : \E i \in DOMAIN tasks : tasks'[k] = cleaned[i]
    <3>1. I \in SUBSET DOMAIN cleaned
      BY <2>4
    <3> HIDE DEF I
    <3> QED BY <2>1, <2>4, <3>1, PickIs
  <2>6. Grounded(tasks, everDone)'
    BY <2>1, <2>3, <2>5 DEF Grounded
  <2>7. ReadyRuns'
    BY <2>1, <2>3, <2>5 DEF ReadyRuns, Ready
  <2>8. tasks' \in Queues
    BY <1>0, <2>5 DEF Queues
  <2> QED BY <2>1, <2>6, <2>7, <2>8 DEF TInv
<1>4. CASE SaveTasks
  <2>1. /\ tasksSaved' = [tasks |-> tasks, completed |-> Newest(completedIds, CompletedKept)]
        /\ maintained' = FALSE /\ UNCHANGED <<tasks, completedIds, made, lastId, crashes, everDone>>
    BY <1>4 DEF SaveTasks
  <2>2. /\ Newest(completedIds, CompletedKept) \in Seq(TaskId)
        /\ Len(Newest(completedIds, CompletedKept)) <= CompletedKept
        /\ \A i \in DOMAIN Newest(completedIds, CompletedKept) :
             \E j \in DOMAIN completedIds : Newest(completedIds, CompletedKept)[i] = completedIds[j]
    <3>1. completedIds \in Seq(TaskId) /\ CompletedKept \in Nat \ {0}
      BY TaskAssumption DEF TInv
    <3> QED BY <3>1, NewestIs
  <2> QED BY <2>1, <2>2 DEF TInv, ReadyRuns
<1>5. CASE RestartTasks
  <2>1. /\ crashes' \in 0..MaxCrashes /\ tasks' = tasksSaved.tasks
        /\ completedIds' = tasksSaved.completed /\ maintained' = FALSE
        /\ UNCHANGED <<made, lastId, tasksSaved, everDone>>
    BY <1>5 DEF RestartTasks, TInv
  <2>2. tasks' \in Queues /\ completedIds' \in Seq(TaskId)
    BY <2>1 DEF TInv
  <2>3. \A i \in DOMAIN completedIds' : completedIds'[i] \in everDone'
    BY <2>1 DEF TInv
  <2>4. Grounded(tasks, everDone)'
    BY <2>1 DEF TInv
  <2>5. ReadyRuns'
    BY <2>1 DEF ReadyRuns
  <2> QED BY <2>1, <2>2, <2>3, <2>4, <2>5 DEF TInv
<1>6. ASSUME NEW i \in DOMAIN tasks, DeadlinePasses(i) PROVE TInv'
  <2>1. [tasks[i] EXCEPT !.deadline = "passed"] \in TaskRecord
    BY <1>0 DEF TaskRecord
  <2>2. tasks' = [tasks EXCEPT ![i].deadline = "passed"]
    BY <1>6 DEF DeadlinePasses
  <2>3. tasks' \in Seq(TaskRecord) /\ Len(tasks') = Len(tasks) /\ DOMAIN tasks' = DOMAIN tasks
    BY <1>0, <2>1, <2>2
  <2>4. \A j \in DOMAIN tasks : /\ tasks'[j].id = tasks[j].id /\ tasks'[j].deps = tasks[j].deps
                                /\ tasks'[j].status = tasks[j].status
    BY <1>0, <2>2 DEF TaskRecord
  <2>5. maintained' = FALSE /\ UNCHANGED <<completedIds, made, lastId, tasksSaved, crashes, everDone>>
    BY <1>6 DEF DeadlinePasses
  <2>6. Grounded(tasks, everDone)'
    BY <2>3, <2>4, <2>5 DEF Grounded, TInv
  <2>7. tasks' \in Queues
    BY <1>0, <2>3 DEF Queues
  <2>8. Grounded(tasksSaved.tasks, everDone)'
    BY <2>5 DEF TInv
  <2> QED BY <2>5, <2>6, <2>7, <2>8 DEF TInv, ReadyRuns
<1>7. CASE UNCHANGED tvars
  <2>1. UNCHANGED <<tasks, completedIds, made, lastId, tasksSaved, crashes, everDone, maintained>>
    BY <1>7 DEF tvars
  <2>2. ReadyRuns' = ReadyRuns
    BY <2>1 DEF ReadyRuns, Ready
  <2>3. Grounded(tasks, everDone)' = Grounded(tasks, everDone)
        /\ Grounded(tasksSaved.tasks, everDone)' = Grounded(tasksSaved.tasks, everDone)
    BY <2>1
  <2> QED BY <2>1, <2>2, <2>3 DEF TInv
<1> QED BY <1>1, <1>2, <1>3, <1>4, <1>5, <1>6, <1>7 DEF TNext

(* Tasks stay as many and as well formed as the queue allows, whatever is *)
(* added, run, cleaned up, saved or lost (tasks/queue.py and the handlers  *)
(* of kernel/kernel.py).                                                   *)
THEOREM TasksTyped == TSpec => []TTypeOK
<1>1. TInv => TTypeOK
  BY DEF TInv, TTypeOK, Queues
<1> QED BY <1>1, TInvInit, TInvNext, PTL DEF TSpec

(* No task is worked on before all it depends on was completed, through    *)
(* clean-ups that drop tasks, identifiers taken twice and restarts that    *)
(* forget completions (TaskQueue.next_task and complete).                  *)
THEOREM DependenciesCameFirst == TSpec => []DependenciesFirst
<1>1. TInv => DependenciesFirst
  BY DEF TInv, DependenciesFirst, Grounded
<1> QED BY <1>1, TInvInit, TInvNext, PTL DEF TSpec

(* After an iteration of the loop no task is pending whose dependencies    *)
(* are all completed, whatever has left the queue meanwhile.               *)
THEOREM NothingReadyWaits == TSpec => []ReadyRuns
<1>1. TInv => ReadyRuns
  BY DEF TInv
<1> QED BY <1>1, TInvInit, TInvNext, PTL DEF TSpec
-----------------------------------------------------------------------------
(* The beliefs.                                                            *)

Supported == [beta : [Belief -> Support], nu : [Belief -> FourValued]]
Blameless == {s \in Supported : s.beta["coherent"].f = 0}
Settled   == {s \in Blameless : \A k \in Belief \ {"search"} : s.nu[k] = Gamma(s.beta)[k]}

BeliefInv ==
  /\ Now \in Settled /\ (budgeted => Coherent(Now)) /\ budgeted \in BOOLEAN
  /\ onDisk \in [Belief -> Support] /\ onDisk["coherent"].f = 0
  /\ updates \in 0..MaxUpdates

LEMMA Percents ==
  ASSUME NEW x \in 0..100, NEW y \in 0..100
  PROVE  ProbOr(x, y) \in 0..100 /\ (x * (100 - y)) \div 100 \in 0..100
<1> DEFINE p == x * y
           q == x * (100 - y)
<1>1. p \in Nat /\ q \in Nat /\ q = 100 * x - p
  BY SMT
<1>2. q <= 10000 - 100 * y
  <2>1. (100 - x) * (100 - y) >= 0
    BY SMT
  <2>2. (100 - x) * (100 - y) = 10000 - 100 * x - 100 * y + p
    BY SMT
  <2> HIDE DEF p, q
  <2> QED BY <1>1, <2>1, <2>2
<1> HIDE DEF p, q
<1>3. p \div 100 \in 0..100 /\ q \div 100 \in 0..100 /\ x + y - p \div 100 \in 0..100
  BY <1>1, <1>2
<1> QED BY <1>3 DEF ProbOr, p, q

LEMMA GammaIs ==
  ASSUME NEW b
  PROVE  Gamma(b) \in [Belief -> FourValued]
BY DEF Gamma, FourValued

LEMMA OrIs ==
  ASSUME NEW a \in Support, NEW b \in Support
  PROVE  BilateralOr(a, b) \in Support
<1>1. a.t \in 0..100 /\ a.f \in 0..100 /\ b.t \in 0..100 /\ b.f \in 0..100
  BY DEF Support
<1>2. ProbOr(a.t, b.t) \in 0..100 /\ ProbOr(a.f, b.f) \in 0..100
  BY <1>1, Percents
<1> QED BY <1>2 DEF BilateralOr, Support, Degrees

LEMMA RecoverIs ==
  ASSUME NEW a \in Support, NEW gain \in 0..100, NEW decay \in 0..100
  PROVE  BilateralRecover(a, gain, decay) \in Support
<1>1. a.t \in 0..100 /\ a.f \in 0..100
  BY DEF Support
<1>2. ProbOr(a.t, gain) \in 0..100 /\ (a.f * (100 - decay)) \div 100 \in 0..100
  BY <1>1, Percents
<1> QED BY <1>2 DEF BilateralRecover, Support, Degrees

(* A handler changes one belief, which is not the one about coherence, and *)
(* may leave the verdicts; deriving them again makes the state coherent.   *)
LEMMA ChangeIs ==
  ASSUME NEW s \in Blameless, NEW k \in Belief, NEW v \in Support, k = "coherent" => v.f = 0
  PROVE  [s EXCEPT !.beta[k] = v] \in Blameless
BY DEF Blameless, Supported, Belief

LEMMA RefreshIs ==
  ASSUME NEW s \in Blameless
  PROVE  Refreshed(s) \in Blameless /\ Coherent(Refreshed(s))
BY GammaIs DEF Blameless, Supported, Refreshed, Coherent

LEMMA HandlersKeep ==
  ASSUME NEW s \in Blameless
  PROVE  /\ Succeeded(s) \in Blameless /\ Coherent(Succeeded(s))
         /\ Failed(s) \in Blameless /\ Coherent(Failed(s))
         /\ \A found \in BOOLEAN : Called(s, found) \in Blameless
<1>1. \A k \in Belief : s.beta[k] \in Support
  BY DEF Blameless, Supported
<1>2. Degrees(0, 12) \in Support /\ Degrees(0, 8) \in Support
  BY DEF Degrees, Support
<1>3. /\ BilateralRecover(s.beta["executor"], 10, 4) \in Support
      /\ BilateralRecover(s.beta["search"], 10, 5) \in Support
      /\ BilateralOr(s.beta["executor"], Degrees(0, 12)) \in Support
      /\ BilateralOr(s.beta["search"], Degrees(0, 8)) \in Support
  <2>1. 10 \in 0..100 /\ 4 \in 0..100 /\ 5 \in 0..100
    OBVIOUS
  <2>2. s.beta["executor"] \in Support /\ s.beta["search"] \in Support
    BY <1>1 DEF Belief
  <2> QED BY <1>2, <2>1, <2>2, OrIs, RecoverIs
<1>4. /\ [s EXCEPT !.beta["executor"] = BilateralRecover(s.beta["executor"], 10, 4)] \in Blameless
      /\ [s EXCEPT !.beta["executor"] = BilateralOr(s.beta["executor"], Degrees(0, 12))] \in Blameless
      /\ [s EXCEPT !.beta["search"] = BilateralOr(s.beta["search"], Degrees(0, 8))] \in Blameless
  BY <1>3, ChangeIs DEF Belief
<1>5. Refreshed(s) \in Blameless /\ Refreshed(s).beta = s.beta
  BY RefreshIs DEF Refreshed, Blameless, Supported
<1>6. [Refreshed(s) EXCEPT !.beta["search"] = BilateralRecover(s.beta["search"], 10, 5)] \in Blameless
  BY <1>3, <1>5, ChangeIs DEF Belief
<1>7. \A found \in BOOLEAN : Called(s, found) \in Blameless
  BY <1>4, <1>5, <1>6 DEF Called
<1> QED BY <1>4, <1>7, RefreshIs DEF Succeeded, Failed

LEMMA SettledIs ==
  ASSUME NEW s \in Blameless, Coherent(s)
  PROVE  s \in Settled
BY DEF Settled, Coherent

(* A call moves no other belief than the one about search.                 *)
LEMMA CallKeeps ==
  ASSUME NEW s \in Settled
  PROVE  \A found \in BOOLEAN : Called(s, found) \in Settled
<1>1. s \in Blameless /\ s.beta \in [Belief -> Support]
  BY DEF Settled, Blameless, Supported
<1>2. /\ Refreshed(s) \in Settled /\ Refreshed(s).beta = s.beta
  BY <1>1, RefreshIs, SettledIs DEF Refreshed, Blameless, Supported
<1>3. ASSUME NEW q \in Settled, NEW v \in Support, [q EXCEPT !.beta["search"] = v] \in Blameless
      PROVE  [q EXCEPT !.beta["search"] = v] \in Settled
  <2> DEFINE w == [q EXCEPT !.beta["search"] = v]
  <2>1. q.beta \in [Belief -> Support] /\ q \in Supported
    BY <1>3 DEF Settled, Blameless, Supported
  <2>2. w.nu = q.nu /\ \A k \in Belief \ {"search"} : w.beta[k] = q.beta[k]
    BY <2>1 DEF Supported
  <2> HIDE DEF w
  <2>3. \A k \in Belief \ {"search"} : Gamma(w.beta)[k] = Gamma(q.beta)[k]
    BY <2>2 DEF Gamma
  <2>4. w \in Settled
    BY <1>3, <2>2, <2>3 DEF Settled, w
  <2> QED BY <2>4 DEF w
<1>4. /\ BilateralOr(s.beta["search"], Degrees(0, 8)) \in Support
      /\ BilateralRecover(s.beta["search"], 10, 5) \in Support
  <2>1. s.beta["search"] \in Support /\ Degrees(0, 8) \in Support
    BY <1>1 DEF Belief, Degrees, Support
  <2>2. 10 \in 0..100 /\ 5 \in 0..100
    OBVIOUS
  <2> QED BY <2>1, <2>2, OrIs, RecoverIs
<1>5. "search" \in Belief /\ "search" # "coherent" /\ Refreshed(s) \in Blameless
  BY <1>2 DEF Belief, Settled
<1>6. /\ [s EXCEPT !.beta["search"] = BilateralOr(s.beta["search"], Degrees(0, 8))] \in Settled
      /\ [Refreshed(s) EXCEPT !.beta["search"] = BilateralRecover(s.beta["search"], 10, 5)] \in Settled
  BY <1>1, <1>2, <1>3, <1>4, <1>5, ChangeIs
<1> QED BY <1>2, <1>6 DEF Called

(* The loop over the calls.                                                *)
LEMMA CallsKeep ==
  ASSUME Now \in Settled, NEW calls \in Seq(BOOLEAN)
  PROVE  AfterCalls(calls) \in Settled
<1> DEFINE N == Len(calls)
           step == [p \in Settled \X (1..N) |-> Called(p[1], calls[p[2]])]
           rec(f) == [n \in 0..N |-> IF n = 0 THEN Now ELSE Called(f[n - 1], calls[n])]
           after == CHOOSE f : f = rec(f)
<1>1. N \in Nat /\ \A n \in 1..N : calls[n] \in BOOLEAN
  OBVIOUS
<1>2. step \in [Settled \X (1..N) -> Settled]
  BY <1>1, CallKeeps
<1>3. PICK f \in [0..N -> Settled] : Loop(f, N, Now, step)
  <2> HIDE DEF N, step
  <2> QED BY <1>1, <1>2, Recursion
<1>4. f = rec(f)
  <2>1. \A n \in 1..N : f[n] = Called(f[n - 1], calls[n])
    BY <1>1, <1>3 DEF Loop
  <2>2. \A n \in 0..N : f[n] = rec(f)[n]
    BY <1>1, <1>3, <2>1 DEF Loop
  <2> QED BY <1>3, <2>2
<1>5. after = rec(after)
  BY <1>4
<1> DEFINE S == {n \in 0..N : after[n] \in Settled}
<1>6. 0..N \subseteq S
  <2> HIDE DEF after
  <2>1. after[0] = Now
    BY <1>1, <1>5
  <2>2. \A n \in 1..N : after[n] = Called(after[n - 1], calls[n])
    BY <1>1, <1>5
  <2>3. 0 \in S
    BY <1>1, <2>1
  <2>4. \A n \in 1..N : n - 1 \in S => n \in S
    <3> SUFFICES ASSUME NEW n \in 1..N, after[n - 1] \in Settled PROVE after[n] \in Settled
      BY <1>1
    <3>1. calls[n] \in BOOLEAN /\ after[n] = Called(after[n - 1], calls[n])
      BY <1>1, <2>2
    <3> QED BY <3>1, CallKeeps
  <2> HIDE DEF S, N
  <2> QED BY <1>1, <2>3, <2>4, Induction
<1>7. AfterCalls(calls) = after[N]
  BY DEF AfterCalls
<1> HIDE DEF after
<1> QED BY <1>1, <1>6, <1>7

LEMMA BeliefInvInit == BeliefInit => BeliefInv
<1> SUFFICES ASSUME BeliefInit PROVE BeliefInv
  OBVIOUS
<1>1. beta \in [Belief -> Support] /\ beta["coherent"].f = 0
  BY DEF BeliefInit, Degrees, Support, Belief
<1>2. nu = Gamma(beta) /\ nu \in [Belief -> FourValued] /\ onDisk = beta /\ updates = 0
  BY GammaIs DEF BeliefInit
<1>3. budgeted = FALSE /\ Now \in Blameless /\ Coherent(Now)
  BY <1>1, <1>2 DEF BeliefInit, Now, Blameless, Supported, Coherent
<1>4. Now \in Settled /\ budgeted \in BOOLEAN
  BY <1>3, SettledIs
<1>5. onDisk \in [Belief -> Support] /\ onDisk["coherent"].f = 0 /\ updates \in 0..MaxUpdates
  BY <1>1, <1>2, BeliefAssumption
<1> QED BY <1>3, <1>4, <1>5 DEF BeliefInv

LEMMA BeliefInvNext == BeliefInv /\ [BeliefNext]_beliefvars => BeliefInv'
<1> SUFFICES ASSUME BeliefInv, [BeliefNext]_beliefvars PROVE BeliefInv'
  OBVIOUS
<1>0. /\ Now \in Settled /\ Now \in Blameless /\ Now.beta = beta /\ beta \in [Belief -> Support]
      /\ onDisk \in [Belief -> Support] /\ onDisk["coherent"].f = 0
  BY DEF BeliefInv, Settled, Blameless, Supported, Now
<1>1. ASSUME NEW s \in Blameless, Coherent(s), Becomes(s), Handled, budgeted' \in BOOLEAN
      PROVE  BeliefInv'
  <2>1. Now' = s
    BY <1>1 DEF Becomes, Now, Blameless, Supported
  <2>2. updates' \in 0..MaxUpdates /\ onDisk' = onDisk
    BY <1>1, BeliefAssumption DEF Handled, BeliefInv
  <2>3. Coherent(Now)'
    BY <1>1, <2>1 DEF Coherent, Becomes, Now
  <2>4. Now' \in Settled
    BY <1>1, <2>1, SettledIs
  <2> QED BY <1>0, <1>1, <2>2, <2>3, <2>4 DEF BeliefInv
<1>2. ASSUME NEW calls \in Calls, NEW raises \in BOOLEAN, ResearchCycle(calls, raises)
      PROVE  BeliefInv'
  <2>1. calls \in Seq(BOOLEAN)
    <3>1. PICK n \in 1..2 : calls \in [1..n -> BOOLEAN]
      BY DEF Calls
    <3> QED BY <3>1
  <2>2. AfterCalls(calls) \in Blameless
    BY <1>0, <2>1, CallsKeep DEF Settled
  <2>3. /\ Failed(AfterCalls(calls)) \in Blameless /\ Coherent(Failed(AfterCalls(calls)))
        /\ Succeeded(Refreshed(AfterCalls(calls))) \in Blameless
        /\ Coherent(Succeeded(Refreshed(AfterCalls(calls))))
    BY <2>2, HandlersKeep, RefreshIs
  <2> QED BY <1>1, <1>2, <2>3 DEF ResearchCycle, InLoop, BeliefInv
<1>3. ASSUME NEW ok \in BOOLEAN, Browse(ok) PROVE BeliefInv'
  <2> DEFINE seen == IF ok THEN Degrees(92, 4) ELSE Degrees(18, 72)
             v == BilateralOr(beta["browser"], seen)
  <2>1. v \in Support
    <3>1. seen \in Support
      BY DEF Degrees, Support
    <3>2. beta["browser"] \in Support
      BY <1>0 DEF Belief
    <3> HIDE DEF seen
    <3> QED BY <3>1, <3>2, OrIs
  <2> DEFINE s == [Now EXCEPT !.beta["browser"] = v]
  <2>2. Becomes(Refreshed(s)) /\ Handled /\ budgeted' \in BOOLEAN
    BY <1>3, <1>0 DEF Browse, BeliefInv
  <2> HIDE DEF v, seen
  <2>3. s \in Blameless
    BY <1>0, <2>1, ChangeIs DEF Belief
  <2> HIDE DEF s
  <2> QED BY <1>1, <2>2, <2>3, RefreshIs
<1>4. ASSUME NEW marks \in 0..2, Assess(marks) PROVE BeliefInv'
  <2> DEFINE many == Cardinality(Belief)
             t == 30 + (IF Coherent(Now) THEN 15 ELSE 0) + (IF Gluts < 15 * many THEN 10 ELSE 0)
                  + (IF Gaps < 15 * many THEN 10 ELSE 0) + 10 * marks
             f == 10 + (IF Coherent(Now) THEN 0 ELSE 20) + (IF Gluts > 30 * many THEN 15 ELSE 0)
             v == Degrees(t, f)
             s == [Now EXCEPT !.beta["overall"] = v]
  <2>1. Becomes(Refreshed(s)) /\ Handled /\ budgeted' \in BOOLEAN
    BY <1>4 DEF Assess, InLoop
  <2>2. t \in 0..100 /\ f \in 0..100
    <3> HIDE DEF many
    <3> QED OBVIOUS
  <2> HIDE DEF t, f
  <2>3. v \in Support
    BY <2>2 DEF Support, Degrees
  <2> HIDE DEF v
  <2>4. s \in Blameless
    BY <1>0, <2>3, ChangeIs DEF Belief
  <2> HIDE DEF s
  <2> QED BY <1>1, <2>1, <2>4, RefreshIs
<1>5. CASE LoopEnd
  <2> DEFINE v == IF Coherent(Now) THEN Degrees(100, 0) ELSE Degrees(0, 100)
             s == [Now EXCEPT !.beta["coherent"] = v]
  <2>1. Becomes(Refreshed(s)) /\ Handled /\ budgeted' \in BOOLEAN
    BY <1>5 DEF LoopEnd
  <2>2. v \in Support /\ v.f = 0
    BY <1>5 DEF LoopEnd, BeliefInv, Degrees, Support
  <2> HIDE DEF v
  <2>3. s \in Blameless
    BY <1>0, <2>2, ChangeIs DEF Belief
  <2> HIDE DEF s
  <2> QED BY <1>1, <2>1, <2>3, RefreshIs
<1>6. CASE SaveBeliefs
  BY <1>0, <1>6 DEF SaveBeliefs, BeliefInv, Now, Coherent, Settled, Blameless
<1>7. CASE StartAgain
  <2> DEFINE s == [beta |-> onDisk, nu |-> Gamma(onDisk)]
  <2>1. s \in Blameless
    BY <1>0, GammaIs DEF Blameless, Supported
  <2>2. Becomes(Refreshed(s)) /\ budgeted' = FALSE /\ UNCHANGED <<onDisk, updates>>
    BY <1>7 DEF StartAgain
  <2> HIDE DEF s
  <2>3. Refreshed(s) \in Blameless /\ Coherent(Refreshed(s)) /\ Refreshed(s) \in Settled
    BY <2>1, RefreshIs, SettledIs
  <2>4. Now' = Refreshed(s)
    BY <2>2, <2>3 DEF Becomes, Now, Blameless, Supported
  <2> QED BY <1>0, <2>2, <2>3, <2>4 DEF BeliefInv
<1>8. ASSUME NEW calls \in Calls, NEW raises \in BOOLEAN, ResearchCommand(calls, raises)
      PROVE  BeliefInv'
  <2> DEFINE s == AfterCalls(calls)
  <2>1. s \in Settled
    <3>1. PICK n \in 1..2 : calls \in [1..n -> BOOLEAN]
      BY DEF Calls
    <3>2. calls \in Seq(BOOLEAN)
      BY <3>1
    <3> QED BY <1>0, <3>2, CallsKeep
  <2>2. /\ Handled /\ budgeted' = FALSE /\ Becomes(IF raises THEN s ELSE Refreshed(s))
        /\ updates' \in 0..MaxUpdates /\ onDisk' = onDisk
    BY <1>8, BeliefAssumption DEF ResearchCommand, Handled, BeliefInv
  <2> HIDE DEF s
  <2>3. s \in Blameless
    BY <2>1 DEF Settled
  <2>4. CASE ~raises
    BY <1>1, <2>2, <2>3, <2>4, RefreshIs
  <2>5. CASE raises
    <3>1. Now' = s
      BY <2>2, <2>3, <2>5 DEF Becomes, Now, Blameless, Supported
    <3> QED BY <1>0, <2>1, <2>2, <3>1 DEF BeliefInv
  <2> QED BY <2>4, <2>5
<1>9. CASE UpdateBudgets
  <2>1. /\ Becomes(Refreshed(Now)) /\ budgeted' = TRUE /\ UNCHANGED <<onDisk, updates>>
    BY <1>9 DEF UpdateBudgets
  <2>2. Refreshed(Now) \in Blameless /\ Coherent(Refreshed(Now)) /\ Refreshed(Now) \in Settled
    BY <1>0, RefreshIs, SettledIs
  <2>3. Now' = Refreshed(Now)
    BY <2>1, <2>2 DEF Becomes, Now, Blameless, Supported
  <2>4. Coherent(Now)'
    BY <2>2, <2>3 DEF Coherent
  <2> QED BY <1>0, <2>1, <2>2, <2>3, <2>4 DEF BeliefInv
<1>10. CASE UNCHANGED beliefvars
  BY <1>10 DEF beliefvars, BeliefInv, Now, Coherent, Gamma
<1> QED BY <1>2, <1>3, <1>4, <1>5, <1>6, <1>7, <1>8, <1>9, <1>10 DEF BeliefNext

(* What the autonomous part of an iteration does, it does on verdicts that *)
(* are those the beliefs give; before it a research command that raised    *)
(* may have left the one on search behind, and no other; the state is      *)
(* never measured to be incoherent and no degree leaves its range          *)
(* (run_loop, update_bilateral_state, bilateral_or, bilateral_recover and  *)
(* the handlers of kernel/kernel.py, those an exception ends included).    *)
THEOREM BeliefsCohere == BeliefSpec => [](BeliefTypeOK /\ VerdictsFresh)
<1>1. BeliefInv => BeliefTypeOK /\ VerdictsFresh
  BY DEF BeliefInv, BeliefTypeOK, VerdictsFresh, Settled, Blameless, Supported, Now
<1> QED BY <1>1, BeliefInvInit, BeliefInvNext, PTL DEF BeliefSpec
-----------------------------------------------------------------------------
(* The training loop.                                                      *)

(* The microbatches before this epoch.                                     *)
Before(e) == (e - 1) * Batches

SameEpoch(of) == \A a, b \in ToSet(of) : (a - 1) \div Batches = (b - 1) \div Batches

(* What is accumulated is of this epoch and later than all that made a     *)
(* step; every microbatch makes at most one step or is accumulated.        *)
Accumulating ==
  /\ grads.of \in Seq(Nat)
  /\ \A x \in ToSet(grads.of) : x > Before(epoch) /\ x < Before(epoch) + batch
  /\ entered \in Seq(Seq(Nat))
  /\ \A i \in DOMAIN entered :
       /\ \A x \in ToSet(entered[i]) : /\ x < Before(epoch) + batch
                                       /\ \A y \in ToSet(grads.of) : x < y
       /\ \A j \in DOMAIN entered \ {i} : ToSet(entered[i]) \cap ToSet(entered[j]) = {}
       /\ SameEpoch(entered[i])

Healthy ==
  /\ grads.health \in Health /\ lossHealth \in Health
  /\ weights \in Health /\ moments \in Health
  /\ snapshots \in Seq(Health) /\ Len(snapshots) \in 1..3
  /\ saved \in [weights : Health, moments : Health]

Placed ==
  /\ run \in 1..MaxRuns /\ epoch \in 1..(Epochs + 1) /\ batch \in 1..(Batches + 1)
  /\ epoch > Epochs => batch = 1
  /\ accum \in 0..(Accum - 1) /\ steps \in Nat /\ steps + accum < Before(epoch) + batch

PTInv == Placed /\ Healthy /\ Accumulating

LEMMA BeforeIs ==
  ASSUME NEW e \in 1..(Epochs + 1)
  PROVE  /\ Before(e) \in Nat /\ Before(e + 1) = Before(e) + Batches
         /\ Micro \in Nat /\ Before(e) <= Micro
         /\ e <= Epochs => Before(e) + Batches <= Micro
         /\ Before(1) = 0
<1>0. Batches \in Nat \ {0} /\ Epochs \in Nat \ {0}
  BY PretrainAssumption
<1>1. (e - 1) * Batches \in Nat /\ Epochs * Batches \in Nat
  BY <1>0
<1>2. (e + 1 - 1) * Batches = (e - 1) * Batches + Batches
  BY <1>0
<1>3. ASSUME NEW d \in 0..Epochs PROVE d * Batches <= Epochs * Batches
  <2>1. (Epochs - d) * Batches >= 0
    <3>1. \A x, y \in Nat : x * y >= 0
      OBVIOUS
    <3> QED BY <1>0, <3>1
  <2>2. (Epochs - d) * Batches = Epochs * Batches - d * Batches
    BY <1>0
  <2>3. Epochs * Batches \in Nat /\ d * Batches \in Int
    BY <1>0
  <2> QED BY <2>1, <2>2, <2>3
<1>4. (e - 1) * Batches <= Epochs * Batches
  <2>1. e - 1 \in 0..Epochs
    BY <1>0
  <2> QED BY <1>3, <2>1
<1>5. e <= Epochs => (e - 1) * Batches + Batches <= Epochs * Batches
  <2> SUFFICES ASSUME e <= Epochs PROVE (e - 1) * Batches + Batches <= Epochs * Batches
    OBVIOUS
  <2>1. e * Batches <= Epochs * Batches
    BY <1>3
  <2>2. e * Batches = (e - 1) * Batches + Batches
    BY <1>0
  <2> QED BY <2>1, <2>2
<1>6. (1 - 1) * Batches = 0
  BY <1>0
<1> QED BY <1>1, <1>2, <1>4, <1>5, <1>6 DEF Before, Micro

LEMMA EpochOf ==
  ASSUME NEW e \in 1..(Epochs + 1), NEW x \in Nat, x > Before(e), x <= Before(e) + Batches
  PROVE  (x - 1) \div Batches = e - 1
<1> DEFINE r == x - 1 - Before(e)
<1>0. Batches \in Nat \ {0} /\ Before(e) \in Nat
  BY PretrainAssumption, BeforeIs
<1>1. r \in 0..(Batches - 1) /\ x - 1 = r + (e - 1) * Batches
  BY <1>0 DEF Before
<1> HIDE DEF r
<1>2. (r + (e - 1) * Batches) \div Batches = e - 1
  BY <1>0, <1>1
<1> QED BY <1>1, <1>2

LEMMA WorstIs == \A hs : Worst(hs) \in Health
BY DEF Worst, Health

LEMMA EntriesIn ==
  ASSUME NEW S, NEW s \in Seq(S)
  PROVE  \A x \in ToSet(s) : x \in S
BY DEF ToSet

LEMMA LastIs ==
  ASSUME NEW S, NEW s \in Seq(S), Len(s) \in 1..3
  PROVE  Last(s) \in S
<1>1. Len(s) \in DOMAIN s
  OBVIOUS
<1> QED BY <1>1 DEF Last

LEMMA StaysSeq ==
  ASSUME NEW S, NEW T, NEW s \in Seq(S), \A i \in DOMAIN s : s[i] \in T
  PROVE  s \in Seq(T)
OBVIOUS

LEMMA AppendIs ==
  ASSUME NEW s \in Seq(Nat), NEW x \in Nat
  PROVE  Append(s, x) \in Seq(Nat) /\ ToSet(Append(s, x)) = ToSet(s) \cup {x}
<1>1. /\ Append(s, x) \in Seq(Nat) /\ DOMAIN Append(s, x) = 1..(Len(s) + 1) /\ DOMAIN s = 1..Len(s)
      /\ \A i \in 1..Len(s) : Append(s, x)[i] = s[i]
      /\ Append(s, x)[Len(s) + 1] = x
  OBVIOUS
<1>2. 1..(Len(s) + 1) = 1..Len(s) \cup {Len(s) + 1}
  OBVIOUS
<1> HIDE DEF ToSet
<1>3. ToSet(Append(s, x)) = {Append(s, x)[i] : i \in 1..(Len(s) + 1)} /\ ToSet(s) = {s[i] : i \in 1..Len(s)}
  BY <1>1 DEF ToSet
<1> QED BY <1>1, <1>2, <1>3

(* The gradients g, not older than those there are, make a step.           *)
LEMMA StepKeeps ==
  ASSUME PTInv, NEW g, g.of \in Seq(Nat), g.health \in Health, NEW loss \in Health,
         NEW guarded \in BOOLEAN, Step(g, loss, guarded),
         NEW top \in Nat, Before(epoch) + batch <= top,
         \A x \in ToSet(g.of) : x > Before(epoch) /\ x < top /\ x <= Before(epoch) + Batches,
         \A i \in DOMAIN entered : \A x \in ToSet(entered[i]) : \A y \in ToSet(g.of) : x < y
  PROVE  /\ grads' = NoGrads /\ accum' = 0 /\ steps' = steps + 1
         /\ lossHealth' \in Health /\ weights' \in Health /\ moments' \in Health
         /\ snapshots' \in Seq(Health) /\ Len(snapshots') \in 1..3
         /\ entered' \in Seq(Seq(Nat))
         /\ \A i \in DOMAIN entered' :
              /\ \A x \in ToSet(entered'[i]) : x < top
              /\ \A j \in DOMAIN entered' \ {i} : ToSet(entered'[i]) \cap ToSet(entered'[j]) = {}
              /\ SameEpoch(entered'[i])
<1>1. /\ grads' = NoGrads /\ accum' = 0 /\ steps' = steps + 1 /\ lossHealth' \in Health
      /\ entered' = Append(entered, g.of)
  BY DEF Step, Used, Health
<1>2. Optimized(g).weights \in Health /\ Optimized(g).moments \in Health
  BY WorstIs DEF Optimized
<1>3. snapshots \in Seq(Health) /\ Len(snapshots) \in 1..3 /\ Last(snapshots) \in Health
  <2>1. snapshots \in Seq(Health) /\ Len(snapshots) \in 1..3
    BY DEF PTInv, Healthy
  <2> QED BY <2>1, LastIs
<1>4. \A w \in Health : Snapshots(w) \in Seq(Health) /\ Len(Snapshots(w)) \in 1..3
  <2> SUFFICES ASSUME NEW w \in Health PROVE Snapshots(w) \in Seq(Health) /\ Len(Snapshots(w)) \in 1..3
    OBVIOUS
  <2> DEFINE longer == Append(snapshots, w)
  <2>1. longer \in Seq(Health) /\ Len(longer) = Len(snapshots) + 1
    BY <1>3
  <2> HIDE DEF longer
  <2>2. Len(longer) > 3 => Tail(longer) \in Seq(Health) /\ Len(Tail(longer)) = Len(longer) - 1
    BY <1>3, <2>1
  <2>3. \/ Snapshots(w) = snapshots
        \/ Snapshots(w) = longer /\ ~(Len(longer) > 3)
        \/ Snapshots(w) = Tail(longer) /\ Len(longer) > 3
    BY DEF Snapshots, longer
  <2>4. CASE Snapshots(w) = snapshots
    BY <1>3, <2>4
  <2>5. CASE Snapshots(w) = longer /\ ~(Len(longer) > 3)
    <3>1. Len(longer) \in 1..3
      BY <1>3, <2>1, <2>5
    <3> QED BY <2>1, <2>5, <3>1
  <2>6. CASE Snapshots(w) = Tail(longer) /\ Len(longer) > 3
    <3>1. Len(longer) - 1 \in 1..3
      BY <1>3, <2>1, <2>6
    <3> QED BY <2>2, <2>6, <3>1
  <2> QED BY <2>3, <2>4, <2>5, <2>6
<1>5. /\ weights' \in Health /\ moments' \in Health
      /\ snapshots' \in Seq(Health) /\ Len(snapshots') \in 1..3
  <2>1. CASE guarded /\ loss = "broken"
    BY <1>2, <1>3, <2>1 DEF Step, Rollback, NewMoments, Health
  <2>2. CASE ~(guarded /\ loss = "broken")
    BY <1>2, <1>3, <1>4, <2>2 DEF Step
  <2> QED BY <2>1, <2>2
<1> DEFINE L == Len(entered)
<1>6. entered \in Seq(Seq(Nat)) /\ L \in Nat
  BY DEF PTInv, Accumulating
<1>7. /\ entered' \in Seq(Seq(Nat)) /\ DOMAIN entered' = DOMAIN entered \cup {L + 1}
      /\ L + 1 \notin DOMAIN entered
      /\ entered'[L + 1] = g.of /\ \A i \in DOMAIN entered : entered'[i] = entered[i]
  <2>1. entered' \in Seq(Seq(Nat)) /\ DOMAIN entered' = 1..(L + 1) /\ DOMAIN entered = 1..L
    BY <1>1, <1>6
  <2>2. entered'[L + 1] = g.of /\ \A i \in 1..L : entered'[i] = entered[i]
    BY <1>1, <1>6
  <2> HIDE DEF L
  <2> QED BY <1>6, <2>1, <2>2
<1> HIDE DEF L
<1>8. SameEpoch(g.of)
  <2> SUFFICES ASSUME NEW a \in ToSet(g.of) PROVE (a - 1) \div Batches = epoch - 1
    BY DEF SameEpoch
  <2>1. a \in Nat
    BY DEF ToSet
  <2> QED BY <2>1, EpochOf DEF PTInv, Placed
<1>9. \A i \in DOMAIN entered : /\ \A x \in ToSet(entered[i]) : x \in Nat /\ x < top
                                /\ ToSet(entered[i]) \cap ToSet(g.of) = {}
  <2> SUFFICES ASSUME NEW i \in DOMAIN entered PROVE
                 /\ \A x \in ToSet(entered[i]) : x \in Nat /\ x < top
                 /\ ToSet(entered[i]) \cap ToSet(g.of) = {}
    OBVIOUS
  <2>1. \A x \in ToSet(entered[i]) : x \in Nat
    BY <1>6 DEF ToSet
  <2>2. \A x \in ToSet(entered[i]) : x < Before(epoch) + batch
    BY DEF PTInv, Accumulating
  <2>3. Before(epoch) \in Nat /\ batch \in Nat
    BY BeforeIs DEF PTInv, Placed
  <2> QED BY <2>1, <2>2, <2>3
<1>10. /\ \A i \in DOMAIN entered' : \A x \in ToSet(entered'[i]) : x < top
       /\ \A i \in DOMAIN entered' : SameEpoch(entered'[i])
  BY <1>7, <1>8, <1>9 DEF PTInv, Accumulating
<1>11. \A i \in DOMAIN entered' : \A j \in DOMAIN entered' \ {i} : ToSet(entered'[i]) \cap ToSet(entered'[j]) = {}
  BY <1>7, <1>9 DEF PTInv, Accumulating
<1> QED BY <1>1, <1>5, <1>7, <1>10, <1>11

(* A run begins.                                                           *)
LEMMA RunBegins ==
  ASSUME NEW w \in Health, NEW m \in Health,
         run' \in 1..MaxRuns, epoch' = 1, batch' = 1, grads' = NoGrads, accum' = 0,
         lossHealth' = "sound", steps' = 0, weights' = w, moments' = m, snapshots' = <<w>>,
         saved' = [weights |-> w, moments |-> m], entered' = << >>
  PROVE  PTInv'
<1>0. {Batches, Epochs, Accum, MaxRuns} \subseteq Nat \ {0}
  BY PretrainAssumption
<1>1. Before(1) = 0
  BY <1>0, BeforeIs
<1>2. Placed'
  BY <1>0, <1>1 DEF Placed, Before
<1>3. Healthy'
  BY DEF Healthy, Health, NoGrads
<1>4. Accumulating'
  <2>1. grads'.of = << >> /\ << >> \in Seq(Nat) /\ ToSet(<< >>) = {} /\ << >> \in Seq(Seq(Nat)) /\ DOMAIN << >> = {}
    BY DEF NoGrads, ToSet
  <2> QED BY <2>1 DEF Accumulating
<1> QED BY <1>2, <1>3, <1>4 DEF PTInv

LEMMA PTInvInit == PTInit => PTInv
<1> SUFFICES ASSUME PTInit PROVE PTInv
  OBVIOUS
<1>0. {Batches, Epochs, Accum, MaxRuns} \subseteq Nat \ {0}
  BY PretrainAssumption
<1>1. Before(1) = 0
  BY <1>0, BeforeIs
<1>2. Placed
  BY <1>0, <1>1 DEF Placed, PTInit
<1>3. Healthy
  BY DEF Healthy, Health, NoGrads, PTInit
<1>4. Accumulating
  <2>1. grads.of = << >> /\ << >> \in Seq(Nat) /\ ToSet(<< >>) = {} /\ << >> \in Seq(Seq(Nat)) /\ DOMAIN << >> = {}
    BY DEF NoGrads, ToSet, PTInit
  <2> QED BY <2>1 DEF Accumulating, PTInit
<1> QED BY <1>2, <1>3, <1>4 DEF PTInv

(* The position moves on in the epoch with the gradients g.                *)
LEMMA MovesOn ==
  ASSUME PTInv, NEW g, grads' = g, g.of \in Seq(Nat), epoch' = epoch, batch' = batch + 1,
         g.of = grads.of \/ g.of = Append(grads.of, ThisMicro),
         entered' = entered
  PROVE  Accumulating'
<1> DEFINE b == Before(epoch)
<1>0. b \in Nat /\ batch \in Nat
  BY BeforeIs DEF PTInv, Placed
<1>1. ThisMicro = b + batch
  BY DEF ThisMicro, Before
<1>2. Before(epoch)' = b
  BY DEF Before
<1> HIDE DEF b
<1>3. \A x \in ToSet(g.of) : x \in ToSet(grads.of) \/ x = b + batch
  <2>1. grads.of \in Seq(Nat) /\ b + batch \in Nat
    BY <1>0 DEF PTInv, Accumulating
  <2>2. ToSet(Append(grads.of, b + batch)) = ToSet(grads.of) \cup {b + batch}
    BY <2>1, AppendIs
  <2> QED BY <1>1, <2>2
<1>4. \A x \in ToSet(grads.of) : x \in Nat /\ x > b /\ x < b + batch
  BY EntriesIn DEF PTInv, Accumulating, b
<1>5. \A x \in ToSet(g.of) : x > b /\ x < b + (batch + 1)
  <2>1. batch > 0
    BY PretrainAssumption DEF PTInv, Placed
  <2>2. b + batch > b /\ b + batch < b + (batch + 1)
    BY <1>0, <2>1
  <2>3. \A x \in ToSet(grads.of) : x > b /\ x < b + (batch + 1)
    BY <1>0, <1>4
  <2> QED BY <1>3, <2>2, <2>3
<1>6. \A i \in DOMAIN entered : \A x \in ToSet(entered[i]) : x \in Nat /\ x < b + batch
  <2>1. \A i \in DOMAIN entered : entered[i] \in Seq(Nat)
    BY DEF PTInv, Accumulating
  <2> QED BY <2>1, EntriesIn DEF PTInv, Accumulating, b
<1>7. \A i \in DOMAIN entered : \A x \in ToSet(entered[i]) :
         x < b + (batch + 1) /\ \A y \in ToSet(g.of) : x < y
  BY <1>0, <1>3, <1>6 DEF PTInv, Accumulating
<1> QED BY <1>2, <1>5, <1>7 DEF PTInv, Accumulating

LEMMA PTInvNext == PTInv /\ [PTNext]_pvars => PTInv'
<1> SUFFICES ASSUME PTInv, [PTNext]_pvars PROVE PTInv'
  OBVIOUS
<1> DEFINE b == Before(epoch)
<1>0. /\ {Batches, Epochs, Accum, MaxRuns} \subseteq Nat \ {0}
      /\ epoch \in 1..(Epochs + 1) /\ batch \in 1..(Batches + 1)
      /\ b \in Nat /\ Before(epoch + 1) = b + Batches /\ ThisMicro = b + batch
      /\ accum \in 0..(Accum - 1) /\ steps \in Nat /\ steps + accum < b + batch
  BY PretrainAssumption, BeforeIs DEF PTInv, Placed, ThisMicro, Before
<1>00. /\ grads.of \in Seq(Nat) /\ \A x \in ToSet(grads.of) : x \in Nat /\ x > b /\ x < b + batch
       /\ \A i \in DOMAIN entered : \A x \in ToSet(entered[i]) :
            x \in Nat /\ x < b + batch /\ \A y \in ToSet(grads.of) : x < y
  <2>1. grads.of \in Seq(Nat) /\ \A i \in DOMAIN entered : entered[i] \in Seq(Nat)
    BY DEF PTInv, Accumulating
  <2>2. \A x \in ToSet(grads.of) : x \in Nat
    BY <2>1, EntriesIn
  <2>3. \A i \in DOMAIN entered : \A x \in ToSet(entered[i]) : x \in Nat
    BY <2>1, EntriesIn
  <2> QED BY <2>1, <2>2, <2>3 DEF PTInv, Accumulating
<1> HIDE DEF b
<1>1. ASSUME NEW out \in Outcomes, Microbatch(out) PROVE PTInv'
  <2> DEFINE g == [of |-> Append(grads.of, ThisMicro), health |-> Worst({grads.health, out.grad})]
             l == Worst({lossHealth, out.loss})
  <2>1. /\ epoch \in 1..Epochs /\ batch \in 1..Batches /\ batch' = batch + 1
        /\ UNCHANGED <<run, epoch, saved>>
    BY <1>0, <1>1 DEF Microbatch, Running
  <2>2. g.of \in Seq(Nat) /\ ToSet(g.of) = ToSet(grads.of) \cup {b + batch}
        /\ g.of = Append(grads.of, ThisMicro) /\ g.health \in Health /\ l \in Health
    <3>1. ThisMicro \in Nat
      BY <1>0
    <3>2. g.of = Append(grads.of, ThisMicro) /\ g.health = Worst({grads.health, out.grad})
      OBVIOUS
    <3> HIDE DEF g
    <3>3. g.of \in Seq(Nat) /\ ToSet(g.of) = ToSet(grads.of) \cup {ThisMicro}
      BY <1>00, <3>1, <3>2, AppendIs
    <3> QED BY <1>0, <3>2, <3>3, WorstIs
  <2>3. Before(epoch)' = b
    BY <2>1 DEF Before, b
  <2>4. CASE accum + 1 < Accum
    <3>1. /\ grads' = g /\ accum' = accum + 1 /\ lossHealth' = l
          /\ UNCHANGED <<steps, weights, moments, snapshots, entered>>
      BY <1>1, <2>4 DEF Microbatch
    <3> HIDE DEF g, l
    <3>2. Accumulating'
      BY <2>1, <2>2, <3>1, MovesOn
    <3>3. Healthy'
      BY <2>1, <2>2, <3>1 DEF PTInv, Healthy
    <3>4. Placed'
      BY <1>0, <2>1, <2>3, <2>4, <3>1 DEF PTInv, Placed
    <3> QED BY <3>2, <3>3, <3>4 DEF PTInv
  <2>5. CASE ~(accum + 1 < Accum)
    <3>1. Step(g, l, TRUE)
      BY <1>1, <2>5 DEF Microbatch
    <3> HIDE DEF g, l
    <3> DEFINE top == b + (batch + 1)
    <3>2. top \in Nat /\ b + batch <= top
      BY <1>0
    <3>3. \A x \in ToSet(g.of) : x > b /\ x < top /\ x <= b + Batches
      <4>1. b + batch > b /\ b + batch < top /\ b + batch <= b + Batches
        BY <1>0, <2>1
      <4>2. \A x \in ToSet(grads.of) : x > b /\ x < top /\ x <= b + Batches
        BY <1>0, <1>00, <2>1
      <4> HIDE DEF g, top
      <4> QED BY <2>2, <4>1, <4>2
    <3>4. \A i \in DOMAIN entered : \A x \in ToSet(entered[i]) : \A y \in ToSet(g.of) : x < y
      BY <1>00, <2>2
    <3> HIDE DEF top
    <3>5. /\ grads' = NoGrads /\ accum' = 0 /\ steps' = steps + 1
          /\ lossHealth' \in Health /\ weights' \in Health /\ moments' \in Health
          /\ snapshots' \in Seq(Health) /\ Len(snapshots') \in 1..3
          /\ entered' \in Seq(Seq(Nat))
          /\ \A i \in DOMAIN entered' :
               /\ \A x \in ToSet(entered'[i]) : x < top
               /\ \A j \in DOMAIN entered' \ {i} : ToSet(entered'[i]) \cap ToSet(entered'[j]) = {}
               /\ SameEpoch(entered'[i])
      BY <2>2, <3>1, <3>2, <3>3, <3>4, StepKeeps DEF b
    <3>6. grads'.of = << >> /\ << >> \in Seq(Nat) /\ ToSet(<< >>) = {} /\ grads'.health \in Health
      BY <3>5 DEF NoGrads, ToSet, Health
    <3>7. Accumulating'
      BY <2>1, <2>3, <3>5, <3>6 DEF Accumulating, top, SameEpoch
    <3>8. Healthy'
      BY <2>1, <3>5, <3>6 DEF PTInv, Healthy
    <3>9. Placed'
      BY <1>0, <2>1, <2>3, <3>5 DEF PTInv, Placed
    <3> QED BY <3>7, <3>8, <3>9 DEF PTInv
  <2> QED BY <2>4, <2>5
<1>2. ASSUME NEW h \in Health, NEW inBackward \in BOOLEAN, Skip(h, inBackward) PROVE PTInv'
  <2>1. /\ epoch \in 1..Epochs /\ batch \in 1..Batches /\ batch' = batch + 1
        /\ UNCHANGED <<run, epoch, accum, lossHealth, steps, weights, moments, snapshots, saved, entered>>
    BY <1>0, <1>2 DEF Skip, Running
  <2>7. /\ grads'.of = grads.of \/ grads'.of = Append(grads.of, ThisMicro)
        /\ grads'.health \in Health
    BY <1>2, WorstIs DEF Skip, PTInv, Healthy
  <2>2. grads'.of \in Seq(Nat)
    <3>1. ThisMicro \in Nat
      BY <1>0
    <3> QED BY <1>00, <2>7, <3>1, AppendIs
  <2>3. Accumulating'
    BY <2>1, <2>2, <2>7, MovesOn
  <2>4. Healthy'
    BY <2>1, <2>7 DEF PTInv, Healthy
  <2>5. Before(epoch)' = b
    BY <2>1 DEF Before, b
  <2>6. Placed'
    BY <1>0, <2>1, <2>5 DEF PTInv, Placed
  <2> QED BY <2>3, <2>4, <2>6 DEF PTInv
<1>3. CASE EndEpoch
  <2>1. /\ epoch \in 1..Epochs /\ epoch' = epoch + 1 /\ batch' = 1 /\ UNCHANGED <<run, saved>>
    BY <1>0, <1>3 DEF EndEpoch
  <2> DEFINE top == b + Batches + 1
  <2>2. Before(epoch)' = b + Batches /\ top \in Nat /\ b + batch <= top
    BY <1>0, <2>1 DEF Before
  <2>3. grads' = NoGrads /\ grads'.of = << >> /\ << >> \in Seq(Nat) /\ ToSet(<< >>) = {}
        /\ grads'.health \in Health
    BY <1>3 DEF EndEpoch, Step, Used, NoGrads, ToSet, Health
  <2>4. CASE accum > 0 /\ ~Limited
    <3>1. Step(grads, lossHealth, FALSE)
      BY <1>3, <2>4 DEF EndEpoch
    <3>2. \A x \in ToSet(grads.of) : x > b /\ x < top /\ x <= b + Batches
      <4>1. b + batch <= b + Batches + 1 /\ b + Batches + 1 = top
        BY <1>0
      <4> HIDE DEF top
      <4> SUFFICES ASSUME NEW x \in ToSet(grads.of) PROVE x > b /\ x < top /\ x <= b + Batches
        OBVIOUS
      <4>2. x \in Nat /\ x > b /\ x < b + batch
        BY <1>00
      <4> QED BY <1>0, <4>1, <4>2
    <3> HIDE DEF top
    <3>3. /\ grads.health \in Health /\ lossHealth \in Health
      BY DEF PTInv, Healthy
    <3>4. /\ grads' = NoGrads /\ accum' = 0 /\ steps' = steps + 1
          /\ lossHealth' \in Health /\ weights' \in Health /\ moments' \in Health
          /\ snapshots' \in Seq(Health) /\ Len(snapshots') \in 1..3
          /\ entered' \in Seq(Seq(Nat))
          /\ \A i \in DOMAIN entered' :
               /\ \A x \in ToSet(entered'[i]) : x < top
               /\ \A j \in DOMAIN entered' \ {i} : ToSet(entered'[i]) \cap ToSet(entered'[j]) = {}
               /\ SameEpoch(entered'[i])
      BY <1>00, <2>2, <3>1, <3>2, <3>3, StepKeeps DEF b
    <3>5. Accumulating'
      BY <2>1, <2>2, <2>3, <3>4 DEF Accumulating, top, SameEpoch
    <3>6. Healthy'
      BY <2>1, <2>3, <3>4 DEF PTInv, Healthy
    <3>7. Placed'
      <4>1. steps + 1 < b + Batches + 1
        <5>1. accum \in Nat /\ accum > 0 /\ batch <= Batches + 1
          BY <1>0, <2>4
        <5> QED BY <1>0, <5>1
      <4>2. batch' \in 1..(Batches + 1) /\ epoch' \in 1..(Epochs + 1) /\ accum' \in 0..(Accum - 1)
            /\ steps' \in Nat /\ steps' + accum' < b + Batches + 1 /\ run' \in 1..MaxRuns
        <5>1. Batches \in Nat /\ Accum \in Nat \ {0}
          BY <1>0
        <5>2. batch' \in 1..(Batches + 1) /\ epoch' \in 1..(Epochs + 1) /\ accum' \in 0..(Accum - 1)
          BY <1>0, <2>1, <3>4, <5>1
        <5>3. steps' \in Nat /\ steps' + accum' < b + Batches + 1
          BY <1>0, <3>4, <4>1
        <5> QED BY <2>1, <5>2, <5>3 DEF PTInv, Placed
      <4> QED BY <2>1, <2>2, <4>2 DEF Placed
    <3> QED BY <3>5, <3>6, <3>7 DEF PTInv
  <2>5. CASE ~(accum > 0 /\ ~Limited)
    <3>1. accum' = 0 /\ lossHealth' = "sound" /\ UNCHANGED <<steps, weights, moments, snapshots, entered>>
      BY <1>3, <2>5 DEF EndEpoch
    <3>2. \A i \in DOMAIN entered : \A x \in ToSet(entered[i]) : x < top
      BY <1>0, <1>00
    <3>3. Accumulating'
      BY <2>1, <2>2, <2>3, <3>1, <3>2 DEF Accumulating, PTInv, SameEpoch
    <3>4. Healthy'
      BY <2>1, <2>3, <3>1 DEF PTInv, Healthy, Health
    <3>5. Placed'
      BY <1>0, <2>1, <2>2, <3>1 DEF PTInv, Placed
    <3> QED BY <3>3, <3>4, <3>5 DEF PTInv
  <2> QED BY <2>4, <2>5
<1>4. ASSUME NEW w \in Health, NEW m \in Health, NextRun([weights |-> w, moments |-> m]) PROVE PTInv'
  <2>1. run' \in 1..MaxRuns
    BY <1>0, <1>4 DEF NextRun, PTInv, Placed
  <2> QED BY <1>4, <2>1, RunBegins DEF NextRun
<1>5. CASE SaveAndResume
  BY <1>4, <1>5 DEF SaveAndResume, PTInv, Healthy
<1>6. CASE Killed
  <2>1. saved.weights \in Health /\ saved.moments \in Health
        /\ saved = [weights |-> saved.weights, moments |-> saved.moments]
    BY DEF PTInv, Healthy
  <2> QED BY <1>4, <1>6, <2>1 DEF Killed
<1>7. CASE UNCHANGED pvars
  BY <1>7 DEF pvars, PTInv, Placed, Healthy, Accumulating, Before, SameEpoch
<1> QED BY <1>1, <1>2, <1>3, <1>5, <1>6, <1>7 DEF PTNext

(* The gradient of a microbatch makes at most one step of its run, and one *)
(* of its own epoch, through skips, failures halfway, checkpoints that are *)
(* resumed and the limit of steps (the loop of training/pretrain.py).      *)
THEOREM OneStepEach == PTSpec => [](PTTypeOK /\ StepsDisjoint)
<1>1. PTInv => PTTypeOK
  <2> SUFFICES ASSUME PTInv PROVE PTTypeOK
    OBVIOUS
  <2> DEFINE b == Before(epoch)
  <2>1. b \in Nat /\ batch \in Nat /\ b + batch <= Micro + 1 /\ Micro \in Nat
    BY BeforeIs, PretrainAssumption DEF PTInv, Placed
  <2>2. steps \in 0..Micro
    <3> HIDE DEF b
    <3>1. steps \in Nat /\ accum \in Nat /\ steps + accum < b + batch
      BY PretrainAssumption DEF PTInv, Placed, b
    <3> QED BY <2>1, <3>1
  <2>3. grads.of \in Seq(1..Micro)
    <3>1. \A x \in ToSet(grads.of) : x \in Nat /\ x > b /\ x < b + batch
      BY EntriesIn DEF PTInv, Accumulating
    <3> HIDE DEF b
    <3>2. \A x \in ToSet(grads.of) : x \in 1..Micro
      BY <2>1, <3>1
    <3> DEFINE of == grads.of
    <3>3. of \in Seq(Nat)
      BY DEF PTInv, Accumulating
    <3>4. \A i \in DOMAIN of : of[i] \in 1..Micro
      BY <3>2 DEF ToSet
    <3> HIDE DEF of
    <3>5. of \in Seq(1..Micro)
      BY <3>3, <3>4, StaysSeq
    <3> QED BY <3>5 DEF of
  <2> QED BY <2>2, <2>3 DEF PTInv, Placed, Healthy, PTTypeOK
<1>2. PTInv => StepsDisjoint
  BY DEF PTInv, Accumulating, StepsDisjoint, SameEpoch
<1> QED BY <1>1, <1>2, PTInvInit, PTInvNext, PTL DEF PTSpec
-----------------------------------------------------------------------------
(* The corpus.                                                             *)

Shards == Seq(Seq(Possible))

(* w is what the shards of s hold, one after the other.                    *)
Joined(s, f) == /\ f \in [1..Len(s) -> Seq(Possible)] /\ f[1] = s[1]
                /\ \A n \in 2..Len(s) : f[n] = f[n - 1] \o s[n]
Holds(s, w) == \E f : Joined(s, f) /\ f[Len(s)] = w

Exported == [lineage : {e.lineage : e \in Possible}, class : {"K", "A", "B", "G"}]

StreamInv ==
  /\ stream \in Shards /\ Len(stream) # 0 /\ count \in 0..(ShardSize - 1)
  /\ Len(stream[Len(stream)]) = count
  /\ \A i \in DOMAIN stream : Len(stream[i]) <= ShardSize
  /\ Holds(stream, written)

ListInv == live \in [Lists -> {s \in Seq(Observation) : Len(s) <= LiveCap}]

ExportInv ==
  /\ corpus \in Seq(Seq(Exported))
  /\ \A i \in DOMAIN corpus : Len(corpus[i]) \in 1..ShardSize

StreamLine == (1..Len(stream)) \X (1..ShardSize)

SplitInv == trained \cup evaluated \subseteq StreamLine \cup {ValLine}

CorpusInv == StreamInv /\ ListInv /\ ExportInv /\ SplitInv

LEMMA Sizes == ShardSize \in Nat \ {0} /\ LiveCap \in Nat \ {0} /\ ExplicitVal \in BOOLEAN
BY CorpusAssumption

LEMMA HoldsWhole ==
  ASSUME NEW s \in Shards, Len(s) # 0, NEW w, Holds(s, w)
  PROVE  FlattenSeq(s) = w
<1> DEFINE N == Len(s)
           rec(f) == [i \in 1..N |-> IF i = 1 THEN s[i] ELSE f[i - 1] \o s[i]]
           flatten == CHOOSE f : f = rec(f)
<1>1. N \in Nat \ {0}
  BY DEF Shards
<1>2. PICK f : Joined(s, f) /\ f[N] = w
  BY DEF Holds
<1>3. f = rec(f)
  <2>1. f \in [1..N -> Seq(Possible)] /\ f[1] = s[1] /\ \A n \in 2..N : f[n] = f[n - 1] \o s[n]
    BY <1>2 DEF Joined
  <2>2. \A i \in 1..N : f[i] = rec(f)[i]
    <3> SUFFICES ASSUME NEW i \in 1..N PROVE f[i] = rec(f)[i]
      OBVIOUS
    <3>1. i = 1 \/ i \in 2..N
      BY <1>1
    <3> QED BY <2>1, <3>1
  <2> QED BY <2>1, <2>2
<1>4. flatten = rec(flatten)
  BY <1>3
<1> DEFINE S == {n \in 0..N : n # 0 => flatten[n] = f[n]}
<1>5. 0..N \subseteq S
  <2> HIDE DEF flatten
  <2>1. 0 \in S
    BY <1>1
  <2>2. ASSUME NEW n \in 1..N, n - 1 \in S PROVE n \in S
    <3>1. flatten[n] = rec(flatten)[n] /\ f[n] = rec(f)[n]
      BY <1>3, <1>4
    <3>2. CASE n = 1
      <4>1. flatten[1] = s[1] /\ f[1] = s[1]
        BY <3>1, <3>2
      <4> QED BY <1>1, <3>2, <4>1
    <3>3. CASE n # 1
      <4>1. flatten[n] = flatten[n - 1] \o s[n] /\ f[n] = f[n - 1] \o s[n]
        BY <3>1, <3>3
      <4>2. flatten[n - 1] = f[n - 1]
        BY <1>1, <2>2, <3>3
      <4>3. flatten[n] = f[n]
        BY <4>1, <4>2
      <4> QED BY <1>1, <4>3
    <3> QED BY <3>2, <3>3
  <2> HIDE DEF S, N
  <2> QED BY <1>1, <2>1, <2>2, Induction
<1>6. FlattenSeq(s) = flatten[N]
  BY <1>1 DEF FlattenSeq
<1> HIDE DEF flatten
<1>7. flatten[N] = f[N]
  BY <1>1, <1>5
<1> QED BY <1>2, <1>6, <1>7

(* A line is written to the last shard, an empty shard is opened.          *)
Longer(s, x) == [s EXCEPT ![Len(s)] = Append(@, x)]

LEMMA LongerIs ==
  ASSUME NEW s \in Shards, Len(s) # 0, NEW x \in Possible
  PROVE  /\ Longer(s, x) \in Shards /\ Len(Longer(s, x)) = Len(s)
         /\ DOMAIN Longer(s, x) = 1..Len(s) /\ Len(s) \in Nat /\ Len(s) \in 1..Len(s)
         /\ \A i \in 1..Len(s) : Longer(s, x)[i] = IF i = Len(s) THEN Append(s[i], x) ELSE s[i]
         /\ \A i \in 1..Len(s) : s[i] \in Seq(Possible)
<1>1. Len(s) \in Nat /\ Len(s) \in 1..Len(s) /\ DOMAIN s = 1..Len(s)
  BY DEF Shards
<1>2. \A i \in 1..Len(s) : s[i] \in Seq(Possible)
  BY <1>1 DEF Shards
<1>3. Append(s[Len(s)], x) \in Seq(Possible)
  BY <1>1, <1>2
<1>4. Longer(s, x) = [s EXCEPT ![Len(s)] = Append(s[Len(s)], x)]
  BY DEF Longer
<1>5. Longer(s, x) \in Shards /\ Len(Longer(s, x)) = Len(s)
  BY <1>1, <1>3, <1>4 DEF Shards
<1>6. DOMAIN Longer(s, x) = 1..Len(s)
        /\ \A i \in 1..Len(s) : Longer(s, x)[i] = IF i = Len(s) THEN Append(s[i], x) ELSE s[i]
  BY <1>1, <1>4 DEF Shards
<1> QED BY <1>1, <1>2, <1>5, <1>6

LEMMA HoldsLonger ==
  ASSUME NEW s \in Shards, Len(s) # 0, NEW x \in Possible, NEW w, Holds(s, w)
  PROVE  Holds(Longer(s, x), Append(w, x))
<1> DEFINE L == Len(s)
           t == Longer(s, x)
<1>1. PICK f : Joined(s, f) /\ f[L] = w
  BY DEF Holds
<1>2. /\ L \in Nat /\ L \in 1..L /\ Len(t) = L
      /\ \A i \in 1..L : t[i] = IF i = L THEN Append(s[i], x) ELSE s[i]
      /\ \A i \in 1..L : s[i] \in Seq(Possible)
  BY LongerIs
<1>3. f \in [1..L -> Seq(Possible)] /\ f[1] = s[1] /\ \A n \in 2..L : f[n] = f[n - 1] \o s[n]
  BY <1>1 DEF Joined
<1> DEFINE g == [i \in 1..L |-> IF i = L THEN Append(f[L], x) ELSE f[i]]
<1> HIDE DEF L, t
<1>4. g \in [1..L -> Seq(Possible)] /\ g[L] = Append(w, x)
  <2>1. Append(f[L], x) \in Seq(Possible)
    BY <1>2, <1>3
  <2> QED BY <1>1, <1>2, <1>3, <2>1
<1>5. g[1] = t[1]
  BY <1>2, <1>3
<1>6. ASSUME NEW n \in 2..L PROVE g[n] = g[n - 1] \o t[n]
  <2>1. n - 1 \in 1..L /\ n - 1 # L /\ n \in 1..L
    BY <1>2
  <2>2. g[n - 1] = f[n - 1] /\ f[n] = f[n - 1] \o s[n]
    BY <1>3, <2>1
  <2>3. CASE n = L
    <3> DEFINE a == f[n - 1]
               b == s[n]
    <3>1. a \in Seq(Possible) /\ b \in Seq(Possible)
      BY <1>2, <1>3, <2>1
    <3>2. g[n] = Append(a \o b, x) /\ t[n] = Append(b, x)
      BY <1>2, <2>1, <2>2, <2>3
    <3> HIDE DEF a, b
    <3>3. Append(a \o b, x) = a \o Append(b, x)
      BY <3>1
    <3> QED BY <2>2, <3>2, <3>3 DEF a
  <2>4. CASE n # L
    <3>1. g[n] = f[n] /\ t[n] = s[n]
      BY <1>2, <2>1, <2>4
    <3> QED BY <2>2, <3>1
  <2> QED BY <2>3, <2>4
<1> HIDE DEF g
<1> QED BY <1>2, <1>4, <1>5, <1>6 DEF Holds, Joined, t

LEMMA HoldsOpened ==
  ASSUME NEW s \in Shards, Len(s) # 0, NEW w, Holds(s, w)
  PROVE  Holds(Append(s, << >>), w)
<1> DEFINE L == Len(s)
           t == Append(s, << >>)
<1>1. PICK f : Joined(s, f) /\ f[L] = w
  BY DEF Holds
<1>2. L \in Nat \ {0} /\ Len(t) = L + 1 /\ t[L + 1] = << >> /\ \A i \in 1..L : t[i] = s[i]
  BY DEF Shards
<1>3. f \in [1..L -> Seq(Possible)] /\ f[1] = s[1] /\ \A n \in 2..L : f[n] = f[n - 1] \o s[n]
  BY <1>1 DEF Joined
<1> DEFINE g == [i \in 1..(L + 1) |-> IF i = L + 1 THEN w ELSE f[i]]
<1> HIDE DEF L, t
<1>4. w \in Seq(Possible) /\ g \in [1..(L + 1) -> Seq(Possible)] /\ g[L + 1] = w
  <2>1. w \in Seq(Possible)
    BY <1>1, <1>2, <1>3
  <2> QED BY <1>2, <1>3, <2>1
<1>5. g[1] = t[1]
  BY <1>2, <1>3
<1>6. ASSUME NEW n \in 2..(L + 1) PROVE g[n] = g[n - 1] \o t[n]
  <2>1. CASE n = L + 1
    <3>1. g[n] = w /\ g[n - 1] = w /\ t[n] = << >>
      BY <1>1, <1>2, <2>1
    <3>2. w \o << >> = w
      BY <1>4
    <3> QED BY <3>1, <3>2
  <2>2. CASE n # L + 1
    <3>1. n \in 2..L /\ g[n] = f[n] /\ g[n - 1] = f[n - 1] /\ t[n] = s[n]
      BY <1>2, <2>2
    <3> QED BY <1>3, <3>1
  <2> QED BY <2>1, <2>2
<1> HIDE DEF g
<1> QED BY <1>2, <1>4, <1>5, <1>6 DEF Holds, Joined, t

LEMMA JoinIs ==
  ASSUME NEW S, NEW a \in Seq(S), NEW b \in Seq(S)
  PROVE  /\ a \o b \in Seq(S)
         /\ \A i \in DOMAIN (a \o b) :
              (\E j \in DOMAIN a : (a \o b)[i] = a[j]) \/ (\E j \in DOMAIN b : (a \o b)[i] = b[j])
<1>1. /\ a \o b \in Seq(S) /\ DOMAIN (a \o b) = 1..(Len(a) + Len(b))
      /\ Len(a) \in Nat /\ Len(b) \in Nat /\ DOMAIN a = 1..Len(a) /\ DOMAIN b = 1..Len(b)
      /\ \A i \in 1..(Len(a) + Len(b)) : (a \o b)[i] = IF i <= Len(a) THEN a[i] ELSE b[i - Len(a)]
  OBVIOUS
<1>2. ASSUME NEW i \in 1..(Len(a) + Len(b))
      PROVE  (\E j \in DOMAIN a : (a \o b)[i] = a[j]) \/ (\E j \in DOMAIN b : (a \o b)[i] = b[j])
  <2>1. CASE i <= Len(a)
    BY <1>1, <2>1
  <2>2. CASE ~(i <= Len(a))
    <3>1. i - Len(a) \in 1..Len(b)
      BY <1>1, <2>2
    <3> QED BY <1>1, <2>2, <3>1
  <2> QED BY <2>1, <2>2
<1> QED BY <1>1, <1>2

LEMMA SuffixIs ==
  ASSUME NEW S, NEW s \in Seq(S), NEW T, NEW t \in Seq(T)
  PROVE  LET old == SubSeq(s, Len(t) + 1, Len(s)) IN
         old \in Seq(S) /\ \A i \in DOMAIN old : \E j \in DOMAIN s : old[i] = s[j]
<1> DEFINE m == Len(t) + 1
           old == SubSeq(s, m, Len(s))
<1>1. m \in Nat \ {0} /\ Len(s) \in Nat /\ DOMAIN s = 1..Len(s)
  OBVIOUS
<1> HIDE DEF m
<1>2. CASE m <= Len(s)
  <2>1. m \in 1..Len(s)
    BY <1>1, <1>2
  <2>2. /\ old \in Seq(S) /\ Len(old) = Len(s) - m + 1
        /\ \A i \in 1..(Len(s) - m + 1) : old[i] = s[m + i - 1]
    BY <1>1, <2>1
  <2> HIDE DEF old
  <2>3. \A i \in 1..(Len(s) - m + 1) : m + i - 1 \in 1..Len(s)
    BY <1>1, <2>1
  <2>4. DOMAIN old = 1..(Len(s) - m + 1)
    BY <2>2
  <2> QED BY <1>1, <2>2, <2>3, <2>4 DEF m, old
<1>3. CASE ~(m <= Len(s))
  <2>1. old = << >>
    BY <1>1, <1>3
  <2> QED BY <2>1 DEF m
<1> QED BY <1>2, <1>3

(* What is exported.                                                       *)
LEMMA ExamplesIs ==
  ASSUME ListInv, NEW k \in Lists
  PROVE  ExamplesOf(k) \in Seq(Possible)
<1> DEFINE I == {i \in DOMAIN live[k] : live[k][i].kind # "status"}
           told == Pick(live[k], I)
<1>1. live[k] \in Seq(Observation)
  BY DEF ListInv
<1>2. I \in SUBSET DOMAIN live[k]
  OBVIOUS
<1>3. told \in Seq(Observation) /\ \A i \in DOMAIN told : told[i].kind # "status"
  <2>1. \A i \in I : live[k][i].kind # "status"
    OBVIOUS
  <2> HIDE DEF I
  <2>2. told \in Seq(Observation) /\ \A i \in DOMAIN told : Kth(I, i) \in I /\ told[i] = live[k][Kth(I, i)]
    BY <1>1, <1>2, PickIs
  <2> QED BY <2>1, <2>2
<1>4. ExamplesOf(k) = [i \in DOMAIN told |-> ExampleOf(told[i])]
  BY DEF ExamplesOf
<1> HIDE DEF told
<1>5. \A i \in DOMAIN told : ExampleOf(told[i]) \in Possible
  BY <1>3 DEF Possible
<1>6. DOMAIN told = 1..Len(told) /\ Len(told) \in Nat
  BY <1>3
<1> QED BY <1>4, <1>5, <1>6

LEMMA MergedIs ==
  ASSUME NEW s \in Seq(Possible)
  PROVE  LET out == Merged(s) IN
         /\ Len(out) \in Nat /\ DOMAIN out = 1..Len(out)
         /\ \A i \in DOMAIN out : out[i].lineage \in {e.lineage : e \in Possible}
<1> DEFINE of(l)  == {i \in DOMAIN s : s[i].lineage = l}
           one(l) == [lineage |-> l, t |-> Highest({s[i].t : i \in of(l)}),
                      f |-> Highest({s[i].f : i \in of(l)})]
           T == {one(l) : l \in Lineages(s)}
           f == [i \in 1..Len(s) |-> one(s[i].lineage)]
<1>1. Len(s) \in Nat /\ \A i \in 1..Len(s) : s[i] \in Possible /\ DOMAIN s = 1..Len(s)
  OBVIOUS
<1>2. f \in Surjection(1..Len(s), T)
  <2>1. \A i \in 1..Len(s) : s[i].lineage \in Lineages(s)
    BY <1>1 DEF Lineages
  <2>2. \A l \in Lineages(s) : \E i \in 1..Len(s) : l = s[i].lineage
    BY <1>1 DEF Lineages
  <2> HIDE DEF one
  <2>3. f \in [1..Len(s) -> T]
    BY <2>1
  <2>4. \A x \in T : \E i \in 1..Len(s) : f[i] = x
    BY <2>2
  <2> HIDE DEF f, T
  <2> QED BY <2>3, <2>4 DEF Surjection
<1>3. IsFiniteSet(T)
  <2>1. IsFiniteSet(1..Len(s))
    BY <1>1, FS_Interval
  <2> HIDE DEF f, T
  <2> QED BY <1>2, <2>1, FS_Surjection
<1>4. \A x \in T : x.lineage \in {e.lineage : e \in Possible}
  <2>1. \A l \in Lineages(s) : l \in {e.lineage : e \in Possible}
    BY <1>1 DEF Lineages
  <2>2. \A l : one(l).lineage = l
    OBVIOUS
  <2> HIDE DEF one
  <2> QED BY <2>1, <2>2
<1>5. Merged(s) = SetToSeq(T)
  BY DEF Merged
<1> HIDE DEF T
<1>6. SetToSeq(T) \in [1..Cardinality(T) -> T] /\ Len(SetToSeq(T)) = Cardinality(T) /\ Cardinality(T) \in Nat
  BY <1>3, SetToSeqIs
<1> QED BY <1>4, <1>5, <1>6

LEMMA ShardedIs ==
  ASSUME NEW S, NEW s \in Seq(S)
  PROVE  /\ Sharded(s) \in Seq(Seq(S))
         /\ \A i \in DOMAIN Sharded(s) : Len(Sharded(s)[i]) \in 1..ShardSize
<1> DEFINE N == (Len(s) + ShardSize - 1) \div ShardSize
           end(i) == IF i * ShardSize < Len(s) THEN i * ShardSize ELSE Len(s)
           piece(i) == SubSeq(s, (i - 1) * ShardSize + 1, end(i))
<1>1. ShardSize \in Nat \ {0} /\ Len(s) \in Nat
  BY Sizes
<1>2. N \in Nat /\ N * ShardSize <= Len(s) + ShardSize - 1
  BY <1>1
<1>3. ASSUME NEW i \in 1..N PROVE piece(i) \in Seq(S) /\ Len(piece(i)) \in 1..ShardSize
  <2> DEFINE p == (i - 1) * ShardSize
             q == i * ShardSize
  <2>1. p \in Nat /\ q \in Nat /\ q = p + ShardSize
    BY <1>1, <1>2
  <2>2. q <= N * ShardSize
    <3>1. i * ShardSize + (N - i) * ShardSize = N * ShardSize
      BY <1>1, <1>2
    <3>2. N - i \in Nat
      BY <1>2
    <3>3. (N - i) * ShardSize \in Nat
      <4> HIDE DEF N
      <4> QED BY <1>1, <3>2
    <3>4. N * ShardSize \in Nat
      <4> HIDE DEF N
      <4> QED BY <1>1, <1>2
    <3> DEFINE r == (N - i) * ShardSize
               u == N * ShardSize
    <3> HIDE DEF r, u, q, N
    <3> QED BY <2>1, <3>1, <3>3, <3>4 DEF r, u, q
  <2> DEFINE u == N * ShardSize
  <2>3. p + 1 <= Len(s)
    <3>1. u \in Int /\ u <= Len(s) + ShardSize - 1 /\ q <= u
      <4> HIDE DEF N
      <4> QED BY <1>1, <1>2, <2>2
    <3> HIDE DEF u, p, q
    <3> QED BY <1>1, <2>1, <3>1
  <2> DEFINE e == end(i)
  <2>4. e = (IF q < Len(s) THEN q ELSE Len(s))
    OBVIOUS
  <2>5. piece(i) = SubSeq(s, p + 1, e)
    OBVIOUS
  <2> HIDE DEF p, q, u, e
  <2>6. p + 1 \in 1..Len(s) /\ e \in 1..Len(s) /\ e - p \in 1..ShardSize
    BY <1>1, <2>1, <2>3, <2>4
  <2>7. SubSeq(s, p + 1, e) \in Seq(S) /\ Len(SubSeq(s, p + 1, e)) = e - p
    BY <1>1, <2>1, <2>6
  <2> HIDE DEF piece
  <2> QED BY <2>5, <2>6, <2>7
<1>4. Sharded(s) = [i \in 1..N |-> piece(i)]
  BY DEF Sharded
<1> HIDE DEF N, piece
<1>5. [i \in 1..N |-> piece(i)] \in Seq(Seq(S))
  BY <1>2, <1>3
<1> QED BY <1>3, <1>4, <1>5

(* The lines of a split are lines of the stream, or the explicit one.      *)
LEMMA LinesIs ==
  ASSUME StreamInv, NEW S
  PROVE  /\ Lines(S) \subseteq StreamLine \cup (IF 0 \in S THEN {ValLine} ELSE {})
         /\ S = {0} => Lines(S) = {ValLine}
<1>1. ASSUME NEW i, NEW j \in DOMAIN Shard(i) PROVE <<i, j>> \in StreamLine
  <2>1. CASE i \in 1..Len(stream)
    <3>1. stream[i] \in Seq(Possible) /\ Len(stream[i]) <= ShardSize
      BY <2>1 DEF StreamInv, Shards
    <3>2. j \in DOMAIN stream[i]
      BY <1>1, <2>1 DEF Shard
    <3>3. j \in 1..ShardSize
      BY <3>1, <3>2, Sizes
    <3> QED BY <2>1, <3>3 DEF StreamLine
  <2>2. CASE i \notin 1..Len(stream)
    BY <1>1, <2>2 DEF Shard
  <2> QED BY <2>1, <2>2
<1>2. UNION {{<<i, j>> : j \in DOMAIN Shard(i)} : i \in S \ {0}} \subseteq StreamLine
  BY <1>1
<1> DEFINE own == UNION {{<<i, j>> : j \in DOMAIN Shard(i)} : i \in S \ {0}}
<1>3. Lines(S) = own \cup (IF 0 \in S THEN {ValLine} ELSE {})
  BY DEF Lines
<1>4. own \subseteq StreamLine
  BY <1>2
<1>5. S = {0} => own = {}
  <2> SUFFICES ASSUME S = {0}, NEW l \in own PROVE FALSE
    OBVIOUS
  <2>1. \E i \in S \ {0} : l \in {<<i, j>> : j \in DOMAIN Shard(i)}
    OBVIOUS
  <2> QED BY <2>1
<1> HIDE DEF own
<1> QED BY <1>3, <1>4, <1>5

LEMMA CorpusInvInit == CorpusInit => CorpusInv
<1> SUFFICES ASSUME CorpusInit PROVE CorpusInv
  OBVIOUS
<1>1. stream = << << >> >> /\ Len(stream) = 1 /\ stream[1] = << >> /\ count = 0 /\ written = << >>
      /\ stream \in Shards /\ DOMAIN stream = {1}
  BY DEF CorpusInit, Shards
<1>2. Holds(stream, written)
  <2> DEFINE f == [i \in 1..1 |-> << >>]
  <2>1. f \in [1..1 -> Seq(Possible)] /\ f[1] = << >>
    OBVIOUS
  <2> HIDE DEF f
  <2>2. Joined(stream, f) /\ f[Len(stream)] = written
    BY <1>1, <2>1 DEF Joined
  <2> QED BY <2>2 DEF Holds
<1>3. StreamInv
  BY <1>1, <1>2, Sizes DEF StreamInv
<1>4. ListInv
  BY Sizes DEF ListInv, CorpusInit
<1>5. ExportInv /\ SplitInv
  BY DEF ExportInv, SplitInv, CorpusInit
<1> QED BY <1>3, <1>4, <1>5 DEF CorpusInv

LEMMA CorpusInvNext == CorpusInv /\ [CorpusNext]_corpusvars => CorpusInv'
<1> SUFFICES ASSUME CorpusInv, [CorpusNext]_corpusvars PROVE CorpusInv'
  OBVIOUS
<1>0. /\ stream \in Shards /\ Len(stream) # 0 /\ Len(stream) \in Nat /\ count \in 0..(ShardSize - 1)
      /\ ShardSize \in Nat \ {0} /\ LiveCap \in Nat \ {0}
      /\ StreamInv /\ ListInv /\ ExportInv /\ SplitInv
  BY Sizes DEF CorpusInv, StreamInv, Shards
<1>1. ASSUME NEW o \in Observation, NEW fails \in BOOLEAN, Record(o, fails) PROVE CorpusInv'
  <2>1. ListInv'
    <3> DEFINE k == ListOf(o)
               full == Append(live[k], o)
    <3>1. k \in Lists
      BY CorpusAssumption DEF ListOf, Lists, Kinds
    <3>2. live[k] \in Seq(Observation) /\ Len(live[k]) <= LiveCap
      BY <1>0, <3>1 DEF ListInv
    <3>3. full \in Seq(Observation) /\ Len(full) = Len(live[k]) + 1 /\ Len(live[k]) \in Nat
      BY <3>2
    <3>4. live' = [live EXCEPT ![k] = Kept(full)]
      BY <1>1 DEF Record
    <3> HIDE DEF full
    <3>5. Kept(full) \in {s \in Seq(Observation) : Len(s) <= LiveCap}
      <4>1. CASE Len(full) > LiveCap
        <5>1. Tail(full) \in Seq(Observation) /\ Len(Tail(full)) = Len(full) - 1
          BY <1>0, <3>3, <4>1
        <5> QED BY <1>0, <3>2, <3>3, <4>1, <5>1 DEF Kept
      <4>2. CASE ~(Len(full) > LiveCap)
        BY <1>0, <3>3, <4>2 DEF Kept
      <4> QED BY <4>1, <4>2
    <3> HIDE DEF k
    <3> QED BY <1>0, <3>1, <3>4, <3>5 DEF ListInv
  <2>2. CASE fails \/ o.kind = "status"
    <3>1. UNCHANGED <<stream, count, written, corpus, trained, evaluated>>
      BY <1>1, <2>2 DEF Record
    <3> QED BY <1>0, <2>1, <3>1 DEF CorpusInv, StreamInv, ExportInv, SplitInv, StreamLine
  <2>3. CASE ~(fails \/ o.kind = "status")
    <3> DEFINE x == ExampleOf(o)
               grown == Longer(stream, x)
               L == Len(stream)
    <3>1. x \in Possible
      BY <2>3 DEF Possible
    <3>2. /\ written' = Append(written, x)
          /\ IF count + 1 >= ShardSize
             THEN stream' = Append(grown, << >>) /\ count' = 0
             ELSE stream' = grown /\ count' = count + 1
          /\ UNCHANGED <<corpus, trained, evaluated>>
      BY <1>1, <2>3 DEF Record, Append1, Longer
    <3> HIDE DEF x
    <3>3. /\ grown \in Shards /\ Len(grown) = L /\ DOMAIN grown = 1..L /\ L \in 1..L /\ L \in Nat
          /\ \A i \in 1..L : grown[i] = IF i = L THEN Append(stream[i], x) ELSE stream[i]
          /\ \A i \in 1..L : stream[i] \in Seq(Possible)
      BY <1>0, <3>1, LongerIs
    <3>4. Holds(grown, Append(written, x))
      BY <1>0, <3>1, HoldsLonger DEF StreamInv
    <3> HIDE DEF grown
    <3>5. Len(grown[L]) = count + 1
      <4> DEFINE e == stream[L]
      <4>1. e \in Seq(Possible) /\ Len(e) = count /\ grown[L] = Append(e, x)
        BY <1>0, <3>3 DEF StreamInv
      <4> HIDE DEF e, L
      <4> QED BY <3>1, <4>1
    <3>10. DOMAIN stream = 1..L
      BY <1>0 DEF Shards
    <3>6. \A i \in 1..L : Len(grown[i]) <= ShardSize
      <4> SUFFICES ASSUME NEW i \in 1..L PROVE Len(grown[i]) <= ShardSize
        OBVIOUS
      <4>1. CASE i = L
        BY <1>0, <3>5, <4>1
      <4>2. CASE i # L
        <5>1. grown[i] = stream[i] /\ i \in DOMAIN stream
          BY <3>3, <3>10, <4>2
        <5> QED BY <1>0, <5>1 DEF StreamInv
      <4> QED BY <4>1, <4>2
    <3> HIDE DEF L
    <3>7. CASE count + 1 >= ShardSize
      <4> DEFINE t == Append(grown, << >>)
      <4>1. stream' = t /\ count' = 0
        BY <3>2, <3>7
      <4>2. t \in Shards /\ Len(t) = L + 1 /\ t[L + 1] = << >> /\ DOMAIN t = 1..(L + 1)
            /\ \A i \in 1..L : t[i] = grown[i]
        BY <3>3 DEF Shards
      <4>3. Holds(t, Append(written, x))
        BY <1>0, <3>3, <3>4, HoldsOpened DEF L
      <4> HIDE DEF t
      <4>4. \A i \in 1..(L + 1) : Len(t[i]) <= ShardSize
        <5> SUFFICES ASSUME NEW i \in 1..(L + 1) PROVE Len(t[i]) <= ShardSize
          OBVIOUS
        <5>1. CASE i = L + 1
          BY <1>0, <4>2, <5>1
        <5>2. CASE i # L + 1
          <6>1. i \in 1..L
            BY <3>3, <5>2
          <6> QED BY <3>6, <4>2, <6>1
        <5> QED BY <5>1, <5>2
      <4>5. StreamInv'
        BY <1>0, <3>2, <3>3, <4>1, <4>2, <4>3, <4>4 DEF StreamInv
      <4>6. SplitInv'
        <5>1. 1..L \subseteq 1..(L + 1)
          BY <3>3
        <5> QED BY <1>0, <3>2, <4>1, <4>2, <5>1 DEF SplitInv, StreamLine, L
      <4>7. ExportInv'
        BY <1>0, <3>2 DEF ExportInv
      <4> QED BY <2>1, <4>5, <4>6, <4>7 DEF CorpusInv
    <3>8. CASE ~(count + 1 >= ShardSize)
      <4>1. stream' = grown /\ count' = count + 1
        BY <3>2, <3>8
      <4>2. StreamInv'
        <5>3. count' \in 0..(ShardSize - 1)
          BY <1>0, <3>8, <4>1
        <5>4. L # 0
          BY <1>0 DEF L
        <5>1. count' \in 0..(ShardSize - 1) /\ Len(stream') = L /\ L # 0 /\ DOMAIN stream' = 1..L
          BY <3>3, <4>1, <5>3, <5>4
        <5>2. Len(stream'[Len(stream')]) = count'
          BY <3>5, <4>1, <5>1
        <5> QED BY <3>2, <3>3, <3>4, <3>6, <4>1, <5>1, <5>2 DEF StreamInv
      <4>3. SplitInv'
        BY <1>0, <3>2, <3>3, <4>1 DEF SplitInv, StreamLine, L
      <4>4. ExportInv'
        BY <1>0, <3>2 DEF ExportInv
      <4> QED BY <2>1, <4>2, <4>3, <4>4 DEF CorpusInv
    <3> QED BY <3>7, <3>8
  <2> QED BY <2>2, <2>3
<1>2. ASSUME NEW kept \in 0..LiveCap, RestartCorpus(kept) PROVE CorpusInv'
  <2> DEFINE L == Len(stream)
             t == Append(stream, << >>)
  <2>1. /\ stream' = t /\ count' = 0 /\ UNCHANGED <<corpus, trained, evaluated, written>>
        /\ live' = [k \in Lists |->
                      IF kept < Len(live[k]) THEN SubSeq(live[k], 1, kept) ELSE live[k]]
    BY <1>2 DEF RestartCorpus, NextShard
  <2>2. t \in Shards /\ Len(t) = L + 1 /\ t[L + 1] = << >> /\ DOMAIN t = 1..(L + 1) /\ DOMAIN stream = 1..L
        /\ \A i \in 1..L : t[i] = stream[i]
    BY <1>0 DEF Shards
  <2>3. Holds(t, written)
    BY <1>0, HoldsOpened DEF StreamInv
  <2>4. ListInv'
    <3>1. ASSUME NEW k \in Lists
          PROVE  (IF kept < Len(live[k]) THEN SubSeq(live[k], 1, kept) ELSE live[k])
                   \in {s \in Seq(Observation) : Len(s) <= LiveCap}
      <4>1. live[k] \in Seq(Observation) /\ Len(live[k]) <= LiveCap
        BY <1>0 DEF ListInv
      <4>2. CASE kept < Len(live[k])
        <5>1. SubSeq(live[k], 1, kept) \in Seq(Observation) /\ Len(SubSeq(live[k], 1, kept)) = kept
          BY <1>0, <4>1, <4>2
        <5> QED BY <1>0, <4>2, <5>1
      <4> QED BY <4>1, <4>2
    <3> QED BY <2>1, <3>1 DEF ListInv
  <2> HIDE DEF L, t
  <2>5. L \in Nat
    BY <1>0 DEF L
  <2>6. \A i \in 1..(L + 1) : Len(t[i]) <= ShardSize
    <3> SUFFICES ASSUME NEW i \in 1..(L + 1) PROVE Len(t[i]) <= ShardSize
      OBVIOUS
    <3>1. CASE i = L + 1
      BY <1>0, <2>2, <3>1
    <3>2. CASE i # L + 1
      <4>1. i \in 1..L
        BY <2>5, <3>2
      <4> QED BY <1>0, <2>2, <4>1 DEF StreamInv
    <3> QED BY <3>1, <3>2
  <2>7. StreamInv'
    BY <1>0, <2>1, <2>2, <2>3, <2>5, <2>6 DEF StreamInv
  <2>8. SplitInv'
    <3>1. 1..L \subseteq 1..(L + 1)
      BY <2>5
    <3> QED BY <1>0, <2>1, <2>2, <3>1 DEF SplitInv, StreamLine, L
  <2>9. ExportInv'
    BY <1>0, <2>1 DEF ExportInv
  <2> QED BY <2>4, <2>7, <2>8, <2>9 DEF CorpusInv
<1>3. ASSUME NEW files \in BOOLEAN, Export(files) PROVE CorpusInv'
  <2> DEFINE src == IF files THEN FromFiles ELSE FromKernel
             out == Merged(src)
             lines == [i \in DOMAIN out |-> [lineage |-> out[i].lineage, class |-> LiveClass(out[i])]]
             new == Sharded(lines)
             old == SubSeq(corpus, Len(new) + 1, Len(corpus))
  <2>1. corpus' = new \o old /\ UNCHANGED <<live, stream, count, trained, evaluated, written>>
    BY <1>3 DEF Export
  <2>2. src \in Seq(Possible)
    <3>1. /\ ExamplesOf("packet") \in Seq(Possible) /\ ExamplesOf("module_proposal") \in Seq(Possible)
          /\ ExamplesOf("wave_resolution") \in Seq(Possible) /\ ExamplesOf("wave_escalation") \in Seq(Possible)
      BY <1>0, ExamplesIs DEF Lists
    <3>2. FromKernel \in Seq(Possible)
      BY <3>1 DEF FromKernel
    <3> QED BY <3>1, <3>2 DEF FromFiles
  <2> HIDE DEF src
  <2>3. /\ Len(out) \in Nat /\ DOMAIN out = 1..Len(out)
        /\ \A i \in DOMAIN out : out[i].lineage \in {e.lineage : e \in Possible}
    BY <2>2, MergedIs
  <2> HIDE DEF out
  <2>4. lines \in Seq(Exported)
    <3>1. \A e : LiveClass(e) \in {"K", "A", "B", "G"}
      BY DEF LiveClass
    <3>2. \A i \in DOMAIN out : [lineage |-> out[i].lineage, class |-> LiveClass(out[i])] \in Exported
      BY <2>3, <3>1 DEF Exported
    <3> QED BY <2>3, <3>2
  <2> HIDE DEF lines
  <2>5. new \in Seq(Seq(Exported)) /\ \A i \in DOMAIN new : Len(new[i]) \in 1..ShardSize
    BY <2>4, ShardedIs
  <2> HIDE DEF new
  <2>6. corpus \in Seq(Seq(Exported)) /\ \A i \in DOMAIN corpus : Len(corpus[i]) \in 1..ShardSize
    BY <1>0 DEF ExportInv
  <2>7. /\ old \in Seq(Seq(Exported))
        /\ \A i \in DOMAIN old : \E j \in DOMAIN corpus : old[i] = corpus[j]
    BY <2>5, <2>6, SuffixIs
  <2> HIDE DEF old
  <2>8. /\ new \o old \in Seq(Seq(Exported))
        /\ \A i \in DOMAIN (new \o old) :
             (\E j \in DOMAIN new : (new \o old)[i] = new[j]) \/ (\E j \in DOMAIN old : (new \o old)[i] = old[j])
    <3> DEFINE T == Seq(Exported)
    <3>1. new \in Seq(T) /\ old \in Seq(T)
      BY <2>5, <2>7
    <3> HIDE DEF T
    <3>2. new \o old \in Seq(T)
      BY <3>1
    <3>3. \A i \in DOMAIN (new \o old) :
             (\E j \in DOMAIN new : (new \o old)[i] = new[j])
             \/ (\E j \in DOMAIN old : (new \o old)[i] = old[j])
      BY <3>1, JoinIs
    <3> QED BY <3>2, <3>3 DEF T
  <2>9. ExportInv'
    BY <2>1, <2>5, <2>6, <2>7, <2>8 DEF ExportInv
  <2> QED BY <1>0, <2>1, <2>9 DEF CorpusInv, StreamInv, ListInv, SplitInv, StreamLine
<1>4. CASE Trains
  <2> DEFINE val == ValShards
             all == 1..Len(stream) \cup (IF ExplicitVal THEN {0} ELSE {})
  <2>1. /\ trained' = trained \cup Lines(all \ val) /\ evaluated' = Lines(val)
        /\ UNCHANGED <<live, stream, count, corpus, written>>
    BY <1>4 DEF Trains, Evaluated
  <2>2. Lines(all \ val) \subseteq StreamLine \cup {ValLine} /\ Lines(val) \subseteq StreamLine \cup {ValLine}
    BY <1>0, LinesIs
  <2> HIDE DEF val, all
  <2>4. SplitInv'
    BY <1>0, <2>1, <2>2 DEF SplitInv, StreamLine
  <2> QED BY <1>0, <2>1, <2>4 DEF CorpusInv, StreamInv, ListInv, ExportInv
<1>5. CASE LiveStep
  <2> DEFINE recent == (IF Len(stream) > 3 THEN Len(stream) - 2 ELSE 1)..Len(stream)
             usable == {l \in Lines(recent) : stream[l[1]][l[2]].t >= 50}
  <2>1. /\ trained' = trained \cup usable
        /\ UNCHANGED <<live, stream, count, corpus, evaluated, written>>
    BY <1>5 DEF LiveStep
  <2>2. 0 \notin recent
    BY <1>0
  <2>3. usable \subseteq Lines(recent)
    OBVIOUS
  <2> HIDE DEF recent, usable
  <2>4. usable \subseteq StreamLine
    BY <1>0, <2>2, <2>3, LinesIs
  <2>5. SplitInv'
    BY <1>0, <2>1, <2>4 DEF SplitInv, StreamLine
  <2> QED BY <1>0, <2>1, <2>5 DEF CorpusInv, StreamInv, ListInv, ExportInv
<1>6. CASE UNCHANGED corpusvars
  BY <1>0, <1>6 DEF corpusvars, CorpusInv, StreamInv, ListInv, ExportInv, SplitInv, StreamLine
<1> QED BY <1>1, <1>2, <1>3, <1>4, <1>5, <1>6 DEF CorpusNext

(* Shards, live lists and exports stay within their limits (the corpus     *)
(* writers of training/).                                                  *)
THEOREM CorpusTyped == CorpusSpec => []CorpusTypeOK
<1>1. CorpusInv => CorpusTypeOK
  BY DEF CorpusInv, CorpusTypeOK, StreamInv, ListInv, ExportInv, SplitInv, StreamLine, Shards
<1> QED BY <1>1, CorpusInvInit, CorpusInvNext, PTL DEF CorpusSpec

(* What the stream's shards hold, one after the other, is all that was     *)
(* written, in its order, across rotations and restarts.                   *)
THEOREM NothingWrittenIsLost == CorpusSpec => []StreamWhole
<1>1. CorpusInv => StreamWhole
  BY HoldsWhole DEF CorpusInv, StreamInv, StreamWhole
<1> QED BY <1>1, CorpusInvInit, CorpusInvNext, PTL DEF CorpusSpec
-----------------------------------------------------------------------------
(* Goals and plans.                                                        *)

KeptPlans == {ps \in Seq(Plan) : Len(ps) <= PlanCap}

(* A goal pursued is within its attempts; a shelved one may be one past.   *)
MInv ==
  /\ plans \in KeptPlans
  /\ pursuing \in BOOLEAN /\ attempts \in 0..(MaxAttempts + 1)
  /\ pursuing => attempts <= MaxAttempts
  /\ paused \in BOOLEAN /\ degraded \in BOOLEAN /\ commands \in 0..MaxCommands

LEMMA SetAt ==
  ASSUME NEW S, NEW s \in Seq(S), NEW i, NEW x \in S
  PROVE  [s EXCEPT ![i] = x] \in Seq(S)
<1> DEFINE t == [s EXCEPT ![i] = x]
<1>1. Len(s) \in Nat /\ s \in [1..Len(s) -> S]
  OBVIOUS
<1>2. t \in [1..Len(s) -> S]
  BY <1>1
<1> HIDE DEF t
<1>3. t \in Seq(S)
  BY <1>1, <1>2
<1> QED BY <1>3 DEF t

LEMMA PlansMade == StrategicPlan \in Plan /\ CommandPlan \in Plan
<1>1. Research + 2 \in Nat /\ "pending" \in StepStatus /\ "unset" \in StepStatus
  BY MissionAssumption DEF StepStatus
<1>2. [i \in 1..(Research + 2) |-> "pending"] \in Seq(StepStatus) /\ <<"unset">> \in Seq(StepStatus)
  BY <1>1
<1> QED BY <1>2 DEF StrategicPlan, CommandPlan, Plan

LEMMA PlanAdded ==
  ASSUME NEW ps \in KeptPlans, NEW p \in Plan
  PROVE  LastPlans(Append(ps, p)) \in KeptPlans
<1> DEFINE full == Append(ps, p)
<1>1. /\ full \in Seq(Plan) /\ Len(full) = Len(ps) + 1 /\ Len(ps) <= PlanCap
      /\ Len(ps) \in Nat /\ PlanCap \in Nat \ {0}
  BY MissionAssumption DEF KeptPlans
<1> HIDE DEF full
<1>2. CASE Len(full) > PlanCap
  <2>1. Tail(full) \in Seq(Plan) /\ Len(Tail(full)) = Len(full) - 1
    BY <1>1, <1>2
  <2> QED BY <1>1, <1>2, <2>1 DEF LastPlans, KeptPlans, full
<1>3. CASE ~(Len(full) > PlanCap)
  BY <1>1, <1>3 DEF LastPlans, KeptPlans, full
<1> QED BY <1>2, <1>3

(* A plan is changed in place.                                             *)
LEMMA PlanChanged ==
  ASSUME NEW ps \in KeptPlans, NEW k, NEW todo, NEW st \in {"active", "completed", "stale"},
         k \in DOMAIN ps => todo \in Seq(StepStatus)
  PROVE  [ps EXCEPT ![k].steps = todo, ![k].status = st] \in KeptPlans
<1>1. ps \in Seq(Plan) /\ Len(ps) <= PlanCap
  BY DEF KeptPlans
<1> DEFINE qs == [ps EXCEPT ![k].steps = todo, ![k].status = st]
<1>2. CASE k \in DOMAIN ps
  <2>1. ps[k] \in Plan
    BY <1>1, <1>2
  <2>2. [[ps[k] EXCEPT !.steps = todo] EXCEPT !.status = st] \in Plan
    BY <1>2, <2>1 DEF Plan
  <2>3. qs = [ps EXCEPT ![k] = [[ps[k] EXCEPT !.steps = todo] EXCEPT !.status = st]]
    BY <1>1, <1>2
  <2> DEFINE p == [[ps[k] EXCEPT !.steps = todo] EXCEPT !.status = st]
  <2>5. p \in Plan /\ qs = [ps EXCEPT ![k] = p]
    BY <2>2, <2>3
  <2> HIDE DEF p, qs
  <2>4. qs \in Seq(Plan) /\ Len(qs) = Len(ps)
    BY <1>1, <1>2, <2>5
  <2> QED BY <1>1, <2>4 DEF KeptPlans, qs
<1>3. CASE k \notin DOMAIN ps
  <2>1. qs = ps
    BY <1>1, <1>3
  <2> QED BY <2>1
<1> QED BY <1>2, <1>3

LEMMA RunKeeps ==
  ASSUME NEW ps \in KeptPlans, NEW many \in 0..MaxAttempts, RunStep(ps, many)
  PROVE  plans' \in KeptPlans /\ pursuing' \in BOOLEAN /\ attempts' \in 0..MaxAttempts
<1> DEFINE k    == SelectInSeq(ps, Active)
           step == SelectInSeq(ps[k].steps, LAMBDA s : s = "pending")
<1>1. PICK out \in (IF step = 0 THEN {"none"} ELSE StepOutcomes(step)), cut \in BOOLEAN :
        LET todo == IF step = 0 THEN ps[k].steps ELSE [ps[k].steps EXCEPT ![step] = out]
            ends  == out # "active" /\ ~cut /\ Exhausted(todo)
            won   == ends /\ Won(todo)
        IN
        /\ cut => step \in 1..Research
        /\ plans' = [ps EXCEPT ![k].steps = todo, ![k].status = IF ends THEN "completed" ELSE @]
        /\ pursuing' = ~won
        /\ attempts' = IF won THEN 0 ELSE many
  BY DEF RunStep
<1> HIDE DEF k, step
<1> DEFINE todo == IF step = 0 THEN ps[k].steps ELSE [ps[k].steps EXCEPT ![step] = out]
           ends  == out # "active" /\ ~cut /\ Exhausted(todo)
           st    == IF ends THEN "completed" ELSE ps[k].status
<1>2. pursuing' \in BOOLEAN /\ attempts' \in 0..MaxAttempts
  BY <1>1, MissionAssumption
<1>3. plans' = [ps EXCEPT ![k].steps = todo, ![k].status = st]
  BY <1>1
<1>4. CASE k \in DOMAIN ps
  <2>1. ps[k] \in Plan /\ ps[k].steps \in Seq(StepStatus)
    <3>1. ps \in Seq(Plan)
      BY DEF KeptPlans
    <3>2. ps[k] \in Plan
      BY <1>4, <3>1
    <3> QED BY <3>2 DEF Plan
  <2>2. todo \in Seq(StepStatus)
    <3>1. CASE step = 0
      BY <2>1, <3>1
    <3>2. CASE step # 0
      <4>1. out \in StepStatus
        BY <3>2 DEF StepOutcomes, StepStatus
      <4> DEFINE old == ps[k].steps
      <4>2. old \in Seq(StepStatus) /\ todo = [old EXCEPT ![step] = out]
        BY <2>1, <3>2
      <4> HIDE DEF old
      <4>3. [old EXCEPT ![step] = out] \in Seq(StepStatus)
        BY <4>1, <4>2, SetAt
      <4> HIDE DEF todo
      <4> QED BY <4>2, <4>3
    <3> QED BY <3>1, <3>2
  <2>3. st \in {"active", "completed", "stale"}
    BY <2>1 DEF Plan
  <2> HIDE DEF todo, st
  <2> QED BY <1>2, <1>3, <1>4, <2>2, <2>3, PlanChanged
<1>5. CASE k \notin DOMAIN ps
  <2>1. plans' = ps
    BY <1>3, <1>5 DEF KeptPlans
  <2> QED BY <1>2, <2>1
<1> QED BY <1>4, <1>5

LEMMA MInvInit == MInit => MInv
<1>1. << >> \in KeptPlans /\ 0 \in 0..(MaxAttempts + 1) /\ 0 <= MaxAttempts /\ 0 \in 0..MaxCommands
  BY MissionAssumption DEF KeptPlans
<1> QED BY <1>1 DEF MInit, MInv

LEMMA MInvNext == MInv /\ [MNext]_mvars => MInv'
<1> SUFFICES ASSUME MInv, [MNext]_mvars PROVE MInv'
  OBVIOUS
<1>0. /\ plans \in KeptPlans /\ MaxAttempts \in Nat /\ PlanCap \in Nat \ {0} /\ MaxCommands \in Nat
      /\ plans \in Seq(Plan) /\ Len(plans) <= PlanCap
  BY MissionAssumption DEF MInv, KeptPlans
<1>00. Command => commands' \in 0..MaxCommands /\ degraded' = degraded
  <2>1. commands \in 0..MaxCommands
    BY DEF MInv
  <2> QED BY <1>0, <2>1 DEF Command
<1>1. CASE Cycle
  <2>1. UNCHANGED <<paused, degraded, commands>>
    BY <1>1 DEF Cycle
  <2>2. Counted \in 0..(MaxAttempts + 1)
    BY <1>0 DEF Counted, MInv
  <2>3. CASE Counted > MaxAttempts
    <3>1. pursuing' = FALSE /\ attempts' = Counted /\ UNCHANGED plans
      BY <1>1, <2>3 DEF Cycle, Shelve
    <3> QED BY <2>1, <2>2, <3>1 DEF MInv
  <2>4. CASE ~(Counted > MaxAttempts)
    <3>1. Counted \in 0..MaxAttempts
      BY <1>0, <2>2, <2>4
    <3>2. LastPlans(Append(plans, StrategicPlan)) \in KeptPlans
      BY <1>0, PlansMade, PlanAdded
    <3>3. ASSUME NEW ps \in KeptPlans, RunStep(ps, Counted) PROVE MInv'
      <4>1. plans' \in KeptPlans /\ pursuing' \in BOOLEAN /\ attempts' \in 0..MaxAttempts
        BY <3>1, <3>3, RunKeeps
      <4>2. attempts' \in 0..(MaxAttempts + 1) /\ attempts' <= MaxAttempts
        BY <1>0, <4>1
      <4> QED BY <2>1, <4>1, <4>2 DEF MInv
    <3>4. CASE pursuing' = TRUE /\ attempts' = Counted /\ UNCHANGED plans
      <4>1. attempts' \in 0..(MaxAttempts + 1) /\ attempts' <= MaxAttempts
        BY <1>0, <3>1, <3>4
      <4> QED BY <2>1, <3>4, <4>1 DEF MInv
    <3> QED BY <1>0, <1>1, <2>4, <3>2, <3>3, <3>4 DEF Cycle
  <2> QED BY <2>3, <2>4
<1>2. CASE CleanupStale
  <2>1. \A i \in DOMAIN plans :
          (IF Stale(plans[i]) THEN [plans[i] EXCEPT !.status = "stale"] ELSE plans[i]) \in Plan
    <3>1. \A i \in DOMAIN plans : plans[i] \in Plan
      BY <1>0
    <3> QED BY <3>1 DEF Plan
  <2>2. plans' \in Seq(Plan) /\ Len(plans') = Len(plans)
    BY <1>0, <1>2, <2>1 DEF CleanupStale
  <2> QED BY <1>0, <1>2, <2>2 DEF CleanupStale, MInv, KeptPlans
<1>3. ASSUME NEW i \in DOMAIN plans, PlanAges(i) PROVE MInv'
  <2>1. [plans[i] EXCEPT !.old = TRUE] \in Plan
    <3>1. plans[i] \in Plan
      BY <1>0
    <3> QED BY <3>1 DEF Plan
  <2>2. plans' = [plans EXCEPT ![i] = [plans[i] EXCEPT !.old = TRUE]]
    BY <1>3 DEF PlanAges
  <2>3. plans' \in Seq(Plan) /\ Len(plans') = Len(plans)
    BY <1>0, <2>1, <2>2
  <2>4. plans' \in KeptPlans
    BY <1>0, <2>3 DEF KeptPlans
  <2> QED BY <1>3, <2>4 DEF PlanAges, MInv
<1>4. CASE SetGoal \/ DropGoal
  <2>1. commands' \in 0..MaxCommands /\ pursuing' \in BOOLEAN /\ attempts' = 0
        /\ UNCHANGED <<plans, paused, degraded>>
    BY <1>00, <1>4 DEF SetGoal, DropGoal
  <2>2. 0 \in 0..(MaxAttempts + 1) /\ 0 <= MaxAttempts
    BY <1>0
  <2> QED BY <2>1, <2>2 DEF MInv
<1>5. CASE AddPlan
  <2>1. plans' \in KeptPlans
    BY <1>0, <1>5, PlansMade, PlanAdded DEF AddPlan
  <2> QED BY <1>00, <1>5, <2>1 DEF AddPlan, MInv
<1>6. CASE Pause \/ Resume
  <2>1. /\ commands' \in 0..MaxCommands /\ paused' \in BOOLEAN
        /\ UNCHANGED <<pursuing, attempts, plans, degraded>>
    BY <1>00, <1>6 DEF Pause, Resume, MInv
  <2> QED BY <2>1 DEF MInv
<1>7. CASE UNCHANGED mvars
  BY <1>7 DEF mvars, MInv
<1> QED BY <1>1, <1>2, <1>3, <1>4, <1>5, <1>6, <1>7 DEF MNext

(* A mission's plan, its attempts and its records stay within their        *)
(* limits, through retries, replans, pauses and stops.                     *)
THEOREM MissionTyped == MSpec => []MTypeOK
<1>1. MInv => MTypeOK
  BY DEF MInv, MTypeOK, KeptPlans
<1> QED BY <1>1, MInvInit, MInvNext, PTL DEF MSpec
=================================================================================
