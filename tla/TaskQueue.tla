----------------------------- MODULE TaskQueue -----------------------------
(***************************************************************************)
(* The task queue of tasks/queue.py and its cleanup (tasks/cleanup.py), as *)
(* the main loop of kernel/kernel.py drives them: every iteration advances *)
(* the tasks and then cleans them up.  Tasks are made and completed by     *)
(* callers between two iterations; the state file holds the queue, and a   *)
(* restart returns to its last save.                                       *)
(*                                                                         *)
(* Of the clock the model keeps whether a deadline has passed; which tasks *)
(* are older than 600 seconds is left open.  An identifier is the second   *)
(* of creation and a hash of the goal: two equal goals in one second share *)
(* theirs.  The branch that fails a task after its retries is left out:    *)
(* nothing in the repository counts a retry.                               *)
(***************************************************************************)
EXTENDS Integers, FiniteSets, Sequences, SequencesExt, Selections

CONSTANTS
  MaxTasks,      \* bound: identifiers made
  MaxCompleted,  \* bound: identifiers listed as completed
  TaskCap,       \* MAX_TASK_QUEUE
  CompletedKept, \* completed identifiers a save keeps (200)
  MaxCrashes     \* bound: restarts

ASSUME TaskAssumption ==
  /\ MaxTasks \in Nat /\ MaxCompleted \in Nat /\ TaskCap \in Nat \ {0}
  /\ CompletedKept \in Nat \ {0} /\ MaxCrashes \in Nat

TaskId == 1..MaxTasks
NoTask == 0

VARIABLES
  tasks,        \* the queue, oldest first
  completedIds, \* identifiers of completed tasks, in order
  made,         \* tasks made so far
  lastId,       \* the identifier made last
  tasksSaved,   \* the queue and the identifiers of the state file
  crashes,
  everDone,     \* history: identifiers completed at some time
  maintained    \* history: was the last step the loop's?

tvars == <<tasks, completedIds, made, lastId, tasksSaved, crashes, everDone, maintained>>
-----------------------------------------------------------------------------
Live     == {"pending", "active"}
Terminal == {"completed", "failed", "stale"}

TaskRecord == [id : TaskId, status : Live \cup Terminal, deps : SUBSET TaskId,
               parent : TaskId \cup {NoTask},
               deadline : {"none", "ahead", "passed"}]

TTypeOK ==
  /\ tasks \in Seq(TaskRecord) /\ Len(tasks) <= TaskCap
  /\ completedIds \in Seq(TaskId)
  /\ made \in 0..MaxTasks /\ lastId \in 0..made
  /\ crashes \in 0..MaxCrashes /\ everDone \subseteq TaskId /\ maintained \in BOOLEAN
  /\ tasksSaved.tasks \in Seq(TaskRecord) /\ Len(tasksSaved.completed) <= CompletedKept

TInit ==
  /\ tasks = <<>> /\ completedIds = <<>> /\ made = 0 /\ lastId = NoTask
  /\ crashes = 0 /\ everDone = {} /\ maintained = FALSE
  /\ tasksSaved = [tasks |-> <<>>, completed |-> <<>>]

Newest(s, n)   == IF Len(s) > n THEN SubSeq(s, Len(s) - n + 1, Len(s)) ELSE s
WithStatus(st) == {tasks[i].id : i \in {j \in DOMAIN tasks : tasks[j].status = st}}
QueuedIds      == {tasks[i].id : i \in DOMAIN tasks}
-----------------------------------------------------------------------------
(* create: same is a second task of a goal made in this second.            *)
CreateTask(same, deps, parent, deadline) ==
  /\ made < MaxTasks /\ made' = made + 1
  /\ same => \E i \in DOMAIN tasks : tasks[i].id = lastId
  /\ lastId' = IF same THEN lastId ELSE made'
  /\ tasks' = Newest(Append(tasks, [id |-> lastId', status |-> "pending", deps |-> deps,
                                    parent |-> parent, deadline |-> deadline]),
                     TaskCap)
  /\ maintained' = FALSE
  /\ UNCHANGED <<completedIds, tasksSaved, crashes, everDone>>

(* complete: the first task with the identifier, whatever its status: one  *)
(* completed before is listed again.                                       *)
CompleteTask(id) ==
  LET first == SelectInSeq(tasks, LAMBDA t : t.id = id) IN
  /\ first # 0 /\ Len(completedIds) < MaxCompleted
  /\ tasks' = [tasks EXCEPT ![first].status = "completed"]
  /\ completedIds' = Append(completedIds, id)
  /\ everDone' = everDone \cup {id}
  /\ maintained' = FALSE
  /\ UNCHANGED <<made, lastId, tasksSaved, crashes>>

(* Variants: a dependency that has ended is no longer waited for; one that *)
(* has left the queue never counts as completed.                           *)
AdvancedOnceEnded(t, done) ==
  IF t.status = "pending" /\ t.deps \cap WithStatus("pending") \subseteq done
  THEN [t EXCEPT !.status = "active"]
  ELSE IF t.status = "active" /\ t.deadline = "passed" THEN [t EXCEPT !.status = "stale"] ELSE t

AdvancedInQueue(t, done) ==
  IF t.status = "pending" /\ t.deps \subseteq WithStatus("completed")
  THEN [t EXCEPT !.status = "active"]
  ELSE IF t.status = "active" /\ t.deadline = "passed" THEN [t EXCEPT !.status = "stale"] ELSE t

(* advance: what is completed is read once, before the first task.         *)
Advanced(t, done) ==
  IF t.status = "pending" /\ t.deps \subseteq done
  THEN [t EXCEPT !.status = "active"]
  ELSE IF t.status = "active" /\ t.deadline = "passed" THEN [t EXCEPT !.status = "stale"] ELSE t

(* cleanup_tasks: a live task whose parent is neither queued nor completed *)
(* fails; then what has ended and is old leaves the queue.                 *)
Cleaned(t, known) ==
  IF t.parent # NoTask /\ t.status \in Live /\ t.parent \notin known
  THEN [t EXCEPT !.status = "failed"] ELSE t

(* The two calls of one iteration of run_loop; gone are ended tasks of     *)
(* more than 600 seconds.                                                  *)
Maintain(gone) ==
  LET done     == ToSet(completedIds) \cup WithStatus("completed")
      known    == ToSet(completedIds) \cup QueuedIds
      cleaned  == [i \in DOMAIN tasks |-> Cleaned(Advanced(tasks[i], done), known)]
  IN
  /\ gone \subseteq {i \in DOMAIN tasks : cleaned[i].status \in Terminal}
  /\ tasks' = Pick(cleaned, DOMAIN tasks \ gone)
  /\ maintained' = TRUE
  /\ UNCHANGED <<completedIds, made, lastId, tasksSaved, crashes, everDone>>

(* save_state, and a restart: load_state appends what was saved to an      *)
(* empty queue.                                                            *)
SaveTasks ==
  /\ crashes < MaxCrashes
  /\ tasksSaved' = [tasks |-> tasks, completed |-> Newest(completedIds, CompletedKept)]
  /\ maintained' = FALSE
  /\ UNCHANGED <<tasks, completedIds, made, lastId, crashes, everDone>>

RestartTasks ==
  /\ crashes < MaxCrashes /\ crashes' = crashes + 1
  /\ tasks' = tasksSaved.tasks /\ completedIds' = tasksSaved.completed
  /\ maintained' = FALSE
  /\ UNCHANGED <<made, lastId, tasksSaved, everDone>>

(* Time passes.                                                            *)
DeadlinePasses(i) ==
  /\ i \in DOMAIN tasks /\ tasks[i].deadline = "ahead"
  /\ tasks' = [tasks EXCEPT ![i].deadline = "passed"]
  /\ maintained' = FALSE
  /\ UNCHANGED <<completedIds, made, lastId, tasksSaved, crashes, everDone>>

TNext ==
  \/ \E same \in BOOLEAN, deps \in SUBSET (1..lastId), parent \in 0..lastId,
        deadline \in {"none", "ahead"} : CreateTask(same, deps, parent, deadline)
  \/ \E id \in TaskId : CompleteTask(id)
  \/ \E gone \in SUBSET DOMAIN tasks : Maintain(gone)
  \/ SaveTasks
  \/ RestartTasks
  \/ \E i \in DOMAIN tasks : DeadlinePasses(i)

TSpec == TInit /\ [][TNext]_tvars
-----------------------------------------------------------------------------
(* No task is worked on before all it depends on was completed at some     *)
(* time, through purges, cut queues, shared identifiers and restarts that  *)
(* forget completions.                                                     *)
DependenciesFirst ==
  \A i \in DOMAIN tasks : tasks[i].status = "active" => tasks[i].deps \subseteq everDone

(* No task waits for what is done: after an iteration of the loop no task  *)
(* is pending whose dependencies are all completed, whatever has left the  *)
(* queue, unless a restart forgets the completions.                        *)
Ready(t) == t.status = "pending" /\ t.deps \subseteq ToSet(completedIds)
ReadyRuns == maintained => \A i \in DOMAIN tasks : ~Ready(tasks[i])
=============================================================================
