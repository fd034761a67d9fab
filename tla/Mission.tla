------------------------------ MODULE Mission ------------------------------
(***************************************************************************)
(* Goals and plans: the autonomous cycle of kernel/kernel.py over the      *)
(* current goal and the plans of tasks/plans.py, with the operator's       *)
(* commands for them, between a start and a restart.                       *)
(*                                                                         *)
(* Of a goal the model keeps whether there is one: the cycle always finds  *)
(* another (an active task, a weak module, else "explore").  Of the clock  *)
(* it keeps whether a plan is older than PLAN_MAX_AGE_SECONDS.  The self   *)
(* model's refresh, which opens the cycle, is taken not to raise.          *)
(***************************************************************************)
EXTENDS Integers, FiniteSets, Sequences, SequencesExt

CONSTANTS
  Research,    \* research steps of a strategic plan (one to six in the code)
  MaxAttempts, \* _max_goal_attempts (4)
  PlanCap,     \* plans kept (20)
  MaxCommands  \* bound: commands of the operator

ASSUME MissionAssumption ==
  /\ Research \in Nat /\ MaxAttempts \in Nat /\ PlanCap \in Nat \ {0}
  /\ MaxCommands \in Nat

VARIABLES
  pursuing,     \* is there a current goal
  attempts,     \* cycles spent on it
  plans,        \* PlanManager.active, oldest first
  paused,
  degraded,     \* boot validation failed
  commands

mvars == <<pursuing, attempts, plans, paused, degraded, commands>>
-----------------------------------------------------------------------------
(* A step of a PLAN: command has no status at all.                         *)
StepStatus == {"pending", "active", "completed", "failed", "unset"}
Plan == [steps : Seq(StepStatus), status : {"active", "completed", "stale"}, old : BOOLEAN]

StrategicPlan == [steps |-> [i \in 1..(Research + 2) |-> "pending"],
                  status |-> "active", old |-> FALSE]
CommandPlan   == [steps |-> <<"unset">>, status |-> "active", old |-> FALSE]

MTypeOK ==
  /\ pursuing \in BOOLEAN /\ attempts \in 0..(MaxAttempts + 1)
  /\ plans \in Seq(Plan) /\ Len(plans) <= PlanCap
  /\ paused \in BOOLEAN /\ degraded \in BOOLEAN
  /\ commands \in 0..MaxCommands

MInit ==
  /\ pursuing = FALSE /\ attempts = 0 /\ plans = <<>> /\ paused = FALSE
  /\ degraded \in BOOLEAN
  /\ commands = 0

Active(p)   == p.status = "active"

(* PlanManager.create keeps the newest.  Variant: all of them.             *)
AllPlans(ps)  == ps
LastPlans(ps) == IF Len(ps) > PlanCap THEN Tail(ps) ELSE ps
Done(steps, st) == {i \in DOMAIN steps : steps[i] \in st}
-----------------------------------------------------------------------------
(* The outcomes of a cycle's step: raising leaves it "active", and a lab   *)
(* cycle that raises after a research step cuts the cycle short.           *)
StepOutcomes(i) == IF i <= Research THEN {"completed", "failed", "active"}
              ELSE {"completed", "active"}

(* A plan whose steps have all ended is completed.                          *)
Exhausted(steps) == Done(steps, {"completed", "failed"}) = DOMAIN steps
Won(steps) == Exhausted(steps)
              /\ Cardinality(Done(steps, {"completed"})) > Len(steps) \div 2

(* Sections 4 and 5 of the cycle for the plans ps, in the cycle's count-th *)
(* attempt at the goal: the first pending step of the first active plan is *)
(* run.  A step that raises, or whose lab cycle does, ends the cycle there.*)
RunStep(ps, count) ==
  LET k    == SelectInSeq(ps, Active)
      step == SelectInSeq(ps[k].steps, LAMBDA s : s = "pending")
  IN
  \E out \in (IF step = 0 THEN {"none"} ELSE StepOutcomes(step)), cut \in BOOLEAN :
    LET steps == IF step = 0 THEN ps[k].steps ELSE [ps[k].steps EXCEPT ![step] = out]
        ends  == out # "active" /\ ~cut /\ Exhausted(steps)
        won   == ends /\ Won(steps)
    IN
    /\ cut => step \in 1..Research
    /\ plans' = [ps EXCEPT ![k].steps = steps, ![k].status = IF ends THEN "completed" ELSE @]
    /\ pursuing' = ~won
    /\ attempts' = IF won THEN 0 ELSE count

(* Variant: every cycle starts the count again.                            *)
CountedAgain == 1
Counted == IF pursuing THEN attempts + 1 ELSE 1

Shelve ==
  /\ pursuing' = FALSE /\ attempts' = Counted /\ UNCHANGED plans

(* _autonomous_cycle; planning may raise too, before the plan is added.    *)
Cycle ==
  /\ ~paused /\ ~degraded
  /\ IF Counted > MaxAttempts
     THEN Shelve
     ELSE \/ SelectInSeq(plans, Active) # 0 /\ RunStep(plans, Counted)
          \/ /\ SelectInSeq(plans, Active) = 0
             /\ RunStep(LastPlans(Append(plans, StrategicPlan)), Counted)
          \/ /\ SelectInSeq(plans, Active) = 0
             /\ pursuing' = TRUE /\ attempts' = Counted /\ UNCHANGED plans
  /\ UNCHANGED <<paused, degraded, commands>>

(* cleanup_stale, in every iteration that is not paused.                   *)
(* Variant: only the first active plan is looked at.                       *)
StaleFirst(p) == p = plans[1] /\ Active(p) /\ p.old
Stale(p) == Active(p) /\ p.old
CleanupStale ==
  /\ ~paused
  /\ plans' = [i \in DOMAIN plans |->
                IF Stale(plans[i]) THEN [plans[i] EXCEPT !.status = "stale"] ELSE plans[i]]
  /\ UNCHANGED <<pursuing, attempts, paused, degraded, commands>>

PlanAges(i) ==
  /\ i \in DOMAIN plans /\ Active(plans[i]) /\ ~plans[i].old
  /\ plans' = [plans EXCEPT ![i].old = TRUE]
  /\ UNCHANGED <<pursuing, attempts, paused, degraded, commands>>

-----------------------------------------------------------------------------
(* Commands: GOAL:, CLEAR_GOAL, COMPLETE_GOAL, PLAN:, PAUSE and RESUME.    *)
Command == commands < MaxCommands /\ commands' = commands + 1
           /\ UNCHANGED degraded

SetGoal  == Command /\ pursuing' = TRUE /\ attempts' = 0 /\ UNCHANGED <<plans, paused>>
DropGoal == Command /\ pursuing' = FALSE /\ attempts' = 0 /\ UNCHANGED <<plans, paused>>
AddPlan  == Command /\ plans' = LastPlans(Append(plans, CommandPlan))
            /\ UNCHANGED <<pursuing, attempts, paused>>
Pause    == ~paused /\ Command /\ paused' = TRUE /\ UNCHANGED <<pursuing, attempts, plans>>
Resume   == /\ paused /\ paused' = FALSE
            /\ UNCHANGED <<pursuing, attempts, plans, degraded, commands>>

MNext ==
  \/ Cycle \/ CleanupStale
  \/ \E i \in DOMAIN plans : PlanAges(i)
  \/ SetGoal \/ DropGoal \/ AddPlan \/ Pause \/ Resume

(* The loop runs both again and again while nothing is paused, and time    *)
(* passes.                                                                 *)
MFair == /\ WF_mvars(Cycle) /\ WF_mvars(CleanupStale)
         /\ \A i \in 1..PlanCap : WF_mvars(PlanAges(i))
MSpec == MInit /\ [][MNext]_mvars /\ MFair
-----------------------------------------------------------------------------
Halted == <>[](paused \/ degraded)

(* Nothing is pursued for ever: whatever its steps do, a goal is completed *)
(* or shelved.                                                             *)
GoalReleased == Halted \/ (pursuing ~> ~pursuing)

(* No plan blocks the ones behind it for ever: not one with a step left    *)
(* "active" by an exception, nor a PLAN: command's, whose step has no      *)
(* status and is never run.                                                *)
PlanEnds == \A i \in 1..PlanCap :
  \/ Halted
  \/ (i \in DOMAIN plans /\ Active(plans[i])) ~> (i \in DOMAIN plans => ~Active(plans[i]))
=============================================================================
