------------------------------ MODULE Beliefs ------------------------------
(***************************************************************************)
(* The bilateral state: a belief carries support for its truth and for     *)
(* its falsity, in per cent, and a verdict derived from both that readers  *)
(* use: true, false, both or neither.                                      *)
(*                                                                         *)
(* core/primitives.py adds evidence up, core/cache.py derives the verdicts *)
(* and expects every handler that touches a belief to derive them again;   *)
(* kernel/kernel.py's handlers do so at their end, and an exception may    *)
(* end one earlier.  An iteration of run_loop first takes the operator's   *)
(* command, then updates the budgets, which derives the verdicts, then     *)
(* runs what is due.  Products of per cents are rounded down.              *)
(***************************************************************************)
EXTENDS Integers, Sequences, FiniteSetsExt, SequencesExt

CONSTANTS
  Threshold, \* support that counts, GAMMA_THETA_T and GAMMA_THETA_F
  MaxUpdates \* bound: handlers run

ASSUME BeliefAssumption == Threshold \in 1..100 /\ MaxUpdates \in Nat

VARIABLES
  beta,     \* ShadowState.beta
  nu,       \* ShadowState.nu, the verdicts
  onDisk,   \* beliefs of the state file
  budgeted, \* has the iteration of run_loop updated the budgets?
  updates   \* handlers run since the start

beliefvars == <<beta, nu, onDisk, budgeted, updates>>

Belief  == {"search", "browser", "executor", "overall", "coherent"}
Support == [t : 0..100, f : 0..100]
FourValued == {"T", "F", "B", "G"}

Degrees(t, f) == [t |-> t, f |-> f]
-----------------------------------------------------------------------------
(* _prob_or01                                                              *)
ProbOr(x, y) == x + y - (x * y) \div 100

BilateralOr(a, b) == Degrees(ProbOr(a.t, b.t), ProbOr(a.f, b.f))

(* bilateral_recover: the falsity fades by the same formula in per cent.   *)
BilateralRecover(v, gain, decay) == Degrees(ProbOr(v.t, gain), (v.f * (100 - decay)) \div 100)

Glut(v) == Min({v.t, v.f})
Gap(v)  == Min({100 - v.t, 100 - v.f})

(* gamma_cache                                                             *)
Gamma(b) ==
  [k \in Belief |->
     CASE b[k].t >= Threshold /\ b[k].f >= Threshold -> "B"
       [] b[k].t >= Threshold /\ b[k].f < Threshold  -> "T"
       [] b[k].t < Threshold /\ b[k].f >= Threshold  -> "F"
       [] OTHER -> "G"]

(* is_cache_coherent and refresh_state, on a state s = [beta, nu]          *)
Coherent(s)  == s.nu = Gamma(s.beta)
Refreshed(s) == [s EXCEPT !.nu = Gamma(s.beta)]

Now == [beta |-> beta, nu |-> nu]
Becomes(s) == beta' = s.beta /\ nu' = s.nu

BeliefTypeOK ==
  /\ beta \in [Belief -> Support] /\ nu \in [Belief -> FourValued]
  /\ onDisk \in [Belief -> Support] /\ budgeted \in BOOLEAN /\ updates \in 0..MaxUpdates

BeliefInit ==
  /\ beta = [k \in Belief |-> Degrees(50, 0)]
  /\ nu = Gamma(beta) /\ onDisk = beta /\ budgeted = FALSE /\ updates = 0

Handled == updates < MaxUpdates /\ updates' = updates + 1 /\ UNCHANGED onDisk
InLoop  == budgeted /\ Handled /\ UNCHANGED budgeted
-----------------------------------------------------------------------------
(* record_success and record_failure of ModuleHealthTracker.               *)
Succeeded(s) == Refreshed([s EXCEPT !.beta["executor"] = BilateralRecover(@, 10, 4)])

(* Variant: the verdicts are left as they are.                             *)
FailedQuietly(s) == [s EXCEPT !.beta["executor"] = BilateralOr(@, Degrees(0, 12))]

Failed(s) == Refreshed([s EXCEPT !.beta["executor"] = BilateralOr(@, Degrees(0, 12))])

(* The loop of research_topic over its calls.  What is found is stored,    *)
(* which refreshes the verdicts before the belief changes.                 *)
Called(s, found) ==
  IF found THEN [Refreshed(s) EXCEPT !.beta["search"] = BilateralRecover(@, 10, 5)]
  ELSE [s EXCEPT !.beta["search"] = BilateralOr(@, Degrees(0, 8))]

AfterCalls(calls) ==
  LET after[n \in 0..Len(calls)] == IF n = 0 THEN Now ELSE Called(after[n - 1], calls[n])
  IN after[Len(calls)]

(* The commands RESEARCH: and RUN_LAB:.  An exception is caught by the     *)
(* handler of commands, which derives nothing.                             *)
ResearchCommand(calls, raises) ==
  /\ ~budgeted /\ Handled /\ UNCHANGED budgeted
  /\ LET s == AfterCalls(calls) IN Becomes(IF raises THEN s ELSE Refreshed(s))

(* update_bilateral_state, at every iteration that is not paused.          *)
UpdateBudgets ==
  /\ ~budgeted /\ budgeted' = TRUE
  /\ Becomes(Refreshed(Now))
  /\ UNCHANGED <<onDisk, updates>>

(* A cycle that researches: it ends well, or at the exception that its     *)
(* last call raises.                                                       *)
ResearchCycle(calls, raises) ==
  /\ InLoop
  /\ LET s == AfterCalls(calls) IN
     Becomes(IF raises THEN Failed(s) ELSE Succeeded(Refreshed(s)))

(* browser_action, of a command or of the cycle.                           *)
Browse(ok) ==
  /\ Handled /\ UNCHANGED budgeted
  /\ LET seen == IF ok THEN Degrees(92, 4) ELSE Degrees(18, 72) IN
     Becomes(Refreshed([Now EXCEPT !.beta["browser"] = BilateralOr(@, seen)]))

(* The sums of build_report's means.                                       *)
Gluts == MapThenSumSet(LAMBDA k : Glut(beta[k]), Belief)
Gaps  == MapThenSumSet(LAMBDA k : Gap(beta[k]), Belief)

(* _self_assess, with the marks for patches applied and for tools active.  *)
Assess(marks) ==
  LET many == Cardinality(Belief)
      t    == 30 + (IF Coherent(Now) THEN 15 ELSE 0) + (IF Gluts < 15 * many THEN 10 ELSE 0)
              + (IF Gaps < 15 * many THEN 10 ELSE 0) + 10 * marks
      f    == 10 + (IF Coherent(Now) THEN 0 ELSE 20) + (IF Gluts > 30 * many THEN 15 ELSE 0)
  IN InLoop /\ Becomes(Refreshed([Now EXCEPT !.beta["overall"] = Degrees(t, f)]))

(* The end of an iteration of run_loop, which measures what the handlers   *)
(* of the iteration left.                                                  *)
LoopEnd ==
  /\ budgeted /\ Handled /\ budgeted' = FALSE
  /\ LET v == IF Coherent(Now) THEN Degrees(100, 0) ELSE Degrees(0, 100) IN
     Becomes(Refreshed([Now EXCEPT !.beta["coherent"] = v]))

SaveBeliefs == onDisk' = beta /\ UNCHANGED <<beta, nu, budgeted, updates>>

(* The program starts again: the beliefs are read, the verdicts derived.   *)
StartAgain ==
  /\ Becomes(Refreshed([beta |-> onDisk, nu |-> Gamma(onDisk)]))
  /\ budgeted' = FALSE
  /\ UNCHANGED <<onDisk, updates>>

Calls == UNION {[1..n -> BOOLEAN] : n \in 1..2}

BeliefNext ==
  \/ \E calls \in Calls, raises \in BOOLEAN :
       ResearchCommand(calls, raises) \/ ResearchCycle(calls, raises)
  \/ UpdateBudgets
  \/ \E ok \in BOOLEAN : Browse(ok)
  \/ \E marks \in 0..2 : Assess(marks)
  \/ LoopEnd \/ SaveBeliefs \/ StartAgain

BeliefSpec == BeliefInit /\ [][BeliefNext]_beliefvars
-----------------------------------------------------------------------------
(* Properties.                                                             *)

(* Whatever the autonomous part of an iteration does, and the loop         *)
(* measures, it does on verdicts that are those the beliefs give, after    *)
(* handlers that an exception ended too; so the loop never measures the    *)
(* state to be incoherent.  Before that part, only a research command that *)
(* raised leaves a verdict behind its belief, and only the one on search.  *)
VerdictsFresh ==
  /\ budgeted => Coherent(Now)
  /\ \A k \in Belief \ {"search"} : nu[k] = Gamma(beta)[k]
  /\ beta["coherent"].f = 0
=============================================================================
