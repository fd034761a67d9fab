----------------------------- MODULE ToolAccess -----------------------------
(***************************************************************************)
(* Tools: who is granted one, and how often one is called.                 *)
(*                                                                         *)
(* A hub or subkernel asks for a tool by packet; kernel/kernel.py weighs   *)
(* the trust the packet claims and the role's profile                      *)
(* (tasks/worker_roles.py), its leases and its quota (tools/budgets.py),   *)
(* notes a grant and saves the ecology file.  The kernel itself runs tools *)
(* and asks its advisors against budgets per resource, which the loop      *)
(* resets once an hour and which the ecology file keeps with the quotas.   *)
(*                                                                         *)
(* Every node the registry knows is local, and so is taken one it does not *)
(* know.  The network and the packages are the environment's: a call       *)
(* succeeds or not.                                                        *)
(***************************************************************************)
EXTENDS Integers, FiniteSets

CONSTANTS
  Asker,      \* the kernels that ask for tools
  RoleOf,      \* "hub" or "subkernel" of each
  Claim,       \* trust each claims in its packets, as a score
  Tool,        \* names of tools, built in or not
  CallQuota,       \* calls of a role and permission: [role -> [permission -> Nat]]
  LeaseMax,    \* max_active_leases of each role
  Limit,       \* limit of each shared budget
  Advisors,    \* advisor interfaces that are configured, 4 at most
  MaxCalls,    \* bound: calls against one budget between two resets
  MaxInstalls, \* bound: packages installed between two resets
  MaxRequests, \* bound: requests granted to one worker
  MaxSuccesses \* bound: delegations one worker completes

Permissions == {"safe_autonomous", "safe_logged", "sandbox_only", "approval_required",
                "forbidden"}

(* TOOL_CONTRACTS, as far as a request or a call reads them.               *)
Contracts ==
  LET searches == {"web_search", "wikipedia_summary", "arxiv_search"}
      fetches  == {"fetch_url", "github_repo", "github_file", "rss_fetch",
                   "json_api_fetch", "sitemap_fetch", "extract_text"}
  IN [t \in searches \cup fetches \cup {"robots_ok", "browser_action"} |->
        [permission |-> IF t = "browser_action" THEN "safe_logged" ELSE "safe_autonomous",
         resource   |-> IF t \in searches THEN "web_search"
                        ELSE IF t \in fetches THEN "fetch_url"
                        ELSE IF t = "browser_action" THEN "browser_action" ELSE "none"]]

(* What is required of a tool without a contract, one of the lab say.      *)
Permission(t) == IF t \in DOMAIN Contracts THEN Contracts[t].permission ELSE "safe_autonomous"
Resource(t)   == IF t \in DOMAIN Contracts THEN Contracts[t].resource ELSE "none"

(* The tools that ask for a package before they work.                      *)
Packaged == Tool \cap {"browser_action", "extract_text"}

Asked       == {Permission(t) : t \in Tool}
Budget      == DOMAIN Limit
Role        == {"hub", "subkernel"}
Trusted     == 3

ASSUME ToolAssumption ==
  /\ IsFiniteSet(Budget)
  /\ RoleOf \in [Asker -> Role] /\ Claim \in [Asker -> 0..4]
  /\ CallQuota \in [Role -> [Permissions -> Nat]] /\ LeaseMax \in [Role -> Nat \ {0}]
  /\ \A r \in Budget : Limit[r] \in Nat
  /\ {"advisor_call", "pip_install"} \subseteq Budget /\ "none" \notin Budget
  /\ Advisors \in 0..4 /\ MaxCalls \in Nat /\ MaxInstalls \in 0..MaxCalls
  /\ MaxRequests \in Nat /\ MaxSuccesses \in Nat

VARIABLES
  budget,     \* BudgetManager.budgets: what is used of each
  usage,      \* BudgetManager.worker_usage
  grants,     \* experimental_tool_registry or local_tools of each worker
  leases,     \* active leases of each worker
  failures,   \* tools of _tool_fail_counts
  ecology,    \* the ecology file
  called,     \* calls of this process since the last reset, per budget
  granted,    \* history: requests granted
  succeeded   \* history: delegations completed

accessvars == <<budget, usage, grants, leases, failures, ecology, called, granted,
                succeeded>>
-----------------------------------------------------------------------------
Most(f) ==
  IF DOMAIN f = {} THEN 0
  ELSE CHOOSE n \in {f[x] : x \in DOMAIN f} : \A x \in DOMAIN f : f[x] <= n

Usages == [Asker -> [Asked -> 0..Most([r \in Role |-> Most(CallQuota[r])])]]
Ecology == [budget : [Budget -> 0..Most(Limit)], usage : Usages,
            grants : [Asker -> SUBSET Tool], leases : [Asker -> 0..Most(LeaseMax)]]

(* Types.  What is used never exceeds a limit, so that the alarm           *)
(* update_bilateral_state raises above the limit cannot go off.            *)
AccessTypeOK ==
  /\ [budget |-> budget, usage |-> usage, grants |-> grants, leases |-> leases] \in Ecology
  /\ ecology \in Ecology
  /\ failures \subseteq Tool
  /\ called \in [Budget -> Nat]
  /\ granted \in [Asker -> [Asked -> 0..MaxRequests]]
  /\ succeeded \in [Asker -> 0..MaxSuccesses]
  /\ \A r \in Budget : budget[r] <= Limit[r]

AccessInit ==
  /\ budget = [r \in Budget |-> 0]
  /\ usage = [k \in Asker |-> [p \in Asked |-> 0]]
  /\ grants = [k \in Asker |-> {}] /\ leases = [k \in Asker |-> 0] /\ failures = {}
  /\ ecology = [budget |-> budget, usage |-> usage, grants |-> grants, leases |-> leases]
  /\ called = [r \in Budget |-> 0]
  /\ granted = [k \in Asker |-> [p \in Asked |-> 0]] /\ succeeded = [k \in Asker |-> 0]

(* _save_kernel_ecology_state                                              *)
SaveEcology ==
  ecology' = [budget |-> budget', usage |-> usage', grants |-> grants', leases |-> leases']
-----------------------------------------------------------------------------
(* Requests.                                                               *)

FloorOf == [hub |-> 2, subkernel |-> 1]
Allowed    == [hub |-> {"safe_autonomous", "safe_logged"}, subkernel |-> {"safe_autonomous"}]

(* evaluate_tool_access, for a local worker                                *)
Permitted(k, t) ==
  /\ Permission(t) # "forbidden"
  /\ Claim[k] >= FloorOf[RoleOf[k]]
  /\ \/ Permission(t) \in Allowed[RoleOf[k]]
     \/ Permission(t) = "safe_logged" /\ Claim[k] >= Trusted

(* check_worker_request; the check that spends leaves the leases out.      *)
Spendable(k, p) == usage[k][p] + 1 <= CallQuota[RoleOf[k]][p]
BudgetGate(k, p) == leases[k] < LeaseMax[RoleOf[k]] /\ Spendable(k, p)

(* A TOOL_REQUEST packet: _evaluate_tool_request, and the ecology is saved *)
(* whether it is granted or not.                                           *)
ToolAsked(k, t) ==
  LET p == Permission(t) IN
  /\ IF Permitted(k, t) /\ BudgetGate(k, p)
     THEN /\ granted[k][p] < MaxRequests
          /\ usage' = [usage EXCEPT ![k][p] = @ + 1]
          /\ grants' = [grants EXCEPT ![k] = @ \cup {t}]
          /\ granted' = [granted EXCEPT ![k][p] = @ + 1]
     ELSE UNCHANGED <<usage, grants, granted>>
  /\ UNCHANGED <<budget, leases, failures, called, succeeded>>
  /\ SaveEcology

(* _dispatch_kernel_packet for a status, a resource request, a trust       *)
(* report or a revert notice: they are logged, and the ecology saved.      *)
Notice ==
  /\ UNCHANGED <<budget, usage, grants, leases, failures, called, granted,
                 succeeded>>
  /\ SaveEcology

LeaseTaken(k) ==
  /\ leases[k] < LeaseMax[RoleOf[k]]
  /\ leases' = [leases EXCEPT ![k] = @ + 1]
  /\ UNCHANGED <<budget, usage, grants, failures, called, granted, succeeded>>
  /\ SaveEcology

(* record_delegation_outcome: a success gives back one call of the first   *)
(* permission of the lease, recover_worker_request.                        *)
Recovered(k) ==
  IF "safe_autonomous" \in Asked /\ usage[k]["safe_autonomous"] > 0
  THEN [usage EXCEPT ![k]["safe_autonomous"] = @ - 1] ELSE usage

LeaseOver(k, success) ==
  /\ leases[k] > 0 /\ (success => succeeded[k] < MaxSuccesses)
  /\ leases' = [leases EXCEPT ![k] = @ - 1]
  /\ usage' = IF success THEN Recovered(k) ELSE usage
  /\ succeeded' = IF success THEN [succeeded EXCEPT ![k] = @ + 1] ELSE succeeded
  /\ UNCHANGED <<budget, grants, failures, called, granted>>
  /\ SaveEcology
-----------------------------------------------------------------------------
(* Calls.                                                                  *)

(* BudgetManager.spend refuses: a resource without a budget is free.       *)
Refused(r) == r \in Budget /\ budget[r] + 1 > Limit[r]

(* Variant: only a call that succeeded is charged.                         *)
PerformChargedLate(t, ok, installs) ==
  LET r == Resource(t)
      refused == Refused(r) IN
  /\ refused => ~ok /\ ~installs
  /\ installs => t \in Packaged /\ called["pip_install"] < MaxInstalls
  /\ r \in Budget => called[r] < MaxCalls
  /\ budget' = [x \in Budget |-> IF x = r /\ ok THEN budget[x] + 1 ELSE budget[x]]
  /\ called' = [x \in Budget |-> IF (x = r /\ ~refused) \/ (x = "pip_install" /\ installs)
                                 THEN called[x] + 1 ELSE called[x]]
  /\ failures' = IF ok THEN failures \ {t} ELSE failures \cup {t}
  /\ UNCHANGED <<usage, grants, leases, ecology, granted, succeeded>>

(* _perform_tool_action: the budget is spent before the tool is known to   *)
(* exist or to work; a refusal counts as a failure of the tool.  A tool    *)
(* whose package cannot be imported has it installed, _ensure_package,     *)
(* and no budget is asked for that.                                        *)
Perform(t, ok, installs) ==
  LET r == Resource(t)
      refused == Refused(r) IN
  /\ refused => ~ok /\ ~installs
  /\ installs => t \in Packaged /\ called["pip_install"] < MaxInstalls
  /\ budget' = [x \in Budget |-> IF x = r /\ ~refused THEN budget[x] + 1 ELSE budget[x]]
  /\ called' = [x \in Budget |-> IF (x = r /\ ~refused) \/ (x = "pip_install" /\ installs)
                                 THEN called[x] + 1 ELSE called[x]]
  /\ failures' = IF ok THEN failures \ {t} ELSE failures \cup {t}
  /\ UNCHANGED <<usage, grants, leases, ecology, granted, succeeded>>

(* _chat_with_advisor: one check, then one call after the other until an   *)
(* advisor answers, each spent whether the budget still allows it or not.  *)
Advise(tries) ==
  /\ ~Refused("advisor_call")
  /\ budget' = [budget EXCEPT !["advisor_call"] =
                  IF @ + tries <= Limit["advisor_call"] THEN @ + tries
                  ELSE Limit["advisor_call"]]
  /\ called' = [called EXCEPT !["advisor_call"] = @ + tries]
  /\ UNCHANGED <<usage, grants, leases, failures, ecology, granted, succeeded>>

(* The operator's INSTALL: _pip_install, without a budget too.             *)
Install ==
  /\ called["pip_install"] < MaxInstalls
  /\ called' = [called EXCEPT !["pip_install"] = @ + 1]
  /\ UNCHANGED <<budget, usage, grants, leases, failures, ecology, granted,
                 succeeded>>

(* reset_if_needed: all budgets were last reset at the same moment.        *)
ResetBudgets ==
  /\ budget' = [r \in Budget |-> 0] /\ called' = [r \in Budget |-> 0]
  /\ UNCHANGED <<usage, grants, leases, failures, ecology, granted, succeeded>>

(* Variant: the quotas are not read back.                                  *)
ResumeFresh ==
  /\ budget' = ecology.budget /\ grants' = ecology.grants /\ leases' = ecology.leases
  /\ usage' = [k \in Asker |-> [p \in Asked |-> 0]]
  /\ failures' = {} /\ called' = [r \in Budget |-> 0]
  /\ UNCHANGED <<ecology, granted, succeeded>>

(* The process ends and starts again: the ecology file, read after the     *)
(* state file, decides.                                                    *)
Resume ==
  /\ budget' = ecology.budget /\ grants' = ecology.grants /\ leases' = ecology.leases
  /\ usage' = ecology.usage
  /\ failures' = {} /\ called' = [r \in Budget |-> 0]
  /\ UNCHANGED <<ecology, granted, succeeded>>

WorkerAsks ==
  \E k \in Asker :
    \/ \E t \in Tool : ToolAsked(k, t)
    \/ LeaseTaken(k) \/ \E success \in BOOLEAN : LeaseOver(k, success)

KernelCalls ==
  \/ \E t \in Tool, ok, installs \in BOOLEAN : Perform(t, ok, installs)
  \/ \E tries \in 1..Advisors : Advise(tries)
  \/ Install

AccessNext == WorkerAsks \/ KernelCalls \/ Notice \/ ResetBudgets \/ Resume

AccessSpec == AccessInit /\ [][AccessNext]_accessvars
-----------------------------------------------------------------------------
(* Properties.                                                             *)

(* Whatever is asked for, granted, completed or restarted in between, a    *)
(* worker never gets more calls of a permission than its quota and the     *)
(* delegations it completed allow.                                         *)
QuotaHeld ==
  \A k \in Asker : \A p \in Asked : granted[k][p] <= CallQuota[RoleOf[k]][p] + succeeded[k]

(* Between two resets no budget of a tool is overdrawn by the process.     *)
ToolsWithinRate ==
  \A t \in Tool : Resource(t) \in Budget => called[Resource(t)] <= Limit[Resource(t)]
=============================================================================
