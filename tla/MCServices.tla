----------------------------- MODULE MCServices -----------------------------
(* The kernel's services for TLC.  None of these modules reads another's   *)
(* variables, so one behaviour runs one of them, the one `part' names, and *)
(* the others rest: every state of each is reached in one run.             *)
EXTENDS ModuleRegistry, Memory, ToolAccess, Delegation, HubReview, Boot

VARIABLE part

servicevars == <<part, rvars, evars, accessvars, dvars, hvars, bvars>>

Parts == {"registry", "memory", "tools", "delegation", "hub", "boot"}

(* A step of p alone.                                                      *)
Only(p) ==
  /\ part = p /\ UNCHANGED part
  /\ p # "registry" => UNCHANGED rvars
  /\ p # "memory" => UNCHANGED evars
  /\ p # "tools" => UNCHANGED accessvars
  /\ p # "delegation" => UNCHANGED dvars
  /\ p # "hub" => UNCHANGED hvars
  /\ p # "boot" => UNCHANGED bvars

ServicesInit ==
  part \in Parts /\ RInit /\ EInit /\ AccessInit /\ DInit /\ HInit /\ BInit

ServicesNext ==
  \/ Only("registry") /\ RNext
  \/ Only("memory") /\ ENext
  \/ Only("tools") /\ AccessNext
  \/ Only("delegation") /\ DNext
  \/ Only("hub") /\ HNext
  \/ Only("boot") /\ BNext

ServicesSpec == ServicesInit /\ [][ServicesNext]_servicevars

(* The service that runs keeps its variables in their types, its queues in *)
(* their limits included.                                                  *)
ServicesTypeOK ==
  CASE part = "registry" -> RTypeOK
    [] part = "memory" -> ETypeOK
    [] part = "tools" -> AccessTypeOK
    [] part = "delegation" -> DTypeOK
    [] part = "hub" -> HTypeOK
    [] part = "boot" -> BTypeOK
-----------------------------------------------------------------------------
(* A hub in every standing, and a subkernel nobody vouches for.            *)
MCSenders ==
  {[role |-> "hub", trust |-> "trusted", locality |-> "local", risk |-> "low"],
   [role |-> "subkernel", trust |-> "low", locality |-> "local", risk |-> "low"]}

MCItems ==
  {[kind |-> "episodic", key |-> "x", workflow |-> TRUE],
   [kind |-> "procedural", key |-> "y", workflow |-> FALSE]}

(* The hub may ask for tools its quota covers, the subkernel for tools its *)
(* trust opens and its quota does not.                                     *)
MCRole     == [hub |-> "hub", sub |-> "subkernel"]
MCClaim    == [hub |-> 2, sub |-> 3]
MCQuota ==
  [role \in {"hub", "subkernel"} |->
     [p \in Permissions |-> IF role = "hub" /\ p \in {"safe_autonomous", "safe_logged"}
                            THEN 1 ELSE 0]]
MCLeaseMax == [hub |-> 1, subkernel |-> 1]
MCLimit    == [web_search |-> 1, browser_action |-> 1, advisor_call |-> 1, pip_install |-> 1]
=============================================================================
