------------------------------ MODULE MCLadder ------------------------------
(* Instances of PromotionLadder for TLC.                                   *)
EXTENDS PromotionLadder, TLC

Fact(target, arity, uses, conforms, compiles, loads) ==
  [defines |-> target, arity |-> arity, uses |-> uses, conforms |-> conforms,
   compiles |-> compiles, loads |-> loads]

(* A native method that may be patched, a slot that may be filled, and a   *)
(* protected native method outside the unified target set.                 *)
MCTarget     == {"research_topic", "_score_local_results", "save_state"}
MCBaseArity  == [t \in {"research_topic", "save_state"} |-> 1]
MCUnified    == {"research_topic", "_score_local_results"}
MCExtension  == {"_score_local_results"}
MCProtected  == {"save_state"}
MCConstruct  == {"eval"}

OneTarget  == {"research_topic"}
OneArity   == [t \in OneTarget |-> 1]

(* slim, full and wide all patch research_topic, wide with one argument    *)
(* more than its callers have; slot fills the free name.                   *)
MCInfo ==
  [c \in {"slim", "full", "wide", "slot", "raw", "guard", "broken", "cyclic"} |->
     CASE c = "slim"   -> Fact("research_topic", 0, {}, TRUE, TRUE, TRUE)
       [] c = "full"   -> Fact("research_topic", 1, {}, TRUE, TRUE, TRUE)
       [] c = "wide"   -> Fact("research_topic", 2, {}, TRUE, TRUE, TRUE)
       [] c = "slot"   -> Fact("_score_local_results", 2, {}, TRUE, TRUE, TRUE)
       [] c = "raw"    -> Fact("research_topic", 1, {"eval"}, TRUE, TRUE, TRUE)
       [] c = "guard"  -> Fact("save_state", 0, {}, TRUE, TRUE, TRUE)
       [] c = "broken" -> Fact("research_topic", 1, {}, TRUE, FALSE, FALSE)
       [] c = "cyclic" -> Fact("research_topic", 1, {}, TRUE, TRUE, FALSE)]

InfoOf(codes) == [c \in codes |-> MCInfo[c]]
InfoBindings  == InfoOf({"slim", "full"})
InfoSources   == InfoOf({"full", "raw"})
InfoCommands  == InfoOf({"slot", "guard", "wide", "broken", "cyclic"})

Good    == [rate |-> 100, pressure |-> 0, failures |-> 0, delta |-> 0,
            maturity |-> 0, cooldown |-> FALSE]
Strained == [Good EXCEPT !.pressure = 90, !.failures = 200]

NoFunction == [k \in {} |-> "hub"]
RoleByName == [k \in {"hub", "sub"} |-> IF k = "hub" THEN "hub" ELSE "subkernel"]
AllLocal   == [k \in {"hub", "sub"} |-> "local"]
SubRole    == [k \in {"sub"} |-> "subkernel"]
SubLocal   == [k \in {"sub"} |-> "local"]

PatchSymmetry == Permutations(Patch)

OneStanding   == {Good}
TwoStandings  == {Good, Strained}
=============================================================================
