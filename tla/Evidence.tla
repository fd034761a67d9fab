------------------------------ MODULE Evidence ------------------------------
(***************************************************************************)
(* Evidence for and against an identification, in hundredths: the classes  *)
(* of hott/paraconsistent.py, and the paths of hott/core.py as far as      *)
(* their evidence goes.                                                    *)
(***************************************************************************)
EXTENDS Integers, FiniteSets, FiniteSetsExt

Grade    == 0..100
Theta    == 55
BV(t, f) == [t |-> t, f |-> f]
Certain  == BV(100, 0)

Least(i, j)    == IF i < j THEN i ELSE j
Greatest(i, j) == IF i > j THEN i ELSE j

(* IdentityClass: agreed, belied, knot, gap.                               *)
ClassOf(b) ==
  CASE b.t >= Theta /\ b.f >= Theta -> "K"
    [] b.t >= Theta /\ b.f < Theta  -> "A"
    [] b.t < Theta /\ b.f >= Theta  -> "B"
    [] OTHER -> "G"

(* compose, and the evidence of equiv_compose: the weakest support and the *)
(* strongest refutation.                                                   *)
Composed(b, c) == BV(Least(b.t, c.t), Greatest(b.f, c.f))

(* judge_identity: supporting and refuting evidence is never set off.      *)
Best(S)                     == IF S = {} THEN 0 ELSE Max(S)
JudgedBy(supports, refutes) == BV(Best(supports), Best(refutes))
=============================================================================
