---------------------------- MODULE Substitution ----------------------------
(***************************************************************************)
(* Replacing one module by another under hott/module_equivalence.py: a     *)
(* module stands for its contract, and is replaced whenever                *)
(* can_substitute says so, again and again.                                *)
(*                                                                         *)
(* In the code the decision is external to the kernel, which asks it of no *)
(* module yet: what is checked is how much of its promise can_substitute   *)
(* keeps.                                                                  *)
(***************************************************************************)
EXTENDS Evidence

CONSTANTS
  Contracts \* records [caps, guarantees, forbids]; the last two map names to
            \* [priority, required]

ASSUME ContractAssumption ==
  \A c \in Contracts :
    /\ IsFiniteSet(c.caps)
    /\ \A m \in {c.guarantees, c.forbids} :
         IsFiniteSet(DOMAIN m) /\ \A x \in DOMAIN m : m[x].priority \in Nat

VARIABLES
  first,    \* the contract callers rely on
  current,  \* the contract now in its place
  evidence  \* of the equivalence composed from all replacements

uvars == <<first, current, evidence>>
-----------------------------------------------------------------------------
PropertyNames(property) == DOMAIN property

(* _build_substitution_paths: the strengths of what supports and of what   *)
(* refutes that b stands in for a.                                         *)
Supports(a, b) ==
  {15 : c \in a.caps \cap b.caps}
  \cup {Least(100, 15 + 5 * a.guarantees[g].priority)
          : g \in PropertyNames(a.guarantees) \cap PropertyNames(b.guarantees)}
  \cup {Least(100, 10 + 4 * a.forbids[x].priority)
          : x \in PropertyNames(a.forbids) \cap PropertyNames(b.forbids)}

(* The guarantees b must give in the place of a, and does not.             *)
Missing(a, b) ==
  {g \in PropertyNames(a.guarantees) \ PropertyNames(b.guarantees) : a.guarantees[g].required}

(* What b guarantees and a forbids, b not forbidding it.                   *)
Violated(a, b) ==
  (PropertyNames(a.forbids) \ PropertyNames(b.forbids)) \cap PropertyNames(b.guarantees)

(* Variants: a capability that is missing weighs as much as one shared; a  *)
(* guarantee's priority is forgotten when it is dropped.                   *)
RefutesLightly(a, b) ==
  {15 : c \in a.caps \ b.caps}
  \cup {Least(100, 20 + 5 * a.guarantees[g].priority) : g \in Missing(a, b)}

RefutesUnweighed(a, b) ==
  {75 : c \in a.caps \ b.caps} \cup {20 : g \in Missing(a, b)}
  \cup {Least(100, 50 + 5 * a.forbids[x].priority) : x \in Violated(a, b)}

Refutes(a, b) ==
  {75 : c \in a.caps \ b.caps}
  \cup {Least(100, 20 + 5 * a.guarantees[g].priority) : g \in Missing(a, b)}
  \cup {Least(100, 50 + 5 * a.forbids[x].priority) : x \in Violated(a, b)}

(* build_equiv: with nothing against it one path sums up the coverage.     *)
Coverage(a, b) ==
  LET preserved == Cardinality(a.caps \cap b.caps)
                   + Cardinality(PropertyNames(a.guarantees) \cap PropertyNames(b.guarantees))
                   + Cardinality(PropertyNames(a.forbids) \cap PropertyNames(b.forbids))
      required  == Greatest(1, Cardinality(a.caps) + Cardinality(PropertyNames(a.guarantees))
                               + Cardinality(PropertyNames(a.forbids)))
  IN Greatest(75, 60 + (40 * preserved) \div required)

Equivalence(a, b) ==
  LET against == Refutes(a, b) IN
  JudgedBy(Supports(a, b) \cup (IF against = {} THEN {Coverage(a, b)} ELSE {}), against)

CanSubstitute(a, b) == ClassOf(Equivalence(a, b)) = "A"
-----------------------------------------------------------------------------
UInit == /\ first \in Contracts /\ current = first
         /\ evidence = Certain

Replace(c) ==
  /\ CanSubstitute(current, c)
  /\ current' = c
  /\ evidence' = Composed(evidence, Equivalence(current, c))
  /\ UNCHANGED first

UNext == \E c \in Contracts : Replace(c)
USpec == UInit /\ [][UNext]_uvars
-----------------------------------------------------------------------------
UTypeOK == {first, current} \subseteq Contracts /\ evidence \in [t : Grade, f : Grade]

(* However often a module is replaced, what is there still has every       *)
(* capability callers rely on, and the equivalence composed from all the   *)
(* replacements supports the identification with the first.  Guarantees    *)
(* are not kept along a chain.                                             *)
CallersServed == first.caps \subseteq current.caps /\ ClassOf(evidence) = "A"

(* can_substitute promises that a replacement has all capabilities and all *)
(* required guarantees and gives nothing that was forbidden.  It keeps     *)
(* that for capabilities, for guarantees of a priority of 7 and more and   *)
(* for prohibitions of a priority of 1 and more; lighter ones it lets go.  *)
OnlyLightOnesLost ==
  [][/\ current.caps \subseteq current'.caps
     /\ \A g \in Missing(current, current') : current.guarantees[g].priority < 7
     /\ \A x \in Violated(current, current') : current.forbids[x].priority < 1]_uvars
=============================================================================
