------------------------------ MODULE Cocycle -------------------------------
(***************************************************************************)
(* Gluing local fragments (hott/obstruction.py): is a collection of        *)
(* transitions a coboundary?  is_trivializable walks the fragments breadth *)
(* first and solves one fragment after the other; obstruction_class and    *)
(* globalize decide by its answer and by the evidence of the transitions.  *)
(*                                                                         *)
(* The queue is a set here: any order of the visits is allowed.            *)
(***************************************************************************)
EXTENDS Integers, FiniteSets, Evidence

CONSTANTS
  Fragments,  \* 1..n: names in their order
  Elem,       \* elements of the symmetry group
  unit,       \* its identity
  Op(_, _), Inv(_),
  Overlaps,   \* ordered pairs of fragments that may have a transition
  Samples,    \* elements and
  Proofs      \* evidence the transitions are made from

ASSUME GroupAssumption ==
  /\ unit \in Elem /\ Samples \subseteq Elem
  /\ \A x, y \in Elem : Op(x, y) \in Elem /\ Inv(x) \in Elem
  /\ \A x, y, z \in Elem : Op(Op(x, y), z) = Op(x, Op(y, z))
  /\ \A x \in Elem : /\ Op(x, unit) = x /\ Op(unit, x) = x
                     /\ Op(x, Inv(x)) = unit /\ Op(Inv(x), x) = unit
ASSUME CoverAssumption ==
  /\ Fragments \subseteq Nat /\ Overlaps \subseteq Fragments \X Fragments
  /\ \A p \in Overlaps : p[1] # p[2]

VARIABLES
  transitions, \* pair -> [g, evidence]
  known,       \* fragment -> element found for it
  queue,       \* fragments to visit
  verdict      \* "open", "glued", "refuted" or "obstructed"

cvars == <<transitions, known, queue, verdict>>
-----------------------------------------------------------------------------
Undefined == [g |-> unit, evidence |-> BV(0, 0), there |-> FALSE]
Present   == {p \in Overlaps : transitions[p].there}
G(i, j)   == transitions[<<i, j>>].g

CTypeOK ==
  /\ \A p \in Overlaps : transitions[p].g \in Elem
  /\ DOMAIN known \subseteq Fragments /\ \A i \in DOMAIN known : known[i] \in Elem
  /\ queue \subseteq DOMAIN known
  /\ verdict \in {"open", "glued", "refuted", "obstructed"}

CInit ==
  /\ transitions \in
       [Overlaps -> {Undefined} \cup [g : Samples, evidence : Proofs, there : {TRUE}]]
  /\ known = <<>> /\ queue = {} /\ verdict = "open"

(* cocycle_check: triples in the order of their names, with all three      *)
(* transitions; one that does not close counts as 0.7 against at least.    *)
Triples == {t \in Fragments \X Fragments \X Fragments :
              /\ t[1] < t[2] /\ t[2] < t[3]
              /\ {<<t[1], t[2]>>, <<t[2], t[3]>>, <<t[1], t[3]>>} \subseteq Present}
Twisted(t) == Op(G(t[1], t[2]), G(t[2], t[3])) # G(t[1], t[3])
Closes     == \A t \in Triples : ~Twisted(t)

TripleEvidence(t) ==
  Composed(Composed(transitions[<<t[1], t[2]>>].evidence, transitions[<<t[2], t[3]>>].evidence),
           transitions[<<t[1], t[3]>>].evidence)

(* The mean over the triples that close; without a triple there is none.   *)
Mean(values) == IF Triples = {} THEN 0 ELSE values \div Cardinality(Triples)
CheckEvidence == BV(Mean(MapThenSumSet(LAMBDA t : TripleEvidence(t).t, Triples)),
                    Mean(MapThenSumSet(LAMBDA t : TripleEvidence(t).f, Triples)))

(* coboundary: the transition between i and j that the elements a make.    *)
Coboundary(x, y)     == Op(x, Inv(y))

(* The element of the other end of a transition, as is_trivializable       *)
(* solves for it.  Variant: as if the group were abelian.                  *)
SolveForwardAbelian(x, g) == Op(x, Inv(g))
SolveForward(x, g)        == Inv(Op(Inv(x), g))
SolveReverse(y, g)        == Op(g, y)

Solved(i) ==
  {<<p[2], SolveForward(known[i], G(p[1], p[2]))>> : p \in {q \in Present : q[1] = i}}
  \cup {<<p[1], SolveReverse(known[i], G(p[1], p[2]))>> : p \in {q \in Present : q[2] = i}}

(* The next fragment nothing is known of is pinned to the identity.        *)
Root ==
  /\ verdict = "open" /\ Closes /\ queue = {}
  /\ Fragments # DOMAIN known
  /\ LET root == CHOOSE i \in Fragments \ DOMAIN known :
                   \A j \in Fragments \ DOMAIN known : i <= j
     IN /\ known' = [i \in DOMAIN known \cup {root} |-> IF i = root THEN unit ELSE known[i]]
        /\ queue' = {root}
  /\ UNCHANGED <<transitions, verdict>>

(* One fragment is taken from the queue: its transitions solve their other *)
(* ends, or contradict what is known of one.                               *)
Visit(i) ==
  LET found == Solved(i)
      new   == {s[1] : s \in found} \ DOMAIN known
      agree == \A s \in found : /\ s[1] \in DOMAIN known => known[s[1]] = s[2]
                                /\ \A r \in found : r[1] = s[1] => r[2] = s[2]
  IN
  /\ verdict = "open" /\ Closes /\ i \in queue
  /\ IF agree
     THEN /\ known' = [j \in DOMAIN known \cup new |->
                         IF j \in new THEN (CHOOSE s \in found : s[1] = j)[2] ELSE known[j]]
          /\ queue' = (queue \ {i}) \cup new
          /\ UNCHANGED verdict
     ELSE /\ verdict' = "obstructed" /\ UNCHANGED <<known, queue>>
  /\ UNCHANGED transitions

(* The verdict: open twists first, then every transition once more, and    *)
(* the evidence, which may speak against a gluing that is possible.        *)
Verified == \A p \in Present : G(p[1], p[2]) = Coboundary(known[p[1]], known[p[2]])

Decide ==
  /\ verdict = "open" /\ (~Closes \/ (queue = {} /\ DOMAIN known = Fragments))
  /\ verdict' = IF ~Closes \/ ~Verified THEN "obstructed"
                ELSE IF ClassOf(CheckEvidence) = "B" THEN "refuted" ELSE "glued"
  /\ UNCHANGED <<transitions, known, queue>>

CNext == Root \/ (\E i \in Fragments : Visit(i)) \/ Decide
CSpec == CInit /\ [][CNext]_cvars
-----------------------------------------------------------------------------
(* Is there any choice of elements that makes the transitions?             *)
Trivial == \E a \in [Fragments -> Elem] :
             \A p \in Present : G(p[1], p[2]) = Coboundary(a[p[1]], a[p[2]])

(* The walk finds a gluing exactly when there is one, over every shape of  *)
(* cover, in a group that does not commute, and it is never the evidence   *)
(* alone that glues.                                                       *)
GluesExactly == /\ verdict \in {"glued", "refuted"} => Trivial
                /\ verdict = "obstructed" => ~Trivial
=============================================================================
