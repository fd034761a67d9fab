----------------------------- MODULE HottProofs -----------------------------
(***************************************************************************)
(* Theorems about the HoTT layer and what is built on it: certified chains *)
(* of patches, substitution of modules, gluing of fragments, identity over *)
(* evidence and the environment of the type checker, and at last the       *)
(* autonomous cycle as MCCycle runs it.  They hold for every set of        *)
(* invariants, modules, fragments and opinions, for every group of         *)
(* symmetries and for every type checker.                                  *)
(***************************************************************************)
EXTENDS MCCycle, CycleProofs, DelegationProofs, Foundations
-----------------------------------------------------------------------------
(* Certified patches.                                                      *)

(* A patch is accepted only if no probe of a protected invariant raises    *)
(* before or after it, and each gives one fingerprint.                     *)
LEMMA AcceptedKeeps ==
  ASSUME NEW s \in KernelState, NEW t \in KernelState, Accepted(s, t), NEW i \in Protected
  PROVE  /\ s[i].probe = "computes" => t[i] = s[i]
         /\ s[i].probe = "errs" => t[i].probe = "errs"
         /\ ~RaisesAt(i, s)
<1>1. Witness(i, s, t) # "B"
  BY DEF Accepted, Verdict
<1>2. /\ ~RaisesAt(i, s) /\ ~RaisesAt(i, t)
      /\ FingerprintOf(s[i]) = FingerprintOf(t[i])
  BY <1>1 DEF Witness
<1>3. i \in Invariants
  BY DEF Invariants
<1>4. /\ s[i].is \in Value /\ t[i].is \in Value
      /\ s[i].probe \in Probing /\ t[i].probe \in Probing
      /\ s[i] = [is |-> s[i].is, probe |-> s[i].probe]
      /\ t[i] = [is |-> t[i].is, probe |-> t[i].probe]
  BY <1>3 DEF KernelState
<1>5. /\ s[i].probe = "computes" => t[i].probe = "computes" /\ t[i].is = s[i].is
      /\ s[i].probe = "errs" => t[i].probe = "errs"
  BY <1>2, <1>4, CertificateAssumption DEF FingerprintOf, RaisesAt, Probing
<1> QED BY <1>2, <1>4, <1>5

(* The raising probe of a protected invariant refutes every patch.         *)
LEMMA RaisingRefutes ==
  ASSUME NEW s, NEW t, NEW i \in Protected, RaisesAt(i, s)
  PROVE  Verdict(s, t) = "block_refuted"
<1>1. Witness(i, s, t) = "B"
  BY DEF Witness
<1> QED BY <1>1 DEF Verdict

(* Once the probe of a protected invariant raises nothing changes it.      *)
StillRaises == \A i \in Protected : RaisesAt(i, start) => RaisesAt(i, now)

CertificateInv == start \in KernelState /\ XTypeOK /\ ProtectedKept /\ StillRaises

LEMMA CertificateStep == CertificateInv /\ [XNext]_xvars => CertificateInv'
<1> SUFFICES ASSUME CertificateInv, [XNext]_xvars PROVE CertificateInv'
  OBVIOUS
<1> USE DEF CertificateInv
<1>1. ASSUME NEW t \in KernelState, Certify(t) PROVE CertificateInv'
  <2>1. start' = start /\ verdicts' = verdicts \cup {Verdict(now, t)}
        /\ now' = IF Accepted(now, t) THEN t ELSE now
    BY <1>1 DEF Certify
  <2>2. XTypeOK'
    BY <2>1 DEF XTypeOK, Verdict
  <2> SUFFICES ASSUME NEW i \in Protected
               PROVE /\ start[i].probe = "computes" => now'[i] = start[i]
                     /\ start[i].probe = "errs" => now'[i].probe = "errs"
                     /\ RaisesAt(i, start) => verdicts' \subseteq {"block_refuted"}
                     /\ RaisesAt(i, start) => RaisesAt(i, now')
    BY <2>1, <2>2 DEF ProtectedKept, StillRaises, RaisesAt
  <2>3. now \in KernelState
    BY DEF XTypeOK
  <2>4. CASE RaisesAt(i, start)
    <3>1. RaisesAt(i, now) /\ verdicts \subseteq {"block_refuted"}
      BY <2>4 DEF StillRaises, ProtectedKept
    <3>2. Verdict(now, t) = "block_refuted"
      BY <3>1, RaisingRefutes
    <3>3. ~Accepted(now, t)
      BY <3>2 DEF Accepted
    <3> QED BY <2>1, <2>4, <3>1, <3>2, <3>3 DEF RaisesAt
  <2>5. CASE ~RaisesAt(i, start) /\ ~Accepted(now, t)
    BY <2>1, <2>5 DEF ProtectedKept
  <2>6. CASE ~RaisesAt(i, start) /\ Accepted(now, t)
    <3>1. /\ now[i].probe = "computes" => t[i] = now[i]
          /\ now[i].probe = "errs" => t[i].probe = "errs"
      BY <1>1, <2>3, <2>6, AcceptedKeeps
    <3>2. /\ start[i].probe = "computes" => now[i] = start[i]
          /\ start[i].probe = "errs" => now[i].probe = "errs"
      BY DEF ProtectedKept
    <3> QED BY <2>1, <2>6, <3>1, <3>2
  <2> QED BY <2>4, <2>5, <2>6
<1>2. CASE UNCHANGED xvars
  BY <1>2 DEF xvars, XTypeOK, ProtectedKept, StillRaises, RaisesAt
<1> QED BY <1>1, <1>2 DEF XNext

(* However long the chain of certified patches, a protected invariant that *)
(* was computed at the start is computed and has the value it began with,  *)
(* one behind an error value stays behind it, and while the probe of one   *)
(* raises nothing is certified (certify_patch and its comparison of        *)
(* fingerprints).  What moves behind an error value is not excluded.       *)
THEOREM CertifiedChains == XSpec => [](XTypeOK /\ ProtectedKept)
<1>1. XInit => CertificateInv
  BY DEF XInit, CertificateInv, XTypeOK, ProtectedKept, StillRaises
<1>2. CertificateInv => XTypeOK /\ ProtectedKept
  BY DEF CertificateInv
<1> QED BY <1>1, <1>2, CertificateStep, PTL DEF XSpec
-----------------------------------------------------------------------------
(* Substitution.                                                           *)

(* The strengths of the arguments are grades, so the best of them exists.  *)
LEMMA BestIs ==
  ASSUME NEW S, S \subseteq Grade
  PROVE  Best(S) \in Grade /\ \A k \in S : k <= Best(S)
<1>1. CASE S = {}
  BY <1>1 DEF Best, Grade
<1>2. CASE S # {}
  <2>1. S \subseteq Nat /\ \A k \in S : k <= 100
    BY DEF Grade
  <2>2. Max(S) \in S /\ \A k \in S : k <= Max(S)
    BY <1>2, <2>1, MaxIs
  <2> QED BY <1>2, <2>2 DEF Best
<1> QED BY <1>1, <1>2

LEMMA RefutesGraded ==
  ASSUME NEW a \in Contracts, NEW b \in Contracts
  PROVE  Refutes(a, b) \subseteq Grade
<1>1. /\ \A g \in DOMAIN a.guarantees : a.guarantees[g].priority \in Nat
      /\ \A x \in DOMAIN a.forbids : a.forbids[x].priority \in Nat
  BY ContractAssumption
<1>2. \A n \in Nat : Least(100, 20 + 5 * n) \in Grade /\ Least(100, 50 + 5 * n) \in Grade
  BY DEF Least, Grade
<1>3. 75 \in Grade
  BY DEF Grade
<1> QED BY <1>1, <1>2, <1>3 DEF Refutes, Missing, Violated, PropertyNames

LEMMA SupportsGraded ==
  ASSUME NEW a \in Contracts, NEW b \in Contracts
  PROVE  Supports(a, b) \subseteq Grade
<1>1. /\ \A g \in DOMAIN a.guarantees : a.guarantees[g].priority \in Nat
      /\ \A x \in DOMAIN a.forbids : a.forbids[x].priority \in Nat
  BY ContractAssumption
<1>2. \A n \in Nat : Least(100, 15 + 5 * n) \in Grade /\ Least(100, 10 + 4 * n) \in Grade
  BY DEF Least, Grade
<1>3. 15 \in Grade
  BY DEF Grade
<1> QED BY <1>1, <1>2, <1>3 DEF Supports, PropertyNames

LEMMA ShareOf ==
  ASSUME NEW p \in Nat, NEW r \in Nat \ {0}, p <= r
  PROVE  (40 * p) \div r \in 0..40
<1> DEFINE q == (40 * p) \div r
<1>1. q \in Int /\ q * r <= 40 * p /\ 40 * p < (q + 1) * r
  OBVIOUS
<1> HIDE DEF q
<1>2. q * r <= 40 * r
  BY <1>1
<1>3. q <= 40
  BY <1>1, <1>2
<1>4. q >= 0
  BY <1>1
<1> QED BY <1>1, <1>3, <1>4 DEF q

(* What both share is no more than what the first has.                     *)
LEMMA SharedCount ==
  ASSUME NEW S, NEW T, IsFiniteSet(S)
  PROVE  /\ Cardinality(S) \in Nat /\ Cardinality(S \cap T) \in Nat
         /\ Cardinality(S \cap T) <= Cardinality(S)
<1>1. S \cap T \subseteq S
  OBVIOUS
<1> QED BY <1>1, FS_Subset, FS_CardinalityType

LEMMA CoverageGraded ==
  ASSUME NEW a \in Contracts, NEW b \in Contracts
  PROVE  Coverage(a, b) \in Grade
<1> DEFINE c == Cardinality(a.caps \cap b.caps)
           g == Cardinality(PropertyNames(a.guarantees) \cap PropertyNames(b.guarantees))
           x == Cardinality(PropertyNames(a.forbids) \cap PropertyNames(b.forbids))
           C == Cardinality(a.caps)
           H == Cardinality(PropertyNames(a.guarantees))
           X == Cardinality(PropertyNames(a.forbids))
<1>1. c \in Nat /\ C \in Nat /\ c <= C
  BY ContractAssumption, SharedCount
<1>2. g \in Nat /\ H \in Nat /\ g <= H
  BY ContractAssumption, SharedCount DEF PropertyNames
<1>3. x \in Nat /\ X \in Nat /\ x <= X
  BY ContractAssumption, SharedCount DEF PropertyNames
<1>4. Coverage(a, b) = Greatest(75, 60 + (40 * (c + g + x)) \div Greatest(1, C + H + X))
  BY DEF Coverage
<1> HIDE DEF c, g, x, C, H, X
<1> DEFINE p == c + g + x
           r == Greatest(1, C + H + X)
<1>5. p \in Nat /\ r \in Nat \ {0} /\ p <= r
  BY <1>1, <1>2, <1>3 DEF Greatest
<1>6. Coverage(a, b) = Greatest(75, 60 + (40 * p) \div r)
  BY <1>4
<1> HIDE DEF p, r
<1>7. (40 * p) \div r \in 0..40
  BY <1>5, ShareOf
<1> QED BY <1>6, <1>7 DEF Greatest, Grade

LEMMA EquivalenceGraded ==
  ASSUME NEW a \in Contracts, NEW b \in Contracts
  PROVE  Equivalence(a, b) \in [t : Grade, f : Grade]
<1>1. Supports(a, b) \cup (IF Refutes(a, b) = {} THEN {Coverage(a, b)} ELSE {}) \subseteq Grade
  BY SupportsGraded, CoverageGraded
<1> QED BY <1>1, RefutesGraded, BestIs DEF Equivalence, JudgedBy, BV

(* A replacement has every capability of what it replaces: one that is     *)
(* missing alone refutes it, as do a dropped guarantee and a violated      *)
(* prohibition that are heavy enough.                                      *)
LEMMA SubstitutesServe ==
  ASSUME NEW a \in Contracts, NEW b \in Contracts, CanSubstitute(a, b)
  PROVE  /\ a.caps \subseteq b.caps
         /\ \A g \in Missing(a, b) : a.guarantees[g].priority < 7
         /\ \A x \in Violated(a, b) : a.forbids[x].priority < 1
<1>1. Best(Refutes(a, b)) < Theta
  BY DEF CanSubstitute, Equivalence, JudgedBy, BV, ClassOf
<1>2. \A k \in Refutes(a, b) : k < 55
  BY <1>1, RefutesGraded, BestIs DEF Theta, Grade
<1>3. ASSUME NEW c \in a.caps \ b.caps PROVE FALSE
  BY <1>2 DEF Refutes
<1>4. ASSUME NEW g \in Missing(a, b) PROVE a.guarantees[g].priority < 7
  <2>1. a.guarantees[g].priority \in Nat
    BY ContractAssumption DEF Missing, PropertyNames
  <2>2. Least(100, 20 + 5 * a.guarantees[g].priority) < 55
    BY <1>2 DEF Refutes
  <2> QED BY <2>1, <2>2 DEF Least
<1>5. ASSUME NEW x \in Violated(a, b) PROVE a.forbids[x].priority < 1
  <2>1. a.forbids[x].priority \in Nat
    BY ContractAssumption DEF Violated, PropertyNames
  <2>2. Least(100, 50 + 5 * a.forbids[x].priority) < 55
    BY <1>2 DEF Refutes
  <2> QED BY <2>1, <2>2 DEF Least
<1> QED BY <1>3, <1>4, <1>5

(* Composing agreements gives agreement: support keeps the weakest grade,  *)
(* refutation the strongest.                                               *)
LEMMA AgreementComposes ==
  ASSUME NEW b \in [t : Grade, f : Grade], NEW c \in [t : Grade, f : Grade], ClassOf(b) = "A", ClassOf(c) = "A"
  PROVE  Composed(b, c) \in [t : Grade, f : Grade] /\ ClassOf(Composed(b, c)) = "A"
<1>1. b.t >= Theta /\ c.t >= Theta /\ b.f < Theta /\ c.f < Theta
  BY DEF ClassOf, Theta, Grade
<1>2. Composed(b, c).t >= Theta /\ Composed(b, c).f < Theta
  BY <1>1 DEF Composed, BV, Least, Greatest, Grade, Theta
<1>3. Composed(b, c) \in [t : Grade, f : Grade]
  BY DEF Composed, BV, Least, Greatest
<1> QED BY <1>2, <1>3 DEF ClassOf, Theta, Grade

ServedInv == UTypeOK /\ CallersServed

LEMMA SubstitutionStep == ServedInv /\ [UNext]_uvars => ServedInv'
<1> SUFFICES ASSUME ServedInv, [UNext]_uvars PROVE ServedInv'
  OBVIOUS
<1> USE DEF ServedInv, CallersServed, UTypeOK
<1>1. ASSUME NEW c \in Contracts, Replace(c) PROVE ServedInv'
  <2>1. current' = c /\ first' = first /\ evidence' = Composed(evidence, Equivalence(current, c))
    BY <1>1 DEF Replace
  <2>2. current.caps \subseteq c.caps
    BY <1>1, SubstitutesServe DEF Replace
  <2>3. evidence' \in [t : Grade, f : Grade] /\ ClassOf(evidence') = "A"
    BY <1>1, <2>1, EquivalenceGraded, AgreementComposes DEF Replace, CanSubstitute
  <2> QED BY <2>1, <2>2, <2>3
<1>2. CASE UNCHANGED uvars
  BY <1>2 DEF uvars
<1> QED BY <1>1, <1>2 DEF UNext

(* However often a module is replaced by one can_substitute accepts, what  *)
(* stands in its place has every capability the first caller relied on,    *)
(* and the composed equivalence still identifies the two.                  *)
THEOREM ReplacementsServe == USpec => [](UTypeOK /\ CallersServed)
<1>1. UInit => ServedInv
  BY DEF UInit, ServedInv, UTypeOK, CallersServed, Certain, ClassOf, BV, Theta, Grade
<1>2. ServedInv => UTypeOK /\ CallersServed
  BY DEF ServedInv
<1> QED BY <1>1, <1>2, SubstitutionStep, PTL DEF USpec

(* What a replacement can_substitute accepts may drop of the guarantees    *)
(* and violate of the prohibitions is light by its priority alone: the     *)
(* docstring's unconditional promise holds from those weights on.          *)
THEOREM LossesAreLight == USpec => OnlyLightOnesLost
<1> DEFINE Losing == /\ current.caps \subseteq current'.caps
                     /\ \A g \in Missing(current, current') : current.guarantees[g].priority < 7
                     /\ \A x \in Violated(current, current') : current.forbids[x].priority < 1
<1>1. UInit => ServedInv
  BY DEF UInit, ServedInv, UTypeOK, CallersServed, Certain, ClassOf, BV, Theta, Grade
<1>2. ServedInv /\ [UNext]_uvars => [Losing]_uvars
  <2> SUFFICES ASSUME ServedInv, NEW c \in Contracts, Replace(c) PROVE Losing
    BY DEF UNext
  <2>1. current \in Contracts /\ current' = c /\ CanSubstitute(current, c)
    BY DEF ServedInv, UTypeOK, Replace
  <2> QED BY <2>1, SubstitutesServe
<1> QED BY <1>1, <1>2, SubstitutionStep, PTL DEF USpec, OnlyLightOnesLost
-----------------------------------------------------------------------------
(* Gluing.                                                                 *)

LEMMA GroupCloses ==
  /\ unit \in Elem
  /\ \A x \in Elem : Inv(x) \in Elem
  /\ \A x, y \in Elem : Op(x, y) \in Elem
BY GroupAssumption

LEMMA Cancel ==
  ASSUME NEW x \in Elem, NEW y \in Elem
  PROVE  Op(Inv(x), Op(x, y)) = y /\ Op(x, Op(Inv(x), y)) = y
<1>1. Inv(x) \in Elem
  BY GroupCloses
<1>2. Op(Inv(x), Op(x, y)) = Op(Op(Inv(x), x), y) /\ Op(x, Op(Inv(x), y)) = Op(Op(x, Inv(x)), y)
  BY <1>1, GroupAssumption
<1> QED BY <1>2, GroupAssumption

LEMMA InvUnique ==
  ASSUME NEW x \in Elem, NEW y \in Elem, Op(x, y) = unit
  PROVE  y = Inv(x)
<1>1. Op(Inv(x), unit) = Inv(x)
  BY GroupCloses, GroupAssumption
<1> QED BY <1>1, Cancel

LEMMA InvOfOp ==
  ASSUME NEW x \in Elem, NEW y \in Elem
  PROVE  Inv(Op(x, y)) = Op(Inv(y), Inv(x)) /\ Inv(Inv(x)) = x
<1>1. Inv(x) \in Elem /\ Inv(y) \in Elem /\ Op(x, y) \in Elem /\ Op(Inv(y), Inv(x)) \in Elem
  BY GroupCloses
<1>2. Op(Op(x, y), Op(Inv(y), Inv(x))) = Op(x, Op(y, Op(Inv(y), Inv(x))))
  BY <1>1, GroupAssumption
<1>3. Op(y, Op(Inv(y), Inv(x))) = Inv(x)
  BY <1>1, Cancel
<1>4. Op(Op(x, y), Op(Inv(y), Inv(x))) = unit
  BY <1>2, <1>3, GroupAssumption
<1>5. Op(Inv(x), x) = unit
  BY GroupAssumption
<1> QED BY <1>1, <1>4, <1>5, InvUnique

(* The solutions is_trivializable writes down: where the elements a make   *)
(* the transition, the element found for the other end and the element x   *)
(* it was found from lie over a at the same distance.                      *)
LEMMA ForwardSolves ==
  ASSUME NEW a \in Elem, NEW b \in Elem, NEW x \in Elem
  PROVE  Op(Inv(b), SolveForward(x, Coboundary(a, b))) = Op(Inv(a), x)
<1> DEFINE g == Op(a, Inv(b))
<1>1. /\ Inv(a) \in Elem /\ Inv(b) \in Elem /\ Inv(x) \in Elem /\ g \in Elem
      /\ Op(b, Inv(a)) \in Elem /\ Op(Inv(a), x) \in Elem
  BY GroupCloses
<1>2. Inv(Op(Inv(x), g)) = Op(Inv(g), x)
  BY <1>1, InvOfOp
<1>3. Inv(g) = Op(b, Inv(a))
  BY <1>1, InvOfOp
<1>4. Op(Op(b, Inv(a)), x) = Op(b, Op(Inv(a), x))
  BY <1>1, GroupAssumption
<1>5. Op(Inv(b), Op(b, Op(Inv(a), x))) = Op(Inv(a), x)
  BY <1>1, Cancel
<1> QED BY <1>2, <1>3, <1>4, <1>5 DEF SolveForward, Coboundary

LEMMA ReverseSolves ==
  ASSUME NEW a \in Elem, NEW b \in Elem, NEW y \in Elem
  PROVE  Op(Inv(a), SolveReverse(y, Coboundary(a, b))) = Op(Inv(b), y)
<1>1. Inv(a) \in Elem /\ Inv(b) \in Elem /\ Op(Inv(b), y) \in Elem
  BY GroupCloses
<1>2. Op(Op(a, Inv(b)), y) = Op(a, Op(Inv(b), y))
  BY <1>1, GroupAssumption
<1> QED BY <1>1, <1>2, Cancel DEF SolveReverse, Coboundary

(* Elements at the same distance over a and b make the same transition.    *)
LEMMA SameCoboundary ==
  ASSUME NEW a \in Elem, NEW b \in Elem, NEW x \in Elem, NEW y \in Elem,
         Op(Inv(a), x) = Op(Inv(b), y)
  PROVE  Coboundary(x, y) = Coboundary(a, b)
<1> DEFINE c == Op(Inv(a), x)
<1>1. c \in Elem /\ Inv(b) \in Elem /\ Inv(c) \in Elem /\ Op(Inv(c), Inv(b)) \in Elem
  BY GroupCloses
<1>2. x = Op(a, c) /\ y = Op(b, c)
  BY Cancel
<1> HIDE DEF c
<1>3. Inv(y) = Op(Inv(c), Inv(b))
  BY <1>1, <1>2, InvOfOp
<1>4. Op(Op(a, c), Op(Inv(c), Inv(b))) = Op(a, Op(c, Op(Inv(c), Inv(b))))
  BY <1>1, GroupAssumption
<1>5. Op(c, Op(Inv(c), Inv(b))) = Inv(b)
  BY <1>1, Cancel
<1> QED BY <1>2, <1>3, <1>4, <1>5 DEF Coboundary

(* A transition and the next compose to the one from end to end.           *)
LEMMA CoboundariesCompose ==
  ASSUME NEW a \in Elem, NEW b \in Elem, NEW c \in Elem
  PROVE  Op(Coboundary(a, b), Coboundary(b, c)) = Coboundary(a, c)
<1>1. Inv(b) \in Elem /\ Inv(c) \in Elem /\ Op(b, Inv(c)) \in Elem
  BY GroupCloses
<1>2. Op(Op(a, Inv(b)), Op(b, Inv(c))) = Op(a, Op(Inv(b), Op(b, Inv(c))))
  BY <1>1, GroupAssumption
<1> QED BY <1>1, <1>2, Cancel DEF Coboundary

(* The elements a make every transition there is.                          *)
Makes(a)  == \A p \in Present : G(p[1], p[2]) = Coboundary(a[p[1]], a[p[2]])
(* How far what is known of i lies from a.                                 *)
Key(a, i) == Op(Inv(a[i]), known[i])

(* The walk is breadth first: a visited fragment has known neighbours, and *)
(* over any a that makes the transitions all it found lies at one distance *)
(* in each connected part, the whole queue in the one part being walked.   *)
Reached == \A p \in Present :
             /\ p[1] \in DOMAIN known \ queue => p[2] \in DOMAIN known
             /\ p[2] \in DOMAIN known \ queue => p[1] \in DOMAIN known
OneKey(a) ==
  /\ \A p \in Present : {p[1], p[2]} \subseteq DOMAIN known => Key(a, p[1]) = Key(a, p[2])
  /\ \A i, j \in queue : Key(a, i) = Key(a, j)
WalkInv ==
  /\ CTypeOK /\ Reached /\ GluesExactly
  /\ \A a \in [Fragments -> Elem] : Makes(a) => OneKey(a)

LEMMA SolvedOver ==
  ASSUME CTypeOK, NEW a \in [Fragments -> Elem], Makes(a),
         NEW i \in queue, NEW s \in Solved(i)
  PROVE  /\ s[1] \in Fragments /\ s[2] \in Elem
         /\ Op(Inv(a[s[1]]), s[2]) = Key(a, i)
         /\ \E p \in Present : {p[1], p[2]} = {i, s[1]}
<1>1. i \in Fragments /\ known[i] \in Elem /\ a[i] \in Elem
  BY DEF CTypeOK
<1>2. CASE \E p \in Present : p[1] = i /\ s = <<p[2], SolveForward(known[i], G(p[1], p[2]))>>
  <2>1. PICK p \in Present : p[1] = i /\ s = <<p[2], SolveForward(known[i], G(p[1], p[2]))>>
    BY <1>2
  <2>2. p[2] \in Fragments /\ a[p[2]] \in Elem /\ G(p[1], p[2]) = Coboundary(a[i], a[p[2]])
    BY <2>1, CoverAssumption DEF Present, Makes
  <2>3. Coboundary(a[i], a[p[2]]) \in Elem
    BY <1>1, <2>2, GroupCloses DEF Coboundary
  <2>4. SolveForward(known[i], G(p[1], p[2])) \in Elem
    BY <1>1, <2>2, <2>3, GroupCloses DEF SolveForward
  <2>5. Op(Inv(a[p[2]]), SolveForward(known[i], Coboundary(a[i], a[p[2]]))) = Key(a, i)
    BY <1>1, <2>2, ForwardSolves DEF Key
  <2> QED BY <2>1, <2>2, <2>4, <2>5
<1>3. CASE \E p \in Present : p[2] = i /\ s = <<p[1], SolveReverse(known[i], G(p[1], p[2]))>>
  <2>1. PICK p \in Present : p[2] = i /\ s = <<p[1], SolveReverse(known[i], G(p[1], p[2]))>>
    BY <1>3
  <2>2. p[1] \in Fragments /\ a[p[1]] \in Elem /\ G(p[1], p[2]) = Coboundary(a[p[1]], a[i])
    BY <2>1, CoverAssumption DEF Present, Makes
  <2>3. Coboundary(a[p[1]], a[i]) \in Elem
    BY <1>1, <2>2, GroupCloses DEF Coboundary
  <2>4. SolveReverse(known[i], G(p[1], p[2])) \in Elem
    BY <1>1, <2>2, <2>3, GroupCloses DEF SolveReverse
  <2>5. Op(Inv(a[p[1]]), SolveReverse(known[i], Coboundary(a[p[1]], a[i]))) = Key(a, i)
    BY <1>1, <2>2, ReverseSolves DEF Key
  <2> QED BY <2>1, <2>2, <2>4, <2>5
<1> QED BY <1>2, <1>3 DEF Solved

LEMMA SolvedTypes ==
  ASSUME CTypeOK, NEW i \in queue, NEW s \in Solved(i)
  PROVE  s[1] \in Fragments /\ s[2] \in Elem
<1>1. known[i] \in Elem
  BY DEF CTypeOK
<1>2. \A p \in Present : p[1] \in Fragments /\ p[2] \in Fragments /\ G(p[1], p[2]) \in Elem
  <2> SUFFICES ASSUME NEW p \in Present PROVE p[1] \in Fragments /\ p[2] \in Fragments /\ G(p[1], p[2]) \in Elem
    OBVIOUS
  <2>1. p = <<p[1], p[2]>> /\ p[1] \in Fragments /\ p[2] \in Fragments
    BY CoverAssumption DEF Present
  <2> QED BY <2>1 DEF Present, CTypeOK, G
<1>3. \A g \in Elem : SolveForward(known[i], g) \in Elem /\ SolveReverse(known[i], g) \in Elem
  BY <1>1, GroupCloses DEF SolveForward, SolveReverse
<1> QED BY <1>2, <1>3 DEF Solved

LEMMA RootStep == WalkInv /\ Root => WalkInv'
<1> SUFFICES ASSUME WalkInv, Root PROVE WalkInv'
  OBVIOUS
<1> DEFINE D == Fragments \ DOMAIN known
           root == CHOOSE i \in D : \A j \in D : i <= j
<1>1. root \in Fragments \ DOMAIN known
  <2>1. D # {} /\ D \subseteq Nat
    BY CoverAssumption DEF Root, WalkInv, CTypeOK
  <2>2. \E i \in D : \A j \in D : i <= j
    BY <2>1, Smallest
  <2> QED BY <2>2
<1>2. /\ known' = [i \in DOMAIN known \cup {root} |-> IF i = root THEN unit ELSE known[i]]
      /\ queue' = {root} /\ queue = {} /\ verdict' = "open"
      /\ Present' = Present /\ transitions' = transitions
  BY DEF Root, Present
<1> HIDE DEF root
<1>3. DOMAIN known' = DOMAIN known \cup {root} /\ \A i \in DOMAIN known : known'[i] = known[i]
  BY <1>1, <1>2
<1>4. CTypeOK'
  BY <1>1, <1>2, <1>3, GroupCloses DEF WalkInv, CTypeOK
<1>5. Reached'
  BY <1>1, <1>2, <1>3 DEF WalkInv, Reached
<1>6. ASSUME NEW a \in [Fragments -> Elem], Makes(a)'
      PROVE  OneKey(a)'
  <2>1. Makes(a)
    BY <1>2, <1>6 DEF Makes, G
  <2>2. \A p \in Present : {p[1], p[2]} \subseteq DOMAIN known' => {p[1], p[2]} \subseteq DOMAIN known
    BY <1>1, <1>2, <1>3, CoverAssumption DEF WalkInv, Reached, Present
  <2>3. \A p \in Present : {p[1], p[2]} \subseteq DOMAIN known' => Key(a, p[1])' = Key(a, p[2])'
    BY <1>3, <2>1, <2>2 DEF WalkInv, OneKey, Key
  <2> QED BY <1>2, <2>3 DEF OneKey
<1>7. GluesExactly'
  BY <1>2 DEF GluesExactly
<1> QED BY <1>4, <1>5, <1>6, <1>7 DEF WalkInv

LEMMA VisitStep == ASSUME NEW i \in Fragments PROVE WalkInv /\ Visit(i) => WalkInv'
<1> SUFFICES ASSUME WalkInv, Visit(i) PROVE WalkInv'
  OBVIOUS
<1> DEFINE found == Solved(i)
           new   == {s[1] : s \in found} \ DOMAIN known
           agree == \A s \in found : /\ s[1] \in DOMAIN known => known[s[1]] = s[2]
                                     /\ \A r \in found : r[1] = s[1] => r[2] = s[2]
<1>1. CTypeOK /\ i \in queue /\ i \in DOMAIN known /\ verdict = "open"
  BY DEF WalkInv, Visit, CTypeOK
<1>2. Present' = Present /\ transitions' = transitions
  BY DEF Visit, Present
<1>3. \A s \in found : s[1] \in Fragments /\ s[2] \in Elem
  BY <1>1, SolvedTypes
<1>4. \A p \in Present : /\ p[1] = i => p[2] \in {s[1] : s \in found}
                         /\ p[2] = i => p[1] \in {s[1] : s \in found}
  <2> SUFFICES ASSUME NEW p \in Present
               PROVE  /\ p[1] = i => \E s \in found : s[1] = p[2]
                      /\ p[2] = i => \E s \in found : s[1] = p[1]
    OBVIOUS
  <2>1. p[1] = i => <<p[2], SolveForward(known[i], G(p[1], p[2]))>> \in found
    BY DEF Solved
  <2>2. p[2] = i => <<p[1], SolveReverse(known[i], G(p[1], p[2]))>> \in found
    BY DEF Solved
  <2> QED BY <2>1, <2>2
<1>5. CASE agree
  <2>1. /\ known' = [j \in DOMAIN known \cup new |->
                       IF j \in new THEN (CHOOSE s \in found : s[1] = j)[2] ELSE known[j]]
        /\ queue' = (queue \ {i}) \cup new /\ verdict' = verdict
    BY <1>5 DEF Visit
  <2>2. \A j \in new : \E s \in found : s[1] = j /\ known'[j] = s[2]
    BY <2>1
  <2>3. DOMAIN known' = DOMAIN known \cup new /\ \A j \in DOMAIN known : known'[j] = known[j]
    BY <2>1
  <2>4. \A j \in new : j \in Fragments /\ known'[j] \in Elem
    BY <1>3, <2>2
  <2>5. new \cap DOMAIN known = {} /\ {s[1] : s \in found} \subseteq DOMAIN known \cup new
    OBVIOUS
  <2> HIDE DEF found, new, agree
  <2>6. CTypeOK'
    <3>1. \A j \in DOMAIN known' : j \in Fragments /\ known'[j] \in Elem
      BY <1>1, <2>3, <2>4 DEF CTypeOK
    <3>2. queue' \subseteq DOMAIN known'
      BY <1>1, <2>1, <2>3 DEF CTypeOK
    <3> QED BY <1>1, <1>2, <2>1, <3>1, <3>2 DEF CTypeOK
  <2>7. Reached'
    <3>1. DOMAIN known' \ queue' \subseteq (DOMAIN known \ queue) \cup {i}
      BY <2>1, <2>3
    <3> QED BY <1>2, <1>4, <2>3, <2>5, <3>1 DEF WalkInv, Reached
  <2>8. ASSUME NEW a \in [Fragments -> Elem], Makes(a)'
        PROVE  OneKey(a)'
    <3>1. Makes(a)
      BY <1>2, <2>8 DEF Makes, G
    <3>2. OneKey(a)
      BY <3>1 DEF WalkInv
    <3>3. \A j \in new : Key(a, j)' = Key(a, i)
      <4>1. \A s \in found : Op(Inv(a[s[1]]), s[2]) = Key(a, i)
        BY <1>1, <3>1, SolvedOver DEF found
      <4> QED BY <2>2, <4>1 DEF Key
    <3>4. \A j \in DOMAIN known : Key(a, j)' = Key(a, j)
      BY <2>3 DEF Key
    <3>5. \A j \in queue \cup new : Key(a, j)' = Key(a, i)
      BY <1>1, <3>2, <3>3, <3>4 DEF OneKey, CTypeOK
    <3>6. \A p \in Present : {p[1], p[2]} \subseteq DOMAIN known' =>
            \/ {p[1], p[2]} \subseteq DOMAIN known
            \/ {p[1], p[2]} \subseteq queue \cup new
      BY <1>1, <2>3 DEF WalkInv, Reached, CTypeOK
    <3>7. \A p \in Present : {p[1], p[2]} \subseteq DOMAIN known' => Key(a, p[1])' = Key(a, p[2])'
      BY <3>2, <3>4, <3>5, <3>6 DEF OneKey
    <3>8. \A j, k \in queue' : Key(a, j)' = Key(a, k)'
      BY <2>1, <3>5
    <3> QED BY <1>2, <3>7, <3>8 DEF OneKey
  <2>9. GluesExactly'
    BY <1>1, <2>1 DEF GluesExactly
  <2> QED BY <2>6, <2>7, <2>8, <2>9 DEF WalkInv
<1>6. CASE ~agree
  <2>1. verdict' = "obstructed" /\ known' = known /\ queue' = queue
    BY <1>6 DEF Visit
  <2>2. ASSUME NEW a \in [Fragments -> Elem], Makes(a) PROVE agree
    <3>1. \A s \in found : /\ Op(Inv(a[s[1]]), s[2]) = Key(a, i)
                           /\ \E p \in Present : {p[1], p[2]} = {i, s[1]}
      BY <1>1, <2>2, SolvedOver
    <3>2. \A s \in found : a[s[1]] \in Elem
      BY <1>3
    <3>3. ASSUME NEW s \in found, s[1] \in DOMAIN known PROVE known[s[1]] = s[2]
      <4>1. PICK p \in Present : {p[1], p[2]} = {i, s[1]}
        BY <3>1
      <4>2. {p[1], p[2]} \subseteq DOMAIN known
        BY <1>1, <3>3, <4>1
      <4>3. Key(a, p[1]) = Key(a, p[2])
        BY <2>2, <4>2 DEF WalkInv, OneKey
      <4>4. Key(a, s[1]) = Key(a, i)
        BY <4>1, <4>3
      <4>5. known[s[1]] \in Elem
        BY <1>1, <3>3 DEF CTypeOK
      <4>6. Op(a[s[1]], Op(Inv(a[s[1]]), known[s[1]])) = Op(a[s[1]], Op(Inv(a[s[1]]), s[2]))
        BY <3>1, <4>4 DEF Key
      <4> QED BY <1>3, <3>2, <4>5, <4>6, Cancel
    <3>4. ASSUME NEW s \in found, NEW r \in found, r[1] = s[1] PROVE r[2] = s[2]
      <4>1. Op(a[s[1]], Op(Inv(a[s[1]]), r[2])) = Op(a[s[1]], Op(Inv(a[s[1]]), s[2]))
        BY <3>1, <3>4
      <4> QED BY <1>3, <3>2, <4>1, Cancel
    <3> QED BY <3>3, <3>4
  <2>3. ~Trivial
    BY <1>6, <2>2 DEF Trivial, Makes
  <2>4. ~Trivial'
    BY <1>2, <2>3 DEF Trivial, G
  <2> QED BY <1>2, <2>1, <2>4 DEF WalkInv, CTypeOK, Reached, OneKey, Key, Makes, G, GluesExactly
<1> QED BY <1>5, <1>6

LEMMA DecideStep == WalkInv /\ Decide => WalkInv'
<1> SUFFICES ASSUME WalkInv, Decide PROVE WalkInv'
  OBVIOUS
<1>1. UNCHANGED <<transitions, known, queue>> /\ Present' = Present
  BY DEF Decide, Present
<1>2. Trivial' <=> Trivial
  BY <1>1 DEF Trivial, G
<1>3. ASSUME Trivial PROVE Closes
  <2>1. PICK a \in [Fragments -> Elem] : Makes(a)
    BY <1>3 DEF Trivial, Makes
  <2>2. ASSUME NEW t \in Triples PROVE ~Twisted(t)
    <3>1. /\ t[1] \in Fragments /\ t[2] \in Fragments /\ t[3] \in Fragments
          /\ <<t[1], t[2]>> \in Present /\ <<t[2], t[3]>> \in Present /\ <<t[1], t[3]>> \in Present
      BY DEF Triples
    <3>2. /\ G(t[1], t[2]) = Coboundary(a[t[1]], a[t[2]])
          /\ G(t[2], t[3]) = Coboundary(a[t[2]], a[t[3]])
          /\ G(t[1], t[3]) = Coboundary(a[t[1]], a[t[3]])
      BY <2>1, <3>1 DEF Makes
    <3> QED BY <3>1, <3>2, CoboundariesCompose DEF Twisted
  <2> QED BY <2>2 DEF Closes
<1>4. ASSUME Trivial, DOMAIN known = Fragments PROVE Verified
  <2>1. PICK a \in [Fragments -> Elem] : Makes(a)
    BY <1>4 DEF Trivial, Makes
  <2>2. ASSUME NEW p \in Present PROVE G(p[1], p[2]) = Coboundary(known[p[1]], known[p[2]])
    <3>1. p[1] \in Fragments /\ p[2] \in Fragments
      BY CoverAssumption DEF Present
    <3>2. known[p[1]] \in Elem /\ known[p[2]] \in Elem
      BY <1>4, <3>1 DEF WalkInv, CTypeOK
    <3>3. Op(Inv(a[p[1]]), known[p[1]]) = Op(Inv(a[p[2]]), known[p[2]])
      BY <1>4, <2>1, <3>1 DEF WalkInv, OneKey, Key
    <3>4. Coboundary(known[p[1]], known[p[2]]) = Coboundary(a[p[1]], a[p[2]])
      BY <3>1, <3>2, <3>3, SameCoboundary
    <3> QED BY <2>1, <3>4 DEF Makes
  <2> QED BY <2>2 DEF Verified
<1>5. ASSUME Verified, DOMAIN known = Fragments PROVE Trivial
  <2> DEFINE a == [i \in Fragments |-> known[i]]
  <2>1. a \in [Fragments -> Elem]
    BY <1>5 DEF WalkInv, CTypeOK
  <2>2. \A p \in Present : a[p[1]] = known[p[1]] /\ a[p[2]] = known[p[2]]
    BY CoverAssumption DEF Present
  <2>3. \A p \in Present : G(p[1], p[2]) = Coboundary(a[p[1]], a[p[2]])
    BY <1>5, <2>2 DEF Verified
  <2> QED BY <2>1, <2>3 DEF Trivial
<1>6. GluesExactly'
  <2>1. verdict' \in {"glued", "refuted"} => Verified /\ DOMAIN known = Fragments
    BY DEF Decide
  <2>2. verdict' = "obstructed" => ~Closes \/ (~Verified /\ DOMAIN known = Fragments)
    BY DEF Decide
  <2> QED BY <1>2, <1>3, <1>4, <1>5, <2>1, <2>2 DEF GluesExactly
<1>7. CTypeOK'
  <2>1. verdict' \in {"open", "glued", "refuted", "obstructed"}
    BY DEF Decide
  <2> QED BY <1>1, <2>1 DEF WalkInv, CTypeOK
<1> QED BY <1>1, <1>6, <1>7 DEF WalkInv, Reached, OneKey, Key, Makes, G

(* The breadth-first walk of is_trivializable decides: in every group,     *)
(* commutative or not, and over every cover, the collection is glued (or   *)
(* refused for its evidence alone) only when it is a coboundary, and is    *)
(* called obstructed only when it is none, in whatever order it walks.     *)
THEOREM WalkDecides == CSpec => [](CTypeOK /\ GluesExactly)
<1>1. CInit => WalkInv
  <2> SUFFICES ASSUME CInit PROVE WalkInv
    OBVIOUS
  <2>1. DOMAIN known = {}
    BY DEF CInit
  <2>2. \A p \in Overlaps : transitions[p].g \in Elem
    <3> SUFFICES ASSUME NEW p \in Overlaps PROVE transitions[p].g \in Elem
      OBVIOUS
    <3>1. transitions[p] \in {Undefined} \cup [g : Samples, evidence : Proofs, there : {TRUE}]
      BY DEF CInit
    <3>2. Undefined.g = unit
      BY DEF Undefined
    <3> QED BY <3>1, <3>2, GroupAssumption
  <2> QED BY <2>1, <2>2 DEF CInit, WalkInv, CTypeOK, Reached, OneKey, GluesExactly
<1>2. WalkInv /\ [CNext]_cvars => WalkInv'
  <2> SUFFICES ASSUME WalkInv, [CNext]_cvars PROVE WalkInv'
    OBVIOUS
  <2>1. CASE Root
    BY <2>1, RootStep
  <2>2. CASE \E i \in Fragments : Visit(i)
    BY <2>2, VisitStep
  <2>3. CASE Decide
    BY <2>3, DecideStep
  <2>4. CASE UNCHANGED cvars
    <3>1. UNCHANGED <<transitions, known, queue, verdict>> /\ Present' = Present
      BY <2>4 DEF cvars, Present
    <3>2. Trivial' <=> Trivial
      BY <3>1 DEF Trivial, G
    <3> QED BY <3>1, <3>2 DEF WalkInv, CTypeOK, Reached, OneKey, Key, Makes, G, GluesExactly
  <2> QED BY <2>1, <2>2, <2>3, <2>4 DEF CNext
<1>3. WalkInv => CTypeOK /\ GluesExactly
  BY DEF WalkInv
<1> QED BY <1>1, <1>2, <1>3, PTL DEF CSpec
-----------------------------------------------------------------------------
(* Genuine conflicts.                                                      *)

LEMMA SameIdentity ==
  ASSUME NEW r, NEW s
  PROVE  IdentityPath(r, s) = IdentityPath(s, r)
<1>1. \A dims : /\ Shared(r, s, dims) = Shared(s, r, dims)
                /\ Disagreed(r, s, dims) = Disagreed(s, r, dims)
  BY DEF Shared, Disagreed, Spoken
<1> QED BY <1>1 DEF IdentityPath

LEMMA SameDiagnosis ==
  ASSUME NEW m \in Note, NEW n \in Note
  PROVE  Diagnosis(m, n) = Diagnosis(n, m)
<1>1. {m.says.t, m.says.f, n.says.t, n.says.f} \subseteq Int
  BY IdentityAssumption DEF Note, Grade
<1>2. ConflictOf(m.says, n.says) = ConflictOf(n.says, m.says)
  BY <1>1 DEF ConflictOf, Least, Greatest
<1>3. AgreementOf(m.says, n.says) = AgreementOf(n.says, m.says)
  BY <1>1 DEF AgreementOf, Least, Greatest
<1> QED BY <1>2, <1>3, SameIdentity DEF Diagnosis

(* Two referents that disagree in a primary dimension are never the same.  *)
LEMMA DisagreedDiffer ==
  ASSUME NEW m, NEW n, Diagnosis(m, n) = "same_object_conflict"
  PROVE  Disagreed(m.about, n.about, Primary) = {}
<1>1. IdentityPath(m.about, n.about).f < Theta
  BY DEF Diagnosis, ClassOf
<1>2. CASE m.about = n.about
  BY <1>2 DEF Disagreed, Shared, Spoken
<1>3. CASE m.about # n.about
  BY <1>1, <1>3 DEF IdentityPath, BV, Penalty, Theta
<1> QED BY <1>2, <1>3

LEMMA NotesGenuine == ITypeOK => ConflictsGenuine
<1> SUFFICES ASSUME ITypeOK, NEW p \in Conflicts
             PROVE  LET m == notes[p[1]]  n == notes[p[2]] IN
                    /\ Disagreed(m.about, n.about, Primary) = {}
                    /\ Diagnosis(n, m) = "same_object_conflict"
                    /\ \A i \in DOMAIN notes \ {p[1], p[2]} :
                         notes[i] = n => <<Least(p[1], i), Greatest(p[1], i)>> \in Conflicts
  BY DEF ConflictsGenuine
<1> DEFINE m == notes[p[1]]
           n == notes[p[2]]
<1>1. /\ p[1] \in DOMAIN notes /\ p[2] \in DOMAIN notes
      /\ Diagnosis(m, n) = "same_object_conflict"
  BY DEF Conflicts
<1>2. \A i \in DOMAIN notes : i \in Nat /\ notes[i] \in Note
  BY DEF ITypeOK
<1>3. Diagnosis(n, m) = "same_object_conflict"
  BY <1>1, <1>2, SameDiagnosis
<1>4. ASSUME NEW i \in DOMAIN notes \ {p[1], p[2]}, notes[i] = n
      PROVE  <<Least(p[1], i), Greatest(p[1], i)>> \in Conflicts
  <2>1. CASE p[1] < i
    BY <1>1, <1>2, <1>4, <2>1 DEF Conflicts, Least, Greatest
  <2>2. CASE i < p[1]
    BY <1>1, <1>2, <1>3, <1>4, <2>2 DEF Conflicts, Least, Greatest
  <2> QED BY <1>1, <1>2, <1>4, <2>1, <2>2
<1> QED BY <1>1, <1>3, <1>4, DisagreedDiffer

(* Two notes in conflict speak of one object, which the diagnosis says     *)
(* whichever of them it is given first, and a note repeated word for word  *)
(* is in the same conflict (identity_path and diagnose).                   *)
THEOREM GenuineConflicts == ISpec => [](ITypeOK /\ ConflictsGenuine)
<1>1. IInit => ITypeOK
  BY IdentityAssumption DEF IInit, ITypeOK
<1>2. ITypeOK /\ [INext]_notes => ITypeOK'
  <2> SUFFICES ASSUME ITypeOK, [INext]_notes PROVE ITypeOK'
    OBVIOUS
  <2>1. ASSUME NEW m \in Note, AddNote(m) PROVE ITypeOK'
    BY <2>1, IdentityAssumption DEF ITypeOK, AddNote
  <2> QED BY <2>1 DEF INext, ITypeOK
<1> QED BY <1>1, <1>2, NotesGenuine, PTL DEF ISpec
-----------------------------------------------------------------------------
(* The environment of the type checker.                                    *)

LEMMA AddedIs ==
  ASSUME NEW n, NEW d, n \notin DOMAIN env, env' = Added(n, d)
  PROVE  /\ DOMAIN env' = DOMAIN env \cup {n} /\ env'[n] = d
         /\ \A m \in DOMAIN env : env'[m] = env[m]
BY DEF Added

LEMMA AddedUnfolds ==
  ASSUME FTypeOK, NEW n, NEW d, n \notin DOMAIN env, env' = Added(n, d),
         d.transparent => d.term # NoTerm
  PROVE  FTypeOK'
<1>1. ASSUME NEW m \in DOMAIN env', env'[m].transparent PROVE env'[m].term # NoTerm
  <2>1. CASE m = n
    BY <1>1, <2>1, AddedIs
  <2>2. CASE m \in DOMAIN env
    BY <1>1, <2>2, AddedIs DEF FTypeOK, Definitions
  <2> QED BY <2>1, <2>2, AddedIs
<1> QED BY <1>1 DEF FTypeOK, Definitions

LEMMA AxiomAdds ==
  ASSUME NEW x, AddAxiom(x)
  PROVE  /\ x.name \notin DOMAIN env
         /\ \E d : env' = Added(x.name, d) /\ d.transparent = FALSE
<1> DEFINE d == [type |-> x.type, term |-> NoTerm, transparent |-> FALSE]
<1>1. x.name \notin DOMAIN env /\ env' = Added(x.name, d)
  BY DEF AddAxiom
<1>2. d.transparent = FALSE
  OBVIOUS
<1> QED BY <1>1, <1>2

LEMMA DefinitionAdds ==
  ASSUME NEW n, NEW c, NEW transparent, AddDefinition(n, c, transparent)
  PROVE  /\ n \notin DOMAIN env
         /\ \E d : env' = Added(n, d) /\ d.term = c.term
<1> DEFINE d == [type |-> c.type, term |-> c.term, transparent |-> transparent]
<1>1. n \notin DOMAIN env /\ env' = Added(n, d)
  BY DEF AddDefinition
<1>2. d.term = c.term
  OBVIOUS
<1> QED BY <1>1, <1>2

LEMMA EnvironmentStep == FTypeOK /\ [FNext]_env => FTypeOK'
<1> SUFFICES ASSUME FTypeOK, [FNext]_env PROVE FTypeOK'
  OBVIOUS
<1>1. ASSUME NEW x \in Axioms, AddAxiom(x) PROVE FTypeOK'
  BY <1>1, AxiomAdds, AddedUnfolds
<1>2. ASSUME NEW n \in Defined, NEW c \in Entries, NEW transparent \in BOOLEAN,
             AddDefinition(n, c, transparent)
      PROVE  FTypeOK'
  <2>1. c.term # NoTerm
    BY EnvironmentAssumption
  <2> QED BY <1>2, <2>1, DefinitionAdds, AddedUnfolds
<1>3. CASE UNCHANGED env
  BY <1>3 DEF FTypeOK, Definitions
<1> QED BY <1>1, <1>2, <1>3 DEF FNext

(* Whatever the checker admits, only a definition unfolds.                 *)
THEOREM AxiomsDoNotUnfold == FSpec => []FTypeOK
<1>1. FInit => FTypeOK
  BY DEF FInit, FTypeOK
<1> QED BY <1>1, EnvironmentStep, PTL DEF FSpec

(* Whatever the checker admits, no declaration is ever replaced            *)
(* (add_axiom and add_definition refuse a name that is taken).             *)
THEOREM NothingRedeclared == FSpec => DeclarationsStay
<1>1. ASSUME [FNext]_env
      PROVE  [\A n \in DOMAIN env : n \in DOMAIN env' /\ env'[n] = env[n]]_env
  <2>1. ASSUME NEW x \in Axioms, AddAxiom(x)
        PROVE  \A n \in DOMAIN env : n \in DOMAIN env' /\ env'[n] = env[n]
    BY <2>1, AxiomAdds, AddedIs
  <2>2. ASSUME NEW n \in Defined, NEW c \in Entries, NEW transparent \in BOOLEAN,
               AddDefinition(n, c, transparent)
        PROVE  \A m \in DOMAIN env : m \in DOMAIN env' /\ env'[m] = env[m]
    BY <2>2, DefinitionAdds, AddedIs
  <2> QED BY <1>1, <2>1, <2>2 DEF FNext
<1> QED BY <1>1, PTL DEF FSpec, DeclarationsStay
-----------------------------------------------------------------------------
(* The cycle as a whole: a component that rests takes no step, one that    *)
(* runs takes only its own.                                                *)

LEMMA CycleApart ==
  CycleSpec => /\ TSpec /\ DSpec /\ BeliefSpec /\ FSpec /\ USpec
               /\ CSpec /\ ISpec /\ XSpec /\ PTSpec /\ CorpusSpec
<1>1. CycleInit => /\ TInit /\ DInit /\ BeliefInit /\ FInit /\ UInit
                   /\ CInit /\ IInit /\ XInit /\ PTInit /\ CorpusInit
  BY DEF CycleInit
<1>2. ASSUME [CycleNext]_cyclevars
      PROVE  /\ [TNext]_tvars /\ [DNext]_dvars /\ [BeliefNext]_beliefvars
             /\ [FNext]_env /\ [UNext]_uvars /\ [CNext]_cvars /\ [INext]_notes
             /\ [XNext]_xvars /\ [PTNext]_pvars /\ [CorpusNext]_corpusvars
  <2>1. CASE UNCHANGED cyclevars
    BY <2>1 DEF cyclevars
  <2>2. CASE CycleNext
    BY <2>2 DEF CycleNext, Only
  <2> QED BY <1>2, <2>1, <2>2
<1> QED BY <1>1, <1>2, PTL DEF CycleSpec, TSpec, DSpec, BeliefSpec, FSpec, USpec, CSpec,
                               ISpec, XSpec, PTSpec, CorpusSpec

(* In every behaviour the run of the cycle explores each component keeps   *)
(* its types and its limits.                                               *)
THEOREM CycleTyped == CycleSpec => []CycleTypeOK
<1>1. CycleInit => part \in Parts
  BY DEF CycleInit
<1>2. part \in Parts /\ [CycleNext]_cyclevars => (part \in Parts)'
  BY DEF CycleNext, Only, cyclevars
<1>3. /\ part \in Parts /\ TTypeOK /\ DTypeOK /\ BeliefTypeOK /\ FTypeOK /\ UTypeOK
      /\ CTypeOK /\ ITypeOK /\ XTypeOK /\ PTTypeOK /\ CorpusTypeOK
      => CycleTypeOK
  BY DEF CycleTypeOK, Parts
<1> QED BY <1>1, <1>2, <1>3, CycleApart, TasksTyped, DelegationTyped, BeliefsCohere,
           AxiomsDoNotUnfold, ReplacementsServe, WalkDecides, GenuineConflicts,
           CertifiedChains, OneStepEach, CorpusTyped, PTL DEF CycleSpec
=============================================================================
