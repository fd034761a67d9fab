----------------------------- MODULE ServicesProofs -----------------------------
(***************************************************************************)
(* Theorems about the kernel's services, for every value of the constants: *)
(* the intake of modules, the memory, the tools and the hub one by one,    *)
(* and at last all of them side by side as MCServices runs them.           *)
(***************************************************************************)
EXTENDS MCServices, DelegationProofs, BootProofs, Foundations
-----------------------------------------------------------------------------
(* The intake of modules.                                                  *)

(* A module that was refused is on cooldown: both end together.            *)
RefusedCools == barred \subseteq cooled /\ slipped = {}

(* A review that admits a module found it off its cooldown.                *)
LEMMA AdmittedWasFree ==
  ASSUME NEW rec, NEW from, NEW target, NEW status \in Outcomes(rec, from, target),
         status \in Admitted
  PROVE  rec.module \notin cooled
<1>1. GateOpen(rec, from, target)
  BY DEF Outcomes, Mature, Admitted
<1> QED BY <1>1 DEF GateOpen, OnCooldown

LEMMA ReviewKeeps ==
  ASSUME RefusedCools, NEW p, NEW rec, NEW from, NEW target, Reviewed(p, rec, from, target)
  PROVE  RefusedCools'
<1>1. PICK status \in Outcomes(rec, from, target) :
        Feedback(rec.module, status \in Admitted, target)
  BY DEF Reviewed
<1>2. CASE status \in Admitted
  <2>1. rec.module \notin cooled
    BY <1>2, AdmittedWasFree
  <2> QED BY <1>1, <1>2, <2>1 DEF Feedback, RefusedCools
<1>3. CASE status \notin Admitted
  BY <1>1, <1>3 DEF Feedback, RefusedCools
<1> QED BY <1>2, <1>3

LEMMA RegistryStep == RefusedCools /\ [RNext]_rvars => RefusedCools'
<1> SUFFICES ASSUME RefusedCools, [RNext]_rvars PROVE RefusedCools'
  OBVIOUS
<1>1. ASSUME NEW p \in Proposal, NEW from \in Senders, NEW target \in Targets,
             \/ \E m \in Module : ProposeModule(p, m, from, target)
             \/ RequestModule(p, from, target)
      PROVE  RefusedCools'
  BY <1>1, ReviewKeeps DEF ProposeModule, RequestModule
<1>2. ASSUME NEW p \in Proposal, HubEvidence(p) PROVE RefusedCools'
  BY <1>2 DEF HubEvidence, RefusedCools
<1>3. ASSUME NEW m \in Module, HubFeedback(m) PROVE RefusedCools'
  BY <1>3 DEF HubFeedback, RefusedCools
<1>4. CASE CooldownEnds
  BY <1>4 DEF CooldownEnds, RefusedCools
<1>5. CASE UNCHANGED rvars
  BY <1>5 DEF rvars, RefusedCools
<1> QED BY <1>1, <1>2, <1>3, <1>4, <1>5 DEF RNext

(* However a refused module is proposed or asked for again, it is not      *)
(* admitted before its cooldown ran out or the hub lifted it               *)
(* (governed_review and apply_module_feedback).                            *)
THEOREM NoWayRoundARefusal == RSpec => []NoWayRound
<1>1. RInit => RefusedCools
  BY DEF RInit, RefusedCools
<1>2. RefusedCools => NoWayRound
  BY DEF RefusedCools, NoWayRound
<1> QED BY <1>1, <1>2, RegistryStep, PTL DEF RSpec

LEMMA ReviewTypes ==
  ASSUME RTypeOK, NEW p \in Proposal, NEW rec \in Record, NEW from \in Senders,
         NEW target \in Targets, Reviewed(p, rec, from, target)
  PROVE  RTypeOK'
<1>1. PICK status \in Outcomes(rec, from, target) :
        /\ records' = [q \in DOMAIN records \cup {p} |->
                         IF q = p THEN [rec EXCEPT !.status = status] ELSE records[q]]
        /\ experimental' = IF status = "promoted" THEN experimental \cup {rec.module}
                           ELSE experimental
        /\ Feedback(rec.module, status \in Admitted, target)
  BY DEF Reviewed
<1>2. status \in {"rejected", "review_pending", "promoted", "approved"}
  BY DEF Outcomes
<1>3. [rec EXCEPT !.status = status] \in Record /\ rec.module \in Module
  BY <1>2 DEF Record, Admitted
<1>4. DOMAIN records' = DOMAIN records \cup {p}
      /\ \A q \in DOMAIN records' : records'[q] \in Record
  BY <1>1, <1>3 DEF RTypeOK
<1>5. /\ cooled' \subseteq Module /\ familyCools' \in BOOLEAN /\ burdened' \subseteq Module
      /\ barred' \subseteq Module /\ slipped' \subseteq Module
  BY <1>1, <1>3 DEF Feedback, RTypeOK
<1> QED BY <1>1, <1>3, <1>4, <1>5 DEF RTypeOK

LEMMA RegistryTypes == RTypeOK /\ [RNext]_rvars => RTypeOK'
<1> SUFFICES ASSUME RTypeOK, [RNext]_rvars PROVE RTypeOK'
  OBVIOUS
<1>1. ASSUME NEW p \in Proposal, NEW from \in Senders, NEW target \in Targets, NEW m \in Module,
             ProposeModule(p, m, from, target)
      PROVE  RTypeOK'
  <2> DEFINE rec == [module |-> m, role |-> from.role, risk |-> from.risk, target |-> target,
                     weak |-> FALSE, status |-> "proposed"]
  <2>1. rec \in Record
    <3>1. from \in [role : Roles, trust : TrustLevel, locality : Localities, risk : RiskClass]
      BY RegistryAssumption
    <3> QED BY <3>1 DEF Record
  <2>2. Reviewed(p, rec, from, target)
    BY <1>1 DEF ProposeModule
  <2> HIDE DEF rec
  <2> QED BY <2>1, <2>2, ReviewTypes
<1>2. ASSUME NEW p \in Proposal, NEW from \in Senders, NEW target \in Targets,
             RequestModule(p, from, target)
      PROVE  RTypeOK'
  <2>1. records[p] \in Record /\ Reviewed(p, records[p], from, target)
    BY <1>2 DEF RequestModule, RTypeOK
  <2> QED BY <2>1, ReviewTypes
<1>3. ASSUME NEW p \in Proposal, HubEvidence(p) PROVE RTypeOK'
  <2>1. DOMAIN records' = DOMAIN records /\ \A q \in DOMAIN records : records'[q] \in Record
    BY <1>3 DEF HubEvidence, RTypeOK, Record
  <2> QED BY <1>3, <2>1 DEF HubEvidence, RTypeOK
<1>4. ASSUME NEW m \in Module, HubFeedback(m) PROVE RTypeOK'
  BY <1>4 DEF HubFeedback, RTypeOK
<1>5. CASE CooldownEnds
  BY <1>5 DEF CooldownEnds, RTypeOK
<1>6. CASE UNCHANGED rvars
  BY <1>6 DEF rvars, RTypeOK
<1> QED BY <1>1, <1>2, <1>3, <1>4, <1>5, <1>6 DEF RNext

LEMMA RegistryTypesInit == RInit => RTypeOK
<1>1. DOMAIN <<>> = {}
  OBVIOUS
<1> QED BY <1>1 DEF RInit, RTypeOK

(* Every record of a proposal stays one of a module, a role and a status   *)
(* the registry knows (_record_module_proposal, governed_review).          *)
THEOREM RegistryTyped == RSpec => []RTypeOK
<1> QED BY RegistryTypesInit, RegistryTypes, PTL DEF RSpec
-----------------------------------------------------------------------------
(* The memory.                                                             *)

Once(bank, key) == \A i, j \in DOMAIN bank : bank[i].key = key /\ bank[j].key = key => i = j
Own(fresh) == {x.key : x \in fresh} \cup {"pattern"}
Bank(fresh) == {b \in Seq(Entry) : Len(b) <= BankCap /\ \A key \in Own(fresh) : Once(b, key)}

(* Banks that hold of the fresh items those of gone, and none twice.       *)
Tidy(bs, gone, fresh) ==
  /\ bs \in [Kinds -> Bank(fresh)]
  /\ \A k \in Kinds, x \in fresh : HasKey(bs[k], x.key) => x \in gone

(* What was never brought back; what left the branch or never was in it.   *)
Fresh == BranchItem \ replayed
Gone  == written \ branch

MemoryInv ==
  /\ Tidy(banks, Gone, Fresh) /\ Tidy(banksSaved, Gone, Fresh)
  /\ ~unsaved => branchSaved \subseteq branch
  /\ branch \subseteq written /\ branchSaved \subseteq written /\ written \subseteq BranchItem
  /\ point \subseteq written /\ pointSaved \subseteq written /\ replayed \subseteq written
  /\ IsFiniteSet(written) /\ unsaved \in BOOLEAN
  /\ stored \in 0..MaxStored /\ mishaps \in 0..MaxMishaps

LEMMA Items ==
  ASSUME NEW x \in BranchItem
  PROVE  /\ x.kind \in Kinds /\ x.key \in Key /\ New(x.key, TRUE) \in Entry
         /\ New(x.key, x.workflow) \in Entry /\ x.key # "pattern" /\ x.key # "summary"
         /\ x.key \notin LocalKey
BY MemoryAssumption DEF Key, Entry, New

LEMMA Owned ==
  ASSUME NEW fresh \in SUBSET BranchItem, NEW x \in BranchItem
  PROVE  x.key \in Own(fresh) <=> x \in fresh
BY Items, MemoryAssumption DEF Own

(* One entry more.                                                         *)
LEMMA StoredIs ==
  ASSUME NEW fresh, NEW b \in Bank(fresh), NEW e \in Entry, e.key \in Own(fresh) => ~HasKey(b, e.key)
  PROVE  /\ Stored(b, e) \in Bank(fresh)
         /\ \A key : HasKey(Stored(b, e), key) => HasKey(b, key) \/ key = e.key
<1> DEFINE l == Append(b, e)
           n == Len(b)
<1>0. BankCap \in Nat \ {0} /\ b \in Seq(Entry) /\ n \in Nat /\ n <= BankCap
      /\ DOMAIN b = 1..n /\ \A key \in Own(fresh) : Once(b, key)
  BY MemoryAssumption DEF Bank
<1>1. /\ l \in Seq(Entry) /\ Len(l) = n + 1 /\ DOMAIN l = 1..(n + 1) /\ l[n + 1] = e
      /\ \A i \in 1..n : l[i] = b[i]
  BY <1>0
<1> HIDE DEF l
<1>2. \A key : HasKey(l, key) => HasKey(b, key) \/ key = e.key
  BY <1>0, <1>1 DEF HasKey
<1>3. ASSUME NEW key \in Own(fresh), NEW i \in 1..(n + 1), NEW j \in 1..(n + 1),
             l[i].key = key, l[j].key = key
      PROVE  i = j
  <2>1. (i \in 1..n \/ i = n + 1) /\ (j \in 1..n \/ j = n + 1)
    BY <1>0
  <2>2. CASE i \in 1..n /\ j \in 1..n
    BY <1>0, <1>1, <1>3, <2>2 DEF Once
  <2>3. CASE key = e.key
    <3>1. ~HasKey(b, key)
      BY <1>3, <2>3
    <3> QED BY <1>0, <1>1, <1>3, <2>1, <3>1 DEF HasKey
  <2>4. i = n + 1 \/ j = n + 1 => key = e.key
    BY <1>1, <1>3
  <2> QED BY <2>1, <2>2, <2>3, <2>4
<1>4. \A key \in Own(fresh) : Once(l, key)
  BY <1>1, <1>3 DEF Once
<1>5. CASE n + 1 > BankCap
  <2> DEFINE t == Tail(l)
  <2>1. t \in Seq(Entry) /\ Len(t) = n /\ DOMAIN t = 1..n /\ \A i \in 1..n : t[i] = l[i + 1]
    BY <1>0, <1>1
  <2>2. Stored(b, e) = t
    BY <1>1, <1>5 DEF Stored, l
  <2> HIDE DEF t
  <2>3. \A i \in 1..n : i + 1 \in 1..(n + 1)
    BY <1>0
  <2>4. \A key : HasKey(t, key) => HasKey(l, key)
    BY <1>1, <2>1, <2>3 DEF HasKey
  <2>5. ASSUME NEW key \in Own(fresh) PROVE Once(t, key)
    <3> SUFFICES ASSUME NEW i \in 1..n, NEW j \in 1..n, t[i].key = key, t[j].key = key PROVE i = j
      BY <2>1 DEF Once
    <3>1. i + 1 = j + 1
      BY <1>1, <1>4, <2>1, <2>3 DEF Once
    <3> QED BY <1>0, <3>1
  <2>6. t \in Bank(fresh)
    BY <1>0, <2>1, <2>5 DEF Bank
  <2> QED BY <1>2, <2>2, <2>4, <2>6
<1>6. CASE ~(n + 1 > BankCap)
  <2>1. Stored(b, e) = l
    BY <1>1, <1>6 DEF Stored, l
  <2>2. l \in Bank(fresh)
    BY <1>0, <1>1, <1>4, <1>6 DEF Bank
  <2> QED BY <1>2, <2>1, <2>2
<1> QED BY <1>5, <1>6

LEMMA PutIn ==
  ASSUME NEW fresh, NEW gone, NEW bs, Tidy(bs, gone, fresh), NEW k \in Kinds, NEW e \in Entry,
         e.key \in Own(fresh) => ~HasKey(bs[k], e.key),
         \A x \in fresh : x.key = e.key => x \in gone
  PROVE  Tidy([bs EXCEPT ![k] = Stored(@, e)], gone, fresh)
<1> DEFINE s == Stored(bs[k], e)
           b == [bs EXCEPT ![k] = s]
<1>1. bs \in [Kinds -> Bank(fresh)] /\ bs[k] \in Bank(fresh)
  BY DEF Tidy
<1>2. s \in Bank(fresh) /\ \A key : HasKey(s, key) => HasKey(bs[k], key) \/ key = e.key
  BY <1>1, StoredIs
<1>3. b = [bs EXCEPT ![k] = Stored(@, e)]
  OBVIOUS
<1> HIDE DEF s
<1>4. b \in [Kinds -> Bank(fresh)] /\ b[k] = s /\ \A l \in Kinds \ {k} : b[l] = bs[l]
  BY <1>1, <1>2
<1> HIDE DEF b
<1>5. ASSUME NEW l \in Kinds, NEW x \in fresh, HasKey(b[l], x.key) PROVE x \in gone
  <2>1. CASE l = k
    BY <1>2, <1>4, <1>5, <2>1 DEF Tidy
  <2>2. CASE l # k
    BY <1>4, <1>5, <2>2 DEF Tidy
  <2> QED BY <2>1, <2>2
<1>6. Tidy(b, gone, fresh)
  BY <1>4, <1>5 DEF Tidy
<1> QED BY <1>3, <1>6

LEMMA TidyGrows ==
  ASSUME NEW bs, NEW a, NEW b, NEW fresh, NEW fewer, Tidy(bs, a, fresh),
         fewer \subseteq fresh, a \cap fewer \subseteq b
  PROVE  Tidy(bs, b, fewer)
<1>1. Own(fewer) \subseteq Own(fresh)
  BY DEF Own
<1>2. Bank(fresh) \subseteq Bank(fewer)
  BY <1>1 DEF Bank
<1> QED BY <1>2 DEF Tidy

(* The items selected from the branch, one after the other.                *)
LEMMA PromotedIs ==
  ASSUME NEW fresh \in SUBSET BranchItem, NEW gone, Tidy(banks, gone, fresh),
         NEW items \in SUBSET BranchItem, IsFiniteSet(items), items \cap gone = {}
  PROVE  Tidy(Promoted(items), gone \cup items, fresh)
<1> DEFINE order == SetToSeq(items)
           N == Len(order)
           Val == [Kinds -> Seq(Entry)]
           Before(n) == gone \cup {order[i] : i \in 1..n}
<1>1. /\ N \in Nat /\ order \in [1..N -> items] /\ IsInjective(order)
      /\ \A x \in items : \E i \in 1..N : order[i] = x
  BY SetToSeqIs
<1> HIDE DEF order, N
<1>2. \A n \in 1..N : order[n] \in BranchItem /\ order[n] \in items
  BY <1>1
<1>3. \A b \in Val, x \in BranchItem : WithItem(b, x) \in Val
  <2> SUFFICES ASSUME NEW b \in Val, NEW x \in BranchItem PROVE WithItem(b, x) \in Val
    OBVIOUS
  <2>1. b[x.kind] \in Seq(Entry) /\ New(x.key, x.workflow) \in Entry
    BY Items
  <2>2. Append(b[x.kind], New(x.key, x.workflow)) \in Seq(Entry)
    BY <2>1
  <2>3. Stored(b[x.kind], New(x.key, x.workflow)) \in Seq(Entry)
    <3>1. \A s \in Seq(Entry) : Len(s) > BankCap => Tail(s) \in Seq(Entry)
      <4>1. BankCap \in Nat
        BY MemoryAssumption
      <4> QED BY <4>1
    <3> QED BY <2>2, <3>1 DEF Stored
  <2> QED BY <2>3 DEF WithItem
<1> DEFINE step == [p \in Val \X (1..N) |-> WithItem(p[1], order[p[2]])]
           rec(f) == [n \in 0..N |-> IF n = 0 THEN banks ELSE WithItem(f[n - 1], order[n])]
           after == CHOOSE f : f = rec(f)
<1>4. step \in [Val \X (1..N) -> Val] /\ banks \in Val
  BY <1>2, <1>3 DEF Tidy, Bank
<1>5. PICK f \in [0..N -> Val] : Loop(f, N, banks, step)
  <2> HIDE DEF step, Val
  <2> QED BY <1>1, <1>4, Recursion
<1>6. f = rec(f)
  <2>1. \A n \in 1..N : n - 1 \in 0..N
    BY <1>1
  <2>2. \A n \in 1..N : f[n] = WithItem(f[n - 1], order[n])
    BY <1>5, <2>1 DEF Loop
  <2> HIDE DEF Val
  <2>3. \A n \in 0..N : f[n] = rec(f)[n]
    BY <1>1, <1>5, <2>2 DEF Loop
  <2> QED BY <1>5, <2>3
<1>7. after = rec(after)
  BY <1>6
<1> HIDE DEF step, Val
<1> DEFINE S == {n \in 0..N : Tidy(after[n], Before(n), fresh)}
<1>8. 0..N \subseteq S
  <2> HIDE DEF after
  <2>1. after[0] = banks
    BY <1>1, <1>7
  <2>2. \A n \in 1..N : after[n] = WithItem(after[n - 1], order[n])
    BY <1>1, <1>7
  <2>3. Before(0) = gone
    OBVIOUS
  <2> HIDE DEF Before
  <2>4. 0 \in S
    <3>1. Tidy(after[0], Before(0), fresh)
      BY <2>1, <2>3
    <3> QED BY <1>1, <3>1
  <2> USE DEF Before
  <2>5. ASSUME NEW n \in 1..N, n - 1 \in S PROVE n \in S
    <3> DEFINE x == order[n]
               b == after[n - 1]
    <3>1. x \in BranchItem /\ x \in items /\ Tidy(b, Before(n - 1), fresh) /\ after[n] = WithItem(b, x)
      BY <1>2, <2>2, <2>5
    <3>2. x \notin Before(n - 1)
      <4>1. \A i \in 1..(n - 1) : i \in 1..N /\ i # n
        BY <1>1
      <4>2. \A i \in 1..(n - 1) : order[i] # order[n]
        BY <1>1, <4>1 DEF IsInjective
      <4>3. x \notin gone
        BY <3>1
      <4> QED BY <4>2, <4>3
    <3>3. Before(n) = Before(n - 1) \cup {x}
      <4>1. \A i : i \in 1..n <=> i \in 1..(n - 1) \/ i = n
        BY <1>1
      <4> QED BY <4>1
    <3> HIDE DEF Before, x, b
    <3>4. Tidy(b, Before(n), fresh) /\ x \in Before(n)
      BY <3>1, <3>3, TidyGrows
    <3>5. /\ x.key \in Own(fresh) => ~HasKey(b[x.kind], x.key)
          /\ New(x.key, x.workflow) \in Entry
          /\ New(x.key, x.workflow).key = x.key /\ x.kind \in Kinds
      BY <3>1, <3>2, Items, Owned DEF Tidy, New
    <3>6. \A y \in fresh : y.key = x.key => y \in Before(n)
      BY <3>1, <3>4, MemoryAssumption
    <3>7. Tidy([b EXCEPT ![x.kind] = Stored(@, New(x.key, x.workflow))], Before(n), fresh)
      BY <3>4, <3>5, <3>6, PutIn
    <3> QED BY <1>1, <3>1, <3>7 DEF WithItem
  <2> HIDE DEF S
  <2> QED BY <1>1, <2>4, <2>5, Induction
<1>9. Before(N) = gone \cup items
  <2>1. {order[i] : i \in 1..N} = items
    BY <1>1
  <2> QED BY <2>1
<1>10. Promoted(items) = after[N]
  BY DEF Promoted, order, N
<1> HIDE DEF after, Before
<1>11. Tidy(after[N], Before(N), fresh)
  BY <1>1, <1>8
<1> QED BY <1>9, <1>10, <1>11

(* The recent workflows among the episodes.                                *)
LEMMA ProceduresIs ==
  ASSUME NEW fresh, NEW bank \in Bank(fresh), NEW recent \in Seq(Entry)
  PROVE  /\ Procedures(recent, bank) \in Bank(fresh)
         /\ \A key : HasKey(Procedures(recent, bank), key) => HasKey(bank, key) \/ HasKey(recent, key)
<1> DEFINE N == Len(recent)
           Fine(b) == \A key : HasKey(b, key) => HasKey(bank, key) \/ HasKey(recent, key)
           Val == {b \in Bank(fresh) : Fine(b)}
           step == [p \in Val \X (1..N) |-> WithProcedure(p[1], recent[p[2]], bank)]
           rec(f) == [n \in 0..N |-> IF n = 0 THEN bank
                                     ELSE WithProcedure(f[n - 1], recent[n], bank)]
           after == CHOOSE f : f = rec(f)
<1>1. N \in Nat /\ DOMAIN recent = 1..N /\ \A n \in 1..N : recent[n] \in Entry
  OBVIOUS
<1>2. ASSUME NEW b \in Val, NEW n \in 1..N PROVE WithProcedure(b, recent[n], bank) \in Val
  <2> DEFINE e == New(recent[n].key, TRUE)
  <2>1. e \in Entry /\ e.key = recent[n].key /\ HasKey(recent, e.key)
    BY <1>1 DEF Entry, New, HasKey
  <2>2. CASE recent[n].workflow /\ ~HasKey(bank, recent[n].key) /\ ~HasKey(b, recent[n].key)
    <3>1. WithProcedure(b, recent[n], bank) = Stored(b, e)
      BY <2>2 DEF WithProcedure
    <3> HIDE DEF e
    <3>2. Stored(b, e) \in Bank(fresh) /\ \A key : HasKey(Stored(b, e), key) => HasKey(b, key) \/ key = e.key
      BY <2>1, <2>2, StoredIs
    <3> QED BY <2>1, <3>1, <3>2
  <2>3. CASE ~(recent[n].workflow /\ ~HasKey(bank, recent[n].key) /\ ~HasKey(b, recent[n].key))
    BY <2>3 DEF WithProcedure
  <2> QED BY <2>2, <2>3
<1>3. bank \in Val
  OBVIOUS
<1> HIDE DEF Val
<1>4. step \in [Val \X (1..N) -> Val]
  BY <1>1, <1>2
<1>5. PICK f \in [0..N -> Val] : Loop(f, N, bank, step)
  <2> HIDE DEF step, N
  <2> QED BY <1>1, <1>3, <1>4, Recursion
<1> HIDE DEF N
<1>6. f = rec(f)
  <2>1. \A n \in 1..N : n - 1 \in 0..N
    BY <1>1
  <2>2. \A n \in 1..N : f[n] = WithProcedure(f[n - 1], recent[n], bank)
    BY <1>5, <2>1 DEF Loop
  <2>3. \A n \in 0..N : f[n] = rec(f)[n]
    BY <1>1, <1>5, <2>2 DEF Loop
  <2> QED BY <1>5, <2>3
<1>7. after = rec(after)
  BY <1>6
<1> HIDE DEF step
<1> DEFINE S == {n \in 0..N : after[n] \in Val}
<1>8. 0..N \subseteq S
  <2> HIDE DEF after
  <2>1. after[0] = bank
    BY <1>1, <1>7
  <2>2. \A n \in 1..N : after[n] = WithProcedure(after[n - 1], recent[n], bank)
    BY <1>1, <1>7
  <2>3. 0 \in S
    BY <1>1, <1>3, <2>1
  <2>4. \A n \in 1..N : n - 1 \in S => n \in S
    BY <1>1, <1>2, <2>2
  <2> HIDE DEF S
  <2> QED BY <1>1, <2>3, <2>4, Induction
<1>9. Procedures(recent, bank) = after[N]
  BY DEF Procedures, N
<1> HIDE DEF after
<1>10. after[N] \in Val
  BY <1>1, <1>8
<1> QED BY <1>9, <1>10 DEF Val

LEMMA MemoryInvInit == EInit => MemoryInv
<1> SUFFICES ASSUME EInit PROVE MemoryInv
  OBVIOUS
<1> DEFINE fresh == BranchItem
<1>1. <<>> \in Bank(fresh)
  <2>1. <<>> \in Seq(Entry) /\ Len(<<>>) = 0 /\ DOMAIN <<>> = {}
    OBVIOUS
  <2>2. 0 <= BankCap
    BY MemoryAssumption
  <2> QED BY <2>1, <2>2 DEF Bank, Once
<1>2. NoBanks \in [Kinds -> Bank(fresh)] /\ \A k \in Kinds : \A key : ~HasKey(NoBanks[k], key)
  BY <1>1 DEF NoBanks, HasKey
<1>3. Tidy(NoBanks, {}, fresh)
  BY <1>2 DEF Tidy
<1>4. IsFiniteSet({})
  BY FS_EmptySet
<1>5. 0 \in 0..MaxStored /\ 0 \in 0..MaxMishaps
  BY MemoryAssumption
<1>6. Gone = {} /\ Fresh = fresh
  BY DEF EInit, Gone, Fresh
<1> QED BY <1>3, <1>4, <1>5, <1>6 DEF EInit, MemoryInv

(* What the ecology file holds of the branch.                              *)
EcologyKept ==
  /\ ~unsaved => branchSaved \subseteq branch
  /\ branchSaved \subseteq written /\ pointSaved \subseteq written
  /\ unsaved \in BOOLEAN /\ mishaps \in 0..MaxMishaps

LEMMA EcologyKeeps ==
  ASSUME branchSaved \subseteq written, pointSaved \subseteq written, point \subseteq written,
         NEW before \in 0..MaxMishaps, SavesEcology(before), written' = written,
         branch' \subseteq written
  PROVE  EcologyKept'
<1>0. MaxMishaps \in Nat
  BY MemoryAssumption
<1>1. CASE branchSaved' = branch' /\ pointSaved' = point /\ unsaved' = FALSE /\ mishaps' = before
  BY <1>1 DEF EcologyKept
<1>2. CASE /\ before < MaxMishaps /\ mishaps' = before + 1
           /\ unsaved' = ~(branchSaved \subseteq branch') /\ UNCHANGED <<branchSaved, pointSaved>>
  <2>1. mishaps' \in 0..MaxMishaps
    BY <1>0, <1>2
  <2>2. unsaved' \in BOOLEAN /\ (~unsaved' => branchSaved' \subseteq branch')
    BY <1>2
  <2> QED BY <1>2, <2>1, <2>2 DEF EcologyKept
<1> QED BY <1>1, <1>2 DEF SavesEcology, EcologyAfter

LEMMA MemoryInvNext == MemoryInv /\ [ENext]_evars => MemoryInv'
<1> SUFFICES ASSUME MemoryInv, [ENext]_evars PROVE MemoryInv'
  OBVIOUS
<1> DEFINE gone == Gone
           fresh == Fresh
<1>0. /\ Tidy(banks, gone, fresh) /\ Tidy(banksSaved, gone, fresh) /\ banks \in [Kinds -> Bank(fresh)]
      /\ ~unsaved => branchSaved \subseteq branch
      /\ branch \subseteq written /\ branchSaved \subseteq written /\ written \subseteq BranchItem
      /\ point \subseteq written /\ pointSaved \subseteq written /\ replayed \subseteq written
      /\ IsFiniteSet(written) /\ unsaved \in BOOLEAN
      /\ stored \in 0..MaxStored /\ mishaps \in 0..MaxMishaps
      /\ MaxStored \in Nat /\ MaxMishaps \in Nat /\ fresh \in SUBSET BranchItem
  BY MemoryAssumption DEF MemoryInv, Tidy, Fresh
<1> HIDE DEF gone, fresh
(* What follows for the next state, from what it holds.                    *)
<1>a. ASSUME UNCHANGED <<branch, written, replayed>> PROVE Gone' = gone /\ Fresh' = fresh
  BY <1>a DEF gone, fresh, Gone, Fresh
<1>b. ASSUME Tidy(banks', gone, fresh), UNCHANGED <<branch, written, filevars, point, replayed, mishaps>>,
             stored' \in 0..MaxStored
      PROVE  MemoryInv'
  <2>1. Gone' = gone /\ Fresh' = fresh
    BY <1>a, <1>b
  <2>2. UNCHANGED <<branch, written, point, replayed, mishaps, banksSaved, branchSaved, pointSaved, unsaved>>
    BY <1>b DEF filevars
  <2>3. Tidy(banks, Gone, Fresh)' /\ Tidy(banksSaved, Gone, Fresh)'
    BY <1>0, <1>b, <2>1, <2>2 DEF Tidy
  <2> QED BY <1>0, <1>b, <2>2, <2>3 DEF MemoryInv
<1>c. ASSUME NEW bs, Tidy(bs, gone, fresh), NEW back, back \cap branch = {}, written' = written,
             branch' \subseteq branch \cup back, replayed' = replayed \cup back
      PROVE  Tidy(bs, Gone', Fresh')
  <2>1. Fresh' \subseteq fresh /\ gone \cap Fresh' \subseteq Gone'
    BY <1>c DEF gone, fresh, Gone, Fresh
  <2> QED BY <1>c, <2>1, TidyGrows
<1>1. ASSUME NEW key \in LocalKey, NEW kind \in Kinds, Remember(kind, key) PROVE MemoryInv'
  <2>1. New(key, FALSE) \in Entry /\ New(key, FALSE).key = key
    BY DEF New, Entry, Key
  <2>2. key \notin Own(fresh) /\ \A x \in fresh : x.key # key
    BY <1>0, Items, MemoryAssumption DEF Own
  <2>3. Tidy([banks EXCEPT ![kind] = Stored(@, New(key, FALSE))], gone, fresh)
    BY <1>0, <2>1, <2>2, PutIn
  <2> QED BY <1>0, <1>1, <1>b, <2>3 DEF Remember
<1>2. CASE Consolidate
  <2> DEFINE old == banks["episodic"]
             I == {i \in DOMAIN old : old[i].recent}
             recent == Pick(old, I)
             sem == banks["semantic"]
             patterned == IF Len(recent) >= 2 /\ ~HasKey(sem, "pattern")
                          THEN Stored(sem, New("pattern", FALSE)) ELSE sem
             learned == Procedures(recent, banks["procedural"])
  <2>1. old \in Bank(fresh) /\ old \in Seq(Entry) /\ sem \in Bank(fresh) /\ banks["procedural"] \in Bank(fresh)
        /\ {"episodic", "semantic", "procedural"} = Kinds
    BY <1>0 DEF Kinds, Bank
  <2>2. banks' = [banks EXCEPT !["semantic"] = patterned, !["procedural"] = learned]
    BY <1>2 DEF Consolidate
  <2>3. /\ recent \in Seq(Entry)
        /\ \A k \in DOMAIN recent : Kth(I, k) \in I /\ recent[k] = old[Kth(I, k)]
    <3> HIDE DEF old
    <3>1. I \in SUBSET (DOMAIN old)
      OBVIOUS
    <3> HIDE DEF I
    <3> QED BY <2>1, <3>1, PickIs
  <2>4. \A key : HasKey(recent, key) => HasKey(old, key)
    BY <2>3 DEF HasKey
  <2> HIDE DEF recent, old
  <2>5. learned \in Bank(fresh) /\ \A key : HasKey(learned, key) => HasKey(banks["procedural"], key) \/ HasKey(old, key)
    BY <2>1, <2>3, <2>4, ProceduresIs
  <2>6. /\ patterned \in Bank(fresh)
        /\ \A key : HasKey(patterned, key) => HasKey(sem, key) \/ key = "pattern"
    <3>1. New("pattern", FALSE) \in Entry /\ New("pattern", FALSE).key = "pattern"
      BY DEF New, Entry, Key
    <3> HIDE DEF sem
    <3> QED BY <2>1, <3>1, StoredIs
  <2> HIDE DEF patterned, learned
  <2>7. banks' \in [Kinds -> Bank(fresh)] /\ banks'["semantic"] = patterned /\ banks'["procedural"] = learned
        /\ banks'["episodic"] = old
    BY <1>0, <2>1, <2>2, <2>5, <2>6 DEF old
  <2>8. ASSUME NEW k \in Kinds, NEW x \in fresh, HasKey(banks'[k], x.key) PROVE x \in gone
    <3>1. \E l \in Kinds : HasKey(banks[l], x.key)
      BY <1>0, <2>1, <2>5, <2>6, <2>7, <2>8, Items DEF Kinds, old, sem
    <3> QED BY <1>0, <3>1 DEF Tidy
  <2>9. Tidy(banks', gone, fresh)
    BY <2>7, <2>8 DEF Tidy
  <2> QED BY <1>0, <1>2, <1>b, <2>9 DEF Consolidate
<1>3. CASE EpisodesAge
  <2> DEFINE old == banks["episodic"]
             aged == [i \in DOMAIN old |-> [old[i] EXCEPT !.recent = FALSE]]
  <2>1. old \in Bank(fresh) /\ "episodic" \in Kinds
    BY <1>0 DEF Kinds
  <2>2. banks' = [banks EXCEPT !["episodic"] = aged]
    BY <1>3 DEF EpisodesAge
  <2> HIDE DEF old
  <2>3. /\ old \in Seq(Entry) /\ DOMAIN old = 1..Len(old) /\ Len(old) \in Nat /\ Len(old) <= BankCap
        /\ \A i \in DOMAIN old : old[i] \in Entry /\ \A key \in Own(fresh) : Once(old, key)
    BY <2>1 DEF Bank
  <2>4. \A i \in DOMAIN old : aged[i] \in Entry /\ aged[i].key = old[i].key
    BY <2>3 DEF Entry
  <2>5. aged \in Seq(Entry) /\ DOMAIN aged = DOMAIN old /\ Len(aged) = Len(old)
    <3>1. aged \in [1..Len(old) -> Entry]
      BY <2>3, <2>4
    <3> QED BY <2>3, <3>1
  <2> HIDE DEF aged
  <2>6. aged \in Bank(fresh) /\ \A key : HasKey(aged, key) => HasKey(old, key)
    BY <2>3, <2>4, <2>5 DEF Bank, Once, HasKey
  <2>7. banks' \in [Kinds -> Bank(fresh)] /\ \A k \in Kinds : banks'[k] = IF k = "episodic" THEN aged ELSE banks[k]
    BY <1>0, <2>2, <2>6
  <2>8. Tidy(banks', gone, fresh)
    BY <1>0, <2>1, <2>6, <2>7 DEF Tidy, old
  <2> QED BY <1>0, <1>3, <1>b, <2>8 DEF EpisodesAge
<1>4. ASSUME NEW x \in BranchItem, BranchWrites(x) PROVE MemoryInv'
  <2>1. /\ x \notin written /\ written' = written \cup {x} /\ branch' = branch \cup {x}
        /\ UNCHANGED <<banks, banksSaved, branchSaved, pointSaved, unsaved, point, replayed, stored, mishaps>>
    BY <1>4 DEF BranchWrites, filevars
  <2>2. Gone' = gone /\ Fresh' = fresh
    BY <1>0, <2>1 DEF gone, fresh, Gone, Fresh
  <2>3. IsFiniteSet(written')
    BY <1>0, <2>1, FS_AddElement
  <2>4. Tidy(banks, Gone, Fresh)' /\ Tidy(banksSaved, Gone, Fresh)'
    BY <1>0, <2>1, <2>2 DEF Tidy
  <2> QED BY <1>0, <2>1, <2>3, <2>4 DEF MemoryInv
<1>5. ASSUME NEW mode \in {"discard", "promote", "summarize"}, NEW kinds, Sync(mode, kinds)
      PROVE  MemoryInv'
  <2> DEFINE selected == {x \in branch : kinds = {} \/ x.kind \in kinds}
  <2>1. /\ branch' = branch \ selected /\ selected \subseteq branch
        /\ UNCHANGED <<written, banksSaved, point, replayed>> /\ SavesEcology(mishaps)
    BY <1>5 DEF Sync
  <2>2. /\ banks' = CASE mode = "discard" -> banks
                      [] mode = "promote" -> Promoted(selected)
                      [] mode = "summarize" ->
                           [banks EXCEPT !["semantic"] = Stored(@, New("summary", FALSE))]
        /\ stored' \in 0..MaxStored
    BY <1>0, <1>5 DEF Sync
  <2> HIDE DEF selected
  <2>3. IsFiniteSet(selected)
    BY <1>0, <2>1, FS_Subset
  <2>4. /\ Gone' = gone \cup selected /\ Fresh' = fresh
        /\ selected \cap gone = {} /\ selected \in SUBSET BranchItem
    BY <1>0, <2>1 DEF gone, fresh, Gone, Fresh
  <2>5. Tidy(banks', gone \cup selected, fresh)
    <3>1. CASE mode = "discard"
      BY <1>0, <2>2, <3>1, TidyGrows
    <3>2. CASE mode = "promote"
      <4>1. Tidy(Promoted(selected), gone \cup selected, fresh)
        BY <1>0, <2>3, <2>4, PromotedIs
      <4> QED BY <2>2, <3>2, <4>1
    <3>3. CASE mode = "summarize"
      <4>1. New("summary", FALSE) \in Entry /\ New("summary", FALSE).key = "summary"
             /\ "semantic" \in Kinds
        BY DEF New, Entry, Key, Kinds
      <4>2. "summary" \notin Own(fresh) /\ \A x \in fresh : x.key # "summary"
        BY <1>0, Items DEF Own
      <4>3. Tidy([banks EXCEPT !["semantic"] = Stored(@, New("summary", FALSE))], gone, fresh)
        BY <1>0, <4>1, <4>2, PutIn
      <4>4. Tidy(banks', gone, fresh)
        BY <2>2, <3>3, <4>3
      <4> QED BY <4>4, TidyGrows
    <3> QED BY <3>1, <3>2, <3>3
  <2>6. Tidy(banksSaved, gone \cup selected, fresh)
    BY <1>0, TidyGrows
  <2>7. Tidy(banks, Gone, Fresh)' /\ Tidy(banksSaved, Gone, Fresh)'
    BY <2>1, <2>4, <2>5, <2>6 DEF Tidy
  <2>8. branch' \subseteq written
    BY <1>0, <2>1
  <2>9. EcologyKept'
    BY <1>0, <2>1, <2>8, EcologyKeeps DEF EcologyKept
  <2> QED BY <1>0, <2>1, <2>2, <2>7, <2>8, <2>9 DEF MemoryInv, EcologyKept
<1>6. CASE RollbackPoint
  <2>1. Tidy(banks', gone, fresh)
    BY <1>0, <1>6 DEF RollbackPoint
  <2>2. /\ point' = branch
        /\ UNCHANGED <<banks, branch, written, banksSaved, branchSaved, pointSaved, unsaved, replayed, stored, mishaps>>
    BY <1>6 DEF RollbackPoint, filevars
  <2>3. Gone' = gone /\ Fresh' = fresh
    BY <1>a, <2>2
  <2>4. Tidy(banks, Gone, Fresh)' /\ Tidy(banksSaved, Gone, Fresh)'
    BY <1>0, <2>2, <2>3 DEF Tidy
  <2> QED BY <1>0, <2>2, <2>4 DEF MemoryInv
<1>7. CASE RevertBranch
  <2> DEFINE back == point \ branch
  <2>1. /\ branch' = point /\ replayed' = replayed \cup back /\ mishaps < MaxMishaps
        /\ SavesEcology(mishaps + 1) /\ UNCHANGED <<banks, written, banksSaved, point, stored>>
    BY <1>7 DEF RevertBranch
  <2>2. back \cap branch = {} /\ branch' \subseteq branch \cup back /\ back \subseteq written
    BY <1>0, <2>1
  <2> HIDE DEF back
  <2>3. Tidy(banks, Gone', Fresh') /\ Tidy(banksSaved, Gone', Fresh')
    BY <1>0, <1>c, <2>1, <2>2
  <2>4. Tidy(banks, Gone, Fresh)' /\ Tidy(banksSaved, Gone, Fresh)'
    BY <2>1, <2>3 DEF Tidy
  <2>5. mishaps + 1 \in 0..MaxMishaps /\ branch' \subseteq written
    BY <1>0, <2>1
  <2>6. EcologyKept'
    BY <1>0, <2>1, <2>5, EcologyKeeps DEF EcologyKept
  <2> QED BY <1>0, <2>1, <2>2, <2>4, <2>5, <2>6 DEF MemoryInv, EcologyKept
<1>8. CASE SaveBanks
  <2>1. Gone' = gone /\ Fresh' = fresh
    BY <1>8, <1>a DEF SaveBanks
  <2>2. Tidy(banks, Gone, Fresh)' /\ Tidy(banksSaved, Gone, Fresh)'
    BY <1>0, <1>8, <2>1 DEF SaveBanks, Tidy
  <2> QED BY <1>0, <1>8, <2>2 DEF SaveBanks, MemoryInv
<1>9. CASE SaveBranch
  <2>1. Gone' = gone /\ Fresh' = fresh
    BY <1>9, <1>a DEF SaveBranch
  <2>2. Tidy(banks, Gone, Fresh)' /\ Tidy(banksSaved, Gone, Fresh)'
    BY <1>0, <1>9, <2>1 DEF SaveBranch, Tidy
  <2> QED BY <1>0, <1>9, <2>2 DEF SaveBranch, MemoryInv
<1>10. CASE LoseMemory
  <2> DEFINE back == IF unsaved THEN branchSaved \ branch ELSE {}
  <2>1. /\ banks' = banksSaved /\ branch' = branchSaved /\ point' = pointSaved
        /\ replayed' = replayed \cup back /\ unsaved' = FALSE
        /\ mishaps < MaxMishaps /\ mishaps' = mishaps + 1
        /\ UNCHANGED <<written, banksSaved, branchSaved, pointSaved, stored>>
    BY <1>10 DEF LoseMemory
  <2>2. back \cap branch = {} /\ branch' \subseteq branch \cup back /\ back \subseteq written
    BY <1>0, <2>1
  <2> HIDE DEF back
  <2>3. Tidy(banksSaved, Gone', Fresh')
    BY <1>0, <1>c, <2>1, <2>2
  <2>4. Tidy(banks, Gone, Fresh)' /\ Tidy(banksSaved, Gone, Fresh)'
    BY <2>1, <2>3 DEF Tidy
  <2>5. (mishaps \in 0..MaxMishaps)' /\ (stored \in 0..MaxStored)'
    BY <1>0, <2>1
  <2>6. (branch \subseteq written)' /\ (branchSaved \subseteq written)' /\ (point \subseteq written)'
        /\ (pointSaved \subseteq written)' /\ (written \subseteq BranchItem)'
        /\ (branchSaved \subseteq branch)' /\ (replayed \subseteq written)'
    BY <1>0, <2>1, <2>2
  <2>7. IsFiniteSet(written)' /\ (unsaved \in BOOLEAN)'
    BY <1>0, <2>1
  <2> QED BY <2>4, <2>5, <2>6, <2>7 DEF MemoryInv
<1>11. CASE UNCHANGED evars
  <2>1. UNCHANGED <<banks, branch, written, banksSaved, branchSaved, pointSaved, unsaved, point,
                    replayed, stored, mishaps>>
    BY <1>11 DEF evars, filevars
  <2>2. Gone' = gone /\ Fresh' = fresh
    BY <1>a, <2>1
  <2>3. Tidy(banks, Gone, Fresh)' /\ Tidy(banksSaved, Gone, Fresh)'
    BY <1>0, <2>1, <2>2 DEF Tidy
  <2> QED BY <1>0, <2>1, <2>3 DEF MemoryInv
<1>12. {"episodic", "semantic"} \subseteq Kinds
  BY DEF Kinds
<1> QED BY <1>1, <1>2, <1>3, <1>4, <1>5, <1>6, <1>7, <1>8, <1>9, <1>10, <1>11, <1>12 DEF ENext

LEMMA AtMostOne ==
  ASSUME NEW fresh, NEW b \in Bank(fresh), NEW key \in Own(fresh)
  PROVE  /\ Cardinality({i \in DOMAIN b : b[i].key = key}) <= 1
         /\ ~HasKey(b, key) => Cardinality({i \in DOMAIN b : b[i].key = key}) = 0
<1> DEFINE I == {i \in DOMAIN b : b[i].key = key}
<1>1. \A i, j \in I : i = j
  BY DEF Bank, Once
<1>2. I = {} \/ \E i \in I : I = {i}
  BY <1>1
<1>3. ~HasKey(b, key) => I = {}
  BY DEF HasKey
<1>4. Cardinality(I) = 0 \/ Cardinality(I) = 1
  BY <1>2, FS_EmptySet, FS_Singleton
<1>5. I = {} => Cardinality(I) = 0
  BY FS_EmptySet
<1> HIDE DEF I
<1>6. Cardinality(I) <= 1 /\ (~HasKey(b, key) => Cardinality(I) = 0)
  BY <1>3, <1>4, <1>5
<1> QED BY <1>6 DEF I

(* An item of a branch enters each bank at most once and is then in no     *)
(* branch, a workflow becomes a procedure once, a tag a pattern once,      *)
(* whatever is synchronized, consolidated or lost between the two files    *)
(* (apply_memory_sync, consolidate_memory and load_state), but for items   *)
(* that HUB_REVERT brought back, or a restart after the ecology file could *)
(* not be written (revert_to_last_snapshot, save_json).                    *)
THEOREM MemoryOnce == ESpec => [](ETypeOK /\ NothingTwice)
<1>1. MemoryInv => ETypeOK
  BY DEF MemoryInv, ETypeOK, Tidy, Bank
<1>2. MemoryInv => NothingTwice
  <2> SUFFICES ASSUME MemoryInv PROVE NothingTwice
    OBVIOUS
  <2> DEFINE fresh == Fresh
  <2>0. fresh \in SUBSET BranchItem /\ fresh = BranchItem \ replayed
    BY DEF Fresh
  <2>1. \A k \in Kinds : banks[k] \in Bank(fresh)
    BY DEF MemoryInv, Tidy
  <2>5. \A x \in fresh, k \in Kinds : x \in branch => ~HasKey(banks[k], x.key)
    BY DEF MemoryInv, Tidy, Gone
  <2> HIDE DEF fresh
  <2>2. \A k \in Kinds, key \in Own(fresh) : Copies(k, key) <= 1 /\ (~HasKey(banks[k], key) => Copies(k, key) = 0)
    BY <2>1, AtMostOne DEF Copies
  <2>3. "pattern" \in Own(fresh) /\ {"semantic", "procedural"} \subseteq Kinds
    BY DEF Own, Kinds
  <2>4. \A x \in fresh : x.key \in Own(fresh)
    BY DEF Own
  <2> QED BY <2>0, <2>2, <2>3, <2>4, <2>5 DEF NothingTwice
<1> QED BY <1>1, <1>2, MemoryInvInit, MemoryInvNext, PTL DEF ESpec
-----------------------------------------------------------------------------
(* Tools: quotas.                                                          *)

Counts == [Asker -> [Asked -> Nat]]
QuotaOf(k, p) == CallQuota[RoleOf[k]][p]

(* What is granted is still used, or was given back by a success; what is  *)
(* used is within the quota; and the file always holds what is used, since *)
(* every packet that moves it saves it: a restart gives nothing back.      *)
AccessInv ==
  /\ usage \in Counts /\ granted \in Counts /\ succeeded \in [Asker -> Nat]
  /\ ecology.usage = usage
  /\ \A k \in Asker, p \in Asked :
       /\ usage[k][p] <= QuotaOf(k, p)
       /\ granted[k][p] <= usage[k][p] + succeeded[k]

LEMMA QuotaType == \A k \in Asker, p \in Asked : QuotaOf(k, p) \in Nat
  BY ToolAssumption DEF QuotaOf, Asked, Permission, Contracts, Permissions, Role

LEMMA AccessInvInit == AccessInit => AccessInv
  BY QuotaType DEF AccessInit, AccessInv, Counts

(* A request that is granted takes one call of its permission.             *)
LEMMA AskedKeeps ==
  ASSUME AccessInv, NEW k \in Asker, NEW t \in Tool, ToolAsked(k, t)
  PROVE  AccessInv'
<1> DEFINE p == Permission(t)
<1>0. p \in Asked /\ ecology'.usage = usage' /\ succeeded' = succeeded
  BY DEF ToolAsked, SaveEcology, Asked
<1>1. CASE Permitted(k, t) /\ BudgetGate(k, p)
  <2>1. /\ usage' = [usage EXCEPT ![k][p] = @ + 1]
        /\ granted' = [granted EXCEPT ![k][p] = @ + 1]
        /\ usage[k][p] + 1 <= QuotaOf(k, p)
    BY <1>1 DEF ToolAsked, BudgetGate, Spendable, QuotaOf
  <2>2. usage' \in Counts /\ granted' \in Counts
    BY <1>0, <2>1 DEF AccessInv, Counts
  <2>3. ASSUME NEW j \in Asker, NEW q \in Asked
        PROVE  usage'[j][q] <= QuotaOf(j, q) /\ granted'[j][q] <= usage'[j][q] + succeeded[j]
    <3>1. CASE j = k /\ q = p
      BY <1>0, <2>1, <3>1, QuotaType DEF AccessInv, Counts
    <3>2. CASE ~(j = k /\ q = p)
      BY <1>0, <2>1, <3>2, QuotaType DEF AccessInv, Counts
    <3> QED BY <3>1, <3>2
  <2> QED BY <1>0, <2>2, <2>3 DEF AccessInv, QuotaOf
<1>2. CASE ~(Permitted(k, t) /\ BudgetGate(k, p))
  BY <1>0, <1>2 DEF ToolAsked, AccessInv, QuotaOf
<1> QED BY <1>1, <1>2

(* A delegation that ends gives back one call, and counts, if it succeeds. *)
LEMMA LeaseOverKeeps ==
  ASSUME AccessInv, NEW k \in Asker, NEW success \in BOOLEAN, LeaseOver(k, success)
  PROVE  AccessInv'
<1>0. granted' = granted /\ ecology'.usage = usage'
  BY DEF LeaseOver, SaveEcology
<1>1. CASE success
  <2>1. succeeded' = [succeeded EXCEPT ![k] = @ + 1] /\ usage' = Recovered(k)
    BY <1>1 DEF LeaseOver
  <2>2. CASE "safe_autonomous" \in Asked /\ usage[k]["safe_autonomous"] > 0
    <3> DEFINE p == "safe_autonomous"
    <3>1. usage' = [usage EXCEPT ![k][p] = @ - 1] /\ p \in Asked /\ usage[k][p] > 0
      BY <2>1, <2>2 DEF Recovered
    <3> HIDE DEF p
    <3>2. usage' \in Counts /\ succeeded' \in [Asker -> Nat]
      BY <2>1, <3>1 DEF AccessInv, Counts
    <3>3. ASSUME NEW j \in Asker, NEW q \in Asked
          PROVE  usage'[j][q] <= QuotaOf(j, q) /\ granted[j][q] <= usage'[j][q] + succeeded'[j]
      <4>1. CASE j = k /\ q = p
        BY <2>1, <3>1, <4>1, QuotaType DEF AccessInv, Counts
      <4>2. CASE j = k /\ q # p
        BY <2>1, <3>1, <4>2, QuotaType DEF AccessInv, Counts
      <4>3. CASE j # k
        BY <2>1, <3>1, <4>3, QuotaType DEF AccessInv, Counts
      <4> QED BY <4>1, <4>2, <4>3
    <3> QED BY <1>0, <3>2, <3>3 DEF AccessInv, QuotaOf
  <2>3. CASE ~("safe_autonomous" \in Asked /\ usage[k]["safe_autonomous"] > 0)
    <3>1. usage' = usage
      BY <2>1, <2>3 DEF Recovered
    <3>2. succeeded' \in [Asker -> Nat]
          /\ \A j \in Asker : succeeded[j] <= succeeded'[j]
      BY <2>1 DEF AccessInv
    <3>3. \A j \in Asker, q \in Asked : granted[j][q] <= usage[j][q] + succeeded'[j]
      BY <3>2 DEF AccessInv, Counts
    <3> QED BY <1>0, <3>1, <3>2, <3>3 DEF AccessInv, QuotaOf
  <2> QED BY <2>2, <2>3
<1>2. CASE ~success
  BY <1>0, <1>2 DEF LeaseOver, AccessInv, QuotaOf
<1> QED BY <1>1, <1>2

(* Every other step leaves quotas alone, or reads back what was saved.     *)
LEMMA AccessInvStep == AccessInv /\ [AccessNext]_accessvars => AccessInv'
<1> SUFFICES ASSUME AccessInv, [AccessNext]_accessvars PROVE AccessInv'
  OBVIOUS
<1>1. ASSUME NEW k \in Asker, LeaseTaken(k) PROVE AccessInv'
  BY <1>1 DEF LeaseTaken, SaveEcology, AccessInv, QuotaOf
<1>2. CASE Notice
  BY <1>2 DEF Notice, SaveEcology, AccessInv, QuotaOf
<1>3. CASE KernelCalls
  BY <1>3 DEF KernelCalls, Perform, Advise, Install, AccessInv, QuotaOf
<1>4. CASE ResetBudgets
  BY <1>4 DEF ResetBudgets, AccessInv, QuotaOf
<1>5. CASE Resume
  BY <1>5 DEF Resume, AccessInv, QuotaOf
<1>6. CASE UNCHANGED accessvars
  BY <1>6 DEF accessvars, AccessInv, QuotaOf
<1> QED BY <1>1, <1>2, <1>3, <1>4, <1>5, <1>6, AskedKeeps, LeaseOverKeeps
        DEF AccessNext, WorkerAsks

(* However requests, refusals, outcomes and restarts follow each other, no *)
(* worker gets more calls than its quota and the delegations it completed  *)
(* allow (_evaluate_tool_request, recover_worker_request and the load of   *)
(* the ecology file).                                                      *)
THEOREM QuotaAlwaysHeld == AccessSpec => []QuotaHeld
<1>1. AccessInv => QuotaHeld
  <2> SUFFICES ASSUME AccessInv, NEW k \in Asker, NEW p \in Asked
               PROVE  granted[k][p] <= CallQuota[RoleOf[k]][p] + succeeded[k]
    BY DEF QuotaHeld
  <2> QED BY QuotaType DEF AccessInv, Counts, QuotaOf
<1> QED BY <1>1, AccessInvInit, AccessInvStep, PTL DEF AccessSpec
-----------------------------------------------------------------------------
(* Tools: rates and types.                                                 *)

(* The largest value of a function is one of its values.                   *)
LEMMA MostIs ==
  ASSUME NEW f, IsFiniteSet(DOMAIN f), \A x \in DOMAIN f : f[x] \in Nat
  PROVE  Most(f) \in Nat /\ \A x \in DOMAIN f : f[x] <= Most(f)
<1> DEFINE R == {f[x] : x \in DOMAIN f}
           g == [x \in DOMAIN f |-> f[x]]
<1>1. CASE DOMAIN f = {}
  BY <1>1 DEF Most
<1>2. CASE DOMAIN f # {}
  <2>1. g \in Surjection(DOMAIN f, R)
    BY DEF Surjection
  <2>2. IsFiniteSet(R)
    <3> HIDE DEF R, g
    <3> QED BY <2>1, FS_Surjection
  <2>3. R \subseteq Nat /\ R # {}
    BY <1>2
  <2>4. \E n \in R : \A k \in R : k <= n
    <3> HIDE DEF R
    <3> QED BY <2>2, <2>3, FiniteLargest
  <2>5. \E n \in R : \A x \in DOMAIN f : f[x] <= n
    BY <2>4
  <2>6. Most(f) \in R /\ \A x \in DOMAIN f : f[x] <= Most(f)
    BY <1>2, <2>5 DEF Most
  <2> QED BY <2>3, <2>6
<1> QED BY <1>1, <1>2

ToolResources == Budget \ {"advisor_call", "pip_install"}
LeaseOf(k)    == LeaseMax[RoleOf[k]]

(* Every call of a tool is charged to its budget, and no budget beyond its *)
(* limit; what the file keeps was once in memory.                          *)
RateInv ==
  /\ budget \in [Budget -> Nat] /\ called \in [Budget -> Nat]
  /\ grants \in [Asker -> SUBSET Tool] /\ leases \in [Asker -> Nat] /\ failures \subseteq Tool
  /\ \E b \in [Budget -> Nat], l \in [Asker -> Nat], g \in [Asker -> SUBSET Tool] :
       /\ ecology = [budget |-> b, usage |-> ecology.usage, grants |-> g, leases |-> l]
       /\ \A r \in Budget : b[r] <= Limit[r]
       /\ \A k \in Asker : l[k] <= LeaseOf(k)
  /\ \A r \in Budget : budget[r] <= Limit[r]
  /\ \A k \in Asker : leases[k] <= LeaseOf(k)
  /\ \A r \in ToolResources : called[r] <= budget[r]

LEMMA LimitTypes ==
  /\ \A r \in Budget : Limit[r] \in Nat
  /\ \A k \in Asker : LeaseOf(k) \in Nat
  /\ {"advisor_call", "pip_install"} \subseteq Budget
  /\ \A t \in Tool : Resource(t) \in ToolResources \/ Resource(t) \notin Budget
BY ToolAssumption DEF LeaseOf, Resource, Contracts, ToolResources

LEMMA Saved ==
  ASSUME RateInv, SaveEcology,
         budget' \in [Budget -> Nat], leases' \in [Asker -> Nat], grants' \in [Asker -> SUBSET Tool],
         \A r \in Budget : budget'[r] <= Limit[r], \A k \in Asker : leases'[k] <= LeaseOf(k)
  PROVE  \E b \in [Budget -> Nat], l \in [Asker -> Nat], g \in [Asker -> SUBSET Tool] :
           /\ ecology' = [budget |-> b, usage |-> ecology'.usage, grants |-> g, leases |-> l]
           /\ \A r \in Budget : b[r] <= Limit[r]
           /\ \A k \in Asker : l[k] <= LeaseOf(k)
<1>1. ecology' = [budget |-> budget', usage |-> ecology'.usage, grants |-> grants', leases |-> leases']
  BY DEF SaveEcology
<1> QED BY <1>1

LEMMA RateStep == RateInv /\ [AccessNext]_accessvars => RateInv'
<1> SUFFICES ASSUME RateInv, [AccessNext]_accessvars PROVE RateInv'
  OBVIOUS
<1> USE LimitTypes
<1>1. ASSUME NEW k \in Asker, NEW t \in Tool, ToolAsked(k, t) PROVE RateInv'
  <2>1. grants' \in [Asker -> SUBSET Tool]
    BY <1>1 DEF ToolAsked, RateInv
  <2>2. UNCHANGED <<budget, leases, failures, called>> /\ SaveEcology
    BY <1>1 DEF ToolAsked
  <2> QED BY <2>1, <2>2, Saved DEF RateInv, LeaseOf
<1>2. ASSUME NEW k \in Asker, LeaseTaken(k) PROVE RateInv'
  <2>1. leases' \in [Asker -> Nat] /\ \A j \in Asker : leases'[j] <= LeaseOf(j)
    BY <1>2 DEF LeaseTaken, RateInv, LeaseOf
  <2>2. UNCHANGED <<budget, grants, failures, called>> /\ SaveEcology
    BY <1>2 DEF LeaseTaken
  <2> QED BY <2>1, <2>2, Saved DEF RateInv, LeaseOf
<1>3. ASSUME NEW k \in Asker, NEW success \in BOOLEAN, LeaseOver(k, success) PROVE RateInv'
  <2>1. leases' \in [Asker -> Nat] /\ \A j \in Asker : leases'[j] <= LeaseOf(j)
    BY <1>3 DEF LeaseOver, RateInv
  <2>2. UNCHANGED <<budget, grants, failures, called>> /\ SaveEcology
    BY <1>3 DEF LeaseOver
  <2> QED BY <2>1, <2>2, Saved DEF RateInv, LeaseOf
<1>4. CASE Notice
  <2>1. UNCHANGED <<budget, grants, leases, failures, called>> /\ SaveEcology
    BY <1>4 DEF Notice
  <2> QED BY <2>1, Saved DEF RateInv, LeaseOf
<1>5. ASSUME NEW t \in Tool, NEW ok \in BOOLEAN, NEW installs \in BOOLEAN, Perform(t, ok, installs)
      PROVE  RateInv'
  <2> DEFINE r == Resource(t)
  <2>1. UNCHANGED <<grants, leases, ecology>> /\ failures' \subseteq Tool
    BY <1>5 DEF Perform, RateInv
  <2>2. /\ budget' = [x \in Budget |-> IF x = r /\ ~Refused(r) THEN budget[x] + 1 ELSE budget[x]]
        /\ called' = [x \in Budget |-> IF (x = r /\ ~Refused(r)) \/ (x = "pip_install" /\ installs)
                                       THEN called[x] + 1 ELSE called[x]]
    BY <1>5 DEF Perform
  <2>3. budget' \in [Budget -> Nat] /\ called' \in [Budget -> Nat]
    BY <2>2 DEF RateInv
  <2>4. \A x \in Budget : budget'[x] <= Limit[x]
    BY <2>2 DEF RateInv, Refused
  <2>5. \A x \in ToolResources : called'[x] <= budget'[x]
    BY <2>2 DEF RateInv, ToolResources
  <2> QED BY <2>1, <2>3, <2>4, <2>5 DEF RateInv, LeaseOf
<1>6. ASSUME NEW tries \in 1..Advisors, Advise(tries) PROVE RateInv'
  <2>0. tries \in Nat
    BY ToolAssumption
  <2>1. /\ budget' = [budget EXCEPT !["advisor_call"] =
                        IF @ + tries <= Limit["advisor_call"] THEN @ + tries
                        ELSE Limit["advisor_call"]]
        /\ called' = [called EXCEPT !["advisor_call"] = @ + tries]
        /\ UNCHANGED <<grants, leases, failures, ecology>>
    BY <1>6 DEF Advise
  <2>2. budget' \in [Budget -> Nat] /\ called' \in [Budget -> Nat]
    BY <2>0, <2>1 DEF RateInv
  <2>3. \A x \in Budget : budget'[x] <= Limit[x]
    BY <2>0, <2>1 DEF RateInv
  <2>4. \A x \in ToolResources : called'[x] <= budget'[x]
    BY <2>1 DEF RateInv, ToolResources
  <2> QED BY <2>1, <2>2, <2>3, <2>4 DEF RateInv, LeaseOf
<1>7. CASE Install
  <2>1. /\ called' = [called EXCEPT !["pip_install"] = @ + 1]
        /\ UNCHANGED <<budget, grants, leases, failures, ecology>>
    BY <1>7 DEF Install
  <2> QED BY <2>1 DEF RateInv, LeaseOf, ToolResources
<1>8. CASE ResetBudgets
  BY <1>8 DEF ResetBudgets, RateInv, LeaseOf, ToolResources
<1>9. CASE Resume
  <2>1. /\ budget' = ecology.budget /\ grants' = ecology.grants /\ leases' = ecology.leases
        /\ failures' = {} /\ called' = [r \in Budget |-> 0] /\ ecology' = ecology
    BY <1>9 DEF Resume
  <2> QED BY <2>1 DEF RateInv, LeaseOf, ToolResources
<1>10. CASE UNCHANGED accessvars
  BY <1>10 DEF accessvars, RateInv, LeaseOf
<1> QED BY <1>1, <1>2, <1>3, <1>4, <1>5, <1>6, <1>7, <1>8, <1>9, <1>10
        DEF AccessNext, WorkerAsks, KernelCalls

LEMMA RateInvInit == AccessInit => RateInv
<1> SUFFICES ASSUME AccessInit PROVE RateInv
  OBVIOUS
<1>1. ecology = [budget |-> budget, usage |-> ecology.usage, grants |-> grants, leases |-> leases]
  BY DEF AccessInit
<1>2. budget \in [Budget -> Nat] /\ leases \in [Asker -> Nat] /\ grants \in [Asker -> SUBSET Tool]
  BY DEF AccessInit
<1>3. /\ \A r \in Budget : budget[r] <= Limit[r]
      /\ \A k \in Asker : leases[k] <= LeaseOf(k)
      /\ called = [r \in Budget |-> 0] /\ \A r \in Budget : budget[r] = 0
  BY LimitTypes DEF AccessInit
<1>4. \E b \in [Budget -> Nat], l \in [Asker -> Nat], g \in [Asker -> SUBSET Tool] :
        /\ ecology = [budget |-> b, usage |-> ecology.usage, grants |-> g, leases |-> l]
        /\ \A r \in Budget : b[r] <= Limit[r]
        /\ \A k \in Asker : l[k] <= LeaseOf(k)
  BY <1>1, <1>2, <1>3
<1>5. called \in [Budget -> Nat] /\ failures \subseteq Tool
      /\ \A r \in ToolResources : called[r] <= budget[r]
  BY <1>2, <1>3 DEF AccessInit, ToolResources
<1> QED BY <1>2, <1>3, <1>4, <1>5 DEF RateInv

(* Between two resets no tool is called more often than its budget allows, *)
(* whichever calls fail, are refused or follow a restart                   *)
(* (_perform_tool_action and BudgetManager.spend).                         *)
THEOREM ToolRatesHeld == AccessSpec => []ToolsWithinRate
<1>1. RateInv => ToolsWithinRate
  <2> SUFFICES ASSUME RateInv, NEW t \in Tool, Resource(t) \in Budget
               PROVE  called[Resource(t)] <= Limit[Resource(t)]
    BY DEF ToolsWithinRate
  <2>1. Resource(t) \in ToolResources
    BY LimitTypes
  <2> HIDE DEF ToolResources
  <2> QED BY <2>1, LimitTypes DEF RateInv
<1> QED BY <1>1, RateInvInit, RateStep, PTL DEF AccessSpec

(* The bounds on what was granted and completed.                           *)
HistoryBounded ==
  /\ \A k \in Asker, p \in Asked : granted[k][p] <= MaxRequests
  /\ \A k \in Asker : succeeded[k] <= MaxSuccesses

LEMMA HistoryStep == AccessInv /\ HistoryBounded /\ [AccessNext]_accessvars => HistoryBounded'
<1> SUFFICES ASSUME AccessInv, HistoryBounded, [AccessNext]_accessvars PROVE HistoryBounded'
  OBVIOUS
<1>1. ASSUME NEW k \in Asker, NEW t \in Tool, ToolAsked(k, t) PROVE HistoryBounded'
  <2> DEFINE p == Permission(t)
  <2>1. p \in Asked /\ succeeded' = succeeded
    BY <1>1 DEF ToolAsked, Asked
  <2>2. CASE granted[k][p] < MaxRequests /\ granted' = [granted EXCEPT ![k][p] = @ + 1]
    <3>1. \A j \in Asker, q \in Asked : granted'[j][q] <= MaxRequests
      BY <2>1, <2>2, ToolAssumption DEF HistoryBounded, AccessInv, Counts
    <3> QED BY <2>1, <3>1 DEF HistoryBounded
  <2>3. CASE granted' = granted
    BY <2>1, <2>3 DEF HistoryBounded
  <2> QED BY <1>1, <2>2, <2>3 DEF ToolAsked
<1>2. ASSUME NEW k \in Asker, NEW success \in BOOLEAN, LeaseOver(k, success) PROVE HistoryBounded'
  <2>1. granted' = granted
    BY <1>2 DEF LeaseOver
  <2>2. CASE succeeded[k] < MaxSuccesses /\ succeeded' = [succeeded EXCEPT ![k] = @ + 1]
    BY <2>1, <2>2, ToolAssumption DEF HistoryBounded, AccessInv
  <2>3. CASE succeeded' = succeeded
    BY <2>1, <2>3 DEF HistoryBounded
  <2> QED BY <1>2, <2>2, <2>3 DEF LeaseOver
<1>3. UNCHANGED <<granted, succeeded>> => HistoryBounded'
  BY DEF HistoryBounded
<1> QED BY <1>1, <1>2, <1>3 DEF AccessNext, WorkerAsks, KernelCalls, LeaseTaken, Notice, Perform,
        Advise, Install, ResetBudgets, Resume, accessvars

LEMMA QuotaBounded ==
  /\ Most([r \in Role |-> Most(CallQuota[r])]) \in Nat
  /\ \A k \in Asker, p \in Asked : QuotaOf(k, p) <= Most([r \in Role |-> Most(CallQuota[r])])
<1> DEFINE best == [r \in Role |-> Most(CallQuota[r])]
<1>1. IsFiniteSet(Permissions) /\ IsFiniteSet(Role)
  <2>1. IsFiniteSet({"safe_autonomous"}) /\ IsFiniteSet({"hub"})
    BY FS_Singleton
  <2>2. IsFiniteSet({"safe_autonomous"} \cup {"safe_logged"}) /\ IsFiniteSet({"hub"} \cup {"subkernel"})
    BY <2>1, FS_AddElement
  <2>3. IsFiniteSet({"safe_autonomous"} \cup {"safe_logged"} \cup {"sandbox_only"})
    BY <2>2, FS_AddElement
  <2>4. IsFiniteSet({"safe_autonomous"} \cup {"safe_logged"} \cup {"sandbox_only"}
                    \cup {"approval_required"})
    BY <2>3, FS_AddElement
  <2>5. IsFiniteSet({"safe_autonomous"} \cup {"safe_logged"} \cup {"sandbox_only"}
                    \cup {"approval_required"} \cup {"forbidden"})
    BY <2>4, FS_AddElement
  <2>6. /\ Permissions = {"safe_autonomous"} \cup {"safe_logged"} \cup {"sandbox_only"}
                         \cup {"approval_required"} \cup {"forbidden"}
        /\ Role = {"hub"} \cup {"subkernel"}
    BY DEF Permissions, Role
  <2> QED BY <2>2, <2>5, <2>6
<1>2. ASSUME NEW r \in Role
      PROVE  Most(CallQuota[r]) \in Nat /\ \A p \in Permissions : CallQuota[r][p] <= Most(CallQuota[r])
  <2>1. CallQuota[r] \in [Permissions -> Nat]
    BY ToolAssumption
  <2> QED BY <1>1, <2>1, MostIs
<1>3. DOMAIN best = Role /\ \A r \in Role : best[r] = Most(CallQuota[r])
  OBVIOUS
<1> HIDE DEF best
<1>4. Most(best) \in Nat /\ \A r \in Role : best[r] <= Most(best)
  BY <1>1, <1>2, <1>3, MostIs
<1>5. ASSUME NEW k \in Asker, NEW p \in Asked PROVE QuotaOf(k, p) <= Most(best)
  <2>1. RoleOf[k] \in Role
    BY ToolAssumption
  <2>2. p \in Permissions
    BY DEF Asked, Permission, Contracts, Permissions
  <2>3. QuotaOf(k, p) <= best[RoleOf[k]]
    BY <1>2, <1>3, <2>1, <2>2 DEF QuotaOf
  <2>4. best[RoleOf[k]] <= Most(best) /\ best[RoleOf[k]] \in Nat
    BY <1>2, <1>3, <1>4, <2>1
  <2> QED BY <1>4, <2>3, <2>4, QuotaType
<1> QED BY <1>4, <1>5 DEF best

LEMMA LimitsBounded ==
  /\ Most(Limit) \in Nat /\ \A r \in Budget : Limit[r] <= Most(Limit)
  /\ Most(LeaseMax) \in Nat /\ \A k \in Asker : LeaseOf(k) <= Most(LeaseMax)
<1>1. IsFiniteSet(DOMAIN Limit) /\ \A r \in DOMAIN Limit : Limit[r] \in Nat
  BY ToolAssumption DEF Budget
<1>2. IsFiniteSet(Role) /\ DOMAIN LeaseMax = Role /\ \A r \in Role : LeaseMax[r] \in Nat
  <2>1. IsFiniteSet({"hub"})
    BY FS_Singleton
  <2>2. IsFiniteSet({"hub"} \cup {"subkernel"})
    BY <2>1, FS_AddElement
  <2>3. Role = {"hub"} \cup {"subkernel"}
    BY DEF Role
  <2> QED BY <2>2, <2>3, ToolAssumption
<1>3. \A k \in Asker : RoleOf[k] \in Role
  BY ToolAssumption
<1> QED BY <1>1, <1>2, <1>3, MostIs DEF Budget, LeaseOf

(* What is counted stays in its range.                                     *)
LEMMA InRange ==
  ASSUME NEW S, NEW f \in [S -> Nat], NEW n \in Nat, \A x \in S : f[x] <= n
  PROVE  f \in [S -> 0..n]
OBVIOUS

LEMMA AccessTypes == AccessInv /\ RateInv /\ HistoryBounded => AccessTypeOK
<1> SUFFICES ASSUME AccessInv, RateInv, HistoryBounded PROVE AccessTypeOK
  OBVIOUS
<1>1. usage \in Usages
  <2> DEFINE top == Most([r \in Role |-> Most(CallQuota[r])])
  <2>1. top \in Nat /\ \A k \in Asker, p \in Asked : QuotaOf(k, p) <= top /\ QuotaOf(k, p) \in Nat
    BY QuotaBounded, QuotaType
  <2> HIDE DEF top
  <2>2. \A k \in Asker : usage[k] \in [Asked -> Nat] /\ \A p \in Asked : usage[k][p] <= QuotaOf(k, p)
    BY DEF AccessInv, Counts
  <2>3. \A k \in Asker : usage[k] \in [Asked -> 0..top]
    BY <2>1, <2>2
  <2>4. usage \in [Asker -> [Asked -> 0..top]]
    BY <2>3 DEF AccessInv, Counts
  <2> QED BY <2>4 DEF Usages, top
<1>2. ASSUME NEW b \in [Budget -> Nat], \A r \in Budget : b[r] <= Limit[r]
      PROVE  b \in [Budget -> 0..Most(Limit)]
  BY <1>2, LimitsBounded, LimitTypes
<1>3. ASSUME NEW l \in [Asker -> Nat], \A k \in Asker : l[k] <= LeaseOf(k)
      PROVE  l \in [Asker -> 0..Most(LeaseMax)]
  BY <1>3, LimitsBounded, LimitTypes
<1>4. [budget |-> budget, usage |-> usage, grants |-> grants, leases |-> leases] \in Ecology
  <2>1. budget \in [Budget -> 0..Most(Limit)] /\ leases \in [Asker -> 0..Most(LeaseMax)]
        /\ grants \in [Asker -> SUBSET Tool]
    BY <1>2, <1>3 DEF RateInv
  <2> QED BY <1>1, <2>1 DEF Ecology
<1>5. ecology \in Ecology
  <2>1. PICK b \in [Budget -> Nat], l \in [Asker -> Nat], g \in [Asker -> SUBSET Tool] :
          /\ ecology = [budget |-> b, usage |-> ecology.usage, grants |-> g, leases |-> l]
          /\ \A r \in Budget : b[r] <= Limit[r]
          /\ \A k \in Asker : l[k] <= LeaseOf(k)
    BY DEF RateInv
  <2>2. ecology.usage = usage
    BY DEF AccessInv
  <2>3. b \in [Budget -> 0..Most(Limit)] /\ l \in [Asker -> 0..Most(LeaseMax)]
    BY <1>2, <1>3, <2>1
  <2>4. ecology = [budget |-> b, usage |-> usage, grants |-> g, leases |-> l]
    BY <2>1, <2>2
  <2> QED BY <1>1, <2>3, <2>4 DEF Ecology
<1>6. granted \in [Asker -> [Asked -> 0..MaxRequests]] /\ succeeded \in [Asker -> 0..MaxSuccesses]
  <2>1. MaxRequests \in Nat /\ MaxSuccesses \in Nat
    BY ToolAssumption
  <2>2. \A k \in Asker : granted[k] \in [Asked -> 0..MaxRequests]
    BY <2>1 DEF HistoryBounded, AccessInv, Counts
  <2>3. \A k \in Asker : succeeded[k] \in 0..MaxSuccesses
    BY <2>1 DEF HistoryBounded, AccessInv
  <2> QED BY <2>2, <2>3 DEF AccessInv, Counts
<1>7. failures \subseteq Tool /\ called \in [Budget -> Nat] /\ \A r \in Budget : budget[r] <= Limit[r]
  BY DEF RateInv
<1> QED BY <1>4, <1>5, <1>6, <1>7 DEF AccessTypeOK

(* What is used of a budget or a quota stays within its range, in memory   *)
(* and in the ecology file, through refusals, resets and restarts.         *)
THEOREM ToolsTyped == AccessSpec => []AccessTypeOK
<1>1. AccessInit => HistoryBounded
  BY ToolAssumption DEF AccessInit, HistoryBounded
<1> QED BY <1>1, AccessInvInit, AccessInvStep, RateInvInit, RateStep, HistoryStep, AccessTypes,
           PTL DEF AccessSpec
-----------------------------------------------------------------------------
(* The hub's two queues.                                                   *)

WorkItem == {t \in [kind : {"promotion_evidence", "promotion_cooldown_tracking",
                            "review_wave_resolution"},
                    art : Artifact \cup {NoWave},
                    stage : Stage \cup ModuleStage \cup {"none"},
                    known : BOOLEAN, wave : 0..MaxWaves,
                    advice : {"none", "wait", "auto_close", "auto_escalate"}] :
               t.kind = "promotion_evidence" =>
                 t.advice = "none" /\ t.art \in Artifact /\ t.stage \in Stage \cup ModuleStage}

Kept200(S) == {s \in Seq(S) : Len(s) <= QueueCap}
BothQueues == [promotion : Kept200(Request), work : Kept200(WorkItem)]

Requested(q, a)   == \E i \in DOMAIN q : q[i].art = a
Sought(q, a)  == \E i \in DOMAIN q : q[i].kind = "promotion_evidence" /\ q[i].art = a
Waiting(q, a) == Requested(q.promotion, a) \/ Sought(q.work, a)

LEMMA CutIs ==
  ASSUME NEW S, NEW s \in Seq(S)
  PROVE  /\ Last200(s) \in Kept200(S) /\ Len(Last200(s)) <= Len(s)
         /\ Len(s) <= QueueCap => Last200(s) = s
         /\ Len(s) > QueueCap => Len(Last200(s)) = QueueCap
<1>1. QueueCap \in Nat \ {0} /\ Len(s) \in Nat
  BY HubAssumption
<1>2. CASE Len(s) > QueueCap
  <2> DEFINE m == Len(s) - QueueCap + 1
  <2>1. m \in 1..Len(s) /\ Last200(s) = SubSeq(s, m, Len(s))
    BY <1>1, <1>2 DEF Last200
  <2>2. SubSeq(s, m, Len(s)) \in Seq(S) /\ Len(SubSeq(s, m, Len(s))) = Len(s) - m + 1
    <3> HIDE DEF m
    <3> QED BY <1>1, <2>1
  <2> QED BY <1>1, <1>2, <2>1, <2>2 DEF Kept200
<1>3. CASE Len(s) <= QueueCap
  BY <1>1, <1>3 DEF Last200, Kept200
<1> QED BY <1>1, <1>2, <1>3

LEMMA KeyNames ==
  ASSUME NEW art, NEW stage, NEW known
  PROVE  DedupKey(art, stage, known)[1] = art
BY DEF DedupKey

LEMMA EnqueueIs ==
  ASSUME NEW queue \in Kept200(WorkItem), NEW t \in WorkItem
  PROVE  /\ Enqueue(queue, t) \in Kept200(WorkItem)
         /\ Len(Enqueue(queue, t)) <= Len(queue) + 1
         /\ Len(queue) < QueueCap \/ Len(Enqueue(queue, t)) # QueueCap =>
              /\ \A a : Sought(queue, a) => Sought(Enqueue(queue, t), a)
              /\ t.kind = "promotion_evidence" => Sought(Enqueue(queue, t), t.art)
<1> DEFINE I == {i \in DOMAIN queue : TaskKey(queue[i]) # TaskKey(t)}
           left == IF t.kind = "promotion_evidence" THEN Pick(queue, I) ELSE queue
           full == Append(left, t)
<1>1. queue \in Seq(WorkItem) /\ Len(queue) <= QueueCap /\ Len(queue) \in Nat
  BY DEF Kept200
<1>2. /\ Pick(queue, I) \in Seq(WorkItem) /\ Len(Pick(queue, I)) <= Len(queue)
      /\ \A i \in I : Rank(I, i) \in DOMAIN Pick(queue, I) /\ Pick(queue, I)[Rank(I, i)] = queue[i]
  <2>1. I \in SUBSET (DOMAIN queue)
    OBVIOUS
  <2> HIDE DEF I
  <2> QED BY <1>1, <2>1, PickIs
<1>3. left \in Seq(WorkItem) /\ Len(left) <= Len(queue)
  BY <1>1, <1>2
<1>4. /\ \A i \in DOMAIN left : i \in DOMAIN full /\ full[i] = left[i]
      /\ Len(left) + 1 \in DOMAIN full /\ full[Len(left) + 1] = t
      /\ full \in Seq(WorkItem) /\ Len(full) = Len(left) + 1
  <2> HIDE DEF left
  <2> QED BY <1>3
<1>5. Enqueue(queue, t) = Last200(full)
  BY DEF Enqueue
<1>6. \A a : Sought(queue, a) => Sought(full, a)
  <2> SUFFICES ASSUME NEW i \in DOMAIN queue, queue[i].kind = "promotion_evidence"
               PROVE  Sought(full, queue[i].art)
    BY DEF Sought
  <2>1. CASE t.kind # "promotion_evidence"
    <3>1. i \in DOMAIN full /\ full[i] = queue[i]
      BY <1>4, <2>1
    <3> HIDE DEF full
    <3> QED BY <3>1 DEF Sought
  <2>2. CASE t.kind = "promotion_evidence" /\ i \in I
    <3>1. Rank(I, i) \in DOMAIN left /\ left[Rank(I, i)] = queue[i]
      BY <1>2, <2>2
    <3> HIDE DEF full, left, I
    <3> QED BY <1>4, <3>1 DEF Sought
  <2>3. CASE t.kind = "promotion_evidence" /\ i \notin I
    <3>1. TaskKey(queue[i]) = TaskKey(t)
      BY <2>3
    <3>2. t.art = queue[i].art
      BY <2>3, <3>1, KeyNames DEF TaskKey
    <3> HIDE DEF full, left, I
    <3> QED BY <1>4, <2>3, <3>2 DEF Sought
  <2> QED BY <2>1, <2>2, <2>3
<1>7. t.kind = "promotion_evidence" => Sought(full, t.art)
  <2> HIDE DEF full, left
  <2> QED BY <1>4 DEF Sought
<1> HIDE DEF full, left, I
<1>8. Last200(full) \in Kept200(WorkItem) /\ Len(Last200(full)) <= Len(full)
  BY <1>4, CutIs
<1>9. Len(queue) < QueueCap \/ Len(Last200(full)) # QueueCap => Last200(full) = full
  BY <1>1, <1>3, <1>4, CutIs, HubAssumption
<1> QED BY <1>1, <1>3, <1>4, <1>5, <1>6, <1>7, <1>8, <1>9 DEF Kept200

LEMMA QueuedIs ==
  ASSUME NEW queue \in Kept200(Request), NEW r \in Request
  PROVE  /\ Queued(queue, r) \in Kept200(Request)
         /\ Len(Queued(queue, r)) # QueueCap =>
              /\ \A a : Requested(queue, a) => Requested(Queued(queue, r), a)
              /\ Requested(Queued(queue, r), r.art)
<1> DEFINE same == {i \in DOMAIN queue : StoredKey(queue[i]) = StoredKey(r)}
           I    == DOMAIN queue \ same
           left == Pick(queue, I)
           new  == [r EXCEPT !.ready = @ \/ \E i \in same : queue[i].ready]
           full == Append(left, new)
<1>1. queue \in Seq(Request) /\ Len(queue) <= QueueCap /\ Len(queue) \in Nat
  BY DEF Kept200
<1>2. /\ left \in Seq(Request) /\ Len(left) <= Len(queue)
      /\ \A i \in I : Rank(I, i) \in DOMAIN left /\ left[Rank(I, i)] = queue[i]
  <2>1. I \in SUBSET (DOMAIN queue)
    OBVIOUS
  <2> HIDE DEF I
  <2> QED BY <1>1, <2>1, PickIs
<1>3. new \in Request /\ new.art = r.art
  BY DEF Request
<1>4. /\ \A i \in DOMAIN left : i \in DOMAIN full /\ full[i] = left[i]
      /\ Len(left) + 1 \in DOMAIN full /\ full[Len(left) + 1] = new
      /\ full \in Seq(Request) /\ Len(full) = Len(left) + 1
  <2> HIDE DEF left, new
  <2> QED BY <1>2, <1>3
<1>5. Queued(queue, r) = Last200(full)
  BY DEF Queued
<1>6. ASSUME NEW i \in DOMAIN queue PROVE Requested(full, queue[i].art)
  <2>1. CASE i \in I
    <3> HIDE DEF full, left, I
    <3> QED BY <1>2, <1>4, <2>1 DEF Requested
  <2>2. CASE i \notin I
    <3>1. StoredKey(queue[i]) = StoredKey(r)
      BY <2>2
    <3>2. queue[i].art = r.art
      BY <3>1, KeyNames DEF StoredKey
    <3> HIDE DEF full, left, I, new
    <3> QED BY <1>3, <1>4, <3>2 DEF Requested
  <2> QED BY <2>1, <2>2
<1>7. Requested(full, r.art)
  <2> HIDE DEF full, left, new
  <2> QED BY <1>3, <1>4 DEF Requested
<1> HIDE DEF full, left, I, new
<1>9. \A a : Requested(queue, a) => Requested(full, a)
  BY <1>6 DEF Requested
<1>8. /\ Last200(full) \in Kept200(Request)
      /\ Len(Last200(full)) # QueueCap => Last200(full) = full
  BY <1>1, <1>2, <1>4, CutIs, HubAssumption
<1> QED BY <1>5, <1>7, <1>8, <1>9

(* The entries of the promotion queue that remain.                         *)
LEMMA Remaining ==
  ASSUME NEW queue \in Kept200(Request), NEW I \in SUBSET (DOMAIN queue), NEW a,
         \A i \in DOMAIN queue \ I : queue[i].art # a
  PROVE  /\ Pick(queue, I) \in Kept200(Request)
         /\ Requested(queue, a) => Requested(Pick(queue, I), a)
<1>1. queue \in Seq(Request) /\ Len(queue) <= QueueCap /\ Len(queue) \in Nat
  BY DEF Kept200
<1>2. /\ Pick(queue, I) \in Seq(Request) /\ Len(Pick(queue, I)) <= Len(queue)
      /\ \A i \in I : Rank(I, i) \in DOMAIN Pick(queue, I) /\ Pick(queue, I)[Rank(I, i)] = queue[i]
  BY <1>1, PickIs
<1>3. Pick(queue, I) \in Kept200(Request)
  <2>1. Len(Pick(queue, I)) \in Nat
    BY <1>2
  <2> QED BY <1>1, <1>2, <2>1, HubAssumption DEF Kept200
<1>4. ASSUME Requested(queue, a) PROVE Requested(Pick(queue, I), a)
  <2>1. PICK i \in DOMAIN queue : queue[i].art = a
    BY <1>4 DEF Requested
  <2>2. i \in I
    BY <2>1
  <2> QED BY <1>2, <2>1, <2>2 DEF Requested
<1> QED BY <1>3, <1>4

LEMMA DeferredIs ==
  ASSUME NEW q \in BothQueues, NEW r \in Request
  PROVE  /\ Deferred(q, r).work = Enqueue(q.work, Tracking(r))
         /\ Deferred(q, r) = [promotion |-> Deferred(q, r).promotion,
                              work |-> Deferred(q, r).work]
         /\ Deferred(q, r).promotion \in Kept200(Request)
         /\ \A a : Requested(q.promotion, a) => Requested(Deferred(q, r).promotion, a)
<1> DEFINE I     == {i \in 1..Len(q.promotion) : Matches(q.promotion[i], r)}
           first == SelectInSeq(q.promotion, LAMBDA old : Matches(old, r))
<1>1. q.promotion \in Kept200(Request) /\ q.promotion \in Seq(Request)
  BY DEF BothQueues, Kept200
<1>2. first = 0 \/ first \in DOMAIN q.promotion
  <2>1. first = IF I # {} THEN Min(I) ELSE 0
    BY DEF SelectInSeq
  <2>2. I \subseteq Nat
    BY <1>1
  <2> HIDE DEF first
  <2>3. CASE I # {}
    <3>1. I \subseteq DOMAIN q.promotion
      OBVIOUS
    <3> HIDE DEF I
    <3> QED BY <2>1, <2>2, <2>3, <3>1, MinIs
  <2> QED BY <2>1, <2>3
<1>3. Deferred(q, r) = [promotion |-> IF first = 0 THEN q.promotion
                                      ELSE [q.promotion EXCEPT ![first].ready = FALSE],
                        work |-> Enqueue(q.work, Tracking(r))]
  BY DEF Deferred
<1> HIDE DEF first
<1>6. /\ Deferred(q, r).work = Enqueue(q.work, Tracking(r))
      /\ Deferred(q, r) = [promotion |-> Deferred(q, r).promotion, work |-> Deferred(q, r).work]
  BY <1>3
<1>4. CASE first = 0
  BY <1>1, <1>3, <1>4, <1>6
<1>5. CASE first \in DOMAIN q.promotion
  <2> DEFINE p == [q.promotion EXCEPT ![first].ready = FALSE]
  <2>1. [q.promotion[first] EXCEPT !.ready = FALSE] \in Request
    <3>1. q.promotion[first] \in Request
      BY <1>1, <1>5
    <3> QED BY <3>1 DEF Request
  <2>2. p \in Seq(Request) /\ Len(p) = Len(q.promotion) /\ DOMAIN p = DOMAIN q.promotion
    BY <1>1, <1>5, <2>1
  <2>3. \A i \in DOMAIN p : p[i].art = q.promotion[i].art
    <3>1. \A i \in DOMAIN q.promotion : q.promotion[i] \in Request
      BY <1>1
    <3> QED BY <1>1, <1>5, <3>1 DEF Request
  <2>4. Deferred(q, r).promotion = p
    BY <1>1, <1>3, <1>5
  <2>5. p \in Kept200(Request)
    BY <1>1, <2>2 DEF Kept200
  <2>6. \A a : Requested(q.promotion, a) => Requested(p, a)
    <3> HIDE DEF p
    <3> QED BY <2>2, <2>3 DEF Requested
  <2> HIDE DEF p
  <2> QED BY <1>6, <2>4, <2>5, <2>6
<1> QED BY <1>2, <1>4, <1>5

(* One row: nothing stops waiting, unless the work queue is cut.           *)
LEMMA RowIs ==
  ASSUME NEW q \in BothQueues, NEW r \in Request, NEW chosen, NEW mood
  PROVE  LET after == HandleRow(q, r, chosen, mood) IN
         /\ after \in BothQueues /\ Len(after.work) <= Len(q.work) + 1
         /\ Len(q.work) < QueueCap \/ Len(after.work) # QueueCap =>
              \A a : Waiting(q, a) => Waiting(after, a)
<1> DEFINE d == Deferred(q, r)
           e == AskedForEvidence(q, r)
           c == Consumed(e, r)
           Fine(x) == /\ x \in BothQueues /\ Len(x.work) <= Len(q.work) + 1
                      /\ Len(q.work) < QueueCap \/ Len(x.work) # QueueCap =>
                           \A a : Waiting(q, a) => Waiting(x, a)
<1>1. /\ q.promotion \in Kept200(Request) /\ q.work \in Kept200(WorkItem) /\ Len(q.work) \in Nat
      /\ q = [promotion |-> q.promotion, work |-> q.work]
  BY DEF BothQueues, Kept200
<1>2. Tracking(r) \in WorkItem /\ Evidence(r) \in WorkItem
  <2>1. /\ r.art \in Artifact /\ r.stage \in Stage \cup ModuleStage
        /\ (r.art \in Proposed) \in BOOLEAN /\ NoWave \in 0..MaxWaves
    BY HubAssumption DEF Request, NoWave
  <2> QED BY <2>1 DEF WorkItem, Tracking, Evidence, Task
<1>3. Fine(q)
  BY <1>1
<1>4. Fine(d)
  <2>1. /\ d.work = Enqueue(q.work, Tracking(r))
        /\ d = [promotion |-> d.promotion, work |-> d.work]
        /\ d.promotion \in Kept200(Request)
        /\ \A a : Requested(q.promotion, a) => Requested(d.promotion, a)
    BY DeferredIs
  <2> HIDE DEF d
  <2>2. /\ d.work \in Kept200(WorkItem) /\ Len(d.work) <= Len(q.work) + 1
        /\ Len(q.work) < QueueCap \/ Len(d.work) # QueueCap =>
              \A a : Sought(q.work, a) => Sought(d.work, a)
    BY <1>1, <1>2, <2>1, EnqueueIs
  <2> QED BY <2>1, <2>2 DEF Waiting, BothQueues
<1>5. /\ e = [promotion |-> q.promotion, work |-> Enqueue(q.work, Evidence(r))]
      /\ e.work \in Kept200(WorkItem) /\ Len(e.work) <= Len(q.work) + 1
      /\ Len(q.work) < QueueCap \/ Len(e.work) # QueueCap =>
            /\ \A a : Sought(q.work, a) => Sought(e.work, a)
            /\ Sought(e.work, r.art)
  <2>1. e = [promotion |-> q.promotion, work |-> Enqueue(q.work, Evidence(r))]
    BY <1>1 DEF AskedForEvidence
  <2>2. Evidence(r).kind = "promotion_evidence" /\ Evidence(r).art = r.art
    BY DEF Evidence, Task
  <2> HIDE DEF e
  <2> QED BY <1>1, <1>2, <2>1, <2>2, EnqueueIs
<1>6. Fine(e)
  <2> HIDE DEF e
  <2> QED BY <1>1, <1>5 DEF Waiting, BothQueues
<1>7. Fine(c)
  <2> DEFINE I == {i \in DOMAIN q.promotion : ~Matches(q.promotion[i], r)}
  <2>1. c = [promotion |-> Pick(q.promotion, I), work |-> e.work]
    <3> HIDE DEF e
    <3>1. e.promotion = q.promotion
      BY <1>5
    <3>2. c = [e EXCEPT !.promotion = Pick(e.promotion, {i \in DOMAIN e.promotion : ~Matches(e.promotion[i], r)})]
      BY DEF Consumed
    <3> QED BY <1>5, <3>1, <3>2
  <2>2. I \in SUBSET (DOMAIN q.promotion)
    OBVIOUS
  <2>3. \A i \in DOMAIN q.promotion \ I : q.promotion[i].art = r.art
    BY DEF Matches
  <2> HIDE DEF I, c, e
  <2>4. /\ Pick(q.promotion, I) \in Kept200(Request)
        /\ \A a : a # r.art /\ Requested(q.promotion, a) => Requested(Pick(q.promotion, I), a)
    <3>1. Pick(q.promotion, I) \in Kept200(Request)
      <4>1. q.promotion \in Seq(Request) /\ Len(q.promotion) <= QueueCap /\ Len(q.promotion) \in Nat
        BY <1>1 DEF Kept200
      <4>2. Pick(q.promotion, I) \in Seq(Request) /\ Len(Pick(q.promotion, I)) <= Len(q.promotion)
        BY <4>1, <2>2, PickIs
      <4>3. Len(Pick(q.promotion, I)) \in Nat
        BY <4>2
      <4> QED BY <4>1, <4>2, <4>3, HubAssumption DEF Kept200
    <3>2. ASSUME NEW a, a # r.art, Requested(q.promotion, a) PROVE Requested(Pick(q.promotion, I), a)
      BY <1>1, <2>2, <2>3, <3>2, Remaining
    <3> QED BY <3>1, <3>2
  <2> QED BY <1>1, <1>5, <2>1, <2>4 DEF Waiting, BothQueues
<1>8. HandleRow(q, r, chosen, mood) \in {q, d, e, c}
  BY DEF HandleRow, WithoutWave, BehindWave
<1> HIDE DEF d, e, c
<1> QED BY <1>3, <1>4, <1>6, <1>7, <1>8

(* The rows handled one after the other.  No more tasks are made than      *)
(* requests wait, so only the last can find the queue full.                *)
LEMMA RowsAre ==
  ASSUME Queues \in BothQueues, NEW rows \in [1..Len(promotionQueue) -> Request],
         NEW chosen, NEW mood, MarkedReviewed(Queues, chosen) \in BothQueues
  PROVE  LET after == AfterRows(rows, chosen, mood) IN
         /\ after \in BothQueues
         /\ Len(workQueue) + Len(promotionQueue) <= QueueCap + 1 /\ Len(after.work) # QueueCap =>
              \A a : Waiting(MarkedReviewed(Queues, chosen), a) => Waiting(after, a)
<1> DEFINE N    == RowsHandled(chosen)
           base == MarkedReviewed(Queues, chosen)
           step == [x \in BothQueues \X (1..N) |-> HandleRow(x[1], rows[x[2]], chosen, mood)]
<1>1. N \in Nat /\ N <= Len(promotionQueue) /\ Len(promotionQueue) \in Nat /\ Len(workQueue) \in Nat
  <2>1. promotionQueue \in Kept200(Request) /\ workQueue \in Kept200(WorkItem)
    BY DEF Queues, BothQueues
  <2>2. Len(promotionQueue) \in Nat /\ Len(workQueue) \in Nat
    BY <2>1 DEF Kept200
  <2> QED BY <2>2, HubAssumption DEF RowsHandled
<1> HIDE DEF N
<1>2. \A q \in BothQueues, n \in 1..N : HandleRow(q, rows[n], chosen, mood) \in BothQueues
  <2> SUFFICES ASSUME NEW q \in BothQueues, NEW n \in 1..N
               PROVE  HandleRow(q, rows[n], chosen, mood) \in BothQueues
    OBVIOUS
  <2>1. rows[n] \in Request
    BY <1>1
  <2> QED BY <2>1, RowIs
<1>3. step \in [BothQueues \X (1..N) -> BothQueues]
  BY <1>2
<1>4. \A q \in BothQueues, n \in 1..N : step[<<q, n>>] = HandleRow(q, rows[n], chosen, mood)
  OBVIOUS
<1> HIDE DEF step
<1>5. base \in BothQueues
  OBVIOUS
<1> HIDE DEF base
<1>6. PICK s \in [0..N -> BothQueues] : Loop(s, N, base, step)
  BY <1>1, <1>3, <1>5, Recursion
<1> DEFINE rec(f) == [n \in 0..N |-> IF n = 0 THEN base
                                     ELSE HandleRow(f[n - 1], rows[n], chosen, mood)]
           after == CHOOSE f : f = rec(f)
<1>7. s = rec(s)
  <2>1. ASSUME NEW n \in 0..N PROVE s[n] = rec(s)[n]
    <3>1. CASE n = 0
      BY <1>6, <3>1 DEF Loop
    <3>2. CASE n # 0
      <4>1. n \in 1..N /\ n - 1 \in 0..N
        BY <1>1, <3>2
      <4>2. s[n - 1] \in BothQueues
        BY <1>6, <4>1
      <4>3. s[n] = HandleRow(s[n - 1], rows[n], chosen, mood)
        BY <1>4, <1>6, <4>1, <4>2 DEF Loop
      <4> QED BY <3>2, <4>3
    <3> QED BY <3>1, <3>2
  <2>2. rec(s) = [n \in 0..N |-> rec(s)[n]] /\ s = [n \in 0..N |-> s[n]]
    OBVIOUS
  <2> HIDE DEF rec
  <2> QED BY <2>1, <2>2
<1>8. after = rec(after)
  <2> HIDE DEF rec
  <2> QED BY <1>7
<1>9. AfterRows(rows, chosen, mood) = after[N]
  BY DEF AfterRows, N, base
<1> HIDE DEF after
<1>10. after[0] = base /\ \A n \in 1..N : after[n] = HandleRow(after[n - 1], rows[n], chosen, mood)
  BY <1>1, <1>8
<1>11. base.work = workQueue
  BY DEF base, MarkedReviewed, Queues
<1> DEFINE Keeps(n) == \A a : Waiting(base, a) => Waiting(after[n], a)
           S == {n \in 0..N : /\ after[n] \in BothQueues
                              /\ Len(after[n].work) <= Len(workQueue) + n
                              /\ Len(workQueue) + n <= QueueCap => Keeps(n)}
<1>12. ASSUME NEW n \in 1..N, after[n - 1] \in BothQueues
       PROVE  /\ after[n] \in BothQueues /\ Len(after[n].work) <= Len(after[n - 1].work) + 1
              /\ Len(after[n - 1].work) < QueueCap \/ Len(after[n].work) # QueueCap =>
                   \A a : Waiting(after[n - 1], a) => Waiting(after[n], a)
  <2>1. rows[n] \in Request
    BY <1>1
  <2>2. after[n] = HandleRow(after[n - 1], rows[n], chosen, mood)
    BY <1>10
  <2> QED BY <1>12, <2>1, <2>2, RowIs
<1>13. 0..N \subseteq S
  <2>1. 0 \in S
    <3>1. after[0] \in BothQueues /\ Len(after[0].work) <= Len(workQueue) + 0 /\ Keeps(0)
      BY <1>1, <1>5, <1>10, <1>11
    <3> HIDE DEF Keeps
    <3> QED BY <1>1, <3>1
  <2>2. ASSUME NEW n \in 1..N, n - 1 \in S PROVE n \in S
    <3>1. /\ after[n - 1] \in BothQueues /\ Len(after[n - 1].work) <= Len(workQueue) + (n - 1)
          /\ Len(workQueue) + (n - 1) <= QueueCap => Keeps(n - 1)
      BY <2>2
    <3>2. Len(after[n - 1].work) \in Nat
      BY <3>1 DEF BothQueues, Kept200
    <3>3. after[n] \in BothQueues /\ Len(after[n].work) <= Len(after[n - 1].work) + 1
      BY <1>12, <3>1
    <3>4. Len(after[n].work) \in Nat
      BY <3>3 DEF BothQueues, Kept200
    <3>5. Len(after[n].work) <= Len(workQueue) + n
      BY <1>1, <3>1, <3>2, <3>3, <3>4
    <3>6. ASSUME Len(workQueue) + n <= QueueCap PROVE Keeps(n)
      <4>1. Len(workQueue) + (n - 1) < QueueCap
        BY <1>1, <3>6, HubAssumption
      <4>2. Len(after[n - 1].work) < QueueCap /\ Len(workQueue) + (n - 1) <= QueueCap
        BY <1>1, <3>1, <3>2, <4>1, HubAssumption
      <4> QED BY <1>12, <3>1, <4>2
    <3> HIDE DEF Keeps
    <3> QED BY <3>3, <3>5, <3>6
  <2> HIDE DEF S
  <2>3. N \in Nat
    BY <1>1
  <2> QED BY <2>1, <2>2, <2>3, Induction
<1>14. after[N] \in BothQueues
  BY <1>1, <1>13
<1>15. ASSUME Len(workQueue) + Len(promotionQueue) <= QueueCap + 1, Len(after[N].work) # QueueCap
       PROVE  Keeps(N)
  <2>1. CASE N = 0
    BY <1>10, <2>1
  <2>2. CASE N # 0
    <3>1. N - 1 \in 0..N /\ N \in 1..N /\ Len(workQueue) + (N - 1) <= QueueCap
      BY <1>1, <1>15, <2>2, HubAssumption
    <3>2. after[N - 1] \in BothQueues /\ Keeps(N - 1)
      BY <1>13, <3>1
    <3> QED BY <1>12, <1>15, <3>1, <3>2
  <2> QED BY <2>1, <2>2
<1> HIDE DEF after
<1> QED BY <1>9, <1>14, <1>15 DEF base

(* What is chosen for a wave: requests whose keys no open wave holds.      *)
LEMMA ChosenIs ==
  ASSUME NEW rows \in [1..Len(promotionQueue) -> Request], Len(promotionQueue) \in Nat,
         NEW mood, NEW r \in Selected(rows, mood)
  PROVE  r \in Request /\ RowKey(r) \notin OpenKeys
<1> DEFINE found == WaveCandidates(rows, mood)
<1>1. found \subseteq 1..Len(promotionQueue) /\ \A i \in found : RowKey(rows[i]) \notin OpenKeys
  BY DEF WaveCandidates
<1>2. found \subseteq Nat
  BY <1>1
<1> HIDE DEF found
<1>3. found # {} => Min(found) \in found
  BY <1>2, MinIs
<1>4. \E i \in found : r = rows[i]
  BY <1>3 DEF Selected, found
<1> QED BY <1>1, <1>4

HubInv == /\ Queues \in BothQueues
          /\ waves \in Seq(Wave) /\ Len(waves) <= MaxWaves
          /\ evidence \in [Patch -> 0..2]
          /\ NoParallelReview

(* A request leaves the queues as LeavesThroughWave allows.                *)
Leaving ==
  \A a \in Artifact :
    Pending(a) /\ ~Pending(a)' =>
      \/ Len(waves') > Len(waves) /\ a \in ArtsOf(waves'[Len(waves')])
      \/ CutNow
      \/ promotionQueue' = <<>> /\ workQueue' = <<>> /\ waves' = waves

LEMMA QueuesAre ==
  /\ Queues \in BothQueues <=> promotionQueue \in Kept200(Request) /\ workQueue \in Kept200(WorkItem)
  /\ \A a : Pending(a) <=> Requested(promotionQueue, a) \/ Sought(workQueue, a)
BY DEF Queues, BothQueues, Pending, Requested, Sought

LEMMA AskStep ==
  ASSUME HubInv, NEW r \in Request, promotionQueue' = Queued(promotionQueue, r),
         UNCHANGED <<workQueue, waves>>, evidence' \in [Patch -> 0..2]
  PROVE  HubInv' /\ Leaving
<1>1. promotionQueue \in Kept200(Request) /\ workQueue \in Kept200(WorkItem)
  BY QueuesAre DEF HubInv
<1>2. /\ promotionQueue' \in Kept200(Request)
      /\ Len(promotionQueue') # QueueCap =>
           \A a : Requested(promotionQueue, a) => Requested(promotionQueue', a)
  BY <1>1, QueuedIs
<1>3. HubInv'
  BY <1>1, <1>2 DEF HubInv, NoParallelReview, Queues, BothQueues
<1>4. Leaving
  BY <1>2, QueuesAre DEF Leaving, Pending, Requested, Sought, CutNow
<1> QED BY <1>3, <1>4

LEMMA CompleteEvidenceStep ==
  ASSUME HubInv, NEW a \in Artifact, CompleteEvidence(a)
  PROVE  HubInv' /\ Leaving
<1> DEFINE I     == {i \in 1..Len(workQueue) : workQueue[i].kind = "promotion_evidence"
                                               /\ workQueue[i].art = a}
           first == SelectInSeq(workQueue, LAMBDA t : t.kind = "promotion_evidence" /\ t.art = a)
           r     == [art |-> a, stage |-> workQueue[first].stage, pid |-> a \in Proposed,
                     known |-> a \in Proposed, ready |-> TRUE]
<1>1. /\ promotionQueue \in Kept200(Request) /\ workQueue \in Kept200(WorkItem)
      /\ workQueue \in Seq(WorkItem) /\ Len(workQueue) <= QueueCap
  BY QueuesAre DEF HubInv, Kept200
<1>2. first \in I
  <2>1. first = IF I # {} THEN Min(I) ELSE 0
    BY DEF SelectInSeq
  <2>2. first # 0
    BY DEF CompleteEvidence
  <2>3. I \subseteq Nat
    BY <1>1
  <2> HIDE DEF first, I
  <2> QED BY <2>1, <2>2, <2>3, MinIs
<1>3. /\ promotionQueue' = Queued(promotionQueue, r) /\ workQueue' = RemoveAt(workQueue, first)
      /\ waves' = waves
  BY DEF CompleteEvidence
<1>4. evidence' \in [Patch -> 0..2]
  BY DEF CompleteEvidence, More, HubInv
<1> HIDE DEF first
<1>5. r \in Request
  <2>1. workQueue[first] \in WorkItem /\ workQueue[first].kind = "promotion_evidence"
    BY <1>1, <1>2
  <2>2. workQueue[first].stage \in Stage \cup ModuleStage
    BY <2>1 DEF WorkItem
  <2> QED BY <2>2 DEF Request
<1>6. /\ workQueue' \in Seq(WorkItem) /\ Len(workQueue') = Len(workQueue) - 1
      /\ \A i \in DOMAIN workQueue \ {first} : \E j \in DOMAIN workQueue' : workQueue'[j] = workQueue[i]
  <2>1. first \in DOMAIN workQueue
    BY <1>1, <1>2
  <2> QED BY <1>1, <1>3, <2>1, RemoveAtIs
<1>7. workQueue' \in Kept200(WorkItem)
  <2>1. Len(workQueue) \in Nat /\ Len(workQueue') \in Nat
    BY <1>1, <1>6
  <2> QED BY <1>1, <1>6, <2>1, HubAssumption DEF Kept200
<1> HIDE DEF r
<1>8. /\ promotionQueue' \in Kept200(Request)
      /\ Len(promotionQueue') # QueueCap =>
           /\ \A b : Requested(promotionQueue, b) => Requested(promotionQueue', b)
           /\ Requested(promotionQueue', r.art)
  BY <1>1, <1>3, <1>5, QueuedIs
<1>9. \A b : b # a /\ Sought(workQueue, b) => Sought(workQueue', b)
  <2> SUFFICES ASSUME NEW i \in DOMAIN workQueue, workQueue[i].kind = "promotion_evidence",
                      workQueue[i].art # a
               PROVE  Sought(workQueue', workQueue[i].art)
    BY DEF Sought
  <2>1. i # first
    BY <1>2
  <2>2. PICK j \in DOMAIN workQueue' : workQueue'[j] = workQueue[i]
    BY <1>6, <2>1
  <2> QED BY <2>2 DEF Sought
<1>10. r.art = a
  BY DEF r
<1>11. HubInv'
  BY <1>1, <1>3, <1>4, <1>7, <1>8 DEF HubInv, NoParallelReview, Queues, BothQueues
<1>12. ASSUME NEW b \in Artifact, Pending(b), ~CutNow PROVE Pending(b)'
  <2>1. Len(promotionQueue') # QueueCap
    BY <1>12 DEF CutNow
  <2>2. Requested(promotionQueue, b) \/ Sought(workQueue, b)
    BY <1>12, QueuesAre
  <2>3. Requested(promotionQueue', b) \/ Sought(workQueue', b)
    BY <1>8, <1>9, <1>10, <2>1, <2>2
  <2> QED BY <2>3 DEF Pending, Requested, Sought
<1>13. Leaving
  BY <1>12 DEF Leaving
<1> QED BY <1>11, <1>13

(* No step opens a wave again.                                             *)
LEMMA WavesKeep ==
  ASSUME HubInv, waves' \in Seq(Wave), Len(waves') = Len(waves),
         \A w \in DOMAIN waves : /\ waves'[w].items = waves[w].items
                                 /\ waves'[w].status = "open" => waves[w].status = "open"
  PROVE  NoParallelReview' /\ Len(waves') <= MaxWaves
<1>1. DOMAIN waves' = DOMAIN waves
  BY DEF HubInv
<1> QED BY <1>1 DEF HubInv, NoParallelReview

LEMMA CompleteWaveStep ==
  ASSUME HubInv, NEW w \in DOMAIN waves, CompleteWave(w)
  PROVE  HubInv' /\ Leaving
<1>1. waves \in Seq(Wave) /\ waves[w] \in Wave
  BY DEF HubInv
<1>2. waves' = [waves EXCEPT ![w].status = "completed"]
  BY DEF CompleteWave
<1>3. [waves[w] EXCEPT !.status = "completed"] \in Wave
  BY <1>1 DEF Wave
<1>4. waves' \in Seq(Wave) /\ Len(waves') = Len(waves)
  BY <1>1, <1>2, <1>3
<1>5. ASSUME NEW v \in DOMAIN waves
      PROVE  /\ waves'[v].items = waves[v].items
             /\ waves'[v].status = "open" => waves[v].status = "open"
  <2>1. waves[v] \in Wave
    BY <1>1
  <2>2. waves'[v] = IF v = w THEN [waves[v] EXCEPT !.status = "completed"] ELSE waves[v]
    BY <1>1, <1>2
  <2> QED BY <2>1, <2>2 DEF Wave
<1>6. NoParallelReview' /\ Len(waves') <= MaxWaves
  BY <1>4, <1>5, WavesKeep
<1>7. Queues' = Queues /\ evidence' = evidence /\ \A a : Pending(a)' <=> Pending(a)
  BY DEF CompleteWave, Queues, Pending
<1> QED BY <1>4, <1>6, <1>7 DEF HubInv, Leaving, BothQueues, Kept200

LEMMA SurfaceStep ==
  ASSUME HubInv, NEW w \in DOMAIN waves, NEW old \in BOOLEAN, NEW advice \in Advice(w, old),
         Surface(w, old, advice)
  PROVE  HubInv' /\ Leaving
<1>1. /\ waves \in Seq(Wave) /\ waves[w] \in Wave /\ w \in 1..MaxWaves
      /\ promotionQueue \in Kept200(Request) /\ workQueue \in Kept200(WorkItem)
  BY QueuesAre, HubAssumption DEF HubInv
<1>2. waves' = [waves EXCEPT ![w].surfaced = IF @ < 2 THEN @ + 1 ELSE @]
  BY DEF Surface
<1> DEFINE new == [waves[w] EXCEPT !.surfaced = IF @ < 2 THEN @ + 1 ELSE @]
<1>3. new \in Wave
  BY <1>1 DEF Wave
<1>4. waves' \in Seq(Wave) /\ Len(waves') = Len(waves)
  BY <1>1, <1>2, <1>3
<1>5. ASSUME NEW v \in DOMAIN waves
      PROVE  /\ waves'[v].items = waves[v].items
             /\ waves'[v].status = "open" => waves[v].status = "open"
  <2>1. waves[v] \in Wave
    BY <1>1
  <2>2. waves'[v] = IF v = w THEN [waves[v] EXCEPT !.surfaced = IF @ < 2 THEN @ + 1 ELSE @]
                    ELSE waves[v]
    BY <1>1, <1>2
  <2> QED BY <2>1, <2>2 DEF Wave
<1>6. NoParallelReview' /\ Len(waves') <= MaxWaves
  BY <1>4, <1>5, WavesKeep
<1>7. Resolution(w, advice) \in WorkItem
  <2>1. advice \in {"none", "wait", "auto_close", "auto_escalate"}
    BY DEF Advice
  <2>2. w \in 0..MaxWaves
    BY <1>1, HubAssumption
  <2> QED BY <2>1, <2>2 DEF Resolution, WorkItem
<1>8. workQueue' = Enqueue(workQueue, Resolution(w, advice)) /\ UNCHANGED <<promotionQueue, evidence>>
  BY DEF Surface
<1>9. /\ workQueue' \in Kept200(WorkItem)
      /\ Len(workQueue') # QueueCap => \A a : Sought(workQueue, a) => Sought(workQueue', a)
  BY <1>1, <1>7, <1>8, EnqueueIs
<1>10. HubInv'
  BY <1>1, <1>4, <1>6, <1>8, <1>9 DEF HubInv, Queues, BothQueues
<1>11. ASSUME NEW a, Pending(a), ~CutNow PROVE Pending(a)'
  <2>1. Requested(promotionQueue', a) \/ Sought(workQueue', a)
    BY <1>8, <1>9, <1>11, QueuesAre DEF CutNow
  <2> QED BY <2>1 DEF Pending, Requested, Sought
<1> QED BY <1>10, <1>11 DEF Leaving

LEMMA ResolveStep ==
  ASSUME HubInv, Resolve
  PROVE  HubInv' /\ Leaving
<1>1. /\ waves \in Seq(Wave)
      /\ promotionQueue \in Kept200(Request) /\ workQueue \in Kept200(WorkItem)
      /\ workQueue \in Seq(WorkItem) /\ Len(workQueue) <= QueueCap /\ Len(workQueue) \in Nat
  BY QueuesAre DEF HubInv, Kept200
<1> DEFINE Settled(w) == CASE w \in ResolvedBy("auto_close")    -> [waves[w] EXCEPT !.status = "auto_closed"]
                       [] w \in ResolvedBy("auto_escalate") -> [waves[w] EXCEPT !.status = "escalated"]
                       [] OTHER -> waves[w]
<1>2. waves' = [w \in DOMAIN waves |-> Settled(w)]
  BY DEF Resolve
<1>3. ASSUME NEW w \in DOMAIN waves
      PROVE  /\ Settled(w) \in Wave /\ Settled(w).items = waves[w].items
             /\ Settled(w).status = "open" => waves[w].status = "open"
  <2>1. waves[w] \in Wave
    BY <1>1
  <2>2. Settled(w) \in {[waves[w] EXCEPT !.status = "auto_closed"],
                    [waves[w] EXCEPT !.status = "escalated"], waves[w]}
    OBVIOUS
  <2> HIDE DEF Settled
  <2> QED BY <2>1, <2>2 DEF Wave
<1> HIDE DEF Settled
<1>4. waves' \in Seq(Wave) /\ Len(waves') = Len(waves)
  <2>1. DOMAIN waves = 1..Len(waves) /\ Len(waves) \in Nat
    BY <1>1
  <2>2. waves' \in [1..Len(waves) -> Wave]
    BY <1>2, <1>3, <2>1
  <2> QED BY <2>1, <2>2
<1>5. NoParallelReview' /\ Len(waves') <= MaxWaves
  <2>1. \A w \in DOMAIN waves : waves'[w] = Settled(w)
    BY <1>2
  <2> QED BY <1>3, <1>4, <2>1, WavesKeep
<1> DEFINE I == DOMAIN workQueue \ Followed
<1>6. workQueue' = Pick(workQueue, I) /\ UNCHANGED <<promotionQueue, evidence>>
  BY DEF Resolve, Kept
<1>7. /\ workQueue' \in Seq(WorkItem) /\ Len(workQueue') <= Len(workQueue)
      /\ \A i \in I : Rank(I, i) \in DOMAIN workQueue' /\ workQueue'[Rank(I, i)] = workQueue[i]
  <2>1. I \in SUBSET (DOMAIN workQueue)
    OBVIOUS
  <2> HIDE DEF I
  <2> QED BY <1>1, <1>6, <2>1, PickIs
<1>8. workQueue' \in Kept200(WorkItem)
  <2>1. Len(workQueue') \in Nat
    BY <1>7
  <2> QED BY <1>1, <1>7, <2>1, HubAssumption DEF Kept200
<1>9. ASSUME NEW i \in DOMAIN workQueue, workQueue[i].kind = "promotion_evidence"
      PROVE  i \in I
  <2>1. workQueue[i].advice = "none"
    <3>1. workQueue[i] \in WorkItem
      BY <1>1
    <3> QED BY <1>9, <3>1 DEF WorkItem
  <2> QED BY <2>1 DEF Followed
<1>10. ASSUME NEW a, Sought(workQueue, a) PROVE Sought(workQueue', a)
  <2>1. PICK i \in DOMAIN workQueue : workQueue[i].kind = "promotion_evidence" /\ workQueue[i].art = a
    BY <1>10 DEF Sought
  <2>2. i \in I
    BY <1>9, <2>1
  <2> HIDE DEF I
  <2>3. Rank(I, i) \in DOMAIN workQueue' /\ workQueue'[Rank(I, i)] = workQueue[i]
    BY <1>7, <2>2
  <2> QED BY <2>1, <2>3 DEF Sought
<1>11. HubInv'
  BY <1>1, <1>4, <1>5, <1>6, <1>8 DEF HubInv, Queues, BothQueues
<1>12. ASSUME NEW a, Pending(a) PROVE Pending(a)'
  <2>1. Requested(promotionQueue', a) \/ Sought(workQueue', a)
    BY <1>6, <1>10, <1>12, QueuesAre
  <2> QED BY <2>1 DEF Pending, Requested, Sought
<1> QED BY <1>11, <1>12 DEF Leaving

LEMMA ProcessQueueStep ==
  ASSUME HubInv, NEW mood \in Mood, NEW order \in Rankings(mood), ProcessQueue(order, mood)
  PROVE  HubInv' /\ Leaving
<1> DEFINE rows   == [i \in DOMAIN promotionQueue |-> promotionQueue[order[i]]]
           chosen == Selected(rows, mood)
           base   == MarkedReviewed(Queues, chosen)
           after  == AfterRows(rows, chosen, mood)
           keys   == {RowKey(r) : r \in chosen}
           wave   == [status |-> "open", items |-> keys, surfaced |-> 0]
<1>1. /\ Queues \in BothQueues /\ waves \in Seq(Wave) /\ NoParallelReview
      /\ promotionQueue \in Kept200(Request) /\ workQueue \in Kept200(WorkItem)
      /\ promotionQueue \in Seq(Request) /\ Len(promotionQueue) \in Nat
  BY QueuesAre DEF HubInv, Kept200
<1>2. rows \in [1..Len(promotionQueue) -> Request]
  <2>1. order \in [DOMAIN promotionQueue -> DOMAIN promotionQueue]
    BY DEF Rankings, Bijection, Injection
  <2> QED BY <1>1, <2>1
<1>3. /\ promotionQueue' = after.promotion /\ workQueue' = after.work /\ evidence' = evidence
      /\ waves' = IF chosen = {} THEN waves ELSE Append(waves, wave)
      /\ chosen # {} => Len(waves) < MaxWaves
  BY DEF ProcessQueue
<1> HIDE DEF rows
<1>4. \A r \in chosen : r \in Request /\ RowKey(r) \notin OpenKeys
  BY <1>1, <1>2, ChosenIs
<1> HIDE DEF chosen, after
<1>5. /\ base \in BothQueues
      /\ \A a : Waiting(Queues, a) => Waiting(base, a) \/ \E r \in chosen : r.art = a
  <2> DEFINE I == {i \in DOMAIN promotionQueue :
                     ~ \E r \in chosen : promotionQueue[i].art = r.art
                                         /\ (RowPid(r) => promotionQueue[i].pid)}
  <2>1. base = [promotion |-> Pick(promotionQueue, I), work |-> workQueue]
    BY DEF MarkedReviewed, Queues
  <2>2. I \in SUBSET (DOMAIN promotionQueue)
    OBVIOUS
  <2>3. \A i \in DOMAIN promotionQueue \ I : \E r \in chosen : r.art = promotionQueue[i].art
    OBVIOUS
  <2> HIDE DEF I, base
  <2>4. Pick(promotionQueue, I) \in Kept200(Request)
    <3>1. Pick(promotionQueue, I) \in Seq(Request) /\ Len(Pick(promotionQueue, I)) <= Len(promotionQueue)
      BY <1>1, <2>2, PickIs
    <3>2. Len(Pick(promotionQueue, I)) \in Nat /\ Len(promotionQueue) <= QueueCap
      BY <1>1, <3>1 DEF Kept200
    <3> QED BY <1>1, <3>1, <3>2, HubAssumption DEF Kept200
  <2>5. ASSUME NEW a, ~ \E r \in chosen : r.art = a, Requested(promotionQueue, a)
        PROVE  Requested(Pick(promotionQueue, I), a)
    <3>1. \A i \in DOMAIN promotionQueue \ I : promotionQueue[i].art # a
      BY <2>3, <2>5
    <3> QED BY <1>1, <2>2, <2>5, <3>1, Remaining
  <2>6. Queues.promotion = promotionQueue /\ Queues.work = workQueue
    BY DEF Queues
  <2> QED BY <1>1, <2>1, <2>4, <2>5, <2>6 DEF Waiting, BothQueues
<1>6. /\ after \in BothQueues
      /\ Len(workQueue) + Len(promotionQueue) <= QueueCap + 1 /\ Len(after.work) # QueueCap =>
           \A a : Waiting(base, a) => Waiting(after, a)
  BY <1>1, <1>2, <1>5, RowsAre DEF after
<1>7. Queues' \in BothQueues
  BY <1>3, <1>6 DEF Queues, BothQueues
<1>8. CASE chosen = {}
  <2>1. HubInv'
    BY <1>1, <1>3, <1>7, <1>8 DEF HubInv, NoParallelReview
  <2> HIDE DEF base
  <2>2. ASSUME NEW a, Pending(a), ~CutNow PROVE Pending(a)'
    <3>1. Waiting(Queues, a)
      BY <2>2, QueuesAre DEF Queues, Waiting
    <3>2. Waiting(base, a)
      BY <1>5, <1>8, <3>1
    <3>3. Len(workQueue) + Len(promotionQueue) <= QueueCap + 1 /\ Len(after.work) # QueueCap
      BY <1>1, <1>3, <2>2, HubAssumption DEF CutNow, Kept200
    <3>4. Waiting(after, a)
      BY <1>6, <3>2, <3>3
    <3> QED BY <1>3, <3>4 DEF Waiting, Pending, Requested, Sought
  <2> QED BY <2>1, <2>2 DEF Leaving
<1>9. CASE chosen # {}
  <2>1. wave \in Wave
    <3>1. keys \in SUBSET {RowKey(r) : r \in Request}
      BY <1>4
    <3> HIDE DEF keys
    <3> QED BY <3>1 DEF Wave
  <2>2. keys \cap OpenKeys = {}
    BY <1>4
  <2>3. \A r \in chosen : r.art \in {key[1] : key \in keys}
    <3>1. \A r : RowKey(r)[1] = r.art
      BY KeyNames DEF RowKey, StoredKey
    <3> QED BY <3>1
  <2> DEFINE n == Len(waves) + 1
  <2> HIDE DEF keys, base
  <2>4. /\ waves' \in Seq(Wave) /\ Len(waves') = n /\ waves'[n] = wave /\ n <= MaxWaves
        /\ \A w \in 1..Len(waves) : waves'[w] = waves[w]
        /\ DOMAIN waves' = 1..n /\ DOMAIN waves = 1..Len(waves) /\ Len(waves) \in Nat
    BY <1>1, <1>3, <1>9, <2>1, HubAssumption
  <2>5. ASSUME NEW w \in DOMAIN waves, waves[w].status = "open" PROVE waves[w].items \cap keys = {}
    BY <2>2, <2>5 DEF OpenKeys, OverForSelection
  <2>6. NoParallelReview'
    <3> SUFFICES ASSUME NEW v \in DOMAIN waves', NEW w \in DOMAIN waves', v # w,
                        waves'[v].status = "open", waves'[w].status = "open"
                 PROVE  waves'[v].items \cap waves'[w].items = {}
      BY DEF NoParallelReview
    <3>1. CASE v # n /\ w # n
      <4>1. v \in DOMAIN waves /\ w \in DOMAIN waves
        BY <2>4, <3>1
      <4> QED BY <1>1, <2>4, <4>1 DEF NoParallelReview
    <3>2. CASE v = n \/ w = n
      <4>1. wave.items = keys
        OBVIOUS
      <4> HIDE DEF wave, n
      <4>2. v = n => w \in DOMAIN waves
        BY <2>4 DEF n
      <4>3. w = n => v \in DOMAIN waves
        BY <2>4 DEF n
      <4> QED BY <2>4, <2>5, <3>2, <4>1, <4>2, <4>3
    <3> QED BY <3>1, <3>2
  <2>7. HubInv'
    BY <1>1, <1>3, <1>7, <2>4, <2>6 DEF HubInv
  <2>8. ASSUME NEW a, Pending(a), ~CutNow, ~Pending(a)'
        PROVE  Len(waves') > Len(waves) /\ a \in ArtsOf(waves'[Len(waves')])
    <3>1. Waiting(Queues, a)
      BY <2>8, QueuesAre DEF Queues, Waiting
    <3>2. Len(workQueue) + Len(promotionQueue) <= QueueCap + 1 /\ Len(after.work) # QueueCap
      BY <1>1, <1>3, <2>8, HubAssumption DEF CutNow, Kept200
    <3>3. ~Waiting(after, a)
      BY <1>3, <2>8 DEF Waiting, Pending, Requested, Sought
    <3>4. \E r \in chosen : r.art = a
      BY <1>5, <1>6, <3>1, <3>2, <3>3
    <3>5. a \in ArtsOf(wave)
      BY <2>3, <3>4 DEF ArtsOf
    <3> QED BY <2>4, <3>5
  <2> QED BY <2>7, <2>8 DEF Leaving
<1> QED BY <1>8, <1>9

LEMMA HubInit == HInit => HubInv
<1> SUFFICES ASSUME HInit PROVE HubInv
  OBVIOUS
<1>1. <<>> \in Kept200(Request) /\ <<>> \in Kept200(WorkItem) /\ <<>> \in Seq(Wave)
  BY HubAssumption DEF Kept200
<1>2. waves = <<>> /\ Len(waves) = 0 /\ DOMAIN waves = {}
  BY DEF HInit
<1> QED BY <1>1, <1>2, HubAssumption DEF HInit, HubInv, NoParallelReview, Queues, BothQueues

LEMMA HubStep == HubInv /\ HNext => HubInv' /\ Leaving
<1> SUFFICES ASSUME HubInv, HNext PROVE HubInv' /\ Leaving
  OBVIOUS
<1>1. ASSUME NEW p \in Patch, NEW stage \in Stage, AskPatch(p, stage) PROVE HubInv' /\ Leaving
  <2> DEFINE r == [art |-> p, stage |-> stage, pid |-> FALSE, known |-> FALSE, ready |-> FALSE]
  <2>1. r \in Request
    BY DEF Request, Artifact
  <2>2. evidence' \in [Patch -> 0..2]
    BY <1>1 DEF AskPatch, More, HubInv
  <2>3. promotionQueue' = Queued(promotionQueue, r) /\ UNCHANGED <<workQueue, waves>>
    BY <1>1 DEF AskPatch
  <2> HIDE DEF r
  <2> QED BY <2>1, <2>2, <2>3, AskStep
<1>2. ASSUME NEW m \in HubModule, NEW stage \in ModuleStage, NEW pid \in BOOLEAN,
             AskModule(m, stage, pid)
      PROVE  HubInv' /\ Leaving
  <2> DEFINE r == [art |-> m, stage |-> stage, pid |-> pid, known |-> FALSE, ready |-> FALSE]
  <2>1. r \in Request
    BY DEF Request, Artifact
  <2>2. evidence' \in [Patch -> 0..2]
    BY <1>2 DEF AskModule, HubInv
  <2>3. promotionQueue' = Queued(promotionQueue, r) /\ UNCHANGED <<workQueue, waves>>
    BY <1>2 DEF AskModule
  <2> HIDE DEF r
  <2> QED BY <2>1, <2>2, <2>3, AskStep
<1>3. ASSUME NEW mood \in Mood, NEW order \in Rankings(mood), ProcessQueue(order, mood)
      PROVE  HubInv' /\ Leaving
  BY <1>3, ProcessQueueStep
<1>4. ASSUME NEW a \in Artifact, CompleteEvidence(a) PROVE HubInv' /\ Leaving
  BY <1>4, CompleteEvidenceStep
<1>5. ASSUME NEW w \in DOMAIN waves, CompleteWave(w) PROVE HubInv' /\ Leaving
  BY <1>5, CompleteWaveStep
<1>6. ASSUME NEW w \in DOMAIN waves, NEW old \in BOOLEAN, NEW advice \in Advice(w, old),
             Surface(w, old, advice)
      PROVE  HubInv' /\ Leaving
  BY <1>6, SurfaceStep
<1>7. CASE Resolve
  BY <1>7, ResolveStep
<1>8. CASE HubRevert
  <2>1. promotionQueue' = <<>> /\ workQueue' = <<>> /\ UNCHANGED <<waves, evidence>>
    BY <1>8 DEF HubRevert
  <2>2. <<>> \in Kept200(Request) /\ <<>> \in Kept200(WorkItem)
    BY HubAssumption DEF Kept200
  <2> QED BY <2>1, <2>2 DEF HubInv, NoParallelReview, Queues, BothQueues, Leaving
<1> QED BY <1>1, <1>2, <1>3, <1>4, <1>5, <1>6, <1>7, <1>8 DEF HNext

LEMMA HubTypes == HubInv => HTypeOK /\ NoParallelReview
<1> SUFFICES ASSUME HubInv PROVE HTypeOK
  BY DEF HubInv
<1>1. promotionQueue \in Kept200(Request) /\ workQueue \in Kept200(WorkItem)
  BY QueuesAre DEF HubInv
<1> DEFINE T == [kind : {"promotion_evidence", "promotion_cooldown_tracking",
                         "review_wave_resolution"},
                 art : Artifact \cup {NoWave}, stage : Stage \cup ModuleStage \cup {"none"},
                 known : BOOLEAN, wave : 0..MaxWaves,
                 advice : {"none", "wait", "auto_close", "auto_escalate"}]
<1>2. workQueue \in Seq(T)
  <2>1. WorkItem \subseteq T
    BY DEF WorkItem
  <2>2. \A i \in DOMAIN workQueue : workQueue[i] \in T
    <3> HIDE DEF T
    <3> QED BY <1>1, <2>1 DEF Kept200
  <2> HIDE DEF T
  <2> QED BY <1>1, <2>2 DEF Kept200
<1>3. HTypeOK <=> /\ promotionQueue \in Seq(Request) /\ Len(promotionQueue) <= QueueCap
                  /\ workQueue \in Seq(T) /\ Len(workQueue) <= QueueCap
                  /\ waves \in Seq(Wave) /\ Len(waves) <= MaxWaves
                  /\ evidence \in [Patch -> 0..2]
  BY DEF HTypeOK
<1> HIDE DEF T
<1> QED BY <1>1, <1>2, <1>3 DEF Kept200, HubInv

(* At every moment the hub's queues hold requests and tasks within their   *)
(* limits and no artifact key is in two open waves (select_hub_review_wave *)
(* and all that follows it), for every set of artifacts and every limit.   *)
THEOREM WavesAreDisjoint == HSpec => [](HTypeOK /\ NoParallelReview)
<1>1. HubInv /\ [HNext]_hvars => HubInv'
  <2> SUFFICES ASSUME HubInv, UNCHANGED hvars PROVE HubInv'
    BY HubStep
  <2> QED BY DEF hvars, HubInv, NoParallelReview, Queues, BothQueues
<1> QED BY <1>1, HubInit, HubTypes, PTL DEF HSpec

(* A request leaves both queues through a review wave only, unless a queue *)
(* may have been cut or the hub was reverted.                              *)
THEOREM RequestsLeaveThroughWaves == HSpec => LeavesThroughWave
<1>1. HubInv /\ [HNext]_hvars => HubInv'
  <2> SUFFICES ASSUME HubInv, UNCHANGED hvars PROVE HubInv'
    BY HubStep
  <2> QED BY DEF hvars, HubInv, NoParallelReview, Queues, BothQueues
<1>2. HubInv /\ [HNext]_hvars => [Leaving]_hvars
  BY HubStep
<1> QED BY <1>1, <1>2, HubInit, PTL DEF HSpec, LeavesThroughWave, Leaving
-----------------------------------------------------------------------------
(* All services side by side.                                              *)

(* Whatever runs, each service takes a step of its own or rests.           *)
LEMMA ServicesApart ==
  ServicesSpec => RSpec /\ ESpec /\ AccessSpec /\ DSpec /\ HSpec /\ BSpec
<1>1. ServicesInit => RInit /\ EInit /\ AccessInit /\ DInit /\ HInit /\ BInit
  BY DEF ServicesInit
<1>2. ASSUME [ServicesNext]_servicevars
      PROVE  /\ [RNext]_rvars /\ [ENext]_evars /\ [AccessNext]_accessvars
             /\ [DNext]_dvars /\ [HNext]_hvars /\ [BNext]_bvars
  <2>1. CASE UNCHANGED servicevars
    BY <2>1 DEF servicevars
  <2>2. CASE ServicesNext
    BY <2>2 DEF ServicesNext, Only
  <2> QED BY <1>2, <2>1, <2>2
<1> QED BY <1>1, <1>2, PTL DEF ServicesSpec, RSpec, ESpec, AccessSpec, DSpec, HSpec, BSpec

(* In every behaviour the run of the services explores each of them keeps  *)
(* its types and its limits.                                               *)
THEOREM ServicesTyped == ServicesSpec => []ServicesTypeOK
<1>1. ServicesInit => part \in Parts
  BY DEF ServicesInit
<1>2. part \in Parts /\ [ServicesNext]_servicevars => (part \in Parts)'
  BY DEF ServicesNext, Only, servicevars
<1>3. /\ part \in Parts /\ RTypeOK /\ ETypeOK /\ AccessTypeOK /\ DTypeOK /\ HTypeOK /\ BTypeOK
      => ServicesTypeOK
  BY DEF ServicesTypeOK, Parts
<1> QED BY <1>1, <1>2, <1>3, ServicesApart, RegistryTyped, MemoryOnce, ToolsTyped,
           DelegationTyped, WavesAreDisjoint, SnapshotsBounded, PTL DEF ServicesSpec
=================================================================================
