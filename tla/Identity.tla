------------------------------ MODULE Identity ------------------------------
(***************************************************************************)
(* When do two memories contradict each other?  hott/memory_identity.py    *)
(* asks first whether they are about the same thing, dimension by          *)
(* dimension, and only then compares what they say of it.                  *)
(***************************************************************************)
EXTENDS Evidence, Sequences

CONSTANTS
  Referents,  \* records [subject, version, test, environment, time_band]
  Opinions,   \* evidence [t, f] a memory carries
  MaxNotes    \* bound: memories compared

ASSUME IdentityAssumption == Opinions \subseteq [t : Grade, f : Grade] /\ MaxNotes \in Nat

VARIABLE notes \* memories handed to find_genuine_conflicts, in order
-----------------------------------------------------------------------------
Primary   == {"subject", "version", "test"}
Secondary == {"environment", "time_band"}
Weight    == [subject |-> 40, version |-> 30, test |-> 20, environment |-> 5, time_band |-> 5]
Penalty   == 65

Spoken(r, s, dims)    == {d \in dims : r[d] # "" /\ s[d] # ""}
Shared(r, s, dims)    == {d \in Spoken(r, s, dims) : r[d] = s[d]}
Disagreed(r, s, dims) == Spoken(r, s, dims) \ Shared(r, s, dims)

(* What the dimensions in dims support.                                    *)
TotalWeight(dims) == MapThenSumSet(LAMBDA d : Weight[d], dims)

(* identity_path: equal referents are identified outright, also two that   *)
(* name nothing at all.                                                    *)
(* Variant: a version that differs is only missing support.                *)
IdentityPathLoose(r, s) ==
  IF r = s THEN Certain
  ELSE BV(TotalWeight(Shared(r, s, Primary \cup Secondary)),
          IF Disagreed(r, s, Primary \ {"version"}) = {} THEN 0 ELSE Penalty)

IdentityPath(r, s) ==
  IF r = s THEN Certain
  ELSE BV(TotalWeight(Shared(r, s, Primary \cup Secondary)),
          IF Disagreed(r, s, Primary) = {} THEN 0 ELSE Penalty)

(* classify_pair.                                                          *)
ConflictOf(a, b)  == Greatest(Least(a.t, b.f), Least(b.t, a.f))
AgreementOf(a, b) == Greatest(Least(a.t, b.t), Least(a.f, b.f))

Diagnosis(m, n) ==
  LET class    == ClassOf(IdentityPath(m.about, n.about))
      conflict == ConflictOf(m.says, n.says)
  IN
  CASE class = "B" -> "different_object"
    [] class = "K" -> "ambiguous_identification"
    [] class = "G" -> "insufficient_info"
    [] OTHER -> IF conflict >= Theta /\ conflict > AgreementOf(m.says, n.says)
                THEN "same_object_conflict" ELSE "same_object_agree"
-----------------------------------------------------------------------------
Note == [about : Referents, says : Opinions]

IInit == notes = <<>>
AddNote(m) == Len(notes) < MaxNotes /\ notes' = Append(notes, m)
INext == \E m \in Note : AddNote(m)
ISpec == IInit /\ [][INext]_notes

ITypeOK == notes \in Seq(Note) /\ Len(notes) <= MaxNotes

(* find_genuine_conflicts.                                                 *)
Conflicts == {p \in (DOMAIN notes) \X (DOMAIN notes) :
                /\ p[1] < p[2]
                /\ Diagnosis(notes[p[1]], notes[p[2]]) = "same_object_conflict"}

(* A conflict is never one of memories that disagree about what they are   *)
(* about, each of the two finds the other, and a third memory of the same  *)
(* referent and opinion as one of them finds it too.                       *)
ConflictsGenuine ==
  \A p \in Conflicts :
    LET m == notes[p[1]]  n == notes[p[2]] IN
    /\ Disagreed(m.about, n.about, Primary) = {}
    /\ Diagnosis(n, m) = "same_object_conflict"
    /\ \A i \in DOMAIN notes \ {p[1], p[2]} :
         notes[i] = n => <<Least(p[1], i), Greatest(p[1], i)>> \in Conflicts
=============================================================================
