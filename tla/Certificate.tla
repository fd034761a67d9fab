----------------------------- MODULE Certificate ----------------------------
(***************************************************************************)
(* Proof-carrying patches (hott/patch_certificates.py): a patch takes the  *)
(* kernel from one state to another and is certified by probes, each a     *)
(* fingerprint of an invariant before and after.  A state is the value of  *)
(* every invariant and how its probe fares there: it computes the value,   *)
(* it raises, or, as the built-in probes do, it catches its exception and  *)
(* returns one error value ("error", "nostate", "uninitialized") whatever  *)
(* the value is.                                                           *)
(***************************************************************************)
EXTENDS FiniteSets

CONSTANTS
  Protected,   \* protected invariants
  Watched,     \* invariants that are only watched
  Value,       \* their values
  ErrorValue   \* what a probe returns that could not compute one

ASSUME CertificateAssumption == Protected \cap Watched = {} /\ ErrorValue \notin Value

VARIABLES
  start,   \* the state certified patches were first applied to
  now,     \* the state they led to
  verdicts \* verdicts given so far

xvars == <<start, now, verdicts>>
-----------------------------------------------------------------------------
Invariants  == Protected \cup Watched
Probing     == {"computes", "raises", "errs"}
KernelState == [Invariants -> [is : Value, probe : Probing]]

(* InvariantValue.fingerprint, where the probe does not raise.             *)
FingerprintOf(x) == IF x.probe = "computes" THEN x.is ELSE ErrorValue

RaisesAt(i, s) == s[i].probe = "raises"

(* The class of one probe's witness.  Variant: what a raising probe leaves *)
(* is compared like a value.                                               *)
WitnessOfEqual(i, s, t) ==
  IF FingerprintOf(s[i]) = FingerprintOf(t[i]) THEN "A"
  ELSE IF i \in Protected THEN "B" ELSE "G"

Witness(i, s, t) ==
  IF RaisesAt(i, s) \/ RaisesAt(i, t) THEN "B"
  ELSE IF FingerprintOf(s[i]) = FingerprintOf(t[i]) THEN "A"
  ELSE IF i \in Protected THEN "B" ELSE "G"

(* certify_patch: a watched invariant whose probe raised is not mentioned. *)
Verdict(s, t) ==
  IF \E i \in Protected : Witness(i, s, t) = "B" THEN "block_refuted"
  ELSE IF \E i \in Invariants : Witness(i, s, t) = "G" THEN "warn" ELSE "pass"

Accepted(s, t) == Verdict(s, t) \in {"pass", "warn"}
-----------------------------------------------------------------------------
XInit == start \in KernelState /\ now = start /\ verdicts = {}

Certify(t) ==
  /\ verdicts' = verdicts \cup {Verdict(now, t)}
  /\ now' = IF Accepted(now, t) THEN t ELSE now
  /\ UNCHANGED start

XNext == \E t \in KernelState : Certify(t)
XSpec == XInit /\ [][XNext]_xvars

XTypeOK == now \in KernelState /\ verdicts \subseteq {"pass", "warn", "block_refuted"}

(* Along any chain of certified patches a protected invariant that was    *)
(* computed at the start is computed still and has not moved, one whose    *)
(* probe gave an error value gives it still, and nothing is certified      *)
(* while the probe of a protected one raises.  Of an invariant behind an   *)
(* error value nothing is said: it may move unseen, and the patch passes.  *)
ProtectedKept == \A i \in Protected :
  /\ start[i].probe = "computes" => now[i] = start[i]
  /\ start[i].probe = "errs" => now[i].probe = "errs"
  /\ RaisesAt(i, start) => verdicts \subseteq {"block_refuted"}
=============================================================================
