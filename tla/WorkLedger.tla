----------------------------- MODULE WorkLedger -----------------------------
(***************************************************************************)
(* What the kernel promises of the goals it hands out, wherever it is      *)
(* written down: a goal is handed once, to one worker who has room for it, *)
(* and stays that worker's; once it has ended it is not begun again.  Of   *)
(* the ledger there is a copy, made before or after a goal is handed over  *)
(* and never in the middle of it, and a restart returns to the copy as a   *)
(* whole: only that takes an ending back.                                  *)
(***************************************************************************)
EXTENDS Integers, FiniteSets, Sequences

CONSTANTS Worker, Goal, Capacity

VARIABLES ledger, copy
lvars == <<ledger, copy>>

Under(k)  == [status |-> "active", target |-> k]
LoadOf(k) == Cardinality({g \in DOMAIN ledger : ledger[g] = Under(k)})

LInit == ledger = <<>> /\ copy = <<>>

Handed(k) ==
  /\ LoadOf(k) < Capacity /\ Len(ledger) + 1 \in Goal
  /\ ledger' = Append(ledger, Under(k))
  /\ copy' \in {copy, ledger, ledger'}

Ended(g, how) ==
  /\ ledger' = [ledger EXCEPT ![g].status = how]
  /\ copy' \in {copy, ledger'}

Copied == copy' = ledger /\ UNCHANGED ledger

Returned == ledger' = copy /\ UNCHANGED copy

LNext ==
  \/ \E k \in Worker : Handed(k)
  \/ \E g \in DOMAIN ledger, how \in {"completed", "failed"} : Ended(g, how)
  \/ Copied
  \/ Returned

LSpec == LInit /\ [][LNext]_lvars
=============================================================================
