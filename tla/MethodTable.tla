---------------------------- MODULE MethodTable ----------------------------
(***************************************************************************)
(* What patch governance promises about the kernel class, whatever goes on *)
(* in the ladder: a method changes only when sound code that accepts every *)
(* present call is bound to it, when the function saved at the first       *)
(* override is put back, or when the process starts again with the class   *)
(* as it was written.                                                      *)
(***************************************************************************)
EXTENDS Integers

CONSTANTS Code, NoCode, Baseline, Target, BaseArity, Unified, Info

VARIABLES live, saved
mvars == <<live, saved>>

Written  == [t \in Target |-> IF t \in DOMAIN BaseArity THEN Baseline ELSE NoCode]
NotSaved == [t \in Target |-> NoCode]

MInit == live = Written /\ saved = NotSaved

Arity(b, t) == IF b \in Code THEN Info[b].arity ELSE BaseArity[t]

(* c may be bound over b.                                                  *)
Replaces(c, b) ==
  /\ Info[c].loads /\ Info[c].defines \in Unified
  /\ b # NoCode => Info[c].arity <= Arity(b, Info[c].defines)

Override(c) ==
  LET t == Info[c].defines IN
  /\ Replaces(c, live[t])
  /\ live' = [live EXCEPT ![t] = c]
  /\ saved' = IF saved[t] = NoCode THEN [saved EXCEPT ![t] = live[t]] ELSE saved

Restore(t) ==
  /\ saved[t] # NoCode
  /\ live' = [live EXCEPT ![t] = saved[t]]
  /\ UNCHANGED saved

Reboot == live' = Written /\ saved' = NotSaved

MNext == (\E c \in Code : Override(c)) \/ (\E t \in Target : Restore(t)) \/ Reboot

MSpec == MInit /\ [][MNext]_mvars
=============================================================================
