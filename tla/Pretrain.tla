------------------------------ MODULE Pretrain ------------------------------
(***************************************************************************)
(* The training loop of training/pretrain.py: gradient accumulation, the   *)
(* step, the divergence guard with its snapshots in memory, the checkpoint *)
(* at the end and a run resumed from it (neural/checkpointing.py).         *)
(*                                                                         *)
(* Of the numbers the model keeps whether they are finite: "sound" or      *)
(* "broken".  The check of the last 100 losses at every 50th step rolls    *)
(* back only for a last loss that is not finite, which the guard before it *)
(* has dealt with: it is left out.  Runs are with abort_on_divergence, the *)
(* default, and without a limit of steps or with one.                      *)
(***************************************************************************)
EXTENDS Integers, FiniteSets, Sequences, SequencesExt

CONSTANTS
  Batches,       \* microbatches of an epoch
  Epochs,
  Accum,         \* grad_accum_steps
  MaxSteps,      \* limit of steps, 0 for none
  SnapshotEvery, \* snapshot_every_steps, 0 for none
  Reinitializes, \* has the optimizer a _state_initialized to reset?
  MaxRuns        \* bound: runs, each resumed from the one before

ASSUME PretrainAssumption ==
  /\ {Batches, Epochs, Accum, MaxRuns} \subseteq Nat \ {0}
  /\ {MaxSteps, SnapshotEvery} \subseteq Nat /\ Reinitializes \in BOOLEAN

VARIABLES
  run, epoch, batch, \* the microbatch to come
  grads,      \* p.grad: [of |-> sequence of microbatches, health]
  accum,      \* accum_count
  lossHealth, \* of accum_loss_sum
  steps,      \* total_steps_run
  weights, moments, \* of the model and of the optimizer
  snapshots,  \* weights kept, the newest last
  saved,      \* the checkpoint
  entered     \* history: for every step the microbatches that made it

pvars == <<run, epoch, batch, grads, accum, lossHealth, steps, weights, moments,
           snapshots, saved, entered>>
-----------------------------------------------------------------------------
Health       == {"sound", "broken"}
Worst(hs)    == IF "broken" \in hs THEN "broken" ELSE "sound"
NoGrads      == [of |-> <<>>, health |-> "sound"]
Micro        == Epochs * Batches
ThisMicro    == (epoch - 1) * Batches + batch

PTTypeOK ==
  /\ run \in 1..MaxRuns /\ epoch \in 1..(Epochs + 1) /\ batch \in 1..(Batches + 1)
  /\ grads.of \in Seq(1..Micro) /\ grads.health \in Health
  /\ accum \in 0..(Accum - 1) /\ lossHealth \in Health /\ steps \in 0..Micro
  /\ {weights, moments} \subseteq Health
  /\ snapshots \in Seq(Health) /\ Len(snapshots) \in 1..3
  /\ saved \in [weights : Health, moments : Health]

PTInit ==
  /\ run = 1 /\ epoch = 1 /\ batch = 1 /\ grads = NoGrads
  /\ accum = 0 /\ lossHealth = "sound" /\ steps = 0
  /\ weights = "sound" /\ moments = "sound" /\ snapshots = <<"sound">>
  /\ saved = [weights |-> "sound", moments |-> "sound"]
  /\ entered = <<>>

(* The next run, from the checkpoint: weights and optimizer are as saved,  *)
(* the position in the data and the count of steps start anew.             *)
NextRun(checkpoint) ==
  /\ run < MaxRuns /\ run' = run + 1
  /\ epoch' = 1 /\ batch' = 1 /\ grads' = NoGrads /\ accum' = 0 /\ lossHealth' = "sound"
  /\ steps' = 0 /\ weights' = checkpoint.weights /\ moments' = checkpoint.moments
  /\ snapshots' = <<checkpoint.weights>> /\ saved' = checkpoint
  /\ entered' = <<>>

Limited == MaxSteps > 0 /\ steps >= MaxSteps
Running == epoch <= Epochs /\ batch <= Batches /\ ~Limited
-----------------------------------------------------------------------------
(* _apply_grads: what is broken spreads to the moments and by them to the  *)
(* weights (clipping divides by the norm, so it mends nothing).            *)
Optimized(g) == [weights |-> Worst({weights, moments, g.health}),
             moments |-> Worst({moments, g.health})]

(* _ensure_state makes the moments anew.                                   *)
NewMoments == "sound"

(* The gradients are used up.  Variant: they are left for the next step.   *)
UsedKept(g) == g
Used(g)     == NoGrads

Snapshots(w) ==
  IF SnapshotEvery > 0 /\ steps' % SnapshotEvery = 0
  THEN LET longer == Append(snapshots, w) IN IF Len(longer) > 3 THEN Tail(longer) ELSE longer
  ELSE snapshots

(* _rollback: the newest snapshot, and the optimizer's state made anew if  *)
(* it can be.                                                              *)
Rollback(moved) ==
  /\ weights' = Last(snapshots)
  /\ moments' = IF Reinitializes THEN NewMoments ELSE moved
  /\ UNCHANGED snapshots

(* The gradients g make a step, guarded against a loss that is not finite. *)
Step(g, loss, guarded) ==
  /\ steps' = steps + 1 /\ entered' = Append(entered, g.of)
  /\ grads' = Used(g) /\ accum' = 0 /\ lossHealth' = "sound"
  /\ IF guarded /\ loss = "broken" THEN Rollback(Optimized(g).moments)
     ELSE /\ weights' = Optimized(g).weights /\ moments' = Optimized(g).moments
          /\ snapshots' = IF guarded THEN Snapshots(weights') ELSE snapshots

(* One microbatch.  Broken weights give a broken loss; a broken loss, and  *)
(* sometimes one that is finite, gives broken gradients.  An exception     *)
(* skips it, and when it strikes inside backward() part of the gradients   *)
(* is there already.                                                       *)
Outcomes == {[loss |-> l, grad |-> g] : l \in {weights, "broken"}, g \in Health}

Microbatch(out) ==
  LET g == [of |-> Append(grads.of, ThisMicro), health |-> Worst({grads.health, out.grad})]
      l == Worst({lossHealth, out.loss})
  IN
  /\ Running /\ (out.loss = "broken" => out.grad = "broken")
  /\ batch' = batch + 1
  /\ IF accum + 1 < Accum
     THEN /\ grads' = g /\ accum' = accum + 1 /\ lossHealth' = l
          /\ UNCHANGED <<steps, weights, moments, snapshots, entered>>
     ELSE Step(g, l, TRUE)
  /\ UNCHANGED <<run, epoch, saved>>

Skip(health, inBackward) ==
  /\ Running /\ batch' = batch + 1
  /\ grads' = IF inBackward
              THEN [of |-> Append(grads.of, ThisMicro),
                    health |-> Worst({grads.health, health})]
              ELSE grads
  /\ UNCHANGED <<run, epoch, accum, lossHealth, steps, weights, moments, snapshots,
                 saved, entered>>

(* The end of an epoch: what was accumulated makes a step of its own, that *)
(* no guard looks at, unless the limit is reached; the next epoch begins   *)
(* without gradients.                                                      *)
EndEpoch ==
  /\ epoch <= Epochs /\ ~Running
  /\ epoch' = epoch + 1 /\ batch' = 1
  /\ IF accum > 0 /\ ~Limited
     THEN Step(grads, lossHealth, FALSE)
     ELSE /\ grads' = NoGrads /\ accum' = 0 /\ lossHealth' = "sound"
          /\ UNCHANGED <<steps, weights, moments, snapshots, entered>>
  /\ UNCHANGED <<run, saved>>

(* The checkpoint is written at the end, whatever the weights are; a run   *)
(* may also be killed on the way.                                          *)
SaveAndResume == epoch > Epochs /\ NextRun([weights |-> weights, moments |-> moments])
Killed        == epoch <= Epochs /\ NextRun(saved)

PTNext == \/ \E out \in Outcomes : Microbatch(out)
          \/ \E h \in Health, inBackward \in BOOLEAN : Skip(h, inBackward)
          \/ EndEpoch \/ SaveAndResume \/ Killed
PTSpec == PTInit /\ [][PTNext]_pvars
-----------------------------------------------------------------------------
(* The gradient of a microbatch makes at most one step of its run, one of  *)
(* its own epoch, whatever was skipped, failed halfway, or was cut off by  *)
(* the limit of steps.                                                     *)
StepsDisjoint ==
  \A i \in DOMAIN entered :
    /\ \A j \in DOMAIN entered \ {i} : ToSet(entered[i]) \cap ToSet(entered[j]) = {}
    /\ \A a, b \in ToSet(entered[i]) : (a - 1) \div Batches = (b - 1) \div Batches
=============================================================================
