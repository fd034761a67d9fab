------------------------------- MODULE Corpus -------------------------------
(***************************************************************************)
(* The training corpus: what the kernel records, the live stream of shards *)
(* it is written to, the export on command, and the training of the live   *)
(* shadow model on the stream (training/, and the commands and hooks of    *)
(* kernel/kernel.py).  A TRAIN_FROM_CORPUS blocks the main loop: nothing   *)
(* is recorded while it runs.                                              *)
(*                                                                         *)
(* An observation is a record with its identifier, and whether it tells of *)
(* a success.  Of the two masses of an example the model keeps hundredths; *)
(* its text is left out, and with it the chunks.                           *)
(***************************************************************************)
EXTENDS Integers, FiniteSets, Sequences, SequencesExt, Selections

CONSTANTS
  Observation,  \* records: [id, kind, ok]
  LiveCap,      \* records of a kind the kernel keeps
  ShardSize,    \* examples of a shard
  ExplicitVal,  \* does the directory hold a val_ shard?
  Shuffled(_),  \* Random(1234).shuffle(range(n)), counted from 1
  MaxRecords, MaxRestarts, MaxTrainings \* bounds

Lists == {"packet", "gate_decision", "module_proposal", "wave_resolution", "wave_escalation"}
Kinds == Lists \cup {"status"} \* status packets: kept, but no examples
ListOf(o) == IF o.kind = "status" THEN "packet" ELSE o.kind

ASSUME CorpusAssumption ==
  /\ \A o \in Observation : o.kind \in Kinds /\ o.ok \in BOOLEAN
  /\ {LiveCap, ShardSize} \subseteq Nat \ {0} /\ ExplicitVal \in BOOLEAN
  /\ {MaxRecords, MaxRestarts, MaxTrainings} \subseteq Nat
  /\ \A n \in 1..(MaxRecords + MaxRestarts + 2) : ToSet(Shuffled(n)) = 1..n

VARIABLES
  live,      \* the lists of the running kernel, oldest first
  stream,    \* shards of the stream, the last one open
  count,     \* _current_shard_count
  corpus,    \* shards of the export directory
  trained, evaluated, \* lines the live model was trained on, was last evaluated on
  recorded, restarts, trainings, \* counts, for the bounds
  written    \* history: what was written to the stream

corpusvars == <<live, stream, count, corpus, trained, evaluated, recorded, restarts,
                trainings, written>>
-----------------------------------------------------------------------------
Lineages(s) == {s[i].lineage : i \in DOMAIN s}
ValLine     == <<0, 1>>

Example(lineage, t, f) == [lineage |-> lineage, t |-> t, f |-> f]

(* A packet main accepted; a proposal approved or promoted; a wave closed, *)
(* which an escalated one is not.  A gate's answer tells of an advance     *)
(* whatever it was: a refusal would need the word "blocked" in its reason, *)
(* which no gate puts there.                                               *)
PacketExample(o) ==
  Example(<<"pkt", o.id>>, IF o.ok THEN 100 ELSE 50, IF o.ok THEN 0 ELSE 30)

GateExample(o) == Example(<<"gate", o.id, o.ok>>, 80, 10)

ProposalExample(o) ==
  Example(<<"mod", o.id>>, IF o.ok THEN 90 ELSE 30, IF o.ok THEN 5 ELSE 55)

WaveExample(o) ==
  LET closed == o.ok /\ o.kind = "wave_resolution"
  IN Example(<<o.kind, o.id>>, IF closed THEN 80 ELSE 40, IF closed THEN 10 ELSE 50)

ExampleOf(o) == CASE o.kind = "packet"          -> PacketExample(o)
                  [] o.kind = "gate_decision"   -> GateExample(o)
                  [] o.kind = "module_proposal" -> ProposalExample(o)
                  [] o.kind \in {"wave_resolution", "wave_escalation"} -> WaveExample(o)

Possible == {ExampleOf(o) : o \in {x \in Observation : x.kind # "status"}}

CorpusTypeOK ==
  /\ \A k \in Lists : live[k] \in Seq(Observation) /\ Len(live[k]) <= LiveCap
  /\ stream \in Seq(Seq(Possible)) /\ stream # <<>> /\ count \in 0..(ShardSize - 1)
  /\ \A i \in DOMAIN corpus : Len(corpus[i]) \in 1..ShardSize
  /\ trained \cup evaluated \subseteq (1..Len(stream)) \X (1..ShardSize) \cup {ValLine}

CorpusInit ==
  /\ live = [k \in Lists |-> <<>>] /\ stream = << <<>> >> /\ count = 0
  /\ corpus = <<>>
  /\ trained = {} /\ evaluated = {} /\ recorded = 0 /\ restarts = 0 /\ trainings = 0
  /\ written = <<>>

(* A record joins its list.  Its example, which status packets have none   *)
(* of, joins the open shard unless writing fails, which nobody learns of;  *)
(* a full shard is closed and the next one opened.                         *)
Kept(s) == IF Len(s) > LiveCap THEN Tail(s) ELSE s

Append1(o) ==
  LET grown == [stream EXCEPT ![Len(stream)] = Append(@, ExampleOf(o))] IN
  /\ written' = Append(written, ExampleOf(o))
  /\ IF count + 1 >= ShardSize
     THEN stream' = Append(grown, <<>>) /\ count' = 0
     ELSE stream' = grown /\ count' = count + 1

Record(o, fails) ==
  /\ recorded < MaxRecords /\ recorded' = recorded + 1
  /\ live' = [live EXCEPT ![ListOf(o)] = Kept(Append(@, o))]
  /\ IF fails \/ o.kind = "status" THEN UNCHANGED <<stream, count, written>> ELSE Append1(o)
  /\ UNCHANGED <<corpus, trained, evaluated, restarts, trainings>>

(* A restart finds the lists as some earlier save left them, and opens the *)
(* shard after the last one there is.  Variant: that one again.            *)
NextShardReused == stream
NextShard       == Append(stream, <<>>)

RestartCorpus(kept) ==
  /\ restarts < MaxRestarts /\ restarts' = restarts + 1
  /\ live' = [k \in Lists |->
                IF kept < Len(live[k]) THEN SubSeq(live[k], 1, kept) ELSE live[k]]
  /\ stream' = NextShard /\ count' = 0
  /\ UNCHANGED <<corpus, trained, evaluated, recorded, trainings, written>>
-----------------------------------------------------------------------------
(* build_corpus walks the gate log when it is a dict; the ladder's is a    *)
(* list.                                                                   *)
ExamplesOf(k) ==
  LET told == Pick(live[k], {i \in DOMAIN live[k] : live[k][i].kind # "status"})
  IN [i \in DOMAIN told |-> ExampleOf(told[i])]

FromKernel == ExamplesOf("packet") \o ExamplesOf("module_proposal")
                \o ExamplesOf("wave_resolution") \o ExamplesOf("wave_escalation")

(* build_corpus_from_state_files: the saved promotion state has no gate    *)
(* log, and the files hold the packets twice, in the ecology and in the    *)
(* mirror of the packet log.                                               *)
FromFiles == FromKernel \o ExamplesOf("packet")

(* MERGE_WITH_PROVENANCE: one example of a lineage, with the masses of all *)
(* that share it.                                                          *)
Highest(S) == CHOOSE x \in S : \A y \in S : y <= x

Merged(s) ==
  LET of(l)  == {i \in DOMAIN s : s[i].lineage = l}
      one(l) == [lineage |-> l, t |-> Highest({s[i].t : i \in of(l)}),
                 f |-> Highest({s[i].f : i \in of(l)})]
  IN SetToSeq({one(l) : l \in Lineages(s)})

LiveTheta == 55
LiveClass(x) == CASE x.t >= LiveTheta /\ x.f >= LiveTheta -> "K"
                  [] x.t >= LiveTheta /\ x.f < LiveTheta  -> "A"
                  [] x.t < LiveTheta /\ x.f >= LiveTheta  -> "B"
                  [] OTHER -> "G"

(* write_jsonl_shards overwrites the shards it fills; those a larger       *)
(* export left beyond them stay.                                           *)
Sharded(s) ==
  [i \in 1..((Len(s) + ShardSize - 1) \div ShardSize) |->
     SubSeq(s, (i - 1) * ShardSize + 1, IF i * ShardSize < Len(s) THEN i * ShardSize ELSE Len(s))]

Export(files) ==
  LET out == Merged(IF files THEN FromFiles ELSE FromKernel)
      new == Sharded([i \in DOMAIN out |->
                        [lineage |-> out[i].lineage, class |-> LiveClass(out[i])]])
  IN /\ corpus' = new \o SubSeq(corpus, Len(new) + 1, Len(corpus))
     /\ UNCHANGED <<live, stream, count, trained, evaluated, recorded, restarts,
                    trainings, written>>
-----------------------------------------------------------------------------
(* split_train_val, on the shards there are: a val_ shard is for checking, *)
(* else a tenth of the shards by index (n below 25; a single shard is      *)
(* only trained on).  Without one the split moves as shards are added, and *)
(* what a training calls held-out an earlier one, or the live model's own  *)
(* steps below, may have trained on.                                       *)
ValCount(n)  == IF n = 1 THEN 0 ELSE IF n < 15 THEN 1 ELSE (n + 5) \div 10
ByIndex(n)   == {Shuffled(n)[i] : i \in 1..ValCount(n)}
ValShards    == IF ExplicitVal THEN {0} ELSE ByIndex(Len(stream))

Shard(i)     == IF i \in 1..Len(stream) THEN stream[i] ELSE <<>>
Lines(S)     == (UNION {{<<i, j>> : j \in DOMAIN Shard(i)} : i \in S \ {0}})
                \cup (IF 0 \in S THEN {ValLine} ELSE {})

(* run_full_eval: every probe reads the validation shards of a split of    *)
(* its own.                                                                *)
Evaluated == Lines(ValShards)

(* TRAIN_FROM_CORPUS: an epoch on the shards that are not for validation,  *)
(* then the evaluation.                                                    *)
Trains ==
  LET val == ValShards
      all == 1..Len(stream) \cup (IF ExplicitVal THEN {0} ELSE {})
  IN /\ trainings < MaxTrainings /\ trainings' = trainings + 1
     /\ trained' = trained \cup Lines(all \ val)
     /\ evaluated' = Evaluated
     /\ UNCHANGED <<live, stream, count, corpus, recorded, restarts, written>>

(* _train_shadow_step: a sample of the last three shards of the stream,    *)
(* agreed examples and contradictions, by a threshold of its own (50); the *)
(* pools are smaller than the sample here.                                 *)
LiveStep ==
  LET recent == (IF Len(stream) > 3 THEN Len(stream) - 2 ELSE 1)..Len(stream)
      usable == {l \in Lines(recent) : stream[l[1]][l[2]].t >= 50}
  IN /\ usable # {} /\ trained' = trained \cup usable
     /\ UNCHANGED <<live, stream, count, corpus, evaluated, recorded, restarts,
                    trainings, written>>

CorpusNext == \/ \E o \in Observation, fails \in BOOLEAN : Record(o, fails)
              \/ \E kept \in 0..LiveCap : RestartCorpus(kept)
              \/ \E files \in BOOLEAN : Export(files)
              \/ Trains \/ LiveStep
CorpusSpec == CorpusInit /\ [][CorpusNext]_corpusvars
-----------------------------------------------------------------------------
(* The stream holds what was written to it, in order and once, in shards   *)
(* of at most ShardSize lines, however often the kernel restarts.          *)
StreamWhole == /\ FlattenSeq(stream) = written
               /\ \A i \in DOMAIN stream : Len(stream[i]) <= ShardSize
=============================================================================
