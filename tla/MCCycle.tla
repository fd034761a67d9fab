------------------------------ MODULE MCCycle ------------------------------
(* The autonomous cycle for TLC: the tasks that drive it, the delegation   *)
(* of goals, the beliefs, the checks of the HoTT layer, the corpus and the *)
(* training over it.  None of these modules reads another's variables, so  *)
(* one behaviour runs one of them, the one `part' names, and the others    *)
(* rest.                                                                   *)
EXTENDS TaskQueue, Delegation, Beliefs, Environment, Substitution, Cocycle, Identity,
        Certificate, Pretrain, Corpus

(* Contracts over one capability and two properties, of weights that tip   *)
(* the balance to either side.                                             *)
Weighed(p, r) == [priority |-> p, required |-> r]
AboutP(f)      == [g \in {"p"} |-> f]
MCFirst       == [caps |-> {}, guarantees |-> <<>>, forbids |-> <<>>]
MCContracts ==
  [caps : SUBSET {"c"},
   guarantees : {<<>>, AboutP(Weighed(5, TRUE)), AboutP(Weighed(9, TRUE)),
                 AboutP(Weighed(9, FALSE)),
                 [g \in {"q"} |-> Weighed(9, TRUE)],
                 [g \in {"p", "q"} |-> Weighed(9, TRUE)],
                 [g \in {"p", "q"} |-> Weighed(IF g = "p" THEN 5 ELSE 9, TRUE)]},
   forbids : {<<>>, AboutP(Weighed(0, TRUE)), AboutP(Weighed(1, TRUE))}]

(* The symmetric group of three elements: the smallest that does not       *)
(* commute.                                                                *)
S3          == {s \in [1..3 -> 1..3] : \A i, j \in 1..3 : i # j => s[i] # s[j]}
S3Unit      == <<1, 2, 3>>
S3Op(x, y)  == [i \in 1..3 |-> x[y[i]]]
S3Inv(x)    == CHOOSE y \in S3 : S3Op(x, y) = S3Unit
MCOverlaps  == {<<1, 2>>, <<3, 2>>, <<1, 3>>, <<2, 3>>}
MCSamples   == {<<1, 2, 3>>, <<2, 1, 3>>, <<2, 3, 1>>}
MCProofs    == {BV(100, 0), BV(30, 80)}

MCReferents == [subject : {"", "s", "r"}, version : {"", "1", "2"}, test : {"", "x"},
                environment : {""}, time_band : {"", "1"}]
MCOpinions  == {BV(90, 10), BV(10, 90)}

(* In the state nothing is certified from every probe raises.              *)
MCUncomputed == [is |-> CHOOSE v \in Value : TRUE, probe |-> "raises"]

(* Records of every kind, two of one proposal.                             *)
Seen(i, k, success) == [id |-> i, kind |-> k, ok |-> success]
MCObs ==
  {Seen(1, "packet", TRUE), Seen(1, "module_proposal", FALSE),
   Seen(1, "module_proposal", TRUE), Seen(1, "gate_decision", FALSE),
   Seen(1, "wave_resolution", FALSE), Seen(1, "status", TRUE)}

(* What Random(1234).shuffle makes of range(n), counted from 1.            *)
MCShuffled(n) ==
  <<<<1>>, <<1, 2>>, <<3, 1, 2>>, <<2, 3, 1, 4>>, <<2, 3, 5, 1, 4>>, <<2, 3, 6, 5, 1, 4>>,
    <<2, 3, 6, 5, 1, 4, 7>>, <<2, 4, 3, 5, 6, 7, 1, 8>>>>[n]
-----------------------------------------------------------------------------
VARIABLE part

cyclevars == <<part, tvars, dvars, beliefvars, env, uvars, cvars, notes, xvars,
               pvars, corpusvars>>

Parts == {"tasks", "delegation", "beliefs", "types", "modules", "cocycle", "memories",
          "certificates", "pretraining", "corpus"}

(* A step of p alone.                                                      *)
Only(p) ==
  /\ part = p /\ UNCHANGED part
  /\ p # "tasks" => UNCHANGED tvars
  /\ p # "delegation" => UNCHANGED dvars
  /\ p # "beliefs" => UNCHANGED beliefvars
  /\ p # "types" => UNCHANGED env
  /\ p # "modules" => UNCHANGED uvars
  /\ p # "cocycle" => UNCHANGED cvars
  /\ p # "memories" => UNCHANGED notes
  /\ p # "certificates" => UNCHANGED xvars
  /\ p # "pretraining" => UNCHANGED pvars
  /\ p # "corpus" => UNCHANGED corpusvars

(* A component that rests does so in one state.                            *)
CycleInit ==
  /\ part \in Parts
  /\ part # "modules" => first = MCFirst
  /\ part # "cocycle" => transitions = [p \in Overlaps |-> Undefined]
  /\ part # "certificates" => start = [i \in Invariants |-> MCUncomputed]
  /\ TInit /\ DInit /\ BeliefInit /\ FInit /\ UInit /\ CInit /\ IInit /\ XInit /\ PTInit
  /\ CorpusInit

CycleNext ==
  \/ Only("tasks") /\ TNext
  \/ Only("delegation") /\ DNext
  \/ Only("beliefs") /\ BeliefNext
  \/ Only("types") /\ FNext
  \/ Only("modules") /\ UNext
  \/ Only("cocycle") /\ CNext
  \/ Only("memories") /\ INext
  \/ Only("certificates") /\ XNext
  \/ Only("pretraining") /\ PTNext
  \/ Only("corpus") /\ CorpusNext

CycleSpec == CycleInit /\ [][CycleNext]_cyclevars

(* The component that runs keeps its variables in their types, its queues  *)
(* and counts in their limits included.                                    *)
CycleTypeOK ==
  CASE part = "tasks" -> TTypeOK
    [] part = "delegation" -> DTypeOK
    [] part = "beliefs" -> BeliefTypeOK
    [] part = "types" -> FTypeOK
    [] part = "modules" -> UTypeOK
    [] part = "cocycle" -> CTypeOK
    [] part = "memories" -> ITypeOK
    [] part = "certificates" -> XTypeOK
    [] part = "pretraining" -> PTTypeOK
    [] part = "corpus" -> CorpusTypeOK
=============================================================================
