------------------------------- MODULE Memory -------------------------------
(***************************************************************************)
(* The tripartite memory (memory/store.py), its consolidation, forgetting  *)
(* and the synchronization of a branch's memory with it (memory/sync.py),  *)
(* over the two files they live in: the banks are saved with the state     *)
(* file now and then, the branches with the ecology file at every packet.  *)
(* The branch is the hub's; its rollback points hold copies of it, of      *)
(* which HUB_REVERT brings the last one back.                              *)
(*                                                                         *)
(* An entry is its key, whether it is a success tagged "workflow", and     *)
(* whether it is younger than an hour; all episodes share one tag.  An     *)
(* entry is never forgotten: it is stored with t = 0.6 and nothing lowers  *)
(* an entry's confidence below the 0.3 that forget_stale asks for.         *)
(***************************************************************************)
EXTENDS Integers, FiniteSets, Sequences, SequencesExt, Selections

CONSTANTS
  LocalKey,   \* keys the kernel's own research stores
  BranchItem, \* records [kind, key, workflow] of the branch
  BankCap,    \* MAX_MEMORY_PER_KIND (500)
  MaxStored,  \* bound: entries stored by research
  MaxMishaps  \* bound: crashes, reverts and writes that fail

Kinds == {"episodic", "semantic", "procedural"}

ASSUME MemoryAssumption ==
  /\ BankCap \in Nat \ {0} /\ MaxStored \in Nat /\ MaxMishaps \in Nat
  /\ \A x \in BranchItem : x.kind \in Kinds /\ x.key \notin LocalKey \cup {"pattern", "summary"}
  /\ \A x \in BranchItem : x.workflow \in BOOLEAN
  /\ \A x, y \in BranchItem : x.key = y.key => x = y
  /\ LocalKey \cap {"pattern", "summary"} = {}

VARIABLES
  banks,       \* kind -> entries, oldest first
  branch,      \* items of the branch's memory_branch
  written,     \* items the branch has ever written
  banksSaved,  \* of the state file
  branchSaved, \* of the ecology file
  point,       \* memory_branch of the last rollback point
  pointSaved,  \* of the ecology file
  unsaved,     \* history: a write failed, and the file has items the branch no longer has
  replayed,    \* history: items brought back by a revert, or by a restart after that
  stored, mishaps

filevars == <<banksSaved, branchSaved, pointSaved, unsaved>>
evars == <<banks, branch, written, filevars, point, replayed, stored, mishaps>>
-----------------------------------------------------------------------------
Key   == LocalKey \cup {x.key : x \in BranchItem} \cup {"pattern", "summary"}
Entry == [key : Key, workflow : BOOLEAN, recent : BOOLEAN]
NoBanks == [k \in Kinds |-> <<>>]

ETypeOK ==
  /\ \A k \in Kinds : /\ banks[k] \in Seq(Entry) /\ Len(banks[k]) <= BankCap
                      /\ banksSaved[k] \in Seq(Entry)
  /\ branch \subseteq written /\ branchSaved \subseteq written /\ written \subseteq BranchItem
  /\ point \subseteq written /\ pointSaved \subseteq written /\ replayed \subseteq written
  /\ unsaved \in BOOLEAN
  /\ stored \in 0..MaxStored /\ mishaps \in 0..MaxMishaps

EInit ==
  /\ banks = NoBanks /\ branch = {} /\ written = {} /\ banksSaved = NoBanks /\ branchSaved = {}
  /\ point = {} /\ pointSaved = {} /\ unsaved = FALSE /\ replayed = {}
  /\ stored = 0 /\ mishaps = 0

(* _save_kernel_ecology_state: the branch and its rollback points, unless  *)
(* save_json fails, which its callers ignore.                              *)
(* Variant: what a sync took from the branch is left to the next save.     *)
EcologyAfterUnsaved(left) == branchSaved
EcologyAfter(left) == left

SavesEcology(before) ==
  \/ /\ branchSaved' = EcologyAfter(branch') /\ pointSaved' = point /\ unsaved' = FALSE
     /\ mishaps' = before
  \/ /\ before < MaxMishaps /\ mishaps' = before + 1
     /\ unsaved' = ~(branchSaved \subseteq branch') /\ UNCHANGED <<branchSaved, pointSaved>>

(* store: the bank keeps its newest entries.                               *)
New(key, workflow) == [key |-> key, workflow |-> workflow, recent |-> TRUE]
Stored(bank, e) ==
  LET longer == Append(bank, e) IN IF Len(longer) > BankCap THEN Tail(longer) ELSE longer

HasKey(bank, key) == \E i \in DOMAIN bank : bank[i].key = key

(* _store_memory: whether it contradicts an older entry or not.            *)
Remember(kind, key) ==
  /\ stored < MaxStored /\ stored' = stored + 1
  /\ banks' = [banks EXCEPT ![kind] = Stored(@, New(key, FALSE))]
  /\ UNCHANGED <<branch, written, filevars, point, replayed, mishaps>>

(* consolidate_memory: two recent episodes of a tag make a pattern, once;  *)
(* a successful workflow becomes a procedure, once.                        *)
WithProcedure(b, e, bank) ==
  IF e.workflow /\ ~HasKey(bank, e.key) /\ ~HasKey(b, e.key) THEN Stored(b, New(e.key, TRUE)) ELSE b

Procedures(recent, bank) ==
  LET after[n \in 0..Len(recent)] ==
        IF n = 0 THEN bank ELSE WithProcedure(after[n - 1], recent[n], bank)
  IN after[Len(recent)]

Consolidate ==
  LET recent == Pick(banks["episodic"], {i \in DOMAIN banks["episodic"] : banks["episodic"][i].recent}) IN
  /\ recent # <<>>
  /\ banks' = [banks EXCEPT
       !["semantic"]   = IF Len(recent) >= 2 /\ ~HasKey(@, "pattern")
                         THEN Stored(@, New("pattern", FALSE)) ELSE @,
       !["procedural"] = Procedures(recent, @)]
  /\ UNCHANGED <<branch, written, filevars, point, replayed, stored, mishaps>>

(* An hour passes for the episodes stored so far.                          *)
EpisodesAge ==
  /\ banks' = [banks EXCEPT !["episodic"] =
                 [i \in DOMAIN @ |-> [@[i] EXCEPT !.recent = FALSE]]]
  /\ UNCHANGED <<branch, written, filevars, point, replayed, stored, mishaps>>

(* The branch writes an item.                                              *)
BranchWrites(x) ==
  /\ x \notin written /\ written' = written \cup {x} /\ branch' = branch \cup {x}
  /\ UNCHANGED <<banks, filevars, point, replayed, stored, mishaps>>

(* HubKernel.snapshot: a rollback point.  The kernel takes one at boot, of *)
(* an empty branch; one more of a written branch is enough here (bound).   *)
RollbackPoint ==
  /\ point = {} /\ point' = branch
  /\ UNCHANGED <<banks, branch, written, filevars, replayed, stored, mishaps>>

(* HUB_REVERT: revert_to_last_snapshot, then a packet.                     *)
RevertBranch ==
  /\ mishaps < MaxMishaps
  /\ branch' = point /\ replayed' = replayed \cup (point \ branch)
  /\ SavesEcology(mishaps + 1)
  /\ UNCHANGED <<banks, written, banksSaved, point, stored>>

(* _apply_memory_sync_packet: discard, promote or summarize the selected   *)
(* kinds, or all of them if none is named; the ecology file is saved.      *)
(* Naming a kind no item has selects nothing more.                         *)
ItemKinds == {x.kind : x \in BranchItem}

WithItem(b, x) == [b EXCEPT ![x.kind] = Stored(@, New(x.key, x.workflow))]

Promoted(items) ==
  LET order == SetToSeq(items)
      after[n \in 0..Len(order)] == IF n = 0 THEN banks ELSE WithItem(after[n - 1], order[n])
  IN after[Len(order)]

Sync(mode, kinds) ==
  LET selected == {x \in branch : kinds = {} \/ x.kind \in kinds} IN
  /\ banks' = CASE mode = "discard" -> banks
                [] mode = "promote" -> Promoted(selected)
                [] mode = "summarize" ->
                     [banks EXCEPT !["semantic"] = Stored(@, New("summary", FALSE))]
  /\ branch' = branch \ selected
  /\ SavesEcology(mishaps)
  /\ mode = "summarize" => stored < MaxStored
  /\ stored' = IF mode = "summarize" THEN stored + 1 ELSE stored
  /\ UNCHANGED <<written, banksSaved, point, replayed>>

(* save_state: the state file, then the ecology file, which every packet   *)
(* saves too; a crash may fall between the two.  A save that fails here    *)
(* leaves everything as it was.                                            *)
SaveBanks == /\ banksSaved' = banks
             /\ UNCHANGED <<banks, branch, written, branchSaved, point, pointSaved, unsaved,
                            replayed, stored, mishaps>>
SaveBranch == /\ branchSaved' = branch /\ pointSaved' = point /\ unsaved' = FALSE
              /\ UNCHANGED <<banks, branch, written, banksSaved, point, replayed, stored, mishaps>>

LoseMemory ==
  /\ mishaps < MaxMishaps /\ mishaps' = mishaps + 1
  /\ banks' = banksSaved /\ branch' = branchSaved /\ point' = pointSaved
  /\ replayed' = replayed \cup (IF unsaved THEN branchSaved \ branch ELSE {})
  /\ unsaved' = FALSE
  /\ UNCHANGED <<written, banksSaved, branchSaved, pointSaved, stored>>

ENext ==
  \/ \E key \in LocalKey, kind \in {"episodic", "semantic"} : Remember(kind, key)
  \/ Consolidate \/ EpisodesAge
  \/ \E x \in BranchItem : BranchWrites(x)
  \/ RollbackPoint \/ RevertBranch
  \/ \E mode \in {"discard", "promote", "summarize"}, kinds \in SUBSET ItemKinds : Sync(mode, kinds)
  \/ SaveBanks \/ SaveBranch \/ LoseMemory

ESpec == EInit /\ [][ENext]_evars
-----------------------------------------------------------------------------
(* Only two things can enter an item of a branch twice: a HUB_REVERT that  *)
(* brings it back, and a restart after the ecology file could not be       *)
(* written.  Any other item enters the main memory at most once, and is    *)
(* not in a branch again once it is there; a workflow becomes a procedure  *)
(* and two episodes a pattern at most once.  Crashes between the two       *)
(* files, requests that name no kind or one kind twice, and consolidations *)
(* that run again over the same hour change nothing of it.                 *)
Copies(kind, key) == Cardinality({i \in DOMAIN banks[kind] : banks[kind][i].key = key})

NothingTwice ==
  /\ \A k \in {"semantic", "procedural"} : Copies(k, "pattern") <= 1
  /\ \A x \in BranchItem \ replayed :
       /\ \A k \in Kinds : Copies(k, x.key) <= 1
       /\ x \in branch => \A k \in Kinds : Copies(k, x.key) = 0
=============================================================================
