----------------------------- MODULE Environment -----------------------------
(***************************************************************************)
(* The environment of the type checker in hott/formal.py: the axioms and   *)
(* the definitions it has admitted, each under a name of its own.  What a  *)
(* type is and what has one is the checker's to say, see Formal.           *)
(***************************************************************************)
CONSTANTS
  Axioms,            \* records [name, type]: axioms of inhabited types
  Defined,           \* names of definitions
  Entries,           \* records [type, term]: what definitions are tried with
  Formed(_, _),      \* Formed(e, t): t is a type in the environment e
  HasType(_, _, _)   \* HasType(e, x, t): x has the type t in e

(* add_definition takes a term.                                            *)
NoTerm == [op |-> "none"]
ASSUME EnvironmentAssumption == \A c \in Entries : c.term # NoTerm

VARIABLE env  \* Environment.definitions: name -> [type, term, transparent]
-----------------------------------------------------------------------------
FInit == env = <<>>

Added(n, d) == [m \in DOMAIN env \cup {n} |-> IF m = n THEN d ELSE env[m]]

AddAxiom(x) ==
  /\ x.name \notin DOMAIN env /\ Formed(env, x.type)
  /\ env' = Added(x.name, [type |-> x.type, term |-> NoTerm, transparent |-> FALSE])

AddDefinition(n, c, transparent) ==
  /\ n \notin DOMAIN env
  /\ Formed(env, c.type) /\ HasType(env, c.term, c.type)
  /\ env' = Added(n, [type |-> c.type, term |-> c.term, transparent |-> transparent])

FNext == \/ \E x \in Axioms : AddAxiom(x)
         \/ \E n \in Defined, c \in Entries, transparent \in BOOLEAN :
              AddDefinition(n, c, transparent)
FSpec == FInit /\ [][FNext]_env
-----------------------------------------------------------------------------
Definitions == {n \in DOMAIN env : env[n].term # NoTerm}

(* What unfolds is a definition: an axiom has nothing to unfold to.        *)
FTypeOK == \A n \in DOMAIN env : env[n].transparent => n \in Definitions

(* A name once declared keeps its type and its term: what was checked      *)
(* against it stays checked against the same thing.                        *)
DeclarationsStay ==
  [][\A n \in DOMAIN env : n \in DOMAIN env' /\ env'[n] = env[n]]_env
==============================================================================
