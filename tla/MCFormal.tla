------------------------------ MODULE MCFormal ------------------------------
(* Terms of the type checker for TLC: a type A with an element a, and      *)
(* definitions of every constructor over them.                             *)
EXTENDS Formal

A == Var(<<"A">>)
a == Var(<<"a">>)
Name(s) == <<s>>
Lam(n, d, b)   == Bind("lam", Name(n), d, b)
Pi(n, d, b)    == Bind("pi", Name(n), d, b)
Sigma(n, d, b) == Bind("sigma", Name(n), d, b)
V(n)           == Var(Name(n))
App(f, x)      == Node("app", <<f, x>>)
Id(t, x, y)    == Node("id", <<t, x, y>>)
Refl(x)        == Node("refl", <<x>>)

MCAxioms == {[name |-> <<"A">>, type |-> Sort(0)], [name |-> <<"a">>, type |-> A]}

PolyId   == Lam("X", Sort(0), Lam("x", V("X"), V("x")))
PolyIdT  == Pi("Y", Sort(0), Pi("y", V("Y"), V("Y")))
Elements ==
  {a, App(App(PolyId, A), a), App(App(V("d"), A), a),
   Node("fst", <<Node("pair", <<a, Refl(a), Sigma("x", A, Id(A, V("x"), a))>>)>>),
   Node("ann", <<a, App(Lam("X", Sort(0), V("X")), A)>>),
   Node("J", <<Lam("z", A, Lam("q", Id(A, a, V("z")), A)), a, a, Refl(a)>>)}
Paths(x) ==
  {Refl(x), Node("snd", <<Node("pair", <<x, Refl(x), Sigma("x", A, Id(A, V("x"), V("x")))>>)>>)}

(* Transport along a path p from a to x, and the reverse of p.             *)
Backwards(p) ==
  Node("J", <<Lam("z", A, Lam("q", Id(A, a, V("z")), Id(A, V("z"), a))), Refl(a), a, p>>)

MCCandidates ==
  {[type |-> PolyIdT, term |-> PolyId],
   [type |-> Pi("x", A, Pi("p", Id(A, V("x"), V("x")), A)),
    term |-> Lam("y", A, Lam("q", Id(A, V("y"), V("y")), V("y")))],
   [type |-> Sigma("x", A, Id(A, V("x"), a)), term |-> Node("pair", <<a, Refl(a)>>)]}
  \cup {[type |-> A, term |-> x] : x \in Elements \cup {App(Lam("x", A, V("x")), Refl(a))}}
  \cup UNION {{[type |-> Id(A, x, a), term |-> p] : p \in Paths(x) \cup {Backwards(Refl(x))}}
              : x \in Elements}

MCDefined == {<<"d">>, <<"g">>}
MCOne == {<<"d">>}

(* Every way to name the three binders of a function of a type, an element *)
(* of it and a second type, applied to A and a.                            *)
Names == {"X", "x"}
Shadowing ==
  {[type |-> Empty,
    term |-> App(App(Lam(n1, Sort(0), Lam(n2, V(n1), Lam(n3, Sort(0), V(k)))), A), a)]
   : n1 \in Names, n2 \in Names, n3 \in Names, k \in Names}
MCShadowed == MCCandidates \cup Shadowing
=============================================================================
