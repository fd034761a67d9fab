------------------------------- MODULE Formal -------------------------------
(***************************************************************************)
(* The dependent type checker of hott/formal.py, which says what the       *)
(* environment admits.  A term is a variable, a binder (product, sum,      *)
(* lambda) or a node over its arguments; the constructors that one rule of *)
(* the code treats alike are one case here.  A name is a sequence: the     *)
(* name <<"x", 0>> is the code's "x_0".                                    *)
(***************************************************************************)
EXTENDS Environment, Integers, FiniteSets, Sequences, SequencesExt
-----------------------------------------------------------------------------
Var(n)             == [op |-> "var", name |-> n]
Bind(op, v, d, b)  == [op |-> op, v |-> v, dom |-> d, body |-> b]
Node(op, args)     == [op |-> op, level |-> 0, args |-> args]
Sort(i)            == [op |-> "sort", level |-> i, args |-> <<>>]
Binders            == {"pi", "lam", "sigma"}

MaxOf(i, j) == IF i > j THEN i ELSE j

RECURSIVE FreeVars(_), Subst(_, _, _, _), AlphaEq(_, _, _)
FreeVars(t) ==
  CASE t.op = "var"     -> {t.name}
    [] t.op \in Binders -> FreeVars(t.dom) \cup (FreeVars(t.body) \ {t.v})
    [] OTHER            -> UNION {FreeVars(t.args[i]) : i \in DOMAIN t.args}

Fresh(base, avoid) ==
  IF base \notin avoid THEN base
  ELSE Append(base, CHOOSE i \in 0..Cardinality(avoid) :
         /\ Append(base, i) \notin avoid
         /\ \A j \in 0..(i - 1) : Append(base, j) \in avoid)

(* subst; a renaming does not look at the binders it passes.               *)
Subst(t, x, r, renaming) ==
  CASE t.op = "var"     -> IF t.name = x THEN r ELSE t
    [] t.op \in Binders ->
         LET d     == Subst(t.dom, x, r, renaming)
             fresh == Fresh(t.v, FreeVars(t.body) \cup FreeVars(r) \cup {x})
         IN
         IF t.v = x THEN Bind(t.op, t.v, d, t.body)
         ELSE IF ~renaming /\ t.v \in FreeVars(r)
         THEN Bind(t.op, fresh, d,
                   Subst(Subst(t.body, t.v, Var(fresh), TRUE), x, r, FALSE))
         ELSE Bind(t.op, t.v, d, Subst(t.body, x, r, renaming))
    [] OTHER -> [t EXCEPT !.args = [i \in DOMAIN @ |-> Subst(@[i], x, r, renaming)]]

(* alpha_eq: map sends the bound names of a to those of b.                 *)
AlphaEq(a, b, map) ==
  /\ a.op = b.op
  /\ CASE a.op = "var"     -> b.name = IF a.name \in DOMAIN map THEN map[a.name] ELSE a.name
       [] a.op \in Binders ->
            /\ AlphaEq(a.dom, b.dom, map)
            /\ AlphaEq(a.body, b.body,
                       [n \in DOMAIN map \cup {a.v} |-> IF n = a.v THEN b.v ELSE map[n]])
       [] a.op = "none"    -> TRUE
       [] OTHER -> /\ a.level = b.level /\ Len(a.args) = Len(b.args)
                   /\ \A i \in DOMAIN a.args : AlphaEq(a.args[i], b.args[i], map)
-----------------------------------------------------------------------------
Extend(ctx, n, type) == Append(ctx, [name |-> n, type |-> type])
Position(ctx, n)     == SelectLastInSeq(ctx, LAMBDA e : e.name = n)

Lookup(e, ctx, n) ==
  IF Position(ctx, n) # 0 THEN ctx[Position(ctx, n)].type
  ELSE IF n \in DOMAIN e THEN e[n].type ELSE NoTerm

Unfolds(e, ctx, n) == /\ n \in DOMAIN e /\ e[n].transparent
                      /\ Position(ctx, n) = 0

RECURSIVE Whnf(_, _, _), Normal(_, _, _), Normal1(_, _, _)
(* Eliminators over a subterm that is already in weak head normal form.    *)
Apply(e, fn, arg, ctx) ==
  IF fn.op = "lam" THEN Whnf(e, Subst(fn.body, fn.v, arg, FALSE), ctx)
  ELSE Node("app", <<fn, arg>>)

Project(e, i, op, pair, ctx) ==
  IF pair.op = "pair" THEN Whnf(e, pair.args[i], ctx) ELSE Node(op, <<pair>>)

Eliminate(e, t, path, ctx) ==
  IF path.op = "refl" THEN Whnf(e, t.args[2], ctx)
  ELSE Node("J", <<t.args[1], t.args[2], Whnf(e, t.args[3], ctx), path>>)

Whnf(e, t, ctx) ==
  CASE t.op = "ann" -> Whnf(e, t.args[1], ctx)
    [] t.op = "var" -> IF Unfolds(e, ctx, t.name) THEN Whnf(e, e[t.name].term, ctx) ELSE t
    [] t.op = "app" -> Apply(e, Whnf(e, t.args[1], ctx), t.args[2], ctx)
    [] t.op = "fst" -> Project(e, 1, "fst", Whnf(e, t.args[1], ctx), ctx)
    [] t.op = "snd" -> Project(e, 2, "snd", Whnf(e, t.args[1], ctx), ctx)
    [] t.op = "J"   -> Eliminate(e, t, Whnf(e, t.args[4], ctx), ctx)
    [] OTHER        -> t

(* normalize of a term whose head is normal: an eliminator is tried again  *)
(* over its normal arguments.                                              *)
Retried(e, t, ctx) == IF t.op \in {"app", "fst", "snd", "J"} THEN Whnf(e, t, ctx) ELSE t
Normal1(e, t, ctx) ==
  CASE t.op \in {"var", "sort"} -> t
    [] t.op \in Binders -> Bind(t.op, t.v, Normal(e, t.dom, ctx),
                                Normal(e, t.body, Extend(ctx, t.v, t.dom)))
    [] OTHER ->
         Retried(e, [t EXCEPT !.args = [i \in DOMAIN @ |-> Normal(e, @[i], ctx)]], ctx)
Normal(e, t, ctx) == Normal1(e, Whnf(e, t, ctx), ctx)

Defeq(e, a, b, ctx) == AlphaEq(Normal(e, a, ctx), Normal(e, b, ctx), <<>>)
-----------------------------------------------------------------------------
(* infer and check; NoTerm stands for a raised TypeErrorHoTT.              *)
RECURSIVE Infer(_, _, _), Checks(_, _, _, _)
Inferred(e, t, ctx) == Whnf(e, Infer(e, t, ctx), ctx)
IsType(e, t, ctx)   == Inferred(e, t, ctx).op = "sort"

WhenHolds(cond, type) == IF cond THEN type ELSE NoTerm
PiSort(d, b)    == WhenHolds(d.op = "sort" /\ b.op = "sort", Sort(MaxOf(d.level, b.level)))
LamType(t, body) == WhenHolds(body # NoTerm, Bind("pi", t.v, t.dom, body))

InferBinder(e, t, ctx) ==
  IF t.op # "lam"
  THEN PiSort(Inferred(e, t.dom, ctx), Inferred(e, t.body, Extend(ctx, t.v, t.dom)))
  ELSE IF IsType(e, t.dom, ctx)
  THEN LamType(t, Infer(e, t.body, Extend(ctx, t.v, t.dom)))
  ELSE NoTerm

AppType(fn, arg) == Subst(fn.body, fn.v, arg, FALSE)

(* Variant: the argument is not checked.                                   *)
InferAppUnchecked(e, arg, fn, ctx) == WhenHolds(fn.op = "pi", AppType(fn, arg))

InferApp(e, arg, fn, ctx) ==
  WhenHolds(fn.op = "pi" /\ Checks(e, arg, fn.dom, ctx), AppType(fn, arg))

InferProjection(t, pair) ==
  IF pair.op # "sigma" THEN NoTerm
  ELSE IF t.op = "fst" THEN pair.dom
  ELSE AppType(pair, Node("fst", t.args))

(* J(motive, base, target, path): the motive is a family over the elements *)
(* z that a path from the base point leads to, and over the paths.         *)
IsMotive(e, inner, id, z) ==
  /\ inner.op = "pi" /\ Defeq(e, inner.dom, id, z)
  /\ Whnf(e, inner.body, Extend(z, inner.v, inner.dom)).op = "sort"

Motive(e, motive, path, z) ==
  IsMotive(e, Whnf(e, motive.body, z),
           Node("id", <<path.args[1], path.args[2], Var(motive.v)>>), z)

InferJ(e, t, path, motive, ctx) ==
  WhenHolds(
    /\ path.op = "id" /\ motive.op = "pi"
    /\ \A c \in {<<t.args[3], path.args[1]>>,
                 <<t.args[2], Node("app", <<Node("app", <<t.args[1], path.args[2]>>),
                                            Node("refl", <<path.args[2]>>)>>)>>} :
         Checks(e, c[1], c[2], ctx)
    /\ \A d \in {<<t.args[3], path.args[3]>>, <<motive.dom, path.args[1]>>} :
         Defeq(e, d[1], d[2], ctx)
    /\ Motive(e, motive, path, Extend(ctx, motive.v, path.args[1])),
    Node("app", <<Node("app", <<t.args[1], path.args[3]>>), t.args[4]>>))

ReflType(x, type) == WhenHolds(type # NoTerm, Node("id", <<type, x, x>>))

Infer(e, t, ctx) ==
  CASE t.op = "sort"    -> Sort(t.level + 1)
    [] t.op = "var"     -> Lookup(e, ctx, t.name)
    [] t.op \in Binders -> InferBinder(e, t, ctx)
    [] t.op = "app"     -> InferApp(e, t.args[2], Inferred(e, t.args[1], ctx), ctx)
    [] t.op = "pair"    -> IF Len(t.args) = 2 THEN NoTerm
                           ELSE WhenHolds(Checks(e, t, t.args[3], ctx), t.args[3])
    [] t.op \in {"fst", "snd"} -> InferProjection(t, Inferred(e, t.args[1], ctx))
    [] t.op = "id"      -> IF /\ IsType(e, t.args[1], ctx)
                              /\ \A i \in {2, 3} : Checks(e, t.args[i], t.args[1], ctx)
                           THEN Infer(e, t.args[1], ctx) ELSE NoTerm
    [] t.op = "refl"    -> ReflType(t.args[1], Infer(e, t.args[1], ctx))
    [] t.op = "J"       -> InferJ(e, t, Inferred(e, t.args[4], ctx),
                                  Inferred(e, t.args[1], ctx), ctx)
    [] t.op = "ann"     -> WhenHolds(IsType(e, t.args[2], ctx)
                                     /\ Checks(e, t.args[1], t.args[2], ctx), t.args[2])
    [] t.op = "none"    -> t

CheckSame(e, s, expected, ctx) == s # NoTerm /\ Defeq(e, s, expected, ctx)

CheckBy(e, t, w, expected, ctx) ==
  CASE t.op = "lam" /\ w.op = "pi" ->
         /\ Defeq(e, t.dom, w.dom, ctx)
         /\ Checks(e, t.body, AppType(w, Var(t.v)), Extend(ctx, t.v, t.dom))
    [] t.op = "pair" /\ w.op = "sigma" ->
         /\ Checks(e, t.args[1], w.dom, ctx)
         /\ Checks(e, t.args[2], AppType(w, t.args[1]), ctx)
    [] OTHER -> CheckSame(e, Infer(e, t, ctx), expected, ctx)

Checks(e, t, expected, ctx) == CheckBy(e, t, Whnf(e, expected, ctx), expected, ctx)
(* What the environment asks of the checker: in the empty context.         *)
FormedIn(e, type)        == IsType(e, type, <<>>)
HasTypeIn(e, term, type) == Checks(e, term, type, <<>>)
-----------------------------------------------------------------------------
(* No binder of t stands within another, or in a context, of its name.     *)
RECURSIVE Unshadowed(_, _)
Unshadowed(t, names) ==
  CASE t.op = "var"     -> TRUE
    [] t.op \in Binders -> /\ t.v \notin names /\ Unshadowed(t.dom, names)
                           /\ Unshadowed(t.body, names \cup {t.v})
    [] OTHER            -> \A i \in DOMAIN t.args : Unshadowed(t.args[i], names)

(* Where no binder shadows another, computing changes no type: such a term *)
(* checks against its type in its normal form too, whatever was defined    *)
(* since, and against the normal form of its type.  Of terms that shadow   *)
(* a name this is false of the code, see below.                            *)
TypesKept == \A n \in Definitions :
  Unshadowed(env[n].term, DOMAIN env) /\ Unshadowed(env[n].type, DOMAIN env) =>
    /\ Checks(env, Normal(env, env[n].term, <<>>), env[n].type, <<>>)
    /\ Checks(env, env[n].term, Normal(env, env[n].type, <<>>), <<>>)

(* The empty type, the product of all types, has no element while every    *)
(* axiom's type has one.                                                   *)
Empty == Bind("pi", <<"X">>, Sort(0), Var(<<"X">>))
EmptyUnproved == \A n \in Definitions : env[n].type # Empty
=============================================================================
