------------------------------- MODULE MCEval -------------------------------
EXTENDS EnactEval

-----------------------------------------------------------------------------
(***************************************************************************)
(* What programs mean: expressions have values in environments, functions  *)
(* are closures, and there is no stack, no store and no unwinding.  The    *)
(* situation s is the environment and the number of answers so far.        *)
(***************************************************************************)
Meant(err, val, s) == [err |-> err, val |-> val, s |-> s]
Fails(err, s) == Meant(err, IntValue(0), s)
Gives(val, s) == Meant(NoError, val, s)
Number_(c, s) == IF c.err = "OK" THEN Gives(IntValue(c.n), s) ELSE Fails(c.err, s)

\* Integers are those of mathematics, within bounds.
Arithmetic(op, l, r) ==
  CASE op \in Divisions /\ r = 0 -> Error("DIVIDE_BY_ZERO")
    [] op \in Divisions /\ r = -1 /\ l = MinInt -> Error("INT_OVERFLOW")
    [] OTHER -> LET n == {x \in Ints : Exact(op, l, r, x)}
                IN IF n = {} THEN Error("INT_OVERFLOW") ELSE Number(CHOOSE x \in n : TRUE)

\* A closure: its peers are the functions defined along with it, itself included.
Closure(params, body, env, peers) ==
  [kind |-> "function", params |-> params, body |-> body, env |-> env, peers |-> peers]

Within(c) == [f \in DOMAIN c.peers |-> Closure(c.peers[f].names, c.peers[f].kids[1], c.env, c.peers)] @@ c.env

\* The names of what a callable still needs: a method is a builtin that lacks
\* the parameter of its receiver.
Needed(v) ==
  CASE v.kind = "function" -> v.params
    [] v.kind = "builtin" -> SubSeq(ParamNames[v.name], Len(v.items) + 1, Len(ParamNames[v.name]))
    [] v.kind = "method" -> LET others == SelectSeq(ParamNames[v.name], LAMBDA x : x \notin {"collection", "left"})
                            IN SubSeq(others, Len(v.items), Len(others))

Most(v) == Len(Needed(v))
Least(v) == IF v.kind = "builtin" /\ v.name = "set" THEN 0 ELSE Most(v)

Repeated(items) == {i \in DOMAIN items : \E j \in DOMAIN items : i < j /\ items[i] = items[j]}
Without(items, I) == FoldLeft(LAMBDA kept, i : IF i \in I THEN kept ELSE Append(kept, items[i]), <<>>, [i \in DOMAIN items |-> i])
Distinct(items) == Without(items, Repeated(items))

Misfit(v, n) ==
  IF ~Callable(v) THEN "TYPE_EXPECTED_FUNCTION"
  ELSE IF n > Most(v) \/ (n = 0 /\ Least(v) > 0) THEN "ARITY_MISMATCH" ELSE NoError

RECURSIVE Eval(_, _), EvalAll(_, _, _), Apply(_, _, _, _), MapAll(_, _, _), Search(_, _, _, _), Reduced(_, _, _, _)

\* Operands from the left, each of a kind if one is required.
EvalAll(trees, s, required) ==
  IF trees = <<>> THEN Gives(<<>>, s)
  ELSE LET first == Eval(trees[1], s)
       IN IF first.err # NoError THEN first
          ELSE IF required # <<>> /\ first.val.kind # required[1] THEN Fails(required[2], first.s)
          ELSE LET rest == EvalAll(Tail(trees), first.s, required)
               IN IF rest.err # NoError THEN rest ELSE Gives(<<first.val>> \o rest.val, rest.s)

\* Walks, with what the callback gives for each item.
MapAll(f, items, s) ==
  IF items = <<>> THEN Gives(<<>>, s)
  ELSE LET first == Apply(f, <<items[1]>>, s, FALSE)
       IN IF first.err # NoError THEN first
          ELSE LET rest == MapAll(f, Tail(items), first.s)
               IN IF rest.err # NoError THEN rest ELSE Gives(<<first.val>> \o rest.val, rest.s)

\* The items up to the first for which the predicate answers so.
Search(f, items, answer, s) ==
  IF items = <<>> THEN Gives(<<>>, s)
  ELSE LET first == Apply(f, <<items[1]>>, s, FALSE)
       IN IF first.err # NoError THEN first
          ELSE IF first.val.kind # "bool" THEN Fails("TYPE_EXPECTED_BOOL", first.s)
          ELSE IF first.val = BoolValue(answer) THEN Gives(<<items[1]>>, first.s)
          ELSE Search(f, Tail(items), answer, first.s)

Reduced(f, value, items, s) ==
  IF items = <<>> THEN Gives(value, s)
  ELSE LET first == Apply(f, <<value, items[1]>>, s, FALSE)
       IN IF first.err # NoError THEN first ELSE Reduced(f, first.val, Tail(items), first.s)

RECURSIVE Filtered(_, _, _)
Filtered(f, items, s) ==
  IF items = <<>> THEN Gives(<<>>, s)
  ELSE LET first == Apply(f, <<items[1]>>, s, FALSE)
       IN IF first.err # NoError THEN first
          ELSE IF first.val.kind # "bool" THEN Fails("TYPE_EXPECTED_BOOL", first.s)
          ELSE LET rest == Filtered(f, Tail(items), first.s)
               IN IF rest.err # NoError THEN rest
                  ELSE Gives((IF IsTrue(first.val) THEN <<items[1]>> ELSE <<>>) \o rest.val, rest.s)

OnValue(m, op(_)) == IF m.err # NoError THEN m ELSE Gives(op(m.val), m.s)

RECURSIVE Ancestors(_)
Ancestors(class) == {class.name} \cup UNION {Ancestors(c) : c \in Range(class.items)}

\* Instances of a class called Set or of what descends from one are sets.
Instance(class, items) ==
  Value("object", CASE "Set" \in Ancestors(class) -> 1 [] "Set" \notin Ancestors(class) /\ "Bag" \in Ancestors(class) -> 2
                    [] OTHER -> 0, class.name, items)

Collects(v) == v.kind = "object" /\ v.n \in {1, 2}

WalkMeans(name, f, args, s) ==
  LET items == Last(args).items
  IN CASE ~Callable(f) -> Fails("TYPE_EXPECTED_FUNCTION", s)
       [] ~(IF Last(args).kind = "list" THEN name # "collect" ELSE name # "map" /\ Collects(Last(args))) -> Fails("TYPE_EXPECTED_LIST", s)
       [] name = "map" -> OnValue(MapAll(f, items, s), LAMBDA v : ListValue(v))
       [] name = "collect" -> OnValue(MapAll(f, items, s),
            LAMBDA v : [Last(args) EXCEPT !.items = IF Last(args).n = 1 THEN Distinct(v) ELSE v])
       [] name = "forEachDo" -> OnValue(MapAll(f, items, s), LAMBDA v : ListValue(<<>>))
       [] name = "filter" -> OnValue(Filtered(f, items, s), LAMBDA v : [Last(args) EXCEPT !.items = v])
       [] name = "all" -> OnValue(Search(f, items, FALSE, s), LAMBDA v : BoolValue(v = <<>>))
       [] name = "exists" -> OnValue(Search(f, items, TRUE, s), LAMBDA v : BoolValue(v # <<>>))
       [] name = "locate" -> OnValue(Search(f, items, TRUE, s), LAMBDA v : IF v = <<>> THEN ListValue(v) ELSE v[1])
       [] name = "reduce" -> Reduced(f, args[2], items, s)

SetMeans(args, s) ==
  LET class == Lookup(s.env, "Set")
  IN IF class.kind # "class" THEN Fails("TYPE_EXPECTED_CLASS", s)
     ELSE IF args = <<>> THEN Gives(Instance(class, <<>>), s)
     ELSE IF args[1].kind # "list" THEN Fails("TYPE_EXPECTED_LIST", s)
     ELSE IF "Set" \notin Ancestors(class) THEN Fails("TYPE_EXPECTED_CLASS", s)
     ELSE Gives(Instance(class, Distinct(args[1].items)), s)

BuiltinMeans(f, args, s, inEnv) ==
  CASE f.name \in Walks -> WalkMeans(f.name, args[1], args, s)
    [] f.name = "set" -> IF inEnv THEN SetMeans(args, s) ELSE Fails("NAME_UNBOUND", s)
    [] f.name = "ask" -> Gives(StringValue(s.asked + 1), [s EXCEPT !.asked = @ + 1])
    [] f.name = "size" -> IF args[1].kind = "list" \/ Collects(args[1])
                          THEN IF Len(args[1].items) \in Ints THEN Gives(IntValue(Len(args[1].items)), s) ELSE Fails("INT_OVERFLOW", s)
                          ELSE Fails("TYPE_EXPECTED_LIST", s)
    [] f.name = "callableParams" ->
         IF ~Callable(args[1]) THEN Fails("TYPE_EXPECTED_FUNCTION", s)
         ELSE LET names == Needed(args[1])
              IN Gives(ListValue([i \in DOMAIN names |-> Atom(names[i])]), s)
    [] f.name = "callableArityRange" ->
         IF ~Callable(args[1]) THEN Fails("TYPE_EXPECTED_FUNCTION", s)
         ELSE IF Most(args[1]) \notin Ints THEN Fails("INT_OVERFLOW", s)
         ELSE Gives(ListValue(<<IntValue(Least(args[1])), IntValue(Most(args[1]))>>), s)
    [] f.name = "subset" ->
         IF ~Collects(args[1]) \/ ~Collects(args[2]) \/ args[1].n # args[2].n THEN Fails("TYPE_EXPECTED_LIST", s)
         ELSE Gives(BoolValue(Range(args[1].items) \subseteq Range(args[2].items)), s)
    [] f.name = "hd" -> IF args[1].kind # "list" THEN Fails("TYPE_EXPECTED_LIST", s)
                        ELSE IF args[1].items = <<>> THEN Fails("LIST_EMPTY", s)
                        ELSE Gives(args[1].items[1], s)

\* The environment of the caller is only seen by builtins, and changed by none.
Apply(f, args, s, inEnv) ==
  LET n == Len(args)
  IN IF Misfit(f, n) # NoError THEN Fails(Misfit(f, n), s)
     ELSE IF f.kind # "function" /\ n < Least(f) THEN Gives([f EXCEPT !.items = @ \o args], s)
     ELSE IF f.kind = "builtin" THEN BuiltinMeans(f, f.items \o args, s, inEnv)
     ELSE IF f.kind = "method"
     THEN BuiltinMeans(f, IF f.name = "subset" THEN f.items \o args ELSE Tail(f.items) \o args \o <<f.items[1]>>, s, inEnv)
     ELSE IF n < Len(f.params)
     THEN Gives(Closure(SubSeq(f.params, n + 1, Len(f.params)), f.body,
                        DefineAll(Within(f), f.params, args), [x \in {} |-> f.body]), s)
     ELSE LET m == Eval(f.body, [s EXCEPT !.env = DefineAll(Within(f), f.params, args)])
          IN [m EXCEPT !.s.env = s.env]

Defined(m, name) == IF m.err # NoError THEN m ELSE [m EXCEPT !.s.env = Define(@, name, m.val)]

RECURSIVE FixAssignments(_)
\* The assignments of a fix, from the left; groups do not count.
FixAssignments(tree) ==
  CASE tree.op = "group" -> FixAssignments(tree.kids[1])
    [] tree.op = ";" -> FixAssignments(tree.kids[1]) \o FixAssignments(tree.kids[2])
    [] OTHER -> <<tree>>

FixMeans(names, body, s) ==
  LET parts == FixAssignments(body)
      peers == [f \in Range(names) |-> parts[CHOOSE k \in DOMAIN parts : parts[k].names[1] = f].kids[1]]
      closures == [i \in DOMAIN names |-> Closure(peers[names[i]].names, peers[names[i]].kids[1], s.env, peers)]
  IN IF FixDiagnostic(names, parts) # NoError THEN Fails(FixDiagnostic(names, parts), s)
     ELSE Gives(Last(closures), [s EXCEPT !.env = DefineAll(@, names, closures)])

LogicMeans(tree, s) ==
  LET first == EvalAll(<<tree.kids[1]>>, s, <<"bool", "TYPE_EXPECTED_BOOL">>)
  IN IF first.err # NoError THEN first
     ELSE IF IsTrue(first.val[1]) = (tree.op = "or") THEN Gives(first.val[1], first.s)
     ELSE OnValue(EvalAll(<<tree.kids[2]>>, first.s, <<"bool", "TYPE_EXPECTED_BOOL">>), LAMBDA v : v[1])

OperatorMeans(tree, s) ==
  LET op == tree.op
      required == CASE op \in Operations \cup Orderings \cup {"neg"} -> <<"int", "TYPE_EXPECTED_INT">>
                    [] op = "new" -> <<"class", "TYPE_EXPECTED_CLASS">>
                    [] op = "not" -> <<"bool", "TYPE_EXPECTED_BOOL">>
                    [] OTHER -> <<>>
      m == EvalAll(tree.kids, s, required)
      v == m.val
  IN IF m.err # NoError THEN m
     ELSE CASE op \in Operations -> Number_(Arithmetic(op, v[1].n, v[2].n), m.s)
            [] op \in Orderings -> Gives(BoolValue(Compare(op, v[1].n, v[2].n)), m.s)
            [] op = "neg" -> Number_(Arithmetic("-", 0, v[1].n), m.s)
            [] op = "new" -> Gives(Instance(v[1], <<>>), m.s)
            [] op = "not" -> Gives(BoolValue(v[1] = BoolValue(FALSE)), m.s)
            [] op = "cons" -> IF v[2].kind = "list" THEN Gives(ListValue(<<v[1]>> \o v[2].items), m.s)
                              ELSE Fails("TYPE_EXPECTED_LIST", m.s)
            [] op \in Equalities -> IF v[1].kind # v[2].kind THEN Fails("TYPE_EQUALITY_MISMATCH", m.s)
                                    ELSE Gives(BoolValue((v[1] = v[2]) = (op = "==")), m.s)

IfMeans(tree, s) ==
  LET m == EvalAll(<<tree.kids[1]>>, s, <<"bool", "TYPE_EXPECTED_BOOL">>)
  IN IF m.err # NoError THEN m ELSE Eval(tree.kids[IF IsTrue(m.val[1]) THEN 2 ELSE 3], m.s)

CallMeans(tree, s) ==
  LET f == Eval(tree.kids[1], s)
      n == Len(tree.kids) - 1
  IN IF f.err # NoError THEN f
     ELSE IF Misfit(f.val, n) # NoError THEN Fails(Misfit(f.val, n), f.s)
     ELSE LET args == EvalAll(Tail(tree.kids), f.s, <<>>)
          IN IF args.err # NoError THEN args ELSE Apply(f.val, args.val, args.s, TRUE)

Eval(tree, s) ==
  LET op == tree.op
  IN CASE op = "int" -> Number_(Literal(tree.n), s)
       [] op = "bool" -> Gives(BoolValue(tree.n = 1), s)
       [] op = "nil" -> Gives(ListValue(<<>>), s)
       [] op = "id" -> IF Bound(s.env, tree.names[1]) THEN Gives(Lookup(s.env, tree.names[1]), s) ELSE Fails("NAME_UNBOUND", s)
       [] op = "group" -> Eval(tree.kids[1], s)
       [] op = "neg" /\ tree.kids[1].op = "int" /\ tree.kids[1].n = -MinInt -> Gives(IntValue(MinInt), s)
       [] op \in Logical -> LogicMeans(tree, s)
       [] op = "if" -> IfMeans(tree, s)
       [] op = ";" -> LET m == Eval(tree.kids[1], s) IN IF m.err # NoError THEN m ELSE Eval(tree.kids[2], m.s)
       [] op = "::" -> Gives(Closure(tree.names, tree.kids[1], s.env, [x \in {} |-> tree]), s)
       [] op = ":=" -> Defined(Eval(tree.kids[1], s), tree.names[1])
       [] op = "f:=" -> FixMeans(tree.names, tree, s)
       [] op = "fix" -> FixMeans(tree.names, tree.kids[1], s)
       [] op = "where" -> LET m == Defined(Eval(tree.kids[2], s), tree.names[1])
                              body == Eval(tree.kids[1], m.s)
                          IN IF m.err # NoError THEN [m EXCEPT !.s.env = s.env] ELSE [body EXCEPT !.s.env = s.env]
       [] op = "attr" -> LET m == EvalAll(tree.kids, s, <<"object", "TYPE_EXPECTED_OBJECT">>)
                         IN IF m.err # NoError THEN m
                            ELSE IF tree.names[1] \in {"map", "hd"} \/ ~Collects(m.val[1]) THEN Fails("ATTRIBUTE_UNBOUND", m.s)
                            ELSE Gives(Method(tree.names[1], m.val[1]), m.s)
       [] op = "class" -> LET m == EvalAll(tree.kids, s, <<"class", "TYPE_EXPECTED_CLASS">>)
                          IN Defined(OnValue(m, LAMBDA v : Class(tree.names[1], v)), tree.names[1])
       [] op = "call" -> CallMeans(tree, s)
       [] OTHER -> OperatorMeans(tree, s)

Params(v) == IF "params" \in DOMAIN v THEN v.params ELSE functions[v.n].params

RECURSIVE Seen(_)
\* Functions are told apart by what calls of them give; the rest is seen.
Seen(v) ==
  IF v.kind = "function" THEN Value("function", Len(Params(v)), "", <<>>)
  ELSE [v EXCEPT !.items = [i \in DOMAIN v.items |-> Seen(v.items[i])]]

SeenOutcomes(os) == [i \in DOMAIN os |-> [os[i] EXCEPT !.val = Seen(@)]]
SeenEnv(env) == [x \in DOMAIN env |-> Seen(env[x])]

\* The outcomes of the statements of a session; a failure keeps what was defined
\* before it.
Meaning(statements) ==
  FoldLeft(LAMBDA before, tree :
             LET m == Eval(tree, before.s)
             IN [outcomes |-> Append(before.outcomes, [err |-> m.err, val |-> m.val]), s |-> m.s],
           [outcomes |-> <<>>, s |-> [env |-> [x \in {} |-> IntValue(0)], asked |-> 0]], statements)

(***************************************************************************)
(* A session prints and defines what its program means: operands from the  *)
(* left, logical operators and conditionals no further than needed, a      *)
(* function in the environment it was made in and without effect on that   *)
(* of its caller, every failure that of the first part to fail.            *)
(***************************************************************************)
MeaningAgrees ==
  (next > Len(program) /\ Depth = 0) =>
    LET meaning == Meaning(program)
    IN /\ SeenOutcomes(outcomes) = SeenOutcomes(meaning.outcomes)
       /\ SeenEnv(envs[1]) = SeenEnv(meaning.s.env)
       /\ answers = meaning.s.asked

-----------------------------------------------------------------------------
(***************************************************************************)
(* Programs.  Operators over values of every kind and every corner of the  *)
(* integers, two deep; and sessions of two definitions and a use.          *)
(***************************************************************************)
Lit(n) == Tree("int", n, <<>>, <<>>)
Truth(n) == Tree("bool", n, <<>>, <<>>)
Nil == Tree("nil", 0, <<>>, <<>>)
Id(x) == Tree("id", 0, <<x>>, <<>>)
Op1(op, a) == Tree(op, 0, <<>>, <<a>>)
Op2(op, a, b) == Tree(op, 0, <<>>, <<a, b>>)
If(c, a, b) == Tree("if", 0, <<>>, <<c, a, b>>)
Lambda(params, body) == Tree("::", 0, params, <<body>>)
Assign(x, e) == Tree(":=", 0, <<x>>, <<e>>)
Fun(f, params, body) == Tree("f:=", 0, <<f>>, <<Lambda(params, body)>>)
Fix(names, body) == Tree("fix", 0, names, <<body>>)
Where(body, x, e) == Tree("where", 0, <<x>>, <<body, e>>)
Call(f, args) == Tree("call", 0, <<>>, <<f>> \o args)
Do(f, args) == Call(Id(f), args)
Attr(a, x) == Tree("attr", 0, <<x>>, <<a>>)
Send(a, x, args) == Call(Attr(a, x), args)

Least_ == Op1("neg", Lit(MaxInt + 1))
Atoms == {Lit(n) : n \in 0..(MaxInt + 1)} \cup {Op1("neg", Lit(n)) : n \in 1..(MaxInt + 1)}
           \cup {Truth(0), Truth(1), Nil, Id("u"), Id("hd"), Id("Set")}
FewAtoms == {Lit(MaxInt), Least_, Truth(1), Id("u")}
FewOperators == {"+", "/", "<", "==", "and", "or", "cons"}

Operators ==
  {Op2(op, a, b) : op \in Binary, a \in Atoms, b \in Atoms}
  \cup {Op1(op, a) : op \in Unary \cup {"group"}, a \in Atoms}
  \cup {Op1("neg", Op1(op, a)) : op \in Unary \cup {"group"}, a \in Atoms}
  \cup {If(a, b, c) : a \in Atoms, b \in FewAtoms, c \in FewAtoms}

Nested ==
  LET inner == {Op2(op, a, b) : op \in FewOperators, a \in FewAtoms, b \in FewAtoms}
  IN {Op2(op, a, b) : op \in FewOperators, a \in inner, b \in FewAtoms}
     \cup {Op2(op, a, b) : op \in FewOperators, a \in FewAtoms, b \in inner}

X == Id("x")
Y == Id("y")
One == Lit(1)
Two == Lit(2)
Minus(a, b) == Op2("-", a, b)
Then(a, b) == Op2(";", a, b)
Until(stop, go) == If(Op2("<", Y, One), stop, go)
DefClass(name, superclasses) == Tree("class", 0, <<name>>, superclasses)
Numbers == Op2("cons", One, Op2("cons", Two, Nil))

Even == Assign("f", Lambda(<<"y">>, Until(Truth(1), Do("g", <<Minus(Y, One)>>))))
Odd == Fun("g", <<"y">>, Until(X, Do("f", <<Minus(Y, One)>>)))

Definitions ==
  {Assign("x", One), Assign("x", Two), Assign("x", Do("ask", <<>>)),
   Assign("f", Lambda(<<"y">>, Minus(X, Y))), Fun("f", <<"y">>, Minus(Y, X)),
   Fun("f", <<"y">>, Until(X, Do("f", <<Minus(Y, One)>>))),
   Fun("f", <<"y", "x">>, Minus(Y, X)), Fun("f", <<>>, Then(Assign("x", Two), Do("ask", <<>>))),
   Assign("f", Lambda(<<"y">>, Then(Assign("x", Y), X))),
   Assign("f", Lambda(<<"x">>, Lambda(<<"y">>, Minus(X, Y)))),
   Fun("f", <<"f">>, Id("f")), Fun("g", <<"f">>, Do("f", <<X>>)),
   Fix(<<"f", "g">>, Op1("group", Then(Even, Odd))), Fix(<<"g", "f">>, Then(Even, Odd)),
   Fix(<<"f", "g">>, Even), Fix(<<"f", "g">>, Then(Even, Even)), Fix(<<"f">>, Assign("f", One)), Fix(<<"f">>, Then(Even, X)),
   Assign("g", Id("f")), Assign("f", Do("f", <<One>>)), Assign("x", Where(Minus(X, Y), "y", Assign("x", Two))),
   Assign("Set", Id("Bag")), Assign("Set", Nil), DefClass("Set", <<Id("Object")>>), DefClass("x", <<Id("Set"), X>>),
   Assign("Set", DefClass("g", <<Id("Bag"), Id("Set")>>)),
   Assign("f", Do("map", <<Lambda(<<"y">>, Do("ask", <<>>))>>)), Assign("f", Id("set")),
   Assign("f", Lambda(<<"y">>, Do("set", <<Y>>))), Assign("x", Do("set", <<Op2("cons", One, Numbers)>>)),
   Assign("g", Attr(X, "filter")), Assign("f", Attr(X, "subset")), Assign("g", Send(X, "reduce", <<Id("f")>>)),
   Assign("f", Lambda(<<"y">>, Send(X, "all", <<Lambda(<<"z">>, Op2("==", Y, Id("z")))>>)))}

Uses ==
  {X, Do("f", <<One>>), Do("g", <<Two>>), Do("f", <<Two, One>>), Call(Do("f", <<Two>>), <<One>>), Do("f", <<>>),
   Do("f", <<Id("f")>>), Do("g", <<Id("f")>>), Minus(Do("f", <<Assign("x", Two)>>), X), Do("f", <<Id("u")>>),
   Where(Do("f", <<Y>>), "y", X), Where(Id("u"), "x", Two),
   Do("f", <<Numbers>>), Do("size", <<Do("f", <<Op2("cons", One, Numbers)>>)>>), Do("size", <<Do("set", <<>>)>>),
   Do("map", <<Id("set"), Op2("cons", Numbers, Nil)>>), Do("map", <<Id("ask"), Numbers>>), Do("reduce", <<Id("f"), One, Numbers>>)}
  \cup {Do(walk, <<Id("f"), Numbers>>) : walk \in Walks \ {"reduce"}}
  \cup {Do(walk, <<Lambda(<<"y">>, Op2("<", Y, X)), Numbers>>) : walk \in Predicates}
  \cup {Send(X, m, <<Id("f")>>) : m \in {"map", "filter", "collect", "reduce", "subset"}}
  \cup {Do(info, <<Id(f)>>) : info \in {"callableParams", "callableArityRange"}, f \in {"f", "g", "set", "u"}}
  \cup {Op1("new", X), Send(Op1("new", Id("Bag")), "collect", <<Id("f")>>), Do("subset", <<Op1("new", Id("Set")), Do("set", <<>>)>>),
         Do("set", <<Numbers>>), Do("map", <<Id("f"), Op1("new", Id("Set"))>>)}
  \cup {Do("g", <<X>>), Do("f", <<X>>), Do("size", <<Send(X, "collect", <<Lambda(<<"y">>, One)>>)>>), Do("subset", <<X, X>>),
         Send(X, "reduce", <<Id("f"), Two>>), Send(X, "size", <<>>)}
  \cup {Call(Do("filter", <<Lambda(<<"y">>, Op2("<", Y, X))>>), <<Do("set", <<Numbers>>)>>)}

Sessions == {<<d, e, u>> : d \in Definitions, e \in Definitions, u \in Uses}

\* More items, and more parameters, than the largest integer.
Corners ==
  {Do("size", <<Op2("cons", One, Op2("cons", One, Numbers))>>),
   Do("callableArityRange", <<Lambda(<<"a", "b", "c", "d">>, One)>>)}

MCPrograms == {<<e>> : e \in Operators \cup Nested \cup Corners} \cup Sessions

=============================================================================
