----------------------------- MODULE EnactEval ------------------------------
(***************************************************************************)
(* Evaluation of statements (eval.c, function.c, and the builtins of       *)
(* builtin.c that call back): the C stack of enact_eval_value with the     *)
(* values its frames hold, the environments that where and calls open, the *)
(* functions and what they have captured.  A failure unwinds the stack.    *)
(* Classes, methods and super are in EnactDispatch; who frees values is in *)
(* EnactHeap.                                                              *)
(***************************************************************************)
EXTENDS EnactArithmetic, EnactLists

CONSTANTS
  MaxHeight,   \* bound on the height of syntax trees
  Programs     \* sequences of statements, entered into a session

VARIABLES
  program,
  next,        \* the statement that is entered next
  frames,      \* the C stack
  envs,        \* the environments that exist: the session's, then the local ones
  functions,   \* EnactFunction: the functions made so far
  answers,     \* how many questions have been answered
  outcomes,    \* of the statements so far
  error        \* the diagnostic on its way up, or NoError

store == <<envs, functions, answers>>
vars == <<program, next, frames, envs, functions, answers, outcomes, error>>

-----------------------------------------------------------------------------
(***************************************************************************)
(* Syntax trees and values.                                                *)
(***************************************************************************)
Tree(op, n, names, kids) == [op |-> op, n |-> n, names |-> names, kids |-> kids]

Orderings == {"<", ">", "<=", ">="}
Equalities == {"==", "!="}
Unary == {"neg", "not", "new"}
Logical == {"and", "or"}
Binary == Operations \cup Orderings \cup Equalities \cup Logical \cup {"cons"}
Leaves == {"int", "bool", "nil", "id"}

\* What the parser makes; the literal of f(x) := body is a function.
WellFormed(t) ==
  /\ CASE t.op \in Leaves -> Len(t.kids) = 0
       [] t.op \in Unary \cup {"group", "::", ":=", "f:=", "fix", "attr"} -> Len(t.kids) = 1
       [] t.op \in Binary \cup {";", "where"} -> Len(t.kids) = 2
       [] t.op = "if" -> Len(t.kids) = 3
       [] t.op = "call" -> Len(t.kids) >= 1
       [] OTHER -> t.op = "class"
  /\ t.op \in {":=", "f:="} => Len(t.names) = 1
  /\ t.op = "f:=" => t.kids[1].op = "::"

\* The trees of a height up to h.
TreesUpTo[h \in 0..MaxHeight] ==
  {t \in [op : STRING, n : Nat, names : Seq(STRING),
           kids : IF h = 0 THEN {<<>>} ELSE Seq(TreesUpTo[h - 1])] : WellFormed(t)}

Trees == TreesUpTo[MaxHeight]

ASSUME SyntaxAssumption == MaxHeight \in Nat /\ Programs \subseteq Seq(Trees)

\* A function is known by its number; items are those of a list or a
\* collection, or the arguments a partial application has.  A method of a
\* collection has its receiver before them, and the place of the receiver.
Value(kind, n, name, items) == [kind |-> kind, n |-> n, name |-> name, items |-> items]

IntValue(n) == Value("int", n, "", <<>>)
BoolValue(b) == Value("bool", IF b THEN 1 ELSE 0, "", <<>>)
StringValue(n) == Value("string", n, "", <<>>)
ListValue(items) == Value("list", 0, "", items)
Function(f) == Value("function", f, "", <<>>)
Builtin(name, items) == Value("builtin", 0, name, items)
Atom(name) == Value("atom", 0, name, <<>>)

\* ENACT_COLLECTION_NONE, SET and BAG: what kind the instances of a class are
\* of goes by the names of its ancestors.
CollectionKind(name, superclasses) ==
  LET inherits(kind, builtin) ==
        name = builtin \/ \E i \in DOMAIN superclasses : superclasses[i].n = kind
  IN IF inherits(1, "Set") THEN 1 ELSE IF inherits(2, "Bag") THEN 2 ELSE 0

Class(name, superclasses) ==
  Value("class", CollectionKind(name, superclasses), name, superclasses)

Object(class) == Value("object", class.n, class.name, <<>>)
IsCollection(v) == v.kind = "object" /\ v.n # 0
IsSet(v) == v.kind = "object" /\ v.n = 1

IsTrue(v) == v.n = 1

\* The builtins and the names of their parameters.
ParamNames ==
  [hd |-> <<"list">>, size |-> <<"collection">>, ask |-> <<>>, set |-> <<"items">>,
   callableParams |-> <<"callable">>, callableArityRange |-> <<"callable">>, subset |-> <<"left", "right">>,
   map |-> <<"function", "collection">>, collect |-> <<"function", "collection">>,
   filter |-> <<"predicate", "collection">>, all |-> <<"predicate", "collection">>,
   exists |-> <<"predicate", "collection">>, locate |-> <<"predicate", "collection">>,
   forEachDo |-> <<"function", "collection">>, reduce |-> <<"function", "initial", "collection">>]

\* native_collection_method_table: where the receiver goes, from 0.
CollectionMethods ==
  [size |-> 0, subset |-> 0, collect |-> 1, filter |-> 1, all |-> 1, exists |-> 1,
   locate |-> 1, forEachDo |-> 1, reduce |-> 2]

Method(name, receiver) == Value("method", CollectionMethods[name], name, <<receiver>>)

Predicates == {"filter", "all", "exists", "locate"}
Walks == Predicates \cup {"map", "collect", "forEachDo", "reduce"}

\* What every session begins with; an environment holds what was defined since.
Installed ==
  [x \in DOMAIN ParamNames \cup {"Object", "Set", "Bag"} |->
     IF x \in DOMAIN ParamNames THEN Builtin(x, <<>>)
     ELSE Class(x, IF x = "Object" THEN <<>> ELSE <<Class("Object", <<>>)>>)]

Bound(env, name) == name \in DOMAIN env \cup DOMAIN Installed
Lookup(env, name) == IF name \in DOMAIN env THEN env[name] ELSE Installed[name]
Define(env, name, v) ==
  [x \in DOMAIN env \cup {name} |-> IF x = name THEN v ELSE env[x]]

\* One after the other, those at the positions in I.
DefineAt(env, names, values, I) ==
  LET at(x) == {i \in I : names[i] = x}
  IN [x \in DOMAIN env \cup {names[i] : i \in I} |->
        IF at(x) = {} THEN env[x] ELSE values[CHOOSE i \in at(x) : \A j \in at(x) : j <= i]]

DefineAll(env, names, values) == DefineAt(env, names, values, DOMAIN values)

-----------------------------------------------------------------------------
(***************************************************************************)
(* Frames.                                                                 *)
(***************************************************************************)
NoError == "NONE"

\* done: the values of the operands so far; env: NULL is 0; local: whether an
\* environment has been opened; held: the arguments that a walk works on, or parts of a fix.
Frame(tree, env) == [tree |-> tree, env |-> env, local |-> FALSE, held |-> <<>>, done |-> <<>>]

Depth == Len(frames)
Top == frames[Depth]
Op == Top.tree.op
Done == Len(Top.done)
Result(k) == Top.done[k]
Kid(k) == Top.tree.kids[k]
Env == envs[Top.env]

Evaluating(ops) == error = NoError /\ Depth > 0 /\ Op \in ops
SetTop(frame) == frames' = [frames EXCEPT ![Depth] = frame]
Only(changed) == UNCHANGED <<program, next>> /\ changed

Push(frame) == frames' = Append(frames, frame) /\ UNCHANGED <<outcomes, error>>
Child(tree) == Push(Frame(tree, Top.env))

\* return enact_eval_value(...): nothing is held any more.
Become(tree) == SetTop(Frame(tree, Top.env)) /\ UNCHANGED <<outcomes, error>>

Return(v) ==
  /\ UNCHANGED error
  /\ IF Depth = 1
     THEN frames' = <<>> /\ outcomes' = Append(outcomes, [err |-> NoError, val |-> v])
     ELSE /\ frames' = [Front(frames) EXCEPT ![Depth - 1].done = Append(@, v)]
          /\ UNCHANGED outcomes

Fail(diag) == error' = diag /\ UNCHANGED <<frames, outcomes>>

ReturnOrFail(c) == IF c.err = "OK" THEN Return(IntValue(c.n)) ELSE Fail(c.err)

-----------------------------------------------------------------------------
Init ==
  /\ program \in Programs /\ next = 1
  /\ frames = <<>> /\ envs = <<[x \in {} |-> IntValue(0)]>> /\ functions = <<>>
  /\ answers = 0 /\ outcomes = <<>> /\ error = NoError

\* enact_session_eval_text, once the text is parsed.
Enter ==
  /\ Depth = 0 /\ error = NoError /\ next <= Len(program)
  /\ frames' = <<Frame(program[next], 1)>>
  /\ next' = next + 1
  /\ UNCHANGED <<program, envs, functions, answers, outcomes, error>>

-----------------------------------------------------------------------------
(***************************************************************************)
(* Operands.  A value of the wrong kind fails before the next operand is   *)
(* evaluated.                                                              *)
(***************************************************************************)
Strict == Unary \cup Binary \cup {"if", "class"}

Operands == IF Op = "if" THEN 1 ELSE Len(Top.tree.kids)

\* The kind that the operand behind k - 1 others must have, and the diagnostic
\* for all others.
Expected(k) ==
  CASE Op \in Operations \cup Orderings \cup {"neg"} -> <<"int", "TYPE_EXPECTED_INT">>
    [] Op \in Logical \cup {"not", "if"} -> <<"bool", "TYPE_EXPECTED_BOOL">>
    [] Op \in {"new", "class"} -> <<"class", "TYPE_EXPECTED_CLASS">>
    [] Op \in Equalities -> <<Result(1).kind, "TYPE_EQUALITY_MISMATCH">>
    [] Op = "cons" -> <<IF k = 2 THEN "list" ELSE Result(1).kind, "TYPE_EXPECTED_LIST">>

\* enact_require_int, enact_require_bool, enact_require_list, enact_require_class
Accepted == Done = 0 \/ Result(Done).kind = Expected(Done)[1]

\* and, or: the left operand decides.
Decided == Op \in Logical /\ Done = 1 /\ IsTrue(Result(1)) = (Op = "or")

IsLeastInt == Op = "neg" /\ Kid(1).op = "int" /\ IsMinInt(Kid(1).n)

EvalOperand ==
  /\ Evaluating(Strict) /\ Done < Operands
  /\ ~IsLeastInt /\ (Accepted => ~Decided)
  /\ IF Accepted THEN Child(Kid(Done + 1)) ELSE Fail(Expected(Done)[2])
  /\ Only(UNCHANGED store)

Applied ==
  CASE Op \in Orderings -> BoolValue(Compare(Op, Result(1).n, Result(2).n))
    [] Op \in Equalities -> BoolValue((Result(1) = Result(2)) = (Op = "=="))
    [] Op = "cons" -> ListValue(<<Result(1)>> \o Result(2).items)
    [] Op = "new" -> Object(Result(1))
    [] Op = "not" -> BoolValue(~IsTrue(Result(1)))
    [] Op \in Logical -> Result(2)

\* The operator itself, with all of its operands.  Objects and callables are
\* equal if they are the same; programs do not compare them.
EvalOperator ==
  /\ Evaluating(Unary \cup Binary) /\ Done = Operands
  /\ CASE ~Accepted -> Fail(Expected(Done)[2])
       [] Accepted /\ Op \in Operations -> ReturnOrFail(CheckedBinary(Op, Result(1).n, Result(2).n))
       [] Accepted /\ Op = "neg" -> ReturnOrFail(Negated(Result(1).n))
       [] OTHER -> Return(Applied)
  /\ Only(UNCHANGED store)

EvalDecided ==
  /\ Evaluating(Logical) /\ Done = 1 /\ Accepted /\ Decided
  /\ Return(BoolValue(Op = "or"))
  /\ Only(UNCHANGED store)

EvalLeastInt ==
  /\ Evaluating({"neg"}) /\ IsLeastInt
  /\ Return(IntValue(MinInt))
  /\ Only(UNCHANGED store)

EvalConditional ==
  /\ Evaluating({"if"}) /\ Done = 1
  /\ IF Accepted THEN Become(Kid(IF IsTrue(Result(1)) THEN 2 ELSE 3)) ELSE Fail(Expected(1)[2])
  /\ Only(UNCHANGED store)

EvalLeaf ==
  /\ Evaluating({"int", "bool", "nil", "id"})
  /\ CASE Op = "int" -> ReturnOrFail(Literal(Top.tree.n))
       [] Op = "bool" -> Return(BoolValue(Top.tree.n = 1))
       [] Op = "nil" -> Return(ListValue(<<>>))
       [] Op = "id" -> LET name == Top.tree.names[1]
                       IN IF Bound(Env, name) THEN Return(Lookup(Env, name)) ELSE Fail("NAME_UNBOUND")
  /\ Only(UNCHANGED store)

EvalGroup ==
  /\ Evaluating({"group"}) /\ Become(Kid(1))
  /\ Only(UNCHANGED store)

EvalSequence ==
  /\ Evaluating({";"})
  /\ IF Done = 0 THEN Child(Kid(1)) ELSE Become(Kid(2))
  /\ Only(UNCHANGED store)

-----------------------------------------------------------------------------
(***************************************************************************)
(* Definitions and functions.                                              *)
(***************************************************************************)
NoName == ""

\* The function that a literal makes in an environment; self is its
\* recursive_name.
MakeFunction(literal, env, self) ==
  [params |-> literal.names, body |-> literal.kids[1], env |-> env, self |-> self]

NextFunction == Function(Len(functions) + 1)

EvalFunctionLiteral ==
  /\ Evaluating({"::"})
  /\ functions' = Append(functions, MakeFunction(Top.tree, Env, NoName))
  /\ Return(NextFunction)
  /\ Only(UNCHANGED <<envs, answers>>)

Target == Top.tree.names[1]
SetEnv(env) == envs' = [envs EXCEPT ![Top.env] = env]

EvalAssignment ==
  /\ Evaluating({":="})
  /\ IF Done = 0 THEN Child(Kid(1)) /\ UNCHANGED envs
     ELSE Return(Result(1)) /\ SetEnv(Define(Env, Target, Result(1)))
  /\ Only(UNCHANGED <<functions, answers>>)

\* EnactClasses has what becomes of several superclasses.
EvalClassDefinition ==
  /\ Evaluating({"class"}) /\ Done = Operands
  /\ LET class == Class(Target, Top.done)
     IN IF Accepted THEN Return(class) /\ SetEnv(Define(Env, Target, class))
        ELSE Fail(Expected(Done)[2]) /\ UNCHANGED envs
  /\ Only(UNCHANGED <<functions, answers>>)

\* f(x) := body.  The environment is captured before f is defined in it.
EvalRecursiveAssignment ==
  /\ Evaluating({"f:="})
  /\ functions' = Append(functions, MakeFunction(Kid(1), Env, Target))
  /\ SetEnv(Define(Env, Target, NextFunction))
  /\ Return(NextFunction)
  /\ Only(UNCHANGED answers)

\* The body of a fix is taken apart from the left; groups do not count.
Wrapped(parts) == {i \in DOMAIN parts : parts[i].op \in {"group", ";"}}

Unnested(parts) ==
  LET i == CHOOSE k \in Wrapped(parts) : \A j \in Wrapped(parts) : k <= j
  IN SubSeq(parts, 1, i - 1) \o parts[i].kids \o SubSeq(parts, i + 1, Len(parts))

CollectFix ==
  /\ Evaluating({"fix"}) /\ (Top.held = <<>> \/ Wrapped(Top.held) # {})
  /\ SetTop([Top EXCEPT !.held = IF @ = <<>> THEN <<Kid(1)>> ELSE Unnested(@)])
  /\ UNCHANGED <<outcomes, error>>
  /\ Only(UNCHANGED store)

\* enact_collect_fix_assignments: the first part that is none decides.
FixPart(names, parts, i) ==
  IF \/ parts[i].op \notin {":=", "f:="} \/ parts[i].names[1] \notin Range(names)
     \/ \E j \in 1..(i - 1) : parts[j].names = parts[i].names
  THEN "PARSE_UNEXPECTED_TOKEN"
  ELSE IF parts[i].kids[1].op # "::" THEN "TYPE_EXPECTED_FUNCTION" ELSE NoError

FixDiagnostic(names, parts) ==
  LET wrong == {i \in DOMAIN parts : FixPart(names, parts, i) # NoError}
  IN IF wrong # {} THEN FixPart(names, parts, CHOOSE i \in wrong : \A j \in wrong : i <= j)
     ELSE IF Len(parts) < Len(names) THEN "PARSE_UNEXPECTED_TOKEN" ELSE NoError

MutPeers(names, env, addresses, i) == DefineAt(env, names, addresses, 1..(i - 1))

\* Every function captures the others; itself it finds by its recursive_name.
Peers(names, env, addresses, i) == DefineAt(env, names, addresses, DOMAIN names \ {i})

EvalFix ==
  /\ Evaluating({"fix"}) /\ Top.held # <<>> /\ Wrapped(Top.held) = {}
  /\ LET names == Top.tree.names
         parts == Top.held
         literal(i) == parts[CHOOSE k \in DOMAIN parts : parts[k].names[1] = names[i]].kids[1]
         addresses == [i \in DOMAIN names |-> Function(Len(functions) + i)]
     IN IF FixDiagnostic(names, parts) # NoError
        THEN Fail(FixDiagnostic(names, parts)) /\ UNCHANGED <<envs, functions>>
        ELSE /\ functions' = functions \o
                  [i \in DOMAIN names |->
                     MakeFunction(literal(i), Peers(names, Env, addresses, i), names[i])]
             /\ SetEnv(DefineAll(Env, names, addresses))
             /\ Return(Last(addresses))
  /\ Only(UNCHANGED answers)

OpenEnv(env) == envs' = Append(envs, env)
CloseEnv == envs' = Front(envs)
Local == [Top EXCEPT !.local = TRUE]

\* Value and body are evaluated in a clone of the environment.
EvalWhere ==
  /\ Evaluating({"where"})
  /\ LET n == Len(envs)
     IN \/ /\ ~Top.local
           /\ OpenEnv(Env)
           /\ frames' = Append([frames EXCEPT ![Depth] = Local], Frame(Kid(2), n + 1))
           /\ UNCHANGED <<outcomes, error>>
        \/ /\ Top.local /\ Done = 1
           /\ envs' = [envs EXCEPT ![n] = Define(@, Target, Result(1))]
           /\ Push(Frame(Kid(1), n))
        \/ /\ Top.local /\ Done = 2
           /\ CloseEnv /\ Return(Result(2))
  /\ Only(UNCHANGED <<functions, answers>>)

\* A collection has no attributes but its methods (EnactDispatch has the others).
EvalAttribute ==
  /\ Evaluating({"attr"})
  /\ IF Done = 0 THEN Child(Kid(1))
     ELSE IF Result(1).kind # "object" THEN Fail("TYPE_EXPECTED_OBJECT")
     ELSE IF IsCollection(Result(1)) /\ Target \in DOMAIN CollectionMethods THEN Return(Method(Target, Result(1)))
     ELSE Fail("ATTRIBUTE_UNBOUND")
  /\ Only(UNCHANGED store)

-----------------------------------------------------------------------------
(***************************************************************************)
(* Calls.  "call" is written in the program, "apply" is made by a walk.    *)
(***************************************************************************)
Callable(v) == v.kind \in {"function", "builtin", "method"}

Arity(v) ==
  CASE v.kind = "function" -> Len(functions[v.n].params)
    [] v.kind = "builtin" -> Len(ParamNames[v.name])
    [] v.kind = "method" -> Len(ParamNames[v.name]) - 1

MinArity(v) == IF v.kind = "builtin" /\ v.name = "set" THEN 0 ELSE Arity(v)

Captured(v) == IF v.kind = "method" THEN Len(v.items) - 1 ELSE Len(v.items)

\* enact_builtin_callable_remaining_arity_range
Remaining(v) ==
  <<IF MinArity(v) > Captured(v) THEN MinArity(v) - Captured(v) ELSE 0, Arity(v) - Captured(v)>>

\* enact_eval_check_callable_arity
ArityFits(v, count) == count <= Arity(v) - Captured(v) /\ (count = 0 => MinArity(v) <= Captured(v))

\* enact_builtin_collection_method_params_to_list: from the last, without the
\* receiver and what has been given.
MethodParams(v) ==
  LET visible(i) == IF i < v.n THEN i ELSE i - 1
      names == ParamNames[v.name]
  IN Pick(names, {k \in DOMAIN names : k - 1 # v.n /\ visible(k - 1) >= Captured(v)})

\* enact_builtin_callable_params
CallableParams(v) ==
  CASE v.kind = "function" -> functions[v.n].params
    [] v.kind = "builtin" -> SubSeq(ParamNames[v.name], Captured(v) + 1, Arity(v))
    [] v.kind = "method" -> MethodParams(v)

CallDiagnostic(v, count) ==
  IF ~Callable(v) THEN "TYPE_EXPECTED_FUNCTION"
  ELSE IF ~ArityFits(v, count) THEN "ARITY_MISMATCH" ELSE NoError

Count == IF Op = "call" THEN Len(Top.tree.kids) - 1 ELSE Top.tree.n
Callee == Result(1)
Arguments == Tail(Top.done)

\* The callee, and once it can take so many the arguments, from the left.
EvalCallee ==
  /\ Evaluating({"call"}) /\ Done <= Count
  /\ IF Done = 1 /\ CallDiagnostic(Callee, Count) # NoError
     THEN Fail(CallDiagnostic(Callee, Count))
     ELSE Child(Kid(Done + 1))
  /\ Only(UNCHANGED store)

Applying == Evaluating({"call", "apply"}) /\ Done = Count + 1 /\ ~Top.local

Refuse ==
  /\ Applying /\ CallDiagnostic(Callee, Count) # NoError
  /\ Fail(CallDiagnostic(Callee, Count))
  /\ Only(UNCHANGED store)

Applies(kind) == Applying /\ CallDiagnostic(Callee, Count) = NoError /\ Callee.kind = kind

\* The environment captured by a function, in which it finds itself.
WithSelf(f) ==
  LET captured == functions[f].env
  IN IF functions[f].self = NoName THEN captured ELSE Define(captured, functions[f].self, Function(f))

ParamsOf == functions[Callee.n].params

\* enact_function_partial: a function of the parameters that remain.
ApplyPartially ==
  /\ Applies("function") /\ Count < Len(ParamsOf)
  /\ functions' = Append(functions,
       [params |-> SubSeq(ParamsOf, Count + 1, Len(ParamsOf)), body |-> functions[Callee.n].body,
        env |-> DefineAll(WithSelf(Callee.n), ParamsOf, Arguments), self |-> NoName])
  /\ Return(NextFunction)
  /\ Only(UNCHANGED <<envs, answers>>)

ApplyFunction ==
  /\ Applies("function") /\ Count = Len(ParamsOf)
  /\ OpenEnv(DefineAll(WithSelf(Callee.n), ParamsOf, Arguments))
  /\ frames' = Append([frames EXCEPT ![Depth] = Local], Frame(functions[Callee.n].body, Len(envs) + 1))
  /\ UNCHANGED <<outcomes, error>>
  /\ Only(UNCHANGED <<functions, answers>>)

EndFunction ==
  /\ Evaluating({"call", "apply"}) /\ Top.local /\ Done = Count + 2
  /\ CloseEnv /\ Return(Result(Done))
  /\ Only(UNCHANGED <<functions, answers>>)

Gathered == Callee.items \o Arguments

\* What the builtin is applied to: the receiver of a method at its place.
Collected ==
  IF Callee.kind = "builtin" THEN Gathered ELSE InsertAt(Tail(Gathered), Callee.n + 1, Callee.items[1])

Complete == Captured(Callee) + Count >= MinArity(Callee)

AppliesBuiltin == Applies("builtin") \/ Applies("method")

\* enact_builtin_partial_extend, enact_bound_collection_method_extend
ExtendBuiltin ==
  /\ AppliesBuiltin /\ ~Complete
  /\ Return([Callee EXCEPT !.items = Gathered])
  /\ Only(UNCHANGED store)

IsWalked(v) == v.kind = "list" \/ IsCollection(v)

\* enact_builtin_subset, of two of the same kind
Contained(c, d) == IF IsSet(c) THEN ListIsSubset(c.items, d.items) ELSE ListIsBagSubset(c.items, d.items)

MutHasEnvironment == Top.env = 1

\* A walk passes NULL.
HasEnvironment == Top.env # 0

\* enact_builtin_construct_collection: the class is what Set means where set is
\* called.
Construct(arguments) ==
  IF ~HasEnvironment THEN Fail("NAME_UNBOUND")
  ELSE LET class == Lookup(Env, "Set")
       IN IF class.kind # "class" THEN Fail("TYPE_EXPECTED_CLASS")
          ELSE IF arguments = <<>> THEN Return(Object(class))
          ELSE IF arguments[1].kind # "list" THEN Fail("TYPE_EXPECTED_LIST")
          ELSE IF ~IsSet(Object(class)) THEN Fail("TYPE_EXPECTED_CLASS")
          ELSE Return([Object(class) EXCEPT !.items = DistinctItems(arguments[1].items)])

\* Builtins that do not call back.
ApplyBuiltin ==
  /\ AppliesBuiltin /\ Complete /\ Callee.name \notin Walks \cup {"ask"}
  /\ LET arguments == Collected
     IN \/ Callee.name = "set" /\ Construct(arguments)
        \/ /\ Callee.name = "size"
           /\ IF ~IsWalked(arguments[1]) THEN Fail("TYPE_EXPECTED_LIST")
              ELSE ReturnOrFail(Narrow(Len(arguments[1].items)))
        \/ /\ Callee.name = "hd"
           /\ IF arguments[1].kind # "list" THEN Fail("TYPE_EXPECTED_LIST")
              ELSE IF arguments[1].items = <<>> THEN Fail("LIST_EMPTY")
              ELSE Return(arguments[1].items[1])
        \/ /\ Callee.name = "subset"
           /\ IF IsCollection(arguments[1]) /\ IsCollection(arguments[2]) /\ arguments[1].n = arguments[2].n
              THEN Return(BoolValue(Contained(arguments[1], arguments[2])))
              ELSE Fail("TYPE_EXPECTED_LIST")
        \/ /\ Callee.name = "callableParams"
           /\ IF ~Callable(arguments[1]) THEN Fail("TYPE_EXPECTED_FUNCTION")
              ELSE LET names == CallableParams(arguments[1])
                   IN Return(ListValue([k \in DOMAIN names |-> Atom(names[k])]))
        \/ /\ Callee.name = "callableArityRange"
           /\ IF ~Callable(arguments[1]) THEN Fail("TYPE_EXPECTED_FUNCTION")
              ELSE LET range == Remaining(arguments[1])
                   IN IF \E k \in DOMAIN range : range[k] > MaxInt THEN Fail("INT_OVERFLOW")
                      ELSE Return(ListValue([k \in DOMAIN range |-> IntValue(range[k])]))
  /\ Only(UNCHANGED store)

\* The next line of the provider, which every environment carries.
ApplyAsk ==
  /\ AppliesBuiltin /\ Complete /\ Callee.name = "ask"
  /\ IF ~HasEnvironment THEN Fail("INPUT_UNAVAILABLE") /\ UNCHANGED answers
     ELSE answers' = answers + 1 /\ Return(StringValue(answers + 1))
  /\ Only(UNCHANGED <<envs, functions>>)

-----------------------------------------------------------------------------
(***************************************************************************)
(* Walks.  The callback is applied without an environment.                 *)
(***************************************************************************)
WalkTree == Tree("walk", 0, <<>>, <<>>)
ApplyTree(count) == Tree("apply", count, <<>>, <<>>)

\* map is for lists, collect for collections.
Walkable(name, v) ==
  CASE name = "map" -> v.kind = "list"
    [] name = "collect" -> IsCollection(v)
    [] OTHER -> IsWalked(v)

BeginWalk ==
  /\ AppliesBuiltin /\ Complete /\ Callee.name \in Walks
  /\ IF ~Callable(Collected[1]) THEN Fail("TYPE_EXPECTED_FUNCTION")
     ELSE IF ~Walkable(Callee.name, Last(Collected)) THEN Fail("TYPE_EXPECTED_LIST")
     ELSE /\ SetTop([Frame(WalkTree, Top.env) EXCEPT !.held = <<Callee>> \o Collected])
          /\ UNCHANGED <<outcomes, error>>
  /\ Only(UNCHANGED store)

Walk == Top.held[1].name
Callback == Top.held[2]
Items == Last(Top.held).items
Initial == Top.held[3]

\* The answer of a predicate is looked at before the next item.
PredicateFails == Walk \in Predicates /\ Done > 0 /\ Result(Done).kind # "bool"

Found(answer) == Done > 0 /\ IsTrue(Result(Done)) = answer

\* all, exists, locate: the last answer decides.
Stopped == (Walk \in {"exists", "locate"} /\ Found(TRUE)) \/ (Walk = "all" /\ Found(FALSE))

WalkOver == Stopped \/ Done = Len(Items)

Accumulator == IF Done = 0 THEN Initial ELSE Result(Done)

Visit ==
  /\ Evaluating({"walk"}) /\ ~PredicateFails /\ ~WalkOver
  /\ LET item == Items[Done + 1]
         arguments == IF Walk = "reduce" THEN <<Accumulator, item>> ELSE <<item>>
     IN Push([Frame(ApplyTree(Len(arguments)), 0) EXCEPT !.done = <<Callback>> \o arguments])
  /\ Only(UNCHANGED store)

Kept == {i \in 1..Done : IsTrue(Result(i))}

WalkResult ==
  CASE Walk = "map" -> ListValue(Top.done)
    [] Walk = "collect" -> LET c == Last(Top.held)
                           IN [c EXCEPT !.items = IF IsSet(c) THEN DistinctItems(Top.done) ELSE Top.done]
    [] Walk = "filter" -> [Last(Top.held) EXCEPT !.items = Pick(Items, Kept)]
    [] Walk = "all" -> BoolValue(~Stopped)
    [] Walk = "exists" -> BoolValue(Stopped)
    [] Walk = "locate" -> IF Stopped THEN Items[Done] ELSE ListValue(<<>>)
    [] Walk = "forEachDo" -> ListValue(<<>>)
    [] Walk = "reduce" -> Accumulator

EndWalk ==
  /\ Evaluating({"walk"}) /\ (PredicateFails \/ WalkOver)
  /\ IF PredicateFails THEN Fail("TYPE_EXPECTED_BOOL") ELSE Return(WalkResult)
  /\ Only(UNCHANGED store)

-----------------------------------------------------------------------------
MutUnwind ==
  /\ error # NoError
  /\ frames' = Front(frames)
  /\ UNCHANGED envs
  /\ IF Depth = 1
     THEN error' = NoError /\ outcomes' = Append(outcomes, [err |-> error, val |-> IntValue(0)])
     ELSE UNCHANGED <<outcomes, error>>
  /\ Only(UNCHANGED <<functions, answers>>)

\* A frame whose operand has failed closes what it has opened and fails.
Unwind ==
  /\ error # NoError
  /\ frames' = Front(frames)
  /\ IF Top.local THEN CloseEnv ELSE UNCHANGED envs
  /\ IF Depth = 1
     THEN error' = NoError /\ outcomes' = Append(outcomes, [err |-> error, val |-> IntValue(0)])
     ELSE UNCHANGED <<outcomes, error>>
  /\ Only(UNCHANGED <<functions, answers>>)

Next ==
  \/ Enter
  \/ EvalOperand \/ EvalOperator \/ EvalDecided \/ EvalLeastInt \/ EvalConditional
  \/ EvalLeaf \/ EvalGroup \/ EvalSequence
  \/ EvalFunctionLiteral \/ EvalAssignment \/ EvalRecursiveAssignment \/ CollectFix \/ EvalFix \/ EvalWhere \/ EvalClassDefinition \/ EvalAttribute
  \/ EvalCallee \/ Refuse \/ ApplyPartially \/ ApplyFunction \/ EndFunction
  \/ ExtendBuiltin \/ ApplyBuiltin \/ ApplyAsk \/ BeginWalk \/ Visit \/ EndWalk
  \/ Unwind

Spec == Init /\ [][Next]_vars

-----------------------------------------------------------------------------
(***************************************************************************)
(* Properties.                                                             *)
(***************************************************************************)

(***************************************************************************)
(* Whatever two integers an operator gets, it gives their exact result or  *)
(* refuses for a reason; the intermediate word never wraps.                *)
(***************************************************************************)
ArithmeticExact ==
  (Evaluating(Operations) /\ Done = 2 /\ Accepted) => ExactOrRefused(Op, Result(1).n, Result(2).n)

\* How many environments the first k frames have opened.
Opened(k) == Cardinality({i \in 1..k : frames[i].local})

(***************************************************************************)
(* Every environment but the session's belongs to one frame, whatever      *)
(* fails at any depth, and a frame evaluates in the session's or in that   *)
(* of a frame below it.                                                    *)
(***************************************************************************)
LocalsClosed ==
  /\ Len(envs) = 1 + Opened(Depth)
  /\ \A k \in DOMAIN frames : frames[k].env <= 1 + Opened(k - 1)

\* Callee and arguments are there, and it was not the body of a function that failed.
FailedItself == error # NoError /\ Op \in {"call", "apply"} /\ Done = Count + 1 /\ ~Top.local

(***************************************************************************)
(* A constructor misses its class only if a walk applies it directly:      *)
(* a call, at any depth of calls and walks, has an environment to find it  *)
(* in.                                                                     *)
(***************************************************************************)
EnvLostByWalksOnly == FailedItself /\ Op = "call" => error # "NAME_UNBOUND"

(***************************************************************************)
(* set uses the class bound in the current environment wherever it is      *)
(* called (docs/slices/055, requirements).                                 *)
(***************************************************************************)
ConstructorsUseEnvironment == FailedItself => error # "NAME_UNBOUND"

=============================================================================
