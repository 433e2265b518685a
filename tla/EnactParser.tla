---------------------------- MODULE EnactParser -----------------------------
(***************************************************************************)
(* Ownership in the parser (enact.y, enact.l, ast.c, enact_parse_text in   *)
(* api.c): who frees the texts of the lexer, the nodes and the lists while *)
(* a statement is parsed, when it cannot be parsed and when memory runs    *)
(* out.  bison's stack is a sequence of symbols, each with the tree it     *)
(* owns; its automaton follows from the rules, and the lookahead decides   *)
(* where several steps are possible.  Rules whose actions differ in the    *)
(* node's kind only are one rule (all infix operators, all literals        *)
(* without a text); a list and its array are one block.                    *)
(***************************************************************************)
EXTENDS EnactLists

CONSTANTS
  MaxHeight,      \* bound on the height of trees
  Vocabularies    \* a statement uses the tokens and names of one, and so many at most

VARIABLES
  vocabulary,
  tokens,    \* how many tokens have been shifted
  stack,     \* bison's stack: symbols with the automaton's states and the values
  look,      \* the lookahead that cannot be shifted, or Nothing
  live,      \* the blocks that malloc has returned and nobody has freed
  lost,      \* of these, the operands of the operator node that could not be made
  diag,      \* context.diag
  root,      \* context.root, then the tree of the caller
  copy,      \* the clone that a function made from the tree keeps
  clones,    \* the C stack of enact_ast_clone
  phase

vars == <<vocabulary, tokens, stack, look, live, lost, diag, root, copy, clones, phase>>

-----------------------------------------------------------------------------
(***************************************************************************)
(* Trees and blocks.                                                       *)
(***************************************************************************)

\* EnactAst, EnactAstList, EnactNameList and texts alike: the block at address
\* at, which is 0 for none, and the trees it points to.
Node(kind, at, kids) == [kind |-> kind, at |-> at, name |-> "", kids |-> kids]
Text(name, at) == [kind |-> "text", at |-> at, name |-> name, kids |-> <<>>]

Nothing == Node("nothing", 0, <<>>)

Kinds ==
  {"nothing", "text", "identifier", "leaf", "nil", "list", "names", "sequence", "if", "infix",
   "not", "cons", "group", "where", "with", "function", "class", "assignment", "method", "fix",
   "new", "call", "attribute"}

Tokens ==
  {"id", "text", "literal", "nil", "(", ")", "comma", ".", ":", ":=", "::", "semicolon", "<", "infix", "not",
   "if", "then", "else", "where", "with", "fix", "class", "new", "attr"}

Names == UNION {v.names : v \in Vocabularies}

ASSUME ParserAssumption ==
  /\ MaxHeight \in Nat
  /\ \A v \in Vocabularies : v.most \in Nat /\ v.tokens \subseteq Tokens

\* The trees of a height up to h.
TreesUpTo[h \in 0..MaxHeight] ==
  [kind : Kinds, at : Nat, name : Names \cup {""},
   kids : IF h = 0 THEN {<<>>} ELSE Seq(TreesUpTo[h - 1])]

Tree == TreesUpTo[MaxHeight]

\* A tree and those it points to, directly or not.
Subtrees[t \in Tree] == {t} \cup UNION {Subtrees[t.kids[i]] : i \in DOMAIN t.kids}

\* The blocks that freeing a tree frees.
Blocks(t) == {s.at : s \in Subtrees[t]} \ {0}

BlocksOf(trees) == UNION {Blocks(trees[i]) : i \in DOMAIN trees}

\* Addresses that malloc returns next: the lowest that are free.
Fresh ==
  [i \in Nat \ {0} |->
     CHOOSE a \in (1..(Cardinality(live) + i)) \ live : Cardinality((1..a) \ live) = i]

-----------------------------------------------------------------------------
(***************************************************************************)
(* The grammar.  Unit rules are an order on the expressions: where one is  *)
(* expected any of a lower level will do.                                  *)
(***************************************************************************)
Level ==
  [primary |-> 1, call |-> 2, unary |-> 3, cons |-> 4, logical_not |-> 5, where_expr |-> 6,
   logical_or |-> 7, conditional |-> 8, lambda |-> 9, with_expr |-> 10, assignment |-> 11,
   fix_expr |-> 12, expr |-> 13]

IsExpr(symbol) == symbol \in DOMAIN Level

Fits(symbol, expected) ==
  \/ symbol = expected
  \/ IsExpr(symbol) /\ IsExpr(expected) /\ Level[symbol] <= Level[expected]

\* A rule, the kind of node it makes, and whether its action frees what it
\* was given when it makes none: bison does not.
Rule(lhs, rhs, kind, reclaims) == [lhs |-> lhs, rhs |-> rhs, kind |-> kind, reclaims |-> reclaims]

Operators ==
  {Rule("expr", <<"expr", "semicolon", "fix_expr">>, "sequence", FALSE),
   Rule("conditional", <<"logical_or", "then", "conditional", "else", "conditional">>, "if", FALSE),
   Rule("conditional", <<"logical_or", "if", "logical_or", "else", "conditional">>, "if", FALSE),
   Rule("logical_or", <<"logical_or", "infix", "where_expr">>, "infix", FALSE),
   Rule("logical_not", <<"not", "logical_not">>, "not", FALSE),
   Rule("cons", <<"unary", ":", "cons">>, "cons", FALSE),
   Rule("primary", <<"(", "expr", ")">>, "group", FALSE)}

Binders ==
  {Rule("where_expr", <<"logical_not", "where", "id", ":=", "logical_not">>, "where", TRUE),
   Rule("with_expr", <<"with_expr", "with", "id", ":=", "lambda">>, "with", TRUE),
   Rule("lambda", <<"lambda_head", "::", "assignment">>, "function", TRUE),
   Rule("assignment", <<"class", "id", "<", "superclass_list">>, "class", TRUE),
   Rule("assignment", <<"call", ":=", "assignment">>, "assignment", TRUE),
   Rule("fix_expr", <<"assignment", "fix", "assignment">>, "fix", TRUE)}

Calls ==
  {Rule("unary", <<"new", "id">>, "new", TRUE),
   Rule("call", <<"call", "(", ")">>, "call", TRUE),
   Rule("call", <<"call", "(", "argument_list", ")">>, "call", TRUE),
   Rule("call", <<"call", "application_argument">>, "call", TRUE),
   Rule("call", <<"call", "attr", "id">>, "attribute", TRUE),
   Rule("primary", <<"(", "tuple_list", ")">>, "tuple", TRUE)}

Lists ==
  {Rule("superclass_list", <<"id">>, "classes", TRUE),
   Rule("superclass_list", <<"(", "superclass_tuple", ")">>, "pass", TRUE),
   Rule("superclass_tuple", <<"id", "comma", "id">>, "classes", TRUE),
   Rule("superclass_tuple", <<"superclass_tuple", "comma", "id">>, "classes", TRUE),
   Rule("argument_list", <<"assignment">>, "list", TRUE),
   Rule("argument_list", <<"argument_list", "comma", "assignment">>, "list", TRUE),
   Rule("tuple_list", <<"assignment", "comma", "assignment">>, "list", TRUE),
   Rule("tuple_list", <<"tuple_list", "comma", "assignment">>, "list", TRUE),
   Rule("lambda_head", <<"id">>, "names", TRUE),
   Rule("lambda_head", <<"(", ")">>, "names", TRUE),
   Rule("lambda_head", <<"(", "tuple_list", ")">>, "names", TRUE)}

Leaves ==
  {Rule(lhs, <<token>>, CASE token = "id" -> "identifier" [] token = "nil" -> "nil" [] OTHER -> "leaf", TRUE) :
     lhs \in {"primary", "application_argument"}, token \in {"id", "text", "literal", "nil"}}
  \cup {Rule("primary", <<"(", ")">>, "nil", TRUE)}

Start == Rule("input", <<"expr", ".">>, "input", TRUE)

Rules == Operators \cup Binders \cup Calls \cup Lists \cup Leaves

-----------------------------------------------------------------------------
(***************************************************************************)
(* bison's automaton.  A state is a set of items: rules with a position.   *)
(***************************************************************************)
Expected(item) == item.rule.rhs[item.at + 1]
Complete(item) == item.at = Len(item.rule.rhs)

\* What can begin where a symbol is expected.
Begins ==
  [s \in UNION {Range(r.rhs) : r \in Rules \cup {Start}} |->
     LET opened[n \in 0..Cardinality(Rules)] ==
           IF n = 0 THEN {r \in Rules : Fits(r.lhs, s)}
           ELSE LET before == opened[n - 1]
                IN before \cup {q \in Rules : \E r \in before : Fits(q.lhs, r.rhs[1])}
     IN {[rule |-> r, at |-> 0] : r \in Rules \cap opened[Cardinality(Rules)]}]

Goto(state, symbol) ==
  {[i EXCEPT !.at = @ + 1] :
     i \in {j \in state \cup UNION {Begins[Expected(k)] : k \in {k \in state : ~Complete(k)}} :
              ~Complete(j) /\ Fits(symbol, Expected(j))}}

InitialState == {[rule |-> Start, at |-> 0]}

StateAt(n) == IF n = 0 THEN InitialState ELSE stack[n].state
Top == StateAt(Len(stack))

-----------------------------------------------------------------------------
(***************************************************************************)
(* Taking names out of trees that were read as expressions: they must be   *)
(* identifiers, which keep no text, with names that differ.  A text that   *)
(* is there already is freed at once.                                      *)
(***************************************************************************)
Has(texts, name) == \E i \in DOMAIN texts : texts[i].name = name

AreIdentifiers(trees) == \A i \in DOMAIN trees : trees[i].kind = "identifier"

Texts(trees) == [i \in DOMAIN trees |-> trees[i].kids[1]]

MutAreNames(trees) ==
  /\ AreIdentifiers(trees)
  /\ \A i \in DOMAIN trees \ {1} : trees[i].kids[1].name # trees[i - 1].kids[1].name

AreNames(trees) ==
  /\ AreIdentifiers(trees)
  /\ \A i, j \in DOMAIN trees : i # j => trees[i].kids[1].name # trees[j].kids[1].name

IsCall(t) == t.kind = "call" /\ Len(t.kids) = 2

\* f(x)(y): the parameters of all calls, from the left.  An empty list stands
\* for itself and is refused, as no identifier.
Arguments[t \in Tree] ==
  IF ~IsCall(t) THEN <<>>
  ELSE Arguments[t.kids[1]] \o IF t.kids[2].kids = <<>> THEN <<t.kids[2]>> ELSE t.kids[2].kids

\* Unless it is the only one.
Parameters(call) ==
  IF call.kids[2].kids = <<>> /\ call.kids[1].kind # "call" THEN <<>> ELSE Arguments[call]

IsGroup(t) == t.kind = "group" /\ Len(t.kids) = 1

Ungroup[t \in Tree] == IF IsGroup(t) THEN Ungroup[t.kids[1]] ELSE t

\* (f, g) or f : g on the left of fix, with a nil at the right end only.
FixNames[t \in Tree] ==
  CASE IsGroup(t) -> FixNames[t.kids[1]]
    [] t.kind = "cons" /\ Len(t.kids) = 2 ->
         FixNames[t.kids[1]] \o IF Ungroup[t.kids[2]].kind = "nil" THEN <<>> ELSE FixNames[t.kids[2]]
    [] OTHER -> <<t>>

Root[t \in Tree] == IF IsCall(t) THEN Root[t.kids[1]] ELSE t

-----------------------------------------------------------------------------
(***************************************************************************)
(* The semantic actions.  A result is the value, and the blocks freed on   *)
(* the way; without a value the action has set a diagnostic and YYABORT    *)
(* follows.                                                                *)
(***************************************************************************)
Made(val, freed) == [val |-> val, freed |-> freed]
Failed(freed) == [val |-> Nothing, freed |-> freed]

Parts(args) == Pick(args, {i \in DOMAIN args : args[i] # Nothing})

Names_(at, texts) == Node("names", at, texts)
Identifier(at, text) == Node("identifier", at, <<text>>)

MutRest(tree, trees) == Blocks(tree)

\* What is left of a tree whose texts were taken is freed.
Rest(tree, trees) == Blocks(tree) \ BlocksOf(Texts(trees))

\* A taking that failed: the names taken, the rest of the tree and the value.
Discard(tree, value) == Failed(Blocks(tree) \cup Blocks(value))

MethodFromLhs(lhs, value, ids) ==
  LET object == lhs.kids[1].kids[1]
      name == lhs.kids[1].kids[2]
      texts == Texts(Parameters(lhs))
  IN IF ~AreNames(Parameters(lhs)) \/ Has(texts, "self") THEN Discard(lhs, value)
     ELSE Made(Node("method", ids[2], <<object, name, Names_(ids[1], texts), value>>),
               Rest(lhs, Parameters(lhs)) \ (Blocks(object) \cup Blocks(name)))

FunctionFromLhs(lhs, value, ids) ==
  LET name == Root[lhs].kids[1]
      names == Names_(ids[1], Texts(Parameters(lhs)))
  IN IF Root[lhs].kind # "identifier" \/ ~AreNames(Parameters(lhs)) THEN Discard(lhs, value)
     ELSE Made(Node("assignment", ids[3], <<name, Node("function", ids[2], <<names, value>>)>>),
               Rest(lhs, Parameters(lhs)) \ Blocks(name))

AssignmentFromLhs(lhs, value, ids) ==
  CASE lhs.kind \in {"identifier", "attribute"} ->
         Made(Node("assignment", ids[1], lhs.kids \o <<value>>), {lhs.at})
    [] lhs.kind = "call" /\ lhs.kids[1].kind = "attribute" -> MethodFromLhs(lhs, value, ids)
    [] lhs.kind = "call" /\ lhs.kids[1].kind # "attribute" -> FunctionFromLhs(lhs, value, ids)
    [] OTHER -> Discard(lhs, value)

FixFromLhs(lhs, body, ids) ==
  LET names == FixNames[lhs]
  IN IF ~AreNames(names) THEN Discard(lhs, body)
     ELSE Made(Node("fix", ids[2], <<Names_(ids[1], Texts(names)), body>>), Rest(lhs, names))

NamesFromTuple(list, ids) ==
  IF list.kids = <<>> \/ ~AreNames(list.kids) THEN Discard(list, Nothing)
  ELSE Made(Names_(ids[1], Texts(list.kids)), Rest(list, list.kids))

\* enact_append_argument, enact_append_identifier: to the list given, or a new one.
Appended(parts, items, ids) ==
  IF parts # <<>> /\ parts[1].kind = "list"
  THEN Node("list", parts[1].at, parts[1].kids \o items)
  ELSE Node("list", ids[3], items)

ListOf(parts, ids) ==
  IF parts[1].kind = "list" /\ Len(parts) > 1
  THEN Appended(parts, Tail(parts), ids)
  ELSE Appended(<<>>, parts, ids)

ClassList(parts, ids) ==
  LET names == Pick(parts, {i \in DOMAIN parts : parts[i].kind = "text"})
  IN Appended(parts, [i \in DOMAIN names |-> Identifier(ids[i], names[i])], ids)

\* (a, b): a : b : nil.
Tuple(list, ids) ==
  LET n == Len(list.kids)
      from[i \in 0..n] ==
        IF i = 0 THEN Node("nil", ids[1], <<>>)
        ELSE Node("cons", ids[i + 1], <<list.kids[n - i + 1], from[i - 1]>>)
  IN from[n]

CallNode(parts, ids) ==
  LET arguments == IF Len(parts) = 2 /\ parts[2].kind = "list" THEN parts[2]
                   ELSE Node("list", ids[2], Tail(parts))
  IN Node("call", ids[1], <<parts[1], arguments>>)

\* The action of a rule, if every malloc succeeds.
Action(rule, args, ids) ==
  LET parts == Parts(args)
  IN CASE rule.kind \in {"pass", "input"} -> Made(parts[1], {})
       [] rule.kind = "assignment" -> AssignmentFromLhs(parts[1], parts[2], ids)
       [] rule.kind = "fix" -> FixFromLhs(parts[1], parts[2], ids)
       [] rule.kind = "names" /\ Len(rule.rhs) < 3 -> Made(Names_(ids[1], parts), {})
       [] rule.kind = "names" /\ Len(rule.rhs) = 3 -> NamesFromTuple(parts[1], ids)
       [] rule.kind = "tuple" -> Made(Tuple(parts[1], ids), {parts[1].at})
       [] rule.kind = "list" -> Made(ListOf(parts, ids), {})
       [] rule.kind = "classes" -> Made(ClassList(parts, ids), {})
       [] rule.kind = "call" -> Made(CallNode(parts, ids), {})
       [] rule.kind = "new" -> Made(Node("new", ids[1], <<Identifier(ids[2], parts[1])>>), {})
       [] OTHER -> Made(Node(rule.kind, ids[1], parts), {})

-----------------------------------------------------------------------------
(***************************************************************************)
(* The parser's steps.                                                     *)
(***************************************************************************)
Entry(symbol, state, val) == [sym |-> symbol, state |-> state, val |-> val]

CarriesText(token) == token \in {"id", "text"}

\* A token that the scanner could not make: it has set the diagnostic.
Bad == "TOK_ERROR"
NoLook == [sym |-> "none", val |-> Nothing]
Look(token, val) == [sym |-> token, val |-> val]

Values(symbols) == [i \in DOMAIN symbols |-> symbols[i].val]

MutReport(diagnostic) == diagnostic

\* enact_diag_set keeps the diagnostic that is there.
Report(diagnostic) == IF diag = "OK" THEN diagnostic ELSE diag

ParserInit ==
  /\ vocabulary \in Vocabularies
  /\ tokens = 0
  /\ stack = <<>> /\ look = NoLook /\ root = Nothing /\ copy = Nothing /\ clones = <<>>
  /\ live = {} /\ lost = {} /\ diag = "OK" /\ phase = "parsing"

\* yylex finds a token that fits; its text is copied.
Shift ==
  /\ phase = "parsing" /\ look = NoLook /\ tokens < vocabulary.most
  /\ \E token \in vocabulary.tokens, name \in vocabulary.names :
       LET state == Goto(Top, token)
           val == IF CarriesText(token) THEN Text(name, Fresh[1]) ELSE Nothing
       IN /\ state # {}
          /\ ~CarriesText(token) => name = CHOOSE n \in vocabulary.names : TRUE
          /\ stack' = Append(stack, Entry(token, state, val))
          /\ live' = live \cup Blocks(val)
  /\ tokens' = tokens + 1
  /\ UNCHANGED <<vocabulary, look, lost, diag, root, copy, clones, phase>>

\* yylex fails: a character or literal that is none, or no memory for its text.
LexerFails ==
  /\ phase = "parsing" /\ look = NoLook
  /\ look' = Look(Bad, Nothing)
  /\ diag' \in {Report("LEXICAL"), Report("OUT_OF_MEMORY")}
  /\ UNCHANGED <<vocabulary, tokens, stack, live, lost, root, copy, clones, phase>>

\* What the automaton's states become if one rule is applied.
Reduced(states) ==
  {LET below == SubSeq(states, 1, Len(states) - Len(i.rule.rhs))
   IN Append(below, Goto(below[Len(below)], i.rule.lhs)) :
     i \in {j \in states[Len(states)] : Complete(j) /\ j.rule # Start}}

\* Whether a token can be shifted, once some rules have been applied: of three
\* in a row one has more than one symbol.
Takes(states, token) ==
  LET fits(s) == Goto(s[Len(s)], token) # {}
      applied[n \in 0..(3 * Len(states))] ==
        IF n = 0 THEN {states}
        ELSE UNION {IF fits(s) THEN {s} ELSE Reduced(s) : s \in applied[n - 1]}
  IN \E s \in applied[3 * Len(states)] : fits(s)

States == [n \in 1..(Len(stack) + 1) |-> StateAt(n - 1)]

\* A token that does not fit, or the end of the text: with a text or without.
Unexpected ==
  /\ phase = "parsing" /\ look = NoLook
  /\ \/ look' = Look("load", Nothing) /\ UNCHANGED live
     \/ /\ ~Takes(States, "id")
        /\ \E name \in vocabulary.names :
             LET text == Text(name, Fresh[1])
             IN look' = Look("id", text) /\ live' = live \cup Blocks(text)
  /\ UNCHANGED <<vocabulary, tokens, stack, lost, diag, root, copy, clones, phase>>

\* The end of yyparse: what is left on the stack and the lookahead are destroyed.
CleanUp(symbols, blocks) ==
  /\ live' = blocks \ (BlocksOf(Values(symbols)) \cup Blocks(look.val))
  /\ stack' = <<>> /\ look' = NoLook
  /\ phase' = "ended"

\* The symbols of the rule that aborts are not destroyed: its action must have
\* freed them.
Abort(rule, below, args, diagnostic, freed) ==
  /\ diag' = Report(diagnostic)
  /\ CleanUp(below, live \ freed)
  /\ UNCHANGED <<vocabulary, tokens, root, copy, clones>>

\* bison applies the default rule of a state whether or not the lookahead fits.
Reduce ==
  /\ phase = "parsing"
  /\ \E item \in Top :
       LET rule == item.rule
           n == Len(stack) - Len(rule.rhs)
           below == SubSeq(stack, 1, n)
           args == Values(SubSeq(stack, n + 1, Len(stack)))
           result == Action(rule, args, Fresh)
       IN /\ Complete(item) /\ rule # Start
          /\ result.val \in Tree
          /\ \/ /\ result.val # Nothing
                /\ stack' = Append(below, Entry(rule.lhs, Goto(StateAt(n), rule.lhs), result.val))
                /\ live' = (live \cup Blocks(result.val)) \ result.freed
                /\ UNCHANGED <<vocabulary, tokens, look, lost, diag, root, copy, clones, phase>>
             \/ /\ result.val = Nothing
                /\ Abort(rule, below, args, "UNEXPECTED_TOKEN", result.freed)
                /\ UNCHANGED lost
             \/ /\ result.val # Nothing /\ rule.kind # "pass" /\ rule.reclaims
                /\ Abort(rule, below, args, "OUT_OF_MEMORY", BlocksOf(args))
                /\ UNCHANGED lost
             \/ /\ result.val # Nothing /\ rule.kind # "pass" /\ ~rule.reclaims
                /\ Abort(rule, below, args, "OUT_OF_MEMORY", {})
                /\ lost' = BlocksOf(args)

\* input: expr TOK_DOT.
TakeRoot ==
  /\ phase = "parsing" /\ look = NoLook
  /\ \E item \in Top : Complete(item) /\ item.rule = Start
  /\ root' = stack[1].val
  /\ stack' = <<Entry("input", {}, Nothing)>>
  /\ UNCHANGED <<vocabulary, tokens, look, live, lost, diag, copy, clones, phase>>

\* yyerror
SyntaxError ==
  /\ phase = "parsing" /\ look # NoLook
  /\ diag' = Report("UNEXPECTED_TOKEN")
  /\ CleanUp(stack, live)
  /\ UNCHANGED <<vocabulary, tokens, lost, root, copy, clones>>

Accept ==
  /\ phase = "parsing" /\ look = NoLook /\ stack # <<>> /\ Last(stack).sym = "input"
  /\ CleanUp(stack, live)
  /\ UNCHANGED <<vocabulary, tokens, lost, diag, root, copy, clones>>

\* enact_parse_text after yyparse; enact_fill_parse_error if there is neither a
\* tree nor a diagnostic.
Finish ==
  /\ phase = "ended"
  /\ IF diag = "OK" /\ root # Nothing
     THEN phase' = "parsed" /\ UNCHANGED <<live, diag, root>>
     ELSE /\ phase' = "failed"
          /\ diag' = Report("UNEXPECTED_TOKEN")
          /\ live' = live \ Blocks(root)
          /\ root' = Nothing
  /\ UNCHANGED <<vocabulary, tokens, stack, look, lost, copy, clones>>

-----------------------------------------------------------------------------
(***************************************************************************)
(* Clones: a function keeps its own copy of the parameters and the body,   *)
(* and outlives the statement.                                             *)
(***************************************************************************)

\* A node to clone, and its clone so far, which has no block before the clones
\* of its kids are made.
Cloning(tree, kids) ==
  [tree |-> tree, made |-> [kind |-> tree.kind, at |-> 0, name |-> tree.name, kids |-> kids]]

Inner == clones[Len(clones)]
Outer == SubSeq(clones, 1, Len(clones) - 1)

KidsCloned == Len(Inner.made.kids) = Len(Inner.tree.kids)

MakeFunction ==
  /\ phase = "parsed" /\ root # Nothing /\ copy = Nothing
  /\ clones' = <<Cloning(root, <<>>)>>
  /\ phase' = "cloning"
  /\ UNCHANGED <<vocabulary, tokens, stack, look, live, lost, diag, root, copy>>

MutCloneKid ==
  /\ phase = "cloning" /\ ~KidsCloned
  /\ clones' = Append(clones, Cloning(Inner.tree.kids[1], <<>>))
  /\ UNCHANGED <<vocabulary, tokens, stack, look, live, lost, diag, root, copy, phase>>

\* The next kid, from the left.
CloneKid ==
  /\ phase = "cloning" /\ ~KidsCloned
  /\ clones' = Append(clones, Cloning(Inner.tree.kids[Len(Inner.made.kids) + 1], <<>>))
  /\ UNCHANGED <<vocabulary, tokens, stack, look, live, lost, diag, root, copy, phase>>

CloneNode ==
  /\ phase = "cloning" /\ KidsCloned
  /\ LET node == [Inner.made EXCEPT !.at = Fresh[1]]
         n == Len(Outer)
     IN IF n = 0
        THEN clones' = <<>> /\ copy' = node /\ phase' = "parsed"
        ELSE /\ clones' = [Outer EXCEPT ![n] = Cloning(@.tree, Append(@.made.kids, node))]
             /\ UNCHANGED <<copy, phase>>
  /\ live' = live \cup {Fresh[1]}
  /\ UNCHANGED <<vocabulary, tokens, stack, look, lost, diag, root>>

MutReturnsNull ==
  /\ live' = IF Inner.made.kids = <<>> THEN live ELSE live \ Blocks(Last(Inner.made.kids))
  /\ clones' = Outer
  /\ phase' = IF Outer = <<>> THEN "evaluated" ELSE "unwinding"
  /\ UNCHANGED <<vocabulary, tokens, stack, look, lost, diag, root, copy>>

\* The innermost call frees the clones of the kids that it has, and makes none.
ReturnsNull ==
  /\ live' = live \ BlocksOf(Inner.made.kids)
  /\ clones' = Outer
  /\ phase' = IF Outer = <<>> THEN "evaluated" ELSE "unwinding"
  /\ UNCHANGED <<vocabulary, tokens, stack, look, lost, diag, root, copy>>

\* malloc fails for the node itself.
CloneFails == phase = "cloning" /\ KidsCloned /\ ReturnsNull

\* The clone of a kid has failed.
UnwindClone == phase = "unwinding" /\ ReturnsNull

\* The end of the statement, in an order of its own from that of the function.
FreeTree ==
  /\ phase \in {"parsed", "evaluated"} /\ root # Nothing
  /\ live' = live \ Blocks(root)
  /\ root' = Nothing
  /\ UNCHANGED <<vocabulary, tokens, stack, look, lost, diag, copy, clones, phase>>

FreeFunction ==
  /\ phase \in {"parsed", "evaluated"} /\ copy # Nothing
  /\ live' = live \ Blocks(copy)
  /\ copy' = Nothing
  /\ phase' = "evaluated"
  /\ UNCHANGED <<vocabulary, tokens, stack, look, lost, diag, root, clones>>

ParserNext ==
  \/ Shift \/ LexerFails \/ Unexpected \/ Reduce \/ TakeRoot \/ SyntaxError
  \/ Accept \/ Finish
  \/ MakeFunction \/ CloneKid \/ CloneNode \/ CloneFails \/ UnwindClone
  \/ FreeTree \/ FreeFunction

ParserSpec == ParserInit /\ [][ParserNext]_vars

-----------------------------------------------------------------------------
(***************************************************************************)
(* Properties.                                                             *)
(***************************************************************************)
\* The trees that somebody owns: symbols, a lookahead, the statement, a function,
\* and the calls of enact_ast_clone.
Trees ==
  Values(stack) \o <<look.val, root, copy>> \o [i \in DOMAIN clones |-> clones[i].made]
Owned == BlocksOf(Trees)

Apart(trees) ==
  \A i, j \in DOMAIN trees : i # j => Blocks(trees[i]) \cap Blocks(trees[j]) = {}

\* No two nodes of a tree share a block.
Sound(tree) ==
  \A t \in Subtrees[tree] :
    Apart(t.kids) /\ \A i \in DOMAIN t.kids : t.at \notin Blocks(t.kids[i])

(***************************************************************************)
(* Every block that a tree points to is live and has one owner: nothing is *)
(* freed twice and nothing used after it was freed, whatever names were    *)
(* taken out of the trees.                                                 *)
(***************************************************************************)
OwnedOnce ==
  /\ Owned \subseteq live
  /\ Apart(Trees) /\ \A i \in DOMAIN Trees : Sound(Trees[i])

(***************************************************************************)
(* No block is lost but the operands of an operator whose node could not   *)
(* be made: not by a syntax error, a token that cannot be scanned, a left  *)
(* side that is none, memory that runs out in any other action or at any   *)
(* depth of a clone.                                                       *)
(***************************************************************************)
NothingLost == live = Owned \cup lost

(***************************************************************************)
(* No function, method or fix has a parameter twice, and no method a       *)
(* parameter self (docs/slices/009 and 042).                               *)
(***************************************************************************)
Distinct(tree) ==
  \A t \in Subtrees[tree] :
    /\ t.kind = "names" => \A i, j \in DOMAIN t.kids : i # j => t.kids[i].name # t.kids[j].name
    /\ t.kind = "method" => ~Has(t.kids[3].kids, "self")

ParametersDistinct == \A i \in DOMAIN stack : Distinct(stack[i].val)

(***************************************************************************)
(* The first thing that goes wrong is reported and nothing behind it: the  *)
(* failure of the scanner is hidden neither by the default reductions that *)
(* fail before the parser looks at the bad token nor by yyerror; and what  *)
(* fails has been reported when yyparse returns, which never leaves behind *)
(* neither a tree nor a diagnostic (enact_fill_parse_error is not needed). *)
(***************************************************************************)
FirstDiagnosticReported ==
  [][/\ diag # "OK" => diag' = diag
     /\ phase' = "failed" => diag # "OK"]_vars

(***************************************************************************)
(* A clone that a function keeps is as its origin.                         *)
(***************************************************************************)
Shape[t \in Tree] ==
  [kind |-> t.kind, name |-> t.name, kids |-> [i \in DOMAIN t.kids |-> Shape[t.kids[i]]]]

CloneExact == root # Nothing /\ copy # Nothing => Shape[copy] = Shape[root]

(***************************************************************************)
(* Parser failure must free any partially built tree                       *)
(* (docs/slices/001-integer-arithmetic-design.md, memory management).      *)
(***************************************************************************)
FailureFreesTree == phase = "failed" => live = {}

=============================================================================
