# A formal model of the ENACT interpreter

ENACT is a small dynamic language: expressions, lists, closures, classes with
multiple inheritance, `super`, and collections. `src/src` holds its interpreter in
C: a flex lexer and a bison parser build a tree, `eval.c` walks it recursively,
`object.c`, `value.c`, `function.c` and `env.c` keep reference-counted values,
`builtin.c` supplies the builtins and `api.c`/`main.c` the sessions and the
terminal. There is one thread. What is hard about it is not parallelism but
recursion: a release that frees a graph while the graph is still in use, a walk over
a list whose callback walks the same list, a method that calls super from inside a
function called by another method, a script that loads a script that says `bye` or
fails.

This directory models that core in TLA+, checks it with TLC on small instances and
proves its main invariants with TLAPS. `PROJECT.json` lists every run, mutant,
mapped definition, finding, hazard and theorem.

## 1. Inventory

| Component | Sources | State | Operations | What is hard | Modelled by |
|---|---|---|---|---|---|
| Values and reference counting | `value.c`, `function.c`, `runtime_stats.c`, `builtin.c` (partials) | cells with `ref_count`, the counters `cells()` and `maxcells()` | make, retain, release, capture, partial application | recursive release of shared graphs; cycles; a local freed while the value is stored | EnactHeap, EnactStore |
| Environments | `env.c` | name/value tables, a chain of captures | define, lookup, clone, free, extend at calls | redefinition by a value that only the old value holds | EnactHeap |
| Classes and linearization | `object.c` | superclass lists, method tables | class and method definition, C3 merge, lookup, super lookup, introspection | order of the merge, late definition of methods, two algorithms that must agree | EnactLinearization, EnactMerge, EnactClasses, EnactHierarchy |
| Objects and collections as memory | `object.c`, `value.c` | class, attributes, items | new, with, set attribute, copy, bind a method | sharing between copies, cycles through attributes | EnactHeap |
| Calls, dispatch and super | `eval.c` | `current_method_context`, the C stack, bound methods | attribute access, dot call, super call, partial application | context saved and restored around bodies that fail, arguments that run code between lookup and call | EnactDispatch |
| List, set and bag operations | `builtin.c` | lists, items of collections | insert, add, remove, union, difference, intersection, append, collect, filter, subset, equal, UNION | sets are lists that each operation must keep free of repetitions | EnactCollections |
| Builtins that call back | `builtin.c`, `eval.c` | the position of the walk, the environment of the call | map, filter, reduce, exists, all, collect, locate, forEachDo, set, ask, and the methods of collections | nested walks, failure in the middle, an environment that gets lost | EnactEval |
| Sessions, scripts and the terminal | `api.c`, `main.c` | the session, the scripts being loaded, the input, the exit status | evaluate a chunk, load, bye, ask, read a line, report | a failure or bye below several scripts; ask and the session read the same input | EnactSession |
| Script chunker | `api.c`, `enact.l` | offset, depth of parentheses, string or comment | cut off the next chunk | it must agree with the lexer about strings, comments and dots | EnactChunker |
| Integer arithmetic | `eval.c` | none | `+ - * / mod`, unary minus, comparisons, literals | the ends of 32 bits, division by zero and by -1 | EnactArithmetic, EnactEval |
| Control forms | `eval.c`, `function.c` | the local environments and what closures captured | `and`, `or`, `not`, `if`, `where`, `fix`, `;`, `:=`, calls of functions | order of evaluation, short circuits, environments closed by failures | EnactEval; their memory in EnactHeap |
| Introspection | `builtin.c`, `object.c` | none | `suppliers`, `OK`, `badattrs`, `methods`, `classes`; parameters and arities of callables | it walks superclasses another way than dispatch does; it must say what a call will accept | EnactClasses (derived operators), EnactEval |
| Parser and trees | `enact.y`, `ast.c`, `parser_state.c`, `api.c` | the stack of the parser with the trees on it, the root, the diagnostic | one semantic action per rule, make, clone and free of every node | who frees what when a statement cannot be parsed or memory runs out in the middle | EnactParser |
| Lexer | `enact.l`, `scan.c` | its mode, the balance of parentheses | tokens with their texts | failures on the way to the parser; agreement with the chunker | EnactParser (tokens), EnactChunker (strings, comments, parentheses, dots) |
| Diagnostics and printing | `diag.c`, `main.c` | the last diagnostic | set, format | none | the moment a diagnostic is set is in each module; wording and layout are not modelled |

How they interact: `main.c` hands lines or the whole input to
`enact_session_eval_script`, which cuts chunks and calls the parser and
`enact_eval_value`. That recurses over the tree, reads and extends the
environment, and calls the builtins, which call back through
`enact_eval_apply_callable`. All of them retain and release values. A failure is
a diagnostic and a zero return value that every caller passes up; nothing is undone.

What makes each component correct:

* memory: counts are exact, nothing is used after it is freed, a release ends, and
  nothing but cyclic garbage is left when everything has been given up;
* linearization: it keeps every order it is given, contains every ancestor once,
  and is refused only if there is none; dispatch, `super` and introspection agree;
* calls: `super` always means the innermost method being evaluated, a body starts
  with all its arguments, a failure leaves no trace in the context;
* collections: sets never repeat an item, the operations are those of sets and bags;
* evaluation: a program means what its text says, whatever the C stack goes
  through: operands from the left, walks item by item, nothing after a failure,
  every local environment closed, every result exact or refused;
* parsing: each block of memory has one owner, and what goes wrong first in a statement
  is what is reported, also when memory runs out;
* sessions: a session does what its text says from top to bottom, a failure is
  reported once and shows in the exit status, `bye` is final.

## 2. Modules

`MCx` gives module `EnactX` its instance for TLC, `EnactXProofs` its theorems.

### EnactHeap (with EnactStore, MCHeap, EnactHeapProofs)

All seven kinds of counted structures are *cells*; `at[o][l]` is the reference that
owner `o` (a cell, an environment or the C locals of the caller) holds under label
`l` (a variable, method or attribute name, or a member such as `head` or
`mixin`). Each action is one public function of the runtime with every retain
and release it makes: `ListCons`, `FunctionNew` (capture of an environment),
`FunctionPartial`, `DefineCapture` (the peers of `fix`), `ClassNew`, `DefineMethod`,
`ObjectNew`, `DefineAttribute`, `CopyWithItems`, `BoundNew`, `PartialNew`,
`EnvDefine`, `EnvLookup`, `EnvClone`, `EnvFree` and so on. Memory may run out:
`ClassNewFails`, `CopyFails` and `EnvCloneFails` release what they have half
built; the other constructors give back what they took before anyone can see it, so that
their failure is a step that changes nothing. The evaluator is the caller: any sequence of these calls that frees
each local it owns. A release that meets a count of one puts the cell on `work`,
and `Unwind` tears the innermost one down reference by reference, as the
recursive C functions do: they release what a member refers to and leave the member
as it is until its owner is freed. So `at` is the memory, `dropped` the places whose reference
a teardown in progress has given up (where the C functions stand in their loops), `held` the
references without those, and `Finish` frees the memory when none is held any more. Nothing else
runs meanwhile (`Running`).

`EnactStore` says what this is for: a graph of values without counts, in which a
cell exists as long as it is reachable, that is, as long as every set that is closed
under references and has what the environments and locals hold contains it. `ImplementsStore` maps `EnactHeap` onto it
(what is not reachable is not there), so that teardown steps are stutters and
an allocation may never hand out a reachable address.

### EnactLinearization, EnactMerge, EnactClasses, EnactHierarchy (MCClasses, EnactClassesProofs)

`EnactLinearization` holds the steps of the C3 merge of
`enact_class_merge_linearizations` and, as recursive functions over a whole hierarchy,
the linearization of each class and its ancestors. `EnactMerge` runs the
loop as a state machine on any input. `EnactClasses` is the program that defines
classes and methods, with method lookup, super lookup and the
introspection builtins on top of the linearization. A class value is a number; defining a
class again makes a new number, as in the code, and existing subclasses keep
the old one. `EnactHierarchy` composes the two: whenever a class has been defined,
the loop may run for it on the sequences its superclasses supply, one iteration per step.

### EnactDispatch (MCDispatch, EnactClassesProofs)

Extends `EnactClasses` by calls. `frames` is the C stack of calls. A call is *pending* while its arguments are
evaluated, which may run any step of this module (including definitions and
further calls), and *running* while its body is. `Enter` saves and sets
`current_method_context` for a method; `Return` and `Unwind` restore it. Bodies are
arbitrary sequences of steps, so every program up to the bounds is covered.

### EnactArithmetic, EnactEval (MCEval, EnactEvalProofs)

`EnactArithmetic` has the checks of `enact_checked_binary` over a word from
`-MaxInt - 1` to `MaxInt` with an intermediate of twice the width, as `int64_t` is for
`int32_t`. `EnactEval` is `enact_eval_value` as a machine: `frames` is its C stack, one frame per
tree that is being evaluated, with the operands done so far and the environment it was
given (`NULL` included); `envs` are the environments that `where`, `fix` and calls
have opened; `functions` the closures with what they captured. One action per
node kind and phase, one step per item of a walk, and `Unwind`
takes an error up frame by frame, closing what each frame closes. `MCEval` defines `Meaning`, a
reference evaluator by recursion over the text without stack, store or
unwinding, with integers as in mathematics, closures with their environments,
and collections as sets and sequences.

A program is a sequence of trees that the parser can make: `WellFormed` says
how many operands each kind of node has, `TreesUpTo` bounds their height, and
`SyntaxAssumption` that `Programs` has no other. Classes are values with their names and superclasses;
whether their instances are sets or bags goes by the names of the ancestors, as in the
code. `fix` runs no code: `CollectFix` takes the functions on its right apart with an
explicit list of what is left, part by part.

### EnactParser (MCParser, EnactParserProofs)

bison's stack is a sequence of symbols, each with the tree it owns; a shift takes the
text the lexer has copied, a reduction does what the rule's action in `enact.y` and the
constructors of `ast.c` do, block by block, where each `malloc` may fail.
A failed action, a token that fits nowhere or an error of the scanner ends the
parse as `yyparse` does: the symbols on the stack go to their `%destructor`s. `live` is
the set of blocks not freed. A tree that was parsed may be cloned, as `function.c` does, and freed.
`clones` is the C stack of `enact_ast_clone`: `CloneKid` goes down to the next kid, and `CloneNode` makes
the node when its kids are there. If its `malloc` fails (`CloneFails`), the innermost call frees the clones
of its kids and returns `NULL`; its caller then frees those that it has and does the same (`UnwindClone`), one
call per step. The model clones the tree of a statement; a function clones a part of it.

`lost` is what no one can free any more: the operands of an operator whose node could not be made (section 3,
Findings). `Report` is `enact_diag_set`, which keeps the diagnostic that is there, so that it matters who speaks
first: the scanner or `malloc` before `yyerror`, `yyerror` before `enact_fill_parse_error`.

What walks a tree (`Subtrees`, `Arguments`, `Ungroup`, `FixNames`, `Root`, `Shape`) is a recursive function
on the trees of a height up to `MaxHeight`, so that it can be proved about. No statement of the run reaches
that height: with a greater one it has the same states.

### EnactLists, EnactCollections (MCCollections, EnactListsProofs, EnactCollectionsProofs)

`EnactLists` has the walks of `builtin.c` over lists. Each keeps the items at some positions,
in their order (`Pick`); which ones is a condition on the item, on those behind it
and on the other list, as the loop in the code tests it. `EnactCollections` makes the
operations of lists, sets and bags of these, and `EnactEval` the builtins that it
has. The state machine of `EnactCollections` applies them to two
collections in any order, with callbacks that return anything; the properties compare every result with sets, with
counts of items, or with reverse operations.

### EnactSession (MCSession, EnactSessionProofs)

Scripts are sequences of chunks (an expression, one that fails, a dot alone, `ask`, `bye`,
`load`). `scripts` is the recursion of `enact_session_eval_script` through
`load`; `terminal` says whether the input is read line by line. What a session is to print is
defined from the text alone, without scripts or flags: `Pieces` and `Loaded` put what files contain in the
place of the chunks that load them and leave redundant dots out, `Outcome` is what a text prints up to
its first stop, and `Printed` follows the input line by line. `OutcomeAsWritten` compares that with the machine.

### EnactChunker (MCChunker, EnactChunkerProofs)

`enact_next_script_chunk` character by character, over classes of characters, with
the two helpers it calls. `lexer` is what `enact.l` makes of the same characters: its mode and the
balance of parentheses. The two are written independently, in C and in flex, and
`CutsWithLexer` compares them at every character. They differ about one thing:
a dot in front of an identifier but not behind an operand (`x .y`) ends a chunk,
while the lexer makes it an attribute access. The property is an equivalence: a chunk ends
where the lexer ends a statement or at such a dot (`DetachedDot`) and nowhere else, so it says
exactly which dots the two read differently.

### What is composed with what

`EnactDispatch` and `EnactHierarchy` run on top of `EnactClasses`; `EnactEval` computes with
`EnactArithmetic` and, like `EnactCollections`, with `EnactLists`; `EnactHeap` refines `EnactStore`; the chunker model runs the lexer
beside the C code. The other seams are the following abstractions. `EnactSession` starts from the
chunks that `EnactChunker` cuts. `EnactHeap` lets its caller do what `EnactEval`
and `EnactDispatch` do with values, in any order. `EnactEval` starts from trees such as
`EnactParser` builds.

## 3. Runs

| Run | Question | Bounds and why they are enough | Time |
|---|---|---|---|
| heap_values | the inductive invariant in the middle of every teardown; what leaks | 3 cells, 2 names, the session and one activation: sharing, self-reference, cycles of length 3, an activation captured and closed in either order. `ValueMixes` says which kinds meet: closures over values, two closures and an activation, hierarchies, collections with their items | 2 min |
| heap_store | the heap implements the store; every step of a release brings it closer to its end | 4 cells in `StoreMixes`: any two cells, a function and an activation, a bound method that outlives the locals and bindings of its receiver, class and function, a method of a collection; at most 7 references held at a time, one more than such a method with its receiver, class, function and two locals takes, and with more than two cells one variable of the session at most (`FewReferences`) | 3 min |
| heap_leak | finding: memory survives teardown | `LeakMixes`: a class and a function; the caller frees its locals before the session (`SessionLast`), as `main.c` does | 2 s |
| classes | order, monotonicity, justified refusal; the merge loop step by step; dispatch, super and introspection agree; definitions act locally | every hierarchy of 5 classes (up to 3 superclasses with repetitions, the smallest unorderable ones have 3 to 5 classes), with methods up to 4 classes; one method name (names do not interact) | 3 min |
| dispatch | method context, super, bound methods and partial application | a class with two superclasses and a hierarchy without a linearization; calls three deep: method, function and method again; two parameters, so that none, some or all arguments come | 3 min |
| eval | programs mean what their text says; results are exact; environments are closed; only walks lose theirs | every operator on every corner of the integers (`MaxInt` = 3: all pairs of 8 values, products out of the word on both sides) and on values of other kinds, two operators deep; every session of two definitions and a use out of functions, closures, `fix`, `where`, walks and walks in walks, collections and classes; trees of a height of at most 8, which no program of the run reaches | 1 min |
| eval_env | finding: constructors called back | as above | 1 s |
| parser | one owner per block, nothing lost, the first diagnostic reported, exact clones | every statement of up to five to ten tokens out of ten vocabularies, one or two per family of constructs, long enough for each construct to occur inside itself or another; memory may run out at each allocation | 3 min |
| parser_leak | finding: operands are not freed | as above | 1 s |
| chunker | where scripts are cut | every text of up to 5 characters of 12 classes: an escaped quote in a string and a dot behind it | 15 s |
| session | scripts, load, bye, ask, dots, failures, the end | inputs of up to 3 chunks or 2 lines, two files that may load each other, nested 4 deep (2 files in a nesting without a circle need 3) | 30 s |
| collections | algebra of sets, bags and lists | 3 elements, 5 items: repetition on both sides | 30 s |

Bounds sit in constants that no action of the code knows: `Mixes` (cells and
activations at a time), `MaxReferences`, `MaxClasses`, `MaxOfMethods` and `MaxSupers`, `MaxObjects`,
`MaxMade` and `MaxDepth`, `MaxItems`, `MaxLoads`, `MaxInt` and the sets `Setups`, `Hierarchies`,
`Texts`, `Programs` and `Vocabularies` (both with `MaxHeight`) of initial states. The mixes of the heap keep kinds apart that
have nothing to do with each other; the proof has no such restriction.

Deadlock is checked in `dispatch` and `collections`, which can always go on. In the others the
modelled program really stops (the session has ended, the statement is parsed, the text
is at its end) or a bound on classes is reached; the cfg files say which.

### Fairness

Only `session` assumes any: weak fairness of `Next`. Every step is the evaluation of a
chunk, the end of a script or the reading of a line; it is assumed that each
evaluation ends (the language does not guarantee it) and that the user's
input is there or at its end. `SessionEnds` then says that a session ends unless a file
loads itself. That a release ends needs no fairness: `ReleaseEnds` says
that each of its steps strictly decreases what it has left to do (`Pending`): cells it may still enter, places
it has yet to visit, teardowns it has to end. Entering a cell lowers that because the cell is allocated and not yet
entered, of which the code knows nothing but `ref_count`; a count that is one too low would let a release
walk a cell again, and a cycle for ever.

### Findings

* **heap_leak** (code defect). A method captures the environment in which its
  class is bound (`eval.c:1004`) and the class holds the method, so every class with
  a method is part of a reference cycle; `fix` and attributes make
  others. The counterexample makes a class, binds it in the session, makes a function in that environment,
  defines it as a method of the class, and frees the locals and then the session: the
  class and the function keep each other. The leak harness of `tests/unit_tests.c` expects no tracked cell after
  teardown; its cases happen not to make such cycles. `OnlyCyclesLeak` and
  `CyclesNeedMutableCells` show that nothing else leaks.
* **parser_leak** (code defect). The rules of operators, conditionals, sequences
  and groups abort when their node cannot be allocated and do not free the operands
  (`enact.y:1046`); bison does not destroy the symbols of the rule that aborts. The
  rules of classes, `with`, `where`, functions and calls do free theirs.
  `NothingLost` of the run `parser` shows that these operands are all that is ever lost: not a block more by syntax
  errors, errors of the scanner, rules that refuse their operands, memory that runs out in any other
  action, or clones that fail at any depth; and `OwnedOnce` that the
  clean-ups, with and without memory, free nothing twice.
* **eval_env** (documentation and code differ). `enact_eval_apply_callable` passes
  no environment on (`eval.c:1275`), so `map(set, lists)` fails with NAME_UNBOUND although
  `set(list)` works and slice 055 grants that error only to calls through the
  low-level C API. `EnvLostByWalksOnly` shows that direct application by a walk is
  the only way to lose it.

## 4. Theorems

All are proved for every value of the constants that satisfies the named assumptions.

**EnactHeapProofs** (from `HeapAssumption`). `HeapInvariant` is
`Spec => []HeapInv`. Exact counts and the absence of dangling references are not
inductive by themselves: that a release may treat a count of one as the last
reference needs exact counts, exact counts during a teardown need that a cell is on
`work` once and allocated (`TeardownOnce`), and a fresh cell starts with no
reference to it or from it only because freed cells hold nothing and nothing holds
them (`FreedIsEmpty`, `NoDangling`). The proof rests on lemmas about how the number of
references changes when one place is overwritten, when a table is copied and when
a cell is cleared. A cell that a failing constructor releases half built is covered by the
same invariant, as one that is torn down with no reference to it. From the invariant follow `HeapTypes`, `ReferenceCountsExact`,
`NoUseAfterFree` and `CellsReported`. `ReleasesEnd`: with k labels, each step of a teardown
decreases k + 2 times the number of cells allocated and not entered, plus the number of places that
the teardowns in progress have yet to visit, plus the number of these teardowns. It stands on the invariant: that
`count[c] = 1` means that a cell is allocated and not on `work` is the exactness of counts during a teardown.

`LeaksAreCyclic` and `CyclesThroughMutableCells` need to know how old references
are. `LeakInv` adds to the invariant that a set of cells without a class, an object or a
function, each of which is referred to from within the set, is empty (`Founded`): what is not filled after its
creation only refers to older cells, and freeing keeps that. For the first theorem, exact counts turn a cell
that is left over with no owner into one that another one left over holds, and among finitely many
cells going back along holders must come round.

`HeapImplementsStore` is the refinement of `EnactStore`, step by step: a
binding, a new cell, an environment opened or closed is that step of the store, and everything
else, `Unwind` and the failing constructors included, is a stutter, since what is torn down is not
reachable (`NoDangling`) and a reference that it gives up was not on any path. That a
constructor cannot hand out a reachable address is the part a test would not reach.

**EnactClassesProofs** (from `MergeAssumption`, `HierarchyAssumption` and `ClassesAssumption`).
*Merge.* `MergeInvariant`: `MergeInv` is
inductive; the point is that the candidate is new and that wherever a
sequence holds it, it is the head. `AllClassesPlaced` follows. `GiveUpIsJustified`:
if no head is placeable, each stands behind another head, so the head of least rank
in a ranking that respects the sequences would have a lower one. `HierarchyImplements`:
the composed program is a behaviour of `EnactClasses` and of the merge loop, since linearizations
of real classes are sequences without repetitions.

*Linearization.* `LinearizationOrdered` and `OrderInherited` are about the
linearization of a whole hierarchy, which is defined by recursion twice over: a class
from the linearizations of its superclasses, and these by a merge that runs as often
as there are classes to place. Instead of an induction theorem the proofs take the
least number for which the statement fails (a set of naturals has a least
element, from the library's theorem on well-founded relations), first to show that
the recursive definitions have the functions they name, then for what these return.

*Classes.* `OrdersAreRight` and `OrdersAreKept` follow
from these and the invariant that superclasses are older than the class. `DispatchIsLocal`:
what a definition changes is only found through a class that has the new one in its order.
`DispatchAndSuppliersAgree` compares the walk of the linearization with the recursive
walks of `suppliers`, the effective methods and `badattrs` (the class that dispatch finds is a supplier, there is one
whenever these name any, and outside `badattrs` it is the only one), from older classes to younger ones: the suppliers of a class are
itself or those of its superclasses that none of them hides, and `OrderInherited` says that
the first class in its order with the method is among them.
`SuperVisitsEveryone` follows the chain of super calls with an invariant on
what has been visited: all classes with the method up to the present place in the order, once each.

*Calls* (from `DispatchAssumption` besides). `ContextIsInnermost`:
the context, and what every method on the stack will restore, is the innermost method
below it (`ContextInv`); `SuperRefusal` follows at the step that refuses. `PartialExact`: every
callable that is alive still has an argument to take or takes none, which needs
that attributes hold only values that were made (`ArgumentsInv`). `BoundForGood` and `SuperGoesOn`:
methods are only added and classes never change, so the class that supplied a
method is in the order of the receiver for as long as the method lives; and a super call stands
behind the class of the method that makes it, wherever on the stack (`HeritageInv`).

**EnactListsProofs** and **EnactCollectionsProofs** (from `CollectionsAssumption`, for any elements
and lists of any length). The lemmas say what `Pick` returns: which value is at which
place, that order is kept, and how often a value occurs, by matching positions with
the numbers from one. They also hold the few facts about least numbers and about sets from which
all modules make their inductions. `SetsStayDistinct`: no operation gives a set an item twice.
`OperationsAreMultisets` and `EqualityCounts` compare occurrences:
the positions of one value form a chain, and a condition that compares what is left of
it with a number keeps a beginning or an end of the chain of a known length.
`AggregateIsUnion` and `ListsKeepOrder` follow from counts and from places.

**EnactEvalProofs** (from `ArithmeticAssumption` and `SyntaxAssumption`, for words of any size,
trees of any height and all programs).
`OperationsExact`: a result is the mathematical one, or there is none in the word or the
divisor is zero; the intermediate never overflows, and C's division by -1 is reached
only where it is defined. It is about the operators alone.

`StackInv` is about the stack: the environment of every frame exists; frames that have opened one
have them in the order in which they exist, one each; a frame that waits has an operand left; and
only a frame of a walk, or of what it applies, is without an environment.
None of these is inductive alone: that `Unwind` closes the right environment needs that the frames
above have closed theirs. `EnvironmentsClosed` and `ConstructorsMissInWalksOnly` follow.

`TypeInv` is type soundness: there is a set of values, closed under taking the items of a
value, of which everything in frames, environments and captures is a member; every tree on the stack
is part of a tree of the program; a walk has a builtin, a callable and a list or a collection of which it has not
done more items than there are; and an operator that waits for its right operand has an integer on
the left. `fix` takes a counting argument: it has as many names as parts, no part is taken
twice, so every name has got its function. From this `ArithmeticStaysExact`: whatever
statements have been entered, `enact_checked_binary` is only given integers of the word, for which
`OperationsExact` holds.

**EnactSessionProofs** (from `SessionAssumption`). `SessionInvariant` has the
types and the positions of scripts: each one that another one loads stands behind a load. `ByeEndsAll` and
`FailuresReported` are action properties: after `bye` nothing is evaluated at any
depth, and a failure ends every script that loads the one in which it happens,
is reported once, and leaves an exit status of 1 for good. The proofs follow what `ScriptEnds` and `ScriptFails` do to the stack of scripts.

`SessionsDoAsWritten` is `OutcomeAsWritten` for all files, inputs and nestings. A statement about the end
says nothing of the way there, so the invariant, `AsWritten`, is about every state: `Promise` says that what has been printed,
followed by what is left, is what the text of the input stands for. What is left (`Todo`) is put together
from all scripts in progress, the innermost first, each from its next chunk or from behind the load it
is at; after a failure it is the diagnostic and the lines that follow, after bye nothing. It
holds with three companions: a dot is redundant just behind a newline, also over load commands
(`DotsAllowed`); a session ends with its input or after bye (`EndsRead`); and the exit status tells of the
diagnostics so far (`StatusTells`). Each step keeps `Todo` or takes one chunk off its front
(`OutcomeGoesOn`, `OutcomeStops`); `EvalLoad` puts a script in the place of a chunk that stands for the
same. That `Loaded` and `Printed` exist is an induction on `MaxLoads` and on the lines that are left.
`MaxLoads` only stops sessions that nest deeper; they do not end.

**EnactChunkerProofs** (from `ChunkerAssumption`, for texts of any length).
`Lockstep`: as long as the lexer accepts the text, the chunker is in a string, in a
comment and at the depth the lexer is in. `ChunksFollowLexer` follows at each step.
`EverythingCut` needs besides that an open comment in front of a chunk has its
percent sign behind the last chunk and no newline since.

**EnactParserProofs** (from `ParserAssumption`, for statements of any length over any tokens and
names, and trees of any height). `InvariantHolds` is `ParserSpec => []ParserInvariant`, from which the five
properties of the run `parser` follow: `BlocksOwnedOnce`, `NothingIsLost`, `ParametersAreDistinct`,
`ClonesAreExact` and `FirstDiagnostics`. The proof goes up in four layers.

*Trees.* That the recursive functions on trees exist is an induction on the height. A tree is
`Proper` if no two of its nodes share a block, its lists of parameters have no name twice and
its calls, attributes and identifiers have the kids that the actions look at.

*Walks.* What `Arguments` and `FixNames` return are disjoint parts of the tree, so that taking the
names out of them and freeing the rest frees each other block once.

*Actions.* Whatever blocks a semantic action is given, its value takes over or it frees, and a
value has no other blocks but new ones (`Handles`); an action that fails frees all of them. There is one
lemma per action. An action needs the right trees: that the left side of `:=`, for
example, is an expression and not a list.

*The stack.* Which trees an action gets is for the automaton to say. `StackOK`: whatever rule
and position a state has, the symbols below it are those that the rule has up to there
(`Seen`), and each symbol has a tree of its kind (`ValueFits`). `Goto` keeps this, so that the symbols which a
reduction takes are those of its rule. `ParsingOK` adds that the trees on the stack,
the lookahead and the root are apart and, with what is `lost`, make up `live` exactly, and that a parse which
has come to its end without a diagnostic has a root; the latter is what `FirstDiagnostics` needs besides the guards of
the actions. `ParsedOK` is the same for the
statement, the copy and the half-made nodes of `enact_ast_clone`, where each call works on the next
kid of the one that made it (`Nested`) and has made exact copies of the kids before (`Copies`); when a clone
fails, what the calls that have not returned own is still all there is besides the statement.

### Checked by TLC only

* Liveness (`SessionEnds`): the prover does not treat fairness.
* `MeaningAgrees`: the meaning it compares the machine with is defined by
  recursion over programs, with operators that the prover does not take.
* The three properties that the code violates (section 3, Findings).

## 5. What is not modelled

* What the evaluator does when memory runs out below it: the call that failed has given back
  what it took (EnactHeap), and for EnactEval it is one more error, OUT_OF_MEMORY, that unwinds as
  the others do. The models of evaluation assume that `malloc` succeeds.
* Contents of strings and atoms, printing, offsets and wording of diagnostics.
* The tables that bison and flex generate: `EnactParser` takes the grammar from its rules
  and the lookahead from what may follow; `EnactChunker` has the lexer's modes only.
* Wrong escapes, numbers out of range and characters that begin no token: the
  parser model has one failure of the scanner for all of them. They do not move a chunk.
* The depth of the C stack, which nothing in the code bounds: `MaxDepth`, `MaxLoads`,
  `MaxMade` and the size of programs bound the instances instead.
* `hd`, `tl`, `member` and the type predicates read one value; `enact_eval_text` and
  `--tokens` keep no state.
* Bodies of methods are arbitrary steps (EnactDispatch) or arbitrary calls
  (EnactHeap), which includes what any program does; those of functions are
  real trees in EnactEval.

## 6. Plan

Done, in this order, from what everything else relies on: memory and its proof;
linearization, classes and the merge proof; calls and their proof; collections;
sessions; the chunker and its proof; the evaluator against its reference meaning, with
arithmetic and its proof; the parser with failing allocations; the composition of
classes and merge, and the proofs about whole hierarchies, definitions, bound
methods, super calls, sessions and the end of releases; the proofs about leaks, the
refinement of the store, dispatch and introspection, chains of super calls, collections,
the types and environments of evaluation, the parser, and sessions against their text.

Left, most important first:

1. Sessions over the chunks that `EnactChunker` cuts.
2. Methods in `EnactEval`, so that its programs also call super.
