------------------------------ MODULE EnactHeap ------------------------------
(***************************************************************************)
(* The reference-counted runtime of ENACT (value.c, env.c, function.c,     *)
(* object.c, the partials of builtin.c and runtime_stats.c).               *)
(*                                                                         *)
(* Every heap object of the interpreter (list node, user function, class,  *)
(* object, bound method, builtin partial) is a cell with a ref_count.  A   *)
(* reference is a place that holds a cell: a label of an owner.  Owners    *)
(* are the cells themselves, the environments and the C locals of the      *)
(* code that calls the runtime.  One action is one call of a public        *)
(* function of the runtime; the caller is any code that frees each local   *)
(* it owns.  A release that reaches zero tears the cell down one           *)
(* reference at a time, in the order of the recursion of the C code.       *)
(***************************************************************************)
EXTENDS Naturals, Sequences, FiniteSets

CONSTANTS
  Cell,      \* addresses malloc hands out
  Env,       \* EnactEnv structures: the session's and the activations'
  Session,   \* the environment of the EnactSession
  Locals,    \* the owner of the C locals
  Name,      \* names of variables, parameters, methods and attributes
  Nil,       \* no cell: an unbound label, the empty list or a scalar
  Mixes      \* bounds: the mixes of cells and activations that exist at a time

ListK       == "list"
FunctionK   == "function"
ClassK      == "class"
ObjectK     == "object"
BoundK      == "bound"        \* EnactBoundObjectMethod
CollectionK == "collection"   \* EnactBoundCollectionMethod
PartialK    == "partial"      \* EnactBuiltinPartial
Free        == "free"         \* not allocated

Mutable == {ClassK, ObjectK, FunctionK}   \* filled after their creation

AllKinds == {ListK, FunctionK, ClassK, ObjectK, BoundK, CollectionK, PartialK}

Activation == "activation"    \* an environment beside the session's

(***************************************************************************)
(* Members of the C structures that hold references, besides the tables    *)
(* indexed by names (captured environments, methods, attributes and        *)
(* captured arguments).                                                    *)
(***************************************************************************)
Member == {"head", "tail", "class", "mixin", "callable", "receiver", "items"}

Label == Name \cup Member
Owner == Cell \cup Env \cup {Locals}
Place == Owner \X Label

ASSUME HeapAssumption ==
  /\ IsFiniteSet(Cell) /\ IsFiniteSet(Env) /\ IsFiniteSet(Name)
  /\ Session \in Env
  /\ Nil \notin Cell
  /\ Locals \notin Cell \cup Env
  /\ Cell \cap Env = {}
  /\ Name \cap Member = {}
  /\ Mixes \subseteq [AllKinds \cup {Activation} -> Nat]

VARIABLES
  kind,    \* kind[c]: what is allocated at c
  at,      \* at[o][l]: the reference that owner o holds under label l
  count,   \* count[c]: ref_count
  open,    \* environments that are initialised and not yet freed
  work,    \* cells and environments being torn down, innermost last
  dropped, \* how far each of these teardowns has come: the places whose
           \* reference is given up; the memory itself is left as it is
  cells,   \* enact_runtime_current_cells
  peak     \* enact_runtime_peak_cells

vars == <<kind, at, count, open, work, dropped, cells, peak>>

Empty == [l \in Label |-> Nil]

Init ==
  /\ kind  = [c \in Cell |-> Free]
  /\ at    = [o \in Owner |-> Empty]
  /\ count = [c \in Cell |-> 0]
  /\ open  = {Session}
  /\ work  = <<>>
  /\ dropped = {}
  /\ cells = 0
  /\ peak  = 0

-----------------------------------------------------------------------------
(***************************************************************************)
(* Retaining and releasing.                                                *)
(***************************************************************************)

\* The caller runs only when no release is in progress: there is one thread.
Running == work = <<>>

\* The references that are still held: a dying owner has given some up.
held ==
  IF Running THEN at
  ELSE [o \in Owner |-> [l \in Label |-> IF <<o, l>> \in dropped THEN Nil ELSE at[o][l]]]

Local(l) == at[Locals][l]

\* Local l holds a cell of kind k.
Holds(l, k) == Local(l) # Nil /\ kind[Local(l)] = k

\* What a cell holds when m gives the members that are set.
Members(m) == [l \in Label |-> IF l \in DOMAIN m THEN m[l] ELSE Nil]

\* What it holds when its table is copied from owner o.
Table(o) == [l \in Label |-> IF l \in Name THEN at[o][l] ELSE Nil]

MutRetain(cnt, c) == IF c = Nil THEN cnt ELSE [cnt EXCEPT ![c] = @ - 1]

\* enact_list_retain, enact_function_retain, ...: a null pointer is ignored.
Retain(cnt, c) == IF c = Nil THEN cnt ELSE [cnt EXCEPT ![c] = @ + 1]

MutRetainAll(g) ==
  [c \in Cell |-> count[c] + IF \E l \in Label : g[l] = c THEN 1 ELSE 0]

\* Copying every reference of g retains its target once.
RetainAll(g) ==
  [c \in Cell |-> count[c] + Cardinality({l \in Label : g[l] = c})]

MutRelease(cnt, c) ==
  /\ count' = IF c = Nil \/ cnt[c] <= 1 THEN cnt ELSE [cnt EXCEPT ![c] = @ - 1]
  /\ UNCHANGED work

\* The last reference starts the teardown, any other is counted down.
Release(cnt, c) ==
  \/ /\ c = Nil
     /\ count' = cnt
     /\ UNCHANGED work
  \/ /\ c # Nil
     /\ cnt[c] > 1
     /\ count' = [cnt EXCEPT ![c] = @ - 1]
     /\ UNCHANGED work
  \/ /\ c # Nil
     /\ cnt[c] <= 1
     /\ count' = cnt
     /\ work' = Append(work, c)

MutOverwrite(o, l, v) ==
  /\ at' = [at EXCEPT ![o][l] = v]
  /\ Release(count, at[o][l])
  /\ UNCHANGED <<kind, open, dropped, cells, peak>>

\* Store a copy of v at label l of o: v is retained, then the old value is freed.
Overwrite(o, l, v) ==
  /\ at' = [at EXCEPT ![o][l] = v]
  /\ Release(Retain(count, v), at[o][l])
  /\ UNCHANGED <<kind, open, dropped, cells, peak>>

\* enact_runtime_cell_allocated
CellAllocated ==
  /\ cells' = cells + 1
  /\ peak' = IF cells + 1 > peak THEN cells + 1 ELSE peak

\* enact_runtime_cell_released
CellReleased ==
  /\ cells' = IF cells > 0 THEN cells - 1 ELSE cells
  /\ UNCHANGED peak

\* Bound of the instance: some mix allows for kinds k and environments E.
WithinBounds(k, E) ==
  \E m \in Mixes :
    /\ \A x \in AllKinds : Cardinality({c \in Cell : k[c] = x}) <= m[x]
    /\ Cardinality(E \ {Session}) <= m[Activation]

\* A new cell of kind k holding g, returned in the unused local dst.
New(k, dst, g) ==
  /\ Running
  /\ Local(dst) = Nil
  /\ \E c \in Cell :
       /\ kind[c] = Free
       /\ kind' = [kind EXCEPT ![c] = k]
       /\ at' = [at EXCEPT ![c] = g, ![Locals][dst] = c]
       /\ count' = [RetainAll(g) EXCEPT ![c] = 1]
  /\ WithinBounds(kind', open)
  /\ CellAllocated
  /\ UNCHANGED <<open, work, dropped>>

MutNewFails(k, g) ==
  /\ Running
  /\ \E c \in Cell :
       /\ kind[c] = Free
       /\ kind' = [kind EXCEPT ![c] = k]
       /\ at' = [at EXCEPT ![c] = g]
       /\ count' = [count EXCEPT ![c] = 1]
       /\ work' = <<c>>
  /\ WithinBounds(kind', open)
  /\ CellAllocated
  /\ UNCHANGED <<open, dropped>>

(***************************************************************************)
(* Memory runs out in a constructor that has counted its cell: the cell is *)
(* released as it is, with g, the references that are set so far.          *)
(***************************************************************************)
NewFails(k, g) ==
  /\ Running
  /\ \E c \in Cell :
       /\ kind[c] = Free
       /\ kind' = [kind EXCEPT ![c] = k]
       /\ at' = [at EXCEPT ![c] = g]
       /\ count' = [RetainAll(g) EXCEPT ![c] = 1]
       /\ work' = <<c>>
  /\ WithinBounds(kind', open)
  /\ CellAllocated
  /\ UNCHANGED <<open, dropped>>

-----------------------------------------------------------------------------
(***************************************************************************)
(* Values and environments.                                                *)
(***************************************************************************)

\* enact_value_free of a local
ValueFree(l) ==
  /\ Running
  /\ Local(l) # Nil
  /\ Overwrite(Locals, l, Nil)

\* enact_value_copy of a member or table entry of the cell local src holds
ValueCopy(dst, src, l) ==
  /\ Running
  /\ Local(dst) = Nil
  /\ Local(src) # Nil
  /\ at[Local(src)][l] # Nil
  /\ Overwrite(Locals, dst, at[Local(src)][l])

\* enact_env_lookup
EnvLookup(dst, e, n) ==
  /\ Running
  /\ e \in open
  /\ Local(dst) = Nil
  /\ at[e][n] # Nil
  /\ Overwrite(Locals, dst, at[e][n])

\* enact_env_define: src may be an unused local, the value is then a scalar.
EnvDefine(e, n, src) ==
  /\ Running
  /\ e \in open
  /\ Overwrite(e, n, Local(src))

\* The caller has o, an environment or the captured one of a function.
HasTable(o) == o \in open \/ \E l \in Name : Holds(l, FunctionK) /\ Local(l) = o

\* enact_env_clone
EnvClone(e, o) ==
  /\ Running
  /\ e \notin open
  /\ HasTable(o)
  /\ at' = [at EXCEPT ![e] = Table(o)]
  /\ count' = RetainAll(Table(o))
  /\ open' = open \cup {e}
  /\ WithinBounds(kind, open')
  /\ UNCHANGED <<kind, work, dropped, cells, peak>>

\* It runs out of memory when the entries in N are copied, and frees them.
EnvCloneFails(e, o, N) ==
  /\ Running
  /\ e \notin open
  /\ HasTable(o)
  /\ LET entries == [l \in Label |-> IF l \in N THEN at[o][l] ELSE Nil]
     IN at' = [at EXCEPT ![e] = entries] /\ count' = RetainAll(entries)
  /\ work' = <<e>>
  /\ WithinBounds(kind, open \cup {e})
  /\ UNCHANGED <<kind, open, dropped, cells, peak>>

\* enact_env_free: activations end before the session does.
EnvFree(e) ==
  /\ Running
  /\ e \in open
  /\ e = Session => open = {Session}
  /\ open' = open \ {e}
  /\ work' = <<e>>
  /\ UNCHANGED <<kind, at, count, dropped, cells, peak>>

-----------------------------------------------------------------------------
(***************************************************************************)
(* Lists, functions and partials.                                          *)
(***************************************************************************)

MutListCons(dst, h, t) ==
  IF Holds(h, ListK) /\ Holds(t, ListK)
    THEN Running /\ Overwrite(Local(h), "tail", Local(t))
    ELSE New(ListK, dst, Members([head |-> Local(h)]))

\* enact_list_cons: an unused local as h is a scalar head, as t the empty list.
ListCons(dst, h, t) ==
  /\ Local(t) = Nil \/ Holds(t, ListK)
  /\ New(ListK, dst, Members([head |-> Local(h), tail |-> Local(t)]))

\* enact_function_new: the whole current environment is captured.
FunctionNew(dst, e) ==
  /\ e \in open
  /\ New(FunctionK, dst, Table(e))

(***************************************************************************)
(* enact_function_partial: the captured environment is cloned, then self   *)
(* (the recursive name of f, if it has one) and the parameters in args are *)
(* defined in it.                                                          *)
(***************************************************************************)
FunctionPartial(dst, f, self, args) ==
  /\ Holds(f, FunctionK)
  /\ args # {}
  /\ New(FunctionK, dst,
         [l \in Label |-> CASE l \in args -> Local(l)
                            [] l \in {self} \ args -> Local(f)
                            [] OTHER -> Table(Local(f))[l]])

\* enact_function_define_capture, as fix uses it: f learns its peer under n.
DefineCapture(f, n, peer) ==
  /\ Running
  /\ Holds(f, FunctionK)
  /\ Holds(peer, FunctionK)
  /\ Local(f) # Local(peer)
  /\ Overwrite(Local(f), n, Local(peer))

\* enact_builtin_partial_new
PartialNew(dst, args) ==
  New(PartialK, dst, [l \in Label |-> IF l \in args THEN Local(l) ELSE Nil])

\* A longer partial: b's references and, in unused positions, the arguments.
Extend(k, dst, b, args) ==
  /\ Holds(b, k)
  /\ args # {}
  /\ \A l \in args : at[Local(b)][l] = Nil
  /\ New(k, dst, [l \in Label |-> IF l \in args THEN Local(l) ELSE at[Local(b)][l]])

\* enact_builtin_partial_extend
PartialExtend(dst, b, args) == Extend(PartialK, dst, b, args)

-----------------------------------------------------------------------------
(***************************************************************************)
(* Classes, objects and bound methods.                                     *)
(***************************************************************************)

\* c and the classes it inherits from: the least set closed under superclass.
Ancestors(c) ==
  {d \in Cell : \A S \in SUBSET Cell :
     (/\ c \in S
      /\ \A s \in S : {at[s]["class"], at[s]["mixin"]} \subseteq S \cup {Nil})
     => d \in S}

\* enact_class_new_with_superclasses, for at most two superclasses
ClassNew(dst, s1, s2) ==
  /\ Local(s1) = Nil \/ Holds(s1, ClassK)
  /\ Local(s2) = Nil \/ (Holds(s2, ClassK) /\ Local(s1) # Nil)
  /\ New(ClassK, dst, Members([class |-> Local(s1), mixin |-> Local(s2)]))

\* No memory for the link to the first superclass, or to the second one.
ClassNewFails(s1, s2) ==
  /\ Holds(s1, ClassK)
  /\ \/ NewFails(ClassK, Empty)
     \/ Holds(s2, ClassK) /\ NewFails(ClassK, Members([class |-> Local(s1)]))

\* enact_class_define_method
DefineMethod(c, n, f) ==
  /\ Running
  /\ Holds(c, ClassK)
  /\ Holds(f, FunctionK)
  /\ Overwrite(Local(c), n, Local(f))

\* enact_object_new
ObjectNew(dst, c) ==
  /\ Holds(c, ClassK)
  /\ New(ObjectK, dst, Members([class |-> Local(c)]))

\* enact_object_define_attribute
DefineAttribute(o, n, src) ==
  /\ Running
  /\ Holds(o, ObjectK)
  /\ Overwrite(Local(o), n, Local(src))

\* enact_object_copy_with_collection_items: same class, attributes cloned.
CopyWithItems(dst, o, items) ==
  /\ Holds(o, ObjectK)
  /\ Local(items) = Nil \/ Holds(items, ListK)
  /\ New(ObjectK, dst, [at[Local(o)] EXCEPT !["items"] = Local(items)])

\* No memory for the attributes: their clones go first, then the copy.
CopyFails(o, items) ==
  /\ Holds(o, ObjectK)
  /\ Local(items) = Nil \/ Holds(items, ListK)
  /\ NewFails(ObjectK, Members([class |-> at[Local(o)]["class"], items |-> Local(items)]))

(***************************************************************************)
(* enact_bound_object_method_new_with_supplier: the method and the class   *)
(* that supplies it are borrowed from the class of the receiver.           *)
(***************************************************************************)
BoundNew(dst, r, s, n) ==
  /\ Holds(r, ObjectK)
  /\ at[Local(r)]["class"] # Nil
  /\ s \in Ancestors(at[Local(r)]["class"])
  /\ at[s][n] # Nil
  /\ New(BoundK, dst,
         Members([callable |-> at[s][n], class |-> s, receiver |-> Local(r)]))

\* enact_bound_object_method_extend
BoundExtend(dst, b, args) == Extend(BoundK, dst, b, args)

\* enact_bound_collection_method_new
CollectionNew(dst, r) ==
  /\ Holds(r, ObjectK)
  /\ New(CollectionK, dst, Members([receiver |-> Local(r)]))

\* enact_bound_collection_method_extend
CollectionExtend(dst, b, args) == Extend(CollectionK, dst, b, args)

-----------------------------------------------------------------------------
(***************************************************************************)
(* Teardown.                                                               *)
(***************************************************************************)

Dying == work[Len(work)]

Enclosing == SubSeq(work, 1, Len(work) - 1)

\* The order in which a teardown gives up references, by the kind of cell.
TeardownOrder ==
  [k \in AllKinds |->
     CASE k = ListK       -> << {"head"}, {"tail"} >>
       [] k = ClassK      -> << Name, {"class"}, {"mixin"} >>
       [] k = ObjectK     -> << {"class"}, Name, {"items"} >>
       [] k = BoundK      -> << {"callable"}, {"class"}, {"receiver"}, Name >>
       [] k = CollectionK -> << {"receiver"}, Name >>
       [] OTHER           -> << Name >>]

\* Label l of the dying owner is due: what comes before it is given up.
Due(l) ==
  LET order == TeardownOrder[IF Dying \in Cell THEN kind[Dying] ELSE FunctionK]
  IN \E i \in 1..Len(order) :
       /\ l \in order[i]
       /\ \A j \in 1..(i - 1) : \A m \in order[j] : held[Dying][m] = Nil

\* The innermost teardown gives up one more of its references.
DropReference(l) ==
  /\ work # <<>>
  /\ held[Dying][l] # Nil
  /\ Due(l)
  /\ dropped' = dropped \cup {<<Dying, l>>}
  /\ Release(count, at[Dying][l])
  /\ UNCHANGED <<kind, at, open, cells, peak>>

\* Every reference of the dying owner is given up, its memory goes.
Finish ==
  /\ work # <<>>
  /\ held[Dying] = Empty
  /\ work' = Enclosing
  /\ at' = [at EXCEPT ![Dying] = Empty]
  /\ dropped' = {p \in dropped : p[1] # Dying}

\* The teardown of an environment ends: its owner is a C stack frame.
FinishEnv ==
  /\ Finish
  /\ Dying \in Env
  /\ UNCHANGED <<kind, count, open, cells, peak>>

\* The teardown of a cell ends: it is counted as released and freed.
FinishCell ==
  /\ Finish
  /\ Dying \in Cell
  /\ kind' = [kind EXCEPT ![Dying] = Free]
  /\ count' = [count EXCEPT ![Dying] = 0]
  /\ CellReleased
  /\ UNCHANGED open

Unwind == FinishEnv \/ FinishCell \/ \E l \in Label : DropReference(l)

-----------------------------------------------------------------------------
EnvStep ==
  \/ \E e \in Env : EnvFree(e)
  \/ \E e \in Env, n \in Name, l \in Name : EnvDefine(e, n, l)
  \/ \E e \in Env, n \in Name, l \in Name : EnvLookup(l, e, n)
  \/ \E e \in Env, o \in Owner : EnvClone(e, o)
  \/ \E e \in Env, o \in Owner, N \in SUBSET Name : EnvCloneFails(e, o, N)

ListStep == \E dst, h, t \in Name : ListCons(dst, h, t)

FunctionStep ==
  \/ \E dst \in Name, e \in Env : FunctionNew(dst, e)
  \/ \E dst, f \in Name, self \in Name \cup {Nil}, args \in SUBSET Name :
       FunctionPartial(dst, f, self, args)
  \/ \E f, n, peer \in Name : DefineCapture(f, n, peer)

PartialStep ==
  \/ \E dst \in Name, args \in SUBSET Name : PartialNew(dst, args)
  \/ \E dst, b \in Name, args \in SUBSET Name : PartialExtend(dst, b, args)

ObjectStep ==
  \/ \E dst, s1, s2 \in Name : ClassNew(dst, s1, s2)
  \/ \E s1, s2 \in Name : ClassNewFails(s1, s2)
  \/ \E c, n, f \in Name : DefineMethod(c, n, f)
  \/ \E dst, c \in Name : ObjectNew(dst, c)
  \/ \E o, n, src \in Name : DefineAttribute(o, n, src)
  \/ \E dst, o, items \in Name : CopyWithItems(dst, o, items)
  \/ \E o, items \in Name : CopyFails(o, items)

BoundStep ==
  \/ \E dst, r, n \in Name, s \in Cell : BoundNew(dst, r, s, n)
  \/ \E dst, b \in Name, args \in SUBSET Name : BoundExtend(dst, b, args)
  \/ \E dst, r \in Name : CollectionNew(dst, r)
  \/ \E dst, b \in Name, args \in SUBSET Name : CollectionExtend(dst, b, args)

ValueStep ==
  \/ \E l \in Name : ValueFree(l)
  \/ \E dst, src \in Name, l \in Label : ValueCopy(dst, src, l)

Next ==
  \/ ValueStep
  \/ EnvStep
  \/ ListStep
  \/ FunctionStep
  \/ PartialStep
  \/ ObjectStep
  \/ BoundStep
  \/ Unwind

Spec == Init /\ [][Next]_vars

-----------------------------------------------------------------------------
(***************************************************************************)
(* Properties.                                                             *)
(***************************************************************************)

Allocated == {c \in Cell : kind[c] # Free}

Unwinding == {work[i] : i \in 1..Len(work)}

\* The places that hold cell c.
References(c) == {p \in Place : held[p[1]][p[2]] = c}

TypeOK ==
  /\ kind \in [Cell -> AllKinds \cup {Free}]
  /\ at \in [Owner -> [Label -> Cell \cup {Nil}]]
  /\ count \in [Cell -> Nat]
  /\ open \in SUBSET Env
  /\ work \in Seq(Cell \cup Env)
  /\ dropped \in SUBSET Place
  /\ cells \in Nat
  /\ peak \in Nat

(***************************************************************************)
(* ref_count is exact: it is the number of places that hold the cell, plus *)
(* one while the release that found it at one is tearing the cell down.    *)
(***************************************************************************)
RefCountExact ==
  \A c \in Cell :
    count[c] = Cardinality(References(c)) + (IF c \in Unwinding THEN 1 ELSE 0)

(***************************************************************************)
(* No place holds a cell that has been freed or whose teardown has begun:  *)
(* no use after free and no second teardown of the same cell.              *)
(***************************************************************************)
NoDangling ==
  \A c \in Cell : References(c) # {} => c \in Allocated \ Unwinding

(***************************************************************************)
(* cells() reports the number of allocated cells, so the guard of          *)
(* enact_runtime_cell_released never hides a release without allocation,   *)
(* and maxcells() is at least cells().                                     *)
(***************************************************************************)
CellsExact == cells = Cardinality(Allocated) /\ peak >= cells

\* A teardown is entered once per cell and environment, on allocated cells and
\* on environments that are no longer open.
TeardownOnce ==
  /\ \A i, j \in 1..Len(work) : work[i] = work[j] => i = j
  /\ \A i \in 1..Len(work) : work[i] \in Allocated \cup (Env \ open)

\* What is freed holds nothing, and only teardowns have given references up.
FreedIsEmpty ==
  /\ \A p \in dropped : p[1] \in Unwinding
  /\ \A c \in Cell \ Allocated : held[c] = Empty
  /\ \A e \in Env \ (open \cup Unwinding) : held[e] = Empty

(***************************************************************************)
(* The inductive invariant: exact counts need to know that cells being     *)
(* torn down are found once and that freed memory holds no reference.      *)
(***************************************************************************)
HeapInv ==
  /\ TypeOK
  /\ RefCountExact
  /\ NoDangling
  /\ CellsExact
  /\ TeardownOnce
  /\ FreedIsEmpty

(***************************************************************************)
(* The cells reached from the owners in S by one reference or more: what   *)
(* every set has that contains all that these and its own cells refer to.  *)
(***************************************************************************)
Reached(S) ==
  Cell \ UNION {Cell \ T : T \in
    {T \in SUBSET Cell : \A o \in S \cup T : \A l \in Label : held[o][l] \in T \cup {Nil}}}

\* c is reachable from itself.
OnCycle(c) == c \in Reached({c})

Quiet == Running /\ open = {} /\ at[Locals] = Empty

(***************************************************************************)
(* Once the session is freed and every local given up, a cell is left only *)
(* if a cycle of references reaches it: nothing else is lost.              *)
(***************************************************************************)
OnlyCyclesLeak ==
  Quiet => \A c \in Allocated : \E d \in Allocated :
             OnCycle(d) /\ c \in Reached({d})

(***************************************************************************)
(* A cycle goes through a cell that is filled after its creation: a class  *)
(* (methods), an object (attributes) or a function (the peers of a fix).   *)
(* Lists, partials and bound methods alone never close one.                *)
(***************************************************************************)
CyclesNeedMutableCells ==
  \A c \in Allocated : OnCycle(c) =>
    \E d \in Reached({c}) : c \in Reached({d}) /\ kind[d] \in Mutable

\* The places that the teardowns in progress have yet to visit.
Ahead == {p \in (1..Len(work)) \X Label : <<work[p[1]], p[2]>> \notin dropped}

\* What a release has left to do: cells it may still enter, with their places,
\* places it has yet to visit and teardowns it has to end.
Pending ==
  (Cardinality(Label) + 2) * Cardinality(Allocated \ Unwinding)
    + Cardinality(Ahead) + Len(work)

(***************************************************************************)
(* The recursion of a release comes closer to its end with every step, on  *)
(* cyclic values too: a cell it enters is allocated and not yet entered,   *)
(* which it knows from ref_count alone (enact_list_release and the others  *)
(* look at nothing else before they free).                                 *)
(***************************************************************************)
ReleaseEnds == [][work # <<>> => Pending' < Pending]_vars

(***************************************************************************)
(* The leak harness (tests/unit_tests.c, run_runtime_cell_leak_case; slice *)
(* 120 requirements) expects that no tracked cell survives teardown.       *)
(***************************************************************************)
TeardownFreesAllCells == Quiet => cells = 0

-----------------------------------------------------------------------------
\* The cells that a variable or a local of the caller leads to.
Rooted == Reached(open \cup {Locals})

\* The heap without the cells outside R and the environments that are closed.
KindsOf[R \in SUBSET Cell] == [c \in Cell |-> IF c \in R THEN kind[c] ELSE Free]
GraphOf[R \in SUBSET Cell] ==
  [o \in Owner |-> IF o \in R \cup open \cup {Locals} THEN held[o] ELSE Empty]

Store == INSTANCE EnactStore WITH
  kind <- KindsOf[Rooted],
  at <- GraphOf[Rooted]

(***************************************************************************)
(* Reference counting cannot be observed: seen from the environments and   *)
(* the locals, the heap is the store of values of EnactStore, teardown     *)
(* steps change nothing and no reachable cell is freed or handed out again.*)
(***************************************************************************)
ImplementsStore == Store!Spec

=============================================================================
