------------------------------- MODULE MCHeap --------------------------------
(***************************************************************************)
(* Instances of EnactHeap for TLC.                                         *)
(***************************************************************************)
EXTENDS EnactHeap, TLC

\* Addresses and names are interchangeable: nothing in the runtime orders them.
Symmetry == Permutations(Cell) \cup Permutations(Name)

\* The mixes of the instances: no cells and activations but those named.
Mix(m) == [x \in AllKinds \cup {Activation} |-> IF x \in DOMAIN m THEN m[x] ELSE 0]

\* Closures over values; closures and the environments of calls; hierarchies;
\* collections with their items.
ValueMixes == {
  Mix(ListK :> 3 @@ FunctionK :> 3 @@ PartialK :> 3),
  Mix(FunctionK :> 2 @@ Activation :> 1),
  Mix(ClassK :> 3 @@ ObjectK :> 1),
  Mix(ListK :> 2 @@ ClassK :> 2 @@ ObjectK :> 2 @@ CollectionK :> 2)}

\* Any two cells; a function and an activation; a bound method with its
\* receiver, class and function; a method of a collection with its receiver.
StoreMixes ==
  {Mix([k \in {p, q} |-> IF p = q THEN 2 ELSE 1]) : p, q \in AllKinds} \cup
  {Mix(FunctionK :> 1 @@ Activation :> 1),
   Mix([k \in {ClassK, ObjectK, FunctionK, BoundK} |-> 1]),
   Mix([k \in {ClassK, ObjectK, CollectionK} |-> 1])}

\* Bounds of that instance: the references that exist at a time, and those of
\* the session's variables when there are more than two cells.
MaxReferences == 7
FewReferences ==
  /\ Cardinality({p \in Place : held[p[1]][p[2]] # Nil}) <= MaxReferences
  /\ Cardinality(Allocated) > 2 => Cardinality({l \in Name : held[Session][l] # Nil}) <= 1

\* One class and one function, of a program that holds nothing of its session
\* when it frees it.
LeakMixes == {Mix(ClassK :> 1 @@ FunctionK :> 1)}
SessionLast == Session \in open \/ at[Locals] = Empty

=============================================================================
