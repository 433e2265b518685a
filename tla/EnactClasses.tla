---------------------------- MODULE EnactClasses -----------------------------
(***************************************************************************)
(* Classes with multiple inheritance and their methods (object.c), and     *)
(* what the program can ask about them (the introspection builtins of      *)
(* builtin.c).  A class is created with its superclasses, which never      *)
(* change afterwards; methods are added to any class at any time.  Every   *)
(* query computes the linearization anew, as the C code does.  Classes     *)
(* are numbered in the order of their creation.                            *)
(***************************************************************************)
EXTENDS EnactLinearization, FiniteSets

CONSTANTS
  Name,         \* names of methods
  MaxClasses,   \* bound on the classes created
  MaxOfMethods, \* bound on the classes of a program that has methods
  MaxSupers     \* MaxSupers[c]: bound on the superclass list of class c

ASSUME ClassesAssumption ==
  /\ IsFiniteSet(Name)
  /\ MaxClasses \in Nat /\ MaxOfMethods \in Nat
  /\ MaxSupers \in [1..MaxClasses -> Nat]

VARIABLES
  supers,   \* supers[c]: the superclass list of class c
  methods   \* methods[c]: the names of the methods of class c itself

classVars == <<supers, methods>>

Classes == 1..Len(supers)

None == 0   \* no class: a null supplier

ClassesInit == supers = <<>> /\ methods = <<>>

Linearization == LinearizationIn(supers)

Ancestors == AncestorsIn(supers)

-----------------------------------------------------------------------------
(***************************************************************************)
(* Method lookup.                                                          *)
(***************************************************************************)

MutFirstSupplier(order, start, n) ==
  LET found == {i \in start..Len(order) : n \in methods[order[i]]}
  IN IF found = {} THEN None
     ELSE order[CHOOSE i \in found : \A j \in found : j <= i]

\* The first class of order, from position start on, to which table gives n.
SupplierIn(table, order, start, n) ==
  LET found == {i \in start..Len(order) : n \in table[order[i]]}
  IN IF found = {} THEN None
     ELSE order[CHOOSE i \in found : \A j \in found : i <= j]

FirstSupplier(order, start, n) == SupplierIn(methods, order, start, n)

\* enact_class_lookup_method_with_supplier
LookupMethod(c, n) ==
  LET l == Linearization[c]
  IN [consistent |-> l.consistent, supplier |-> FirstSupplier(l.order, 1, n)]

MutAfter(order, supplier) ==
  IF supplier \in ClassesOf(order)
    THEN CHOOSE i \in 1..Len(order) : order[i] = supplier
    ELSE Len(order) + 1

\* The position behind supplier, or behind the end if it is not in the order.
After(order, supplier) ==
  IF supplier \in ClassesOf(order)
    THEN (CHOOSE i \in 1..Len(order) : order[i] = supplier) + 1
    ELSE Len(order) + 1

\* enact_class_lookup_super_method_with_supplier
LookupSuper(c, current, n) ==
  LET l == Linearization[c]
  IN [consistent |-> l.consistent,
      supplier |-> FirstSupplier(l.order, After(l.order, current), n)]

-----------------------------------------------------------------------------
(***************************************************************************)
(* Introspection.                                                          *)
(***************************************************************************)

\* enact_class_collect_effective_attribute_suppliers: the classes that supply
\* each name to c, where a class masks the suppliers behind it.
Suppliers[c \in Classes] ==
  [n \in Name |->
     IF n \in methods[c]
       THEN {c}
       ELSE UNION {Suppliers[s][n] : s \in ClassesOf(supers[c])}]

\* enact_class_bad_attribute_names: inherited from several suppliers.
BadAttributes(c) ==
  {n \in Name \ methods[c] :
     Cardinality(UNION {Suppliers[s][n] : s \in ClassesOf(supers[c])}) > 1}

\* enact_class_effective_method_names
EffectiveMethods(c) ==
  UNION {methods[d] : d \in ClassesOf(Linearization[c].order)}

-----------------------------------------------------------------------------
\* enact_class_new_with_superclasses: a class without methods.
DefineClass(list) ==
  /\ supers' = Append(supers, list)
  /\ methods' = Append(methods, {})

MutDefineMethod(c, n) ==
  /\ methods' = [methods EXCEPT ![c] = IF n \in @ THEN @ \ {n} ELSE @ \cup {n}]
  /\ UNCHANGED supers

\* enact_class_define_method: a new method, or another function for its name.
DefineMethod(c, n) ==
  /\ methods' = [methods EXCEPT ![c] = @ \cup {n}]
  /\ UNCHANGED supers

ClassesNext ==
  \/ /\ Len(supers) < (IF \A c \in Classes : methods[c] = {} THEN MaxClasses ELSE MaxOfMethods)
     /\ \E k \in 0..MaxSupers[Len(supers) + 1] : \E list \in [1..k -> Classes] : DefineClass(list)
  \/ /\ Len(supers) <= MaxOfMethods
     /\ \E c \in Classes, n \in Name : DefineMethod(c, n)

ClassesSpec == ClassesInit /\ [][ClassesNext]_classVars

-----------------------------------------------------------------------------
(***************************************************************************)
(* Properties.                                                             *)
(***************************************************************************)
ClassesTypeOK ==
  /\ supers \in Seq(Seq(Nat))
  /\ methods \in Seq(SUBSET Name)
  /\ Len(methods) = Len(supers)
  /\ \A c \in Classes : ClassesOf(supers[c]) \subseteq 1..(c - 1)

Consistent(c) == Linearization[c].consistent

Position(order, c) == CHOOSE i \in 1..Len(order) : order[i] = c

(***************************************************************************)
(* A consistent linearization lists the class and its ancestors once each, *)
(* every class before its superclasses and those in the order in which it  *)
(* names them: a subclass overrides, and local precedence holds.           *)
(***************************************************************************)
LinearizationOrders ==
  \A c \in Classes : Consistent(c) =>
    LET order == Linearization[c].order
    IN /\ ClassesOf(order) = Ancestors[c]
       /\ Len(order) = Cardinality(Ancestors[c])
       /\ \A d \in Ancestors[c] : \A i \in 1..Len(Direct(supers[d])) :
            /\ Position(order, d) < Position(order, Direct(supers[d])[i])
            /\ \A j \in 1..(i - 1) :
                 Position(order, Direct(supers[d])[j]) < Position(order, Direct(supers[d])[i])

(***************************************************************************)
(* Inheriting never reorders: the ancestors of a superclass stand in the   *)
(* order of its own linearization, so that what dispatch chose among them  *)
(* for the superclass is not reversed in a subclass.                       *)
(***************************************************************************)
LinearizationMonotone ==
  \A c \in Classes : Consistent(c) =>
    \A s \in Ancestors[c] :
      LET below == Linearization[c].order
          own   == Linearization[s].order
      IN /\ Consistent(s)
         /\ \A x, y \in Ancestors[s] :
              Position(own, x) < Position(own, y) => Position(below, x) < Position(below, y)

(***************************************************************************)
(* Dispatch and introspection agree: the class whose method is called is   *)
(* among the suppliers() of the name, there is one whenever suppliers() is *)
(* not empty, and outside badattrs() it is the only supplier.              *)
(***************************************************************************)
DispatchAgrees ==
  \A c \in Classes, n \in Name :
    LET found == LookupMethod(c, n)
    IN found.consistent =>
         /\ found.supplier = None <=> Suppliers[c][n] = {}
         /\ found.supplier = None <=> n \notin EffectiveMethods(c)
         /\ found.supplier # None => found.supplier \in Suppliers[c][n]
         /\ found.supplier # None /\ n \notin BadAttributes(c) =>
              Suppliers[c][n] = {found.supplier}

(***************************************************************************)
(* Calling super again and again from the dispatched method ends, and      *)
(* until then visits every ancestor that has the method exactly once, in   *)
(* the order of the linearization.                                         *)
(***************************************************************************)
SuperVisitsAll ==
  \A c \in Classes, n \in Name : Consistent(c) =>
    LET order == Linearization[c].order
        Continue(visited) ==
          LET last == visited[Len(visited)]
          IN IF last = None THEN visited
             ELSE Append(visited, LookupSuper(c, last, n).supplier)
        Visit[k \in 0..Len(order)] ==
          IF k = 0 THEN <<LookupMethod(c, n).supplier>> ELSE Continue(Visit[k - 1])
        visits == Visit[Len(order)]
        end == Len(visits)
    IN /\ visits[end] = None
       /\ {visits[i] : i \in 1..(end - 1)} = {d \in Ancestors[c] : n \in methods[d]}
       /\ \A i, j \in 1..(end - 1) :
            i < j => Position(order, visits[i]) < Position(order, visits[j])

(***************************************************************************)
(* A definition changes the supplier of a name only for classes that       *)
(* inherit from the class that gains the method, and then to that class;   *)
(* redefinition and new classes change no dispatch of existing classes.    *)
(***************************************************************************)
DispatchChanges ==
  \A c \in Classes, n \in Name :
    LET order  == Linearization[c].order
        before == SupplierIn(methods, order, 1, n)
        after  == SupplierIn(methods', order, 1, n)
    IN /\ supers'[c] = supers[c]
       /\ before # after => after \in Ancestors[c] /\ n \notin methods[after]

DispatchLocal == [][DispatchChanges]_classVars

=============================================================================
