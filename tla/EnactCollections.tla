--------------------------- MODULE EnactCollections --------------------------
(***************************************************************************)
(* Lists, sets and bags (builtin.c).  All three are immutable linked lists *)
(* of values; a Set or a Bag is an object that holds one.  Every operation *)
(* makes a new list by walking its arguments and comparing values with     *)
(* enact_value_equal, and nothing but the operations themselves keeps the  *)
(* list of a Set free of repetitions.                                      *)
(***************************************************************************)
EXTENDS EnactLists

CONSTANTS
  Elem,       \* values; equal ones are the same
  MaxItems    \* bound on the length of a list

ASSUME CollectionsAssumption == IsFiniteSet(Elem) /\ MaxItems \in Nat

VARIABLES left, right   \* two variables of the program: lists, sets or bags

vars == <<left, right>>

Kinds == {"List", "Set", "Bag"}

\* What a collection of this kind makes of the items s.
ItemsOf(kind, s) == IF kind = "Set" THEN DistinctItems(s) ELSE s

-----------------------------------------------------------------------------
(***************************************************************************)
(* The builtins.  c and d are of the same kind: otherwise they fail.       *)
(***************************************************************************)
WithItems(c, s) == [c EXCEPT !.items = s]   \* enact_object_copy_with_collection_items

Difference(c, d) ==
  WithItems(c, IF c.kind = "Bag" THEN BagDifferenceLists(c.items, d.items)
                                 ELSE DifferenceLists(c.items, d.items))

Intersection(c, d) ==
  WithItems(c, IF c.kind = "Bag" THEN BagIntersectionLists(c.items, d.items)
                                 ELSE IntersectionLists(c.items, d.items))

UnionItems(kind, s, t) == IF kind = "Bag" THEN BagUnionLists(s, t) ELSE UnionLists(s, t)

Union(c, d) == WithItems(c, UnionItems(c.kind, c.items, d.items))

MutUnionAggregate(cs) ==
  LET union[k \in 0..Len(cs)] == IF k = 0 THEN <<>> ELSE UnionLists(union[k - 1], cs[k].items)
  IN WithItems(cs[1], union[Len(cs)])

\* UNION of a list that is not empty: the first collection is the prototype.
UnionAggregate(cs) ==
  LET union[k \in 0..Len(cs)] ==
        IF k = 0 THEN <<>> ELSE UnionItems(cs[1].kind, union[k - 1], cs[k].items)
  IN WithItems(cs[1], union[Len(cs)])

Insert(e, c) ==
  IF c.kind = "Set" /\ e \in ToSet(c.items) THEN c ELSE WithItems(c, <<e>> \o c.items)

RemoveFrom(e, c) == WithItems(c, RemoveOne(e, c.items))

Subset(c, d) ==
  IF c.kind = "Set" THEN ListIsSubset(c.items, d.items) ELSE ListIsBagSubset(c.items, d.items)

Equal(c, d) == Subset(c, d) /\ Subset(d, c)

-----------------------------------------------------------------------------
(***************************************************************************)
(* A program that works on two variables.  What a callback returns for an  *)
(* item is arbitrary: it may depend on the state of the program.           *)
(***************************************************************************)
Empty(kind) == [kind |-> kind, items |-> <<>>]

Init == \E k \in Kinds : left = Empty(k) /\ right = Empty(k)

Assign(c) == Len(c.items) <= MaxItems /\ left' = c /\ UNCHANGED right

SameKind == left.kind = right.kind

DoUnion == SameKind /\ Assign(Union(left, right))
DoDifference == SameKind /\ Assign(Difference(left, right))
DoIntersection == SameKind /\ Assign(Intersection(left, right))

DoUnionAggregate ==
  /\ SameKind /\ left.kind # "List"
  /\ \E cs \in {<<right, left>>, <<left, right, left>>} : Assign(UnionAggregate(cs))

\* A bag or a set, or cons to a list.
DoInsert == \E e \in Elem :
  Assign(IF left.kind = "List" THEN WithItems(left, <<e>> \o left.items) ELSE Insert(e, left))

DoRemove == \E e \in Elem : Assign(RemoveFrom(e, left))

\* append(left, right) for lists
DoAppend == left.kind = "List" /\ SameKind /\ Assign(WithItems(left, left.items \o right.items))

\* map for lists, collect for sets and bags
Collect == \E mapped \in [DOMAIN left.items -> Elem] :
  Assign(WithItems(left, ItemsOf(left.kind, mapped)))

Filter == \E I \in SUBSET DOMAIN left.items : Assign(WithItems(left, Pick(left.items, I)))

\* set(list), bag(list) and a list literal of the items
Construct == \E k \in Kinds :
  /\ left.kind = "List"
  /\ Assign([kind |-> k, items |-> ItemsOf(k, left.items)])

Swap == left' = right /\ right' = left

Copy == right' = left /\ UNCHANGED left

Next ==
  \/ DoUnion \/ DoDifference \/ DoIntersection \/ DoUnionAggregate
  \/ DoInsert \/ DoRemove \/ DoAppend \/ Collect \/ Filter \/ Construct
  \/ Swap \/ Copy

Spec == Init /\ [][Next]_vars

-----------------------------------------------------------------------------
(***************************************************************************)
(* Properties.                                                             *)
(***************************************************************************)
Collection(c) ==
  /\ c \in [kind : Kinds, items : Seq(Elem)]
  /\ c.kind = "Set" => IsDistinct(c.items)

\* However it was made, a Set never holds a value twice.
SetsDistinct == Collection(left) /\ Collection(right)

Count(c, e) == CountValue(c.items, e)

Larger(m, n) == IF m >= n THEN m ELSE n
Smaller(m, n) == IF m <= n THEN m ELSE n
Excess(m, n) == IF m >= n THEN m - n ELSE 0

(***************************************************************************)
(* Sets and bags are multisets: union is the maximum of the occurrences,   *)
(* intersection the minimum and difference what is left over; remove is    *)
(* the difference with the value alone.                                    *)
(***************************************************************************)
MultisetAlgebra ==
  SameKind /\ left.kind # "List" =>
    \A e \in Elem :
      /\ Count(Union(left, right), e) = Larger(Count(left, e), Count(right, e))
      /\ Count(Intersection(left, right), e) = Smaller(Count(left, e), Count(right, e))
      /\ Count(Difference(left, right), e) = Excess(Count(left, e), Count(right, e))
      /\ Equal(RemoveFrom(e, left), Difference(left, WithItems(left, <<e>>)))

(***************************************************************************)
(* On lists the operations respect the order of the left operand, with all *)
(* its repetitions: difference and intersection split it in two, and union *)
(* puts what is new in front of the right operand.                         *)
(***************************************************************************)
ListAlgebra ==
  SameKind /\ left.kind = "List" =>
    LET l == left.items
        new == Difference(left, right).items
        shared == Intersection(left, right).items
        SharedUpTo(i) == Cardinality({j \in 1..i : l[j] \in ToSet(right.items)})
    IN /\ Len(new) + Len(shared) = Len(l)
       /\ \A i \in DOMAIN l :
            IF l[i] \in ToSet(right.items) THEN shared[SharedUpTo(i)] = l[i]
                                          ELSE new[i - SharedUpTo(i)] = l[i]
       /\ Union(left, right).items = new \o right.items

(***************************************************************************)
(* equal and subset compare occurrences, not the order of the items.       *)
(***************************************************************************)
EqualAgrees ==
  SameKind /\ left.kind # "List" =>
    /\ Subset(left, right) <=> \A e \in Elem : Count(left, e) <= Count(right, e)
    /\ Equal(left, right) <=> \A e \in Elem : Count(left, e) = Count(right, e)

(***************************************************************************)
(* UNION of a list of collections is their union in any order, and takes   *)
(* no harm from a collection that is listed twice.                         *)
(***************************************************************************)
AggregateAgrees ==
  SameKind /\ left.kind # "List" =>
    \A cs \in {<<left, right>>, <<right, left>>, <<left, right, left>>} :
      Equal(UnionAggregate(cs), Union(left, right))

=============================================================================
