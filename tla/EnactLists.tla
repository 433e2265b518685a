----------------------------- MODULE EnactLists -----------------------------
(***************************************************************************)
(* The walks of builtin.c over immutable linked lists of values, which are *)
(* compared with enact_value_equal: what each makes of its arguments.      *)
(***************************************************************************)
EXTENDS Naturals, Sequences, FiniteSets, SequencesExt

IsDistinct(s) == \A i, j \in DOMAIN s : s[i] = s[j] => i = j

\* The items of s at the positions in I, in their order.
Pick(s, I) ==
  [k \in 1..Cardinality(I) |-> s[CHOOSE i \in I : Cardinality({j \in I : j <= i}) = k]]

\* enact_builtin_list_count_value, for the list from position i on.
CountFrom(s, i, e) == Cardinality({j \in i..Len(s) : s[j] = e})

CountValue(s, e) == CountFrom(s, 1, e)

MutDistinctItems(s) == Pick(s, {i \in DOMAIN s : i = Len(s) \/ s[i + 1] # s[i]})

\* enact_builtin_collection_items_from_list, enact_builtin_collect_list: an
\* item that occurs again behind is dropped.
DistinctItems(s) == Pick(s, {i \in DOMAIN s : CountFrom(s, i + 1, s[i]) = 0})

\* enact_builtin_remove_one: the first occurrence.
RemoveOne(e, s) == Pick(s, {i \in DOMAIN s : s[i] # e \/ \E j \in 1..(i - 1) : s[j] = e})

DifferenceLists(l, r) == Pick(l, {i \in DOMAIN l : l[i] \notin ToSet(r)})

MutIntersectionLists(l, r) == Pick(r, {i \in DOMAIN r : r[i] \in ToSet(l)})

IntersectionLists(l, r) == Pick(l, {i \in DOMAIN l : l[i] \in ToSet(r)})

UnionLists(l, r) == DifferenceLists(l, r) \o r

MutBagDifferenceLists(l, r) ==
  Pick(l, {i \in DOMAIN l : CountValue(l, l[i]) > CountValue(r, l[i])})

\* The count of the head in the rest of l against its count in r.
BagDifferenceLists(l, r) ==
  Pick(l, {i \in DOMAIN l : CountFrom(l, i, l[i]) > CountValue(r, l[i])})

BagIntersectionLists(l, r) ==
  Pick(l, {i \in DOMAIN l : CountFrom(l, i, l[i]) <= CountValue(r, l[i])})

BagUnionLists(l, r) == BagDifferenceLists(l, r) \o r

ListIsSubset(l, r) == ToSet(l) \subseteq ToSet(r)

MutListIsBagSubset(l, r) == ToSet(l) \subseteq ToSet(r) /\ Len(l) <= Len(r)

ListIsBagSubset(l, r) == \A i \in DOMAIN l : CountFrom(l, i, l[i]) <= CountValue(r, l[i])

=============================================================================
