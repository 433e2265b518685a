-------------------------- MODULE EnactHeapProofs ---------------------------
(***************************************************************************)
(* The reference counts of EnactHeap are exact, for every finite set of    *)
(* addresses, environments and names and every quota.                      *)
(***************************************************************************)
EXTENDS EnactHeap, FiniteSetTheorems, SequenceTheorems, WellFoundedInduction, TLAPS

\* What places may hold.
Ref == Cell \cup {Nil}

Graphs == [Owner -> [Label -> Ref]]

\* The places that hold c in graph a.
In(a, c) == {p \in Place : a[p[1]][p[2]] = c}

\* The labels under which g holds c.
Labels(g, c) == {l \in Label : g[l] = c}

-----------------------------------------------------------------------------
(***************************************************************************)
(* The sets of labels and places are finite, so references can be counted. *)
(***************************************************************************)
LEMMA PlacesFinite == IsFiniteSet(Label) /\ IsFiniteSet(Place)
<1>1. IsFiniteSet(Member)
  <2>1. Member = {"head"} \cup ({"tail"} \cup ({"class"} \cup ({"mixin"} \cup
                 ({"callable"} \cup ({"receiver"} \cup {"items"})))))
    BY DEF Member
  <2>2. QED BY <2>1, FS_Singleton, FS_Union
<1>2. IsFiniteSet(Label)
  BY <1>1, FS_Union, HeapAssumption DEF Label
<1>3. IsFiniteSet(Owner)
  BY FS_Union, FS_Singleton, HeapAssumption DEF Owner
<1>4. QED BY <1>2, <1>3, FS_Product DEF Place

\* Any set of places, any set of labels and any set of cells is finite.
LEMMA SubsetsFinite ==
  /\ \A S \in SUBSET Place : IsFiniteSet(S) /\ Cardinality(S) \in Nat
  /\ \A S \in SUBSET Label : IsFiniteSet(S) /\ Cardinality(S) \in Nat
  /\ \A S \in SUBSET Cell : IsFiniteSet(S) /\ Cardinality(S) \in Nat
BY PlacesFinite, HeapAssumption, FS_Subset, FS_CardinalityType

LEMMA InFinite ==
  ASSUME NEW a, NEW c
  PROVE  /\ In(a, c) \in SUBSET Place
         /\ IsFiniteSet(In(a, c))
         /\ Cardinality(In(a, c)) \in Nat
<1>1. In(a, c) \in SUBSET Place BY DEF In
<1>2. QED BY <1>1, SubsetsFinite

(***************************************************************************)
(* Overwriting one label moves one place from the cell it held to the cell *)
(* it now holds.                                                           *)
(***************************************************************************)
LEMMA InOverwrite ==
  ASSUME NEW a \in Graphs, NEW o \in Owner, NEW l \in Label, NEW v \in Ref,
         NEW c \in Cell
  PROVE  LET b == [a EXCEPT ![o][l] = v]
         IN /\ b \in Graphs
            /\ In(b, c) = IF c = v THEN In(a, c) \cup {<<o, l>>}
                          ELSE In(a, c) \ {<<o, l>>}
<1> DEFINE b == [a EXCEPT ![o][l] = v]
<1>1. b \in Graphs BY DEF Graphs
<1>2. \A p \in Place : b[p[1]][p[2]] = IF p = <<o, l>> THEN v ELSE a[p[1]][p[2]]
  BY DEF Place, Graphs
<1>3. <<o, l>> \in Place BY DEF Place
<1>4. QED BY <1>1, <1>2, <1>3 DEF In

(***************************************************************************)
(* Filling an owner that held nothing adds the places of its labels.       *)
(***************************************************************************)
LEMMA InFill ==
  ASSUME NEW a \in Graphs, NEW o \in Owner, a[o] = Empty,
         NEW g \in [Label -> Ref], NEW c \in Cell
  PROVE  LET b == [a EXCEPT ![o] = g]
         IN /\ b \in Graphs
            /\ In(b, c) = In(a, c) \cup ({o} \X Labels(g, c))
            /\ Cardinality(In(b, c)) = Cardinality(In(a, c)) + Cardinality(Labels(g, c))
<1> DEFINE b == [a EXCEPT ![o] = g]
           new == {o} \X Labels(g, c)
<1>1. b \in Graphs BY DEF Graphs
<1>2. \A p \in Place : b[p[1]][p[2]] = IF p[1] = o THEN g[p[2]] ELSE a[p[1]][p[2]]
  BY DEF Place, Graphs
<1>3. c # Nil BY HeapAssumption
<1>4. \A p \in In(a, c) : p[1] # o
  BY <1>3 DEF In, Empty, Place
<1>5. In(b, c) = In(a, c) \cup new
  BY <1>2, <1>4 DEF In, Labels, Place
<1>6. In(a, c) \cap new = {} BY <1>4
<1>7. /\ IsFiniteSet(Labels(g, c))
      /\ Cardinality(Labels(g, c)) \in Nat
  BY SubsetsFinite DEF Labels
<1>8. /\ IsFiniteSet(new)
      /\ Cardinality(new) = Cardinality(Labels(g, c))
  <2>1. IsFiniteSet({o}) /\ Cardinality({o}) = 1
    BY FS_Singleton
  <2>2. /\ IsFiniteSet(new)
        /\ Cardinality(new) = Cardinality({o}) * Cardinality(Labels(g, c))
    BY <1>7, <2>1, FS_Product
  <2>3. 1 * Cardinality(Labels(g, c)) = Cardinality(Labels(g, c))
    BY <1>7
  <2>4. QED BY <2>1, <2>2, <2>3
<1>9. Cardinality(In(b, c)) =
        Cardinality(In(a, c)) + Cardinality(new) - Cardinality(In(a, c) \cap new)
  BY <1>5, <1>8, InFinite, FS_Union
<1>10. Cardinality(In(a, c) \cap new) = 0
  BY <1>6, FS_EmptySet
<1>11. Cardinality(In(b, c)) = Cardinality(In(a, c)) + Cardinality(Labels(g, c))
  BY <1>7, <1>8, <1>9, <1>10, InFinite
<1>12. QED BY <1>1, <1>5, <1>11


(***************************************************************************)
(* How overwriting one label changes the number of places of each cell.    *)
(***************************************************************************)
LEMMA CountOverwrite ==
  ASSUME NEW a \in Graphs, NEW o \in Owner, NEW l \in Label, NEW v \in Ref,
         NEW c \in Cell
  PROVE  LET b == [a EXCEPT ![o][l] = v]
         IN Cardinality(In(b, c)) =
              Cardinality(In(a, c)) + (IF c = v /\ c # a[o][l] THEN 1 ELSE 0)
                                    - (IF c # v /\ c = a[o][l] THEN 1 ELSE 0)
<1> DEFINE b == [a EXCEPT ![o][l] = v]
           p == <<o, l>>
<1>1. p \in In(a, c) <=> a[o][l] = c
  BY DEF In, Place
<1>2. In(b, c) = IF c = v THEN In(a, c) \cup {p} ELSE In(a, c) \ {p}
  BY InOverwrite
<1>3. IsFiniteSet(In(a, c)) /\ Cardinality(In(a, c)) \in Nat
  BY InFinite
<1>4. Cardinality(In(a, c) \cup {p}) =
        IF p \in In(a, c) THEN Cardinality(In(a, c)) ELSE Cardinality(In(a, c)) + 1
  BY <1>3, FS_AddElement
<1>5. Cardinality(In(a, c) \ {p}) =
        IF p \in In(a, c) THEN Cardinality(In(a, c)) - 1 ELSE Cardinality(In(a, c))
  BY <1>3, FS_RemoveElement
<1> QED BY <1>1, <1>2, <1>3, <1>4, <1>5

\* A cell that some place holds has a positive number of places.
LEMMA CountPositive ==
  ASSUME NEW a, NEW c
  PROVE  In(a, c) = {} <=> Cardinality(In(a, c)) = 0
BY InFinite, FS_EmptySet

LEMMA UnwindingAppend ==
  ASSUME NEW w \in Seq(Cell \cup Env), NEW x \in Cell \cup Env
  PROVE  /\ Append(w, x) \in Seq(Cell \cup Env)
         /\ {Append(w, x)[i] : i \in 1..Len(Append(w, x))} =
              {w[i] : i \in 1..Len(w)} \cup {x}
<1>1. /\ Len(Append(w, x)) = Len(w) + 1
      /\ Len(w) \in Nat
      /\ \A i \in 1..Len(w) : Append(w, x)[i] = w[i]
      /\ Append(w, x)[Len(w) + 1] = x
  OBVIOUS
<1>2. 1..(Len(w) + 1) = 1..Len(w) \cup {Len(w) + 1}
  BY <1>1
<1> QED BY <1>1, <1>2

-----------------------------------------------------------------------------
(***************************************************************************)
(* The two ways the runtime changes references, and that each keeps the    *)
(* invariant.                                                              *)
(***************************************************************************)

\* What is held at the start of a caller's step: nothing is given up yet.
LEMMA CallerHolds ==
  ASSUME HeapInv, Running
  PROVE  /\ held = at
         /\ dropped = {}
         /\ Unwinding = {}
BY DEF HeapInv, FreedIsEmpty, Running, Unwinding, held

\* And at its end, when it has changed nothing that teardowns keep.
LEMMA HoldsNext ==
  ASSUME at' \in Graphs, dropped' = {}
  PROVE  held' = at'
BY DEF held, Graphs

\* Outside the teardowns nothing is given up.
LEMMA HeldIs ==
  ASSUME HeapInv
  PROVE  /\ held \in Graphs
         /\ \A o \in Owner : \A l \in Label :
              held[o][l] = IF <<o, l>> \in dropped THEN Nil ELSE at[o][l]
<1>1. at \in Graphs
  BY DEF HeapInv, TypeOK, Graphs, Ref
<1>2. CASE Running
  BY <1>1, <1>2, CallerHolds DEF Graphs
<1>3. CASE ~Running
  BY <1>1, <1>3 DEF held, Graphs, Ref
<1> QED BY <1>2, <1>3

(***************************************************************************)
(* Label l of o comes to hold v: what a caller's assignment and a step of  *)
(* a teardown have in common.                                              *)
(***************************************************************************)
Rebind(o, l, v) ==
  /\ held' = [held EXCEPT ![o][l] = v]
  /\ Release(Retain(count, v), held[o][l])
  /\ UNCHANGED <<kind, open, cells, peak>>

\* g refers only to cells that some place holds.
Held(g) ==
  /\ g \in [Label -> Ref]
  /\ \A l \in Label : g[l] # Nil => References(g[l]) # {}

Writable(o) == o = Locals \/ o \in open \/ o \in Allocated

LEMMA RebindKeeps ==
  ASSUME HeapInv,
         NEW o \in Owner, NEW l \in Label, NEW v \in Ref,
         v # Nil => References(v) # {} /\ Writable(o),
         Rebind(o, l, v),
         at' \in Graphs, dropped' \in SUBSET Place,
         \A p \in dropped' : p[1] \in Unwinding'
  PROVE  HeapInv'
<1> DEFINE old == held[o][l]
           cnt == Retain(count, v)
<1>1. /\ TypeOK /\ RefCountExact /\ NoDangling
      /\ CellsExact /\ TeardownOnce /\ FreedIsEmpty
  BY DEF HeapInv
<1>2. /\ held \in Graphs
      /\ count \in [Cell -> Nat]
      /\ work \in Seq(Cell \cup Env)
      /\ old \in Ref
      /\ Nil \notin Cell
  BY <1>1, HeldIs, HeapAssumption DEF TypeOK, Graphs, Ref
<1>3. /\ held' = [held EXCEPT ![o][l] = v]
      /\ UNCHANGED <<kind, open, cells, peak>>
      /\ Release(cnt, old)
  BY DEF Rebind
<1>4. /\ cnt \in [Cell -> Nat]
      /\ \A c \in Cell : cnt[c] = count[c] + IF c = v THEN 1 ELSE 0
  BY <1>2 DEF Retain, Ref
<1>5. held' \in Graphs
  BY <1>2, <1>3 DEF Graphs
<1>6. \A c \in Cell :
        Cardinality(References(c)') =
          Cardinality(References(c)) + (IF c = v /\ c # old THEN 1 ELSE 0)
                                     - (IF c # v /\ c = old THEN 1 ELSE 0)
  BY <1>2, <1>3, CountOverwrite DEF References, In
<1>7. \A c \in Cell : /\ Cardinality(References(c)) \in Nat
                      /\ Cardinality(References(c)') \in Nat
                      /\ References(c) = {} <=> Cardinality(References(c)) = 0
                      /\ References(c)' = {} <=> Cardinality(References(c)') = 0
  <2>1. \A c \in Cell : References(c) = In(held, c) /\ References(c)' = In(held', c)
    BY DEF References, In
  <2> QED BY <2>1, InFinite, CountPositive
<1>8. old # Nil => <<o, l>> \in References(old)
  BY <1>2 DEF References, Place
<1>9. old # Nil => /\ old \in Allocated \ Unwinding
                   /\ count[old] = Cardinality(References(old))
                   /\ count[old] >= 1
  BY <1>1, <1>2, <1>7, <1>8 DEF NoDangling, RefCountExact, Ref
<1>10. v # Nil => v \in Allocated \ Unwinding
  BY <1>1 DEF NoDangling, Ref
<1>11. /\ kind' = kind /\ Allocated' = Allocated
       /\ open' = open
       /\ CellsExact'
  BY <1>1, <1>3 DEF Allocated, CellsExact
<1>12. Unwinding \subseteq Unwinding' => FreedIsEmpty'
  <2> SUFFICES ASSUME Unwinding \subseteq Unwinding'
               PROVE  FreedIsEmpty'
    OBVIOUS
  <2>1. ASSUME NEW x \in Owner, held[x] = Empty, x # o \/ v = Nil
        PROVE  held'[x] = Empty
    BY <2>1, <1>2, <1>3 DEF Graphs, Empty
  <2>2. \A c \in Cell \ Allocated : v # Nil => c # o
    BY <1>1, HeapAssumption DEF Writable, TypeOK
  <2>3. \A e \in Env \ (open \cup Unwinding) : v # Nil => e # o
    BY HeapAssumption DEF Writable, Allocated
  <2> QED BY <1>1, <1>11, <2>1, <2>2, <2>3 DEF FreedIsEmpty, Owner
<1>13. \A c \in Cell : References(c)' # {} => c \in Allocated \ Unwinding
  <2> SUFFICES ASSUME NEW c \in Cell, References(c)' # {}
               PROVE  c \in Allocated \ Unwinding
    OBVIOUS
  <2>1. CASE c = v
    BY <2>1, <1>2, <1>10
  <2>2. CASE c # v
    <3>1. Cardinality(References(c)) # 0
      BY <2>2, <1>6, <1>7
    <3> QED BY <3>1, <1>1, <1>7 DEF NoDangling
  <2> QED BY <2>1, <2>2
<1>14. old # Nil => cnt[old] \in Nat
  BY <1>2, <1>4 DEF Ref
<1> HIDE DEF cnt, old
<1>15. CASE old = Nil
  <2>1. count' = cnt /\ work' = work /\ Unwinding' = Unwinding
    BY <1>3, <1>15 DEF Release, Unwinding
  <2>2. TypeOK'
    BY <1>1, <1>4, <1>5, <1>11, <1>3, <2>1 DEF TypeOK, Graphs, Ref
  <2>3. RefCountExact'
    <3> SUFFICES ASSUME NEW c \in Cell
                 PROVE  cnt[c] = Cardinality(References(c)')
                                    + (IF c \in Unwinding THEN 1 ELSE 0)
      BY <2>1 DEF RefCountExact
    <3>1. count[c] = Cardinality(References(c)) + (IF c \in Unwinding THEN 1 ELSE 0)
      BY <1>1 DEF RefCountExact
    <3>2. cnt[c] = count[c] + IF c = v THEN 1 ELSE 0
      BY <1>4
    <3>3. count[c] \in Nat /\ c # old
      BY <1>2, <1>15
    <3> QED BY <1>6, <1>7, <3>1, <3>2, <3>3
  <2>4. NoDangling'
    BY <1>11, <1>13, <2>1 DEF NoDangling
  <2>5. TeardownOnce'
    BY <1>1, <1>11, <2>1 DEF TeardownOnce
  <2> QED BY <1>11, <1>12, <2>1, <2>2, <2>3, <2>4, <2>5 DEF HeapInv
<1>16. CASE old # Nil /\ cnt[old] > 1
  <2>1. /\ count' = [cnt EXCEPT ![old] = @ - 1]
        /\ work' = work /\ Unwinding' = Unwinding
    BY <1>3, <1>14, <1>16 DEF Release, Unwinding
  <2>2. old \in Cell BY <1>2, <1>16 DEF Ref
  <2>3. \A c \in Cell : count'[c] = cnt[c] - IF c = old THEN 1 ELSE 0
    BY <1>4, <2>1, <2>2
  <2>4. count' \in [Cell -> Nat]
    BY <1>4, <1>14, <1>16, <2>1, <2>2
  <2>5. TypeOK'
    BY <1>1, <1>5, <1>11, <1>3, <2>1, <2>4 DEF TypeOK, Graphs, Ref
  <2>6. RefCountExact'
    <3> SUFFICES ASSUME NEW c \in Cell
                 PROVE  count'[c] = Cardinality(References(c)')
                                    + (IF c \in Unwinding THEN 1 ELSE 0)
      BY <2>1 DEF RefCountExact
    <3>1. count[c] = Cardinality(References(c)) + (IF c \in Unwinding THEN 1 ELSE 0)
      BY <1>1 DEF RefCountExact
    <3>2. cnt[c] = count[c] + IF c = v THEN 1 ELSE 0
      BY <1>4
    <3>3. count[c] \in Nat BY <1>2
    <3> QED BY <1>6, <1>7, <2>3, <3>1, <3>2, <3>3
  <2>7. NoDangling'
    BY <1>11, <1>13, <2>1 DEF NoDangling
  <2>8. TeardownOnce'
    BY <1>1, <1>11, <2>1 DEF TeardownOnce
  <2> QED BY <1>11, <1>12, <2>1, <2>5, <2>6, <2>7, <2>8 DEF HeapInv
<1>17. CASE old # Nil /\ cnt[old] <= 1
  <2>1. count' = cnt /\ work' = Append(work, old)
    BY <1>3, <1>14, <1>17 DEF Release
  <2>2. old \in Cell BY <1>2, <1>17 DEF Ref
  <2>3. /\ work' \in Seq(Cell \cup Env)
        /\ Unwinding' = Unwinding \cup {old}
    BY <1>2, <2>1, <2>2, UnwindingAppend DEF Unwinding
  <2>4. count[old] \in Nat /\ cnt[old] = count[old] + IF old = v THEN 1 ELSE 0
    BY <1>2, <1>4, <2>2
  <2>5. v # old /\ count[old] = 1
    BY <1>9, <1>17, <2>4
  <2>6. Cardinality(References(old)) = 1
    BY <1>9, <1>17, <2>5
  <2>7. \A c \in Cell : c = old => Cardinality(References(c)') = 0
    BY <1>6, <2>5, <2>6
  <2>8. \A c \in Cell : c = old => References(c)' = {}
    BY <1>7, <2>7
  <2>9. TypeOK'
    BY <1>1, <1>4, <1>5, <1>11, <1>3, <2>1, <2>3 DEF TypeOK, Graphs, Ref
  <2>10. RefCountExact'
    <3> SUFFICES ASSUME NEW c \in Cell
                 PROVE  cnt[c] = Cardinality(References(c)')
                          + (IF c \in Unwinding \cup {old} THEN 1 ELSE 0)
      BY <2>1, <2>3 DEF RefCountExact
    <3>1. count[c] = Cardinality(References(c)) + (IF c \in Unwinding THEN 1 ELSE 0)
      BY <1>1 DEF RefCountExact
    <3>2. cnt[c] = count[c] + IF c = v THEN 1 ELSE 0
      BY <1>4
    <3>3. CASE c = old
      BY <1>9, <1>17, <2>5, <2>7, <3>2, <3>3
    <3>4. CASE c # old
      BY <1>6, <1>7, <3>1, <3>2, <3>4
    <3> QED BY <3>3, <3>4
  <2>11. NoDangling'
    BY <1>11, <1>13, <2>3, <2>8 DEF NoDangling
  <2>12. TeardownOnce'
    <3>1. /\ Len(work') = Len(work) + 1
          /\ Len(work) \in Nat
          /\ \A i \in 1..Len(work) : work'[i] = work[i]
          /\ work'[Len(work) + 1] = old
      BY <1>2, <2>1, <2>2
    <3>2. \A i \in 1..Len(work) : work[i] # old
      BY <1>9, <1>17 DEF Unwinding
    <3>3. old \in Allocated BY <1>9, <1>17
    <3> QED BY <1>1, <1>11, <3>1, <3>2, <3>3 DEF TeardownOnce
  <2> QED BY <1>11, <1>12, <2>3, <2>9, <2>10, <2>11, <2>12 DEF HeapInv
<1> QED BY <1>14, <1>15, <1>16, <1>17


LEMMA OverwriteKeeps ==
  ASSUME HeapInv, Running,
         NEW o \in Owner, NEW l \in Label, NEW v \in Ref,
         v # Nil => References(v) # {} /\ Writable(o),
         Overwrite(o, l, v)
  PROVE  HeapInv'
<1>1. held = at /\ dropped = {} /\ at \in Graphs
  BY CallerHolds DEF HeapInv, TypeOK, Graphs, Ref
<1>2. at' \in Graphs /\ dropped' = {}
  BY <1>1 DEF Overwrite, Graphs
<1>3. held' = at'
  BY <1>2, HoldsNext
<1>4. Rebind(o, l, v)
  BY <1>1, <1>3 DEF Overwrite, Rebind
<1> QED BY <1>2, <1>4, RebindKeeps

(***************************************************************************)
(* Filling owner o, which held nothing, with references to held cells:     *)
(* what the counts, the places and their targets become.                   *)
(***************************************************************************)
LEMMA FillCounts ==
  ASSUME HeapInv, Running, NEW g, Held(g), NEW o \in Owner, at[o] = Empty
  PROVE  LET a == [at EXCEPT ![o] = g]
         IN /\ a \in Graphs
            /\ RetainAll(g) \in [Cell -> Nat]
            /\ \A c \in Cell :
                 /\ RetainAll(g)[c] - count[c] =
                      Cardinality(In(a, c)) - Cardinality(In(at, c))
                 /\ In(a, c) # {} => c \in Allocated \ Unwinding
<1> DEFINE a == [at EXCEPT ![o] = g]
<1>1. /\ at \in Graphs
      /\ count \in [Cell -> Nat]
      /\ g \in [Label -> Ref]
      /\ Nil \notin Cell
  BY HeapAssumption DEF HeapInv, TypeOK, Graphs, Ref, Held
<1>2. \A c \in Cell : Labels(g, c) \in SUBSET Label /\ Cardinality(Labels(g, c)) \in Nat
  BY SubsetsFinite DEF Labels
<1>3. \A c \in Cell : RetainAll(g)[c] = count[c] + Cardinality(Labels(g, c))
  BY DEF RetainAll, Labels
<1>4. RetainAll(g) \in [Cell -> Nat]
  BY <1>1, <1>2, <1>3 DEF RetainAll
<1>5. a \in Graphs
  BY <1>1 DEF Graphs
<1>6. \A c \in Cell :
        /\ In(a, c) = In(at, c) \cup ({o} \X Labels(g, c))
        /\ Cardinality(In(a, c)) = Cardinality(In(at, c)) + Cardinality(Labels(g, c))
  BY <1>1, InFill
<1>7. \A c \in Cell : Cardinality(In(at, c)) \in Nat
  BY InFinite
<1>8. ASSUME NEW c \in Cell, In(a, c) # {}
      PROVE  c \in Allocated \ Unwinding
  <2>1. References(c) # {}
    <3>1. CASE In(at, c) # {}
      BY <3>1, CallerHolds DEF References, In
    <3>2. CASE Labels(g, c) # {}
      BY <1>1, <3>2 DEF Labels, Held
    <3> QED BY <1>6, <1>8, <3>1, <3>2
  <2> QED BY <2>1 DEF HeapInv, NoDangling
<1>9. ASSUME NEW c \in Cell
      PROVE  RetainAll(g)[c] - count[c] =
               Cardinality(In(a, c)) - Cardinality(In(at, c))
  <2> HIDE DEF a
  <2>1. /\ count[c] \in Nat
        /\ Cardinality(Labels(g, c)) \in Nat
        /\ Cardinality(In(at, c)) \in Nat
    BY <1>1, <1>2, <1>7, <1>9
  <2>2. /\ RetainAll(g)[c] = count[c] + Cardinality(Labels(g, c))
        /\ Cardinality(In(a, c)) = Cardinality(In(at, c)) + Cardinality(Labels(g, c))
    BY <1>3, <1>6, <1>9
  <2> QED BY <2>1, <2>2
<1> QED BY <1>4, <1>5, <1>8, <1>9

LEMMA NewKeeps ==
  ASSUME HeapInv, NEW k \in AllKinds, NEW dst \in Name, NEW g, Held(g),
         New(k, dst, g)
  PROVE  HeapInv'
<1>0. /\ Running /\ held = at /\ dropped = {} /\ dropped' = {}
      /\ held' = at'
  <2>1. Running /\ dropped' = dropped BY DEF New
  <2>2. held = at /\ dropped = {} /\ at \in Graphs
    BY <2>1, CallerHolds DEF HeapInv, TypeOK, Graphs, Ref
  <2>3. at' \in Graphs
    <3>1. PICK c \in Cell : at' = [at EXCEPT ![c] = g, ![Locals][dst] = c]
      BY DEF New
    <3>2. g \in [Label -> Cell \cup {Nil}]
      BY DEF Held, Ref
    <3> QED BY <2>2, <3>1, <3>2 DEF Graphs, Ref
  <2> QED BY <2>1, <2>2, <2>3, HoldsNext
<1>1. /\ TypeOK /\ RefCountExact /\ NoDangling
      /\ CellsExact /\ TeardownOnce /\ FreedIsEmpty
      /\ at \in Graphs
  BY DEF HeapInv, TypeOK, Graphs, Ref
<1>2. PICK c \in Cell :
        /\ kind[c] = Free
        /\ kind' = [kind EXCEPT ![c] = k]
        /\ at' = [at EXCEPT ![c] = g, ![Locals][dst] = c]
        /\ count' = [RetainAll(g) EXCEPT ![c] = 1]
  BY DEF New
<1>3. /\ work = <<>> /\ work' = work /\ open' = open
      /\ CellAllocated
      /\ at[Locals][dst] = Nil
      /\ Unwinding = {} /\ Unwinding' = {}
  BY DEF New, Running, Local, Unwinding
<1> DEFINE a == [at EXCEPT ![c] = g]
<1>4. /\ Locals # c /\ Locals \in Owner /\ dst \in Label /\ c \in Ref
      /\ c # Nil /\ c \in Owner
  BY HeapAssumption DEF Owner, Label, Ref
<1>5. c \notin Allocated /\ at[c] = Empty
  BY <1>0, <1>1, <1>2 DEF Allocated, FreedIsEmpty
<1>6. /\ a \in Graphs
      /\ RetainAll(g) \in [Cell -> Nat]
      /\ \A d \in Cell :
           /\ RetainAll(g)[d] - count[d] =
                Cardinality(In(a, d)) - Cardinality(In(at, d))
           /\ In(a, d) # {} => d \in Allocated \ Unwinding
  BY <1>0, <1>4, <1>5, FillCounts
<1>7. /\ at' = [a EXCEPT ![Locals][dst] = c]
      /\ a[Locals][dst] = Nil
  BY <1>1, <1>2, <1>3, <1>4 DEF Graphs
<1> HIDE DEF a
<1>8. at' \in Graphs
  BY <1>4, <1>6, <1>7 DEF Graphs
<1>9. \A d \in Cell : Cardinality(In(at', d)) =
                        Cardinality(In(a, d)) + IF d = c THEN 1 ELSE 0
  <2> SUFFICES ASSUME NEW d \in Cell
               PROVE  Cardinality(In(at', d)) =
                        Cardinality(In(a, d)) + IF d = c THEN 1 ELSE 0
    OBVIOUS
  <2>1. d # Nil BY HeapAssumption
  <2>2. Cardinality(In([a EXCEPT ![Locals][dst] = c], d)) =
          Cardinality(In(a, d)) + (IF d = c /\ d # a[Locals][dst] THEN 1 ELSE 0)
                                - (IF d # c /\ d = a[Locals][dst] THEN 1 ELSE 0)
    BY <1>4, <1>6, CountOverwrite
  <2>3. Cardinality(In(a, d)) \in Nat
    BY InFinite
  <2>4. In(at', d) = In([a EXCEPT ![Locals][dst] = c], d)
    BY <1>7
  <2>5. Cardinality(In(at', d)) =
          Cardinality(In(a, d)) + (IF d = c THEN 1 ELSE 0) - 0
    BY <1>7, <2>1, <2>2, <2>4
  <2> QED BY <2>3, <2>5
<1>10. \A d \in Cell : /\ References(d) = In(at, d)
                       /\ References(d)' = In(at', d)
                       /\ Cardinality(In(at, d)) \in Nat
                       /\ Cardinality(In(a, d)) \in Nat
                       /\ Cardinality(In(at', d)) \in Nat
                       /\ In(a, d) = {} <=> Cardinality(In(a, d)) = 0
                       /\ In(at', d) = {} <=> Cardinality(In(at', d)) = 0
  <2>1. \A d \in Cell : References(d) = In(at, d) /\ References(d)' = In(at', d)
    BY <1>0 DEF References, In
  <2> QED BY <2>1, InFinite, CountPositive
<1>11. In(a, c) = {}
  BY <1>5, <1>6
<1>12. Allocated' = Allocated \cup {c}
  BY <1>1, <1>2 DEF Allocated, TypeOK, AllKinds, Free, ListK, FunctionK,
     ClassK, ObjectK, BoundK, CollectionK, PartialK
<1>13. TypeOK'
  <2>1. kind' \in [Cell -> AllKinds \cup {Free}]
    BY <1>0, <1>1, <1>2 DEF TypeOK
  <2>2. count' \in [Cell -> Nat]
    BY <1>2, <1>6
  <2>3. cells' \in Nat /\ peak' \in Nat
    BY <1>0, <1>1, <1>3 DEF TypeOK, CellAllocated
  <2> QED BY <1>0, <1>1, <1>3, <1>8, <2>1, <2>2, <2>3 DEF TypeOK, Graphs, Ref
<1>14. RefCountExact'
  <2> SUFFICES ASSUME NEW d \in Cell
               PROVE  count'[d] = Cardinality(In(at', d))
    BY <1>3, <1>10, InFinite DEF RefCountExact
  <2>1. CASE d = c
    <3>1. count'[c] = 1
      BY <1>2, <1>6
    <3>2. Cardinality(In(a, c)) = 0
      BY <1>10, <1>11
    <3> QED BY <1>9, <2>1, <3>1, <3>2
  <2>2. CASE d # c
    <3>1. count'[d] = RetainAll(g)[d]
      BY <1>2, <1>6, <2>2
    <3>2. count[d] = Cardinality(In(at, d)) /\ count[d] \in Nat
      BY <1>1, <1>3, <1>10 DEF RefCountExact, TypeOK
    <3> QED BY <1>6, <1>9, <1>10, <2>2, <3>1, <3>2
  <2> QED BY <2>1, <2>2
<1>15. NoDangling'
  <2> SUFFICES ASSUME NEW d \in Cell, In(at', d) # {}
               PROVE  d \in Allocated \cup {c}
    BY <1>3, <1>10, <1>12 DEF NoDangling
  <2>1. CASE d = c BY <2>1
  <2>2. CASE d # c
    BY <1>6, <1>9, <1>10, <2>2
  <2> QED BY <2>1, <2>2
<1>16. CellsExact'
  <2>1. Cardinality(Allocated \cup {c}) = Cardinality(Allocated) + 1
    BY <1>5, SubsetsFinite, FS_AddElement DEF Allocated
  <2> QED BY <1>1, <1>3, <1>12, <2>1 DEF CellsExact, CellAllocated, TypeOK
<1>17. TeardownOnce'
  BY <1>3 DEF TeardownOnce
<1>18. FreedIsEmpty'
  <2>1. ASSUME NEW x \in Owner, x # c, x # Locals
        PROVE  at'[x] = at[x]
    BY <1>1, <1>2, <2>1 DEF Graphs
  <2>2. \A d \in Cell : d # Locals /\ d \in Owner
    BY HeapAssumption DEF Owner
  <2>3. \A e \in Env : e # Locals /\ e # c /\ e \in Owner
    BY HeapAssumption DEF Owner
  <2> QED BY <1>0, <1>1, <1>3, <1>12, <2>1, <2>2, <2>3 DEF FreedIsEmpty
<1> QED BY <1>13, <1>14, <1>15, <1>16, <1>17, <1>18 DEF HeapInv

(***************************************************************************)
(* A cell that is released half built is the only one under teardown, and  *)
(* nothing refers to it.                                                   *)
(***************************************************************************)
LEMMA NewFailsKeeps ==
  ASSUME HeapInv, NEW k \in AllKinds, NEW g, Held(g), NewFails(k, g)
  PROVE  HeapInv'
<1>0. /\ Running /\ held = at /\ dropped = {} /\ dropped' = {}
      /\ held' = at'
  <2>1. Running /\ dropped' = dropped BY DEF NewFails
  <2>2. held = at /\ dropped = {} /\ at \in Graphs
    BY <2>1, CallerHolds DEF HeapInv, TypeOK, Graphs, Ref
  <2>3. at' \in Graphs
    BY <2>2 DEF NewFails, Graphs, Held, Ref
  <2> QED BY <2>1, <2>2, <2>3, HoldsNext
<1>1. /\ TypeOK /\ RefCountExact /\ NoDangling
      /\ CellsExact /\ TeardownOnce /\ FreedIsEmpty
      /\ at \in Graphs
  BY DEF HeapInv, TypeOK, Graphs, Ref
<1>2. PICK c \in Cell :
        /\ kind[c] = Free
        /\ kind' = [kind EXCEPT ![c] = k]
        /\ at' = [at EXCEPT ![c] = g]
        /\ count' = [RetainAll(g) EXCEPT ![c] = 1]
        /\ work' = <<c>>
  BY DEF NewFails
<1>3. work = <<>> /\ Unwinding = {} /\ open' = open /\ CellAllocated
  BY DEF NewFails, Running, Unwinding
<1>4. /\ Len(work') = 1 /\ work'[1] = c /\ work' \in Seq(Cell \cup Env)
      /\ Unwinding' = {c}
  BY <1>2 DEF Unwinding
<1>5. c \in Owner /\ c \notin Allocated /\ at[c] = Empty
  BY <1>0, <1>1, <1>2 DEF Allocated, FreedIsEmpty, Owner
<1>6. /\ at' \in Graphs
      /\ RetainAll(g) \in [Cell -> Nat]
      /\ \A d \in Cell :
           /\ RetainAll(g)[d] - count[d] =
                Cardinality(In(at', d)) - Cardinality(In(at, d))
           /\ In(at', d) # {} => d \in Allocated \ Unwinding
  BY <1>0, <1>2, <1>5, FillCounts
<1>7. \A d \in Cell : /\ References(d) = In(at, d)
                      /\ References(d)' = In(at', d)
                      /\ Cardinality(In(at, d)) \in Nat
                      /\ Cardinality(In(at', d)) \in Nat
  <2>1. \A d \in Cell : References(d) = In(at, d) /\ References(d)' = In(at', d)
    BY <1>0 DEF References, In
  <2> QED BY <2>1, InFinite
<1>8. In(at', c) = {} /\ Cardinality({}) = 0
  BY <1>5, <1>6, FS_EmptySet
<1>9. Allocated' = Allocated \cup {c}
  BY <1>1, <1>2 DEF Allocated, TypeOK, AllKinds, Free, ListK, FunctionK,
     ClassK, ObjectK, BoundK, CollectionK, PartialK
<1>10. TypeOK'
  <2>1. kind' \in [Cell -> AllKinds \cup {Free}]
    BY <1>0, <1>1, <1>2 DEF TypeOK
  <2>2. count' \in [Cell -> Nat]
    BY <1>2, <1>6
  <2>3. cells' \in Nat /\ peak' \in Nat
    BY <1>0, <1>1, <1>3 DEF TypeOK, CellAllocated
  <2> QED BY <1>0, <1>1, <1>3, <1>4, <1>6, <2>1, <2>2, <2>3 DEF TypeOK, Graphs, Ref
<1>11. RefCountExact'
  <2> SUFFICES ASSUME NEW d \in Cell
               PROVE  count'[d] = Cardinality(In(at', d)) + (IF d = c THEN 1 ELSE 0)
    BY <1>4, <1>7 DEF RefCountExact
  <2>1. CASE d = c
    <3>1. count'[c] = 1
      BY <1>2, <1>6
    <3> QED BY <1>8, <2>1, <3>1
  <2>2. CASE d # c
    <3>1. count'[d] = RetainAll(g)[d] /\ RetainAll(g)[d] \in Nat
      BY <1>2, <1>6, <2>2
    <3>2. count[d] = Cardinality(In(at, d)) /\ count[d] \in Nat
      BY <1>1, <1>3, <1>7 DEF RefCountExact, TypeOK
    <3> QED BY <1>6, <1>7, <2>2, <3>1, <3>2
  <2> QED BY <2>1, <2>2
<1>12. NoDangling'
  BY <1>3, <1>4, <1>6, <1>7, <1>8, <1>9 DEF NoDangling
<1>13. CellsExact'
  <2>1. Cardinality(Allocated \cup {c}) = Cardinality(Allocated) + 1
    BY <1>5, SubsetsFinite, FS_AddElement DEF Allocated
  <2> QED BY <1>1, <1>3, <1>9, <2>1 DEF CellsExact, CellAllocated, TypeOK
<1>14. TeardownOnce'
  BY <1>4, <1>9 DEF TeardownOnce
<1>15. FreedIsEmpty'
  <2>1. ASSUME NEW x \in Owner, x # c
        PROVE  at'[x] = at[x]
    BY <1>1, <1>2, <2>1 DEF Graphs
  <2>2. \A e \in Env : e # c /\ e \in Owner
    BY HeapAssumption DEF Owner
  <2> QED BY <1>0, <1>1, <1>3, <1>4, <1>9, <2>1, <2>2 DEF FreedIsEmpty, Owner
<1> QED BY <1>10, <1>11, <1>12, <1>13, <1>14, <1>15 DEF HeapInv

(***************************************************************************)
(* Opening and closing environments, and the end of a teardown.            *)
(***************************************************************************)
LEMMA CloneKeeps ==
  ASSUME HeapInv, NEW e \in Env, NEW o \in Owner, EnvClone(e, o)
  PROVE  HeapInv'
<1> DEFINE g == Table(o)
           a == [at EXCEPT ![e] = g]
<1>0. /\ Running /\ held = at /\ dropped = {} /\ dropped' = {}
      /\ held' = at'
  <2>1. Running /\ dropped' = dropped BY DEF EnvClone
  <2>2. held = at /\ dropped = {} /\ at \in Graphs
    BY <2>1, CallerHolds DEF HeapInv, TypeOK, Graphs, Ref
  <2>3. at' \in Graphs
    BY <2>2 DEF EnvClone, Graphs, Table, Ref
  <2> QED BY <2>1, <2>2, <2>3, HoldsNext
<1>1. /\ TypeOK /\ RefCountExact /\ NoDangling
      /\ CellsExact /\ TeardownOnce /\ FreedIsEmpty
      /\ at \in Graphs
  BY DEF HeapInv, TypeOK, Graphs, Ref
<1>2. /\ work = <<>> /\ work' = work
      /\ e \notin open /\ open' = open \cup {e}
      /\ at' = a /\ count' = RetainAll(g)
      /\ UNCHANGED <<kind, cells, peak>>
      /\ Unwinding = {} /\ Unwinding' = {}
  BY DEF EnvClone, Running, Unwinding
<1>3. e \in Owner /\ at[e] = Empty
  BY <1>0, <1>1, <1>2 DEF FreedIsEmpty, Owner
<1>4. Held(g)
  <2>1. g \in [Label -> Ref]
    BY <1>1 DEF Table, Graphs, Ref
  <2>2. ASSUME NEW l \in Label, g[l] # Nil
        PROVE  References(g[l]) # {}
    <3>1. g[l] = at[o][l]
      BY <2>2 DEF Table
    <3>2. <<o, l>> \in Place BY DEF Place
    <3> QED BY <1>0, <3>1, <3>2 DEF References
  <2> QED BY <2>1, <2>2 DEF Held
<1> HIDE DEF g
<1>5. /\ a \in Graphs
      /\ RetainAll(g) \in [Cell -> Nat]
      /\ \A d \in Cell :
           /\ RetainAll(g)[d] - count[d] =
                Cardinality(In(a, d)) - Cardinality(In(at, d))
           /\ In(a, d) # {} => d \in Allocated \ Unwinding
  BY <1>0, <1>3, <1>4, FillCounts
<1>6. /\ Allocated' = Allocated
      /\ \A d \in Cell : /\ References(d) = In(at, d)
                         /\ References(d)' = In(a, d)
                         /\ Cardinality(In(at, d)) \in Nat
                         /\ Cardinality(In(a, d)) \in Nat
  <2>1. \A d \in Cell : References(d) = In(at, d) /\ References(d)' = In(at', d)
    BY <1>0 DEF References, In
  <2> QED BY <1>2, <2>1, InFinite DEF Allocated
<1> HIDE DEF a
<1>7. TypeOK'
  BY <1>0, <1>1, <1>2, <1>5 DEF TypeOK, Graphs, Ref
<1>8. RefCountExact'
  <2> SUFFICES ASSUME NEW d \in Cell
               PROVE  RetainAll(g)[d] = Cardinality(In(a, d))
    BY <1>2, <1>6 DEF RefCountExact
  <2>1. count[d] = Cardinality(In(at, d)) /\ count[d] \in Nat
    BY <1>1, <1>2, <1>6 DEF RefCountExact, TypeOK
  <2>2. RetainAll(g)[d] \in Nat BY <1>5
  <2>3. RetainAll(g)[d] - count[d] = Cardinality(In(a, d)) - Cardinality(In(at, d))
    BY <1>5
  <2> QED BY <1>6, <2>1, <2>2, <2>3
<1>9. NoDangling'
  BY <1>2, <1>5, <1>6 DEF NoDangling
<1>10. CellsExact' /\ TeardownOnce'
  BY <1>1, <1>2, <1>6 DEF CellsExact, TeardownOnce
<1>11. FreedIsEmpty'
  <2>1. ASSUME NEW x \in Owner, x # e
        PROVE  at'[x] = at[x]
    BY <1>1, <1>2, <2>1 DEF a, Graphs
  <2>2. \A d \in Cell : d # e /\ d \in Owner
    BY HeapAssumption DEF Owner
  <2> QED BY <1>0, <1>1, <1>2, <1>6, <2>1, <2>2 DEF FreedIsEmpty, Owner
<1> QED BY <1>7, <1>8, <1>9, <1>10, <1>11 DEF HeapInv

LEMMA CloneFailsKeeps ==
  ASSUME HeapInv, NEW e \in Env, NEW o \in Owner, NEW N \in SUBSET Name,
         EnvCloneFails(e, o, N)
  PROVE  HeapInv'
<1> DEFINE g == [l \in Label |-> IF l \in N THEN at[o][l] ELSE Nil]
<1>0. /\ Running /\ held = at /\ dropped = {} /\ dropped' = {}
      /\ held' = at'
  <2>1. Running /\ dropped' = dropped BY DEF EnvCloneFails
  <2>2. held = at /\ dropped = {} /\ at \in Graphs
    BY <2>1, CallerHolds DEF HeapInv, TypeOK, Graphs, Ref
  <2>3. at' \in Graphs
    BY <2>2 DEF EnvCloneFails, Graphs, Ref
  <2> QED BY <2>1, <2>2, <2>3, HoldsNext
<1>1. /\ TypeOK /\ RefCountExact /\ NoDangling
      /\ CellsExact /\ TeardownOnce /\ FreedIsEmpty
      /\ at \in Graphs
  BY DEF HeapInv, TypeOK, Graphs, Ref
<1>2. /\ work = <<>> /\ work' = <<e>>
      /\ e \notin open /\ open' = open
      /\ at' = [at EXCEPT ![e] = g] /\ count' = RetainAll(g)
      /\ UNCHANGED <<kind, cells, peak>>
      /\ Unwinding = {}
  BY DEF EnvCloneFails, Running, Unwinding
<1>3. /\ Len(work') = 1 /\ work'[1] = e /\ work' \in Seq(Cell \cup Env)
      /\ Unwinding' = {e}
  BY <1>2 DEF Unwinding
<1>4. e \in Owner /\ at[e] = Empty
  BY <1>0, <1>1, <1>2 DEF FreedIsEmpty, Owner
<1>5. Held(g)
  <2>1. g \in [Label -> Ref]
    BY <1>1 DEF Graphs, Ref
  <2>2. ASSUME NEW l \in Label, g[l] # Nil
        PROVE  References(g[l]) # {}
    <3>1. g[l] = at[o][l]
      BY <2>2
    <3>2. <<o, l>> \in Place BY DEF Place
    <3> QED BY <1>0, <3>1, <3>2 DEF References
  <2> QED BY <2>1, <2>2 DEF Held
<1> HIDE DEF g
<1>6. /\ at' \in Graphs
      /\ RetainAll(g) \in [Cell -> Nat]
      /\ \A d \in Cell :
           /\ RetainAll(g)[d] - count[d] =
                Cardinality(In(at', d)) - Cardinality(In(at, d))
           /\ In(at', d) # {} => d \in Allocated \ Unwinding
  BY <1>0, <1>2, <1>4, <1>5, FillCounts
<1>7. /\ Allocated' = Allocated
      /\ \A d \in Cell : /\ d # e
                         /\ References(d) = In(at, d)
                         /\ References(d)' = In(at', d)
                         /\ Cardinality(In(at, d)) \in Nat
                         /\ Cardinality(In(at', d)) \in Nat
  <2>1. \A d \in Cell : References(d) = In(at, d) /\ References(d)' = In(at', d)
    BY <1>0 DEF References, In
  <2> QED BY <1>2, <2>1, InFinite, HeapAssumption DEF Allocated
<1>8. TypeOK'
  BY <1>0, <1>1, <1>2, <1>3, <1>6 DEF TypeOK, Graphs, Ref
<1>9. RefCountExact'
  <2>0. /\ \A d \in Cell : d \notin Unwinding' /\ References(d)' = In(at', d)
        /\ \A d \in Cell : Cardinality(In(at', d)) + 0 = Cardinality(In(at', d))
    BY <1>3, <1>7
  <2> SUFFICES ASSUME NEW d \in Cell
               PROVE  RetainAll(g)[d] = Cardinality(In(at', d))
    BY <1>2, <2>0 DEF RefCountExact
  <2>1. count[d] = Cardinality(In(at, d)) /\ count[d] \in Nat
    BY <1>1, <1>2, <1>7 DEF RefCountExact, TypeOK
  <2>2. RetainAll(g)[d] \in Nat BY <1>6
  <2>3. RetainAll(g)[d] - count[d] = Cardinality(In(at', d)) - Cardinality(In(at, d))
    BY <1>6
  <2> QED BY <1>7, <2>1, <2>2, <2>3
<1>10. NoDangling'
  BY <1>2, <1>3, <1>6, <1>7 DEF NoDangling
<1>11. CellsExact' /\ TeardownOnce'
  BY <1>1, <1>2, <1>3, <1>7 DEF CellsExact, TeardownOnce
<1>12. FreedIsEmpty'
  <2>1. ASSUME NEW x \in Owner, x # e
        PROVE  at'[x] = at[x]
    BY <1>1, <1>2, <2>1 DEF Graphs
  <2>2. \A d \in Cell : d # e /\ d \in Owner
    BY HeapAssumption DEF Owner
  <2> QED BY <1>0, <1>1, <1>2, <1>3, <1>7, <2>1, <2>2 DEF FreedIsEmpty, Owner
<1> QED BY <1>8, <1>9, <1>10, <1>11, <1>12 DEF HeapInv

LEMMA CloseKeeps ==
  ASSUME HeapInv, NEW e \in Env, EnvFree(e)
  PROVE  HeapInv'
<1>0. /\ Running /\ held = at /\ dropped = {} /\ dropped' = {}
      /\ held' = at'
  <2>1. Running /\ dropped' = dropped BY DEF EnvFree
  <2>2. held = at /\ dropped = {} /\ at \in Graphs
    BY <2>1, CallerHolds DEF HeapInv, TypeOK, Graphs, Ref
  <2>3. at' \in Graphs
    BY <2>2 DEF EnvFree
  <2> QED BY <2>1, <2>2, <2>3, HoldsNext
<1>1. /\ TypeOK /\ RefCountExact /\ NoDangling
      /\ CellsExact /\ TeardownOnce /\ FreedIsEmpty
  BY DEF HeapInv
<1>2. /\ work = <<>> /\ work' = <<e>> /\ open' = open \ {e}
      /\ UNCHANGED <<kind, at, count, cells, peak>>
      /\ Unwinding = {}
  BY DEF EnvFree, Running, Unwinding
<1>3. /\ Len(work') = 1 /\ work'[1] = e /\ work' \in Seq(Cell \cup Env)
      /\ Unwinding' = {e}
  BY <1>2 DEF Unwinding
<1>4. \A c \in Cell : c # e BY HeapAssumption
<1>5. /\ Allocated' = Allocated
      /\ \A c \in Cell : References(c)' = References(c)
  BY <1>0, <1>2 DEF Allocated, References
<1>6. TypeOK'
  BY <1>0, <1>1, <1>2, <1>3 DEF TypeOK
<1>7. RefCountExact' /\ NoDangling'
  BY <1>1, <1>2, <1>3, <1>4, <1>5 DEF RefCountExact, NoDangling
<1>8. CellsExact' /\ FreedIsEmpty'
  BY <1>0, <1>1, <1>2, <1>3, <1>5 DEF CellsExact, FreedIsEmpty
<1>9. TeardownOnce'
  BY <1>2, <1>3 DEF TeardownOnce
<1> QED BY <1>6, <1>7, <1>8, <1>9 DEF HeapInv

\* Leaving the innermost teardown takes what it tore down out of the stack.
LEMMA UnwindingPop ==
  ASSUME HeapInv, work # <<>>, work' = Enclosing
  PROVE  /\ Dying \in Unwinding
         /\ Dying \in Allocated \cup (Env \ open)
         /\ work' \in Seq(Cell \cup Env)
         /\ Unwinding' = Unwinding \ {Dying}
         /\ Len(work') = Len(work) - 1
         /\ \A i \in 1..Len(work') : i \in 1..Len(work) /\ work'[i] = work[i]
<1>1. work \in Seq(Cell \cup Env) /\ TeardownOnce
  BY DEF HeapInv, TypeOK
<1>2. Len(work) \in Nat /\ Len(work) >= 1
  BY <1>1
<1>3. /\ Len(work') = Len(work) - 1
      /\ \A i \in 1..Len(work') : i \in 1..Len(work) /\ work'[i] = work[i]
      /\ work' \in Seq(Cell \cup Env)
  <2>1. /\ Len(work) - 1 \in Int
        /\ \A i \in 1..(Len(work) - 1) : i \in 1..Len(work) /\ work[i] \in Cell \cup Env
    BY <1>1, <1>2
  <2>2. /\ Enclosing \in Seq(Cell \cup Env)
        /\ Len(Enclosing) = IF 1 <= Len(work) - 1 THEN Len(work) - 1 - 1 + 1 ELSE 0
        /\ \A i \in 1..(Len(work) - 1 - 1 + 1) : Enclosing[i] = work[1 + i - 1]
    BY <2>1, SubSeqProperties DEF Enclosing
  <2>3. Len(Enclosing) = Len(work) - 1
    <3> DEFINE n == Len(work)
               m == Len(Enclosing)
    <3>1. m = IF 1 <= n - 1 THEN n - 1 - 1 + 1 ELSE 0
      BY <2>2
    <3>2. n \in Nat /\ n >= 1
      BY <1>2
    <3> HIDE DEF m, n
    <3>3. m = n - 1
      BY <3>1, <3>2
    <3> QED BY <3>3 DEF m, n
  <2>4. \A i \in 1..(Len(work) - 1) : Enclosing[i] = work[i]
    <3> TAKE i \in 1..(Len(work) - 1)
    <3>1. 1 + i - 1 = i /\ Len(work) - 1 - 1 + 1 = Len(work) - 1
      BY <1>2
    <3>2. i \in 1..(Len(work) - 1 - 1 + 1)
      BY <3>1
    <3>3. Enclosing[i] = work[1 + i - 1]
      BY <2>2, <3>2
    <3> QED BY <3>1, <3>3
  <2> HIDE DEF Enclosing
  <2> QED BY <2>1, <2>2, <2>3, <2>4
<1>4. Len(work) \in 1..Len(work)
  BY <1>2
<1>5. Dying \in Unwinding /\ Dying \in Allocated \cup (Env \ open)
  BY <1>1, <1>4 DEF Dying, Unwinding, TeardownOnce
<1>6. 1..Len(work) = 1..Len(work') \cup {Len(work)} /\ Len(work) \notin 1..Len(work')
  BY <1>2, <1>3
<1>7. Unwinding' = Unwinding \ {Dying}
  <2>1. Unwinding' = {work'[i] : i \in 1..Len(work')}
    BY DEF Unwinding
  <2>2. \A i \in 1..Len(work') : work'[i] # Dying
    BY <1>1, <1>3, <1>4, <1>6 DEF Dying, TeardownOnce
  <2>3. \A i \in 1..Len(work) : i \in 1..Len(work') \/ work[i] = Dying
    BY <1>6 DEF Dying
  <2>4. \A x \in Unwinding \ {Dying} : x \in Unwinding'
    BY <1>3, <2>1, <2>3 DEF Unwinding
  <2>5. \A x \in Unwinding' : x \in Unwinding /\ x # Dying
    BY <1>3, <2>1, <2>2 DEF Unwinding
  <2> QED BY <2>4, <2>5
<1> QED BY <1>3, <1>5, <1>7

\* The memory of the owner goes when its teardown ends; it holds nothing more.
LEMMA FinishHolds ==
  ASSUME HeapInv, Finish
  PROVE  /\ held' = held
         /\ at' \in Graphs
         /\ dropped' \in SUBSET Place
         /\ \A p \in dropped' : p[1] \in Unwinding'
<1>1. /\ work \in Seq(Cell \cup Env) /\ work # <<>> /\ work' = Enclosing
      /\ held[Dying] = Empty
      /\ at' = [at EXCEPT ![Dying] = Empty]
      /\ dropped' = {p \in dropped : p[1] # Dying}
      /\ at \in Graphs
      /\ dropped \in SUBSET Place
      /\ \A p \in dropped : p[1] \in Unwinding
  <2>1. TypeOK /\ FreedIsEmpty
    BY DEF HeapInv
  <2>2. /\ work \in Seq(Cell \cup Env) /\ at \in Graphs /\ dropped \in SUBSET Place
    BY <2>1 DEF TypeOK, Graphs, Ref
  <2>3. \A p \in dropped : p[1] \in Unwinding
    BY <2>1 DEF FreedIsEmpty
  <2> QED BY <2>2, <2>3 DEF Finish
<1>2. /\ Unwinding' = Unwinding \ {Dying}
      /\ Dying \in Owner
      /\ work' \in Seq(Cell \cup Env)
  <2>1. /\ Unwinding' = Unwinding \ {Dying}
        /\ Dying \in Allocated \cup (Env \ open)
        /\ work' \in Seq(Cell \cup Env)
    BY <1>1, UnwindingPop
  <2> QED BY <2>1 DEF Owner, Allocated
<1>3. at' \in Graphs
  BY <1>1, <1>2 DEF Graphs, Empty, Ref
<1>4. /\ dropped' \in SUBSET Place
      /\ \A p \in dropped' : p[1] \in Unwinding'
  BY <1>1, <1>2
<1>5. Running' => dropped' = {}
  <2>1. Unwinding' = {work'[i] : i \in 1..Len(work')}
    BY DEF Unwinding
  <2>2. Running' => Unwinding' = {}
    BY <2>1 DEF Running
  <2> HIDE DEF Unwinding
  <2> QED BY <1>4, <2>2
<1>6. \A o \in Owner : \A l \in Label :
        held[o][l] = IF <<o, l>> \in dropped' THEN Nil ELSE at'[o][l]
  <2> SUFFICES ASSUME NEW o \in Owner, NEW l \in Label
               PROVE  held[o][l] = IF <<o, l>> \in dropped' THEN Nil ELSE at'[o][l]
    OBVIOUS
  <2>1. held[o][l] = IF <<o, l>> \in dropped THEN Nil ELSE at[o][l]
    BY HeldIs
  <2>2. CASE o = Dying
    BY <1>1, <1>2, <2>2 DEF Empty, Graphs
  <2>3. CASE o # Dying
    BY <1>1, <1>2, <2>1, <2>3 DEF Graphs
  <2> QED BY <2>2, <2>3
<1>7. held \in Graphs
  BY HeldIs
<1>8. CASE Running'
  <2>1. held' = at' /\ dropped' = {}
    BY <1>3, <1>5, <1>8, HoldsNext
  <2> QED BY <1>3, <1>4, <1>6, <1>7, <2>1 DEF Graphs
<1>9. CASE ~Running'
  <2>1. held' = [o \in Owner |-> [l \in Label |->
                   IF <<o, l>> \in dropped' THEN Nil ELSE at'[o][l]]]
    BY <1>9 DEF held
  <2> QED BY <1>3, <1>4, <1>6, <1>7, <2>1 DEF Graphs
<1> QED BY <1>8, <1>9

LEMMA FinishEnvKeeps ==
  ASSUME HeapInv, FinishEnv
  PROVE  HeapInv'
<1>1. /\ TypeOK /\ RefCountExact /\ NoDangling
      /\ CellsExact /\ TeardownOnce /\ FreedIsEmpty
  BY DEF HeapInv
<1>2. /\ work # <<>> /\ work' = Enclosing
      /\ Dying \in Env /\ held[Dying] = Empty /\ held' = held /\ at' \in Graphs
      /\ dropped' \in SUBSET Place /\ \A p \in dropped' : p[1] \in Unwinding'
      /\ UNCHANGED <<kind, count, open, cells, peak>>
  BY FinishHolds DEF FinishEnv, Finish
<1>3. /\ work' \in Seq(Cell \cup Env)
      /\ Unwinding' = Unwinding \ {Dying}
      /\ Len(work') = Len(work) - 1
      /\ \A i \in 1..Len(work') : i \in 1..Len(work) /\ work'[i] = work[i]
  BY <1>2, UnwindingPop
<1>4. \A c \in Cell : c # Dying
  BY <1>2, HeapAssumption
<1>5. /\ Allocated' = Allocated
      /\ \A c \in Cell : References(c)' = References(c)
  BY <1>2 DEF Allocated, References
<1> HIDE DEF Dying
<1>6. TypeOK'
  BY <1>1, <1>2, <1>3 DEF TypeOK, Graphs, Ref
<1>7. RefCountExact' /\ NoDangling'
  BY <1>1, <1>2, <1>3, <1>4, <1>5 DEF RefCountExact, NoDangling
<1>8. CellsExact' /\ FreedIsEmpty'
  BY <1>1, <1>2, <1>3, <1>5 DEF CellsExact, FreedIsEmpty
<1>9. TeardownOnce'
  BY <1>1, <1>2, <1>3, <1>5 DEF TeardownOnce
<1> QED BY <1>6, <1>7, <1>8, <1>9 DEF HeapInv

LEMMA FinishCellKeeps ==
  ASSUME HeapInv, FinishCell
  PROVE  HeapInv'
<1>1. /\ TypeOK /\ RefCountExact /\ NoDangling
      /\ CellsExact /\ TeardownOnce /\ FreedIsEmpty
  BY DEF HeapInv
<1>2. PICK x \in Cell : x = Dying
  BY DEF FinishCell
<1>3. /\ work # <<>> /\ work' = Enclosing
      /\ held[x] = Empty
      /\ held' = held /\ at' \in Graphs
      /\ dropped' \in SUBSET Place /\ \A p \in dropped' : p[1] \in Unwinding'
      /\ kind' = [kind EXCEPT ![x] = Free]
      /\ count' = [count EXCEPT ![x] = 0]
      /\ CellReleased
      /\ UNCHANGED open
  BY <1>2, FinishHolds DEF FinishCell, Finish
<1>4. /\ x \in Unwinding
      /\ x \in Allocated
      /\ work' \in Seq(Cell \cup Env)
      /\ Unwinding' = Unwinding \ {x}
      /\ Len(work') = Len(work) - 1
      /\ \A i \in 1..Len(work') : i \in 1..Len(work) /\ work'[i] = work[i]
  BY <1>2, <1>3, UnwindingPop, HeapAssumption
<1>5. /\ Allocated' = Allocated \ {x}
      /\ \A c \in Cell : References(c)' = References(c)
  BY <1>1, <1>3 DEF Allocated, References, TypeOK
<1>6. References(x) = {}
  BY <1>1, <1>4 DEF NoDangling
<1>7. Cardinality(References(x)) = 0
  BY <1>6, FS_EmptySet
<1>8. TypeOK'
  BY <1>1, <1>3, <1>4 DEF TypeOK, CellReleased, Graphs, Ref
<1>9. RefCountExact'
  <2> SUFFICES ASSUME NEW c \in Cell
               PROVE  count'[c] = Cardinality(References(c))
                                    + (IF c \in Unwinding \ {x} THEN 1 ELSE 0)
    BY <1>4, <1>5 DEF RefCountExact
  <2>1. CASE c = x
    BY <1>1, <1>3, <1>7, <2>1 DEF TypeOK
  <2>2. CASE c # x
    BY <1>1, <1>3, <2>2 DEF RefCountExact, TypeOK
  <2> QED BY <2>1, <2>2
<1>10. NoDangling'
  BY <1>1, <1>4, <1>5, <1>6 DEF NoDangling
<1>11. CellsExact'
  <2>1. IsFiniteSet(Allocated) /\ Cardinality(Allocated) \in Nat
    BY SubsetsFinite DEF Allocated
  <2>2. Cardinality(Allocated \ {x}) = Cardinality(Allocated) - 1
    BY <1>4, <2>1, FS_RemoveElement
  <2>3. Cardinality(Allocated) > 0
    BY <1>4, <2>1, FS_EmptySet
  <2> QED BY <1>1, <1>3, <1>5, <2>1, <2>2, <2>3 DEF CellsExact, CellReleased, TypeOK
<1>12. TeardownOnce'
  <2>1. \A i \in 1..Len(work') : work[i] # x
    <3>1. Len(work) \in Nat /\ Len(work) \in 1..Len(work)
      BY <1>1, <1>3 DEF TypeOK
    <3> QED BY <1>1, <1>2, <1>4, <3>1 DEF TeardownOnce, Dying
  <2> QED BY <1>1, <1>3, <1>4, <1>5, <2>1 DEF TeardownOnce
<1>13. FreedIsEmpty'
  BY <1>1, <1>3, <1>4, <1>5, HeapAssumption DEF FreedIsEmpty
<1> QED BY <1>8, <1>9, <1>10, <1>11, <1>12, <1>13 DEF HeapInv

-----------------------------------------------------------------------------

(***************************************************************************)
(* Every operation changes references in one of these ways.                *)
(***************************************************************************)

\* What a place holds is held by that place.
LEMMA PlaceHolds ==
  ASSUME HeapInv, Running, NEW o \in Owner, NEW l \in Label
  PROVE  /\ at[o][l] \in Ref
         /\ at[o][l] # Nil => References(at[o][l]) # {} /\ at[o][l] \in Cell
<1>1. at[o][l] \in Ref BY DEF HeapInv, TypeOK, Ref
<1>2. <<o, l>> \in Place BY DEF Place
<1> QED BY <1>1, <1>2, CallerHolds DEF References, Ref

\* The same of a local, and of what the cell in a local holds.
LEMMA LocalHolds ==
  ASSUME HeapInv, Running, NEW n \in Name
  PROVE  /\ Local(n) \in Ref
         /\ Local(n) # Nil => /\ References(Local(n)) # {}
                              /\ Local(n) \in Cell
                              /\ Local(n) \in Owner
                              /\ Local(n) \in Allocated
<1>1. Locals \in Owner /\ n \in Label BY DEF Owner, Label
<1>2. /\ Local(n) \in Ref
      /\ Local(n) # Nil => References(Local(n)) # {} /\ Local(n) \in Cell
  BY <1>1, PlaceHolds DEF Local
<1> QED BY <1>2 DEF HeapInv, NoDangling, Owner

\* A table whose entries are nothing, locals or entries of cells is held.
LEMMA HeldWhen ==
  ASSUME HeapInv, Running, NEW g \in [Label -> Ref],
         \A l \in Label : \/ g[l] = Nil
                          \/ \E o \in Owner, m \in Label : g[l] = at[o][m]
  PROVE  Held(g)
BY PlaceHolds DEF Held

LEMMA ValueStepKeeps ==
  ASSUME HeapInv, Running, ValueStep
  PROVE  HeapInv'
<1> USE DEF Owner, Label, Ref
<1>1. ASSUME NEW l \in Name, ValueFree(l)
      PROVE  HeapInv'
  BY <1>1, OverwriteKeeps DEF ValueFree
<1>2. ASSUME NEW dst \in Name, NEW src \in Name, NEW l \in Label,
             ValueCopy(dst, src, l)
      PROVE  HeapInv'
  <2>1. Local(src) \in Owner
    BY <1>2, LocalHolds DEF ValueCopy
  <2>2. /\ at[Local(src)][l] \in Ref
        /\ at[Local(src)][l] # Nil => References(at[Local(src)][l]) # {}
    BY <2>1, PlaceHolds
  <2>3. Writable(Locals) BY DEF Writable
  <2> QED BY <1>2, <2>2, <2>3, OverwriteKeeps DEF ValueCopy
<1> QED BY <1>1, <1>2 DEF ValueStep

LEMMA EnvStepKeeps ==
  ASSUME HeapInv, Running, EnvStep
  PROVE  HeapInv'
<1>1. ASSUME NEW e \in Env, EnvFree(e)
      PROVE  HeapInv'
  BY <1>1, CloseKeeps
<1>2. ASSUME NEW e \in Env, NEW n \in Name, NEW l \in Name, EnvDefine(e, n, l)
      PROVE  HeapInv'
  <2>1. e \in Owner /\ n \in Label /\ Writable(e)
    BY <1>2 DEF EnvDefine, Owner, Label, Writable
  <2>2. Local(l) \in Ref /\ (Local(l) # Nil => References(Local(l)) # {})
    BY LocalHolds
  <2> QED BY <1>2, <2>1, <2>2, OverwriteKeeps DEF EnvDefine
<1>3. ASSUME NEW e \in Env, NEW n \in Name, NEW l \in Name, EnvLookup(l, e, n)
      PROVE  HeapInv'
  <2>1. e \in Owner /\ n \in Label /\ Locals \in Owner /\ l \in Label
    BY DEF Owner, Label
  <2>2. at[e][n] \in Ref /\ (at[e][n] # Nil => References(at[e][n]) # {})
    BY <2>1, PlaceHolds
  <2>3. Writable(Locals) BY DEF Writable
  <2> QED BY <1>3, <2>1, <2>2, <2>3, OverwriteKeeps DEF EnvLookup
<1>4. ASSUME NEW e \in Env, NEW o \in Owner, EnvClone(e, o)
      PROVE  HeapInv'
  BY <1>4, CloneKeeps
<1>5. ASSUME NEW e \in Env, NEW o \in Owner, NEW N \in SUBSET Name,
             EnvCloneFails(e, o, N)
      PROVE  HeapInv'
  BY <1>5, CloneFailsKeeps
<1> QED BY <1>1, <1>2, <1>3, <1>4, <1>5 DEF EnvStep

\* The references that the members of a structure are made of.
LEMMA MembersHeld ==
  ASSUME HeapInv, NEW m, DOMAIN m \subseteq Member,
         \A l \in DOMAIN m : m[l] \in Ref /\ (m[l] # Nil => References(m[l]) # {})
  PROVE  Held(Members(m))
BY DEF Held, Members, Ref

LEMMA ListStepKeeps ==
  ASSUME HeapInv, Running, ListStep
  PROVE  HeapInv'
<1>1. PICK dst \in Name, h \in Name, t \in Name : ListCons(dst, h, t)
  BY DEF ListStep
<1> DEFINE m == [head |-> Local(h), tail |-> Local(t)]
<1>2. Held(Members(m))
  BY LocalHolds, MembersHeld DEF Member
<1>3. ListK \in AllKinds BY DEF AllKinds
<1> QED BY <1>1, <1>2, <1>3, NewKeeps DEF ListCons

LEMMA FunctionStepKeeps ==
  ASSUME HeapInv, Running, FunctionStep
  PROVE  HeapInv'
<1>1. FunctionK \in AllKinds BY DEF AllKinds
<1>2. \A o \in Owner : Table(o) \in [Label -> Ref] /\ Held(Table(o))
  <2> TAKE o \in Owner
  <2>1. Table(o) \in [Label -> Ref]
    BY DEF HeapInv, TypeOK, Table, Ref
  <2> QED BY <2>1, HeldWhen DEF Table
<1>3. ASSUME NEW dst \in Name, NEW e \in Env, FunctionNew(dst, e)
      PROVE  HeapInv'
  BY <1>1, <1>2, <1>3, NewKeeps DEF FunctionNew, Owner
<1>4. ASSUME NEW dst \in Name, NEW f \in Name, NEW self \in Name \cup {Nil},
             NEW args \in SUBSET Name, FunctionPartial(dst, f, self, args)
      PROVE  HeapInv'
  <2> DEFINE g == [l \in Label |-> CASE l \in args -> Local(l)
                                     [] l \in {self} \ args -> Local(f)
                                     [] OTHER -> Table(Local(f))[l]]
  <2>1. Local(f) \in Owner
    BY <1>4, LocalHolds DEF FunctionPartial, Holds
  <2>2. \A l \in Label :
          /\ g[l] \in Ref
          /\ g[l] # Nil => References(g[l]) # {}
    <3> TAKE l \in Label
    <3>1. CASE l \in args
      <4>1. l \in Name BY <3>1
      <4> QED BY <3>1, <4>1, LocalHolds
    <3>2. CASE l \in {self} \ args
      BY <3>2, LocalHolds
    <3>3. CASE l \notin args /\ l \notin {self} \ args
      BY <1>2, <2>1, <3>3 DEF Held
    <3> QED BY <3>1, <3>2, <3>3
  <2>3. Held(g)
    BY <2>2 DEF Held
  <2> QED BY <1>1, <1>4, <2>3, NewKeeps DEF FunctionPartial
<1>5. ASSUME NEW f \in Name, NEW n \in Name, NEW peer \in Name,
             DefineCapture(f, n, peer)
      PROVE  HeapInv'
  <2>1. /\ Local(f) \in Owner /\ Writable(Local(f)) /\ n \in Label
        /\ Local(peer) \in Ref /\ References(Local(peer)) # {}
    BY <1>5, LocalHolds DEF DefineCapture, Holds, Writable, Label
  <2> QED BY <1>5, <2>1, OverwriteKeeps DEF DefineCapture
<1> QED BY <1>3, <1>4, <1>5 DEF FunctionStep

LEMMA ExtendKeeps ==
  ASSUME HeapInv, Running, NEW k \in AllKinds, NEW dst \in Name, NEW b \in Name,
         NEW args \in SUBSET Name, Extend(k, dst, b, args)
  PROVE  HeapInv'
<1> DEFINE g == [l \in Label |-> IF l \in args THEN Local(l) ELSE at[Local(b)][l]]
<1>1. Local(b) \in Owner
  BY LocalHolds DEF Extend, Holds
<1>2. \A l \in Label : g[l] \in Ref /\ (g[l] # Nil => References(g[l]) # {})
  BY <1>1, LocalHolds, PlaceHolds
<1>3. Held(g)
  BY <1>2 DEF Held
<1> QED BY <1>3, NewKeeps DEF Extend

LEMMA PartialStepKeeps ==
  ASSUME HeapInv, Running, PartialStep
  PROVE  HeapInv'
<1>1. PartialK \in AllKinds BY DEF AllKinds
<1>2. ASSUME NEW dst \in Name, NEW args \in SUBSET Name, PartialNew(dst, args)
      PROVE  HeapInv'
  <2> DEFINE g == [l \in Label |-> IF l \in args THEN Local(l) ELSE Nil]
  <2>1. \A l \in Label : g[l] \in Ref /\ (g[l] # Nil => References(g[l]) # {})
    BY LocalHolds DEF Ref
  <2>2. Held(g)
    BY <2>1 DEF Held
  <2> QED BY <1>1, <1>2, <2>2, NewKeeps DEF PartialNew
<1>3. ASSUME NEW dst \in Name, NEW b \in Name, NEW args \in SUBSET Name,
             PartialExtend(dst, b, args)
      PROVE  HeapInv'
  BY <1>1, <1>3, ExtendKeeps DEF PartialExtend
<1> QED BY <1>2, <1>3 DEF PartialStep

LEMMA ObjectStepKeeps ==
  ASSUME HeapInv, Running, ObjectStep
  PROVE  HeapInv'
<1>1. ClassK \in AllKinds /\ ObjectK \in AllKinds BY DEF AllKinds
<1>2. ASSUME NEW dst \in Name, NEW s1 \in Name, NEW s2 \in Name,
             ClassNew(dst, s1, s2)
      PROVE  HeapInv'
  <2> DEFINE m == [class |-> Local(s1), mixin |-> Local(s2)]
  <2>1. Held(Members(m))
    BY LocalHolds, MembersHeld DEF Member
  <2> QED BY <1>1, <1>2, <2>1, NewKeeps DEF ClassNew
<1>3. ASSUME NEW c \in Name, NEW n \in Name, NEW f \in Name, DefineMethod(c, n, f)
      PROVE  HeapInv'
  <2>1. /\ Local(c) \in Owner /\ Writable(Local(c)) /\ n \in Label
        /\ Local(f) \in Ref /\ References(Local(f)) # {}
    BY <1>3, LocalHolds DEF DefineMethod, Holds, Writable, Label
  <2> QED BY <1>3, <2>1, OverwriteKeeps DEF DefineMethod
<1>4. ASSUME NEW dst \in Name, NEW c \in Name, ObjectNew(dst, c)
      PROVE  HeapInv'
  <2> DEFINE m == [class |-> Local(c)]
  <2>1. Held(Members(m))
    BY LocalHolds, MembersHeld DEF Member
  <2> QED BY <1>1, <1>4, <2>1, NewKeeps DEF ObjectNew
<1>5. ASSUME NEW o \in Name, NEW n \in Name, NEW src \in Name,
             DefineAttribute(o, n, src)
      PROVE  HeapInv'
  <2>1. /\ Local(o) \in Owner /\ Writable(Local(o)) /\ n \in Label
        /\ Local(src) \in Ref /\ (Local(src) # Nil => References(Local(src)) # {})
    BY <1>5, LocalHolds DEF DefineAttribute, Holds, Writable, Label
  <2> QED BY <1>5, <2>1, OverwriteKeeps DEF DefineAttribute
<1>6. ASSUME NEW dst \in Name, NEW o \in Name, NEW items \in Name,
             CopyWithItems(dst, o, items)
      PROVE  HeapInv'
  <2> DEFINE g == [at[Local(o)] EXCEPT !["items"] = Local(items)]
  <2>1. Local(o) \in Owner
    BY <1>6, LocalHolds DEF CopyWithItems, Holds
  <2>2. g \in [Label -> Ref]
    BY <2>1, LocalHolds DEF HeapInv, TypeOK, Ref
  <2>3. \A l \in Label : g[l] = at[Locals][items] \/ g[l] = at[Local(o)][l]
    BY <2>1 DEF HeapInv, TypeOK, Local
  <2>4. Held(g)
    BY <2>1, <2>2, <2>3, HeldWhen DEF Owner, Label
  <2> QED BY <1>1, <1>6, <2>4, NewKeeps DEF CopyWithItems
<1>7. ASSUME NEW s1 \in Name, NEW s2 \in Name, ClassNewFails(s1, s2)
      PROVE  HeapInv'
  <2> DEFINE m == [class |-> Local(s1)]
  <2>1. Held(Members(m))
    BY LocalHolds, MembersHeld DEF Member
  <2>2. Held(Empty)
    BY DEF Held, Empty, Ref
  <2> QED BY <1>1, <1>7, <2>1, <2>2, NewFailsKeeps DEF ClassNewFails
<1>8. ASSUME NEW o \in Name, NEW items \in Name, CopyFails(o, items)
      PROVE  HeapInv'
  <2> DEFINE m == [class |-> at[Local(o)]["class"], items |-> Local(items)]
  <2>1. Local(o) \in Owner /\ "class" \in Label
    BY <1>8, LocalHolds DEF CopyFails, Holds, Label, Member
  <2>2. Held(Members(m))
    BY <2>1, LocalHolds, PlaceHolds, MembersHeld DEF Member
  <2> QED BY <1>1, <1>8, <2>2, NewFailsKeeps DEF CopyFails
<1> QED BY <1>2, <1>3, <1>4, <1>5, <1>6, <1>7, <1>8 DEF ObjectStep

(***************************************************************************)
(* A superclass that a bound method borrows is kept alive by the classes   *)
(* that inherit from it.                                                   *)
(***************************************************************************)
LEMMA AncestorsHeld ==
  ASSUME HeapInv, Running, NEW c \in Cell, References(c) # {}, NEW d \in Ancestors(c)
  PROVE  d \in Cell /\ References(d) # {}
<1> DEFINE S == {x \in Cell : References(x) # {}}
<1>1. \A s \in S : {at[s]["class"], at[s]["mixin"]} \subseteq S \cup {Nil}
  <2> TAKE s \in S
  <2>1. s \in Owner /\ "class" \in Label /\ "mixin" \in Label
    BY DEF Owner, Label, Member
  <2>2. \A l \in {"class", "mixin"} : at[s][l] \in S \cup {Nil}
    BY <2>1, PlaceHolds
  <2> QED BY <2>2
<1>2. c \in S /\ S \in SUBSET Cell OBVIOUS
<1>3. d \in S
  BY <1>1, <1>2 DEF Ancestors
<1> QED BY <1>3

LEMMA BoundStepKeeps ==
  ASSUME HeapInv, Running, BoundStep
  PROVE  HeapInv'
<1>1. BoundK \in AllKinds /\ CollectionK \in AllKinds BY DEF AllKinds
<1>2. ASSUME NEW dst \in Name, NEW r \in Name, NEW n \in Name, NEW s \in Cell,
             BoundNew(dst, r, s, n)
      PROVE  HeapInv'
  <2> DEFINE c == at[Local(r)]["class"]
             m == [callable |-> at[s][n], class |-> s, receiver |-> Local(r)]
  <2>1. Local(r) \in Owner /\ Local(r) \in Ref /\ References(Local(r)) # {}
    BY <1>2, LocalHolds DEF BoundNew, Holds
  <2>2. "class" \in Label /\ n \in Label BY DEF Label, Member
  <2>3. c \in Cell /\ References(c) # {}
    BY <1>2, <2>1, <2>2, PlaceHolds DEF BoundNew
  <2>4. s \in Owner /\ References(s) # {}
    BY <1>2, <2>3, AncestorsHeld DEF BoundNew, Owner
  <2>5. at[s][n] \in Ref /\ (at[s][n] # Nil => References(at[s][n]) # {})
    BY <2>2, <2>4, PlaceHolds
  <2>6. Held(Members(m))
    BY <2>1, <2>4, <2>5, MembersHeld DEF Member, Ref
  <2> QED BY <1>1, <1>2, <2>6, NewKeeps DEF BoundNew
<1>3. ASSUME NEW dst \in Name, NEW r \in Name, CollectionNew(dst, r)
      PROVE  HeapInv'
  <2> DEFINE m == [receiver |-> Local(r)]
  <2>1. Held(Members(m))
    BY LocalHolds, MembersHeld DEF Member
  <2> QED BY <1>1, <1>3, <2>1, NewKeeps DEF CollectionNew
<1>4. ASSUME NEW dst \in Name, NEW b \in Name, NEW args \in SUBSET Name,
             BoundExtend(dst, b, args) \/ CollectionExtend(dst, b, args)
      PROVE  HeapInv'
  BY <1>1, <1>4, ExtendKeeps DEF BoundExtend, CollectionExtend
<1> QED BY <1>2, <1>3, <1>4 DEF BoundStep

\* A step of a teardown makes its place hold nothing.
LEMMA DropHolds ==
  ASSUME HeapInv, NEW l \in Label, DropReference(l)
  PROVE  /\ Dying \in Owner
         /\ Rebind(Dying, l, Nil)
         /\ at' \in Graphs
         /\ dropped' \in SUBSET Place
         /\ \A p \in dropped' : p[1] \in Unwinding'
<1>1. /\ work \in Seq(Cell \cup Env) /\ work # <<>>
      /\ held[Dying][l] # Nil
      /\ dropped' = dropped \cup {<<Dying, l>>}
      /\ Release(count, at[Dying][l])
      /\ UNCHANGED <<kind, at, open, cells, peak>>
      /\ at \in Graphs
      /\ dropped \in SUBSET Place
      /\ \A p \in dropped : p[1] \in Unwinding
  BY DEF HeapInv, TypeOK, FreedIsEmpty, DropReference, Graphs, Ref
<1>2. Len(work) \in 1..Len(work) /\ Dying \in Cell \cup Env /\ Dying \in Unwinding
  BY <1>1 DEF Dying, Unwinding
<1>3. Dying \in Owner /\ <<Dying, l>> \in Place
  BY <1>2 DEF Owner, Place
<1>4. held[Dying][l] = at[Dying][l]
  BY <1>1, <1>3, HeldIs
<1>5. at[Dying][l] \in Cell
  BY <1>1, <1>3, <1>4 DEF Graphs, Ref
<1>6. \/ work' = work
      \/ work' = Append(work, at[Dying][l])
  BY <1>1 DEF Release
<1>7. ~Running' /\ Unwinding \subseteq Unwinding'
  <2>1. CASE work' = work
    BY <1>1, <2>1 DEF Running, Unwinding
  <2>2. CASE work' = Append(work, at[Dying][l])
    <3>1. Unwinding' = Unwinding \cup {at[Dying][l]}
      BY <1>1, <1>5, <2>2, UnwindingAppend DEF Unwinding
    <3>2. work' # <<>>
      BY <1>1, <1>5, <2>2
    <3> QED BY <3>1, <3>2 DEF Running
  <2> QED BY <1>6, <2>1, <2>2
<1>8. held' = [o \in Owner |-> [m \in Label |->
                 IF <<o, m>> \in dropped' THEN Nil ELSE at[o][m]]]
  BY <1>1, <1>7 DEF held
<1>9. held' = [held EXCEPT ![Dying][l] = Nil]
  <2>1. held \in Graphs /\ \A o \in Owner : \A m \in Label :
          held[o][m] = IF <<o, m>> \in dropped THEN Nil ELSE at[o][m]
    BY HeldIs
  <2>2. \A o \in Owner : \A m \in Label :
          held'[o][m] = IF <<o, m>> = <<Dying, l>> THEN Nil ELSE held[o][m]
    <3> SUFFICES ASSUME NEW o \in Owner, NEW m \in Label
                 PROVE  held'[o][m] = IF <<o, m>> = <<Dying, l>> THEN Nil ELSE held[o][m]
      OBVIOUS
    <3>1. held'[o][m] = IF <<o, m>> \in dropped' THEN Nil ELSE at[o][m]
      BY <1>8
    <3>2. held[o][m] = IF <<o, m>> \in dropped THEN Nil ELSE at[o][m]
      BY <2>1
    <3>3. <<o, m>> \in dropped' <=> <<o, m>> \in dropped \/ <<o, m>> = <<Dying, l>>
      BY <1>1
    <3> QED BY <3>1, <3>2, <3>3
  <2>3. held' \in [Owner -> [Label -> Ref]]
    BY <1>1, <1>8 DEF Graphs, Ref
  <2> DEFINE b == [held EXCEPT ![Dying][l] = Nil]
  <2>4. b \in [Owner -> [Label -> Ref]]
    BY <1>3, <2>1 DEF Graphs, Ref
  <2>5. \A o \in Owner : \A m \in Label :
          b[o][m] = IF o = Dying /\ m = l THEN Nil ELSE held[o][m]
    BY <1>3, <2>1 DEF Graphs
  <2> HIDE DEF b
  <2>6. \A o \in Owner : held'[o] = b[o]
    <3> TAKE o \in Owner
    <3>1. held'[o] \in [Label -> Ref] /\ b[o] \in [Label -> Ref]
      BY <2>3, <2>4
    <3>2. \A m \in Label : held'[o][m] = b[o][m]
      BY <2>2, <2>5
    <3> QED BY <3>1, <3>2
  <2>7. held' = b
    BY <2>3, <2>4, <2>6
  <2> QED BY <2>7 DEF b
<1>10. Release(Retain(count, Nil), held[Dying][l])
  BY <1>1, <1>4 DEF Retain
<1>11. Rebind(Dying, l, Nil)
  BY <1>1, <1>9, <1>10 DEF Rebind
<1>12. /\ dropped' \in SUBSET Place
       /\ \A p \in dropped' : p[1] \in Unwinding'
  BY <1>1, <1>2, <1>3, <1>7
<1> QED BY <1>1, <1>3, <1>11, <1>12

LEMMA UnwindKeeps ==
  ASSUME HeapInv, Unwind
  PROVE  HeapInv'
<1>1. ASSUME NEW l \in Label, DropReference(l)
      PROVE  HeapInv'
  BY <1>1, DropHolds, RebindKeeps DEF Ref
<1> QED BY <1>1, FinishEnvKeeps, FinishCellKeeps DEF Unwind

\* A caller's step starts when no release is in progress.
LEMMA CallerRuns ==
  ASSUME Next, ~Unwind
  PROVE  Running
BY Zenon DEF Next, ValueStep, EnvStep, ListStep, FunctionStep, PartialStep, ObjectStep,
   BoundStep, ValueFree, ValueCopy, EnvFree, EnvDefine, EnvLookup, EnvClone,
   EnvCloneFails, ListCons, FunctionNew, FunctionPartial, DefineCapture, PartialNew,
   PartialExtend, Extend, ClassNew, ClassNewFails, DefineMethod, ObjectNew,
   DefineAttribute, CopyWithItems, CopyFails, BoundNew, BoundExtend, CollectionNew,
   CollectionExtend, New, NewFails

-----------------------------------------------------------------------------
LEMMA InitHeap == Init => HeapInv
<1> SUFFICES ASSUME Init PROVE HeapInv
  OBVIOUS
<1>1. \A c \in Cell : References(c) = {}
  BY HeapAssumption DEF Init, References, Empty, Place, held, Running
<1>2. Cardinality({}) = 0 BY FS_EmptySet
<1>3. Allocated = {} /\ Unwinding = {} /\ Len(work) = 0
  BY DEF Init, Allocated, Unwinding
<1>4. TypeOK
  BY HeapAssumption DEF Init, TypeOK, Empty
<1>5. RefCountExact /\ NoDangling
  <2>1. \A c \in Cell : count[c] = 0 /\ Cardinality(References(c)) = 0
    BY <1>1, <1>2 DEF Init
  <2> QED BY <1>1, <1>3, <2>1 DEF RefCountExact, NoDangling
<1>6. CellsExact /\ TeardownOnce
  BY <1>2, <1>3 DEF Init, CellsExact, TeardownOnce
<1>7. FreedIsEmpty
  BY DEF Init, FreedIsEmpty, Owner, held, Running
<1> QED BY <1>4, <1>5, <1>6, <1>7 DEF HeapInv

LEMMA NextHeap == HeapInv /\ [Next]_vars => HeapInv'
<1> SUFFICES ASSUME HeapInv, [Next]_vars PROVE HeapInv'
  OBVIOUS
<1>1. CASE Next
  <2>1. CASE Unwind BY <2>1, UnwindKeeps
  <2>2. CASE ~Unwind
    BY <1>1, <2>2, CallerRuns, ValueStepKeeps, EnvStepKeeps, ListStepKeeps,
       FunctionStepKeeps, PartialStepKeeps, ObjectStepKeeps, BoundStepKeeps DEF Next
  <2> QED BY <2>1, <2>2
<1>2. CASE UNCHANGED vars
  <2>1. held' = held
    BY <1>2 DEF vars, held, Running
  <2>2. /\ \A c \in Cell : References(c)' = References(c)
        /\ Allocated' = Allocated /\ Unwinding' = Unwinding
    BY <1>2, <2>1 DEF vars, References, Allocated, Unwinding
  <2>3. TypeOK' /\ TeardownOnce' /\ CellsExact'
    BY <1>2, <2>2 DEF vars, HeapInv, TypeOK, TeardownOnce, CellsExact
  <2>4. RefCountExact' /\ NoDangling'
    BY <1>2, <2>2 DEF vars, HeapInv, RefCountExact, NoDangling
  <2>5. FreedIsEmpty'
    BY <1>2, <2>1, <2>2 DEF vars, HeapInv, FreedIsEmpty
  <2> QED BY <2>3, <2>4, <2>5 DEF HeapInv
<1> QED BY <1>1, <1>2

(***************************************************************************)
(* The invariant of the runtime holds whatever the program allocates,      *)
(* shares and frees, in the middle of every teardown too.                  *)
(***************************************************************************)
THEOREM HeapInvariant == Spec => []HeapInv
<1>1. Init => HeapInv BY InitHeap
<1>2. HeapInv /\ [Next]_vars => HeapInv' BY NextHeap
<1> QED BY <1>1, <1>2, PTL DEF Spec

\* The variables of the runtime keep their types.
THEOREM HeapTypes == Spec => []TypeOK
<1>1. HeapInv => TypeOK BY DEF HeapInv
<1> QED BY <1>1, HeapInvariant, PTL

(***************************************************************************)
(* ref_count is the number of references, plus one during the teardown:    *)
(* the retain and release calls of value.c, env.c, function.c, object.c    *)
(* and builtin.c balance on every path modelled.                           *)
(***************************************************************************)
THEOREM ReferenceCountsExact == Spec => []RefCountExact
<1>1. HeapInv => RefCountExact BY DEF HeapInv
<1> QED BY <1>1, HeapInvariant, PTL

(***************************************************************************)
(* No variable, member or local refers to freed memory or to a cell whose  *)
(* teardown has begun.                                                     *)
(***************************************************************************)
THEOREM NoUseAfterFree == Spec => []NoDangling
<1>1. HeapInv => NoDangling BY DEF HeapInv
<1> QED BY <1>1, HeapInvariant, PTL

\* cells() is the number of allocated cells and maxcells() is no less.
THEOREM CellsReported == Spec => []CellsExact
<1>1. HeapInv => CellsExact BY DEF HeapInv
<1> QED BY <1>1, HeapInvariant, PTL

-----------------------------------------------------------------------------
LEMMA PendingTypes ==
  ASSUME HeapInv
  PROVE  /\ Cardinality(Label) \in Nat
         /\ Len(work) \in Nat
         /\ IsFiniteSet(Ahead) /\ Cardinality(Ahead) \in Nat
         /\ IsFiniteSet(Allocated \ Unwinding)
         /\ Cardinality(Allocated \ Unwinding) \in Nat
<1>1. Len(work) \in Nat
  BY DEF HeapInv, TypeOK
<1>2. IsFiniteSet((1..Len(work)) \X Label)
  <2>1. IsFiniteSet(1..Len(work))
    BY <1>1, FS_Interval
  <2> QED BY <2>1, PlacesFinite, FS_Product
<1>3. IsFiniteSet(Ahead) /\ Cardinality(Ahead) \in Nat
  BY <1>2, FS_Subset, FS_CardinalityType DEF Ahead
<1>4. Allocated \ Unwinding \in SUBSET Cell
  BY DEF Allocated
<1> QED BY <1>1, <1>3, <1>4, SubsetsFinite

\* The end of a teardown leaves one teardown less.
LEMMA FinishDescends ==
  ASSUME HeapInv, FinishEnv \/ FinishCell
  PROVE  Pending' < Pending
<1>1. Finish /\ work # <<>> /\ work' = Enclosing
  BY DEF FinishEnv, FinishCell, Finish
<1>2. /\ Dying \in Unwinding
      /\ Unwinding' = Unwinding \ {Dying}
      /\ Len(work') = Len(work) - 1
      /\ \A i \in 1..Len(work') : i \in 1..Len(work) /\ work'[i] = work[i]
  BY <1>1, UnwindingPop
<1>3. Len(work) \in Nat /\ Len(work) \in 1..Len(work)
  BY <1>1 DEF HeapInv, TypeOK
<1>4. (Allocated \ Unwinding)' = Allocated \ Unwinding
  <2>1. CASE FinishEnv
    <3>1. Allocated' = Allocated /\ Dying \notin Allocated
      BY <2>1, HeapAssumption DEF FinishEnv, Allocated
    <3> QED BY <1>2, <3>1
  <2>2. CASE FinishCell
    <3>1. Allocated' = Allocated \ {Dying}
      BY <2>2 DEF FinishCell, Allocated, HeapInv, TypeOK
    <3> QED BY <1>2, <3>1
  <2> QED BY <2>1, <2>2
<1>5. Ahead' \subseteq Ahead
  <2> SUFFICES ASSUME NEW i \in 1..Len(work'), NEW l \in Label,
                      <<work'[i], l>> \notin dropped'
               PROVE  i \in 1..Len(work) /\ <<work[i], l>> \notin dropped
    BY DEF Ahead
  <2>1. work[i] # Dying
    <3>1. i # Len(work) /\ i \in 1..Len(work)
      BY <1>2, <1>3
    <3> QED BY <1>3, <3>1 DEF HeapInv, TeardownOnce, Dying
  <2>2. dropped' = {p \in dropped : p[1] # Dying}
    BY <1>1 DEF Finish
  <2> QED BY <1>2, <2>1, <2>2
<1>6. Cardinality(Ahead') <= Cardinality(Ahead) /\ Cardinality(Ahead') \in Nat
  BY <1>5, PendingTypes, FS_Subset, FS_CardinalityType
<1> DEFINE x == (Cardinality(Label) + 2) * Cardinality(Allocated \ Unwinding)
<1>7. x \in Nat /\ Cardinality(Ahead) \in Nat
  BY PendingTypes
<1>8. /\ Pending = x + Cardinality(Ahead) + Len(work)
      /\ Pending' = x + Cardinality(Ahead') + Len(work')
  BY <1>4 DEF Pending
<1> HIDE DEF x
<1> QED BY <1>2, <1>3, <1>6, <1>7, <1>8

(***************************************************************************)
(* Giving up a reference leaves one place less to visit; a cell that is    *)
(* entered for it was allocated and had not been entered before, because   *)
(* the place held it.                                                      *)
(***************************************************************************)
LEMMA DropDescends ==
  ASSUME HeapInv, NEW l \in Label, DropReference(l)
  PROVE  Pending' < Pending
<1> DEFINE n == Len(work)
           c == at[Dying][l]
           rest == Ahead \ {<<n, l>>}
           L == Cardinality(Label)
           A == Cardinality(Allocated \ Unwinding)
           H == Cardinality(Ahead)
<1>1. /\ work \in Seq(Cell \cup Env) /\ work # <<>>
      /\ held[Dying][l] # Nil
      /\ dropped' = dropped \cup {<<Dying, l>>}
      /\ Release(count, c)
      /\ kind' = kind
  BY DEF HeapInv, TypeOK, DropReference
<1>2. n \in Nat /\ n \in 1..n
  BY <1>1
<1>3. /\ Dying \in Owner /\ held \in Graphs
      /\ held[Dying][l] = c /\ <<Dying, l>> \notin dropped
  BY <1>1, DropHolds, HeldIs
<1>4. c \in Cell /\ c \in Allocated \ Unwinding
  <2>1. c \in Cell
    BY <1>1, <1>3 DEF Graphs, Ref
  <2>2. <<Dying, l>> \in References(c)
    BY <1>3 DEF References, Place
  <2> QED BY <2>1, <2>2 DEF HeapInv, NoDangling
<1>5. <<n, l>> \in Ahead
  BY <1>2, <1>3 DEF Ahead, Dying
<1>6. /\ L \in Nat /\ A \in Nat /\ H \in Nat
      /\ IsFiniteSet(Ahead) /\ IsFiniteSet(Allocated \ Unwinding)
  BY PendingTypes
<1>7. IsFiniteSet(rest) /\ Cardinality(rest) = H - 1
  BY <1>5, <1>6, FS_RemoveElement
<1>8. Pending = (L + 2) * A + H + n
  BY DEF Pending
<1>9. Allocated' = Allocated
  BY <1>1 DEF Allocated
<1>10. CASE work' = work
  <2>1. (Allocated \ Unwinding)' = Allocated \ Unwinding /\ Len(work') = n
    BY <1>9, <1>10 DEF Unwinding
  <2>2. Ahead' \subseteq rest
    <3> SUFFICES ASSUME NEW i \in 1..n, NEW m \in Label, <<work[i], m>> \notin dropped'
                 PROVE  <<i, m>> \in Ahead /\ <<i, m>> # <<n, l>>
      BY <1>10 DEF Ahead
    <3> QED BY <1>1 DEF Ahead, Dying
  <2>3. Cardinality(Ahead') <= H - 1 /\ Cardinality(Ahead') \in Nat
    BY <1>7, <2>2, FS_Subset, FS_CardinalityType
  <2>4. Pending' = (L + 2) * A + Cardinality(Ahead') + n
    BY <2>1 DEF Pending
  <2>5. (L + 2) * A \in Nat
    BY <1>6
  <2> HIDE DEF L, A, H, n
  <2> QED BY <1>2, <1>6, <1>8, <2>3, <2>4, <2>5
<1>11. CASE work' = Append(work, c)
  <2>1. /\ Len(work') = n + 1 /\ work'[n + 1] = c
        /\ \A i \in 1..n : work'[i] = work[i]
        /\ 1..(n + 1) = 1..n \cup {n + 1}
    BY <1>1, <1>2, <1>4, <1>11
  <2>2. Unwinding' = Unwinding \cup {c}
    BY <1>1, <1>4, <1>11, UnwindingAppend DEF Unwinding
  <2>3. (Allocated \ Unwinding)' = (Allocated \ Unwinding) \ {c}
    BY <1>9, <2>2
  <2>4. Cardinality((Allocated \ Unwinding)') = A - 1 /\ A - 1 \in Nat
    <3>1. Cardinality((Allocated \ Unwinding) \ {c}) = A - 1
      BY <1>4, <1>6, FS_RemoveElement
    <3>2. IsFiniteSet((Allocated \ Unwinding) \ {c})
      BY <1>6, FS_Subset
    <3>3. Cardinality((Allocated \ Unwinding) \ {c}) \in Nat
      BY <3>2, FS_CardinalityType
    <3> QED BY <2>3, <3>1, <3>3
  <2> DEFINE new == {n + 1} \X Label
  <2>5. Ahead' \subseteq rest \cup new
    <3> SUFFICES ASSUME NEW i \in 1..(n + 1), NEW m \in Label,
                        <<work'[i], m>> \notin dropped', i # n + 1
                 PROVE  <<i, m>> \in Ahead /\ <<i, m>> # <<n, l>>
      BY <2>1 DEF Ahead
    <3>1. i \in 1..n /\ work'[i] = work[i]
      BY <2>1
    <3> QED BY <1>1, <3>1 DEF Ahead, Dying
  <2>6. IsFiniteSet(new) /\ Cardinality(new) = L
    <3>1. IsFiniteSet({n + 1}) /\ Cardinality({n + 1}) = 1
      BY FS_Singleton
    <3>2. IsFiniteSet(new) /\ Cardinality(new) = Cardinality({n + 1}) * L
      BY <3>1, PlacesFinite, FS_Product
    <3>3. 1 * L = L
      BY <1>6
    <3> QED BY <3>1, <3>2, <3>3
  <2>7. /\ IsFiniteSet(rest \cup new)
        /\ Cardinality(rest \cup new) <= H - 1 + L
    <3>1. /\ IsFiniteSet(rest \cup new)
          /\ Cardinality(rest \cup new) =
               Cardinality(rest) + Cardinality(new) - Cardinality(rest \cap new)
      BY <1>7, <2>6, FS_Union
    <3>2. Cardinality(rest \cap new) \in Nat
      BY <1>7, FS_Subset, FS_CardinalityType
    <3> HIDE DEF L, H, rest, new
    <3> QED BY <1>6, <1>7, <2>6, <3>1, <3>2
  <2>8. Cardinality(Ahead') <= H - 1 + L /\ Cardinality(Ahead') \in Nat
    <3>1. Cardinality(Ahead') <= Cardinality(rest \cup new) /\ IsFiniteSet(Ahead')
      BY <2>5, <2>7, FS_Subset
    <3>2. Cardinality(Ahead') \in Nat /\ Cardinality(rest \cup new) \in Nat
      BY <2>7, <3>1, FS_CardinalityType
    <3> HIDE DEF L, H, rest, new
    <3> QED BY <1>6, <2>7, <3>1, <3>2
  <2>9. Pending' = (L + 2) * (A - 1) + Cardinality(Ahead') + (n + 1)
    BY <2>1, <2>4 DEF Pending
  <2> HIDE DEF L, A, H, n
  <2>10. (L + 2) * (A - 1) = (L + 2) * A - (L + 2) /\ (L + 2) * A \in Nat
    BY <1>6
  <2> QED BY <1>2, <1>6, <1>8, <2>8, <2>9, <2>10
<1>12. work' = work \/ work' = Append(work, c)
  BY <1>1 DEF Release
<1> QED BY <1>10, <1>11, <1>12

LEMMA StepDescends ==
  ASSUME HeapInv, Next, work # <<>>
  PROVE  Pending' < Pending
<1>1. Unwind
  BY CallerRuns DEF Running
<1> QED BY <1>1, FinishDescends, DropDescends DEF Unwind

(***************************************************************************)
(* Every step inside a release brings it closer to its end: the recursion  *)
(* of enact_list_release, enact_class_release and the others terminates on *)
(* every finite graph of values, cyclic ones included, because a count     *)
(* that reaches zero tells that the cell is entered for the first time.    *)
(***************************************************************************)
THEOREM ReleasesEnd == Spec => ReleaseEnds
<1>1. HeapInv /\ [Next]_vars => [work # <<>> => Pending' < Pending]_vars
  BY StepDescends
<1> QED BY <1>1, HeapInvariant, PTL DEF Spec, ReleaseEnds

-----------------------------------------------------------------------------
(***************************************************************************)
(* Reachability: the least set of cells closed under the references of     *)
(* graph g that contains what the owners in S refer to.                    *)
(***************************************************************************)
Closed(g, S, T) == \A o \in S \cup T : \A l \in Label : g[o][l] \in T \cup {Nil}

Reach(g, S) == Cell \ UNION {Cell \ T : T \in {T \in SUBSET Cell : Closed(g, S, T)}}

LEMMA ReachLeast ==
  ASSUME NEW g, NEW S
  PROVE  /\ Reach(g, S) \in SUBSET Cell
         /\ \A T \in SUBSET Cell : Closed(g, S, T) => Reach(g, S) \subseteq T
<1>1. Reach(g, S) \in SUBSET Cell BY DEF Reach
<1>2. ASSUME NEW T \in SUBSET Cell, Closed(g, S, T), NEW c \in Reach(g, S)
      PROVE  c \in T
  <2>1. c \in Cell /\ \A U \in {U \in SUBSET Cell : Closed(g, S, U)} : c \notin Cell \ U
    BY DEF Reach
  <2> QED BY <1>2, <2>1
<1> QED BY <1>1, <1>2

\* What every closed set contains is reached.
LEMMA ReachMember ==
  ASSUME NEW g, NEW S, NEW c \in Cell,
         \A T \in SUBSET Cell : Closed(g, S, T) => c \in T
  PROVE  c \in Reach(g, S)
BY DEF Reach

\* References of the owners in S and of the cells they reach are reached.
LEMMA ReachClosed ==
  ASSUME NEW g \in Graphs, NEW S \in SUBSET Owner
  PROVE  Closed(g, S, Reach(g, S))
<1> DEFINE R == Reach(g, S)
<1>1. R \in SUBSET Cell BY ReachLeast
<1> SUFFICES ASSUME NEW o \in S \cup R, NEW l \in Label, g[o][l] # Nil
             PROVE  g[o][l] \in R
  BY DEF Closed
<1>2. o \in Owner BY <1>1 DEF Owner
<1>3. g[o][l] \in Cell BY <1>2 DEF Graphs, Ref
<1>4. ASSUME NEW T \in SUBSET Cell, Closed(g, S, T)
      PROVE  g[o][l] \in T
  <2>1. o \in S \cup T BY <1>4, ReachLeast
  <2> QED BY <1>4, <2>1 DEF Closed
<1> QED BY <1>3, <1>4, ReachMember

\* Graphs that agree on the owners in S and on what is reached reach the same.
LEMMA ReachAgree ==
  ASSUME NEW g \in Graphs, NEW h, NEW S \in SUBSET Owner,
         \A o \in S \cup Reach(g, S) : h[o] = g[o]
  PROVE  Reach(h, S) = Reach(g, S)
<1> DEFINE R == Reach(g, S)
<1>1. R \in SUBSET Cell BY ReachLeast
<1>2. Closed(g, S, R) BY ReachClosed
<1> HIDE DEF R
<1>3. Closed(h, S, R) BY <1>2 DEF Closed, R
<1>4. Reach(h, S) \subseteq R BY <1>1, <1>3, ReachLeast
<1>5. ASSUME NEW c \in R, NEW T \in SUBSET Cell, Closed(h, S, T)
      PROVE  c \in T
  <2>1. Closed(g, S, T \cap R)
    <3> SUFFICES ASSUME NEW o \in S \cup (T \cap R), NEW l \in Label
                 PROVE  g[o][l] \in (T \cap R) \cup {Nil}
      BY DEF Closed
    <3>1. g[o][l] \in R \cup {Nil} BY <1>2 DEF Closed
    <3>2. h[o][l] \in T \cup {Nil} BY <1>5 DEF Closed
    <3>3. h[o] = g[o] BY DEF R
    <3> QED BY <3>1, <3>2, <3>3
  <2>2. T \cap R \in SUBSET Cell BY <1>1
  <2> QED BY <2>1, <2>2, ReachLeast DEF R
<1>6. R \subseteq Reach(h, S)
  BY <1>1, <1>5, ReachMember
<1> QED BY <1>4, <1>6 DEF R

\* The last reference of a path.
LEMMA ReachLast ==
  ASSUME NEW g \in Graphs, NEW S \in SUBSET Owner, NEW c \in Reach(g, S)
  PROVE  \E o \in S \cup Reach(g, S), l \in Label : g[o][l] = c
<1> DEFINE R == Reach(g, S)
<1>1. R \in SUBSET Cell /\ Closed(g, S, R) BY ReachLeast, ReachClosed
<1> HIDE DEF R
<1> SUFFICES ASSUME \A o \in S \cup R : \A l \in Label : g[o][l] # c
             PROVE  FALSE
  BY DEF R
<1>2. Closed(g, S, R \ {c}) BY <1>1 DEF Closed
<1>3. R \ {c} \in SUBSET Cell BY <1>1
<1> QED BY <1>2, <1>3, ReachLeast DEF R

(***************************************************************************)
(* The first reference of a path, and a path made of two.                  *)
(***************************************************************************)
LEMMA ReachFirst ==
  ASSUME NEW g \in Graphs, NEW d \in Cell, NEW c \in Reach(g, {d})
  PROVE  \E l \in Label : g[d][l] \in Cell /\ c \in {g[d][l]} \cup Reach(g, {g[d][l]})
<1> DEFINE next == {x \in Cell : \E l \in Label : g[d][l] = x}
           T == next \cup UNION {Reach(g, {x}) : x \in next}
<1>1. d \in Owner BY DEF Owner
<1>2. T \in SUBSET Cell
  <2>1. \A x \in next : Reach(g, {x}) \in SUBSET Cell BY ReachLeast
  <2> QED BY <2>1
<1>3. Closed(g, {d}, T)
  <2> SUFFICES ASSUME NEW o \in {d} \cup T, NEW l \in Label, g[o][l] # Nil
               PROVE  g[o][l] \in T
    BY DEF Closed
  <2>1. CASE o = d
    BY <1>1, <2>1 DEF Graphs, Ref
  <2>2. CASE o \in T
    <3>1. PICK x \in next : o \in {x} \cup Reach(g, {x}) BY <2>2
    <3>2. x \in Owner BY DEF Owner
    <3>3. Closed(g, {x}, Reach(g, {x})) BY <3>2, ReachClosed
    <3>4. g[o][l] \in Reach(g, {x}) BY <3>1, <3>3 DEF Closed
    <3> QED BY <3>4
  <2> QED BY <2>1, <2>2
<1>4. c \in T BY <1>2, <1>3, ReachLeast
<1>5. PICK x \in next : c \in {x} \cup Reach(g, {x}) BY <1>4
<1> QED BY <1>5

LEMMA ReachTransitive ==
  ASSUME NEW g \in Graphs, NEW S \in SUBSET Owner, NEW d \in Reach(g, S)
  PROVE  Reach(g, {d}) \subseteq Reach(g, S)
<1>1. Reach(g, S) \in SUBSET Cell /\ Closed(g, S, Reach(g, S))
  BY ReachLeast, ReachClosed
<1>2. Closed(g, {d}, Reach(g, S)) BY <1>1 DEF Closed
<1> QED BY <1>1, <1>2, ReachLeast

\* Reached speaks of the current references.
LEMMA ReachedIs ==
  ASSUME NEW S
  PROVE  Reached(S) = Reach(held, S)
BY DEF Reached, Reach, Closed

\* A step of the caller takes held references to held references.
LEMMA CallerNext ==
  ASSUME HeapInv, HeapInv', Running, dropped' = dropped
  PROVE  held = at /\ held' = at'
<1>1. held = at /\ dropped' = {}
  BY CallerHolds
<1>2. at' \in Graphs
  BY DEF HeapInv, TypeOK, Graphs, Ref
<1> QED BY <1>1, <1>2, HoldsNext

\* What a step makes of the references of cells it makes of those held.
LEMMA HeldNext ==
  ASSUME HeapInv'
  PROVE  held' \in Graphs
<1>1. at' \in Graphs
  BY DEF HeapInv, TypeOK, Graphs, Ref
<1> QED BY <1>1, HeapAssumption DEF held, Graphs, Ref

-----------------------------------------------------------------------------
(***************************************************************************)
(* What the caller does, in terms of what it can reach: every operation    *)
(* stores only values that some variable or local leads to.                *)
(***************************************************************************)
Roots == open \cup {Locals}

\* Values the caller can reach.
AtHand == Rooted \cup {Nil}

\* Tables the language extends: environments, locals and those of mutable cells.
Extensible(o) ==
  \/ o \in Roots
  \/ o \in Cell /\ kind[o] \in Mutable /\ \E f \in Name : Local(f) = o

Writes == \E o \in Owner, l \in Label, v \in AtHand :
  Running /\ Extensible(o) /\ (o # Locals => l \in Name) /\ Overwrite(o, l, v)

Makes == \E k \in AllKinds, dst \in Name, g \in [Label -> AtHand] : New(k, dst, g)

Fails == \E k \in AllKinds, g \in [Label -> AtHand] : NewFails(k, g)

LEMMA RootedIs ==
  /\ Rooted = Reach(held, Roots)
  /\ Rooted' = Reach(held', Roots')
BY DEF Rooted, Roots, Reached, Reach, Closed

LEMMA RootedCells ==
  ASSUME HeapInv
  PROVE  /\ held \in Graphs
         /\ Roots \in SUBSET Owner
         /\ Rooted \in SUBSET Cell
         /\ Closed(held, Roots, Rooted)
<1>1. held \in Graphs /\ Roots \in SUBSET Owner
  BY HeldIs DEF HeapInv, TypeOK, Roots, Owner
<1> QED BY <1>1, RootedIs, ReachLeast, ReachClosed

\* What a root or a rooted cell holds is at hand; so is a local.
LEMMA EntryAtHand ==
  ASSUME HeapInv, NEW o \in Roots \cup Rooted, NEW l \in Label
  PROVE  /\ held[o][l] \in AtHand
         /\ Running => at[o][l] \in AtHand
<1>1. held[o][l] \in AtHand
  BY RootedCells DEF Closed, AtHand
<1> QED BY <1>1, CallerHolds

LEMMA LocalAtHand ==
  ASSUME HeapInv, Running, NEW n \in Name
  PROVE  /\ Local(n) \in AtHand
         /\ Local(n) # Nil => Local(n) \in Rooted
<1>1. Locals \in Roots /\ n \in Label BY DEF Roots, Label
<1> QED BY <1>1, EntryAtHand DEF Local, AtHand

\* A table the caller has is a table of values at hand.
LEMMA TableAtHand ==
  ASSUME HeapInv, Running, NEW o, HasTable(o) \/ o \in Roots \cup Rooted
  PROVE  Table(o) \in [Label -> AtHand]
<1>1. o \in Roots \cup Rooted
  BY LocalAtHand DEF HasTable, Holds, Roots
<1> QED BY <1>1, EntryAtHand DEF Table, AtHand

LEMMA MembersAtHand ==
  ASSUME NEW m, \A l \in DOMAIN m : m[l] \in AtHand
  PROVE  Members(m) \in [Label -> AtHand]
BY DEF Members, AtHand

LEMMA AncestorsAtHand ==
  ASSUME HeapInv, Running, NEW c \in Rooted, NEW d \in Ancestors(c)
  PROVE  d \in Rooted
<1>1. \A s \in Rooted : {at[s]["class"], at[s]["mixin"]} \subseteq Rooted \cup {Nil}
  <2> TAKE s \in Rooted
  <2>1. "class" \in Label /\ "mixin" \in Label BY DEF Label, Member
  <2> QED BY <2>1, EntryAtHand DEF AtHand
<1>2. Rooted \in SUBSET Cell BY RootedCells
<1> QED BY <1>1, <1>2 DEF Ancestors

LEMMA RootsExtensible ==
  ASSUME NEW o \in Roots
  PROVE  Extensible(o)
BY DEF Extensible

LEMMA ValueWrites ==
  ASSUME HeapInv, Running, ValueStep
  PROVE  Writes
<1>1. Locals \in Owner /\ Extensible(Locals) /\ Name \subseteq Label /\ Nil \in AtHand
  BY RootsExtensible DEF Owner, Roots, Label, AtHand
<1>2. ASSUME NEW l \in Name, ValueFree(l)
      PROVE  Writes
  BY <1>1, <1>2 DEF ValueFree, Writes
<1>3. ASSUME NEW dst \in Name, NEW src \in Name, NEW l \in Label,
             ValueCopy(dst, src, l)
      PROVE  Writes
  <2>1. at[Local(src)][l] \in AtHand
    BY <1>3, LocalAtHand, EntryAtHand DEF ValueCopy
  <2> QED BY <1>1, <1>3, <2>1 DEF ValueCopy, Writes
<1> QED BY <1>2, <1>3 DEF ValueStep

LEMMA EnvForms ==
  ASSUME HeapInv, Running, EnvStep
  PROVE  \/ Writes
         \/ \E e \in Env : EnvFree(e)
         \/ \E e \in Env, o \in Owner : EnvClone(e, o)
         \/ \E e \in Env, o \in Owner, N \in SUBSET Name : EnvCloneFails(e, o, N)
<1>1. /\ Locals \in Owner /\ Env \subseteq Owner /\ Name \subseteq Label
      /\ Extensible(Locals) /\ \A e \in open : Extensible(e)
  BY RootsExtensible DEF Owner, Roots, Label
<1>2. ASSUME NEW e \in Env, NEW n \in Name, NEW l \in Name, EnvDefine(e, n, l)
      PROVE  Writes
  BY <1>1, <1>2, LocalAtHand DEF EnvDefine, Writes
<1>3. ASSUME NEW e \in Env, NEW n \in Name, NEW l \in Name, EnvLookup(l, e, n)
      PROVE  Writes
  <2>1. at[e][n] \in AtHand
    BY <1>1, <1>3, EntryAtHand DEF EnvLookup, Roots
  <2> QED BY <1>1, <1>3, <2>1 DEF EnvLookup, Writes
<1> QED BY <1>2, <1>3 DEF EnvStep

LEMMA ExtendMakes ==
  ASSUME HeapInv, Running, NEW k \in AllKinds, NEW dst \in Name, NEW b \in Name,
         NEW args \in SUBSET Name, Extend(k, dst, b, args)
  PROVE  Makes
<1> DEFINE g == [l \in Label |-> IF l \in args THEN Local(l) ELSE at[Local(b)][l]]
<1>1. Local(b) \in Rooted
  BY LocalAtHand DEF Extend, Holds
<1>2. \A l \in Label : g[l] \in AtHand
  BY <1>1, LocalAtHand, EntryAtHand
<1>3. g \in [Label -> AtHand] BY <1>2
<1> QED BY <1>3 DEF Extend, Makes

LEMMA ListMakes ==
  ASSUME HeapInv, Running, ListStep
  PROVE  Makes
<1>1. PICK dst \in Name, h \in Name, t \in Name : ListCons(dst, h, t)
  BY DEF ListStep
<1> DEFINE m == [head |-> Local(h), tail |-> Local(t)]
<1>2. Members(m) \in [Label -> AtHand]
  BY LocalAtHand, MembersAtHand
<1>3. ListK \in AllKinds BY DEF AllKinds
<1> QED BY <1>1, <1>2, <1>3 DEF ListCons, Makes

LEMMA FunctionForms ==
  ASSUME HeapInv, Running, FunctionStep
  PROVE  Makes \/ Writes
<1>1. FunctionK \in AllKinds /\ FunctionK \in Mutable BY DEF AllKinds, Mutable
<1>2. ASSUME NEW dst \in Name, NEW e \in Env, FunctionNew(dst, e)
      PROVE  Makes
  <2>1. Table(e) \in [Label -> AtHand]
    BY <1>2, TableAtHand DEF FunctionNew, HasTable
  <2> QED BY <1>1, <1>2, <2>1 DEF FunctionNew, Makes
<1>3. ASSUME NEW dst \in Name, NEW f \in Name, NEW self \in Name \cup {Nil},
             NEW args \in SUBSET Name, FunctionPartial(dst, f, self, args)
      PROVE  Makes
  <2> DEFINE g == [l \in Label |-> CASE l \in args -> Local(l)
                                     [] l \in {self} \ args -> Local(f)
                                     [] OTHER -> Table(Local(f))[l]]
  <2>1. Local(f) \in Rooted
    BY <1>3, LocalAtHand DEF FunctionPartial, Holds
  <2>2. Table(Local(f)) \in [Label -> AtHand]
    BY <2>1, TableAtHand
  <2>3. \A l \in Label : g[l] \in AtHand
    <3> TAKE l \in Label
    <3>1. CASE l \in args
      <4>1. l \in Name BY <3>1
      <4> QED BY <3>1, <4>1, LocalAtHand
    <3>2. CASE l \in {self} \ args
      BY <3>2, LocalAtHand
    <3>3. CASE l \notin args /\ l \notin {self} \ args
      BY <2>2, <3>3
    <3> QED BY <3>1, <3>2, <3>3
  <2>4. g \in [Label -> AtHand] BY <2>3
  <2> QED BY <1>1, <1>3, <2>4 DEF FunctionPartial, Makes
<1>4. ASSUME NEW f \in Name, NEW n \in Name, NEW peer \in Name,
             DefineCapture(f, n, peer)
      PROVE  Writes
  <2>1. /\ Local(f) \in Cell /\ kind[Local(f)] \in Mutable
        /\ Local(f) \in Owner /\ Local(f) # Locals
    BY <1>1, <1>4, LocalHolds, HeapAssumption DEF DefineCapture, Holds
  <2>2. Extensible(Local(f)) /\ n \in Label
    BY <2>1 DEF Extensible, Label
  <2> QED BY <1>4, <2>1, <2>2, LocalAtHand DEF DefineCapture, Writes
<1> QED BY <1>2, <1>3, <1>4 DEF FunctionStep

LEMMA PartialMakes ==
  ASSUME HeapInv, Running, PartialStep
  PROVE  Makes
<1>1. PartialK \in AllKinds BY DEF AllKinds
<1>2. ASSUME NEW dst \in Name, NEW args \in SUBSET Name, PartialNew(dst, args)
      PROVE  Makes
  <2> DEFINE g == [l \in Label |-> IF l \in args THEN Local(l) ELSE Nil]
  <2>1. \A l \in Label : g[l] \in AtHand
    BY LocalAtHand DEF AtHand
  <2>2. g \in [Label -> AtHand] BY <2>1
  <2> QED BY <1>1, <1>2, <2>2 DEF PartialNew, Makes
<1>3. ASSUME NEW dst \in Name, NEW b \in Name, NEW args \in SUBSET Name,
             PartialExtend(dst, b, args)
      PROVE  Makes
  BY <1>1, <1>3, ExtendMakes DEF PartialExtend
<1> QED BY <1>2, <1>3 DEF PartialStep

LEMMA ObjectForms ==
  ASSUME HeapInv, Running, ObjectStep
  PROVE  Makes \/ Fails \/ Writes
<1>1. /\ ClassK \in AllKinds /\ ObjectK \in AllKinds
      /\ ClassK \in Mutable /\ ObjectK \in Mutable
  BY DEF AllKinds, Mutable
<1>2. ASSUME NEW dst \in Name, NEW s1 \in Name, NEW s2 \in Name,
             ClassNew(dst, s1, s2)
      PROVE  Makes
  <2> DEFINE m == [class |-> Local(s1), mixin |-> Local(s2)]
  <2>1. Members(m) \in [Label -> AtHand]
    BY LocalAtHand, MembersAtHand
  <2> QED BY <1>1, <1>2, <2>1 DEF ClassNew, Makes
<1>3. ASSUME NEW c \in Name, NEW n \in Name, NEW f \in Name,
             DefineMethod(c, n, f) \/ DefineAttribute(c, n, f)
      PROVE  Writes
  <2>1. /\ Local(c) \in Cell /\ kind[Local(c)] \in Mutable
        /\ Local(c) \in Owner /\ Local(c) # Locals
    BY <1>1, <1>3, LocalHolds, HeapAssumption DEF DefineMethod, DefineAttribute, Holds
  <2>2. Extensible(Local(c)) /\ n \in Label
    BY <2>1 DEF Extensible, Label
  <2>3. Running /\ Overwrite(Local(c), n, Local(f))
    BY <1>3 DEF DefineMethod, DefineAttribute
  <2> QED BY <2>1, <2>2, <2>3, LocalAtHand DEF Writes
<1>4. ASSUME NEW dst \in Name, NEW c \in Name, ObjectNew(dst, c)
      PROVE  Makes
  <2> DEFINE m == [class |-> Local(c)]
  <2>1. Members(m) \in [Label -> AtHand]
    BY LocalAtHand, MembersAtHand
  <2> QED BY <1>1, <1>4, <2>1 DEF ObjectNew, Makes
<1>5. ASSUME NEW dst \in Name, NEW o \in Name, NEW items \in Name,
             CopyWithItems(dst, o, items)
      PROVE  Makes
  <2> DEFINE g == [at[Local(o)] EXCEPT !["items"] = Local(items)]
  <2>1. Local(o) \in Rooted /\ Local(o) \in Owner
    BY <1>5, LocalAtHand, LocalHolds DEF CopyWithItems, Holds
  <2>2. at[Local(o)] \in [Label -> AtHand]
    BY <2>1, EntryAtHand DEF HeapInv, TypeOK
  <2>3. g \in [Label -> AtHand]
    BY <2>2, LocalAtHand
  <2> QED BY <1>1, <1>5, <2>3 DEF CopyWithItems, Makes
<1>6. ASSUME NEW s1 \in Name, NEW s2 \in Name, ClassNewFails(s1, s2)
      PROVE  Fails
  <2> DEFINE m == [class |-> Local(s1)]
  <2>1. Members(m) \in [Label -> AtHand]
    BY LocalAtHand, MembersAtHand
  <2>2. Empty \in [Label -> AtHand]
    BY DEF Empty, AtHand
  <2> QED BY <1>1, <1>6, <2>1, <2>2 DEF ClassNewFails, Fails
<1>7. ASSUME NEW o \in Name, NEW items \in Name, CopyFails(o, items)
      PROVE  Fails
  <2> DEFINE m == [class |-> at[Local(o)]["class"], items |-> Local(items)]
  <2>1. Local(o) \in Rooted /\ "class" \in Label
    BY <1>7, LocalAtHand DEF CopyFails, Holds, Label, Member
  <2>2. Members(m) \in [Label -> AtHand]
    BY <2>1, LocalAtHand, EntryAtHand, MembersAtHand
  <2> QED BY <1>1, <1>7, <2>2 DEF CopyFails, Fails
<1> QED BY <1>2, <1>3, <1>4, <1>5, <1>6, <1>7 DEF ObjectStep

LEMMA BoundMakes ==
  ASSUME HeapInv, Running, BoundStep
  PROVE  Makes
<1>1. BoundK \in AllKinds /\ CollectionK \in AllKinds BY DEF AllKinds
<1>2. ASSUME NEW dst \in Name, NEW r \in Name, NEW n \in Name, NEW s \in Cell,
             BoundNew(dst, r, s, n)
      PROVE  Makes
  <2> DEFINE c == at[Local(r)]["class"]
             m == [callable |-> at[s][n], class |-> s, receiver |-> Local(r)]
  <2>1. Local(r) \in Rooted
    BY <1>2, LocalAtHand DEF BoundNew, Holds
  <2>2. "class" \in Label /\ n \in Label BY DEF Label, Member
  <2>3. c \in Rooted
    BY <1>2, <2>1, <2>2, EntryAtHand DEF BoundNew, AtHand
  <2>4. s \in Rooted
    BY <1>2, <2>3, AncestorsAtHand DEF BoundNew
  <2>5. Members(m) \in [Label -> AtHand]
    BY <2>1, <2>2, <2>4, EntryAtHand, MembersAtHand DEF AtHand
  <2> QED BY <1>1, <1>2, <2>5 DEF BoundNew, Makes
<1>3. ASSUME NEW dst \in Name, NEW r \in Name, CollectionNew(dst, r)
      PROVE  Makes
  <2> DEFINE m == [receiver |-> Local(r)]
  <2>1. Members(m) \in [Label -> AtHand]
    BY LocalAtHand, MembersAtHand
  <2> QED BY <1>1, <1>3, <2>1 DEF CollectionNew, Makes
<1>4. ASSUME NEW dst \in Name, NEW b \in Name, NEW args \in SUBSET Name,
             BoundExtend(dst, b, args) \/ CollectionExtend(dst, b, args)
      PROVE  Makes
  BY <1>1, <1>4, ExtendMakes DEF BoundExtend, CollectionExtend
<1> QED BY <1>2, <1>3, <1>4 DEF BoundStep

LEMMA StepForms ==
  ASSUME HeapInv, Next
  PROVE  \/ Writes \/ Makes \/ Fails
         \/ \E e \in Env : EnvFree(e)
         \/ \E e \in Env, o \in Owner : EnvClone(e, o)
         \/ \E e \in Env, o \in Owner, N \in SUBSET Name : EnvCloneFails(e, o, N)
         \/ Unwind
<1>1. CASE Unwind
  BY <1>1
<1>2. CASE ~Unwind
  BY <1>2, CallerRuns, ValueWrites, EnvForms, ListMakes, FunctionForms, PartialMakes,
     ObjectForms, BoundMakes DEF Next
<1> QED BY <1>1, <1>2

-----------------------------------------------------------------------------
(***************************************************************************)
(* What is lost and what can be cyclic.  Every allocated cell is counted,  *)
(* and no set of immutable cells is such that each of them refers to one   *)
(* of the set: a cell that is filled only when it is created refers to     *)
(* cells older than itself.                                                *)
(***************************************************************************)
Counted == \A c \in Allocated : count[c] >= 1

Knot(T) == \A c \in T : kind[c] \notin Mutable /\ \E l \in Label : held[c][l] \in T

Founded == \A T \in SUBSET Cell : Knot(T) => T = {}

LeakInv == HeapInv /\ Counted /\ Founded

\* A reference is overwritten, in the table of a mutable owner or by none.
LEMMA OverwriteFounded ==
  ASSUME LeakInv, NEW o \in Owner, NEW l \in Label, NEW v \in Ref,
         Rebind(o, l, v), v = Nil \/ o \notin Cell \/ kind[o] \in Mutable
  PROVE  Counted' /\ Founded'
<1>1. held \in Graphs /\ count \in [Cell -> Nat]
  BY HeldIs DEF LeakInv, HeapInv, TypeOK
<1>2. held' = [held EXCEPT ![o][l] = v] /\ kind' = kind /\ Release(Retain(count, v), held[o][l])
  BY DEF Rebind
<1>3. Counted'
  <2>1. \A c \in Cell : Retain(count, v)[c] \in Nat /\ Retain(count, v)[c] >= count[c]
    BY <1>1 DEF Retain, Ref
  <2>2. Retain(count, v) \in [Cell -> Nat]
    BY <1>1, HeapAssumption DEF Retain, Ref
  <2> DEFINE cnt == Retain(count, v)
  <2> HIDE DEF cnt
  <2>3. held[o][l] \in Ref BY <1>1 DEF Graphs
  <2>4. \A c \in Cell : count'[c] >= 1 \/ count'[c] = cnt[c]
    BY <1>2, <2>2, <2>3 DEF Release, Ref, cnt
  <2>5. Allocated' = Allocated BY <1>2 DEF Allocated
  <2>6. Counted BY DEF LeakInv
  <2> QED BY <1>1, <2>1, <2>4, <2>5, <2>6 DEF Counted, Allocated, cnt
<1>4. Founded'
  <2> SUFFICES ASSUME NEW T \in SUBSET Cell, Knot(T)'
               PROVE  Knot(T)
    BY DEF LeakInv, Founded
  <2> SUFFICES ASSUME NEW c \in T
               PROVE  kind[c] \notin Mutable /\ \E m \in Label : held[c][m] \in T
    BY DEF Knot
  <2>1. kind[c] \notin Mutable
    BY <1>2 DEF Knot
  <2>2. PICK m \in Label : held'[c][m] \in T
    BY DEF Knot
  <2>3. c \in Cell /\ c \in Owner /\ Nil \notin T
    BY HeapAssumption DEF Owner
  <2>4. held'[c][m] = IF c = o /\ m = l THEN v ELSE held[c][m]
    BY <1>1, <1>2, <2>3 DEF Graphs
  <2>5. c = o => v = Nil
    BY <2>1, <2>3
  <2> QED BY <2>1, <2>2, <2>3, <2>4, <2>5
<1> QED BY <1>3, <1>4

\* A cell of any kind appears, and nothing but a local refers to it.
LEMMA FreshFounded ==
  ASSUME LeakInv, NEW c \in Cell, kind[c] = Free, NEW k,
         kind' = [kind EXCEPT ![c] = k], NEW g, Held(g),
         \A d \in Cell : held'[d] = IF d = c THEN g ELSE held[d],
         count' = [RetainAll(g) EXCEPT ![c] = 1]
  PROVE  Counted' /\ Founded'
<1>1. /\ held \in Graphs /\ count \in [Cell -> Nat] /\ NoDangling
      /\ kind \in [Cell -> AllKinds \cup {Free}] /\ Founded /\ Counted
  BY HeldIs DEF LeakInv, HeapInv, TypeOK
<1>2. \A d \in Cell : References(d) # {} => d # c
  BY <1>1 DEF NoDangling, Allocated
<1>3. Counted'
  <2>1. \A d \in Cell : /\ RetainAll(g)[d] \in Nat
                        /\ RetainAll(g)[d] >= count[d]
    <3> TAKE d \in Cell
    <3>1. Cardinality({l \in Label : g[l] = d}) \in Nat BY SubsetsFinite
    <3> QED BY <1>1, <3>1 DEF RetainAll
  <2>2. \A d \in Cell : d # c => count'[d] = RetainAll(g)[d]
    BY DEF RetainAll
  <2>3. count'[c] = 1 BY DEF RetainAll
  <2>4. \A d \in Cell : d \in Allocated' => d = c \/ d \in Allocated
    BY <1>1 DEF Allocated
  <2> SUFFICES ASSUME NEW d \in Cell, d \in Allocated'
               PROVE  count'[d] >= 1
    BY DEF Counted, Allocated
  <2>5. CASE d = c BY <2>3, <2>5
  <2>6. CASE d # c
    <3>1. count[d] >= 1 /\ count[d] \in Nat
      BY <1>1, <2>4, <2>6 DEF Counted
    <3> QED BY <2>1, <2>2, <2>6, <3>1
  <2> QED BY <2>5, <2>6
<1>4. Founded'
  <2> SUFFICES ASSUME NEW T \in SUBSET Cell, Knot(T)'
               PROVE  T = {}
    BY DEF Founded
  <2>1. \A l \in Label : g[l] # c
    BY <1>2, HeapAssumption DEF Held, Ref
  <2>2. \A d \in Cell, l \in Label : held[d][l] # c
    <3> TAKE d \in Cell, l \in Label
    <3>1. <<d, l>> \in Place BY DEF Owner, Place
    <3>2. References(held[d][l]) # {} \/ held[d][l] = Nil
      BY <3>1 DEF References
    <3> QED BY <1>2, <3>2, HeapAssumption
  <2>3. Knot(T \ {c})
    <3> SUFFICES ASSUME NEW d \in T \ {c}
                 PROVE  kind[d] \notin Mutable /\ \E m \in Label : held[d][m] \in T \ {c}
      BY DEF Knot
    <3>1. d \in Cell /\ d # c OBVIOUS
    <3>2. kind'[d] = kind[d] /\ held'[d] = held[d]
      BY <1>1, <3>1
    <3>3. kind'[d] \notin Mutable /\ \E m \in Label : held'[d][m] \in T
      BY DEF Knot
    <3>4. kind[d] \notin Mutable /\ \E m \in Label : held[d][m] \in T
      BY <3>2, <3>3
    <3> QED BY <2>2, <3>1, <3>4
  <2>4. T \ {c} = {}
    BY <1>1, <2>3 DEF Founded
  <2>5. \A m \in Label : held'[c][m] \notin T
    BY <2>1, <2>4
  <2>6. c \notin T BY <2>5 DEF Knot
  <2> QED BY <2>4, <2>6
<1> QED BY <1>3, <1>4

\* What is at hand is held.
LEMMA HandHeld ==
  ASSUME HeapInv
  PROVE  /\ AtHand \subseteq Ref
         /\ \A c \in Rooted : c \in Cell /\ References(c) # {} /\ c \in Allocated \ Unwinding
         /\ \A g \in [Label -> AtHand] : g \in [Label -> Ref] /\ Held(g)
<1>1. Rooted \in SUBSET Cell BY RootedCells
<1>2. \A c \in Rooted : c \in Cell /\ References(c) # {} /\ c \in Allocated \ Unwinding
  <2> TAKE c \in Rooted
  <2>1. PICK o \in Roots \cup Rooted, l \in Label : held[o][l] = c
    BY RootedIs, RootedCells, ReachLast
  <2>2. <<o, l>> \in Place BY <1>1, RootedCells DEF Owner, Place
  <2>3. c \in Cell /\ References(c) # {}
    BY <1>1, <2>1, <2>2 DEF References
  <2> QED BY <2>3 DEF HeapInv, NoDangling
<1> QED BY <1>1, <1>2 DEF AtHand, Ref, Held

LEMMA SameFounded ==
  ASSUME LeakInv, UNCHANGED kind, \A c \in Cell : held'[c] = held[c],
         \A c \in Cell : count'[c] \in Nat /\ count'[c] >= count[c]
  PROVE  Counted' /\ Founded'
<1>1. Counted'
  <2>1. Allocated' = Allocated /\ count \in [Cell -> Nat] /\ Counted
    BY DEF Allocated, LeakInv, HeapInv, TypeOK
  <2> QED BY <2>1 DEF Counted, Allocated
<1>2. Founded'
  <2>1. \A T \in SUBSET Cell : Knot(T)' => Knot(T)
    BY DEF Knot
  <2> QED BY <2>1 DEF Founded, LeakInv
<1> QED BY <1>1, <1>2

LEMMA CloneFounded ==
  ASSUME LeakInv, NEW e \in Env, NEW g, held' = [held EXCEPT ![e] = g],
         count' = RetainAll(g), UNCHANGED kind
  PROVE  Counted' /\ Founded'
<1>1. held \in Graphs /\ count \in [Cell -> Nat]
  BY HeldIs DEF LeakInv, HeapInv, TypeOK
<1>2. \A c \in Cell : c \in Owner /\ c # e BY HeapAssumption DEF Owner
<1>3. \A c \in Cell : held'[c] = held[c]
  BY <1>1, <1>2 DEF Graphs
<1>4. \A c \in Cell : count'[c] \in Nat /\ count'[c] >= count[c]
  <2> TAKE c \in Cell
  <2>1. Cardinality({l \in Label : g[l] = c}) \in Nat BY SubsetsFinite
  <2> QED BY <1>1, <2>1 DEF RetainAll
<1> QED BY <1>3, <1>4, SameFounded

LEMMA MakesFounded ==
  ASSUME LeakInv, HeapInv', NEW k \in AllKinds, NEW g \in [Label -> AtHand],
         \/ \E dst \in Name : New(k, dst, g)
         \/ NewFails(k, g)
  PROVE  Counted' /\ Founded'
<1>1. HeapInv /\ held \in Graphs BY HeldIs DEF LeakInv
<1>2. Held(g) BY <1>1, HandHeld
<1>3. PICK c \in Cell :
        /\ kind[c] = Free
        /\ kind' = [kind EXCEPT ![c] = k]
        /\ count' = [RetainAll(g) EXCEPT ![c] = 1]
        /\ \/ held' = [held EXCEPT ![c] = g]
           \/ \E dst \in Name : held' = [held EXCEPT ![c] = g, ![Locals][dst] = c]
  <2>1. held = at /\ held' = at'
    BY <1>1, CallerNext DEF New, NewFails
  <2> QED BY <2>1 DEF New, NewFails
<1>4. \A d \in Cell : d \in Owner /\ d # Locals BY HeapAssumption DEF Owner
<1>5. \A d \in Cell : held'[d] = IF d = c THEN g ELSE held[d]
  <2>1. CASE held' = [held EXCEPT ![c] = g]
    BY <1>1, <1>4, <2>1 DEF Graphs
  <2>2. CASE \E dst \in Name : held' = [held EXCEPT ![c] = g, ![Locals][dst] = c]
    BY <1>1, <1>4, <2>2 DEF Graphs
  <2> QED BY <1>3, <2>1, <2>2
<1> QED BY <1>2, <1>3, <1>5, FreshFounded

LEMMA UnwindFounded ==
  ASSUME LeakInv, Unwind
  PROVE  Counted' /\ Founded'
<1>1. /\ work \in Seq(Cell \cup Env) /\ Counted /\ Founded
      /\ kind \in [Cell -> AllKinds \cup {Free}] /\ count \in [Cell -> Nat]
  BY DEF LeakInv, HeapInv, TypeOK
<1>2. ASSUME NEW l \in Label, DropReference(l)
      PROVE  Counted' /\ Founded'
  <2>1. Dying \in Owner /\ Rebind(Dying, l, Nil)
    BY <1>2, DropHolds DEF LeakInv
  <2> QED BY <2>1, OverwriteFounded DEF Ref
<1>3. CASE FinishEnv
  <2>1. UNCHANGED <<kind, held, count>>
    BY <1>3, FinishHolds DEF FinishEnv, LeakInv
  <2>2. \A c \in Cell : count'[c] \in Nat /\ count'[c] >= count[c]
    BY <1>1, <2>1
  <2> QED BY <2>1, <2>2, SameFounded
<1>4. CASE FinishCell
  <2>1. PICK x \in Cell : x = Dying BY <1>4 DEF FinishCell
  <2>2. /\ held[x] = Empty /\ held' = held
        /\ kind' = [kind EXCEPT ![x] = Free]
        /\ count' = [count EXCEPT ![x] = 0]
    BY <1>4, <2>1, FinishHolds DEF FinishCell, Finish, LeakInv
  <2>3. Counted'
    BY <1>1, <2>2 DEF Counted, Allocated
  <2>4. Founded'
    <3> SUFFICES ASSUME NEW T \in SUBSET Cell, Knot(T)'
                 PROVE  Knot(T)
      BY <1>1 DEF Founded
    <3>1. \A m \in Label : held[x][m] \notin T
      BY <2>2, HeapAssumption DEF Empty
    <3>2. x \notin T BY <2>2, <3>1 DEF Knot
    <3> QED BY <1>1, <2>2, <3>2 DEF Knot
  <2> QED BY <2>3, <2>4
<1> QED BY <1>2, <1>3, <1>4 DEF Unwind

LEMMA NextLeak == LeakInv /\ [Next]_vars => LeakInv'
<1> SUFFICES ASSUME LeakInv, [Next]_vars PROVE LeakInv'
  OBVIOUS
<1>1. HeapInv /\ HeapInv' BY NextHeap DEF LeakInv
<1>2. CASE Writes
  <2>1. PICK o \in Owner, l \in Label, v \in AtHand :
          Extensible(o) /\ Overwrite(o, l, v) /\ Running
    BY <1>2 DEF Writes
  <2>2. v \in Ref /\ Rebind(o, l, v)
    <3>1. held = at /\ held' = at'
      BY <1>1, <2>1, CallerNext DEF Overwrite
    <3> QED BY <1>1, <2>1, <3>1, HandHeld DEF Overwrite, Rebind
  <2>3. o \notin Cell \/ kind[o] \in Mutable
    <3>1. Roots \subseteq Env \cup {Locals} BY <1>1 DEF HeapInv, TypeOK, Roots
    <3>2. Roots \cap Cell = {} BY <3>1, HeapAssumption
    <3> QED BY <2>1, <3>2 DEF Extensible
  <2>4. Counted' /\ Founded' BY <2>1, <2>2, <2>3, OverwriteFounded
  <2> QED BY <1>1, <2>4 DEF LeakInv
<1>3. CASE Makes
  <2>1. Counted' /\ Founded' BY <1>1, <1>3, MakesFounded DEF Makes
  <2> QED BY <1>1, <2>1 DEF LeakInv
<1>4. CASE Fails
  <2>1. Counted' /\ Founded' BY <1>1, <1>4, MakesFounded DEF Fails
  <2> QED BY <1>1, <2>1 DEF LeakInv
<1>5. ASSUME NEW e \in Env,
             \/ \E o \in Owner : EnvClone(e, o)
             \/ \E o \in Owner, N \in SUBSET Name : EnvCloneFails(e, o, N)
      PROVE  LeakInv'
  <2>1. CASE \E o \in Owner : EnvClone(e, o)
    <3>1. held = at /\ held' = at'
      BY <1>1, <2>1, CallerNext DEF EnvClone
    <3>2. Counted' /\ Founded' BY <2>1, <3>1, CloneFounded DEF EnvClone
    <3> QED BY <1>1, <3>2 DEF LeakInv
  <2>2. CASE \E o \in Owner, N \in SUBSET Name : EnvCloneFails(e, o, N)
    <3>1. PICK o \in Owner, N \in SUBSET Name : EnvCloneFails(e, o, N) BY <2>2
    <3> DEFINE g == [l \in Label |-> IF l \in N THEN held[o][l] ELSE Nil]
    <3>2. held' = [held EXCEPT ![e] = g] /\ count' = RetainAll(g) /\ UNCHANGED kind
      <4>1. held = at /\ held' = at'
        BY <1>1, <3>1, CallerNext DEF EnvCloneFails
      <4> QED BY <3>1, <4>1 DEF EnvCloneFails
    <3> HIDE DEF g
    <3>3. Counted' /\ Founded' BY <3>2, CloneFounded
    <3> QED BY <1>1, <3>3 DEF LeakInv
  <2> QED BY <1>5, <2>1, <2>2
<1>6. CASE UNCHANGED vars \/ \E e \in Env : EnvFree(e)
  <2>1. UNCHANGED <<kind, held, count>>
    <3>1. CASE UNCHANGED vars
      BY <3>1 DEF vars, held, Running
    <3>2. CASE \E e \in Env : EnvFree(e)
      BY <1>1, <3>2, CallerNext DEF EnvFree
    <3> QED BY <1>6, <3>1, <3>2
  <2>2. \A c \in Cell : count'[c] \in Nat /\ count'[c] >= count[c]
    BY <2>1 DEF LeakInv, HeapInv, TypeOK
  <2>3. Counted' /\ Founded' BY <2>1, <2>2, SameFounded
  <2> QED BY <1>1, <2>3 DEF LeakInv
<1>7. CASE Unwind
  <2>1. Counted' /\ Founded' BY <1>7, UnwindFounded
  <2> QED BY <1>1, <2>1 DEF LeakInv
<1> QED BY <1>1, <1>2, <1>3, <1>4, <1>5, <1>6, <1>7, StepForms

THEOREM LeakInvariant == Spec => []LeakInv
<1>1. Init => LeakInv
  <2> SUFFICES ASSUME Init PROVE LeakInv
    OBVIOUS
  <2>1. Counted BY DEF Init, Counted, Allocated
  <2>2. \A c \in Cell, l \in Label : held[c][l] = Nil
    BY InitHeap, CallerHolds DEF Init, Running, Empty, Owner
  <2>3. Founded BY <2>2, HeapAssumption DEF Founded, Knot
  <2> QED BY <2>1, <2>3, InitHeap DEF LeakInv
<1>2. LeakInv /\ [Next]_vars => LeakInv' BY NextLeak
<1> QED BY <1>1, <1>2, PTL DEF Spec

(***************************************************************************)
(* A cycle goes through a class, an object or a function: lists, partials  *)
(* and bound methods are never filled after their creation and cannot      *)
(* close one, so programs without these never leak.                        *)
(***************************************************************************)
THEOREM CyclesThroughMutableCells == Spec => []CyclesNeedMutableCells
<1>1. LeakInv => CyclesNeedMutableCells
  <2> SUFFICES ASSUME LeakInv, NEW c \in Cell, OnCycle(c),
                      \A d \in Reached({c}) : c \in Reached({d}) => kind[d] \notin Mutable
               PROVE  FALSE
    BY DEF CyclesNeedMutableCells, Allocated
  <2>1. held \in Graphs BY HeldIs DEF LeakInv
  <2> DEFINE T == {d \in Reach(held, {c}) : c \in Reach(held, {d})}
  <2>2. c \in T /\ T \in SUBSET Cell
    BY ReachedIs, ReachLeast DEF OnCycle
  <2>3. Knot(T)
    <3> SUFFICES ASSUME NEW d \in T
                 PROVE  kind[d] \notin Mutable /\ \E l \in Label : held[d][l] \in T
      BY DEF Knot
    <3>1. kind[d] \notin Mutable BY ReachedIs
    <3>2. d \in Cell /\ {c} \in SUBSET Owner BY <2>2 DEF Owner
    <3>3. PICK l \in Label :
            held[d][l] \in Cell /\ c \in {held[d][l]} \cup Reach(held, {held[d][l]})
      BY <2>1, <3>2, ReachFirst
    <3>4. held[d][l] \in Reach(held, {c})
      <4>1. Closed(held, {c}, Reach(held, {c})) BY <2>1, <3>2, ReachClosed
      <4> QED BY <3>3, <4>1, HeapAssumption DEF Closed
    <3>5. c \in Reach(held, {held[d][l]}) BY <2>2, <3>3
    <3> QED BY <3>1, <3>4, <3>5
  <2> QED BY <2>2, <2>3 DEF LeakInv, Founded
<1> QED BY <1>1, LeakInvariant, PTL

\* A set of natural numbers has a least element.
LessThan == {p \in Nat \X Nat : p[1] < p[2]}

LEMMA LeastNumber ==
  ASSUME NEW S \in SUBSET Nat, S # {}
  PROVE  \E n \in S : \A m \in S : n <= m
<1>1. OpToRel(<, Nat) = LessThan
  BY Zenon DEF OpToRel, LessThan
<1>2. IsWellFoundedOn(LessThan, Nat)
  BY Zenon, NatLessThanWellFounded, <1>1
<1>3. PICK n \in S : \A m \in S : <<m, n>> \notin LessThan
  BY <1>2, WFMin, Zenon
<1>4. \A m \in S : n <= m
  <2> TAKE m \in S
  <2>1. <<m, n>> \notin LessThan BY <1>3
  <2>2. ~(m < n) BY <2>1 DEF LessThan
  <2> QED BY <2>2
<1> QED BY <1>4

\* Every nonempty set of cells each of which another one of the set refers to
\* has a cell on a cycle.
LEMMA PredecessorsClose ==
  ASSUME held \in Graphs, NEW U \in SUBSET Cell, U # {},
         \A x \in U : \E y \in U, l \in Label : held[y][l] = x
  PROVE  \E d \in U : d \in Reach(held, {d})
<1> DEFINE Before(x) == {y \in Cell : x \in Reach(held, {y})}
           Size(x) == Cardinality(Before(x))
           sizes == {Size(x) : x \in U}
<1>1. \A x \in U : Before(x) \in SUBSET Cell /\ IsFiniteSet(Before(x)) /\ Size(x) \in Nat
  BY SubsetsFinite
<1> HIDE DEF Size
<1>2. sizes \in SUBSET Nat /\ sizes # {} BY <1>1
<1>3. PICK x \in U : \A y \in U : Size(x) <= Size(y)
  <2>1. PICK n \in sizes : \A m \in sizes : n <= m
    BY <1>2, LeastNumber
  <2> QED BY <2>1
<1>4. PICK y \in U, l \in Label : held[y][l] = x OBVIOUS
<1>5. y \in Before(x)
  <2>1. Closed(held, {y}, Reach(held, {y})) /\ x # Nil
    BY ReachClosed, HeapAssumption DEF Owner
  <2> QED BY <1>4, <2>1 DEF Closed
<1>6. Before(y) \subseteq Before(x)
  <2> SUFFICES ASSUME NEW z \in Cell, y \in Reach(held, {z})
               PROVE  x \in Reach(held, {z})
    OBVIOUS
  <2>1. Closed(held, {z}, Reach(held, {z})) /\ x # Nil
    BY ReachClosed, HeapAssumption DEF Owner
  <2> QED BY <1>4, <2>1 DEF Closed
<1>7. Before(y) = Before(x)
  <2>1. Size(x) <= Size(y) BY <1>3
  <2>2. Size(x) \in Nat /\ Size(y) \in Nat /\ IsFiniteSet(Before(x)) BY <1>1
  <2> HIDE DEF Before
  <2>3. /\ Cardinality(Before(y)) <= Cardinality(Before(x))
        /\ Cardinality(Before(x)) = Cardinality(Before(y)) => Before(x) = Before(y)
    BY <1>6, <2>2, FS_Subset
  <2>4. Size(y) <= Size(x) /\ (Size(x) = Size(y) => Before(x) = Before(y))
    BY <2>3 DEF Size
  <2> QED BY <2>1, <2>2, <2>4
<1> QED BY <1>5, <1>7

(***************************************************************************)
(* After the session is freed, what is left is what cycles lead to: on     *)
(* acyclic values reference counting gives all memory back.                *)
(***************************************************************************)
THEOREM LeaksAreCyclic == Spec => []OnlyCyclesLeak
<1>1. LeakInv => OnlyCyclesLeak
  <2> SUFFICES ASSUME LeakInv, Quiet, NEW c \in Allocated
               PROVE  \E d \in Allocated : OnCycle(d) /\ c \in Reached({d})
    BY DEF OnlyCyclesLeak
  <2>1. /\ held \in Graphs /\ RefCountExact /\ FreedIsEmpty /\ Counted
        /\ work = <<>> /\ open = {} /\ held[Locals] = Empty
    BY HeldIs, CallerHolds DEF LeakInv, HeapInv, Quiet, Running
  <2>2. Unwinding = {} BY <2>1 DEF Unwinding
  <2>3. \A x \in Allocated : \E y \in Allocated, l \in Label : held[y][l] = x
    <3> TAKE x \in Allocated
    <3>1. x \in Cell /\ x # Nil BY HeapAssumption DEF Allocated
    <3>2. count[x] = Cardinality(References(x)) + 0 /\ count[x] >= 1
      BY <2>1, <2>2, <3>1 DEF RefCountExact, Counted
    <3>3. References(x) # {}
      <4>1. Cardinality({}) = 0 BY FS_EmptySet
      <4> QED BY <3>2, <4>1
    <3>4. PICK p \in Place : held[p[1]][p[2]] = x BY <3>3 DEF References
    <3>5. p[1] \in Owner /\ p[2] \in Label BY DEF Place
    <3>6. held[p[1]] # Empty BY <3>1, <3>4, <3>5 DEF Empty
    <3>7. p[1] \in Allocated
      BY <2>1, <2>2, <3>5, <3>6 DEF FreedIsEmpty, Owner
    <3> QED BY <3>4, <3>5, <3>7
  <2> DEFINE U == {x \in Allocated : c = x \/ c \in Reach(held, {x})}
  <2>4. \A x \in U : \E y \in U, l \in Label : held[y][l] = x
    <3> TAKE x \in U
    <3>1. PICK y \in Allocated, l \in Label : held[y][l] = x BY <2>3
    <3>2. y \in Cell /\ x \in Cell /\ x # Nil BY HeapAssumption DEF Allocated
    <3>3. x \in Reach(held, {y})
      <4>1. Closed(held, {y}, Reach(held, {y})) BY <2>1, <3>2, ReachClosed DEF Owner
      <4> QED BY <3>1, <3>2, <4>1 DEF Closed
    <3>4. c \in Reach(held, {y})
      BY <2>1, <3>2, <3>3, ReachTransitive DEF Owner
    <3> QED BY <3>1, <3>4
  <2>5. U \in SUBSET Cell /\ U # {} BY DEF Allocated
  <2>6. PICK d \in U : d \in Reach(held, {d})
    BY <2>1, <2>4, <2>5, PredecessorsClose
  <2>7. c \in Reach(held, {d}) BY <2>6
  <2> QED BY <2>6, <2>7, ReachedIs DEF OnCycle
<1> QED BY <1>1, LeakInvariant, PTL

-----------------------------------------------------------------------------
(***************************************************************************)
(* The heap implements the store of values.  Every operation of the caller *)
(* is an operation of the store or changes nothing the caller can reach;   *)
(* a teardown only touches what is out of reach.                           *)
(***************************************************************************)
SeenKinds == KindsOf[Rooted]
Seen == GraphOf[Rooted]

LEMMA SeenIs ==
  ASSUME HeapInv
  PROVE  /\ SeenKinds = [c \in Cell |-> IF c \in Rooted THEN kind[c] ELSE Free]
         /\ Seen = [o \in Owner |-> IF o \in Rooted \cup Roots THEN held[o] ELSE Empty]
BY RootedCells DEF SeenKinds, Seen, KindsOf, GraphOf, Roots

LEMMA SeenNext ==
  ASSUME HeapInv'
  PROVE  /\ held' \in Graphs
         /\ Roots' \in SUBSET Owner
         /\ Rooted' \in SUBSET Cell
         /\ Closed(held', Roots', Rooted')
         /\ SeenKinds' = [c \in Cell |-> IF c \in Rooted' THEN kind'[c] ELSE Free]
         /\ Seen' = [o \in Owner |-> IF o \in Rooted' \cup Roots' THEN held'[o] ELSE Empty]
<1>1. held' \in Graphs /\ Roots' \in SUBSET Owner
  BY HeldNext DEF HeapInv, TypeOK, Roots, Owner
<1>2. Rooted' \in SUBSET Cell /\ Closed(held', Roots', Rooted')
  BY <1>1, RootedIs, ReachLeast, ReachClosed
<1>3. /\ SeenKinds' = [c \in Cell |-> IF c \in Rooted' THEN kind'[c] ELSE Free]
      /\ Seen' = [o \in Owner |-> IF o \in Rooted' \cup Roots' THEN held'[o] ELSE Empty]
  BY <1>2 DEF SeenKinds, Seen, KindsOf, GraphOf, Roots
<1> QED BY <1>1, <1>2, <1>3

\* The values of the store are those at hand.
LEMMA StoreHere ==
  ASSUME HeapInv
  PROVE  /\ {c \in Cell : SeenKinds[c] # Free} = Rooted
         /\ Rooted \cup {Nil} = AtHand
<1>1. \A c \in Rooted : c \in Cell /\ kind[c] # Free
  BY HandHeld DEF Allocated
<1> QED BY <1>1, SeenIs DEF AtHand

\* The store becomes graph g if g is the next graph as far as the roots reach.
LEMMA Becomes ==
  ASSUME HeapInv', NEW k, NEW g, NEW E, open' = E,
         \A c \in Rooted' : k[c] = kind'[c],
         \A o \in Roots' \cup Rooted' : g[o] = held'[o]
  PROVE  Store!Become(k, g, E)
<1>1. Store!Reachable(g, E) = Reach(g, E \cup {Locals})
  BY DEF Store!Reachable, Reach, Closed
<1>2. E \cup {Locals} = Roots'
  BY DEF Roots
<1>3. Rooted' = Reach(held', Roots')
  BY RootedIs
<1>4. Store!Reachable(g, E) = Rooted'
  BY <1>1, <1>2, <1>3, SeenNext, ReachAgree
<1>5. SeenKinds' = [c \in Cell |-> IF c \in Rooted' THEN k[c] ELSE Free]
  BY SeenNext
<1>6. Seen' = [o \in Owner |-> IF o \in Rooted' \cup E \cup {Locals} THEN g[o] ELSE Empty]
  <2>1. Rooted' \cup E \cup {Locals} = Rooted' \cup Roots' BY <1>2
  <2> QED BY <2>1, SeenNext
<1> QED BY <1>4, <1>5, <1>6 DEF Store!Become, Store!Owner, Store!Empty, Owner, Empty,
     SeenKinds, Seen

\* A step that changes nothing the roots reach is none of the store.
LEMMA Unseen ==
  ASSUME HeapInv, HeapInv', open' = open,
         \A c \in Rooted : kind'[c] = kind[c],
         \A o \in Roots \cup Rooted : held'[o] = held[o]
  PROVE  UNCHANGED Store!vars
<1>1. Roots' = Roots BY DEF Roots
<1>2. Rooted' = Rooted
  BY <1>1, RootedIs, RootedCells, ReachAgree
<1>3. SeenKinds' = SeenKinds /\ Seen' = Seen
  BY <1>1, <1>2, SeenIs, SeenNext
<1> QED BY <1>3 DEF Store!vars, SeenKinds, Seen

\* The roots reach no more than a closed set.
LEMMA RootedWithin ==
  ASSUME NEW T \in SUBSET Cell, Closed(held', Roots', T)
  PROVE  Rooted' \subseteq T
BY RootedIs, ReachLeast

LEMMA WritesStore ==
  ASSUME HeapInv, HeapInv', Writes
  PROVE  Store!Next \/ UNCHANGED Store!vars
<1>1. PICK o \in Owner, l \in Label, v \in AtHand :
        /\ Extensible(o)
        /\ o # Locals => l \in Name
        /\ held' = [held EXCEPT ![o][l] = v]
        /\ UNCHANGED <<kind, open>>
        /\ Running
  BY CallerNext DEF Writes, Overwrite
<1>2. /\ held \in Graphs /\ Roots \in SUBSET Owner /\ Rooted \in SUBSET Cell
      /\ Closed(held, Roots, Rooted) /\ Roots' = Roots
  BY <1>1, RootedCells DEF Roots
<1>3. \A p \in Owner, m \in Label : held'[p][m] = IF p = o /\ m = l THEN v ELSE held[p][m]
  BY <1>1, <1>2 DEF Graphs
<1>4. CASE held[o][l] = v
  <2>1. held' = held BY <1>1, <1>2, <1>4 DEF Graphs
  <2> QED BY <1>1, <2>1, Unseen
<1>5. CASE held[o][l] # v
  <2>1. Closed(held', Roots', Rooted)
    BY <1>2, <1>3 DEF Closed, AtHand, Owner
  <2>2. Rooted' \subseteq Rooted BY <1>2, <2>1, RootedWithin
  <2>3. o \in Roots \cup Rooted'
    <3>1. CASE o \in Roots BY <3>1
    <3>2. CASE o \notin Roots
      <4>1. PICK f \in Name : Local(f) = o /\ o \in Cell
        BY <1>1, <3>2 DEF Extensible
      <4>2. Locals \in Roots' /\ f \in Label /\ o # Locals /\ Locals \in Owner
        BY <3>2 DEF Roots, Label, Owner
      <4>3. held[Locals][f] = o BY <1>1, <4>1, CallerHolds DEF Local
      <4>4. held'[Locals][f] = o BY <1>3, <4>2, <4>3
      <4> QED BY <4>1, <4>2, <4>4, SeenNext, HeapAssumption DEF Closed
    <3> QED BY <3>1, <3>2
  <2>4. Seen[o] = held[o] /\ Seen'[o] = held'[o]
    BY <1>2, <2>2, <2>3, SeenIs, SeenNext
  <2>5. Seen'[o][l] = v /\ Seen[o][l] # v
    BY <1>3, <1>5, <2>4
  <2>6. o \in open \cup {Locals} \cup {c \in Cell : SeenKinds[c] \in Mutable}
    <3>1. CASE o \in Roots BY <3>1 DEF Roots
    <3>2. CASE o \notin Roots
      <4>1. o \in Rooted /\ o \in Cell /\ kind[o] \in Mutable
        BY <1>1, <2>2, <2>3, <3>2 DEF Extensible
      <4>2. SeenKinds[o] = kind[o] BY <4>1, SeenIs
      <4> QED BY <4>1, <4>2
    <3> QED BY <3>1, <3>2
  <2>7. v \in {c \in Cell : SeenKinds[c] # Free} \cup {Nil}
    BY StoreHere
  <2>8. Store!Become(SeenKinds, [Seen EXCEPT ![o][l] = v], open)
    <3> DEFINE g == [Seen EXCEPT ![o][l] = v]
    <3>1. \A c \in Rooted' : SeenKinds[c] = kind'[c]
      BY <1>1, <1>2, <2>2, SeenIs
    <3>2. \A p \in Roots' \cup Rooted' : g[p] = held'[p]
      <4> TAKE p \in Roots' \cup Rooted'
      <4>1. p \in Owner /\ p \in Roots \cup Rooted
        BY <1>2, <2>2 DEF Owner
      <4>2. Seen \in [Owner -> [Label -> Ref]] /\ Seen[p] = held[p]
        BY <1>2, <4>1, SeenIs DEF Graphs, Empty, Ref
      <4>3. g[p] = IF p = o THEN [held[p] EXCEPT ![l] = v] ELSE held[p]
        BY <4>1, <4>2
      <4>4. held'[p] = IF p = o THEN [held[p] EXCEPT ![l] = v] ELSE held[p]
        BY <1>1, <1>2, <4>1 DEF Graphs
      <4> QED BY <4>3, <4>4
    <3> HIDE DEF g
    <3>3. Store!Become(SeenKinds, g, open)
      BY <1>1, <3>1, <3>2, Becomes
    <3> QED BY <3>3 DEF g
  <2>9. Store!Bind(o, l, Seen'[o][l])
    BY <1>1, <2>5, <2>6, <2>7, <2>8 DEF Store!Bind, Store!Here, SeenKinds, Seen
  <2>10. Store!Next
    BY <2>5, <2>9 DEF Store!Next, Store!Owner, Owner, SeenKinds, Seen
  <2> QED BY <2>10
<1> QED BY <1>4, <1>5

LEMMA MakesStore ==
  ASSUME HeapInv, HeapInv', Makes
  PROVE  Store!Next
<1>1. PICK k \in AllKinds, dst \in Name, g \in [Label -> AtHand] : New(k, dst, g)
  BY DEF Makes
<1>2. PICK c \in Cell :
        /\ kind[c] = Free /\ held[Locals][dst] = Nil
        /\ kind' = [kind EXCEPT ![c] = k]
        /\ held' = [held EXCEPT ![c] = g, ![Locals][dst] = c]
        /\ open' = open
  <2>1. held = at /\ held' = at'
    BY <1>1, CallerNext DEF New
  <2> QED BY <1>1, <2>1 DEF New, Local
<1>3. /\ held \in Graphs /\ Roots \in SUBSET Owner /\ Rooted \in SUBSET Cell
      /\ Closed(held, Roots, Rooted) /\ Roots' = Roots
      /\ kind \in [Cell -> AllKinds \cup {Free}]
  BY <1>2, RootedCells DEF Roots, HeapInv, TypeOK
<1>4. c \notin Rooted /\ c \notin Roots /\ k # Free
  <2>1. c \notin Allocated BY <1>2 DEF Allocated
  <2>2. c \notin open /\ c # Locals BY HeapAssumption DEF HeapInv, TypeOK
  <2>3. Free \notin AllKinds
    BY DEF AllKinds, Free, ListK, FunctionK, ClassK, ObjectK, BoundK, CollectionK, PartialK
  <2> QED BY <2>1, <2>2, <2>3, HandHeld DEF Roots
<1>5. /\ c \in Owner /\ Locals \in Owner /\ c # Locals /\ dst \in Label
  BY HeapAssumption DEF Owner, Label
<1>6. \A p \in Owner, m \in Label :
        held'[p][m] = IF p = c THEN g[m] ELSE IF p = Locals /\ m = dst THEN c ELSE held[p][m]
  BY <1>2, <1>3, <1>5 DEF Graphs
<1>7. Rooted' \subseteq Rooted \cup {c}
  <2>1. Closed(held', Roots', Rooted \cup {c})
    <3> SUFFICES ASSUME NEW p \in Roots \cup Rooted \cup {c}, NEW m \in Label
                 PROVE  held'[p][m] \in Rooted \cup {c, Nil}
      BY <1>3 DEF Closed
    <3>1. p \in Owner BY <1>3, <1>5 DEF Owner
    <3>2. p # c => held[p][m] \in Rooted \cup {Nil} BY <1>3 DEF Closed
    <3>3. g[m] \in Rooted \cup {Nil} BY DEF AtHand
    <3> QED BY <1>6, <3>1, <3>2, <3>3
  <2>2. Rooted \cup {c} \in SUBSET Cell BY <1>3
  <2> QED BY <2>1, <2>2, RootedWithin
<1>8. c \in Rooted'
  <2>1. held'[Locals][dst] = c /\ Locals \in Roots' BY <1>5, <1>6 DEF Roots
  <2> QED BY <1>5, <2>1, SeenNext, HeapAssumption DEF Closed
<1>9. SeenKinds[c] = Free /\ SeenKinds'[c] = k /\ Seen'[c] = g
  <2>1. SeenKinds[c] = Free BY <1>4, SeenIs
  <2>2. SeenKinds'[c] = kind'[c] /\ Seen'[c] = held'[c]
    BY <1>5, <1>8, SeenNext
  <2>3. kind'[c] = k /\ held'[c] = g
    BY <1>2, <1>3, <1>5 DEF Graphs
  <2> QED BY <2>1, <2>2, <2>3
<1>10. Seen[Locals][dst] = Nil
  BY <1>2, <1>5, SeenIs DEF Roots
<1>11. Store!Become([SeenKinds EXCEPT ![c] = k],
                    [Seen EXCEPT ![c] = g, ![Locals][dst] = c], open)
  <2> DEFINE kk == [SeenKinds EXCEPT ![c] = k]
             gg == [Seen EXCEPT ![c] = g, ![Locals][dst] = c]
  <2>1. \A d \in Rooted' : kk[d] = kind'[d]
    <3> TAKE d \in Rooted'
    <3>1. d \in Rooted \cup {c} /\ d \in Cell BY <1>3, <1>7
    <3>2. d # c => SeenKinds[d] = kind[d] BY <3>1, SeenIs
    <3>3. kk[d] = IF d = c THEN k ELSE SeenKinds[d] BY <3>1, SeenIs
    <3>4. kind'[d] = IF d = c THEN k ELSE kind[d] BY <1>2, <1>3, <3>1
    <3> QED BY <3>2, <3>3, <3>4
  <2>2. \A p \in Roots' \cup Rooted' : gg[p] = held'[p]
    <3> TAKE p \in Roots' \cup Rooted'
    <3>1. p \in Owner /\ (p # c => p \in Roots \cup Rooted)
      BY <1>3, <1>5, <1>7 DEF Owner
    <3>2. Seen \in [Owner -> [Label -> Ref]] /\ (p # c => Seen[p] = held[p])
      BY <1>3, <3>1, SeenIs DEF Graphs, Empty, Ref
    <3>3. gg[p] = IF p = Locals THEN [Seen[p] EXCEPT ![dst] = c]
                  ELSE IF p = c THEN g ELSE Seen[p]
      BY <1>5, <3>1, <3>2
    <3>4. held'[p] = IF p = Locals THEN [held[p] EXCEPT ![dst] = c]
                   ELSE IF p = c THEN g ELSE held[p]
      BY <1>2, <1>3, <1>5, <3>1 DEF Graphs
    <3> QED BY <1>5, <3>2, <3>3, <3>4
  <2> HIDE DEF kk, gg
  <2>3. Store!Become(kk, gg, open)
    BY <1>2, <2>1, <2>2, Becomes
  <2> QED BY <2>3 DEF kk, gg
<1>12. \A l \in Label : g[l] \in {d \in Cell : SeenKinds[d] # Free} \cup {Nil}
  BY StoreHere
<1>13. Store!Create(c, SeenKinds'[c], dst, Seen'[c])
  <2>1. c \notin {d \in Cell : SeenKinds[d] # Free} BY <1>9
  <2> QED BY <1>9, <1>10, <1>11, <1>12, <2>1
       DEF Store!Create, Store!Here, SeenKinds, Seen
<1>14. c \in {d \in Cell : SeenKinds'[d] # Free /\ SeenKinds[d] = Free}
  BY <1>4, <1>9
<1> QED BY <1>13, <1>14 DEF Store!Next, SeenKinds, Seen

LEMMA CloneStore ==
  ASSUME HeapInv, HeapInv', NEW e \in Env, NEW o \in Owner, EnvClone(e, o)
  PROVE  Store!Next
<1>1. /\ e \notin open /\ HasTable(o) /\ open' = open \cup {e}
      /\ held' = [held EXCEPT ![e] = Table(o)] /\ kind' = kind
      /\ Running
  BY CallerNext DEF EnvClone
<1>2. /\ held \in Graphs /\ Roots \in SUBSET Owner /\ Rooted \in SUBSET Cell
      /\ Closed(held, Roots, Rooted) /\ Roots' = Roots \cup {e}
      /\ e \in Owner /\ e \notin Rooted /\ e \notin Roots
  BY <1>1, RootedCells, HeapAssumption DEF Roots, Owner
<1> DEFINE g == Table(o)
<1>3. g \in [Label -> AtHand] BY <1>1, TableAtHand
<1> HIDE DEF g
<1>4. \A p \in Owner : held'[p] = IF p = e THEN g ELSE held[p]
  BY <1>1, <1>2 DEF Graphs, g
<1>5. Rooted' \subseteq Rooted
  <2>1. Closed(held', Roots', Rooted)
    <3> SUFFICES ASSUME NEW p \in Roots \cup {e} \cup Rooted, NEW m \in Label
                 PROVE  held'[p][m] \in Rooted \cup {Nil}
      BY <1>2 DEF Closed
    <3>1. p \in Owner BY <1>2 DEF Owner
    <3>2. p # e => held[p][m] \in Rooted \cup {Nil} BY <1>2 DEF Closed
    <3>3. g[m] \in Rooted \cup {Nil} BY <1>3 DEF AtHand
    <3> QED BY <1>4, <3>1, <3>2, <3>3
  <2> QED BY <1>2, <2>1, RootedWithin
<1>6. Seen'[e] = g
  BY <1>2, <1>4, SeenNext
<1>7. Store!Become(SeenKinds, [Seen EXCEPT ![e] = g], open \cup {e})
  <2> DEFINE gg == [Seen EXCEPT ![e] = g]
             E == open \cup {e}
  <2>1. \A c \in Rooted' : SeenKinds[c] = kind'[c]
    BY <1>1, <1>2, <1>5, SeenIs
  <2>2. \A p \in Roots' \cup Rooted' : gg[p] = held'[p]
    <3> TAKE p \in Roots' \cup Rooted'
    <3>1. p \in Owner /\ (p # e => p \in Roots \cup Rooted)
      BY <1>2, <1>5 DEF Owner
    <3>2. p # e => Seen[p] = held[p] BY <3>1, SeenIs
    <3>3. gg[p] = IF p = e THEN g ELSE Seen[p] BY <3>1, SeenIs
    <3> QED BY <1>4, <3>1, <3>2, <3>3
  <2>3. open' = E BY <1>1
  <2> HIDE DEF gg, E
  <2>4. Store!Become(SeenKinds, gg, E)
    BY <2>1, <2>2, <2>3, Becomes
  <2> QED BY <2>4 DEF gg, E
<1>8. \A l \in Label : g[l] \in {d \in Cell : SeenKinds[d] # Free} \cup {Nil}
  BY <1>3, StoreHere
<1>9. Store!OpenEnv(e, Seen'[e])
  BY <1>1, <1>6, <1>7, <1>8 DEF Store!OpenEnv, Store!Here, SeenKinds, Seen
<1> QED BY <1>9 DEF Store!Next, SeenKinds, Seen

LEMMA CloseStore ==
  ASSUME HeapInv, HeapInv', NEW e \in Env, EnvFree(e)
  PROVE  Store!Next
<1>1. /\ e \in open /\ (e = Session => open = {Session})
      /\ open' = open \ {e} /\ held' = held /\ kind' = kind
  BY CallerNext DEF EnvFree
<1>2. /\ Rooted \in SUBSET Cell /\ Closed(held, Roots, Rooted) /\ Roots' \subseteq Roots
      /\ Roots \in SUBSET Owner
  BY <1>1, RootedCells DEF Roots
<1>3. Closed(held', Roots', Rooted) BY <1>1, <1>2 DEF Closed
<1>4. Rooted' \subseteq Rooted BY <1>2, <1>3, RootedWithin
<1>5. \A c \in Rooted' : SeenKinds[c] = kind'[c]
  BY <1>1, <1>2, <1>4, SeenIs
<1>6. \A p \in Roots' \cup Rooted' : Seen[p] = held'[p]
  BY <1>1, <1>2, <1>4, SeenIs DEF Owner
<1> DEFINE E == open \ {e}
<1>7. open' = E BY <1>1
<1> HIDE DEF E
<1>8. Store!Become(SeenKinds, Seen, E)
  BY <1>5, <1>6, <1>7, Becomes
<1>9. Store!CloseEnv(e)
  BY <1>1, <1>8 DEF Store!CloseEnv, SeenKinds, Seen, E
<1> QED BY <1>9 DEF Store!Next, SeenKinds, Seen

\* What has no memory, or is being torn down, is out of sight.
LEMMA FailsUnseen ==
  ASSUME HeapInv, HeapInv', Fails
  PROVE  UNCHANGED Store!vars
<1>1. PICK c \in Cell, k \in AllKinds, g \in [Label -> AtHand] :
        /\ kind[c] = Free /\ open' = open
        /\ kind' = [kind EXCEPT ![c] = k]
        /\ held' = [held EXCEPT ![c] = g]
  <2>1. PICK k \in AllKinds, g \in [Label -> AtHand] : NewFails(k, g)
    BY DEF Fails
  <2>2. held = at /\ held' = at'
    BY <2>1, CallerNext DEF NewFails
  <2>3. PICK c \in Cell :
          /\ kind[c] = Free
          /\ kind' = [kind EXCEPT ![c] = k]
          /\ held' = [held EXCEPT ![c] = g]
    BY <2>1, <2>2 DEF NewFails
  <2>4. open' = open
    BY <2>1 DEF NewFails
  <2> QED BY <2>3, <2>4
<1>2. c \notin Rooted /\ c \notin Roots
  <2>1. c \notin Allocated BY <1>1 DEF Allocated
  <2>2. c \notin open /\ c # Locals BY HeapAssumption DEF HeapInv, TypeOK
  <2> QED BY <2>1, <2>2, HandHeld DEF Roots
<1>3. /\ held \in Graphs /\ Roots \in SUBSET Owner /\ Rooted \in SUBSET Cell
      /\ kind \in [Cell -> AllKinds \cup {Free}]
  BY RootedCells DEF HeapInv, TypeOK
<1>4. /\ \A d \in Rooted : kind'[d] = kind[d]
      /\ \A o \in Roots \cup Rooted : held'[o] = held[o]
  BY <1>1, <1>2, <1>3 DEF Graphs, Owner
<1> QED BY <1>1, <1>4, Unseen

LEMMA CloneFailsUnseen ==
  ASSUME HeapInv, HeapInv', NEW e \in Env, NEW o \in Owner, NEW N \in SUBSET Name,
         EnvCloneFails(e, o, N)
  PROVE  UNCHANGED Store!vars
<1> DEFINE g == [l \in Label |-> IF l \in N THEN held[o][l] ELSE Nil]
<1>1. held' = [held EXCEPT ![e] = g] /\ UNCHANGED <<kind, open>> /\ e \notin open
  <2>1. held = at /\ held' = at'
    BY CallerNext DEF EnvCloneFails
  <2> QED BY <2>1 DEF EnvCloneFails
<1> HIDE DEF g
<1>2. e \notin Rooted /\ e \notin Roots
  BY <1>1, RootedCells, HeapAssumption DEF Roots
<1>3. /\ held \in Graphs /\ Roots \in SUBSET Owner /\ Rooted \in SUBSET Cell
  BY RootedCells
<1>4. \A p \in Roots \cup Rooted : held'[p] = held[p]
  BY <1>1, <1>2, <1>3 DEF Graphs, Owner
<1> QED BY <1>1, <1>4, Unseen

LEMMA UnwindUnseen ==
  ASSUME HeapInv, HeapInv', Unwind
  PROVE  UNCHANGED Store!vars
<1>1. /\ work \in Seq(Cell \cup Env) /\ work # <<>> /\ held \in Graphs
      /\ TeardownOnce /\ kind \in [Cell -> AllKinds \cup {Free}]
  BY HeldIs DEF HeapInv, TypeOK, Unwind, DropReference, FinishEnv, FinishCell, Finish
<1>2. Len(work) \in 1..Len(work) /\ Dying = work[Len(work)] /\ Dying \in Cell \cup Env
  BY <1>1 DEF Dying
<1>3. Dying \in Unwinding BY <1>2 DEF Unwinding
<1> HIDE DEF Dying
<1>4. Dying \notin Rooted BY <1>3, HandHeld
<1>5. Dying \notin Roots
  <2>1. Dying \in Allocated \cup (Env \ open) BY <1>1, <1>2 DEF TeardownOnce
  <2>2. open \subseteq Env BY DEF HeapInv, TypeOK
  <2> QED BY <2>1, <2>2, HeapAssumption DEF Roots, Allocated
<1>6. Rooted \in SUBSET Cell /\ Roots \in SUBSET Owner BY RootedCells
<1>7. CASE FinishEnv \/ FinishCell
  <2>1. held' = held /\ open' = open
    BY <1>7, FinishHolds DEF FinishEnv, FinishCell
  <2>2. \A c \in Rooted : kind'[c] = kind[c]
    BY <1>1, <1>4, <1>6, <1>7 DEF FinishEnv, FinishCell
  <2> QED BY <2>1, <2>2, Unseen
<1>8. ASSUME NEW l \in Label, DropReference(l)
      PROVE  UNCHANGED Store!vars
  <2>1. held' = [held EXCEPT ![Dying][l] = Nil] /\ UNCHANGED <<kind, open>>
    BY <1>8, DropHolds DEF Rebind
  <2>2. \A o \in Roots \cup Rooted : held'[o] = held[o]
    BY <1>1, <1>4, <1>5, <1>6, <2>1 DEF Graphs, Owner
  <2> QED BY <2>1, <2>2, Unseen
<1> QED BY <1>7, <1>8 DEF Unwind

(***************************************************************************)
(* Reference counting implements the store of values: no operation of the  *)
(* caller, teardown or failure frees, changes or hands out again a value   *)
(* that a variable or a local leads to.                                    *)
(***************************************************************************)
THEOREM HeapImplementsStore == Spec => ImplementsStore
<1>1. Init => Store!Init
  <2> SUFFICES ASSUME Init PROVE Store!Init
    OBVIOUS
  <2>1. HeapInv BY InitHeap
  <2>2. Rooted = {}
    <3>1. \A o \in Roots, l \in Label : held[o][l] = Nil
      BY <2>1, CallerHolds, HeapAssumption DEF Init, Running, Roots, Empty, Owner
    <3>2. Closed(held, Roots, {}) BY <3>1 DEF Closed
    <3> QED BY <3>2, RootedIs, ReachLeast
  <2>3. SeenKinds = [c \in Cell |-> Free] /\ Seen = [o \in Owner |-> Empty]
    <3>1. held = at
      BY <2>1, CallerHolds DEF Init, Running
    <3> QED BY <2>1, <2>2, <3>1, SeenIs, RootedCells DEF Init
  <2> QED BY <2>3 DEF Init, Store!Init, Store!Owner, Store!Empty, Owner, Empty,
       SeenKinds, Seen
<1>2. HeapInv /\ [Next]_vars => [Store!Next]_(Store!vars)
  <2> SUFFICES ASSUME HeapInv, [Next]_vars
               PROVE  Store!Next \/ UNCHANGED Store!vars
    OBVIOUS
  <2>1. HeapInv' BY NextHeap
  <2>2. CASE UNCHANGED vars
    <3>1. held' = held
      BY <2>2 DEF vars, held, Running
    <3> QED BY <2>1, <2>2, <3>1, Unseen DEF vars
  <2>3. CASE Next
    BY <2>1, <2>3, StepForms, WritesStore, MakesStore, CloneStore, CloseStore,
       FailsUnseen, CloneFailsUnseen, UnwindUnseen
  <2> QED BY <2>2, <2>3
<1> QED BY <1>1, <1>2, HeapInvariant, PTL DEF Spec, ImplementsStore, Store!Spec

=============================================================================
