-------------------------- MODULE EnactParserProofs --------------------------
(***************************************************************************)
(* Proofs about EnactParser, for every vocabulary, that is, for statements *)
(* of every length with any tokens and names: the blocks of the trees are  *)
(* owned once, none is lost while there is memory, parameters are distinct *)
(* and a clone is as its origin.                                           *)
(*                                                                         *)
(* The argument goes from the trees to their blocks, from there to what    *)
(* the walks over calls and the left side of fix take out of them, to the  *)
(* semantic actions: whatever an action is given it puts into its value or *)
(* frees.  The automaton knows which symbols are below an item, so that    *)
(* an action gets what its rule says.  The inductive invariant has all of  *)
(* this for bison's stack, and the clones for enact_ast_clone's.           *)
(*                                                                         *)
(* Functions on trees are justified by induction on the height.            *)
(***************************************************************************)
EXTENDS EnactParser, EnactListsProofs

-----------------------------------------------------------------------------
(***************************************************************************)
(* Trees: induction over them, and recursive functions on them.            *)
(***************************************************************************)

\* The trees whose kids are in K.
TreesWith(K) == [kind : Kinds, at : Nat, name : Names \cup {""}, kids : K]

\* The trees of height h, if X has those below.
TreesOver(h, X) == TreesWith(IF h = 0 THEN {<<>>} ELSE Seq(X))

Heights(f, n) == f = [h \in 0..n |-> TreesOver(h, f[h - 1])]

LEMMA HeightsExist == \A n \in Nat : \E f : Heights(f, n)
<1> DEFINE T == {n \in Nat : \E f : Heights(f, n)}
<1>1. 0 \in T
  <2> DEFINE f == [h \in 0..0 |-> TreesOver(0, {})]
  <2>1. \A h \in 0..0 : TreesOver(h, f[h - 1]) = TreesOver(0, {})
    <3>1. \A X, Y : \A h \in 0..0 : TreesOver(h, X) = TreesOver(0, Y)
      BY DEF TreesOver
    <3> QED
      BY <3>1
  <2>2. Heights(f, 0)
    BY <2>1 DEF Heights
  <2> QED
    BY <2>2
<1>2. ASSUME NEW n \in Nat, n \in T PROVE n + 1 \in T
  <2>1. PICK f : Heights(f, n)
    BY <1>2
  <2> DEFINE g == [h \in 0..(n + 1) |-> IF h <= n THEN f[h] ELSE TreesOver(n + 1, f[n])]
  <2>2. f = [h \in 0..n |-> TreesOver(h, f[h - 1])]
    BY <2>1 DEF Heights
  <2>3. \A h \in 0..(n + 1) : g[h] = TreesOver(h, g[h - 1])
    <3> TAKE h \in 0..(n + 1)
    <3>1. CASE h = 0
      <4>1. g[0] = f[0] /\ f[0] = TreesOver(0, f[0 - 1])
        BY <2>2
      <4> QED
        BY <3>1, <4>1 DEF TreesOver
    <3>2. CASE h \in 1..n
      <4>1. g[h] = f[h] /\ h - 1 \in 0..n /\ g[h - 1] = f[h - 1] /\ h \in 0..n
        BY <3>2
      <4>2. f[h] = TreesOver(h, f[h - 1])
        BY <2>2, <4>1
      <4> QED
        BY <4>1, <4>2
    <3>3. CASE h = n + 1
      <4>1. g[h] = TreesOver(n + 1, f[n]) /\ h - 1 = n /\ g[n] = f[n]
        BY <3>3
      <4> QED
        BY <3>3, <4>1
    <3> QED
      BY <3>1, <3>2, <3>3
  <2> HIDE DEF g
  <2>4. g = [h \in 0..(n + 1) |-> g[h]]
    BY DEF g
  <2>5. Heights(g, n + 1)
    BY <2>3, <2>4 DEF Heights
  <2> QED
    BY <2>5
<1> HIDE DEF T
<1>3. \A n \in Nat : n \in T
  BY <1>1, <1>2, SetInduction
<1> QED
  BY <1>3 DEF T

LEMMA TreesWithFields ==
  ASSUME NEW K, NEW t \in TreesWith(K)
  PROVE  /\ t.kind \in Kinds /\ t.at \in Nat /\ t.name \in Names \cup {""} /\ t.kids \in K
         /\ t = [kind |-> t.kind, at |-> t.at, name |-> t.name, kids |-> t.kids]
BY DEF TreesWith

LEMMA TreesWithGrow ==
  ASSUME NEW K, NEW L, K \subseteq L
  PROVE  TreesWith(K) \subseteq TreesWith(L)
BY DEF TreesWith

LEMMA TreesAre ==
  \A h \in 0..MaxHeight : TreesUpTo[h] = TreesOver(h, TreesUpTo[h - 1])
<1>1. MaxHeight \in Nat
  BY ParserAssumption
<1>2. \E f : Heights(f, MaxHeight)
  BY <1>1, HeightsExist
<1>3. TreesUpTo = CHOOSE f : Heights(f, MaxHeight)
  BY DEF TreesUpTo, Heights, TreesOver, TreesWith
<1>4. Heights(TreesUpTo, MaxHeight)
  BY <1>2, <1>3
<1>5. TreesUpTo = [h \in 0..MaxHeight |-> TreesOver(h, TreesUpTo[h - 1])]
  BY <1>4 DEF Heights
<1> QED
  BY <1>5

LEMMA TreesGrow ==
  \A h \in 0..MaxHeight : h + 1 <= MaxHeight => TreesUpTo[h] \subseteq TreesUpTo[h + 1]
<1> DEFINE T == {h \in Nat : h + 1 <= MaxHeight => TreesUpTo[h] \subseteq TreesUpTo[h + 1]}
<1>m. MaxHeight \in Nat
  BY ParserAssumption
<1>1. 0 \in T
  <2> SUFFICES ASSUME 1 <= MaxHeight PROVE TreesUpTo[0] \subseteq TreesUpTo[1]
    OBVIOUS
  <2>1. TreesUpTo[0] = TreesOver(0, TreesUpTo[0 - 1]) /\ TreesUpTo[1] = TreesOver(1, TreesUpTo[0])
    BY <1>m, TreesAre
  <2>2. <<>> \in Seq(TreesUpTo[0])
    OBVIOUS
  <2> QED
    <3>1. TreesUpTo[0] = TreesWith({<<>>}) /\ TreesUpTo[1] = TreesWith(Seq(TreesUpTo[0]))
      BY <2>1 DEF TreesOver
    <3>2. {<<>>} \subseteq Seq(TreesUpTo[0])
      BY <2>2
    <3>3. TreesWith({<<>>}) \subseteq TreesWith(Seq(TreesUpTo[0]))
      BY <3>2, TreesWithGrow
    <3> QED
      BY <3>1, <3>3, Zenon
<1>2. ASSUME NEW h \in Nat, h \in T PROVE h + 1 \in T
  <2> SUFFICES ASSUME h + 1 + 1 <= MaxHeight PROVE TreesUpTo[h + 1] \subseteq TreesUpTo[h + 1 + 1]
    OBVIOUS
  <2>1. TreesUpTo[h] \subseteq TreesUpTo[h + 1]
    BY <1>m, <1>2
  <2>2. TreesUpTo[h + 1] = TreesOver(h + 1, TreesUpTo[h])
    BY <1>m, TreesAre
  <2>3. TreesUpTo[h + 1 + 1] = TreesOver(h + 1 + 1, TreesUpTo[h + 1])
    BY <1>m, TreesAre
  <2>4. Seq(TreesUpTo[h]) \subseteq Seq(TreesUpTo[h + 1])
    BY <2>1
  <2>5. h + 1 # 0 /\ h + 1 + 1 # 0
    OBVIOUS
  <2> QED
    <3>1. TreesUpTo[h + 1] = TreesWith(Seq(TreesUpTo[h]))
      BY <2>2, <2>5 DEF TreesOver
    <3>2. TreesUpTo[h + 1 + 1] = TreesWith(Seq(TreesUpTo[h + 1]))
      BY <2>3, <2>5 DEF TreesOver
    <3> QED
      BY <3>1, <3>2, <2>4, TreesWithGrow
<1> HIDE DEF T
<1>3. \A h \in Nat : h \in T
  BY <1>1, <1>2, SetInduction
<1> QED
  BY <1>3 DEF T

\* The kids of a tree are trees, of lower heights.
LEMMA Kids ==
  ASSUME NEW h \in 0..MaxHeight, NEW t \in TreesUpTo[h]
  PROVE  /\ t.kind \in Kinds /\ t.at \in Nat /\ t.name \in Names \cup {""}
         /\ t = [kind |-> t.kind, at |-> t.at, name |-> t.name, kids |-> t.kids]
         /\ IF h = 0 THEN t.kids = <<>> ELSE h - 1 \in 0..MaxHeight /\ t.kids \in Seq(TreesUpTo[h - 1])
<1>1. MaxHeight \in Nat
  BY ParserAssumption
<1>2. t \in TreesOver(h, TreesUpTo[h - 1])
  BY TreesAre
<1>3. PICK K : t \in TreesWith(K) /\ K = IF h = 0 THEN {<<>>} ELSE Seq(TreesUpTo[h - 1])
  BY <1>2 DEF TreesOver
<1>4. t.kids \in K
  BY <1>3, TreesWithFields, Zenon
<1>5. IF h = 0 THEN t.kids = <<>> ELSE h - 1 \in 0..MaxHeight /\ t.kids \in Seq(TreesUpTo[h - 1])
  BY <1>1, <1>3, <1>4
<1> QED
  BY <1>3, <1>5, TreesWithFields, Zenon

LEMMA LowerTrees == \A h \in 0..MaxHeight : TreesUpTo[h] \subseteq Tree
<1> DEFINE T == {n \in Nat : n <= MaxHeight => TreesUpTo[MaxHeight - n] \subseteq Tree}
<1>m. MaxHeight \in Nat
  BY ParserAssumption
<1>1. 0 \in T
  BY <1>m DEF Tree
<1>2. ASSUME NEW n \in Nat, n \in T PROVE n + 1 \in T
  <2> SUFFICES ASSUME n + 1 <= MaxHeight PROVE TreesUpTo[MaxHeight - (n + 1)] \subseteq Tree
    OBVIOUS
  <2>1. /\ MaxHeight - (n + 1) \in 0..MaxHeight
        /\ MaxHeight - (n + 1) + 1 = MaxHeight - n
    BY <1>m
  <2>2. TreesUpTo[MaxHeight - n] \subseteq Tree
    BY <1>m, <1>2
  <2>3. TreesUpTo[MaxHeight - (n + 1)] \subseteq TreesUpTo[MaxHeight - n]
    BY <1>m, <2>1, TreesGrow
  <2> QED
    BY <2>2, <2>3
<1> HIDE DEF T
<1>3. \A n \in Nat : n \in T
  BY <1>1, <1>2, SetInduction
<1> SUFFICES ASSUME NEW h \in 0..MaxHeight PROVE TreesUpTo[h] \subseteq Tree
  OBVIOUS
<1>4. MaxHeight - h \in Nat /\ MaxHeight - h <= MaxHeight /\ MaxHeight - (MaxHeight - h) = h
  BY <1>m
<1> QED
  BY <1>3, <1>4 DEF T

LEMMA HigherTrees ==
  ASSUME NEW h \in Nat, h + 1 \in 0..MaxHeight
  PROVE  \A t \in TreesUpTo[h + 1] : t \in Tree /\ t.kids \in Seq(TreesUpTo[h])
<1> TAKE t \in TreesUpTo[h + 1]
<1> DEFINE k == h + 1
<1>1. IF k = 0 THEN t.kids = <<>> ELSE k - 1 \in 0..MaxHeight /\ t.kids \in Seq(TreesUpTo[k - 1])
  <2>1. k \in 0..MaxHeight /\ t \in TreesUpTo[k]
    OBVIOUS
  <2> HIDE DEF k
  <2> QED
    BY <2>1, Kids
<1>2. h + 1 # 0 /\ h + 1 - 1 = h
  OBVIOUS
<1>3. t \in Tree
  BY LowerTrees
<1> QED
  BY <1>1, <1>2, <1>3

LEMMA TreeFields ==
  ASSUME NEW t \in Tree
  PROVE  /\ t.kind \in Kinds /\ t.at \in Nat /\ t.name \in Names \cup {""}
         /\ t = [kind |-> t.kind, at |-> t.at, name |-> t.name, kids |-> t.kids]
         /\ t.kids \in Seq(Tree) /\ Len(t.kids) \in Nat /\ DOMAIN t.kids = 1..Len(t.kids)
         /\ \A i \in DOMAIN t.kids : t.kids[i] \in Tree
<1>1. MaxHeight \in Nat /\ MaxHeight \in 0..MaxHeight
  BY ParserAssumption
<1>2. /\ t.kind \in Kinds /\ t.at \in Nat /\ t.name \in Names \cup {""}
      /\ t = [kind |-> t.kind, at |-> t.at, name |-> t.name, kids |-> t.kids]
  BY <1>1, Kids DEF Tree
<1>3. IF MaxHeight = 0 THEN t.kids = <<>>
      ELSE MaxHeight - 1 \in 0..MaxHeight /\ t.kids \in Seq(TreesUpTo[MaxHeight - 1])
  BY <1>1, Kids DEF Tree
<1>4. MaxHeight # 0 => TreesUpTo[MaxHeight - 1] \subseteq Tree
  BY <1>3, LowerTrees
<1>5. t.kids \in Seq(Tree)
  <2>1. CASE MaxHeight = 0
    <3>1. t.kids = <<>>
      BY <1>3, <2>1
    <3> QED
      BY <3>1
  <2>2. CASE MaxHeight # 0
    BY <1>3, <1>4, <2>2
  <2> QED
    BY <2>1, <2>2
<1>6. Len(t.kids) \in Nat /\ DOMAIN t.kids = 1..Len(t.kids) /\ \A i \in DOMAIN t.kids : t.kids[i] \in Tree
  BY <1>5
<1> QED
  BY <1>2, <1>5, <1>6, Zenon

LEMMA TreeInduction ==
  ASSUME NEW P,
         \A t \in Tree : (\A i \in DOMAIN t.kids : t.kids[i] \in P) => t \in P
  PROVE  \A t \in Tree : t \in P
<1> DEFINE T == {h \in Nat : h <= MaxHeight => TreesUpTo[h] \subseteq P}
<1>m. MaxHeight \in Nat
  BY ParserAssumption
<1>1. 0 \in T
  <2>1. \A t \in TreesUpTo[0] : t \in Tree /\ t.kids = <<>>
    <3> TAKE t \in TreesUpTo[0]
    <3>0. 0 \in 0..MaxHeight
      BY <1>m
    <3>1. IF 0 = 0 THEN t.kids = <<>> ELSE 0 - 1 \in 0..MaxHeight /\ t.kids \in Seq(TreesUpTo[0 - 1])
      BY <3>0, Kids, Zenon
    <3>2. t \in Tree
      BY <3>0, LowerTrees
    <3> QED
      BY <3>1, <3>2
  <2>2. \A t \in TreesUpTo[0] : t \in P
    BY <2>1
  <2> QED
    BY <2>2
<1>2. ASSUME NEW h \in Nat, h \in T PROVE h + 1 \in T
  <2> SUFFICES ASSUME h + 1 <= MaxHeight, NEW t \in TreesUpTo[h + 1] PROVE t \in P
    OBVIOUS
  <2>1. h + 1 \in 0..MaxHeight /\ h + 1 # 0 /\ h + 1 - 1 = h
    BY <1>m
  <2>2. t \in Tree /\ t.kids \in Seq(TreesUpTo[h])
    BY <2>1, HigherTrees
  <2>3. TreesUpTo[h] \subseteq P
    BY <1>2, <1>m
  <2> QED
    BY <2>2, <2>3
<1> HIDE DEF T
<1>3. \A h \in Nat : h \in T
  BY <1>1, <1>2, SetInduction
<1>4. TreesUpTo[MaxHeight] \subseteq P
  BY <1>m, <1>3 DEF T
<1> QED
  BY <1>4 DEF Tree

\* What a function g gives the kids of a tree.
OfKids(t, g) == [i \in DOMAIN t.kids |-> g[t.kids[i]]]

Follows(g, G, S) == \A t \in S : g[t] = G[t][OfKids(t, g)]

\* G[t][v] is the value for the tree t, if its kids have the values v.
LEMMA TreeRecursion ==
  ASSUME NEW V, NEW G, \A t \in Tree : \A v \in [DOMAIN t.kids -> V] : G[t][v] \in V
  PROVE  \E g \in [Tree -> V] : Follows(g, G, Tree)
<1> DEFINE T == {h \in Nat : h <= MaxHeight => \E g \in [TreesUpTo[h] -> V] : Follows(g, G, TreesUpTo[h])}
<1>m. MaxHeight \in Nat
  BY ParserAssumption
<1>1. 0 \in T
  <2> DEFINE none == [i \in {} |-> 0]
             g == [t \in TreesUpTo[0] |-> G[t][none]]
  <2>1. \A t \in TreesUpTo[0] : t \in Tree /\ DOMAIN t.kids = {}
    <3> TAKE t \in TreesUpTo[0]
    <3>0. 0 \in 0..MaxHeight
      BY <1>m
    <3>1. IF 0 = 0 THEN t.kids = <<>> ELSE 0 - 1 \in 0..MaxHeight /\ t.kids \in Seq(TreesUpTo[0 - 1])
      BY <3>0, Kids, Zenon
    <3>2. t \in Tree
      BY <3>0, LowerTrees
    <3> QED
      BY <3>1, <3>2
  <2>2. \A t \in TreesUpTo[0] : OfKids(t, g) = none /\ none \in [DOMAIN t.kids -> V]
    BY <2>1 DEF OfKids
  <2>3. g \in [TreesUpTo[0] -> V]
    BY <2>1, <2>2
  <2>4. Follows(g, G, TreesUpTo[0])
    BY <2>2 DEF Follows
  <2> QED
    BY <2>3, <2>4
<1>2. ASSUME NEW h \in Nat, h \in T PROVE h + 1 \in T
  <2> SUFFICES ASSUME h + 1 <= MaxHeight
               PROVE  \E g \in [TreesUpTo[h + 1] -> V] : Follows(g, G, TreesUpTo[h + 1])
    OBVIOUS
  <2>1. h + 1 \in 0..MaxHeight /\ h + 1 # 0 /\ h + 1 - 1 = h /\ h \in 0..MaxHeight
    BY <1>m
  <2>2. PICK f \in [TreesUpTo[h] -> V] : Follows(f, G, TreesUpTo[h])
    BY <1>2, <2>1
  <2> DEFINE g == [t \in TreesUpTo[h + 1] |-> G[t][OfKids(t, f)]]
  <2>3. \A t \in TreesUpTo[h + 1] : t \in Tree /\ t.kids \in Seq(TreesUpTo[h])
    BY <2>1, HigherTrees
  <2>4. TreesUpTo[h] \subseteq TreesUpTo[h + 1]
    BY <2>1, TreesGrow
  <2>5. \A t \in TreesUpTo[h] : g[t] = f[t]
    BY <2>2, <2>4 DEF Follows
  <2>6. \A t \in TreesUpTo[h + 1] : OfKids(t, f) \in [DOMAIN t.kids -> V]
    BY <2>2, <2>3 DEF OfKids
  <2>7. \A t \in TreesUpTo[h + 1] : OfKids(t, g) = OfKids(t, f)
    <3> TAKE t \in TreesUpTo[h + 1]
    <3>1. \A i \in DOMAIN t.kids : g[t.kids[i]] = f[t.kids[i]]
      <4> TAKE i \in DOMAIN t.kids
      <4>1. t.kids[i] \in TreesUpTo[h]
        BY <2>3
      <4> QED
        BY <4>1, <2>5, Zenon
    <3> HIDE DEF g
    <3> QED
      BY <3>1 DEF OfKids
  <2>8. g \in [TreesUpTo[h + 1] -> V]
    BY <2>3, <2>6
  <2>9. Follows(g, G, TreesUpTo[h + 1])
    BY <2>7 DEF Follows
  <2> QED
    BY <2>8, <2>9
<1> HIDE DEF T
<1>3. \A h \in Nat : h \in T
  BY <1>1, <1>2, SetInduction
<1>4. \E g \in [TreesUpTo[MaxHeight] -> V] : Follows(g, G, TreesUpTo[MaxHeight])
  BY <1>m, <1>3 DEF T
<1> QED
  BY <1>4 DEF Tree

-----------------------------------------------------------------------------
(***************************************************************************)
(* Blocks of trees, and what sound trees are made of.                      *)
(***************************************************************************)
LEMMA SubtreesAre ==
  /\ Subtrees \in [Tree -> SUBSET Tree]
  /\ \A t \in Tree : Subtrees[t] = {t} \cup UNION {Subtrees[t.kids[i]] : i \in DOMAIN t.kids}
<1> DEFINE G == [t \in Tree |-> [v \in [DOMAIN t.kids -> SUBSET Tree] |->
                   {t} \cup UNION {v[i] : i \in DOMAIN t.kids}]]
           Solves(f) == f = [t \in Tree |-> {t} \cup UNION {f[t.kids[i]] : i \in DOMAIN t.kids}]
<1>1. \A t \in Tree : \A v \in [DOMAIN t.kids -> SUBSET Tree] : G[t][v] \in SUBSET Tree
  OBVIOUS
<1>2. PICK g \in [Tree -> SUBSET Tree] : Follows(g, G, Tree)
  <2> HIDE DEF G
  <2> QED
    BY <1>1, TreeRecursion
<1>3. \A t \in Tree : g[t] = {t} \cup UNION {g[t.kids[i]] : i \in DOMAIN t.kids}
  <2> TAKE t \in Tree
  <2>1. \A i \in DOMAIN t.kids : t.kids[i] \in Tree
    BY TreeFields
  <2>2. OfKids(t, g) \in [DOMAIN t.kids -> SUBSET Tree] /\ \A i \in DOMAIN t.kids : OfKids(t, g)[i] = g[t.kids[i]]
    BY <2>1 DEF OfKids
  <2>3. g[t] = {t} \cup UNION {OfKids(t, g)[i] : i \in DOMAIN t.kids}
    BY <1>2, <2>2 DEF Follows
  <2> QED
    BY <2>2, <2>3
<1>4. Solves(g)
  BY <1>3
<1>5. Subtrees = CHOOSE f : Solves(f)
  BY DEF Subtrees
<1>6. Solves(Subtrees)
  <2> HIDE DEF Solves
  <2> QED
    BY <1>4, <1>5
<1>7. \A t \in Tree : Subtrees[t] = {t} \cup UNION {Subtrees[t.kids[i]] : i \in DOMAIN t.kids}
  BY <1>6
<1> DEFINE P == {t \in Tree : Subtrees[t] \in SUBSET Tree}
<1>8. ASSUME NEW t \in Tree, \A i \in DOMAIN t.kids : t.kids[i] \in P PROVE t \in P
  BY <1>7, <1>8
<1>9. \A t \in Tree : t \in P
  <2> HIDE DEF P
  <2> QED
    BY <1>8, TreeInduction
<1>10. \A t \in Tree : Subtrees[t] \in SUBSET Tree
  BY <1>9
<1>11. Subtrees = [t \in Tree |-> Subtrees[t]]
  BY <1>6
<1> QED
  BY <1>7, <1>10, <1>11

LEMMA BlocksAre ==
  ASSUME NEW t \in Tree
  PROVE  /\ Blocks(t) = ({t.at} \ {0}) \cup BlocksOf(t.kids)
         /\ Blocks(t) \subseteq Nat \ {0}
<1>1. Subtrees[t] = {t} \cup UNION {Subtrees[t.kids[i]] : i \in DOMAIN t.kids}
  BY SubtreesAre
<1>2. \A s \in Subtrees[t] : s \in Tree
  BY SubtreesAre
<1>3. Blocks(t) = ({t.at} \ {0}) \cup BlocksOf(t.kids)
  BY <1>1 DEF Blocks, BlocksOf
<1>4. Blocks(t) \subseteq Nat \ {0}
  BY <1>2, TreeFields DEF Blocks
<1> QED
  BY <1>3, <1>4

\* A property of all subtrees of a tree.
LEMMA AllSubtrees ==
  ASSUME NEW t \in Tree, NEW P
  PROVE  Subtrees[t] \subseteq P <=> t \in P /\ \A i \in DOMAIN t.kids : Subtrees[t.kids[i]] \subseteq P
<1>1. Subtrees[t] = {t} \cup UNION {Subtrees[t.kids[i]] : i \in DOMAIN t.kids}
  BY SubtreesAre
<1> QED
  BY <1>1

LEMMA SoundTree ==
  ASSUME NEW t \in Tree
  PROVE  Sound(t) <=> /\ Apart(t.kids) /\ \A i \in DOMAIN t.kids : t.at \notin Blocks(t.kids[i])
                      /\ \A i \in DOMAIN t.kids : Sound(t.kids[i])
<1> DEFINE P == {s \in Tree : Apart(s.kids) /\ \A i \in DOMAIN s.kids : s.at \notin Blocks(s.kids[i])}
<1>1. \A s \in Tree : Sound(s) <=> Subtrees[s] \subseteq P
  BY SubtreesAre DEF Sound
<1>2. \A i \in DOMAIN t.kids : t.kids[i] \in Tree
  BY TreeFields
<1>3. t \in P <=> Apart(t.kids) /\ \A i \in DOMAIN t.kids : t.at \notin Blocks(t.kids[i])
  OBVIOUS
<1> HIDE DEF P
<1>4. Subtrees[t] \subseteq P <=> t \in P /\ \A i \in DOMAIN t.kids : Subtrees[t.kids[i]] \subseteq P
  BY AllSubtrees
<1> QED
  BY <1>1, <1>2, <1>3, <1>4

\* A tree that is not wrong about its own names.
NamesOK(t) ==
  /\ t.kind = "names" => \A i, j \in DOMAIN t.kids : i # j => t.kids[i].name # t.kids[j].name
  /\ t.kind = "method" => ~Has(t.kids[3].kids, "self")

LEMMA DistinctTree ==
  ASSUME NEW t \in Tree
  PROVE  Distinct(t) <=> NamesOK(t) /\ \A i \in DOMAIN t.kids : Distinct(t.kids[i])
<1> DEFINE P == {s \in Tree : NamesOK(s)}
<1>1. \A s \in Tree : Distinct(s) <=> Subtrees[s] \subseteq P
  BY SubtreesAre DEF Distinct, NamesOK
<1>2. \A i \in DOMAIN t.kids : t.kids[i] \in Tree
  BY TreeFields
<1>3. t \in P <=> NamesOK(t)
  OBVIOUS
<1> HIDE DEF P
<1>4. Subtrees[t] \subseteq P <=> t \in P /\ \A i \in DOMAIN t.kids : Subtrees[t.kids[i]] \subseteq P
  BY AllSubtrees
<1> QED
  BY <1>1, <1>2, <1>3, <1>4

\* The kids that the nodes of a kind have.
KidsOK(t) ==
  /\ t.kind \in {"call", "attribute"} => Len(t.kids) = 2
  /\ t.kind = "identifier" => Len(t.kids) = 1

Shaped(tree) == \A t \in Subtrees[tree] : KidsOK(t)

LEMMA ShapedTree ==
  ASSUME NEW t \in Tree
  PROVE  Shaped(t) <=> KidsOK(t) /\ \A i \in DOMAIN t.kids : Shaped(t.kids[i])
<1> DEFINE P == {s \in Tree : KidsOK(s)}
<1>1. \A s \in Tree : Shaped(s) <=> Subtrees[s] \subseteq P
  BY SubtreesAre DEF Shaped
<1>2. \A i \in DOMAIN t.kids : t.kids[i] \in Tree
  BY TreeFields
<1>3. t \in P <=> KidsOK(t)
  OBVIOUS
<1> HIDE DEF P
<1>4. Subtrees[t] \subseteq P <=> t \in P /\ \A i \in DOMAIN t.kids : Subtrees[t.kids[i]] \subseteq P
  BY AllSubtrees
<1> QED
  BY <1>1, <1>2, <1>3, <1>4

\* The trees that the parser makes.
Proper == {t \in Tree : Sound(t) /\ Distinct(t) /\ Shaped(t)}

LEMMA ProperTree ==
  ASSUME NEW t \in Tree
  PROVE  t \in Proper <=> /\ Apart(t.kids) /\ \A i \in DOMAIN t.kids : t.at \notin Blocks(t.kids[i])
                          /\ NamesOK(t) /\ KidsOK(t)
                          /\ \A i \in DOMAIN t.kids : t.kids[i] \in Proper
<1>1. \A i \in DOMAIN t.kids : t.kids[i] \in Tree
  BY TreeFields
<1> QED
  BY <1>1, SoundTree, DistinctTree, ShapedTree DEF Proper

\* A tree with a node of its own on top of others.
LEMMA NewNode ==
  ASSUME NEW kind, NEW at \in Nat, NEW kids, Node(kind, at, kids) \in Tree
  PROVE  /\ kids \in Seq(Tree)
         /\ Blocks(Node(kind, at, kids)) = ({at} \ {0}) \cup BlocksOf(kids)
         /\ /\ kids \in Seq(Proper) /\ Apart(kids) /\ at \notin BlocksOf(kids)
            /\ NamesOK(Node(kind, at, kids)) /\ KidsOK(Node(kind, at, kids))
            => Node(kind, at, kids) \in Proper
<1> DEFINE t == Node(kind, at, kids)
<1>1. t.kind = kind /\ t.at = at /\ t.kids = kids
  BY DEF Node
<1>2. t \in Tree
  OBVIOUS
<1> HIDE DEF t
<1>3. kids \in Seq(Tree)
  BY <1>1, <1>2, TreeFields
<1>4. Blocks(t) = ({at} \ {0}) \cup BlocksOf(kids)
  BY <1>1, <1>2, BlocksAre
<1>5. ASSUME kids \in Seq(Proper), Apart(kids), at \notin BlocksOf(kids), NamesOK(t), KidsOK(t)
      PROVE  t \in Proper
  <2>1. \A i \in DOMAIN t.kids : t.kids[i] \in Proper
    BY <1>1, <1>5
  <2>2. \A i \in DOMAIN t.kids : t.at \notin Blocks(t.kids[i])
    BY <1>1, <1>5 DEF BlocksOf
  <2> QED
    BY <1>1, <1>2, <1>5, <2>1, <2>2, ProperTree
<1> QED
  BY <1>3, <1>4, <1>5 DEF t

LEMMA NothingIs ==
  /\ Nothing \in Tree /\ Nothing \in Proper /\ Blocks(Nothing) = {}
  /\ Nothing.kind = "nothing" /\ Nothing.kids = <<>> /\ Nothing.at = 0 /\ Nothing.name = ""
<1>1. Nothing.kind = "nothing" /\ Nothing.kids = <<>> /\ Nothing.at = 0 /\ Nothing.name = ""
  BY DEF Nothing, Node
<1>2. Nothing \in TreesUpTo[0]
  <2>1. TreesUpTo[0] = TreesWith({<<>>})
    BY TreesAre, ParserAssumption DEF TreesOver
  <2>2. "nothing" \in Kinds
    BY DEF Kinds
  <2> QED
    BY <2>1, <2>2 DEF Nothing, Node, TreesWith
<1>3. Nothing \in Tree
  BY <1>2, LowerTrees, ParserAssumption
<1> HIDE DEF Nothing
<1>4. DOMAIN Nothing.kids = {}
  <2>1. DOMAIN <<>> = {}
    OBVIOUS
  <2> QED
    BY <1>1, <2>1
<1>5. Blocks(Nothing) = {}
  BY <1>1, <1>3, <1>4, BlocksAre DEF BlocksOf
<1>6. Apart(Nothing.kids) /\ NamesOK(Nothing) /\ KidsOK(Nothing)
  BY <1>1, <1>4 DEF Apart, NamesOK, KidsOK
<1>7. Nothing \in Proper
  BY <1>3, <1>4, <1>6, ProperTree
<1> QED
  BY <1>1, <1>3, <1>5, <1>7

LEMMA TextIs ==
  ASSUME NEW name \in Names, NEW at \in Nat \ {0}
  PROVE  /\ Text(name, at) \in Proper /\ Text(name, at) \in Tree /\ Blocks(Text(name, at)) = {at}
         /\ Text(name, at).kind = "text" /\ Text(name, at).name = name
         /\ Text(name, at).kids = <<>> /\ Text(name, at) # Nothing
<1> DEFINE t == Text(name, at)
<1>1. t.kind = "text" /\ t.name = name /\ t.kids = <<>> /\ t.at = at
  BY DEF Text
<1>2. t \in TreesUpTo[0]
  <2>1. TreesUpTo[0] = TreesWith({<<>>})
    BY TreesAre, ParserAssumption DEF TreesOver
  <2>2. "text" \in Kinds
    BY DEF Kinds
  <2> QED
    BY <2>1, <2>2 DEF Text, TreesWith
<1>3. t \in Tree
  BY <1>2, LowerTrees, ParserAssumption
<1>4. DOMAIN t.kids = {}
  BY <1>1
<1> HIDE DEF t
<1>5. Blocks(t) = {at}
  BY <1>1, <1>3, <1>4, BlocksAre DEF BlocksOf
<1>6. Apart(t.kids) /\ NamesOK(t) /\ KidsOK(t)
  BY <1>1, <1>4 DEF Apart, NamesOK, KidsOK
<1>7. t \in Proper
  BY <1>3, <1>4, <1>6, ProperTree
<1>8. t # Nothing
  BY <1>1, NothingIs
<1> QED
  BY <1>1, <1>3, <1>5, <1>7, <1>8 DEF t

-----------------------------------------------------------------------------
(***************************************************************************)
(* Sequences of trees.                                                     *)
(***************************************************************************)

\* s has the trees of t, at the same or other places.
LEMMA Rearranged ==
  ASSUME NEW s \in Seq(Tree), NEW t \in Seq(Tree), NEW f \in [DOMAIN s -> DOMAIN t],
         \A i \in DOMAIN s : Blocks(s[i]) \subseteq Blocks(t[f[i]]),
         \A i, j \in DOMAIN s : f[i] = f[j] => i = j,
         Apart(t)
  PROVE  Apart(s) /\ BlocksOf(s) \subseteq BlocksOf(t)
BY DEF Apart, BlocksOf

LEMMA Joined ==
  ASSUME NEW s \in Seq(Tree), NEW t \in Seq(Tree)
  PROVE  /\ s \o t \in Seq(Tree)
         /\ BlocksOf(s \o t) = BlocksOf(s) \cup BlocksOf(t)
         /\ Apart(s \o t) <=> Apart(s) /\ Apart(t) /\ BlocksOf(s) \cap BlocksOf(t) = {}
<1> DEFINE u == s \o t
<1>1. /\ u \in Seq(Tree) /\ Len(u) = Len(s) + Len(t) /\ Len(s) \in Nat /\ Len(t) \in Nat
      /\ DOMAIN u = 1..(Len(s) + Len(t)) /\ DOMAIN s = 1..Len(s) /\ DOMAIN t = 1..Len(t)
      /\ \A i \in DOMAIN s : u[i] = s[i]
      /\ \A i \in DOMAIN t : u[Len(s) + i] = t[i]
  OBVIOUS
<1>2. \A i \in DOMAIN u : i \in DOMAIN s \/ (i - Len(s) \in DOMAIN t /\ i = Len(s) + (i - Len(s)))
  BY <1>1
<1>3. /\ \A i \in DOMAIN s : i \in DOMAIN u
      /\ \A i \in DOMAIN t : Len(s) + i \in DOMAIN u /\ Len(s) + i \notin DOMAIN s
      /\ \A i, j \in DOMAIN t : Len(s) + i = Len(s) + j => i = j
  BY <1>1
<1> HIDE DEF u
<1>4. BlocksOf(u) = BlocksOf(s) \cup BlocksOf(t)
  <2>1. BlocksOf(u) \subseteq BlocksOf(s) \cup BlocksOf(t)
    <3> SUFFICES ASSUME NEW i \in DOMAIN u PROVE Blocks(u[i]) \subseteq BlocksOf(s) \cup BlocksOf(t)
      BY DEF BlocksOf
    <3>1. CASE i \in DOMAIN s
      BY <1>1, <3>1 DEF BlocksOf
    <3>2. CASE i - Len(s) \in DOMAIN t /\ i = Len(s) + (i - Len(s))
      <4>1. u[i] = t[i - Len(s)]
        BY <1>1, <3>2
      <4> QED
        BY <3>2, <4>1 DEF BlocksOf
    <3> QED
      BY <1>2, <3>1, <3>2
  <2>2. BlocksOf(s) \subseteq BlocksOf(u)
    <3> SUFFICES ASSUME NEW i \in DOMAIN s PROVE Blocks(s[i]) \subseteq BlocksOf(u)
      BY DEF BlocksOf
    <3> QED
      BY <1>1, <1>3 DEF BlocksOf
  <2>3. BlocksOf(t) \subseteq BlocksOf(u)
    <3> SUFFICES ASSUME NEW i \in DOMAIN t PROVE Blocks(t[i]) \subseteq BlocksOf(u)
      BY DEF BlocksOf
    <3>1. Len(s) + i \in DOMAIN u /\ u[Len(s) + i] = t[i]
      BY <1>1, <1>3
    <3> QED
      BY <3>1 DEF BlocksOf
  <2> QED
    BY <2>1, <2>2, <2>3
<1>5. ASSUME Apart(u) PROVE Apart(s) /\ Apart(t) /\ BlocksOf(s) \cap BlocksOf(t) = {}
  <2>1. Apart(s)
    BY <1>1, <1>3, <1>5 DEF Apart
  <2>2. Apart(t)
    <3> SUFFICES ASSUME NEW i \in DOMAIN t, NEW j \in DOMAIN t, i # j PROVE Blocks(t[i]) \cap Blocks(t[j]) = {}
      BY DEF Apart
    <3>1. /\ Len(s) + i \in DOMAIN u /\ Len(s) + j \in DOMAIN u /\ Len(s) + i # Len(s) + j
          /\ u[Len(s) + i] = t[i] /\ u[Len(s) + j] = t[j]
      BY <1>1, <1>3
    <3> QED
      BY <1>5, <3>1 DEF Apart
  <2>3. ASSUME NEW i \in DOMAIN s, NEW j \in DOMAIN t PROVE Blocks(s[i]) \cap Blocks(t[j]) = {}
    <3>1. /\ i \in DOMAIN u /\ Len(s) + j \in DOMAIN u /\ i # Len(s) + j
          /\ u[i] = s[i] /\ u[Len(s) + j] = t[j]
      BY <1>1, <1>3
    <3> QED
      BY <1>5, <3>1 DEF Apart
  <2>4. BlocksOf(s) \cap BlocksOf(t) = {}
    BY <2>3 DEF BlocksOf
  <2> QED
    BY <2>1, <2>2, <2>4
<1>6. ASSUME Apart(s), Apart(t), BlocksOf(s) \cap BlocksOf(t) = {} PROVE Apart(u)
  <2> SUFFICES ASSUME NEW i \in DOMAIN u, NEW j \in DOMAIN u, i # j PROVE Blocks(u[i]) \cap Blocks(u[j]) = {}
    BY DEF Apart
  <2>1. \A k \in DOMAIN u : k \in DOMAIN s => u[k] = s[k] /\ Blocks(u[k]) \subseteq BlocksOf(s)
    BY <1>1 DEF BlocksOf
  <2>2. \A k \in DOMAIN u : k \notin DOMAIN s => /\ k - Len(s) \in DOMAIN t /\ u[k] = t[k - Len(s)]
                                                 /\ Blocks(u[k]) \subseteq BlocksOf(t)
    <3> TAKE k \in DOMAIN u
    <3> SUFFICES ASSUME k \notin DOMAIN s
                 PROVE /\ k - Len(s) \in DOMAIN t /\ u[k] = t[k - Len(s)]
                       /\ Blocks(u[k]) \subseteq BlocksOf(t)
      OBVIOUS
    <3>1. k - Len(s) \in DOMAIN t /\ k = Len(s) + (k - Len(s))
      BY <1>2
    <3>2. u[k] = t[k - Len(s)]
      BY <1>1, <3>1
    <3> QED
      BY <3>1, <3>2 DEF BlocksOf
  <2>3. CASE i \in DOMAIN s /\ j \in DOMAIN s
    BY <1>6, <2>1, <2>3 DEF Apart
  <2>4. CASE i \notin DOMAIN s /\ j \notin DOMAIN s
    <3>1. i - Len(s) # j - Len(s)
      BY <1>1
    <3> QED
      BY <1>6, <2>2, <2>4, <3>1 DEF Apart
  <2>5. CASE i \in DOMAIN s /\ j \notin DOMAIN s
    BY <1>6, <2>1, <2>2, <2>5
  <2>6. CASE i \notin DOMAIN s /\ j \in DOMAIN s
    BY <1>6, <2>1, <2>2, <2>6
  <2> QED
    BY <2>3, <2>4, <2>5, <2>6
<1> QED
  BY <1>1, <1>4, <1>5, <1>6 DEF u

LEMMA OneTree ==
  ASSUME NEW t \in Tree
  PROVE  /\ <<t>> \in Seq(Tree) /\ BlocksOf(<<t>>) = Blocks(t) /\ Apart(<<t>>)
<1>1. <<t>> \in Seq(Tree) /\ DOMAIN <<t>> = {1} /\ <<t>>[1] = t
  OBVIOUS
<1> QED
  BY <1>1 DEF BlocksOf, Apart

LEMMA TwoTrees ==
  ASSUME NEW s \in Tree, NEW t \in Tree
  PROVE  /\ <<s, t>> \in Seq(Tree) /\ BlocksOf(<<s, t>>) = Blocks(s) \cup Blocks(t)
         /\ Apart(<<s, t>>) <=> Blocks(s) \cap Blocks(t) = {}
<1>1. <<s, t>> \in Seq(Tree) /\ DOMAIN <<s, t>> = {1, 2} /\ <<s, t>>[1] = s /\ <<s, t>>[2] = t
  OBVIOUS
<1> DEFINE u == <<s, t>>
<1> HIDE DEF u
<1>2. u \in Seq(Tree) /\ DOMAIN u = {1, 2} /\ u[1] = s /\ u[2] = t
  BY <1>1 DEF u
<1>3. BlocksOf(u) = Blocks(s) \cup Blocks(t)
  BY <1>2 DEF BlocksOf
<1>4. Apart(u) <=> Blocks(s) \cap Blocks(t) = {}
  BY <1>2 DEF Apart
<1> QED
  BY <1>2, <1>3, <1>4 DEF u

LEMMA NoTrees ==
  <<>> \in Seq(Tree) /\ BlocksOf(<<>>) = {} /\ Apart(<<>>)
<1>1. <<>> \in Seq(Tree) /\ DOMAIN <<>> = {}
  OBVIOUS
<1> QED
  BY <1>1 DEF BlocksOf, Apart

\* The trees among the values of a rule's symbols.
LEMMA PartsAre ==
  ASSUME NEW S \in SUBSET Tree, NEW args \in Seq(S)
  PROVE  /\ Parts(args) \in Seq(S)
         /\ BlocksOf(Parts(args)) = BlocksOf(args)
         /\ Apart(args) => Apart(Parts(args))
         /\ \A k \in DOMAIN Parts(args) :
              Parts(args)[k] # Nothing /\ \E i \in DOMAIN args : Parts(args)[k] = args[i]
<1> DEFINE I == {i \in DOMAIN args : args[i] # Nothing}
           p == Parts(args)
<1>0. p = Pick(args, I)
  BY DEF Parts
<1>1. /\ Cardinality(I) \in Nat
      /\ p \in Seq(S) /\ Len(p) = Cardinality(I)
      /\ \A i \in I : Rank(I, i) \in 1..Cardinality(I) /\ p[Rank(I, i)] = args[i]
      /\ \A k \in 1..Cardinality(I) : \E i \in I : Rank(I, i) = k /\ p[k] = args[i]
  <2>1. I \in SUBSET DOMAIN args
    OBVIOUS
  <2> HIDE DEF I, p
  <2> QED
    BY <1>0, <2>1, Picked
<1> HIDE DEF I, p
<1>2. DOMAIN p = 1..Cardinality(I)
  BY <1>1
<1> DEFINE from == [k \in DOMAIN p |-> CHOOSE i \in I : Rank(I, i) = k /\ p[k] = args[i]]
<1>3. \A k \in DOMAIN p : from[k] \in I /\ Rank(I, from[k]) = k /\ p[k] = args[from[k]]
  BY <1>1, <1>2
<1>4. from \in [DOMAIN p -> DOMAIN args]
  BY <1>3 DEF I
<1>5. p \in Seq(Tree) /\ args \in Seq(Tree)
  BY <1>1
<1>6. BlocksOf(p) \subseteq BlocksOf(args)
  BY <1>3, <1>4 DEF BlocksOf
<1>7. BlocksOf(args) \subseteq BlocksOf(p)
  <2> SUFFICES ASSUME NEW i \in DOMAIN args PROVE Blocks(args[i]) \subseteq BlocksOf(p)
    BY DEF BlocksOf
  <2>1. CASE args[i] = Nothing
    BY <2>1, NothingIs
  <2>2. CASE args[i] # Nothing
    <3>1. i \in I
      BY <2>2 DEF I
    <3> QED
      BY <1>1, <1>2, <3>1 DEF BlocksOf
  <2> QED
    BY <2>1, <2>2
<1>8. ASSUME Apart(args) PROVE Apart(p)
  <2>1. \A i, j \in DOMAIN p : from[i] = from[j] => i = j
    BY <1>3
  <2>2. \A i \in DOMAIN p : Blocks(p[i]) \subseteq Blocks(args[from[i]])
    BY <1>3
  <2> HIDE DEF from
  <2> QED
    BY <1>4, <1>5, <1>8, <2>1, <2>2, Rearranged
<1>9. \A k \in DOMAIN p : p[k] # Nothing /\ \E i \in DOMAIN args : p[k] = args[i]
  BY <1>3 DEF I
<1> QED
  BY <1>1, <1>6, <1>7, <1>8, <1>9 DEF p

LEMMA PickedOnce ==
  ASSUME NEW S, NEW s \in Seq(S), NEW I \in SUBSET DOMAIN s
  PROVE  /\ Pick(s, I) \in Seq(S) /\ Len(Pick(s, I)) = Cardinality(I)
         /\ \A i \in I : Rank(I, i) \in 1..Cardinality(I) /\ Pick(s, I)[Rank(I, i)] = s[i]
BY Picked

LEMMA PickOne ==
  ASSUME NEW S, NEW s \in Seq(S), NEW p \in DOMAIN s
  PROVE  Pick(s, {p}) = <<s[p]>>
<1> DEFINE I == {p}
<1>1. I \in SUBSET DOMAIN s /\ p \in I /\ Cardinality(I) = 1
  BY FS_Singleton
<1> HIDE DEF I
<1>2. /\ Pick(s, I) \in Seq(S) /\ Len(Pick(s, I)) = Cardinality(I)
      /\ \A i \in I : Rank(I, i) \in 1..Cardinality(I) /\ Pick(s, I)[Rank(I, i)] = s[i]
  BY <1>1, PickedOnce, Zenon
<1>3. Pick(s, I) \in Seq(S) /\ Len(Pick(s, I)) = 1 /\ Pick(s, I)[1] = s[p]
  BY <1>1, <1>2
<1>4. Pick(s, I) = <<s[p]>>
  BY <1>3
<1> QED
  BY <1>4 DEF I

LEMMA PickTwo ==
  ASSUME NEW S, NEW s \in Seq(S), NEW p \in DOMAIN s, NEW q \in DOMAIN s, p < q
  PROVE  Pick(s, {p, q}) = <<s[p], s[q]>>
<1> DEFINE I == {p, q}
<1>0. p \in Nat /\ q \in Nat /\ p # q
  OBVIOUS
<1>2. Cardinality(I) = 2
  <2> DEFINE A == {p}
  <2>1. Cardinality(A) = 1 /\ IsFiniteSet(A) /\ q \notin A /\ I = A \cup {q}
    BY <1>0, FS_Singleton
  <2> HIDE DEF A, I
  <2>2. Cardinality(A \cup {q}) = Cardinality(A) + 1
    BY <2>1, FS_AddElement
  <2> QED
    BY <2>1, <2>2
<1>3. Rank(I, p) = 1
  <2>1. {j \in I : j <= p} = {p}
    BY <1>0
  <2>2. Cardinality({p}) = 1
    BY FS_Singleton
  <2> HIDE DEF I
  <2> QED
    BY <2>1, <2>2 DEF Rank
<1>4. Rank(I, q) = 2
  <2>1. {j \in I : j <= q} = I
    BY <1>0
  <2> HIDE DEF I
  <2> QED
    BY <1>2, <2>1 DEF Rank
<1>5. I \in SUBSET DOMAIN s /\ p \in I /\ q \in I
  OBVIOUS
<1> HIDE DEF I
<1>7. /\ Pick(s, I) \in Seq(S) /\ Len(Pick(s, I)) = Cardinality(I)
      /\ \A i \in I : Rank(I, i) \in 1..Cardinality(I) /\ Pick(s, I)[Rank(I, i)] = s[i]
  BY <1>5, PickedOnce, Zenon
<1>8. Pick(s, I) \in Seq(S) /\ Len(Pick(s, I)) = 2 /\ Pick(s, I)[1] = s[p] /\ Pick(s, I)[2] = s[q]
  BY <1>2, <1>3, <1>4, <1>5, <1>7
<1>9. Pick(s, I) = <<s[p], s[q]>>
  BY <1>8
<1> QED
  BY <1>9 DEF I

LEMMA PartsOne ==
  ASSUME NEW S, NEW args \in Seq(S), NEW p \in DOMAIN args, args[p] # Nothing,
         \A i \in DOMAIN args : i # p => args[i] = Nothing
  PROVE  Parts(args) = <<args[p]>>
<1>1. {i \in DOMAIN args : args[i] # Nothing} = {p}
  OBVIOUS
<1>2. Pick(args, {p}) = <<args[p]>>
  BY PickOne, Zenon
<1> QED
  BY <1>1, <1>2 DEF Parts

LEMMA PartsTwo ==
  ASSUME NEW S, NEW args \in Seq(S), NEW p \in DOMAIN args, NEW q \in DOMAIN args, p < q,
         args[p] # Nothing, args[q] # Nothing,
         \A i \in DOMAIN args : i # p /\ i # q => args[i] = Nothing
  PROVE  Parts(args) = <<args[p], args[q]>>
<1>1. {i \in DOMAIN args : args[i] # Nothing} = {p, q}
  OBVIOUS
<1>2. Pick(args, {p, q}) = <<args[p], args[q]>>
  BY PickTwo, Zenon
<1> QED
  BY <1>1, <1>2 DEF Parts

-----------------------------------------------------------------------------
(***************************************************************************)
(* The walks over calls and over the left side of fix.                     *)
(***************************************************************************)

\* The arguments of a call node alone.
FirstArguments(t) == IF t.kids[2].kids = <<>> THEN <<t.kids[2]>> ELSE t.kids[2].kids

LEMMA KidsOfCalls ==
  ASSUME NEW t \in Tree
  PROVE  /\ IsCall(t) => /\ 1 \in DOMAIN t.kids /\ 2 \in DOMAIN t.kids /\ DOMAIN t.kids = {1, 2}
                         /\ t.kids[1] \in Tree /\ t.kids[2] \in Tree
                         /\ FirstArguments(t) \in Seq(Tree)
         /\ IsGroup(t) => 1 \in DOMAIN t.kids /\ t.kids[1] \in Tree
         /\ Len(t.kids) = 2 => DOMAIN t.kids = {1, 2} /\ t.kids[1] \in Tree /\ t.kids[2] \in Tree
<1>1. t.kids \in Seq(Tree) /\ Len(t.kids) \in Nat /\ DOMAIN t.kids = 1..Len(t.kids)
      /\ \A i \in DOMAIN t.kids : t.kids[i] \in Tree
  BY TreeFields
<1>2. Len(t.kids) = 2 => DOMAIN t.kids = {1, 2} /\ t.kids[1] \in Tree /\ t.kids[2] \in Tree
  BY <1>1
<1>3. IsGroup(t) => 1 \in DOMAIN t.kids /\ t.kids[1] \in Tree
  BY <1>1 DEF IsGroup
<1>4. IsCall(t) => FirstArguments(t) \in Seq(Tree)
  <2> SUFFICES ASSUME IsCall(t) PROVE FirstArguments(t) \in Seq(Tree)
    OBVIOUS
  <2>1. t.kids[2] \in Tree
    BY <1>2 DEF IsCall
  <2>2. t.kids[2].kids \in Seq(Tree) /\ <<t.kids[2]>> \in Seq(Tree)
    BY <2>1, TreeFields, OneTree
  <2> QED
    BY <2>2 DEF FirstArguments
<1> QED
  BY <1>2, <1>3, <1>4 DEF IsCall

LEMMA RootIs ==
  /\ Root \in [Tree -> Tree]
  /\ \A t \in Tree : Root[t] = IF IsCall(t) THEN Root[t.kids[1]] ELSE t
<1> DEFINE G == [t \in Tree |-> [v \in [DOMAIN t.kids -> Tree] |-> IF IsCall(t) THEN v[1] ELSE t]]
           Solves(f) == f = [t \in Tree |-> IF IsCall(t) THEN f[t.kids[1]] ELSE t]
<1>0. \A t \in Tree : IsCall(t) => 1 \in DOMAIN t.kids
  BY KidsOfCalls
<1>1. \A t \in Tree : \A v \in [DOMAIN t.kids -> Tree] : G[t][v] \in Tree
  BY <1>0
<1>2. PICK g \in [Tree -> Tree] : Follows(g, G, Tree)
  <2> HIDE DEF G
  <2> QED
    BY <1>1, TreeRecursion
<1>3. \A t \in Tree : g[t] = IF IsCall(t) THEN g[t.kids[1]] ELSE t
  <2> TAKE t \in Tree
  <2>1. \A i \in DOMAIN t.kids : t.kids[i] \in Tree
    BY TreeFields
  <2>2. OfKids(t, g) \in [DOMAIN t.kids -> Tree] /\ \A i \in DOMAIN t.kids : OfKids(t, g)[i] = g[t.kids[i]]
    BY <2>1 DEF OfKids
  <2> DEFINE v == OfKids(t, g)
  <2>3. g[t] = IF IsCall(t) THEN v[1] ELSE t
    BY <1>2, <2>2 DEF Follows
  <2> HIDE DEF v
  <2>4. v = OfKids(t, g)
    BY DEF v
  <2> QED
    BY <1>0, <2>2, <2>3, <2>4
<1>4. Solves(g)
  BY <1>3
<1>5. Root = CHOOSE f : Solves(f)
  BY DEF Root, FirstArguments
<1>6. Solves(Root)
  <2> HIDE DEF Solves
  <2> QED
    BY <1>4, <1>5
<1>7. \A t \in Tree : Root[t] = IF IsCall(t) THEN Root[t.kids[1]] ELSE t
  BY <1>6
<1> DEFINE P == {t \in Tree : Root[t] \in Tree}
<1>8. ASSUME NEW t \in Tree, \A i \in DOMAIN t.kids : t.kids[i] \in P PROVE t \in P
  <2> HIDE DEF G, Solves
  <2>1. \A i \in DOMAIN t.kids : Root[t.kids[i]] \in Tree
    BY <1>8
  <2> QED
    BY <1>0, <1>7, <2>1
<1>9. \A t \in Tree : t \in P
  <2> HIDE DEF P
  <2> QED
    BY <1>8, TreeInduction
<1>10. \A t \in Tree : Root[t] \in Tree
  BY <1>9
<1>11. Root = [t \in Tree |-> Root[t]]
  BY <1>6
<1> QED
  BY <1>7, <1>10, <1>11

LEMMA ArgumentsAre ==
  /\ Arguments \in [Tree -> Seq(Tree)]
  /\ \A t \in Tree : Arguments[t] = IF ~IsCall(t) THEN <<>> ELSE Arguments[t.kids[1]] \o FirstArguments(t)
<1> DEFINE G == [t \in Tree |-> [v \in [DOMAIN t.kids -> Seq(Tree)] |-> IF ~IsCall(t) THEN <<>> ELSE v[1] \o FirstArguments(t)]]
           Solves(f) == f = [t \in Tree |-> IF ~IsCall(t) THEN <<>> ELSE f[t.kids[1]] \o FirstArguments(t)]
<1>0. \A t \in Tree : IsCall(t) => 1 \in DOMAIN t.kids /\ FirstArguments(t) \in Seq(Tree)
  BY KidsOfCalls
<1>1. \A t \in Tree : \A v \in [DOMAIN t.kids -> Seq(Tree)] : G[t][v] \in Seq(Tree)
  BY <1>0
<1>2. PICK g \in [Tree -> Seq(Tree)] : Follows(g, G, Tree)
  <2> HIDE DEF G
  <2> QED
    BY <1>1, TreeRecursion
<1>3. \A t \in Tree : g[t] = IF ~IsCall(t) THEN <<>> ELSE g[t.kids[1]] \o FirstArguments(t)
  <2> TAKE t \in Tree
  <2>1. \A i \in DOMAIN t.kids : t.kids[i] \in Tree
    BY TreeFields
  <2>2. OfKids(t, g) \in [DOMAIN t.kids -> Seq(Tree)] /\ \A i \in DOMAIN t.kids : OfKids(t, g)[i] = g[t.kids[i]]
    BY <2>1 DEF OfKids
  <2> DEFINE v == OfKids(t, g)
  <2>3. g[t] = IF ~IsCall(t) THEN <<>> ELSE v[1] \o FirstArguments(t)
    BY <1>2, <2>2 DEF Follows
  <2> HIDE DEF v
  <2>4. v = OfKids(t, g)
    BY DEF v
  <2> QED
    BY <1>0, <2>2, <2>3, <2>4
<1>4. Solves(g)
  BY <1>3
<1>5. Arguments = CHOOSE f : Solves(f)
  BY DEF Arguments, FirstArguments
<1>6. Solves(Arguments)
  <2> HIDE DEF Solves
  <2> QED
    BY <1>4, <1>5
<1>7. \A t \in Tree : Arguments[t] = IF ~IsCall(t) THEN <<>> ELSE Arguments[t.kids[1]] \o FirstArguments(t)
  BY <1>6
<1> DEFINE P == {t \in Tree : Arguments[t] \in Seq(Tree)}
<1>8. ASSUME NEW t \in Tree, \A i \in DOMAIN t.kids : t.kids[i] \in P PROVE t \in P
  <2> HIDE DEF G, Solves
  <2>1. \A i \in DOMAIN t.kids : Arguments[t.kids[i]] \in Seq(Tree)
    BY <1>8
  <2>2. <<>> \in Seq(Tree) /\ \A a, b \in Seq(Tree) : a \o b \in Seq(Tree)
    OBVIOUS
  <2>3. Arguments[t] \in Seq(Tree)
    <3>1. CASE ~IsCall(t)
      <4>1. Arguments[t] = <<>>
        BY <1>7, <3>1
      <4> QED
        BY <2>2, <4>1, Zenon
    <3>2. CASE IsCall(t)
      <4>1. Arguments[t] = Arguments[t.kids[1]] \o FirstArguments(t)
        BY <1>7, <3>2
      <4>2. Arguments[t.kids[1]] \in Seq(Tree) /\ FirstArguments(t) \in Seq(Tree)
        BY <1>0, <2>1, <3>2
      <4> QED
        BY <2>2, <4>1, <4>2, Zenon
    <3> QED
      BY <3>1, <3>2
  <2> QED
    BY <2>3
<1>9. \A t \in Tree : t \in P
  <2> HIDE DEF P
  <2> QED
    BY <1>8, TreeInduction
<1>10. \A t \in Tree : Arguments[t] \in Seq(Tree)
  BY <1>9
<1>11. Arguments = [t \in Tree |-> Arguments[t]]
  BY <1>6
<1> QED
  BY <1>7, <1>10, <1>11

\* What FixNames does at a cons cell or a group.
IsCons(t) == t.kind = "cons" /\ Len(t.kids) = 2

LEMMA FixNamesAre ==
  /\ FixNames \in [Tree -> Seq(Tree)]
  /\ \A t \in Tree :
       /\ IsGroup(t) => FixNames[t] = FixNames[t.kids[1]]
       /\ IsCons(t) => \/ FixNames[t] = FixNames[t.kids[1]]
                       \/ FixNames[t] = FixNames[t.kids[1]] \o FixNames[t.kids[2]]
       /\ ~IsGroup(t) /\ ~IsCons(t) => FixNames[t] = <<t>>
<1> DEFINE End(t) == Ungroup[t.kids[2]].kind = "nil"
           Step(t, a, b) == CASE IsGroup(t) -> a
                              [] IsCons(t) -> a \o IF End(t) THEN <<>> ELSE b
                              [] OTHER -> <<t>>
           G == [t \in Tree |-> [v \in [DOMAIN t.kids -> Seq(Tree)] |-> Step(t, v[1], v[2])]]
           Solves(f) == f = [t \in Tree |-> Step(t, f[t.kids[1]], f[t.kids[2]])]
<1>a. \A t \in Tree : \A a, b :
        /\ IsGroup(t) => ~IsCons(t) /\ Step(t, a, b) = a
        /\ IsCons(t) => Step(t, a, b) = IF End(t) THEN a \o <<>> ELSE a \o b
        /\ ~IsGroup(t) /\ ~IsCons(t) => Step(t, a, b) = <<t>>
  BY DEF IsGroup, IsCons
<1> HIDE DEF Step, End
<1>0. \A t \in Tree : /\ IsGroup(t) => 1 \in DOMAIN t.kids /\ t.kids[1] \in Tree
                      /\ IsCons(t) => /\ 1 \in DOMAIN t.kids /\ 2 \in DOMAIN t.kids
                                      /\ t.kids[1] \in Tree /\ t.kids[2] \in Tree
                      /\ <<t>> \in Seq(Tree)
  BY KidsOfCalls, OneTree DEF IsCons
<1>c. \A a, b \in Seq(Tree) : a \o b \in Seq(Tree) /\ a \o <<>> = a
  OBVIOUS
<1>d. \A t \in Tree : \A a, b :
        /\ IsGroup(t) /\ a \in Seq(Tree) => Step(t, a, b) \in Seq(Tree)
        /\ IsCons(t) /\ a \in Seq(Tree) /\ b \in Seq(Tree) => Step(t, a, b) \in Seq(Tree)
        /\ ~IsGroup(t) /\ ~IsCons(t) => Step(t, a, b) \in Seq(Tree)
  <2> TAKE t \in Tree
  <2> TAKE a, b
  <2>1. ASSUME IsGroup(t), a \in Seq(Tree) PROVE Step(t, a, b) \in Seq(Tree)
    BY <1>a, <2>1, Zenon
  <2>2. ASSUME IsCons(t), a \in Seq(Tree), b \in Seq(Tree) PROVE Step(t, a, b) \in Seq(Tree)
    <3>1. Step(t, a, b) = a \o <<>> \/ Step(t, a, b) = a \o b
      BY <1>a, <2>2
    <3> QED
      BY <1>c, <2>2, <3>1
  <2>3. ASSUME ~IsGroup(t), ~IsCons(t) PROVE Step(t, a, b) \in Seq(Tree)
    <3>1. Step(t, a, b) = <<t>>
      BY <1>a, <2>3
    <3>2. <<t>> \in Seq(Tree)
      BY <1>0
    <3> QED
      BY <3>1, <3>2, Zenon
  <2> QED
    BY <2>1, <2>2, <2>3
<1>1. \A t \in Tree : \A v \in [DOMAIN t.kids -> Seq(Tree)] : G[t][v] \in Seq(Tree)
  <2> TAKE t \in Tree
  <2> TAKE v \in [DOMAIN t.kids -> Seq(Tree)]
  <2>1. G[t][v] = Step(t, v[1], v[2])
    OBVIOUS
  <2> HIDE DEF G
  <2>2. /\ IsGroup(t) => v[1] \in Seq(Tree)
        /\ IsCons(t) => v[1] \in Seq(Tree) /\ v[2] \in Seq(Tree)
    BY <1>0
  <2> QED
    BY <1>d, <2>1, <2>2
<1>2. PICK g \in [Tree -> Seq(Tree)] : Follows(g, G, Tree)
  <2> HIDE DEF G
  <2> QED
    BY <1>1, TreeRecursion
<1>e. \A t \in Tree : \A a, b, c, d :
        (IsGroup(t) => a = c) /\ (IsCons(t) => a = c /\ b = d) => Step(t, a, b) = Step(t, c, d)
  BY <1>a
<1>3. \A t \in Tree : g[t] = Step(t, g[t.kids[1]], g[t.kids[2]])
  <2> TAKE t \in Tree
  <2>1. \A i \in DOMAIN t.kids : t.kids[i] \in Tree
    BY TreeFields
  <2>2. OfKids(t, g) \in [DOMAIN t.kids -> Seq(Tree)] /\ \A i \in DOMAIN t.kids : OfKids(t, g)[i] = g[t.kids[i]]
    BY <2>1 DEF OfKids
  <2> DEFINE v == OfKids(t, g)
  <2>3. g[t] = Step(t, v[1], v[2])
    BY <1>2, <2>2 DEF Follows
  <2> HIDE DEF v
  <2>4. v = OfKids(t, g)
    BY DEF v
  <2>5. /\ IsGroup(t) => v[1] = g[t.kids[1]]
        /\ IsCons(t) => v[1] = g[t.kids[1]] /\ v[2] = g[t.kids[2]]
    BY <1>0, <2>2, <2>4
  <2> HIDE DEF G
  <2> QED
    BY <1>e, <2>3, <2>5
<1>4. Solves(g)
  BY <1>3
<1>5. FixNames = CHOOSE f : Solves(f)
  BY DEF FixNames, Step, End, IsCons
<1>6. Solves(FixNames)
  <2> HIDE DEF Solves
  <2> QED
    BY <1>4, <1>5
<1>7. \A t \in Tree : FixNames[t] = Step(t, FixNames[t.kids[1]], FixNames[t.kids[2]])
  BY <1>6
<1> DEFINE P == {t \in Tree : FixNames[t] \in Seq(Tree)}
<1>8. ASSUME NEW t \in Tree, \A i \in DOMAIN t.kids : t.kids[i] \in P PROVE t \in P
  <2> HIDE DEF G, Solves
  <2>1. \A i \in DOMAIN t.kids : FixNames[t.kids[i]] \in Seq(Tree)
    BY <1>8
  <2>2. FixNames[t] \in Seq(Tree)
    BY <1>0, <1>7, <1>d, <2>1
  <2> QED
    BY <2>2
<1>9. \A t \in Tree : t \in P
  <2> HIDE DEF P
  <2> QED
    BY <1>8, TreeInduction
<1>10. \A t \in Tree : FixNames[t] \in Seq(Tree)
  BY <1>9
<1>11. FixNames = [t \in Tree |-> FixNames[t]]
  BY <1>6
<1>12. ASSUME NEW t \in Tree
       PROVE  /\ IsGroup(t) => FixNames[t] = FixNames[t.kids[1]]
              /\ IsCons(t) => \/ FixNames[t] = FixNames[t.kids[1]]
                              \/ FixNames[t] = FixNames[t.kids[1]] \o FixNames[t.kids[2]]
              /\ ~IsGroup(t) /\ ~IsCons(t) => FixNames[t] = <<t>>
  <2> HIDE DEF G, Solves, P
  <2>1. FixNames[t] = Step(t, FixNames[t.kids[1]], FixNames[t.kids[2]])
    BY <1>7
  <2>2. IsCons(t) => FixNames[t.kids[1]] \o <<>> = FixNames[t.kids[1]]
    BY <1>0, <1>10, <1>c
  <2> QED
    BY <1>a, <2>1, <2>2
<1> QED
  BY <1>10, <1>11, <1>12

-----------------------------------------------------------------------------
(***************************************************************************)
(* The names are in different parts of the tree.                           *)
(***************************************************************************)
LEMMA ProperKids ==
  ASSUME NEW t \in Proper
  PROVE  /\ t \in Tree /\ t.kids \in Seq(Proper) /\ t.kids \in Seq(Tree) /\ Apart(t.kids)
         /\ t.at \notin BlocksOf(t.kids)
         /\ Blocks(t) = ({t.at} \ {0}) \cup BlocksOf(t.kids)
         /\ \A i \in DOMAIN t.kids : t.kids[i] \in Proper /\ Blocks(t.kids[i]) \subseteq Blocks(t)
<1>1. t \in Tree
  BY DEF Proper
<1>2. /\ t.kids \in Seq(Tree) /\ Len(t.kids) \in Nat /\ DOMAIN t.kids = 1..Len(t.kids)
  BY <1>1, TreeFields
<1>3. /\ Apart(t.kids) /\ \A i \in DOMAIN t.kids : t.at \notin Blocks(t.kids[i])
      /\ \A i \in DOMAIN t.kids : t.kids[i] \in Proper
  BY <1>1, ProperTree
<1>4. t.kids \in Seq(Proper)
  BY <1>2, <1>3
<1>5. Blocks(t) = ({t.at} \ {0}) \cup BlocksOf(t.kids)
  BY <1>1, BlocksAre
<1>6. \A i \in DOMAIN t.kids : Blocks(t.kids[i]) \subseteq Blocks(t)
  BY <1>5 DEF BlocksOf
<1>7. t.at \notin BlocksOf(t.kids)
  BY <1>3 DEF BlocksOf
<1> QED
  BY <1>1, <1>2, <1>3, <1>4, <1>5, <1>6, <1>7

\* The trees with two kids.
LEMMA TwoProperKids ==
  ASSUME NEW t \in Proper, Len(t.kids) = 2
  PROVE  /\ t.kids = <<t.kids[1], t.kids[2]>> /\ t.kids[1] \in Proper /\ t.kids[2] \in Proper
         /\ t.kids[1] \in Tree /\ t.kids[2] \in Tree
         /\ Blocks(t) = ({t.at} \ {0}) \cup Blocks(t.kids[1]) \cup Blocks(t.kids[2])
         /\ Blocks(t.kids[1]) \cap Blocks(t.kids[2]) = {}
         /\ t.at \notin Blocks(t.kids[1]) /\ t.at \notin Blocks(t.kids[2])
<1>1. /\ t \in Tree /\ t.kids \in Seq(Tree) /\ Apart(t.kids)
      /\ t.at \notin BlocksOf(t.kids)
      /\ Blocks(t) = ({t.at} \ {0}) \cup BlocksOf(t.kids)
      /\ \A i \in DOMAIN t.kids : t.kids[i] \in Proper
  BY ProperKids
<1>2. t.kids = <<t.kids[1], t.kids[2]>> /\ 1 \in DOMAIN t.kids /\ 2 \in DOMAIN t.kids
  BY <1>1
<1> DEFINE a == t.kids[1]
           b == t.kids[2]
<1>3. a \in Proper /\ b \in Proper /\ a \in Tree /\ b \in Tree
  BY <1>1, <1>2 DEF Proper
<1>4. t.kids = <<a, b>>
  BY <1>2
<1> HIDE DEF a, b
<1>5. BlocksOf(<<a, b>>) = Blocks(a) \cup Blocks(b) /\ (Apart(<<a, b>>) <=> Blocks(a) \cap Blocks(b) = {})
  BY <1>3, TwoTrees
<1>6. /\ Blocks(t) = ({t.at} \ {0}) \cup Blocks(a) \cup Blocks(b)
      /\ Blocks(a) \cap Blocks(b) = {}
      /\ t.at \notin Blocks(a) /\ t.at \notin Blocks(b)
  BY <1>1, <1>4, <1>5
<1> QED
  BY <1>3, <1>4, <1>6 DEF a, b

LEMMA FirstArgumentsAre ==
  ASSUME NEW t \in Proper, IsCall(t)
  PROVE  /\ FirstArguments(t) \in Seq(Proper) /\ Apart(FirstArguments(t))
         /\ BlocksOf(FirstArguments(t)) \subseteq Blocks(t.kids[2])
<1>1. t.kids[2] \in Proper /\ t.kids[2] \in Tree
  BY TwoProperKids DEF IsCall
<1>2. CASE t.kids[2].kids = <<>>
  <2>1. FirstArguments(t) = <<t.kids[2]>>
    BY <1>2 DEF FirstArguments
  <2> QED
    BY <1>1, <2>1, OneTree
<1>3. CASE t.kids[2].kids # <<>>
  <2>1. FirstArguments(t) = t.kids[2].kids
    BY <1>3 DEF FirstArguments
  <2> QED
    BY <1>1, <2>1, ProperKids
<1> QED
  BY <1>2, <1>3

LEMMA ArgumentsApart ==
  \A t \in Proper :
    /\ Arguments[t] \in Seq(Proper) /\ Apart(Arguments[t]) /\ BlocksOf(Arguments[t]) \subseteq Blocks(t)
    /\ Root[t] \in Proper /\ Blocks(Root[t]) \subseteq Blocks(t)
    /\ BlocksOf(Arguments[t]) \cap Blocks(Root[t]) = {}
<1> DEFINE Good(t) ==
             /\ Arguments[t] \in Seq(Proper) /\ Apart(Arguments[t]) /\ BlocksOf(Arguments[t]) \subseteq Blocks(t)
             /\ Root[t] \in Proper /\ Blocks(Root[t]) \subseteq Blocks(t)
             /\ BlocksOf(Arguments[t]) \cap Blocks(Root[t]) = {}
           P == {t \in Tree : t \in Proper => Good(t)}
<1>1. ASSUME NEW t \in Tree, \A i \in DOMAIN t.kids : t.kids[i] \in P PROVE t \in P
  <2> SUFFICES ASSUME t \in Proper PROVE Good(t)
    OBVIOUS
  <2>1. CASE ~IsCall(t)
    <3>1. Arguments[t] = <<>> /\ Root[t] = t
      BY <2>1, ArgumentsAre, RootIs
    <3>2. <<>> \in Seq(Proper)
      OBVIOUS
    <3> QED
      BY <3>1, <3>2, NoTrees
  <2>2. CASE IsCall(t)
    <3> DEFINE a == t.kids[1]
               b == t.kids[2]
    <3>1. /\ a \in Proper /\ b \in Proper /\ a \in Tree /\ b \in Tree
          /\ Blocks(a) \subseteq Blocks(t) /\ Blocks(b) \subseteq Blocks(t) /\ Blocks(a) \cap Blocks(b) = {}
      BY <2>2, TwoProperKids DEF IsCall
    <3>2. 1 \in DOMAIN t.kids
      BY <2>2, KidsOfCalls
    <3>3. Good(a)
      BY <1>1, <3>1, <3>2
    <3>4. Arguments[t] = Arguments[a] \o FirstArguments(t) /\ Root[t] = Root[a]
      BY <2>2, ArgumentsAre, RootIs
    <3>5. /\ FirstArguments(t) \in Seq(Proper) /\ Apart(FirstArguments(t))
          /\ BlocksOf(FirstArguments(t)) \subseteq Blocks(b)
      BY <2>2, FirstArgumentsAre
    <3> DEFINE p == Arguments[a]
               q == FirstArguments(t)
    <3>6. p \in Seq(Proper) /\ q \in Seq(Proper) /\ p \in Seq(Tree) /\ q \in Seq(Tree)
      BY <3>3, <3>5 DEF Proper
    <3>7. /\ BlocksOf(p \o q) = BlocksOf(p) \cup BlocksOf(q)
          /\ Apart(p \o q) <=> Apart(p) /\ Apart(q) /\ BlocksOf(p) \cap BlocksOf(q) = {}
      BY <3>6, Joined
    <3>8. p \o q \in Seq(Proper)
      BY <3>6
    <3>9. /\ Apart(p) /\ BlocksOf(p) \subseteq Blocks(a)
          /\ Root[a] \in Proper /\ Blocks(Root[a]) \subseteq Blocks(a)
          /\ BlocksOf(p) \cap Blocks(Root[a]) = {}
      BY <3>3
    <3>10. Arguments[t] = p \o q /\ Apart(q) /\ BlocksOf(q) \subseteq Blocks(b)
      BY <3>4, <3>5
    <3>11. Arguments[t] \in Seq(Proper) /\ Apart(Arguments[t]) /\ BlocksOf(Arguments[t]) \subseteq Blocks(t)
      <4> HIDE DEF p, q, a, b
      <4> QED
        BY <3>1, <3>7, <3>8, <3>9, <3>10
    <3>12. /\ Root[t] \in Proper /\ Blocks(Root[t]) \subseteq Blocks(t)
           /\ BlocksOf(Arguments[t]) \cap Blocks(Root[t]) = {}
      <4>1. Root[t] = Root[a]
        BY <3>4
      <4> HIDE DEF p, q, a, b
      <4> QED
        BY <3>1, <3>7, <3>9, <3>10, <4>1
    <3> QED
      BY <3>11, <3>12
  <2> QED
    BY <2>1, <2>2
<1>2. \A t \in Tree : t \in P
  <2> HIDE DEF P
  <2> QED
    BY <1>1, TreeInduction
<1>3. \A t \in Proper : t \in Tree
  BY DEF Proper
<1> QED
  BY <1>2, <1>3

LEMMA FixNamesApart ==
  \A t \in Proper :
    FixNames[t] \in Seq(Proper) /\ Apart(FixNames[t]) /\ BlocksOf(FixNames[t]) \subseteq Blocks(t)
<1> DEFINE Good(t) ==
             FixNames[t] \in Seq(Proper) /\ Apart(FixNames[t]) /\ BlocksOf(FixNames[t]) \subseteq Blocks(t)
           P == {t \in Tree : t \in Proper => Good(t)}
<1>1. ASSUME NEW t \in Tree, \A i \in DOMAIN t.kids : t.kids[i] \in P PROVE t \in P
  <2> SUFFICES ASSUME t \in Proper PROVE Good(t)
    OBVIOUS
  <2>0. \A i \in DOMAIN t.kids : t.kids[i] \in Proper /\ Blocks(t.kids[i]) \subseteq Blocks(t) /\ Good(t.kids[i])
    BY <1>1, ProperKids
  <2>1. CASE ~IsGroup(t) /\ ~IsCons(t)
    <3>1. FixNames[t] = <<t>>
      BY <2>1, FixNamesAre
    <3>2. <<t>> \in Seq(Proper)
      OBVIOUS
    <3> QED
      BY <3>1, <3>2, OneTree
  <2>2. CASE IsGroup(t)
    <3>1. FixNames[t] = FixNames[t.kids[1]] /\ 1 \in DOMAIN t.kids
      BY <2>2, FixNamesAre, KidsOfCalls
    <3> QED
      BY <2>0, <3>1
  <2>3. CASE IsCons(t)
    <3> DEFINE a == t.kids[1]
               b == t.kids[2]
               p == FixNames[a]
               q == FixNames[b]
    <3>1. Blocks(a) \cap Blocks(b) = {}
      BY <2>3, TwoProperKids DEF IsCons
    <3>2. 1 \in DOMAIN t.kids /\ 2 \in DOMAIN t.kids
      BY <2>3, KidsOfCalls DEF IsCons
    <3>3. /\ p \in Seq(Proper) /\ Apart(p) /\ BlocksOf(p) \subseteq Blocks(a) /\ Blocks(a) \subseteq Blocks(t)
          /\ q \in Seq(Proper) /\ Apart(q) /\ BlocksOf(q) \subseteq Blocks(b) /\ Blocks(b) \subseteq Blocks(t)
      BY <2>0, <3>2
    <3>4. FixNames[t] = p \/ FixNames[t] = p \o q
      BY <2>3, FixNamesAre
    <3> HIDE DEF a, b, p, q
    <3>5. p \in Seq(Tree) /\ q \in Seq(Tree) /\ p \o q \in Seq(Proper)
      BY <3>3 DEF Proper
    <3>6. /\ BlocksOf(p \o q) = BlocksOf(p) \cup BlocksOf(q)
          /\ Apart(p \o q) <=> Apart(p) /\ Apart(q) /\ BlocksOf(p) \cap BlocksOf(q) = {}
      BY <3>5, Joined
    <3> QED
      BY <3>1, <3>3, <3>4, <3>5, <3>6
  <2> QED
    BY <2>1, <2>2, <2>3
<1>2. \A t \in Tree : t \in P
  <2> HIDE DEF P
  <2> QED
    BY <1>1, TreeInduction
<1>3. \A t \in Proper : t \in Tree
  BY DEF Proper
<1> QED
  BY <1>2, <1>3

\* Texts that can be taken out.
LEMMA TextsApart ==
  ASSUME NEW trees \in Seq(Proper), Apart(trees), AreIdentifiers(trees)
  PROVE  /\ Texts(trees) \in Seq(Proper) /\ Apart(Texts(trees))
         /\ BlocksOf(Texts(trees)) \subseteq BlocksOf(trees)
         /\ DOMAIN Texts(trees) = DOMAIN trees
<1> DEFINE u == Texts(trees)
<1>1. \A i \in DOMAIN trees : /\ trees[i] \in Proper /\ trees[i] \in Tree /\ 1 \in DOMAIN trees[i].kids
  <2> TAKE i \in DOMAIN trees
  <2>1. trees[i] \in Proper /\ trees[i].kind = "identifier"
    BY DEF AreIdentifiers
  <2>2. trees[i] \in Tree /\ KidsOK(trees[i])
    BY <2>1, ProperTree DEF Proper
  <2>3. Len(trees[i].kids) = 1
    BY <2>1, <2>2 DEF KidsOK
  <2> QED
    <3>1. trees[i].kids \in Seq(Tree)
      BY <2>2, TreeFields
    <3>2. 1 \in DOMAIN trees[i].kids
      BY <2>3, <3>1
    <3> QED
      BY <2>1, <2>2, <3>2
<1>2. \A i \in DOMAIN trees : trees[i].kids[1] \in Proper /\ Blocks(trees[i].kids[1]) \subseteq Blocks(trees[i])
  BY <1>1, ProperKids
<1>3. u \in Seq(Proper) /\ DOMAIN u = DOMAIN trees /\ \A i \in DOMAIN u : u[i] = trees[i].kids[1]
  BY <1>2 DEF Texts
<1> HIDE DEF u
<1>4. u \in Seq(Tree) /\ trees \in Seq(Tree)
  BY <1>3 DEF Proper
<1> DEFINE f == [i \in DOMAIN u |-> i]
<1>5. /\ f \in [DOMAIN u -> DOMAIN trees]
      /\ \A i \in DOMAIN u : Blocks(u[i]) \subseteq Blocks(trees[f[i]])
      /\ \A i, j \in DOMAIN u : f[i] = f[j] => i = j
  BY <1>2, <1>3
<1> HIDE DEF f
<1>6. Apart(u) /\ BlocksOf(u) \subseteq BlocksOf(trees)
  BY <1>4, <1>5, Rearranged
<1> QED
  BY <1>3, <1>6 DEF u

-----------------------------------------------------------------------------
(***************************************************************************)
(* The rules, and the values of their symbols.                             *)
(***************************************************************************)
ListSymbols == {"superclass_list", "superclass_tuple", "argument_list", "tuple_list"}
ExprSymbols ==
  {"primary", "call", "unary", "cons", "logical_not", "where_expr", "logical_or", "conditional",
   "lambda", "with_expr", "assignment", "fix_expr", "expr", "application_argument"}
Expressions == Kinds \ {"nothing", "text", "list", "names"}

\* The kind of value that a symbol has on the stack.
ValueFits(symbol, v) ==
  /\ symbol \in {"id", "text"} => v.kind = "text"
  /\ symbol \in ListSymbols => v.kind = "list"
  /\ symbol = "lambda_head" => v.kind = "names"
  /\ symbol \in ExprSymbols => v.kind \in Expressions
  /\ symbol \in Tokens \ {"id", "text"} => v = Nothing

LEMMA FitsExpected ==
  ASSUME NEW s, NEW e, NEW v, Fits(s, e), ValueFits(s, v)
  PROVE  ValueFits(e, v)
<1>1. \A x : IsExpr(x) => x \in ExprSymbols /\ x \notin Tokens /\ x \notin ListSymbols /\ x # "lambda_head"
  BY DEF IsExpr, Level, ExprSymbols, Tokens, ListSymbols
<1>2. CASE s = e
  BY <1>2
<1>3. CASE IsExpr(s) /\ IsExpr(e)
  <2>1. v.kind \in Expressions
    BY <1>1, <1>3 DEF ValueFits
  <2>2. e \in ExprSymbols /\ e \notin Tokens /\ e \notin ListSymbols /\ e # "lambda_head"
    BY <1>1, <1>3
  <2>3. e \notin {"id", "text"}
    BY <2>2 DEF Tokens
  <2> QED
    BY <2>1, <2>2, <2>3 DEF ValueFits
<1> QED
  BY <1>2, <1>3 DEF Fits

\* The rules with an action of their own.
OwnKinds == {"pass", "input", "assignment", "fix", "names", "tuple", "list", "classes", "call", "new"}

LEMMA OperatorRules ==
  \A r \in Operators :
    /\ r.kind \notin OwnKinds /\ r.kind \in Expressions \ {"method", "identifier", "call", "attribute"}
    /\ r.lhs \in ExprSymbols
BY DEF Operators, Rule, OwnKinds, Expressions, Kinds, ExprSymbols

LEMMA BinderRules ==
  \A r \in Binders :
    /\ r.lhs \in ExprSymbols
    /\ r.kind = "assignment" => r.rhs = <<"call", ":=", "assignment">>
    /\ r.kind = "fix" => r.rhs = <<"assignment", "fix", "assignment">>
    /\ r.kind \notin {"assignment", "fix"} =>
         r.kind \notin OwnKinds /\ r.kind \in Expressions \ {"method", "identifier", "call", "attribute"}
BY DEF Binders, Rule, OwnKinds, Expressions, Kinds, ExprSymbols

LEMMA CallRules ==
  \A r \in Calls :
    /\ r.lhs \in ExprSymbols
    /\ r.kind \in {"new", "call", "attribute", "tuple"}
    /\ r.kind = "new" => r.rhs = <<"new", "id">>
    /\ r.kind = "call" => r.rhs \in {<<"call", "(", ")">>, <<"call", "(", "argument_list", ")">>,
                                     <<"call", "application_argument">>}
    /\ r.kind = "attribute" => r.rhs = <<"call", "attr", "id">>
    /\ r.kind = "tuple" => r.rhs = <<"(", "tuple_list", ")">>
BY DEF Calls, Rule, ExprSymbols

LEMMA ListRules ==
  \A r \in Lists :
    /\ r.kind \in {"classes", "pass", "list", "names"}
    /\ r.kind \in {"classes", "pass", "list"} => r.lhs \in ListSymbols
    /\ r.kind = "names" => r.lhs = "lambda_head"
    /\ r.kind = "pass" => r.rhs = <<"(", "superclass_tuple", ")">>
BY DEF Lists, Rule, ListSymbols

LEMMA ClassListRules ==
  \A r \in Lists : r.kind = "classes" =>
    r.rhs \in {<<"id">>, <<"id", "comma", "id">>, <<"superclass_tuple", "comma", "id">>}
BY DEF Lists, Rule

LEMMA ArgumentListRules ==
  \A r \in Lists : r.kind = "list" =>
    r.rhs \in {<<"assignment">>, <<"argument_list", "comma", "assignment">>,
               <<"assignment", "comma", "assignment">>, <<"tuple_list", "comma", "assignment">>}
BY DEF Lists, Rule

LEMMA NameListRules ==
  \A r \in Lists : r.kind = "names" =>
    r.rhs \in {<<"id">>, <<"(", ")">>, <<"(", "tuple_list", ")">>}
BY DEF Lists, Rule

LEMMA LeafRules ==
  \A r \in Leaves :
    /\ r.lhs \in ExprSymbols
    /\ r.kind \in {"identifier", "nil", "leaf"}
    /\ r.kind = "identifier" => r.rhs = <<"id">>
BY DEF Leaves, Rule, ExprSymbols

-----------------------------------------------------------------------------
(***************************************************************************)
(* The semantic actions: nothing is lost, and nothing has two owners.      *)
(***************************************************************************)
Positive == Nat \ {0}

\* New addresses for an action on trees with the blocks A.
FreshFor(ids, A) ==
  /\ ids \in [Positive -> Positive]
  /\ \A i, j \in Positive : ids[i] = ids[j] => i = j
  /\ \A i \in Positive : ids[i] \notin A

Addresses(ids) == {ids[i] : i \in Positive}

\* The value takes over the blocks A of its parts but those freed, and has new
\* ones besides.
Keeps(val, freed, A, ids) ==
  /\ val \in Proper
  /\ Blocks(val) \subseteq (A \ freed) \cup Addresses(ids)
  /\ A \subseteq Blocks(val) \cup freed

Handles(result, A, ids) ==
  /\ result.freed \subseteq A \cup {0}
  /\ result.val = Nothing => A \subseteq result.freed
  /\ result.val \in Tree \ {Nothing} => Keeps(result.val, result.freed, A, ids)

LEMMA MadeHandles ==
  ASSUME NEW val, NEW freed, NEW A, NEW ids, val # Nothing, freed \subseteq A \cup {0},
         val \in Tree => Keeps(val, freed, A, ids)
  PROVE  Handles(Made(val, freed), A, ids) /\ Made(val, freed).val = val
<1>1. Made(val, freed).val = val /\ Made(val, freed).freed = freed
  BY DEF Made
<1> QED
  BY <1>1 DEF Handles

LEMMA FailedHandles ==
  ASSUME NEW A, NEW ids
  PROVE  Handles(Failed(A), A, ids) /\ Failed(A).val = Nothing
<1>1. Failed(A).val = Nothing /\ Failed(A).freed = A
  BY DEF Failed
<1> QED
  BY <1>1 DEF Handles

LEMMA NodeIsSome ==
  ASSUME NEW kind, NEW at, NEW kids, kind # "nothing"
  PROVE  /\ Node(kind, at, kids) # Nothing /\ Node(kind, at, kids).kind = kind
         /\ Node(kind, at, kids).kids = kids /\ Node(kind, at, kids).at = at
<1>1. Node(kind, at, kids).kind = kind /\ Node(kind, at, kids).kids = kids /\ Node(kind, at, kids).at = at
  BY DEF Node
<1> QED
  BY <1>1, NothingIs

LEMMA ProperSeqs ==
  /\ \A s \in Seq(Proper) : s \in Seq(Tree)
  /\ \A t \in Proper : t \in Tree /\ Blocks(t) \subseteq Positive
  /\ \A s \in Seq(Proper) : BlocksOf(s) \subseteq Positive
<1>1. \A t \in Proper : t \in Tree /\ Blocks(t) \subseteq Positive
  BY BlocksAre DEF Proper, Positive
<1>2. \A s \in Seq(Proper) : s \in Seq(Tree)
  BY DEF Proper
<1>3. \A s \in Seq(Proper) : BlocksOf(s) \subseteq Positive
  BY <1>1 DEF BlocksOf
<1> QED
  BY <1>1, <1>2, <1>3

\* A node on top of the parts, whose own block is new or was that of a part.
LEMMA NodeKeeps ==
  ASSUME NEW kind, NEW at \in Nat, NEW kids, NEW A, NEW ids,
         Node(kind, at, kids) \in Tree,
         kids \in Seq(Proper), Apart(kids), BlocksOf(kids) = A, at \notin A,
         NamesOK(Node(kind, at, kids)), KidsOK(Node(kind, at, kids))
  PROVE  /\ Node(kind, at, kids) \in Proper
         /\ Blocks(Node(kind, at, kids)) = ({at} \ {0}) \cup A
BY NewNode

\* The trees that are neither names nor made of two or one.
LEMMA PlainNode ==
  ASSUME NEW kind, NEW at, NEW kids, kind \notin {"names", "method", "call", "attribute", "identifier"}
  PROVE  NamesOK(Node(kind, at, kids)) /\ KidsOK(Node(kind, at, kids))
BY DEF NamesOK, KidsOK, Node

LEMMA NewNodeHandles ==
  ASSUME NEW kind, kind # "nothing", NEW kids, NEW A, NEW ids, FreshFor(ids, A), NEW i \in Positive,
         kids \in Seq(Proper), Apart(kids), BlocksOf(kids) = A,
         NamesOK(Node(kind, ids[i], kids)), KidsOK(Node(kind, ids[i], kids))
  PROVE  Handles(Made(Node(kind, ids[i], kids), {}), A, ids)
<1> DEFINE at == ids[i]
           v == Node(kind, at, kids)
<1>1. at \in Nat /\ at \notin A /\ at \in Addresses(ids) /\ at # 0
  BY DEF FreshFor, Addresses, Positive
<1>2. ASSUME v \in Tree PROVE Keeps(v, {}, A, ids)
  <2> HIDE DEF at
  <2>1. v \in Proper /\ Blocks(v) = ({at} \ {0}) \cup A
    <3>1. NamesOK(Node(kind, at, kids)) /\ KidsOK(Node(kind, at, kids))
      BY DEF at
    <3> QED
      BY <1>1, <1>2, <3>1, NodeKeeps
  <2> HIDE DEF v
  <2> QED
    BY <1>1, <2>1 DEF Keeps
<1>3. v # Nothing
  BY NodeIsSome
<1> HIDE DEF v
<1>4. Handles(Made(v, {}), A, ids)
  BY <1>2, <1>3, MadeHandles
<1> QED
  BY <1>4 DEF v

\* A new node with one kid, or two, of which some may be new as well.
LEMMA NodeOnOne ==
  ASSUME NEW kind, NEW at \in Positive, NEW k, Node(kind, at, <<k>>) \in Tree,
         k \in Tree => k \in Proper /\ at \notin Blocks(k),
         NamesOK(Node(kind, at, <<k>>)), KidsOK(Node(kind, at, <<k>>))
  PROVE  Node(kind, at, <<k>>) \in Proper /\ Blocks(Node(kind, at, <<k>>)) = {at} \cup Blocks(k) /\ k \in Proper
<1>1. at \in Nat /\ at # 0
  BY DEF Positive
<1>2. <<k>> \in Seq(Tree) /\ Blocks(Node(kind, at, <<k>>)) = ({at} \ {0}) \cup BlocksOf(<<k>>)
  BY <1>1, NewNode
<1>3. k \in Tree
  BY <1>2
<1>4. <<k>> \in Seq(Proper) /\ Apart(<<k>>) /\ BlocksOf(<<k>>) = Blocks(k)
  BY <1>3, OneTree
<1>5. Node(kind, at, <<k>>) \in Proper
  BY <1>1, <1>3, <1>4, NewNode
<1> QED
  BY <1>1, <1>2, <1>3, <1>4, <1>5

LEMMA NodeOnNone ==
  ASSUME NEW kind, NEW at \in Positive, Node(kind, at, <<>>) \in Tree,
         NamesOK(Node(kind, at, <<>>)), KidsOK(Node(kind, at, <<>>))
  PROVE  Node(kind, at, <<>>) \in Proper /\ Blocks(Node(kind, at, <<>>)) = {at}
<1>1. at \in Nat /\ at # 0
  BY DEF Positive
<1> DEFINE u == <<>>
<1>2. u \in Seq(Proper) /\ BlocksOf(u) = {} /\ Apart(u) /\ Node(kind, at, u) \in Tree
      /\ NamesOK(Node(kind, at, u)) /\ KidsOK(Node(kind, at, u))
  BY NoTrees
<1> HIDE DEF u
<1>3. at \notin BlocksOf(u)
  BY <1>2
<1>4. Node(kind, at, u) \in Proper /\ Blocks(Node(kind, at, u)) = ({at} \ {0}) \cup BlocksOf(u)
  BY <1>1, <1>2, <1>3, NewNode
<1>5. Node(kind, at, u) \in Proper /\ Blocks(Node(kind, at, u)) = {at}
  BY <1>1, <1>2, <1>4
<1> QED
  BY <1>5 DEF u

LEMMA NodeOnTwo ==
  ASSUME NEW kind, NEW at \in Positive, NEW j, NEW k, Node(kind, at, <<j, k>>) \in Tree,
         j \in Tree => j \in Proper /\ at \notin Blocks(j),
         k \in Tree => k \in Proper /\ at \notin Blocks(k),
         j \in Tree /\ k \in Tree => Blocks(j) \cap Blocks(k) = {},
         NamesOK(Node(kind, at, <<j, k>>)), KidsOK(Node(kind, at, <<j, k>>))
  PROVE  /\ Node(kind, at, <<j, k>>) \in Proper /\ j \in Proper /\ k \in Proper
         /\ Blocks(Node(kind, at, <<j, k>>)) = {at} \cup Blocks(j) \cup Blocks(k)
<1>1. at \in Nat /\ at # 0
  BY DEF Positive
<1>2. <<j, k>> \in Seq(Tree) /\ Blocks(Node(kind, at, <<j, k>>)) = ({at} \ {0}) \cup BlocksOf(<<j, k>>)
  BY <1>1, NewNode
<1>3. j \in Tree /\ k \in Tree
  <2>1. <<j, k>>[1] \in Tree /\ <<j, k>>[2] \in Tree
    BY <1>2
  <2> QED
    BY <2>1
<1>4. <<j, k>> \in Seq(Proper) /\ Apart(<<j, k>>) /\ BlocksOf(<<j, k>>) = Blocks(j) \cup Blocks(k)
  BY <1>3, TwoTrees
<1>5. Node(kind, at, <<j, k>>) \in Proper
  BY <1>1, <1>3, <1>4, NewNode
<1> QED
  BY <1>1, <1>2, <1>3, <1>4, <1>5

LEMMA IdentifierKeeps ==
  ASSUME NEW t \in Proper, NEW at \in Positive, at \notin Blocks(t), Identifier(at, t) \in Tree
  PROVE  Identifier(at, t) \in Proper /\ Blocks(Identifier(at, t)) = {at} \cup Blocks(t)
<1>1. NamesOK(Node("identifier", at, <<t>>)) /\ KidsOK(Node("identifier", at, <<t>>))
  BY DEF NamesOK, KidsOK, Node
<1>2. Node("identifier", at, <<t>>) \in Tree
  BY DEF Identifier
<1> QED
  BY <1>1, <1>2, NodeOnOne DEF Identifier

-----------------------------------------------------------------------------
(***************************************************************************)
(* Lists of arguments and of classes.                                      *)
(***************************************************************************)
\* A list that grows.
LEMMA LongerList ==
  ASSUME NEW l \in Proper, l.kind = "list", NEW items \in Seq(Proper), Apart(items),
         Blocks(l) \cap BlocksOf(items) = {}, l.at \notin BlocksOf(items),
         Node("list", l.at, l.kids \o items) \in Tree
  PROVE  /\ Node("list", l.at, l.kids \o items) \in Proper
         /\ Blocks(Node("list", l.at, l.kids \o items)) = Blocks(l) \cup BlocksOf(items)
<1> DEFINE k == l.kids
           u == k \o items
<1>1. /\ k \in Seq(Proper) /\ k \in Seq(Tree) /\ Apart(k) /\ l.at \notin BlocksOf(k)
      /\ Blocks(l) = ({l.at} \ {0}) \cup BlocksOf(k) /\ l.at \in Nat
  BY ProperKids, TreeFields DEF Proper
<1>2. items \in Seq(Tree)
  BY ProperSeqs
<1> HIDE DEF k
<1>3. /\ u \in Seq(Proper) /\ BlocksOf(u) = BlocksOf(k) \cup BlocksOf(items)
      /\ Apart(u) <=> Apart(k) /\ Apart(items) /\ BlocksOf(k) \cap BlocksOf(items) = {}
  BY <1>1, <1>2, Joined
<1>4. Apart(u) /\ l.at \notin BlocksOf(u)
  BY <1>1, <1>3
<1>5. NamesOK(Node("list", l.at, u)) /\ KidsOK(Node("list", l.at, u))
  BY PlainNode
<1>6. Node("list", l.at, u) \in Tree
  BY DEF k
<1> HIDE DEF u
<1>7. Node("list", l.at, u) \in Proper /\ Blocks(Node("list", l.at, u)) = ({l.at} \ {0}) \cup BlocksOf(u)
  BY <1>1, <1>3, <1>4, <1>5, <1>6, NewNode
<1>8. Blocks(Node("list", l.at, u)) = Blocks(l) \cup BlocksOf(items)
  BY <1>1, <1>3, <1>7
<1> QED
  BY <1>7, <1>8 DEF u, k

\* Not the address of a block, but 0, is in no tree.
LEMMA OwnAddress ==
  ASSUME NEW t \in Proper, NEW s \in Seq(Proper), Blocks(t) \cap BlocksOf(s) = {}
  PROVE  t.at \notin BlocksOf(s)
<1>1. Blocks(t) = ({t.at} \ {0}) \cup BlocksOf(t.kids)
  BY ProperKids
<1>2. 0 \notin BlocksOf(s)
  BY ProperSeqs DEF Positive
<1> QED
  BY <1>1, <1>2

LEMMA HeadAndTail ==
  ASSUME NEW parts \in Seq(Proper), parts # <<>>, Apart(parts)
  PROVE  /\ parts[1] \in Proper /\ Tail(parts) \in Seq(Proper) /\ Apart(Tail(parts))
         /\ Blocks(parts[1]) \cap BlocksOf(Tail(parts)) = {}
         /\ BlocksOf(parts) = Blocks(parts[1]) \cup BlocksOf(Tail(parts))
<1> DEFINE h == <<parts[1]>>
           r == Tail(parts)
<1>1. parts[1] \in Proper /\ r \in Seq(Proper) /\ h \in Seq(Proper) /\ parts = h \o r
  OBVIOUS
<1>2. h \in Seq(Tree) /\ r \in Seq(Tree) /\ BlocksOf(h) = Blocks(parts[1])
  BY <1>1, OneTree, ProperSeqs
<1> HIDE DEF h, r
<1>3. /\ BlocksOf(h \o r) = BlocksOf(h) \cup BlocksOf(r)
      /\ Apart(h \o r) <=> Apart(h) /\ Apart(r) /\ BlocksOf(h) \cap BlocksOf(r) = {}
  BY <1>2, Joined
<1>4. Apart(h \o r)
  BY <1>1
<1>5. BlocksOf(parts) = BlocksOf(h) \cup BlocksOf(r)
  BY <1>1, <1>3
<1> QED
  BY <1>1, <1>2, <1>3, <1>4, <1>5 DEF r

LEMMA ListOfHandles ==
  ASSUME NEW parts \in Seq(Proper), parts # <<>>, Apart(parts),
         NEW A, BlocksOf(parts) = A, NEW ids, FreshFor(ids, A)
  PROVE  Handles(Made(ListOf(parts, ids), {}), A, ids) /\ ListOf(parts, ids).kind = "list"
<1>1. CASE parts[1].kind = "list" /\ Len(parts) > 1
  <2> DEFINE l == parts[1]
             r == Tail(parts)
             v == Node("list", l.at, l.kids \o r)
  <2>1. ListOf(parts, ids) = v
    BY <1>1 DEF ListOf, Appended
  <2>2. /\ l \in Proper /\ r \in Seq(Proper) /\ Apart(r) /\ Blocks(l) \cap BlocksOf(r) = {}
        /\ A = Blocks(l) \cup BlocksOf(r) /\ l.kind = "list"
    BY <1>1, HeadAndTail
  <2> HIDE DEF l, r
  <2>3. l.at \notin BlocksOf(r)
    BY <2>2, OwnAddress
  <2>4. ASSUME v \in Tree PROVE Keeps(v, {}, A, ids)
    <3>1. v \in Proper /\ Blocks(v) = A
      BY <2>2, <2>3, <2>4, LongerList
    <3> QED
      BY <3>1 DEF Keeps
  <2>5. v # Nothing /\ v.kind = "list"
    BY NodeIsSome
  <2> HIDE DEF v
  <2> QED
    BY <2>1, <2>4, <2>5, MadeHandles
<1>2. CASE ~(parts[1].kind = "list" /\ Len(parts) > 1)
  <2>1. ListOf(parts, ids) = Node("list", ids[3], parts)
    BY <1>2 DEF ListOf, Appended
  <2>2. NamesOK(Node("list", ids[3], parts)) /\ KidsOK(Node("list", ids[3], parts)) /\ 3 \in Positive
    BY PlainNode DEF Positive
  <2>3. Handles(Made(Node("list", ids[3], parts), {}), A, ids)
    BY <2>2, NewNodeHandles
  <2> QED
    BY <2>1, <2>3, NodeIsSome
<1> QED
  BY <1>1, <1>2

\* The new identifiers of a list of classes.
LEMMA NewIdentifier ==
  ASSUME NEW ids, NEW A, FreshFor(ids, A), NEW i \in Positive, NEW t \in Proper, Blocks(t) \subseteq A
  PROVE  /\ Identifier(ids[i], t) \in Tree =>
              /\ Identifier(ids[i], t) \in Proper
              /\ Blocks(Identifier(ids[i], t)) = {ids[i]} \cup Blocks(t)
         /\ ids[i] \in Addresses(ids) /\ ids[i] \in Positive /\ ids[i] \notin A
<1>1. ids[i] \in Addresses(ids) /\ ids[i] \in Positive /\ ids[i] \notin A
  BY DEF FreshFor, Addresses
<1>2. ids[i] \notin Blocks(t)
  BY <1>1
<1> QED
  BY <1>1, <1>2, IdentifierKeeps

LEMMA OneClass ==
  ASSUME NEW t \in Proper, t.kind = "text", NEW A, Blocks(t) = A, NEW ids, FreshFor(ids, A)
  PROVE  Handles(Made(ClassList(<<t>>, ids), {}), A, ids) /\ ClassList(<<t>>, ids).kind = "list"
<1> DEFINE k == Identifier(ids[1], t)
           v == Node("list", ids[3], <<k>>)
           parts == <<t>>
<1>1. ClassList(<<t>>, ids) = v
  <2>1. parts \in Seq(Proper) /\ 1 \in DOMAIN parts /\ DOMAIN parts = {1} /\ parts[1] = t
    OBVIOUS
  <2>2. {i \in DOMAIN parts : parts[i].kind = "text"} = {1}
    BY <2>1
  <2>3. Pick(parts, {1}) = <<t>>
    <3> HIDE DEF parts
    <3> QED
      BY <2>1, PickOne
  <2>4. [i \in DOMAIN <<t>> |-> Identifier(ids[i], (<<t>>)[i])] = <<k>>
    <3> DEFINE w == [i \in DOMAIN <<t>> |-> Identifier(ids[i], (<<t>>)[i])]
    <3>1. w \in Seq({k}) /\ Len(w) = 1 /\ w[1] = k
      OBVIOUS
    <3> HIDE DEF w, k
    <3>2. w = <<k>>
      BY <3>1
    <3> QED
      BY <3>2 DEF w
  <2>5. parts[1].kind # "list"
    BY <2>1
  <2> QED
    BY <2>2, <2>3, <2>4, <2>5 DEF ClassList, Appended
<1>2. 1 \in Positive /\ 3 \in Positive
  BY DEF Positive
<1>3. /\ k \in Tree => k \in Proper /\ Blocks(k) = {ids[1]} \cup A
      /\ ids[1] \in Addresses(ids) /\ ids[3] \in Addresses(ids) /\ ids[3] \in Positive
      /\ ids[1] \notin A /\ ids[3] \notin A /\ ids[1] # ids[3]
  <2>1. ids[1] # ids[3]
    BY <1>2 DEF FreshFor
  <2> QED
    BY <1>2, <2>1, NewIdentifier
<1>4. v # Nothing /\ v.kind = "list"
  BY NodeIsSome
<1>5. NamesOK(v) /\ KidsOK(v)
  BY PlainNode
<1>6. ASSUME v \in Tree PROVE Keeps(v, {}, A, ids)
  <2> DEFINE at == ids[3]
  <2> HIDE DEF k
  <2>1. v \in Proper /\ Blocks(v) = {at} \cup Blocks(k) /\ k \in Proper
    <3>1. k \in Tree => k \in Proper /\ at \notin Blocks(k)
      BY <1>3
    <3>2. at \in Positive
      BY <1>3
    <3>3. Node("list", at, <<k>>) \in Tree
      BY <1>6
    <3>4. NamesOK(Node("list", at, <<k>>)) /\ KidsOK(Node("list", at, <<k>>))
      BY <1>5
    <3> HIDE DEF at
    <3>5. Node("list", at, <<k>>) \in Proper /\ Blocks(Node("list", at, <<k>>)) = {at} \cup Blocks(k) /\ k \in Proper
      BY <3>1, <3>2, <3>3, <3>4, NodeOnOne
    <3> QED
      BY <3>5 DEF at
  <2>2. k \in Tree
    BY <2>1 DEF Proper
  <2> HIDE DEF v
  <2> QED
    BY <1>3, <2>1, <2>2 DEF Keeps
<1> HIDE DEF v
<1>7. Handles(Made(v, {}), A, ids)
  BY <1>4, <1>6, MadeHandles
<1> QED
  BY <1>1, <1>4, <1>7

LEMMA TwoClasses ==
  ASSUME NEW s \in Proper, NEW t \in Proper, s.kind = "text", t.kind = "text",
         Blocks(s) \cap Blocks(t) = {}, NEW A, Blocks(s) \cup Blocks(t) = A, NEW ids, FreshFor(ids, A)
  PROVE  Handles(Made(ClassList(<<s, t>>, ids), {}), A, ids) /\ ClassList(<<s, t>>, ids).kind = "list"
<1> DEFINE j == Identifier(ids[1], s)
           k == Identifier(ids[2], t)
           v == Node("list", ids[3], <<j, k>>)
           parts == <<s, t>>
<1>1. ClassList(<<s, t>>, ids) = v
  <2>1. /\ parts \in Seq(Proper) /\ DOMAIN parts = {1, 2} /\ parts[1] = s /\ parts[2] = t
        /\ 1 \in DOMAIN parts /\ 2 \in DOMAIN parts /\ 1 < 2
    OBVIOUS
  <2>2. {i \in DOMAIN parts : parts[i].kind = "text"} = {1, 2}
    BY <2>1
  <2>3. Pick(parts, {1, 2}) = <<s, t>>
    <3> HIDE DEF parts
    <3> QED
      BY <2>1, PickTwo
  <2>4. [i \in DOMAIN <<s, t>> |-> Identifier(ids[i], (<<s, t>>)[i])] = <<j, k>>
    <3> DEFINE w == [i \in DOMAIN <<s, t>> |-> Identifier(ids[i], (<<s, t>>)[i])]
    <3>1. w \in Seq({j, k}) /\ Len(w) = 2 /\ w[1] = j /\ w[2] = k
      OBVIOUS
    <3> HIDE DEF w, j, k
    <3>2. w = <<j, k>>
      BY <3>1
    <3> QED
      BY <3>2 DEF w
  <2>5. parts[1].kind # "list"
    BY <2>1
  <2> QED
    BY <2>2, <2>3, <2>4, <2>5 DEF ClassList, Appended
<1>2. 1 \in Positive /\ 2 \in Positive /\ 3 \in Positive
  BY DEF Positive
<1>3. /\ j \in Tree => j \in Proper /\ Blocks(j) = {ids[1]} \cup Blocks(s)
      /\ k \in Tree => k \in Proper /\ Blocks(k) = {ids[2]} \cup Blocks(t)
      /\ ids[1] \in Addresses(ids) /\ ids[2] \in Addresses(ids) /\ ids[3] \in Addresses(ids)
      /\ ids[3] \in Positive
      /\ ids[1] \notin A /\ ids[2] \notin A /\ ids[3] \notin A
  <2>1. Blocks(s) \subseteq A /\ Blocks(t) \subseteq A
    OBVIOUS
  <2> QED
    BY <1>2, <2>1, NewIdentifier
<1>d. ids[1] # ids[3] /\ ids[2] # ids[3] /\ ids[1] # ids[2]
  BY <1>2 DEF FreshFor
<1>4. v # Nothing /\ v.kind = "list"
  BY NodeIsSome
<1>5. NamesOK(v) /\ KidsOK(v)
  BY PlainNode
<1>6. ASSUME v \in Tree PROVE Keeps(v, {}, A, ids)
  <2> DEFINE at == ids[3]
  <2> HIDE DEF j, k
  <2>1. v \in Proper /\ Blocks(v) = {at} \cup Blocks(j) \cup Blocks(k) /\ j \in Proper /\ k \in Proper
    <3>1. /\ j \in Tree => j \in Proper /\ at \notin Blocks(j)
          /\ k \in Tree => k \in Proper /\ at \notin Blocks(k)
          /\ j \in Tree /\ k \in Tree => Blocks(j) \cap Blocks(k) = {}
      BY <1>3, <1>d
    <3>2. at \in Positive
      BY <1>3
    <3>3. Node("list", at, <<j, k>>) \in Tree
      BY <1>6
    <3>4. NamesOK(Node("list", at, <<j, k>>)) /\ KidsOK(Node("list", at, <<j, k>>))
      BY <1>5
    <3> HIDE DEF at
    <3>5. /\ Node("list", at, <<j, k>>) \in Proper /\ j \in Proper /\ k \in Proper
          /\ Blocks(Node("list", at, <<j, k>>)) = {at} \cup Blocks(j) \cup Blocks(k)
      BY <3>1, <3>2, <3>3, <3>4, NodeOnTwo
    <3> QED
      BY <3>5 DEF at
  <2>2. j \in Tree /\ k \in Tree
    BY <2>1 DEF Proper
  <2> HIDE DEF v
  <2> QED
    BY <1>3, <2>1, <2>2 DEF Keeps
<1> HIDE DEF v
<1>7. Handles(Made(v, {}), A, ids)
  BY <1>4, <1>6, MadeHandles
<1> QED
  BY <1>1, <1>4, <1>7

LEMMA MoreClasses ==
  ASSUME NEW l \in Proper, NEW t \in Proper, l.kind = "list", t.kind = "text",
         Blocks(l) \cap Blocks(t) = {}, NEW A, Blocks(l) \cup Blocks(t) = A, NEW ids, FreshFor(ids, A)
  PROVE  Handles(Made(ClassList(<<l, t>>, ids), {}), A, ids) /\ ClassList(<<l, t>>, ids).kind = "list"
<1> DEFINE k == Identifier(ids[1], t)
           v == Node("list", l.at, l.kids \o <<k>>)
           parts == <<l, t>>
<1>1. ClassList(<<l, t>>, ids) = v
  <2>1. /\ parts \in Seq(Proper) /\ DOMAIN parts = {1, 2} /\ parts[1] = l /\ parts[2] = t
        /\ 2 \in DOMAIN parts
    OBVIOUS
  <2>2. {i \in DOMAIN parts : parts[i].kind = "text"} = {2}
    BY <2>1
  <2>3. Pick(parts, {2}) = <<t>>
    <3> HIDE DEF parts
    <3> QED
      BY <2>1, PickOne
  <2>4. [i \in DOMAIN <<t>> |-> Identifier(ids[i], (<<t>>)[i])] = <<k>>
    <3> DEFINE w == [i \in DOMAIN <<t>> |-> Identifier(ids[i], (<<t>>)[i])]
    <3>1. w \in Seq({k}) /\ Len(w) = 1 /\ w[1] = k
      OBVIOUS
    <3> HIDE DEF w, k
    <3>2. w = <<k>>
      BY <3>1
    <3> QED
      BY <3>2 DEF w
  <2>5. parts # <<>> /\ parts[1].kind = "list" /\ parts[1] = l
    BY <2>1
  <2> QED
    BY <2>2, <2>3, <2>4, <2>5 DEF ClassList, Appended
<1>2. 1 \in Positive
  BY DEF Positive
<1>3. /\ k \in Tree => k \in Proper /\ Blocks(k) = {ids[1]} \cup Blocks(t)
      /\ ids[1] \in Addresses(ids) /\ ids[1] \notin A
  <2>1. Blocks(t) \subseteq A
    OBVIOUS
  <2> QED
    BY <1>2, <2>1, NewIdentifier
<1>4. v # Nothing /\ v.kind = "list"
  BY NodeIsSome
<1>6. ASSUME v \in Tree PROVE Keeps(v, {}, A, ids)
  <2> HIDE DEF k
  <2>1. l.kids \o <<k>> \in Seq(Tree) /\ l.kids \in Seq(Tree)
    <3>1. l.at \in Nat /\ l.kids \in Seq(Tree)
      BY TreeFields DEF Proper
    <3> QED
      BY <1>6, <3>1, NewNode
  <2>2. k \in Tree
    <3>1. (l.kids \o <<k>>)[Len(l.kids) + 1] = k /\ Len(l.kids) + 1 \in DOMAIN (l.kids \o <<k>>)
      BY <2>1
    <3> DEFINE u == l.kids \o <<k>>
    <3> HIDE DEF u
    <3>2. u \in Seq(Tree) /\ u[Len(l.kids) + 1] = k /\ Len(l.kids) + 1 \in DOMAIN u
      BY <2>1, <3>1 DEF u
    <3> QED
      BY <3>2
  <2>3. <<k>> \in Seq(Proper) /\ Apart(<<k>>) /\ BlocksOf(<<k>>) = {ids[1]} \cup Blocks(t)
    BY <1>3, <2>2, OneTree
  <2>4. Blocks(l) \cap BlocksOf(<<k>>) = {}
    BY <1>3, <2>3
  <2>5. l.at \notin BlocksOf(<<k>>)
    BY <2>3, <2>4, OwnAddress
  <2>6. v \in Proper /\ Blocks(v) = Blocks(l) \cup BlocksOf(<<k>>)
    <3> DEFINE w == <<k>>
    <3>1. /\ w \in Seq(Proper) /\ Apart(w) /\ Blocks(l) \cap BlocksOf(w) = {} /\ l.at \notin BlocksOf(w)
          /\ Node("list", l.at, l.kids \o w) \in Tree
      BY <1>6, <2>3, <2>4, <2>5
    <3> HIDE DEF w
    <3>2. /\ Node("list", l.at, l.kids \o w) \in Proper
          /\ Blocks(Node("list", l.at, l.kids \o w)) = Blocks(l) \cup BlocksOf(w)
      BY <3>1, LongerList
    <3> QED
      BY <3>2 DEF w
  <2> HIDE DEF v
  <2> QED
    BY <1>3, <2>3, <2>6 DEF Keeps
<1> HIDE DEF v
<1>7. Handles(Made(v, {}), A, ids)
  BY <1>4, <1>6, MadeHandles
<1> QED
  BY <1>1, <1>4, <1>7

-----------------------------------------------------------------------------
(***************************************************************************)
(* Calls and new.                                                          *)
(***************************************************************************)
LEMMA CallWithNone ==
  ASSUME NEW c \in Proper, NEW A, Blocks(c) = A, NEW ids, FreshFor(ids, A)
  PROVE  Handles(Made(CallNode(<<c>>, ids), {}), A, ids) /\ CallNode(<<c>>, ids).kind = "call"
<1> DEFINE k == Node("list", ids[2], <<>>)
           v == Node("call", ids[1], <<c, k>>)
<1>1. CallNode(<<c>>, ids) = v
  <2>1. Len(<<c>>) = 1 /\ Tail(<<c>>) = <<>>
    OBVIOUS
  <2> QED
    BY <2>1 DEF CallNode
<1>2. 1 \in Positive /\ 2 \in Positive
  BY DEF Positive
<1>3. /\ ids[1] \in Addresses(ids) /\ ids[2] \in Addresses(ids) /\ ids[1] # ids[2]
      /\ ids[1] \in Positive /\ ids[2] \in Positive /\ ids[1] \notin A /\ ids[2] \notin A
  BY <1>2 DEF FreshFor, Addresses
<1>4. ASSUME k \in Tree PROVE k \in Proper /\ Blocks(k) = {ids[2]}
  <2> DEFINE at == ids[2]
  <2>1. at \in Positive
    BY <1>3
  <2>2. Node("list", at, <<>>) \in Tree
    BY <1>4
  <2>3. NamesOK(Node("list", at, <<>>)) /\ KidsOK(Node("list", at, <<>>))
    BY PlainNode
  <2> HIDE DEF at
  <2>5. Node("list", at, <<>>) \in Proper /\ Blocks(Node("list", at, <<>>)) = {at}
    BY <2>1, <2>2, <2>3, NodeOnNone
  <2> QED
    BY <2>5 DEF at
<1>5. v # Nothing /\ v.kind = "call"
  BY NodeIsSome
<1>6. ASSUME v \in Tree PROVE Keeps(v, {}, A, ids)
  <2> DEFINE at == ids[1]
  <2>1. /\ k \in Tree => k \in Proper /\ at \notin Blocks(k) /\ Blocks(c) \cap Blocks(k) = {}
        /\ at \notin Blocks(c) /\ at \in Positive
    BY <1>3, <1>4
  <2>2. NamesOK(v) /\ KidsOK(v)
    BY DEF NamesOK, KidsOK, Node
  <2> HIDE DEF k, at
  <2>3. v = Node("call", at, <<c, k>>)
    BY DEF at
  <2> HIDE DEF v
  <2>4. v \in Proper /\ k \in Proper /\ Blocks(v) = {at} \cup Blocks(c) \cup Blocks(k)
    BY <1>6, <2>1, <2>2, <2>3, NodeOnTwo
  <2>5. Blocks(k) = {ids[2]}
    BY <1>4, <2>4 DEF Proper
  <2>6. at \in Addresses(ids)
    BY <1>3 DEF at
  <2> QED
    BY <1>3, <2>4, <2>5, <2>6 DEF Keeps
<1> HIDE DEF v
<1>7. Handles(Made(v, {}), A, ids)
  BY <1>5, <1>6, MadeHandles
<1> QED
  BY <1>1, <1>5, <1>7

LEMMA CallWithList ==
  ASSUME NEW c \in Proper, NEW l \in Proper, l.kind = "list", Blocks(c) \cap Blocks(l) = {},
         NEW A, Blocks(c) \cup Blocks(l) = A, NEW ids, FreshFor(ids, A)
  PROVE  Handles(Made(CallNode(<<c, l>>, ids), {}), A, ids) /\ CallNode(<<c, l>>, ids).kind = "call"
<1> DEFINE p == <<c, l>>
           v == Node("call", ids[1], p)
<1>1. CallNode(<<c, l>>, ids) = v
  BY DEF CallNode
<1>2. 1 \in Positive
  BY DEF Positive
<1>3. NamesOK(v) /\ KidsOK(v)
  BY DEF NamesOK, KidsOK, Node
<1>4. v # Nothing /\ v.kind = "call"
  BY NodeIsSome
<1>5. p \in Seq(Proper) /\ Apart(p) /\ BlocksOf(p) = A
  <2>1. p \in Seq(Proper)
    OBVIOUS
  <2>2. c \in Tree /\ l \in Tree
    BY ProperSeqs
  <2> QED
    BY <2>1, <2>2, TwoTrees
<1>6. Handles(Made(v, {}), A, ids)
  <2> HIDE DEF p
  <2> QED
    BY <1>2, <1>3, <1>5, NewNodeHandles
<1> HIDE DEF v
<1> QED
  BY <1>1, <1>4, <1>6

LEMMA CallWithOne ==
  ASSUME NEW c \in Proper, NEW a \in Proper, a.kind # "list", Blocks(c) \cap Blocks(a) = {},
         NEW A, Blocks(c) \cup Blocks(a) = A, NEW ids, FreshFor(ids, A)
  PROVE  Handles(Made(CallNode(<<c, a>>, ids), {}), A, ids) /\ CallNode(<<c, a>>, ids).kind = "call"
<1> DEFINE k == Node("list", ids[2], <<a>>)
           v == Node("call", ids[1], <<c, k>>)
<1>1. CallNode(<<c, a>>, ids) = v
  <2>1. Tail(<<c, a>>) = <<a>>
    OBVIOUS
  <2> QED
    BY <2>1 DEF CallNode
<1>2. 1 \in Positive /\ 2 \in Positive
  BY DEF Positive
<1>3. /\ ids[1] \in Addresses(ids) /\ ids[2] \in Addresses(ids) /\ ids[1] # ids[2]
      /\ ids[1] \in Positive /\ ids[2] \in Positive /\ ids[1] \notin A /\ ids[2] \notin A
  BY <1>2 DEF FreshFor, Addresses
<1>4. ASSUME k \in Tree PROVE k \in Proper /\ Blocks(k) = {ids[2]} \cup Blocks(a)
  <2> DEFINE at == ids[2]
  <2>1. at \in Positive /\ at \notin Blocks(a)
    BY <1>3
  <2>2. Node("list", at, <<a>>) \in Tree
    BY <1>4
  <2>3. NamesOK(Node("list", at, <<a>>)) /\ KidsOK(Node("list", at, <<a>>))
    BY PlainNode
  <2> HIDE DEF at
  <2>5. Node("list", at, <<a>>) \in Proper /\ Blocks(Node("list", at, <<a>>)) = {at} \cup Blocks(a)
    BY <2>1, <2>2, <2>3, NodeOnOne
  <2> QED
    BY <2>5 DEF at
<1>5. v # Nothing /\ v.kind = "call"
  BY NodeIsSome
<1>6. ASSUME v \in Tree PROVE Keeps(v, {}, A, ids)
  <2> DEFINE at == ids[1]
  <2>1. /\ k \in Tree => k \in Proper /\ at \notin Blocks(k) /\ Blocks(c) \cap Blocks(k) = {}
        /\ at \notin Blocks(c) /\ at \in Positive
    BY <1>3, <1>4
  <2>2. NamesOK(v) /\ KidsOK(v)
    BY DEF NamesOK, KidsOK, Node
  <2> HIDE DEF k, at
  <2>3. v = Node("call", at, <<c, k>>)
    BY DEF at
  <2> HIDE DEF v
  <2>4. v \in Proper /\ k \in Proper /\ Blocks(v) = {at} \cup Blocks(c) \cup Blocks(k)
    BY <1>6, <2>1, <2>2, <2>3, NodeOnTwo
  <2>5. Blocks(k) = {ids[2]} \cup Blocks(a)
    BY <1>4, <2>4 DEF Proper
  <2>6. at \in Addresses(ids)
    BY <1>3 DEF at
  <2> QED
    BY <1>3, <2>4, <2>5, <2>6 DEF Keeps
<1> HIDE DEF v
<1>7. Handles(Made(v, {}), A, ids)
  BY <1>5, <1>6, MadeHandles
<1> QED
  BY <1>1, <1>5, <1>7

LEMMA NewHandles ==
  ASSUME NEW t \in Proper, NEW A, Blocks(t) = A, NEW ids, FreshFor(ids, A)
  PROVE  Handles(Made(Node("new", ids[1], <<Identifier(ids[2], t)>>), {}), A, ids)
<1> DEFINE k == Identifier(ids[2], t)
           v == Node("new", ids[1], <<k>>)
<1>2. 1 \in Positive /\ 2 \in Positive
  BY DEF Positive
<1>3. /\ k \in Tree => k \in Proper /\ Blocks(k) = {ids[2]} \cup A
      /\ ids[1] \in Addresses(ids) /\ ids[2] \in Addresses(ids) /\ ids[1] # ids[2]
      /\ ids[1] \in Positive /\ ids[1] \notin A /\ ids[2] \notin A
  <2>1. ids[1] # ids[2]
    BY <1>2 DEF FreshFor
  <2> QED
    BY <1>2, <2>1, NewIdentifier
<1>5. v # Nothing
  BY NodeIsSome
<1>6. ASSUME v \in Tree PROVE Keeps(v, {}, A, ids)
  <2> DEFINE at == ids[1]
  <2>1. /\ k \in Tree => k \in Proper /\ at \notin Blocks(k)
        /\ at \in Positive
    BY <1>3
  <2>2. NamesOK(v) /\ KidsOK(v)
    BY PlainNode
  <2> HIDE DEF k, at
  <2>3. v = Node("new", at, <<k>>)
    BY DEF at
  <2> HIDE DEF v
  <2>4. v \in Proper /\ k \in Proper /\ Blocks(v) = {at} \cup Blocks(k)
    BY <1>6, <2>1, <2>2, <2>3, NodeOnOne
  <2>5. Blocks(k) = {ids[2]} \cup A
    BY <1>3, <2>4 DEF Proper
  <2>6. at \in Addresses(ids)
    BY <1>3 DEF at
  <2> QED
    BY <1>3, <2>4, <2>5, <2>6 DEF Keeps
<1> HIDE DEF v
<1>7. Handles(Made(v, {}), A, ids)
  BY <1>5, <1>6, MadeHandles
<1> QED
  BY <1>7 DEF v

-----------------------------------------------------------------------------
(***************************************************************************)
(* Tuples.                                                                 *)
(***************************************************************************)
\* The cells of a tuple, from the right.
Cells(list, ids, f, m) ==
  f = [i \in 0..m |->
         IF i = 0 THEN Node("nil", ids[1], <<>>)
         ELSE Node("cons", ids[i + 1], <<list.kids[Len(list.kids) - i + 1], f[i - 1]>>)]

LEMMA CellsExist ==
  ASSUME NEW list, NEW ids
  PROVE  \A m \in Nat : \E f : Cells(list, ids, f, m)
<1> DEFINE nil == Node("nil", ids[1], <<>>)
           Cell(i, x) == Node("cons", ids[i + 1], <<list.kids[Len(list.kids) - i + 1], x>>)
           T == {m \in Nat : \E f : Cells(list, ids, f, m)}
<1>0. \A f, m : Cells(list, ids, f, m) <=> f = [i \in 0..m |-> IF i = 0 THEN nil ELSE Cell(i, f[i - 1])]
  BY DEF Cells
<1> HIDE DEF nil, Cell
<1>1. 0 \in T
  <2> DEFINE f == [i \in 0..0 |-> nil]
  <2>1. f = [i \in 0..0 |-> IF i = 0 THEN nil ELSE Cell(i, f[i - 1])]
    OBVIOUS
  <2> HIDE DEF f
  <2> QED
    BY <1>0, <2>1
<1>2. ASSUME NEW m \in Nat, m \in T PROVE m + 1 \in T
  <2>1. PICK f : f = [i \in 0..m |-> IF i = 0 THEN nil ELSE Cell(i, f[i - 1])]
    BY <1>0, <1>2
  <2> DEFINE h == [k \in 0..(m + 1) |-> IF k <= m THEN f[k] ELSE Cell(m + 1, f[m])]
  <2>3. \A k \in 0..(m + 1) : h[k] = IF k = 0 THEN nil ELSE Cell(k, h[k - 1])
    <3> TAKE k \in 0..(m + 1)
    <3>1. CASE k = 0
      <4>1. h[0] = f[0] /\ f[0] = nil
        BY <2>1
      <4> QED
        BY <3>1, <4>1
    <3>2. CASE k \in 1..m
      <4>1. h[k] = f[k] /\ k - 1 \in 0..m /\ h[k - 1] = f[k - 1] /\ k # 0
        BY <3>2
      <4>2. f[k] = Cell(k, f[k - 1])
        BY <2>1, <3>2
      <4> QED
        BY <4>1, <4>2
    <3>3. CASE k = m + 1
      <4>1. h[k] = Cell(m + 1, f[m]) /\ k - 1 = m /\ h[m] = f[m] /\ k # 0
        BY <3>3
      <4> QED
        BY <3>3, <4>1
    <3> QED
      BY <3>1, <3>2, <3>3
  <2> HIDE DEF h
  <2>4. h = [k \in 0..(m + 1) |-> h[k]]
    BY DEF h
  <2>5. h = [k \in 0..(m + 1) |-> IF k = 0 THEN nil ELSE Cell(k, h[k - 1])]
    BY <2>3, <2>4
  <2> QED
    BY <1>0, <2>5
<1> HIDE DEF T
<1>3. \A m \in Nat : m \in T
  BY <1>1, <1>2, SetInduction
<1> QED
  BY <1>3 DEF T

LEMMA TupleHandles ==
  ASSUME NEW list \in Proper, NEW A, Blocks(list) = A, NEW ids, FreshFor(ids, A)
  PROVE  /\ Handles(Made(Tuple(list, ids), {list.at}), A, ids)
         /\ Tuple(list, ids).kind \in {"nil", "cons"}
<1> DEFINE n == Len(list.kids)
           Behind(i) == UNION {Blocks(list.kids[j]) : j \in (n - i + 1)..n}
           Used(i) == {ids[j] : j \in 1..(i + 1)}
<1>1. n \in Nat /\ list.kids \in Seq(Proper) /\ Apart(list.kids) /\ DOMAIN list.kids = 1..n
      /\ A = ({list.at} \ {0}) \cup BlocksOf(list.kids) /\ list.at \notin BlocksOf(list.kids)
  BY ProperKids
<1>2. PICK f : Cells(list, ids, f, n)
  BY <1>1, CellsExist
<1>3. Cells(list, ids, CHOOSE g : Cells(list, ids, g, n), n)
  BY <1>2
<1> DEFINE from == CHOOSE g : Cells(list, ids, g, n)
<1>4. Tuple(list, ids) = from[n]
  BY DEF Tuple, Cells
<1>5. /\ from[0] = Node("nil", ids[1], <<>>)
      /\ \A i \in 1..n : from[i] = Node("cons", ids[i + 1], <<list.kids[n - i + 1], from[i - 1]>>)
  <2> HIDE DEF from
  <2>1. from = [i \in 0..n |-> IF i = 0 THEN Node("nil", ids[1], <<>>)
                              ELSE Node("cons", ids[i + 1], <<list.kids[n - i + 1], from[i - 1]>>)]
    BY <1>3 DEF Cells, from
  <2>2. \A i \in 0..n : from[i] = IF i = 0 THEN Node("nil", ids[1], <<>>)
                              ELSE Node("cons", ids[i + 1], <<list.kids[n - i + 1], from[i - 1]>>)
    BY <2>1, Zenon
  <2> HIDE DEF n
  <2>3. from[0] = Node("nil", ids[1], <<>>)
    <3>1. 0 \in 0..n
      BY <1>1
    <3>2. from[0] = IF 0 = 0 THEN Node("nil", ids[1], <<>>)
                    ELSE Node("cons", ids[0 + 1], <<list.kids[n - 0 + 1], from[0 - 1]>>)
      BY <2>2, <3>1, Zenon
    <3> QED
      BY <3>2, Zenon
  <2>4. \A i \in 1..n : from[i] = Node("cons", ids[i + 1], <<list.kids[n - i + 1], from[i - 1]>>)
    <3> TAKE i \in 1..n
    <3>1. i \in 0..n /\ i # 0
      BY <1>1
    <3> QED
      BY <2>2, <3>1, Zenon
  <2> QED
    BY <2>3, <2>4
<1> HIDE DEF from
<1>6. \A j \in 1..n : list.kids[j] \in Proper /\ Blocks(list.kids[j]) \subseteq A
  BY <1>1 DEF BlocksOf
<1>7. \A i \in 1..n : n - i + 1 \in 1..n /\ i + 1 \in Positive /\ i - 1 \in Nat /\ i - 1 + 1 = i
  BY <1>1 DEF Positive
<1>8. \A i \in Positive : ids[i] \in Positive /\ ids[i] \in Addresses(ids) /\ ids[i] \notin A
  BY DEF FreshFor, Addresses
<1>9. \A i \in 0..n : Used(i) \subseteq Addresses(ids) /\ Behind(i) \subseteq A
  <2> TAKE i \in 0..n
  <2>1. \A j \in 1..(i + 1) : j \in Positive
    BY DEF Positive
  <2>2. Used(i) \subseteq Addresses(ids)
    BY <1>8, <2>1
  <2>3. \A j \in (n - i + 1)..n : j \in 1..n
    BY <1>1
  <2> QED
    BY <1>6, <2>2, <2>3
<1> DEFINE Good(i) == from[i] \in Tree => from[i] \in Proper /\ Blocks(from[i]) = Used(i) \cup Behind(i)
           T == {i \in Nat : i <= n => Good(i)}
<1>10. 0 \in T
  <2> SUFFICES ASSUME from[0] \in Tree PROVE from[0] \in Proper /\ Blocks(from[0]) = Used(0) \cup Behind(0)
    OBVIOUS
  <2> DEFINE at == ids[1]
  <2>1. 1 \in Positive
    BY DEF Positive
  <2>2. at \in Positive
    BY <1>8, <2>1
  <2>3. Used(0) = {at}
    OBVIOUS
  <2>4. Behind(0) = {}
    <3>1. (n - 0 + 1)..n = {}
      BY <1>1
    <3> QED
      BY <3>1
  <2>5. NamesOK(Node("nil", at, <<>>)) /\ KidsOK(Node("nil", at, <<>>))
    BY PlainNode
  <2>6. Node("nil", at, <<>>) \in Tree
    BY <1>5
  <2> HIDE DEF at, Used, Behind
  <2>8. Node("nil", at, <<>>) \in Proper /\ Blocks(Node("nil", at, <<>>)) = {at}
    BY <2>2, <2>5, <2>6, NodeOnNone
  <2> QED
    BY <1>5, <2>3, <2>4, <2>8 DEF at
<1>11. ASSUME NEW m \in Nat, m \in T PROVE m + 1 \in T
  <2> SUFFICES ASSUME m + 1 <= n, from[m + 1] \in Tree
               PROVE  from[m + 1] \in Proper /\ Blocks(from[m + 1]) = Used(m + 1) \cup Behind(m + 1)
    OBVIOUS
  <2> DEFINE i == m + 1
             at == ids[i + 1]
             j == list.kids[n - i + 1]
             k == from[m]
  <2>1. i \in 1..n /\ i - 1 = m /\ m \in 0..n /\ m <= n
    BY <1>1
  <2>2. from[i] = Node("cons", at, <<j, k>>)
    BY <1>5, <2>1
  <2>3. k \in Tree => k \in Proper /\ Blocks(k) = Used(m) \cup Behind(m)
    BY <1>11, <2>1
  <2>4. j \in Proper /\ Blocks(j) \subseteq A
    BY <1>6, <1>7, <2>1
  <2>5. i + 1 \in Positive /\ at \in Positive /\ at \notin A /\ at \in Addresses(ids)
    BY <1>7, <1>8, <2>1
  <2>6. at \notin Used(m)
    <3>1. \A q \in 1..(m + 1) : q \in Positive /\ q # i + 1
      BY DEF Positive
    <3> QED
      BY <3>1, <2>5 DEF FreshFor
  <2>7. Used(i) = Used(m) \cup {at}
    <3>1. 1..(i + 1) = 1..(m + 1) \cup {i + 1}
      OBVIOUS
    <3> QED
      BY <3>1
  <2>8. (n - i + 1)..n = ((n - m + 1)..n) \cup {n - i + 1} /\ n - i + 1 \notin (n - m + 1)..n
    BY <1>1, <2>1
  <2>9. Behind(i) = Behind(m) \cup Blocks(j)
    BY <2>8
  <2>10. Behind(m) \cap Blocks(j) = {}
    <3> SUFFICES ASSUME NEW q \in (n - m + 1)..n PROVE Blocks(list.kids[q]) \cap Blocks(j) = {}
      OBVIOUS
    <3>1. q \in DOMAIN list.kids /\ n - i + 1 \in DOMAIN list.kids /\ q # n - i + 1
      BY <1>1, <2>1, <2>8
    <3> QED
      BY <1>1, <3>1 DEF Apart
  <2>11. Used(m) \cap Blocks(j) = {} /\ Behind(m) \subseteq A
    <3>1. Behind(m) \subseteq A
      BY <1>9, <2>1
    <3>2. \A q \in 1..(m + 1) : ids[q] \notin A
      <4>1. \A q \in 1..(m + 1) : q \in Positive
        BY DEF Positive
      <4> QED
        BY <1>8, <4>1
    <3> QED
      BY <2>4, <3>1, <3>2
  <2>12. NamesOK(Node("cons", at, <<j, k>>)) /\ KidsOK(Node("cons", at, <<j, k>>))
    BY PlainNode
  <2> HIDE DEF at, j, k, i, Used, Behind
  <2>13. /\ j \in Tree => j \in Proper /\ at \notin Blocks(j)
         /\ k \in Tree => k \in Proper /\ at \notin Blocks(k)
         /\ j \in Tree /\ k \in Tree => Blocks(j) \cap Blocks(k) = {}
    BY <2>3, <2>4, <2>5, <2>6, <2>10, <2>11
  <2>14. Node("cons", at, <<j, k>>) \in Tree
    BY <2>2 DEF i
  <2>15. /\ Node("cons", at, <<j, k>>) \in Proper /\ j \in Proper /\ k \in Proper
         /\ Blocks(Node("cons", at, <<j, k>>)) = {at} \cup Blocks(j) \cup Blocks(k)
    BY <2>5, <2>12, <2>13, <2>14, NodeOnTwo
  <2>16. Blocks(k) = Used(m) \cup Behind(m)
    BY <2>3, <2>15 DEF Proper
  <2>17. from[i] \in Proper /\ Blocks(from[i]) = Used(i) \cup Behind(i)
    BY <2>2, <2>7, <2>9, <2>15, <2>16
  <2> QED
    BY <2>17 DEF i
<1>12. \A m \in Nat : m \in T
  <2> HIDE DEF T
  <2> QED
    BY <1>10, <1>11, SetInduction
<1>13. Good(n)
  <2>1. n \in T
    BY <1>1, <1>12
  <2> QED
    <3>1. n <= n
      BY <1>1
    <3> HIDE DEF Good
    <3> QED
      BY <2>1, <3>1, Zenon
<1>14. Behind(n) = BlocksOf(list.kids)
  <2>1. n - n + 1 = 1
    BY <1>1
  <2> QED
    BY <1>1, <2>1 DEF BlocksOf
<1>15. from[n] # Nothing /\ from[n].kind \in {"nil", "cons"}
  <2>1. CASE n = 0
    <3>1. from[n] = Node("nil", ids[1], <<>>)
      BY <1>5, <2>1
    <3> QED
      BY <3>1, NodeIsSome
  <2>2. CASE n # 0
    <3>1. n \in 1..n
      BY <1>1, <2>2
    <3>2. from[n] = Node("cons", ids[n + 1], <<list.kids[n - n + 1], from[n - 1]>>)
      BY <1>5, <3>1
    <3> QED
      BY <3>2, NodeIsSome
  <2> QED
    BY <2>1, <2>2
<1>16. ASSUME from[n] \in Tree PROVE Keeps(from[n], {list.at}, A, ids)
  <2>1. from[n] \in Proper /\ Blocks(from[n]) = Used(n) \cup BlocksOf(list.kids)
    BY <1>13, <1>14, <1>16
  <2>2. Used(n) \subseteq Addresses(ids)
    BY <1>1, <1>9
  <2> HIDE DEF Used, n
  <2> QED
    BY <1>1, <2>1, <2>2 DEF Keeps
<1>17. {list.at} \subseteq A \cup {0}
  BY <1>1
<1> HIDE DEF n
<1> QED
  BY <1>4, <1>15, <1>16, <1>17, MadeHandles

-----------------------------------------------------------------------------
(***************************************************************************)
(* Names that are taken out of trees.                                      *)
(***************************************************************************)
\* The names taken out of a tree, as the parameters of a function.
LEMMA TakenNames ==
  ASSUME NEW trees \in Seq(Proper), Apart(trees), AreNames(trees), NEW at \in Positive,
         at \notin BlocksOf(trees), Names_(at, Texts(trees)) \in Tree
  PROVE  /\ Names_(at, Texts(trees)) \in Proper
         /\ Blocks(Names_(at, Texts(trees))) = {at} \cup BlocksOf(Texts(trees))
<1> DEFINE u == Texts(trees)
           v == Names_(at, u)
<1>1. AreIdentifiers(trees) /\ \A i, j \in DOMAIN trees : i # j => trees[i].kids[1].name # trees[j].kids[1].name
  BY DEF AreNames
<1>2. u \in Seq(Proper) /\ Apart(u) /\ BlocksOf(u) \subseteq BlocksOf(trees) /\ DOMAIN u = DOMAIN trees
  BY <1>1, TextsApart
<1>3. \A i, j \in DOMAIN u : i # j => u[i].name # u[j].name
  BY <1>1, <1>2 DEF Texts
<1>4. v.kind = "names" /\ v.kids = u
  BY DEF Names_, Node
<1>5. NamesOK(v) /\ KidsOK(v)
  <2> HIDE DEF v, u
  <2> QED
    BY <1>3, <1>4 DEF NamesOK, KidsOK
<1>6. at \in Nat /\ at # 0 /\ at \notin BlocksOf(u)
  BY <1>2 DEF Positive
<1>7. v = Node("names", at, u) /\ Node("names", at, u) \in Tree
  BY DEF Names_
<1> HIDE DEF u, v
<1>8. v \in Proper /\ Blocks(v) = {at} \cup BlocksOf(u)
  BY <1>2, <1>5, <1>6, <1>7, NewNode
<1> QED
  BY <1>8 DEF u, v

LEMMA DiscardHandles ==
  ASSUME NEW s, NEW t, NEW A, A = Blocks(s) \cup Blocks(t), NEW ids
  PROVE  Handles(Discard(s, t), A, ids) /\ Discard(s, t).val = Nothing
BY FailedHandles DEF Discard

LEMMA FixHandles ==
  ASSUME NEW lhs \in Proper, NEW body \in Proper, Blocks(lhs) \cap Blocks(body) = {},
         NEW A, A = Blocks(lhs) \cup Blocks(body), NEW ids, FreshFor(ids, A)
  PROVE  /\ Handles(FixFromLhs(lhs, body, ids), A, ids)
         /\ FixFromLhs(lhs, body, ids).val # Nothing => FixFromLhs(lhs, body, ids).val.kind = "fix"
<1> DEFINE names == FixNames[lhs]
           k == Names_(ids[1], Texts(names))
           v == Node("fix", ids[2], <<k, body>>)
           freed == Rest(lhs, names)
<1>1. CASE ~AreNames(names)
  BY <1>1, DiscardHandles DEF FixFromLhs
<1>2. CASE AreNames(names)
  <2>1. FixFromLhs(lhs, body, ids) = Made(v, freed)
    BY <1>2 DEF FixFromLhs
  <2>2. names \in Seq(Proper) /\ Apart(names) /\ BlocksOf(names) \subseteq Blocks(lhs)
    BY FixNamesApart
  <2>3. 1 \in Positive /\ 2 \in Positive
    BY DEF Positive
  <2>4. /\ ids[1] \in Addresses(ids) /\ ids[2] \in Addresses(ids) /\ ids[1] # ids[2]
        /\ ids[1] \in Positive /\ ids[2] \in Positive /\ ids[1] \notin A /\ ids[2] \notin A
    BY <2>3 DEF FreshFor, Addresses
  <2> DEFINE B == BlocksOf(Texts(names))
  <2>5. B \subseteq Blocks(lhs)
    BY <1>2, <2>2, TextsApart DEF AreNames
  <2>6. freed = Blocks(lhs) \ B
    BY DEF Rest
  <2>7. ASSUME k \in Tree PROVE k \in Proper /\ Blocks(k) = {ids[1]} \cup B
    <3> HIDE DEF names
    <3> QED
      BY <1>2, <2>2, <2>4, <2>7, TakenNames
  <2>8. v # Nothing /\ v.kind = "fix"
    BY NodeIsSome
  <2>9. ASSUME v \in Tree PROVE Keeps(v, freed, A, ids)
    <3> DEFINE at == ids[2]
    <3>0. NamesOK(v) /\ KidsOK(v) /\ v = Node("fix", at, <<k, body>>)
      BY PlainNode
    <3> HIDE DEF k, B
    <3>1. /\ k \in Tree => k \in Proper /\ at \notin Blocks(k) /\ Blocks(k) \cap Blocks(body) = {}
          /\ at \notin Blocks(body) /\ at \in Positive /\ at \in Addresses(ids)
      BY <2>4, <2>5, <2>7
    <3> HIDE DEF at, v
    <3>2. v \in Proper /\ k \in Proper /\ Blocks(v) = {at} \cup Blocks(k) \cup Blocks(body)
      BY <2>9, <3>0, <3>1, NodeOnTwo
    <3>3. Blocks(k) = {ids[1]} \cup B
      BY <2>7, <3>2 DEF Proper
    <3> HIDE DEF freed
    <3> QED
      BY <2>4, <2>5, <2>6, <3>1, <3>2, <3>3 DEF Keeps
  <2>10. freed \subseteq A \cup {0}
    BY <2>6
  <2> HIDE DEF v, freed
  <2> QED
    BY <2>1, <2>8, <2>9, <2>10, MadeHandles
<1> QED
  BY <1>1, <1>2

LEMMA NamesFromTupleHandles ==
  ASSUME NEW list \in Proper, NEW A, A = Blocks(list), NEW ids, FreshFor(ids, A)
  PROVE  /\ Handles(NamesFromTuple(list, ids), A, ids)
         /\ NamesFromTuple(list, ids).val # Nothing => NamesFromTuple(list, ids).val.kind = "names"
<1> DEFINE names == list.kids
           v == Names_(ids[1], Texts(names))
           freed == Rest(list, names)
<1>1. CASE list.kids = <<>> \/ ~AreNames(list.kids)
  <2>1. NamesFromTuple(list, ids) = Discard(list, Nothing)
    BY <1>1 DEF NamesFromTuple
  <2>2. A = Blocks(list) \cup Blocks(Nothing)
    BY NothingIs
  <2> QED
    BY <2>1, <2>2, DiscardHandles
<1>2. CASE ~(list.kids = <<>> \/ ~AreNames(list.kids))
  <2>0. AreNames(names)
    BY <1>2
  <2>1. NamesFromTuple(list, ids) = Made(v, freed)
    BY <1>2 DEF NamesFromTuple
  <2>2. names \in Seq(Proper) /\ Apart(names) /\ BlocksOf(names) \subseteq Blocks(list)
    BY ProperKids
  <2>3. 1 \in Positive
    BY DEF Positive
  <2>4. ids[1] \in Addresses(ids) /\ ids[1] \in Positive /\ ids[1] \notin A
    BY <2>3 DEF FreshFor, Addresses
  <2> DEFINE B == BlocksOf(Texts(names))
  <2>5. B \subseteq Blocks(list)
    BY <2>0, <2>2, TextsApart DEF AreNames
  <2>6. freed = Blocks(list) \ B
    BY DEF Rest
  <2>7. ASSUME v \in Tree PROVE v \in Proper /\ Blocks(v) = {ids[1]} \cup B
    <3> HIDE DEF names
    <3> QED
      BY <2>0, <2>2, <2>4, <2>7, TakenNames
  <2>8. v # Nothing /\ v.kind = "names"
    BY NodeIsSome DEF Names_
  <2>9. ASSUME v \in Tree PROVE Keeps(v, freed, A, ids)
    <3> HIDE DEF v, freed, B
    <3> QED
      BY <2>4, <2>5, <2>6, <2>7, <2>9 DEF Keeps
  <2>10. freed \subseteq A \cup {0}
    BY <2>6
  <2> HIDE DEF v, freed
  <2> QED
    BY <2>1, <2>8, <2>9, <2>10, MadeHandles
<1> QED
  BY <1>1, <1>2

\* The parameters on the left side of a function or a method.
LEMMA ParametersApart ==
  ASSUME NEW lhs \in Proper, lhs.kind = "call"
  PROVE  /\ IsCall(lhs)
         /\ Parameters(lhs) \in Seq(Proper) /\ Apart(Parameters(lhs))
         /\ BlocksOf(Parameters(lhs)) \subseteq Blocks(lhs)
         /\ Root[lhs] \in Proper /\ Blocks(Root[lhs]) \subseteq Blocks(lhs)
         /\ BlocksOf(Parameters(lhs)) \cap Blocks(Root[lhs]) = {}
<1>1. lhs \in Tree /\ KidsOK(lhs)
  BY ProperTree DEF Proper
<1>2. IsCall(lhs)
  BY <1>1 DEF KidsOK, IsCall
<1>3. /\ Arguments[lhs] \in Seq(Proper) /\ Apart(Arguments[lhs]) /\ BlocksOf(Arguments[lhs]) \subseteq Blocks(lhs)
      /\ Root[lhs] \in Proper /\ Blocks(Root[lhs]) \subseteq Blocks(lhs)
      /\ BlocksOf(Arguments[lhs]) \cap Blocks(Root[lhs]) = {}
  BY ArgumentsApart
<1>4. Parameters(lhs) = <<>> \/ Parameters(lhs) = Arguments[lhs]
  BY DEF Parameters
<1>5. <<>> \in Seq(Proper)
  OBVIOUS
<1> QED
  BY <1>2, <1>3, <1>4, <1>5, NoTrees

-----------------------------------------------------------------------------
(***************************************************************************)
(* Functions, methods and assignments.                                     *)
(***************************************************************************)
LEMMA FunctionHandles ==
  ASSUME NEW lhs \in Proper, lhs.kind = "call", NEW value \in Proper, Blocks(lhs) \cap Blocks(value) = {},
         NEW A, A = Blocks(lhs) \cup Blocks(value), NEW ids, FreshFor(ids, A)
  PROVE  /\ Handles(FunctionFromLhs(lhs, value, ids), A, ids)
         /\ FunctionFromLhs(lhs, value, ids).val # Nothing =>
              FunctionFromLhs(lhs, value, ids).val.kind = "assignment"
<1> DEFINE p == Parameters(lhs)
           r == Root[lhs]
           name == r.kids[1]
           k == Names_(ids[1], Texts(p))
           f == Node("function", ids[2], <<k, value>>)
           v == Node("assignment", ids[3], <<name, f>>)
           freed == Rest(lhs, p) \ Blocks(name)
<1>1. CASE r.kind # "identifier" \/ ~AreNames(p)
  BY <1>1, DiscardHandles DEF FunctionFromLhs
<1>2. CASE ~(r.kind # "identifier" \/ ~AreNames(p))
  <2>0. r.kind = "identifier" /\ AreNames(p)
    BY <1>2
  <2>1. FunctionFromLhs(lhs, value, ids) = Made(v, freed)
    BY <1>2 DEF FunctionFromLhs
  <2>2. /\ p \in Seq(Proper) /\ Apart(p) /\ BlocksOf(p) \subseteq Blocks(lhs)
        /\ r \in Proper /\ Blocks(r) \subseteq Blocks(lhs) /\ BlocksOf(p) \cap Blocks(r) = {}
    BY ParametersApart
  <2>3. name \in Proper /\ Blocks(name) \subseteq Blocks(r)
    <3> HIDE DEF r
    <3>1. r \in Tree /\ KidsOK(r)
      BY <2>2, ProperTree DEF Proper
    <3>2. Len(r.kids) = 1
      BY <2>0, <3>1 DEF KidsOK
    <3>3. DOMAIN r.kids = 1..1
      BY <3>1, <3>2, TreeFields
    <3>4. 1 \in DOMAIN r.kids
      BY <3>3
    <3> QED
      BY <2>2, <3>4, ProperKids
  <2>4. 1 \in Positive /\ 2 \in Positive /\ 3 \in Positive
    BY DEF Positive
  <2>5. /\ ids[1] \in Addresses(ids) /\ ids[2] \in Addresses(ids) /\ ids[3] \in Addresses(ids)
        /\ ids[1] # ids[2] /\ ids[1] # ids[3] /\ ids[2] # ids[3]
        /\ ids[1] \in Positive /\ ids[2] \in Positive /\ ids[3] \in Positive
        /\ ids[1] \notin A /\ ids[2] \notin A /\ ids[3] \notin A
    BY <2>4 DEF FreshFor, Addresses
  <2> DEFINE B == BlocksOf(Texts(p))
  <2>6. B \subseteq BlocksOf(p)
    BY <2>0, <2>2, TextsApart DEF AreNames
  <2>7. freed = (Blocks(lhs) \ B) \ Blocks(name)
    BY DEF Rest
  <2>8. ASSUME k \in Tree PROVE k \in Proper /\ Blocks(k) = {ids[1]} \cup B
    <3> HIDE DEF p
    <3> QED
      BY <2>0, <2>2, <2>5, <2>8, TakenNames
  <2>9. v # Nothing /\ v.kind = "assignment"
    BY NodeIsSome
  <2>10. ASSUME f \in Tree PROVE f \in Proper /\ Blocks(f) = {ids[1], ids[2]} \cup B \cup Blocks(value)
    <3> DEFINE at == ids[2]
    <3>0. NamesOK(f) /\ KidsOK(f) /\ f = Node("function", at, <<k, value>>)
      BY PlainNode
    <3> HIDE DEF k, B, name
    <3>1. /\ k \in Tree => k \in Proper /\ at \notin Blocks(k) /\ Blocks(k) \cap Blocks(value) = {}
          /\ at \notin Blocks(value) /\ at \in Positive
      BY <2>2, <2>5, <2>6, <2>8
    <3> HIDE DEF at, f
    <3>2. f \in Proper /\ k \in Proper /\ Blocks(f) = {at} \cup Blocks(k) \cup Blocks(value)
      BY <2>10, <3>0, <3>1, NodeOnTwo
    <3>3. Blocks(k) = {ids[1]} \cup B
      BY <2>8, <3>2 DEF Proper
    <3> QED
      BY <3>2, <3>3 DEF at
  <2>11. ASSUME v \in Tree PROVE Keeps(v, freed, A, ids)
    <3> DEFINE at == ids[3]
    <3>0. NamesOK(v) /\ KidsOK(v) /\ v = Node("assignment", at, <<name, f>>)
      BY PlainNode
    <3> HIDE DEF f, B, name
    <3>1. /\ f \in Tree => f \in Proper /\ at \notin Blocks(f) /\ Blocks(name) \cap Blocks(f) = {}
          /\ name \in Proper /\ at \notin Blocks(name) /\ at \in Positive
      BY <2>2, <2>3, <2>5, <2>6, <2>10
    <3> HIDE DEF at, v
    <3>2. v \in Proper /\ f \in Proper /\ Blocks(v) = {at} \cup Blocks(name) \cup Blocks(f)
      BY <2>11, <3>0, <3>1, NodeOnTwo
    <3>3. Blocks(f) = {ids[1], ids[2]} \cup B \cup Blocks(value)
      BY <2>10, <3>2 DEF Proper
    <3> HIDE DEF freed
    <3>4. Blocks(v) = {ids[1], ids[2], ids[3]} \cup B \cup Blocks(name) \cup Blocks(value)
      BY <3>2, <3>3 DEF at
    <3>5. B \subseteq Blocks(lhs) /\ Blocks(name) \subseteq Blocks(lhs)
      BY <2>2, <2>3, <2>6
    <3> QED
      BY <2>5, <2>7, <3>2, <3>4, <3>5 DEF Keeps
  <2>12. freed \subseteq A \cup {0}
    BY <2>7
  <2>20. Handles(Made(v, freed), A, ids) /\ Made(v, freed).val = v
    <3> HIDE DEF v, freed
    <3> QED
      BY <2>9, <2>11, <2>12, MadeHandles
  <2> HIDE DEF v, freed
  <2> QED
    BY <2>1, <2>9, <2>20
<1> QED
  BY <1>1, <1>2

\* Four kids, of which the third is new.
LEMMA NodeOnFour ==
  ASSUME NEW at \in Positive, NEW b \in Proper, NEW c \in Proper, NEW k, NEW e \in Proper,
         Node("method", at, <<b, c, k, e>>) \in Tree,
         k \in Tree => k \in Proper /\ at \notin Blocks(k) /\ ~Has(k.kids, "self"),
         k \in Tree => Blocks(k) \cap (Blocks(b) \cup Blocks(c) \cup Blocks(e)) = {},
         Blocks(b) \cap Blocks(c) = {}, (Blocks(b) \cup Blocks(c)) \cap Blocks(e) = {},
         at \notin Blocks(b), at \notin Blocks(c), at \notin Blocks(e)
  PROVE  /\ Node("method", at, <<b, c, k, e>>) \in Proper /\ k \in Proper
         /\ Blocks(Node("method", at, <<b, c, k, e>>)) =
              {at} \cup Blocks(b) \cup Blocks(c) \cup Blocks(k) \cup Blocks(e)
<1> DEFINE u == <<b, c, k, e>>
           v == Node("method", at, u)
<1>1. at \in Nat /\ at # 0
  BY DEF Positive
<1>2. u \in Seq(Tree) /\ Blocks(v) = ({at} \ {0}) \cup BlocksOf(u)
  <2> HIDE DEF u
  <2>1. Node("method", at, u) \in Tree
    BY DEF u
  <2> QED
    BY <1>1, <2>1, NewNode
<1>3. k \in Tree
  <2>1. u[3] \in Tree
    BY <1>2
  <2> QED
    BY <2>1
<1>4. k \in Proper
  BY <1>3
<1> DEFINE x == <<b, c>>
           y == <<k, e>>
<1>5. x \in Seq(Tree) /\ BlocksOf(x) = Blocks(b) \cup Blocks(c) /\ Apart(x)
  BY TwoTrees DEF Proper
<1>6. y \in Seq(Tree) /\ BlocksOf(y) = Blocks(k) \cup Blocks(e) /\ Apart(y)
  BY <1>3, TwoTrees DEF Proper
<1>7. u = x \o y
  OBVIOUS
<1>8. u \in Seq(Proper)
  BY <1>4
<1>9. v.kind = "method" /\ v.kids = u /\ u[3] = k
  BY DEF Node
<1>10. NamesOK(v) /\ KidsOK(v)
  <2> HIDE DEF u, v
  <2> QED
    BY <1>3, <1>9 DEF NamesOK, KidsOK
<1> HIDE DEF u, x, y
<1>11. BlocksOf(u) = BlocksOf(x) \cup BlocksOf(y) /\ (Apart(u) <=> Apart(x) /\ Apart(y) /\ BlocksOf(x) \cap BlocksOf(y) = {})
  BY <1>5, <1>6, <1>7, Joined
<1>12. Apart(u) /\ at \notin BlocksOf(u)
  BY <1>3, <1>5, <1>6, <1>11
<1>13. Node("method", at, u) \in Tree
  BY DEF u
<1>14. v \in Proper
  BY <1>1, <1>8, <1>10, <1>12, <1>13, NewNode
<1>15. Blocks(v) = {at} \cup Blocks(b) \cup Blocks(c) \cup Blocks(k) \cup Blocks(e)
  <2> HIDE DEF v
  <2> QED
    BY <1>1, <1>2, <1>5, <1>6, <1>11
<1> QED
  BY <1>4, <1>14, <1>15 DEF u

LEMMA MethodHandles ==
  ASSUME NEW lhs \in Proper, lhs.kind = "call", lhs.kids[1].kind = "attribute",
         NEW value \in Proper, Blocks(lhs) \cap Blocks(value) = {},
         NEW A, A = Blocks(lhs) \cup Blocks(value), NEW ids, FreshFor(ids, A)
  PROVE  /\ Handles(MethodFromLhs(lhs, value, ids), A, ids)
         /\ MethodFromLhs(lhs, value, ids).val # Nothing =>
              MethodFromLhs(lhs, value, ids).val.kind = "method"
<1> DEFINE p == Parameters(lhs)
           r == lhs.kids[1]
           object == r.kids[1]
           name == r.kids[2]
           u == Texts(p)
           k == Names_(ids[1], u)
           v == Node("method", ids[2], <<object, name, k, value>>)
           freed == Rest(lhs, p) \ (Blocks(object) \cup Blocks(name))
<1>1. CASE ~AreNames(p) \/ Has(u, "self")
  BY <1>1, DiscardHandles DEF MethodFromLhs
<1>2. CASE ~(~AreNames(p) \/ Has(u, "self"))
  <2>0. ~Has(u, "self") /\ AreNames(p)
    BY <1>2
  <2>1. MethodFromLhs(lhs, value, ids) = Made(v, freed)
    BY <1>2 DEF MethodFromLhs
  <2>2. /\ p \in Seq(Proper) /\ Apart(p) /\ BlocksOf(p) \subseteq Blocks(lhs)
        /\ Root[lhs] \in Proper /\ Blocks(Root[lhs]) \subseteq Blocks(lhs)
        /\ BlocksOf(p) \cap Blocks(Root[lhs]) = {} /\ IsCall(lhs)
    BY ParametersApart
  <2>3. Root[lhs] = r
    <3>1. r \in Tree /\ lhs \in Tree
      BY <2>2, KidsOfCalls DEF Proper
    <3>2. Root[lhs] = Root[r] /\ ~IsCall(r)
      BY <2>2, <3>1, RootIs DEF IsCall
    <3> QED
      BY <3>1, <3>2, RootIs
  <2>4. /\ r \in Proper /\ Blocks(r) \subseteq Blocks(lhs) /\ BlocksOf(p) \cap Blocks(r) = {}
    BY <2>2, <2>3
  <2>5. /\ object \in Proper /\ name \in Proper /\ Blocks(object) \cap Blocks(name) = {}
        /\ Blocks(object) \subseteq Blocks(r) /\ Blocks(name) \subseteq Blocks(r)
    <3>0. r.kind = "attribute"
      OBVIOUS
    <3> HIDE DEF r
    <3>1. r \in Tree /\ KidsOK(r)
      BY <2>4, ProperTree DEF Proper
    <3>2. Len(r.kids) = 2
      BY <3>0, <3>1 DEF KidsOK
    <3> QED
      BY <2>4, <3>2, TwoProperKids
  <2>6. 1 \in Positive /\ 2 \in Positive
    BY DEF Positive
  <2>7. /\ ids[1] \in Addresses(ids) /\ ids[2] \in Addresses(ids) /\ ids[1] # ids[2]
        /\ ids[1] \in Positive /\ ids[2] \in Positive /\ ids[1] \notin A /\ ids[2] \notin A
    BY <2>6 DEF FreshFor, Addresses
  <2> DEFINE B == BlocksOf(u)
  <2>8. B \subseteq BlocksOf(p)
    BY <2>0, <2>2, TextsApart DEF AreNames
  <2>9. freed = (Blocks(lhs) \ B) \ (Blocks(object) \cup Blocks(name))
    BY DEF Rest
  <2>10. ASSUME k \in Tree PROVE k \in Proper /\ Blocks(k) = {ids[1]} \cup B
    <3> HIDE DEF p
    <3> QED
      BY <2>0, <2>2, <2>7, <2>10, TakenNames
  <2>11. ~Has(k.kids, "self")
    <3>1. k.kids = u
      BY DEF Names_, Node
    <3> HIDE DEF k, u
    <3> QED
      BY <2>0, <3>1
  <2>12. v # Nothing /\ v.kind = "method"
    BY NodeIsSome
  <2>13. ASSUME v \in Tree PROVE Keeps(v, freed, A, ids)
    <3> DEFINE at == ids[2]
    <3>0. v = Node("method", at, <<object, name, k, value>>)
      OBVIOUS
    <3> HIDE DEF k, B, name, object
    <3>1. /\ k \in Tree => k \in Proper /\ at \notin Blocks(k) /\ ~Has(k.kids, "self")
          /\ k \in Tree => Blocks(k) \cap (Blocks(object) \cup Blocks(name) \cup Blocks(value)) = {}
      <4> SUFFICES ASSUME k \in Tree
                   PROVE /\ k \in Proper /\ at \notin Blocks(k) /\ ~Has(k.kids, "self")
                         /\ Blocks(k) \cap (Blocks(object) \cup Blocks(name) \cup Blocks(value)) = {}
        OBVIOUS
      <4>1. k \in Proper /\ Blocks(k) = {ids[1]} \cup B
        BY <2>10
      <4> QED
        BY <2>2, <2>4, <2>5, <2>7, <2>8, <2>11, <4>1
    <3>2. /\ at \notin Blocks(object) /\ at \notin Blocks(name) /\ at \notin Blocks(value) /\ at \in Positive
          /\ (Blocks(object) \cup Blocks(name)) \cap Blocks(value) = {}
      BY <2>4, <2>5, <2>7
    <3> HIDE DEF at, v
    <3>3. /\ v \in Proper /\ k \in Proper
          /\ Blocks(v) = {at} \cup Blocks(object) \cup Blocks(name) \cup Blocks(k) \cup Blocks(value)
      BY <2>5, <2>13, <3>0, <3>1, <3>2, NodeOnFour
    <3>4. Blocks(k) = {ids[1]} \cup B
      BY <2>10, <3>3 DEF Proper
    <3> HIDE DEF freed
    <3>5. Blocks(v) = {ids[1], ids[2]} \cup B \cup Blocks(object) \cup Blocks(name) \cup Blocks(value)
      BY <3>3, <3>4 DEF at
    <3>6. B \subseteq Blocks(lhs) /\ Blocks(name) \subseteq Blocks(lhs) /\ Blocks(object) \subseteq Blocks(lhs)
      BY <2>2, <2>4, <2>5, <2>8
    <3> QED
      BY <2>7, <2>9, <3>3, <3>5, <3>6 DEF Keeps
  <2>14. freed \subseteq A \cup {0}
    BY <2>9
  <2>20. Handles(Made(v, freed), A, ids) /\ Made(v, freed).val = v
    <3> HIDE DEF v, freed
    <3> QED
      BY <2>12, <2>13, <2>14, MadeHandles
  <2> HIDE DEF v, freed
  <2> QED
    BY <2>1, <2>12, <2>20
<1> QED
  BY <1>1, <1>2

LEMMA AssignmentHandles ==
  ASSUME NEW lhs \in Proper, NEW value \in Proper, Blocks(lhs) \cap Blocks(value) = {},
         NEW A, A = Blocks(lhs) \cup Blocks(value), NEW ids, FreshFor(ids, A)
  PROVE  /\ Handles(AssignmentFromLhs(lhs, value, ids), A, ids)
         /\ AssignmentFromLhs(lhs, value, ids).val # Nothing =>
              AssignmentFromLhs(lhs, value, ids).val.kind \in {"assignment", "method"}
<1>1. CASE lhs.kind \in {"identifier", "attribute"}
  <2> DEFINE k == lhs.kids
             u == k \o <<value>>
             v == Node("assignment", ids[1], u)
  <2>1. AssignmentFromLhs(lhs, value, ids) = Made(v, {lhs.at})
    BY <1>1 DEF AssignmentFromLhs
  <2>2. /\ k \in Seq(Proper) /\ k \in Seq(Tree) /\ Apart(k) /\ lhs.at \notin BlocksOf(k)
        /\ Blocks(lhs) = ({lhs.at} \ {0}) \cup BlocksOf(k)
    BY ProperKids
  <2>3. <<value>> \in Seq(Tree) /\ BlocksOf(<<value>>) = Blocks(value) /\ Apart(<<value>>)
    BY OneTree DEF Proper
  <2>4. 1 \in Positive
    BY DEF Positive
  <2>5. ids[1] \in Addresses(ids) /\ ids[1] \in Positive /\ ids[1] \notin A
    BY <2>4 DEF FreshFor, Addresses
  <2>6. v # Nothing /\ v.kind = "assignment" /\ NamesOK(v) /\ KidsOK(v)
    BY NodeIsSome, PlainNode
  <2> HIDE DEF k
  <2>7. u \in Seq(Proper)
    BY <2>2
  <2> DEFINE w == <<value>>
  <2>7a. w \in Seq(Tree) /\ BlocksOf(w) = Blocks(value) /\ Apart(w) /\ u = k \o w
    BY <2>3
  <2> HIDE DEF w, u
  <2>8. BlocksOf(u) = BlocksOf(k) \cup BlocksOf(w) /\ (Apart(u) <=> Apart(k) /\ Apart(w) /\ BlocksOf(k) \cap BlocksOf(w) = {})
    BY <2>2, <2>7a, Joined
  <2>9. Apart(u) /\ BlocksOf(u) = BlocksOf(k) \cup Blocks(value)
    BY <2>2, <2>7a, <2>8
  <2>10. ASSUME v \in Tree PROVE Keeps(v, {lhs.at}, A, ids)
    <3> DEFINE at == ids[1]
    <3>1. at \in Nat /\ at # 0 /\ at \notin BlocksOf(u) /\ at \in Addresses(ids)
      BY <2>2, <2>5, <2>9 DEF Positive
    <3>2. v = Node("assignment", at, u)
      OBVIOUS
    <3> HIDE DEF v, at
    <3>3. v \in Proper /\ Blocks(v) = ({at} \ {0}) \cup BlocksOf(u)
      BY <2>6, <2>7, <2>9, <2>10, <3>1, <3>2, NewNode
    <3>4. lhs.at \notin Blocks(value)
      <4>1. 0 \notin Blocks(value)
        BY ProperSeqs DEF Positive
      <4> QED
        BY <2>2, <4>1
    <3> QED
      BY <2>2, <2>9, <3>1, <3>3, <3>4 DEF Keeps
  <2>11. {lhs.at} \subseteq A \cup {0}
    BY <2>2
  <2> HIDE DEF v
  <2> QED
    BY <2>1, <2>6, <2>10, <2>11, MadeHandles
<1>2. CASE lhs.kind = "call" /\ lhs.kids[1].kind = "attribute"
  <2>1. AssignmentFromLhs(lhs, value, ids) = MethodFromLhs(lhs, value, ids)
    BY <1>2 DEF AssignmentFromLhs
  <2> QED
    BY <1>2, <2>1, MethodHandles
<1>3. CASE lhs.kind = "call" /\ lhs.kids[1].kind # "attribute"
  <2>1. AssignmentFromLhs(lhs, value, ids) = FunctionFromLhs(lhs, value, ids)
    BY <1>3 DEF AssignmentFromLhs
  <2> QED
    BY <1>3, <2>1, FunctionHandles
<1>4. CASE lhs.kind \notin {"identifier", "attribute", "call"}
  <2>1. AssignmentFromLhs(lhs, value, ids) = Discard(lhs, value)
    BY <1>4 DEF AssignmentFromLhs
  <2> QED
    BY <2>1, DiscardHandles
<1> QED
  BY <1>1, <1>2, <1>3, <1>4

-----------------------------------------------------------------------------
(***************************************************************************)
(* Rules whose actions make one node.                                      *)
(***************************************************************************)
\* The values of rules with one tree, or two.
LEMMA FromOne ==
  ASSUME NEW args \in Seq(Proper), NEW p \in DOMAIN args, args[p] # Nothing,
         \A i \in DOMAIN args : i # p => args[i] = Nothing
  PROVE  Parts(args) = <<args[p]>> /\ args[p] \in Proper /\ BlocksOf(args) = Blocks(args[p])
<1>1. Parts(args) = <<args[p]>> /\ args[p] \in Proper
  BY PartsOne
<1>2. \A i \in DOMAIN args : i # p => Blocks(args[i]) = {}
  BY NothingIs
<1>3. BlocksOf(args) = Blocks(args[p])
  BY <1>2 DEF BlocksOf
<1> QED
  BY <1>1, <1>3

LEMMA FromTwo ==
  ASSUME NEW args \in Seq(Proper), Apart(args), NEW p \in DOMAIN args, NEW q \in DOMAIN args, p < q,
         args[p] # Nothing, args[q] # Nothing,
         \A i \in DOMAIN args : i # p /\ i # q => args[i] = Nothing
  PROVE  /\ Parts(args) = <<args[p], args[q]>> /\ args[p] \in Proper /\ args[q] \in Proper
         /\ BlocksOf(args) = Blocks(args[p]) \cup Blocks(args[q]) /\ Blocks(args[p]) \cap Blocks(args[q]) = {}
<1>1. Parts(args) = <<args[p], args[q]>> /\ args[p] \in Proper /\ args[q] \in Proper
  BY PartsTwo
<1>2. \A i \in DOMAIN args : i # p /\ i # q => Blocks(args[i]) = {}
  BY NothingIs
<1>3. BlocksOf(args) = Blocks(args[p]) \cup Blocks(args[q])
  BY <1>2 DEF BlocksOf
<1>4. Blocks(args[p]) \cap Blocks(args[q]) = {}
  BY DEF Apart
<1> QED
  BY <1>1, <1>3, <1>4

\* The values of symbols are trees, or Nothing.
LEMMA FitsKinds ==
  ASSUME NEW v
  PROVE  /\ \A s \in {"id", "text"} : ValueFits(s, v) => v.kind = "text" /\ v # Nothing
         /\ \A s \in ListSymbols : ValueFits(s, v) => v.kind = "list" /\ v # Nothing
         /\ \A s \in ExprSymbols : ValueFits(s, v) => v.kind \in Expressions /\ v.kind # "list" /\ v # Nothing
         /\ \A s \in Tokens \ {"id", "text"} : ValueFits(s, v) => v = Nothing
<1>1. Nothing.kind = "nothing"
  BY NothingIs
<1>2. \A s \in {"id", "text"} : ValueFits(s, v) => v.kind = "text"
  BY DEF ValueFits
<1>3. \A s \in ListSymbols : ValueFits(s, v) => v.kind = "list"
  BY DEF ValueFits
<1>4. \A s \in ExprSymbols : ValueFits(s, v) => v.kind \in Expressions
  BY DEF ValueFits
<1>5. \A s \in Tokens \ {"id", "text"} : ValueFits(s, v) => v = Nothing
  BY DEF ValueFits
<1>6. "nothing" \notin Expressions /\ "list" \notin Expressions
  BY DEF Expressions
<1> QED
  BY <1>1, <1>2, <1>3, <1>4, <1>5, <1>6

LEMMA Fitting ==
  ASSUME NEW v
  PROVE  /\ \A s \in ListSymbols : v.kind = "list" => ValueFits(s, v)
         /\ \A s \in ExprSymbols : v.kind \in Expressions => ValueFits(s, v)
         /\ v.kind = "names" => ValueFits("lambda_head", v)
<1>1. \A s \in ListSymbols : s \notin ExprSymbols /\ s \notin Tokens /\ s # "lambda_head" /\ s \notin {"id", "text"}
  BY DEF ListSymbols, ExprSymbols, Tokens
<1>2. \A s \in ExprSymbols : s \notin ListSymbols /\ s \notin Tokens /\ s # "lambda_head" /\ s \notin {"id", "text"}
  BY DEF ListSymbols, ExprSymbols, Tokens
<1>3. "lambda_head" \notin ListSymbols /\ "lambda_head" \notin ExprSymbols /\ "lambda_head" \notin Tokens
      /\ "lambda_head" \notin {"id", "text"}
  BY DEF ListSymbols, ExprSymbols, Tokens
<1>4. \A s \in ListSymbols : v.kind = "list" => ValueFits(s, v)
  BY <1>1 DEF ValueFits
<1>5. \A s \in ExprSymbols : v.kind \in Expressions => ValueFits(s, v)
  BY <1>2 DEF ValueFits
<1>6. v.kind = "names" => ValueFits("lambda_head", v)
  BY <1>3 DEF ValueFits
<1> QED
  BY <1>4, <1>5, <1>6

\* What an action is given, and what it must do.
Given(rule, args, ids) ==
  /\ args \in Seq(Proper) /\ Apart(args) /\ Len(args) = Len(rule.rhs)
  /\ \A i \in DOMAIN args : ValueFits(rule.rhs[i], args[i])
  /\ FreshFor(ids, BlocksOf(args))

Right(rule, args, ids) ==
  /\ Handles(Action(rule, args, ids), BlocksOf(args), ids)
  /\ Action(rule, args, ids).val # Nothing => ValueFits(rule.lhs, Action(rule, args, ids).val)

LEMMA PartsOf ==
  ASSUME NEW args \in Seq(Proper), Apart(args)
  PROVE  Parts(args) \in Seq(Proper) /\ Apart(Parts(args)) /\ BlocksOf(Parts(args)) = BlocksOf(args)
<1>1. Proper \in SUBSET Tree
  BY DEF Proper
<1> QED
  BY <1>1, PartsAre

\* Rules that make a node of their kind, with their trees.
LEMMA OtherRules ==
  ASSUME NEW rule, NEW args, NEW ids, Given(rule, args, ids), rule.kind \notin OwnKinds, rule.lhs \in ExprSymbols,
         rule.kind \in Expressions, NamesOK(Node(rule.kind, ids[1], Parts(args))),
         KidsOK(Node(rule.kind, ids[1], Parts(args)))
  PROVE  Right(rule, args, ids)
<1> DEFINE v == Node(rule.kind, ids[1], Parts(args))
<1>1. Action(rule, args, ids) = Made(v, {})
  BY DEF Action, OwnKinds
<1>2. 1 \in Positive /\ rule.kind # "nothing"
  BY DEF Positive, Expressions
<1>3. Parts(args) \in Seq(Proper) /\ Apart(Parts(args)) /\ BlocksOf(Parts(args)) = BlocksOf(args)
  BY PartsOf DEF Given
<1>4. FreshFor(ids, BlocksOf(args))
  BY DEF Given
<1>5. Handles(Made(v, {}), BlocksOf(args), ids)
  BY <1>2, <1>3, <1>4, NewNodeHandles
<1>6. v.kind \in Expressions /\ Made(v, {}).val = v
  BY NodeIsSome, <1>2 DEF Made
<1> HIDE DEF v
<1>7. ValueFits(rule.lhs, v)
  BY <1>6, Fitting
<1> QED
  BY <1>1, <1>5, <1>6, <1>7 DEF Right

LEMMA RightOperators ==
  ASSUME NEW rule \in Operators, NEW args, NEW ids, Given(rule, args, ids)
  PROVE  Right(rule, args, ids)
<1>1. /\ rule.kind \notin OwnKinds /\ rule.kind \in Expressions \ {"method", "identifier", "call", "attribute"}
      /\ rule.lhs \in ExprSymbols
  BY OperatorRules
<1>2. rule.kind \notin {"names", "method", "call", "attribute", "identifier"}
  BY <1>1 DEF Expressions
<1>3. NamesOK(Node(rule.kind, ids[1], Parts(args))) /\ KidsOK(Node(rule.kind, ids[1], Parts(args)))
  BY <1>2, PlainNode
<1> QED
  BY <1>1, <1>3, OtherRules

LEMMA SymbolsAre ==
  /\ {"call", "assignment", "application_argument"} \subseteq ExprSymbols
  /\ {"superclass_tuple", "argument_list", "tuple_list"} \subseteq ListSymbols
  /\ {":=", "fix", "new", "(", ")", "comma", "attr"} \subseteq Tokens \ {"id", "text"}
BY DEF ExprSymbols, ListSymbols, Tokens

LEMMA RightBinders ==
  ASSUME NEW rule \in Binders, NEW args, NEW ids, Given(rule, args, ids)
  PROVE  Right(rule, args, ids)
<1>0. rule.lhs \in ExprSymbols
  BY BinderRules
<1>1. CASE rule.kind \notin {"assignment", "fix"}
  <2>1. rule.kind \notin OwnKinds /\ rule.kind \in Expressions \ {"method", "identifier", "call", "attribute"}
    BY <1>1, BinderRules
  <2>2. rule.kind \notin {"names", "method", "call", "attribute", "identifier"}
    BY <2>1 DEF Expressions
  <2>3. NamesOK(Node(rule.kind, ids[1], Parts(args))) /\ KidsOK(Node(rule.kind, ids[1], Parts(args)))
    BY <2>2, PlainNode
  <2> QED
    BY <1>0, <2>1, <2>3, OtherRules
<1>2. CASE rule.kind \in {"assignment", "fix"}
  <2> DEFINE a == args[1]
             b == args[3]
  <2>1. \E t \in {":=", "fix"}, s \in {"call", "assignment"} : rule.rhs = <<s, t, "assignment">>
    BY <1>2, BinderRules
  <2>2. DOMAIN args = {1, 2, 3} /\ args \in Seq(Proper) /\ Apart(args)
        /\ \A i \in DOMAIN args : ValueFits(rule.rhs[i], args[i])
    BY <2>1 DEF Given
  <2>3. rule.rhs[1] \in ExprSymbols /\ rule.rhs[2] \in Tokens \ {"id", "text"} /\ rule.rhs[3] \in ExprSymbols
    BY <2>1, SymbolsAre
  <2>4. a # Nothing /\ args[2] = Nothing /\ b # Nothing
    BY <2>2, <2>3, FitsKinds
  <2>5. /\ Parts(args) = <<a, b>> /\ a \in Proper /\ b \in Proper
        /\ BlocksOf(args) = Blocks(a) \cup Blocks(b) /\ Blocks(a) \cap Blocks(b) = {}
    BY <2>2, <2>4, FromTwo
  <2>6. Parts(args)[1] = a /\ Parts(args)[2] = b /\ FreshFor(ids, BlocksOf(args))
    BY <2>5 DEF Given
  <2> HIDE DEF a, b
  <2>7. CASE rule.kind = "assignment"
    <3>1. Action(rule, args, ids) = AssignmentFromLhs(a, b, ids)
      BY <2>6, <2>7 DEF Action
    <3> DEFINE x == AssignmentFromLhs(a, b, ids)
    <3>2. Handles(x, BlocksOf(args), ids) /\ (x.val # Nothing => x.val.kind \in {"assignment", "method"})
      BY <2>5, <2>6, AssignmentHandles
    <3> HIDE DEF x
    <3>3. x.val # Nothing => ValueFits(rule.lhs, x.val)
      <4>1. {"assignment", "method"} \subseteq Expressions
        BY DEF Expressions, Kinds
      <4> QED
        BY <1>0, <3>2, <4>1, Fitting
    <3> QED
      BY <3>1, <3>2, <3>3 DEF Right, x
  <2>8. CASE rule.kind = "fix"
    <3>1. Action(rule, args, ids) = FixFromLhs(a, b, ids)
      BY <2>6, <2>8 DEF Action
    <3> DEFINE x == FixFromLhs(a, b, ids)
    <3>2. Handles(x, BlocksOf(args), ids) /\ (x.val # Nothing => x.val.kind = "fix")
      BY <2>5, <2>6, FixHandles
    <3> HIDE DEF x
    <3>3. x.val # Nothing => ValueFits(rule.lhs, x.val)
      <4>1. "fix" \in Expressions
        BY DEF Expressions, Kinds
      <4> QED
        BY <1>0, <3>2, <4>1, Fitting
    <3> QED
      BY <3>1, <3>2, <3>3 DEF Right, x
  <2> QED
    BY <1>2, <2>7, <2>8
<1> QED
  BY <1>1, <1>2

\* Rules whose action only makes a node.
LEMMA RightNode ==
  ASSUME NEW rule, NEW args, NEW ids, NEW v, NEW freed,
         Action(rule, args, ids) = Made(v, freed), Handles(Made(v, freed), BlocksOf(args), ids),
         ValueFits(rule.lhs, v)
  PROVE  Right(rule, args, ids)
<1>1. Made(v, freed).val = v
  BY DEF Made
<1> QED
  BY <1>1 DEF Right

LEMMA RightCalls ==
  ASSUME NEW rule \in Calls, NEW args, NEW ids, Given(rule, args, ids)
  PROVE  Right(rule, args, ids)
<1>0. /\ rule.lhs \in ExprSymbols /\ rule.kind \in {"new", "call", "attribute", "tuple"}
  BY CallRules
<1>1. /\ args \in Seq(Proper) /\ Apart(args) /\ FreshFor(ids, BlocksOf(args))
      /\ \A i \in DOMAIN args : ValueFits(rule.rhs[i], args[i])
      /\ DOMAIN args = 1..Len(rule.rhs)
  BY DEF Given
<1>2. {"new", "call", "attribute", "nil", "cons"} \subseteq Expressions
  BY DEF Expressions, Kinds
<1>3. CASE rule.kind = "new"
  <2> DEFINE t == args[2]
             v == Node("new", ids[1], <<Identifier(ids[2], t)>>)
  <2>1. rule.rhs = <<"new", "id">>
    BY <1>3, CallRules
  <2>2. DOMAIN args = {1, 2} /\ rule.rhs[1] = "new" /\ rule.rhs[2] = "id"
    BY <1>1, <2>1
  <2>3. args[1] = Nothing /\ t # Nothing
    BY <1>1, <2>2, FitsKinds, SymbolsAre
  <2>4. Parts(args) = <<t>> /\ t \in Proper /\ BlocksOf(args) = Blocks(t)
    BY <1>1, <2>2, <2>3, FromOne
  <2>5. Parts(args)[1] = t
    BY <2>4
  <2> HIDE DEF t
  <2>6. Action(rule, args, ids) = Made(v, {})
    BY <1>3, <2>5 DEF Action
  <2>7. Handles(Made(v, {}), BlocksOf(args), ids)
    BY <1>1, <2>4, NewHandles
  <2>8. v.kind \in Expressions
    BY <1>2, NodeIsSome
  <2> HIDE DEF v
  <2> QED
    BY <1>0, <2>6, <2>7, <2>8, Fitting, RightNode
<1>4. CASE rule.kind = "call"
  <2> DEFINE v == CallNode(Parts(args), ids)
  <2>1. Action(rule, args, ids) = Made(v, {})
    BY <1>4 DEF Action
  <2>2. Handles(Made(v, {}), BlocksOf(args), ids) /\ v.kind = "call"
    <3>1. CASE rule.rhs = <<"call", "(", ")">>
      <4>1. DOMAIN args = {1, 2, 3} /\ rule.rhs[1] = "call" /\ rule.rhs[2] = "(" /\ rule.rhs[3] = ")"
        BY <1>1, <3>1
      <4>2. args[1] # Nothing /\ args[2] = Nothing /\ args[3] = Nothing
        BY <1>1, <4>1, FitsKinds, SymbolsAre
      <4>3. Parts(args) = <<args[1]>> /\ args[1] \in Proper /\ BlocksOf(args) = Blocks(args[1])
        BY <1>1, <4>1, <4>2, FromOne
      <4> QED
        BY <1>1, <4>3, CallWithNone
    <3>2. CASE rule.rhs = <<"call", "(", "argument_list", ")">>
      <4>1. DOMAIN args = {1, 2, 3, 4} /\ rule.rhs[1] = "call" /\ rule.rhs[2] = "(" /\ rule.rhs[3] = "argument_list" /\ rule.rhs[4] = ")"
        BY <1>1, <3>2
      <4>1a. /\ ValueFits("call", args[1]) /\ ValueFits("(", args[2])
             /\ ValueFits("argument_list", args[3]) /\ ValueFits(")", args[4])
        BY <1>1, <4>1
      <4>1b. args[1] # Nothing /\ args[2] = Nothing
        BY <4>1a, FitsKinds, SymbolsAre
      <4>1c. args[3] # Nothing /\ args[3].kind = "list" /\ args[4] = Nothing
        BY <4>1a, FitsKinds, SymbolsAre
      <4>2. args[1] # Nothing /\ args[2] = Nothing /\ args[3] # Nothing /\ args[3].kind = "list" /\ args[4] = Nothing
        BY <4>1b, <4>1c
      <4>3. /\ Parts(args) = <<args[1], args[3]>> /\ args[1] \in Proper /\ args[3] \in Proper
            /\ BlocksOf(args) = Blocks(args[1]) \cup Blocks(args[3]) /\ Blocks(args[1]) \cap Blocks(args[3]) = {}
        BY <1>1, <4>1, <4>2, FromTwo
      <4> QED
        BY <1>1, <4>2, <4>3, CallWithList
    <3>3. CASE rule.rhs = <<"call", "application_argument">>
      <4>1. DOMAIN args = {1, 2} /\ rule.rhs[1] = "call" /\ rule.rhs[2] = "application_argument"
        BY <1>1, <3>3
      <4>2. args[1] # Nothing /\ args[2] # Nothing /\ args[2].kind # "list"
        BY <1>1, <4>1, FitsKinds, SymbolsAre
      <4>3. /\ Parts(args) = <<args[1], args[2]>> /\ args[1] \in Proper /\ args[2] \in Proper
            /\ BlocksOf(args) = Blocks(args[1]) \cup Blocks(args[2]) /\ Blocks(args[1]) \cap Blocks(args[2]) = {}
        BY <1>1, <4>1, <4>2, FromTwo
      <4> QED
        BY <1>1, <4>2, <4>3, CallWithOne
    <3> QED
      BY <1>4, <3>1, <3>2, <3>3, CallRules
  <2>3. v.kind \in Expressions
    BY <1>2, <2>2
  <2> HIDE DEF v
  <2> QED
    BY <1>0, <2>1, <2>2, <2>3, Fitting, RightNode
<1>5. CASE rule.kind = "attribute"
  <2>1. rule.rhs = <<"call", "attr", "id">>
    BY <1>5, CallRules
  <2>2. DOMAIN args = {1, 2, 3} /\ rule.rhs[1] = "call" /\ rule.rhs[2] = "attr" /\ rule.rhs[3] = "id"
    BY <1>1, <2>1
  <2>3. args[1] # Nothing /\ args[2] = Nothing /\ args[3] # Nothing
    BY <1>1, <2>2, FitsKinds, SymbolsAre
  <2>4. Parts(args) = <<args[1], args[3]>>
    BY <1>1, <2>2, <2>3, FromTwo
  <2>5. NamesOK(Node("attribute", ids[1], Parts(args))) /\ KidsOK(Node("attribute", ids[1], Parts(args)))
    BY <2>4 DEF NamesOK, KidsOK, Node
  <2>6. "attribute" \notin OwnKinds
    BY DEF OwnKinds
  <2> QED
    BY <1>0, <1>2, <1>5, <2>5, <2>6, OtherRules
<1>6. CASE rule.kind = "tuple"
  <2> DEFINE t == args[2]
             v == Tuple(t, ids)
  <2>1. rule.rhs = <<"(", "tuple_list", ")">>
    BY <1>6, CallRules
  <2>2. DOMAIN args = {1, 2, 3} /\ rule.rhs[1] = "(" /\ rule.rhs[2] = "tuple_list" /\ rule.rhs[3] = ")"
    BY <1>1, <2>1
  <2>3. args[1] = Nothing /\ t # Nothing /\ args[3] = Nothing
    BY <1>1, <2>2, FitsKinds, SymbolsAre
  <2>4. Parts(args) = <<t>> /\ t \in Proper /\ BlocksOf(args) = Blocks(t)
    BY <1>1, <2>2, <2>3, FromOne
  <2>5. Parts(args)[1] = t
    BY <2>4
  <2> HIDE DEF t
  <2>6. Action(rule, args, ids) = Made(v, {t.at})
    BY <1>6, <2>5 DEF Action
  <2>7. Handles(Made(v, {t.at}), BlocksOf(args), ids) /\ v.kind \in {"nil", "cons"}
    BY <1>1, <2>4, TupleHandles
  <2>8. v.kind \in Expressions
    BY <1>2, <2>7
  <2> HIDE DEF v
  <2> QED
    BY <1>0, <2>6, <2>7, <2>8, Fitting, RightNode
<1> QED
  BY <1>0, <1>3, <1>4, <1>5, <1>6

-----------------------------------------------------------------------------
(***************************************************************************)
(* The other rules, and all of them.                                       *)
(***************************************************************************)
LEMMA NoParts ==
  ASSUME NEW args \in Seq(Proper), \A i \in DOMAIN args : args[i] = Nothing
  PROVE  Parts(args) = <<>>
<1>1. Proper \in SUBSET Tree
  BY DEF Proper
<1>2. /\ Parts(args) \in Seq(Proper)
      /\ \A k \in DOMAIN Parts(args) : Parts(args)[k] # Nothing /\ \E i \in DOMAIN args : Parts(args)[k] = args[i]
  BY <1>1, PartsAre
<1>3. DOMAIN Parts(args) = {}
  BY <1>2
<1>4. Len(Parts(args)) = 0
  BY <1>2, <1>3
<1> QED
  BY <1>2, <1>4

LEMMA RightClasses ==
  ASSUME NEW rule \in Lists, rule.kind = "classes", NEW args, NEW ids, Given(rule, args, ids)
  PROVE  Right(rule, args, ids)
<1>0. rule.lhs \in ListSymbols
  BY ListRules
<1>1. /\ args \in Seq(Proper) /\ Apart(args) /\ FreshFor(ids, BlocksOf(args))
      /\ \A i \in DOMAIN args : ValueFits(rule.rhs[i], args[i])
      /\ DOMAIN args = 1..Len(rule.rhs)
  BY DEF Given
<1> DEFINE v == ClassList(Parts(args), ids)
<1>2. Action(rule, args, ids) = Made(v, {})
  BY DEF Action
<1>3. Handles(Made(v, {}), BlocksOf(args), ids) /\ v.kind = "list"
  <2>1. CASE rule.rhs = <<"id">>
    <3>1. DOMAIN args = {1} /\ rule.rhs[1] = "id"
      BY <1>1, <2>1
    <3>2. args[1] # Nothing /\ args[1].kind = "text"
      BY <1>1, <3>1, FitsKinds
    <3>3. Parts(args) = <<args[1]>> /\ args[1] \in Proper /\ BlocksOf(args) = Blocks(args[1])
      BY <1>1, <3>1, <3>2, FromOne
    <3> QED
      BY <1>1, <3>2, <3>3, OneClass
  <2>2. CASE rule.rhs = <<"id", "comma", "id">>
    <3>1. DOMAIN args = {1, 2, 3} /\ rule.rhs[1] = "id" /\ rule.rhs[2] = "comma" /\ rule.rhs[3] = "id"
      BY <1>1, <2>2
    <3>2. args[1] # Nothing /\ args[1].kind = "text" /\ args[2] = Nothing /\ args[3] # Nothing /\ args[3].kind = "text"
      BY <1>1, <3>1, FitsKinds, SymbolsAre
    <3>3. /\ Parts(args) = <<args[1], args[3]>> /\ args[1] \in Proper /\ args[3] \in Proper
          /\ BlocksOf(args) = Blocks(args[1]) \cup Blocks(args[3]) /\ Blocks(args[1]) \cap Blocks(args[3]) = {}
      BY <1>1, <3>1, <3>2, FromTwo
    <3> QED
      BY <1>1, <3>2, <3>3, TwoClasses
  <2>3. CASE rule.rhs = <<"superclass_tuple", "comma", "id">>
    <3>1. DOMAIN args = {1, 2, 3} /\ rule.rhs[1] = "superclass_tuple" /\ rule.rhs[2] = "comma" /\ rule.rhs[3] = "id"
      BY <1>1, <2>3
    <3>2. args[1] # Nothing /\ args[1].kind = "list" /\ args[2] = Nothing /\ args[3] # Nothing /\ args[3].kind = "text"
      BY <1>1, <3>1, FitsKinds, SymbolsAre
    <3>3. /\ Parts(args) = <<args[1], args[3]>> /\ args[1] \in Proper /\ args[3] \in Proper
          /\ BlocksOf(args) = Blocks(args[1]) \cup Blocks(args[3]) /\ Blocks(args[1]) \cap Blocks(args[3]) = {}
      BY <1>1, <3>1, <3>2, FromTwo
    <3> QED
      BY <1>1, <3>2, <3>3, MoreClasses
  <2> QED
    BY <2>1, <2>2, <2>3, ClassListRules
<1> HIDE DEF v
<1> QED
  BY <1>0, <1>2, <1>3, Fitting, RightNode

LEMMA RightPass ==
  ASSUME NEW rule \in Lists, rule.kind = "pass", NEW args, NEW ids, Given(rule, args, ids)
  PROVE  Right(rule, args, ids) /\ Action(rule, args, ids).freed = {} /\ Action(rule, args, ids).val # Nothing
<1>0. rule.lhs \in ListSymbols /\ rule.rhs = <<"(", "superclass_tuple", ")">>
  BY ListRules
<1>1. /\ args \in Seq(Proper) /\ Apart(args) /\ FreshFor(ids, BlocksOf(args))
      /\ \A i \in DOMAIN args : ValueFits(rule.rhs[i], args[i])
      /\ DOMAIN args = 1..Len(rule.rhs)
  BY DEF Given
<1> DEFINE t == args[2]
<1>2. DOMAIN args = {1, 2, 3} /\ rule.rhs[1] = "(" /\ rule.rhs[2] = "superclass_tuple" /\ rule.rhs[3] = ")"
  BY <1>0, <1>1
<1>3. args[1] = Nothing /\ t # Nothing /\ t.kind = "list" /\ args[3] = Nothing
  BY <1>1, <1>2, FitsKinds, SymbolsAre
<1>4. Parts(args) = <<t>> /\ t \in Proper /\ BlocksOf(args) = Blocks(t)
  BY <1>1, <1>2, <1>3, FromOne
<1>5. Parts(args)[1] = t
  BY <1>4
<1> HIDE DEF t
<1>6. Action(rule, args, ids) = Made(t, {})
  BY <1>5 DEF Action
<1>7. Keeps(t, {}, BlocksOf(args), ids)
  BY <1>4 DEF Keeps
<1>8. Handles(Made(t, {}), BlocksOf(args), ids)
  BY <1>3, <1>7, MadeHandles
<1>9. Right(rule, args, ids)
  BY <1>0, <1>3, <1>6, <1>8, Fitting, RightNode
<1> QED
  BY <1>3, <1>6, <1>9 DEF Made

LEMMA RightGrowing ==
  ASSUME NEW rule \in Lists, rule.kind = "list", NEW args, NEW ids, Given(rule, args, ids)
  PROVE  Right(rule, args, ids)
<1>0. rule.lhs \in ListSymbols
  BY ListRules
<1>1. /\ args \in Seq(Proper) /\ Apart(args) /\ FreshFor(ids, BlocksOf(args))
      /\ \A i \in DOMAIN args : ValueFits(rule.rhs[i], args[i])
      /\ DOMAIN args = 1..Len(rule.rhs)
  BY DEF Given
<1> DEFINE v == ListOf(Parts(args), ids)
<1>2. Action(rule, args, ids) = Made(v, {})
  BY DEF Action
<1>3. Parts(args) \in Seq(Proper) /\ Apart(Parts(args)) /\ BlocksOf(Parts(args)) = BlocksOf(args)
  BY <1>1, PartsOf
<1>4. Parts(args) # <<>>
  <2>1. CASE rule.rhs = <<"assignment">>
    <3>1. DOMAIN args = {1} /\ rule.rhs[1] = "assignment"
      BY <1>1, <2>1
    <3>2. args[1] # Nothing
      BY <1>1, <3>1, FitsKinds, SymbolsAre
    <3>3. Parts(args) = <<args[1]>>
      BY <1>1, <3>1, <3>2, FromOne
    <3> QED
      BY <3>3
  <2>2. CASE \E s \in {"assignment", "argument_list", "tuple_list"} : rule.rhs = <<s, "comma", "assignment">>
    <3>0. PICK s \in {"assignment", "argument_list", "tuple_list"} : rule.rhs = <<s, "comma", "assignment">>
      BY <2>2
    <3>1. DOMAIN args = {1, 2, 3} /\ rule.rhs[1] = s /\ rule.rhs[2] = "comma" /\ rule.rhs[3] = "assignment"
      BY <1>1, <3>0
    <3>1a. ValueFits(s, args[1]) /\ ValueFits("comma", args[2]) /\ ValueFits("assignment", args[3])
      BY <1>1, <3>1
    <3>1b. s \in ExprSymbols \/ s \in ListSymbols
      BY SymbolsAre
    <3>1c. args[1] # Nothing
      BY <3>1a, <3>1b, FitsKinds
    <3>2. args[1] # Nothing /\ args[2] = Nothing /\ args[3] # Nothing
      BY <3>1a, <3>1c, FitsKinds, SymbolsAre
    <3>3. Parts(args) = <<args[1], args[3]>>
      BY <1>1, <3>1, <3>2, FromTwo
    <3> QED
      BY <3>3
  <2> QED
    BY <2>1, <2>2, ArgumentListRules
<1>5. Handles(Made(v, {}), BlocksOf(args), ids) /\ v.kind = "list"
  BY <1>1, <1>3, <1>4, ListOfHandles
<1> HIDE DEF v
<1> QED
  BY <1>0, <1>2, <1>5, Fitting, RightNode

LEMMA RightNames ==
  ASSUME NEW rule \in Lists, rule.kind = "names", NEW args, NEW ids, Given(rule, args, ids)
  PROVE  Right(rule, args, ids)
<1>0. rule.lhs = "lambda_head"
  BY ListRules
<1>1. /\ args \in Seq(Proper) /\ Apart(args) /\ FreshFor(ids, BlocksOf(args))
      /\ \A i \in DOMAIN args : ValueFits(rule.rhs[i], args[i])
      /\ DOMAIN args = 1..Len(rule.rhs)
  BY DEF Given
<1>2. CASE rule.rhs \in {<<"id">>, <<"(", ")">>}
  <2> DEFINE p == Parts(args)
             v == Names_(ids[1], p)
  <2>1. Len(rule.rhs) = 1 \/ Len(rule.rhs) = 2
    <3>1. Len(<<"id">>) = 1 /\ Len(<<"(", ")">>) = 2
      OBVIOUS
    <3>2. rule.rhs = <<"id">> \/ rule.rhs = <<"(", ")">>
      BY <1>2
    <3> QED
      BY <3>1, <3>2
  <2>2. Action(rule, args, ids) = Made(v, {})
    <3> DEFINE small == Len(rule.rhs) < 3
               three == Len(rule.rhs) = 3
    <3>1. small /\ ~three
      <4> DEFINE n == Len(rule.rhs)
      <4>1. n = 1 \/ n = 2
        BY <2>1
      <4> HIDE DEF n
      <4>2. n < 3 /\ n # 3
        BY <4>1
      <4> QED
        BY <4>2 DEF n
    <3>2. Action(rule, args, ids) = Made(v, {}) \/ ~small \/ three
      BY DEF Action
    <3> HIDE DEF small, three
    <3> QED
      BY <3>1, <3>2
  <2>3. p \in Seq(Proper) /\ Apart(p) /\ BlocksOf(p) = BlocksOf(args)
    BY <1>1, PartsOf
  <2>4. \A i, j \in DOMAIN p : i = j
    <3>1. CASE rule.rhs = <<"id">>
      <4>1. DOMAIN args = {1} /\ rule.rhs[1] = "id"
        BY <1>1, <3>1
      <4>2. args[1] # Nothing
        BY <1>1, <4>1, FitsKinds
      <4>3. p = <<args[1]>>
        BY <1>1, <4>1, <4>2, FromOne
      <4> QED
        BY <4>3
    <3>2. CASE rule.rhs = <<"(", ")">>
      <4>1. DOMAIN args = {1, 2} /\ rule.rhs[1] = "(" /\ rule.rhs[2] = ")"
        BY <1>1, <3>2
      <4>2. args[1] = Nothing /\ args[2] = Nothing
        BY <1>1, <4>1, FitsKinds, SymbolsAre
      <4>3. p = <<>>
        BY <1>1, <4>1, <4>2, NoParts
      <4> QED
        BY <4>3
    <3> QED
      BY <1>2, <3>1, <3>2
  <2>5. v.kind = "names" /\ v.kids = p /\ v = Node("names", ids[1], p)
    BY DEF Names_, Node
  <2> HIDE DEF p, v
  <2>6. NamesOK(v) /\ KidsOK(v)
    BY <2>4, <2>5 DEF NamesOK, KidsOK
  <2>7. 1 \in Positive
    BY DEF Positive
  <2>8. Handles(Made(v, {}), BlocksOf(args), ids)
    BY <1>1, <2>3, <2>5, <2>6, <2>7, NewNodeHandles
  <2>9. ValueFits(rule.lhs, v)
    BY <1>0, <2>5, Fitting
  <2> QED
    BY <2>2, <2>8, <2>9, RightNode
<1>3. CASE rule.rhs = <<"(", "tuple_list", ")">>
  <2> DEFINE t == args[2]
  <2>1. DOMAIN args = {1, 2, 3} /\ rule.rhs[1] = "(" /\ rule.rhs[2] = "tuple_list" /\ rule.rhs[3] = ")"
        /\ Len(rule.rhs) = 3
    BY <1>1, <1>3
  <2>2. args[1] = Nothing /\ t # Nothing /\ args[3] = Nothing
    BY <1>1, <2>1, FitsKinds, SymbolsAre
  <2>3. Parts(args) = <<t>> /\ t \in Proper /\ BlocksOf(args) = Blocks(t)
    BY <1>1, <2>1, <2>2, FromOne
  <2>4. Parts(args)[1] = t
    BY <2>3
  <2> HIDE DEF t
  <2> DEFINE x == NamesFromTuple(t, ids)
  <2>5. Action(rule, args, ids) = x
    BY <2>1, <2>4 DEF Action
  <2>6. Handles(x, BlocksOf(args), ids) /\ (x.val # Nothing => x.val.kind = "names")
    BY <1>1, <2>3, NamesFromTupleHandles
  <2> HIDE DEF x
  <2>7. x.val # Nothing => ValueFits(rule.lhs, x.val)
    BY <1>0, <2>6, Fitting
  <2> QED
    BY <2>5, <2>6, <2>7 DEF Right
<1> QED
  BY <1>2, <1>3, NameListRules

LEMMA RightLeaves ==
  ASSUME NEW rule \in Leaves, NEW args, NEW ids, Given(rule, args, ids)
  PROVE  Right(rule, args, ids)
<1>0. rule.lhs \in ExprSymbols /\ rule.kind \in {"identifier", "nil", "leaf"}
  BY LeafRules
<1>1. rule.kind \notin OwnKinds /\ rule.kind \in Expressions
  BY <1>0 DEF OwnKinds, Expressions, Kinds
<1>2. /\ args \in Seq(Proper) /\ Apart(args) /\ FreshFor(ids, BlocksOf(args))
      /\ \A i \in DOMAIN args : ValueFits(rule.rhs[i], args[i])
      /\ DOMAIN args = 1..Len(rule.rhs)
  BY DEF Given
<1>3. NamesOK(Node(rule.kind, ids[1], Parts(args))) /\ KidsOK(Node(rule.kind, ids[1], Parts(args)))
  <2>1. CASE rule.kind # "identifier"
    BY <1>0, <2>1, PlainNode
  <2>2. CASE rule.kind = "identifier"
    <3>1. rule.rhs = <<"id">>
      BY <2>2, LeafRules
    <3>2. DOMAIN args = {1} /\ rule.rhs[1] = "id"
      BY <1>2, <3>1
    <3>3. args[1] # Nothing
      BY <1>2, <3>2, FitsKinds
    <3>4. Parts(args) = <<args[1]>>
      BY <1>2, <3>2, <3>3, FromOne
    <3> QED
      BY <2>2, <3>4 DEF NamesOK, KidsOK, Node
  <2> QED
    BY <2>1, <2>2
<1> QED
  BY <1>0, <1>1, <1>3, OtherRules

\* Every action keeps the blocks of its trees, or frees them.
LEMMA ActionsAreRight ==
  ASSUME NEW rule \in Rules, rule # Start, NEW args, NEW ids, Given(rule, args, ids)
  PROVE  /\ Right(rule, args, ids)
         /\ rule.kind = "pass" => Action(rule, args, ids).freed = {}
<1>1. CASE rule \in Operators
  <2>1. rule.kind # "pass"
    BY <1>1, OperatorRules DEF OwnKinds
  <2> QED
    BY <1>1, <2>1, RightOperators
<1>2. CASE rule \in Binders
  <2>1. rule.kind # "pass"
    BY <1>2, BinderRules DEF OwnKinds
  <2> QED
    BY <1>2, <2>1, RightBinders
<1>3. CASE rule \in Calls
  <2>1. rule.kind # "pass"
    BY <1>3, CallRules
  <2> QED
    BY <1>3, <2>1, RightCalls
<1>4. CASE rule \in Lists
  BY <1>4, ListRules, RightClasses, RightPass, RightGrowing, RightNames
<1>5. CASE rule \in Leaves
  <2>1. rule.kind # "pass"
    BY <1>5, LeafRules
  <2> QED
    BY <1>5, <2>1, RightLeaves
<1> QED
  BY <1>1, <1>2, <1>3, <1>4, <1>5 DEF Rules

-----------------------------------------------------------------------------
(***************************************************************************)
(* New addresses are free, and differ.                                     *)
(***************************************************************************)
LiveOK == IsFiniteSet(live) /\ live \subseteq Positive

LEMMA FreshIs ==
  ASSUME LiveOK, NEW i \in Positive
  PROVE  /\ Fresh[i] \in Positive /\ Fresh[i] \notin live
         /\ Cardinality((1..Fresh[i]) \ live) = i
<1> DEFINE n == Cardinality(live)
           top == n + i
           I == (1..top) \ live
           Candidates == {a \in I : Cardinality((1..a) \ live) = i}
<1>1. n \in Nat /\ i \in Nat /\ i > 0 /\ top \in Nat
  BY FS_CardinalityType DEF LiveOK, Positive
<1>2. IsFiniteSet(1..top) /\ Cardinality(1..top) = top
  <2> HIDE DEF top
  <2> QED
    BY <1>1, FirstNumbers
<1>3. Cardinality(I) >= i /\ Cardinality(I) \in Nat
  <2> DEFINE B == (1..top) \cap live
  <2>1. Cardinality(B) \in Nat /\ Cardinality(B) <= n
    <3>1. B \in SUBSET live
      OBVIOUS
    <3> HIDE DEF B
    <3> QED
      BY <3>1, FiniteSubsets DEF LiveOK
  <2>2. Cardinality((1..top) \ live) = Cardinality(1..top) - Cardinality((1..top) \cap live)
    <3> HIDE DEF top
    <3> QED
      BY <1>2, FS_Difference
  <2>3. Cardinality(I) = top - Cardinality(B)
    BY <1>2, <2>2
  <2> HIDE DEF B, I
  <2> QED
    BY <1>1, <2>1, <2>3
<1>4. I \in SUBSET (1..top)
  OBVIOUS
<1>5. Matches([a \in I |-> Rank(I, a)], I, 1..Cardinality(I))
  <2> HIDE DEF top, I
  <2> QED
    BY <1>1, <1>4, RanksMatch
<1>6. i \in 1..Cardinality(I)
  <2> HIDE DEF I
  <2> QED
    BY <1>1, <1>3
<1>7. \E a \in I : Rank(I, a) = i
  <2> HIDE DEF I
  <2> QED
    BY <1>5, <1>6 DEF Matches
<1>8. PICK a \in I : Rank(I, a) = i
  BY <1>7
<1>9. a \in Candidates
  <2>1. {j \in I : j <= a} = (1..a) \ live
    <3> HIDE DEF top
    <3> QED
      BY <1>1, <1>8
  <2> QED
    BY <1>8, <2>1 DEF Rank
<1>10. Fresh[i] = CHOOSE b \in I : Cardinality((1..b) \ live) = i
  BY DEF Fresh, Positive
<1>11. Fresh[i] \in Candidates
  <2> HIDE DEF I
  <2> QED
    BY <1>9, <1>10
<1> QED
  BY <1>1, <1>11 DEF Positive

LEMMA FreshAddresses ==
  ASSUME LiveOK, NEW A \in SUBSET live
  PROVE  FreshFor(Fresh, A)
<1>1. DOMAIN Fresh = Positive /\ Fresh = [i \in DOMAIN Fresh |-> Fresh[i]]
  <2> DEFINE G(i) == CHOOSE a \in (1..(Cardinality(live) + i)) \ live : Cardinality((1..a) \ live) = i
  <2>1. Fresh = [i \in Positive |-> G(i)]
    BY DEF Fresh, Positive
  <2> HIDE DEF G
  <2> QED
    BY <2>1
<1>2. \A i \in Positive : Fresh[i] \in Positive /\ Fresh[i] \notin live /\ Cardinality((1..Fresh[i]) \ live) = i
  BY FreshIs
<1>3. Fresh \in [Positive -> Positive]
  BY <1>1, <1>2
<1>4. \A i, j \in Positive : Fresh[i] = Fresh[j] => i = j
  <2> TAKE i, j \in Positive
  <2> HAVE Fresh[i] = Fresh[j]
  <2> DEFINE count(a) == Cardinality((1..a) \ live)
  <2>1. count(Fresh[i]) = i /\ count(Fresh[j]) = j
    BY <1>2
  <2>2. count(Fresh[i]) = count(Fresh[j])
    OBVIOUS
  <2> QED
    BY <2>1, <2>2
<1>5. \A i \in Positive : Fresh[i] \notin A
  BY <1>2
<1> QED
  BY <1>3, <1>4, <1>5 DEF FreshFor

-----------------------------------------------------------------------------
(***************************************************************************)
(* bison's stack.  Behind every item of a state are the symbols that it    *)
(* has seen.                                                               *)
(***************************************************************************)
Symbols == Tokens \cup {r.lhs : r \in Rules} \cup {"input"}
Items == [rule : Rules \cup {Start}, at : Nat]
Entries == [sym : Symbols, state : SUBSET Items, val : Proper]

Seen(s, n, i) ==
  /\ i.at <= Len(i.rule.rhs) /\ i.at <= n /\ (i.rule = Start => i.at = n)
  /\ \A j \in 1..i.at : Fits(s[n - i.at + j].sym, i.rule.rhs[j])

StackOK(s) ==
  /\ s \in Seq(Entries)
  /\ \A n \in DOMAIN s : ValueFits(s[n].sym, s[n].val) /\ \A i \in s[n].state : Seen(s, n, i)

LEMMA OperatorsAre == \A r \in Operators : Len(r.rhs) \in Nat /\ DOMAIN r.rhs = 1..Len(r.rhs)
BY DEF Operators, Rule

LEMMA BindersAre == \A r \in Binders : Len(r.rhs) \in Nat /\ DOMAIN r.rhs = 1..Len(r.rhs)
BY DEF Binders, Rule

LEMMA CallsAre == \A r \in Calls : Len(r.rhs) \in Nat /\ DOMAIN r.rhs = 1..Len(r.rhs)
BY DEF Calls, Rule

LEMMA ListsAre == \A r \in Lists : Len(r.rhs) \in Nat /\ DOMAIN r.rhs = 1..Len(r.rhs)
BY DEF Lists, Rule

LEMMA LeavesAre == \A r \in Leaves : Len(r.rhs) \in Nat /\ DOMAIN r.rhs = 1..Len(r.rhs)
BY DEF Leaves, Rule

LEMMA StartIs ==
  /\ Len(Start.rhs) = 2 /\ DOMAIN Start.rhs = 1..2 /\ Start.rhs[1] = "expr" /\ Start.rhs[2] = "."
BY DEF Start, Rule

LEMMA RulesAre ==
  \A r \in Rules \cup {Start} : Len(r.rhs) \in Nat /\ DOMAIN r.rhs = 1..Len(r.rhs)
<1>1. Len(Start.rhs) \in Nat /\ DOMAIN Start.rhs = 1..Len(Start.rhs)
  BY StartIs
<1> QED
  BY <1>1, OperatorsAre, BindersAre, CallsAre, ListsAre, LeavesAre DEF Rules

LEMMA StartIsNoRule == Start \notin Rules
<1>1. Start.kind = "input"
  BY DEF Start, Rule
<1>2. \A r \in Operators : r.kind # "input"
  BY OperatorRules DEF OwnKinds
<1>3. \A r \in Binders : r.kind # "input"
  <2> TAKE r \in Binders
  <2>1. r.kind \notin {"assignment", "fix"} => r.kind \notin OwnKinds
    BY BinderRules
  <2> QED
    BY <2>1 DEF OwnKinds
<1>4. \A r \in Calls : r.kind # "input"
  BY CallRules
<1>5. \A r \in Lists : r.kind # "input"
  BY ListRules
<1>6. \A r \in Leaves : r.kind # "input"
  BY LeafRules
<1> QED
  BY <1>1, <1>2, <1>3, <1>4, <1>5, <1>6 DEF Rules

\* What begins where a symbol is expected are rules, from their first symbol.
LEMMA BeginsAre ==
  ASSUME NEW k \in Items, k.at <= Len(k.rule.rhs), ~Complete(k)
  PROVE  \A i \in Begins[Expected(k)] : i \in Items /\ i.at = 0 /\ i.rule \in Rules
<1> DEFINE D == UNION {Range(r.rhs) : r \in Rules \cup {Start}}
           Opened(s) == LET opened[n \in 0..Cardinality(Rules)] ==
                              IF n = 0 THEN {r \in Rules : Fits(r.lhs, s)}
                              ELSE LET before == opened[n - 1]
                                   IN before \cup {q \in Rules : \E r \in before : Fits(q.lhs, r.rhs[1])}
                        IN opened[Cardinality(Rules)]
           B(s) == {[rule |-> r, at |-> 0] : r \in Rules \cap Opened(s)}
<1>1. Begins = [s \in D |-> B(s)]
  BY DEF Begins
<1> HIDE DEF Opened
<1>2. \A s \in D : \A i \in B(s) : i \in Items /\ i.at = 0 /\ i.rule \in Rules
  BY DEF Items
<1> HIDE DEF B
<1>3. Expected(k) \in D
  <2>1. k.rule \in Rules \cup {Start} /\ k.at \in Nat
    BY DEF Items
  <2>2. Len(k.rule.rhs) \in Nat /\ DOMAIN k.rule.rhs = 1..Len(k.rule.rhs)
    BY <2>1, RulesAre
  <2>3. k.at + 1 \in DOMAIN k.rule.rhs
    BY <2>1, <2>2 DEF Complete
  <2>4. k.rule.rhs[k.at + 1] \in Range(k.rule.rhs)
    BY <2>3 DEF Range
  <2> QED
    BY <2>1, <2>4 DEF Expected
<1> HIDE DEF D
<1>4. Begins[Expected(k)] = B(Expected(k))
  BY <1>1, <1>3
<1> QED
  BY <1>2, <1>3, <1>4

LEMMA GotoSeen ==
  ASSUME NEW state \in SUBSET Items, NEW n \in Nat, NEW s, \A i \in state : Seen(s, n, i),
         NEW symbol, NEW t, \A m \in 1..n : t[m].sym = s[m].sym, t[n + 1].sym = symbol
  PROVE  Goto(state, symbol) \in SUBSET Items /\ \A i \in Goto(state, symbol) : Seen(t, n + 1, i)
<1> SUFFICES ASSUME NEW i \in Goto(state, symbol)
             PROVE  i \in Items /\ Seen(t, n + 1, i)
  OBVIOUS
<1> DEFINE J == state \cup UNION {Begins[Expected(k)] : k \in {k \in state : ~Complete(k)}}
<1>1. PICK j \in J : ~Complete(j) /\ Fits(symbol, Expected(j)) /\ i = [j EXCEPT !.at = @ + 1]
  BY DEF Goto
<1>2. /\ j \in Items /\ j.at <= Len(j.rule.rhs) /\ j.at <= n /\ (j.rule = Start => j.at = n)
      /\ \A m \in 1..j.at : Fits(s[n - j.at + m].sym, j.rule.rhs[m])
  <2>1. CASE j \in state
    BY <2>1 DEF Seen
  <2>2. CASE j \in UNION {Begins[Expected(k)] : k \in {k \in state : ~Complete(k)}}
    <3>1. PICK k \in state : ~Complete(k) /\ j \in Begins[Expected(k)]
      BY <2>2
    <3>2. k \in Items /\ k.at <= Len(k.rule.rhs)
      BY <3>1 DEF Seen
    <3>3. j \in Items /\ j.at = 0 /\ j.rule \in Rules
      BY <3>1, <3>2, BeginsAre
    <3>4. j.rule # Start /\ Len(j.rule.rhs) \in Nat
      BY <3>3, StartIsNoRule, RulesAre
    <3>5. \A m \in 1..j.at : FALSE
      BY <3>3
    <3> QED
      BY <3>3, <3>4, <3>5
  <2> QED
    BY <2>1, <2>2
<1> HIDE DEF J
<1>3. i \in Items /\ i.rule = j.rule /\ i.at = j.at + 1 /\ j.at \in Nat
  BY <1>1, <1>2 DEF Items
<1>4. Len(j.rule.rhs) \in Nat
  <2>1. j.rule \in Rules \cup {Start}
    BY <1>2 DEF Items
  <2> QED
    BY <2>1, RulesAre
<1>5. j.at + 1 <= Len(j.rule.rhs)
  BY <1>1, <1>2, <1>3, <1>4 DEF Complete
<1>6. \A m \in 1..i.at : Fits(t[n + 1 - i.at + m].sym, i.rule.rhs[m])
  <2> TAKE m \in 1..i.at
  <2>1. CASE m = i.at
    <3>1. n + 1 - i.at + m = n + 1 /\ i.rule.rhs[m] = Expected(j)
      BY <1>3, <2>1 DEF Expected
    <3> QED
      BY <1>1, <3>1
  <2>2. CASE m # i.at
    <3> DEFINE a == j.at
    <3>a. a \in Nat /\ a <= n /\ m \in 1..(a + 1) /\ m # a + 1 /\ i.at = a + 1
      BY <1>2, <1>3, <2>2
    <3> HIDE DEF a
    <3>b. m \in 1..a /\ n - a + m \in 1..n /\ n + 1 - (a + 1) + m = n - a + m
      BY <3>a
    <3>1. m \in 1..j.at /\ n - j.at + m \in 1..n /\ n + 1 - i.at + m = n - j.at + m
      BY <3>a, <3>b DEF a
    <3> QED
      BY <1>2, <1>3, <3>1
  <2> QED
    BY <2>1, <2>2
<1> QED
  BY <1>2, <1>3, <1>5, <1>6 DEF Seen

-----------------------------------------------------------------------------
(***************************************************************************)
(* Symbols that are pushed keep the stack as it should be.                 *)
(***************************************************************************)
LEMMA ValuesAre ==
  ASSUME NEW s \in Seq(Entries)
  PROVE  /\ Values(s) \in Seq(Proper) /\ Len(Values(s)) = Len(s) /\ DOMAIN Values(s) = 1..Len(s)
         /\ \A i \in 1..Len(s) : Values(s)[i] = s[i].val /\ s[i] \in Entries
         /\ Len(s) \in Nat /\ DOMAIN s = 1..Len(s) /\ Values(s) \in Seq(Tree)
<1>1. Len(s) \in Nat /\ DOMAIN s = 1..Len(s) /\ \A i \in 1..Len(s) : s[i] \in Entries
  OBVIOUS
<1>2. \A e \in Entries : e.val \in Proper
  BY DEF Entries
<1>3. Values(s) = [i \in 1..Len(s) |-> s[i].val]
  BY <1>1 DEF Values
<1>4. Values(s) \in Seq(Proper) /\ Len(Values(s)) = Len(s)
  BY <1>1, <1>2, <1>3
<1>5. Values(s) \in Seq(Tree)
  BY <1>4, ProperSeqs
<1> QED
  BY <1>1, <1>3, <1>4, <1>5

\* The stack below, and the symbols that a rule replaces.
LEMMA Halves ==
  ASSUME NEW s \in Seq(Entries), NEW n \in 0..Len(s)
  PROVE  LET b == SubSeq(s, 1, n)
             r == SubSeq(s, n + 1, Len(s))
         IN /\ b \in Seq(Entries) /\ Len(b) = n /\ \A i \in 1..n : b[i] = s[i]
            /\ r \in Seq(Entries) /\ Len(r) = Len(s) - n /\ \A i \in 1..Len(r) : r[i] = s[n + i]
            /\ Values(s) = Values(b) \o Values(r)
<1> DEFINE b == SubSeq(s, 1, n)
           r == SubSeq(s, n + 1, Len(s))
<1>0. Len(s) \in Nat /\ n \in Nat /\ n <= Len(s)
  OBVIOUS
<1>1. b \in Seq(Entries) /\ Len(b) = n /\ \A i \in 1..n : b[i] = s[i]
  BY <1>0
<1>2. r \in Seq(Entries) /\ Len(r) = Len(s) - n /\ \A i \in 1..Len(r) : r[i] = s[n + i]
  BY <1>0
<1> HIDE DEF b, r
<1>3. /\ Values(b) \in Seq(Proper) /\ Len(Values(b)) = n /\ \A i \in 1..n : Values(b)[i] = b[i].val
  BY <1>1, ValuesAre
<1>4. /\ Values(r) \in Seq(Proper) /\ Len(Values(r)) = Len(s) - n /\ \A i \in 1..Len(r) : Values(r)[i] = r[i].val
  BY <1>2, ValuesAre
<1>5. /\ Values(s) \in Seq(Proper) /\ Len(Values(s)) = Len(s) /\ \A i \in 1..Len(s) : Values(s)[i] = s[i].val
  BY ValuesAre
<1> DEFINE x == Values(b)
           y == Values(r)
           z == Values(s)
<1>6. \A i \in 1..Len(s) : z[i] = (x \o y)[i]
  <2> TAKE i \in 1..Len(s)
  <2>1. CASE i <= n
    <3>1. i \in 1..n
      BY <1>0, <2>1
    <3>2. x[i] = z[i]
      BY <1>1, <1>3, <1>5, <3>1
    <3> HIDE DEF x, y, z
    <3>3. (x \o y)[i] = x[i]
      BY <1>3, <1>4, <3>1 DEF x, y
    <3> QED
      BY <3>2, <3>3
  <2>2. CASE i > n
    <3>1. i - n \in 1..Len(r) /\ n + (i - n) = i
      BY <1>0, <1>2, <2>2
    <3>2. y[i - n] = z[i]
      BY <1>2, <1>4, <1>5, <3>1
    <3> HIDE DEF x, y, z
    <3>3. (x \o y)[i] = y[i - n]
      BY <1>0, <1>2, <1>3, <1>4, <2>2, <3>1 DEF x, y
    <3> QED
      BY <3>2, <3>3
  <2>3. i <= n \/ i > n
    BY <1>0
  <2> QED
    BY <2>1, <2>2, <2>3
<1>7. z = x \o y
  <2>1. z \in Seq(Proper) /\ x \o y \in Seq(Proper) /\ Len(z) = Len(s) /\ Len(x \o y) = Len(s)
    <3> HIDE DEF x, y, z
    <3> QED
      BY <1>0, <1>3, <1>4, <1>5 DEF x, y, z
  <2> HIDE DEF x, y, z
  <2> QED
    BY <1>6, <2>1
<1> QED
  BY <1>1, <1>2, <1>7 DEF b, r

\* The state on top of n symbols.
After(s, n) == IF n = 0 THEN InitialState ELSE s[n].state

LEMMA StatesSeen ==
  ASSUME NEW s, StackOK(s), NEW n \in 0..Len(s)
  PROVE  After(s, n) \in SUBSET Items /\ \A i \in After(s, n) : Seen(s, n, i)
<1>1. CASE n = 0
  <2>1. After(s, n) = {[rule |-> Start, at |-> 0]}
    BY <1>1 DEF After, InitialState
  <2> DEFINE i == [rule |-> Start, at |-> 0]
  <2>2. i \in Items /\ i.at = 0 /\ i.rule = Start
    BY DEF Items
  <2> HIDE DEF i
  <2>3. Seen(s, n, i)
    BY <1>1, <2>2, StartIs DEF Seen
  <2> QED
    BY <2>1, <2>2, <2>3 DEF i
<1>2. CASE n # 0
  <2>1. n \in DOMAIN s /\ s[n] \in Entries
    BY <1>2, ValuesAre DEF StackOK
  <2>2. After(s, n) = s[n].state
    BY <1>2 DEF After
  <2>3. s[n].state \in SUBSET Items
    BY <2>1 DEF Entries
  <2> QED
    BY <2>1, <2>2, <2>3 DEF StackOK
<1> QED
  BY <1>1, <1>2

LEMMA Pushed ==
  ASSUME NEW s, StackOK(s), NEW n \in 0..Len(s), NEW symbol \in Symbols, NEW val \in Proper, ValueFits(symbol, val)
  PROVE  LET b == SubSeq(s, 1, n)
             t == Append(b, Entry(symbol, Goto(After(s, n), symbol), val))
         IN /\ StackOK(t) /\ Values(t) = Values(b) \o <<val>> /\ t # <<>> /\ Last(t).sym = symbol
<1> DEFINE b == SubSeq(s, 1, n)
           e == Entry(symbol, Goto(After(s, n), symbol), val)
           t == Append(b, e)
<1>1. s \in Seq(Entries) /\ Len(s) \in Nat /\ n \in Nat /\ n <= Len(s) /\ DOMAIN s = 1..Len(s)
  BY ValuesAre DEF StackOK
<1>2. b \in Seq(Entries) /\ Len(b) = n /\ \A i \in 1..n : b[i] = s[i]
  BY <1>1, Halves
<1>3. e.sym = symbol /\ e.state = Goto(After(s, n), symbol) /\ e.val = val
  BY DEF Entry
<1>4. After(s, n) \in SUBSET Items /\ \A i \in After(s, n) : Seen(s, n, i)
  BY StatesSeen
<1>5. Goto(After(s, n), symbol) \in SUBSET Items
  <2> DEFINE u == [m \in 1..(n + 1) |-> [sym |-> IF m <= n THEN s[m].sym ELSE symbol]]
  <2>1. (\A m \in 1..n : u[m].sym = s[m].sym) /\ u[n + 1].sym = symbol
    BY <1>1
  <2> HIDE DEF u
  <2> QED
    BY <1>1, <1>4, <2>1, GotoSeen
<1>6. e \in Entries
  BY <1>5 DEF Entries, Entry
<1> HIDE DEF e, b
<1>7. /\ t \in Seq(Entries) /\ Len(t) = n + 1 /\ DOMAIN t = 1..(n + 1) /\ t[n + 1] = e
      /\ \A m \in 1..n : t[m] = s[m]
  BY <1>1, <1>2, <1>6
<1> HIDE DEF t
<1>8. \A i \in Goto(After(s, n), symbol) : Seen(t, n + 1, i)
  <2>1. (\A m \in 1..n : t[m].sym = s[m].sym) /\ t[n + 1].sym = symbol
    BY <1>3, <1>7
  <2> QED
    BY <1>1, <1>4, <2>1, GotoSeen
<1>9. \A m \in DOMAIN t : ValueFits(t[m].sym, t[m].val) /\ \A i \in t[m].state : Seen(t, m, i)
  <2> TAKE m \in DOMAIN t
  <2>1. CASE m = n + 1
    BY <1>3, <1>7, <1>8, <2>1
  <2>2. CASE m # n + 1
    <3>1. m \in 1..n /\ m \in DOMAIN s /\ t[m] = s[m]
      BY <1>1, <1>7, <2>2
    <3>2. ValueFits(s[m].sym, s[m].val)
      BY <3>1 DEF StackOK
    <3>3. ASSUME NEW i \in s[m].state PROVE Seen(t, m, i)
      <4>1. Seen(s, m, i)
        BY <3>1, <3>3 DEF StackOK
      <4>2. i.at \in Nat
        <5>1. s[m] \in Entries
          BY <1>1, <3>1
        <5>2. i \in Items
          BY <3>3, <5>1 DEF Entries
        <5> QED
          BY <5>2 DEF Items
      <4>3. \A j \in 1..i.at : t[m - i.at + j] = s[m - i.at + j]
        <5> DEFINE a == i.at
        <5>1. a \in Nat /\ a <= m
          BY <4>1, <4>2 DEF Seen
        <5> HIDE DEF a
        <5>2. \A j \in 1..a : m - a + j \in 1..n
          BY <1>1, <3>1, <5>1
        <5> QED
          BY <1>7, <5>2 DEF a
      <4> QED
        BY <4>1, <4>3 DEF Seen
    <3> QED
      BY <3>1, <3>2, <3>3
  <2> QED
    BY <2>1, <2>2
<1>10. StackOK(t)
  BY <1>7, <1>9 DEF StackOK
<1>11. Values(t) = Values(b) \o <<val>>
  <2>1. /\ Values(t) \in Seq(Proper) /\ Len(Values(t)) = n + 1
        /\ \A i \in 1..(n + 1) : Values(t)[i] = t[i].val
    BY <1>7, ValuesAre
  <2>2. /\ Values(b) \in Seq(Proper) /\ Len(Values(b)) = n
        /\ \A i \in 1..n : Values(b)[i] = b[i].val
    BY <1>2, ValuesAre
  <2> DEFINE x == Values(t)
             y == Values(b)
  <2>3. x[n + 1] = val /\ \A i \in 1..n : x[i] = y[i]
    BY <1>1, <1>2, <1>3, <1>7, <2>1, <2>2
  <2>4. x \in Seq(Proper) /\ y \in Seq(Proper) /\ Len(x) = n + 1 /\ Len(y) = n
    BY <2>1, <2>2
  <2> HIDE DEF x, y
  <2>5. x = y \o <<val>>
    BY <1>1, <2>3, <2>4
  <2> QED
    BY <2>5 DEF x, y
<1>12. t # <<>> /\ Last(t).sym = symbol
  BY <1>1, <1>3, <1>7 DEF Last
<1> QED
  BY <1>10, <1>11, <1>12 DEF t, b, e

-----------------------------------------------------------------------------
(***************************************************************************)
(* The inductive invariant.                                                *)
(***************************************************************************)
SoundTrees == {t \in Tree : Sound(t)}

MadeOf(c) == [i \in DOMAIN c |-> c[i].made]

\* A statement that is being parsed.
ParsingOK ==
  /\ StackOK(stack) /\ look.val \in Proper /\ root \in Proper
  /\ copy = Nothing /\ clones = <<>>
  /\ Apart(Values(stack)) /\ BlocksOf(Values(stack)) \cap Blocks(look.val) = {}
  /\ BlocksOf(Values(stack)) \cap Blocks(root) = {} /\ Blocks(look.val) \cap Blocks(root) = {}
  /\ live = BlocksOf(Values(stack)) \cup Blocks(look.val) \cup Blocks(root) /\ lost = {}
  /\ root # Nothing => stack = <<Entry("input", {}, Nothing)>>
  /\ stack # <<>> /\ Last(stack).sym = "input" => root # Nothing

\* A node that is being cloned, as far as its kids are.
Copies(c) ==
  /\ c = Cloning(c.tree, c.made.kids)
  /\ Len(c.made.kids) <= Len(c.tree.kids)
  /\ \A k \in DOMAIN c.made.kids : Shape[c.made.kids[k]] = Shape[c.tree.kids[k]]
  /\ \A h \in 0..MaxHeight : c.tree \in TreesUpTo[h] => c.made \in TreesUpTo[h]

Nested(c, d) ==
  /\ Len(c.made.kids) + 1 \in DOMAIN c.tree.kids
  /\ d.tree = c.tree.kids[Len(c.made.kids) + 1]

Clones == [tree : Tree, made : SoundTrees]

ClonesOK(c, origin) ==
  /\ c \in Seq(Clones) /\ Apart(MadeOf(c))
  /\ \A i \in DOMAIN c : Copies(c[i])
  /\ c # <<>> => c[1].tree = origin
  /\ \A i \in 1..(Len(c) - 1) : Nested(c[i], c[i + 1])

\* After that.
ParsedOK ==
  /\ stack = <<>> /\ look = NoLook /\ root \in Proper /\ copy \in SoundTrees /\ ClonesOK(clones, root)
  /\ phase = "ended" => copy = Nothing /\ (diag = "OK" => root # Nothing)
  /\ IF phase \in {"cloning", "unwinding"} THEN copy = Nothing /\ root # Nothing /\ clones # <<>> ELSE clones = <<>>
  /\ Blocks(root) \cap Blocks(copy) = {} /\ Blocks(root) \cap BlocksOf(MadeOf(clones)) = {}
  /\ live = Blocks(root) \cup Blocks(copy) \cup BlocksOf(MadeOf(clones)) \cup lost
  /\ lost # {} => root = Nothing /\ copy = Nothing /\ clones = <<>>
  /\ CloneExact

ParserInvariant ==
  /\ vocabulary \in Vocabularies /\ LiveOK
  /\ phase \in {"parsing", "ended", "parsed", "failed", "cloning", "unwinding", "evaluated"}
  /\ phase = "parsing" => ParsingOK
  /\ phase # "parsing" => ParsedOK

-----------------------------------------------------------------------------
(***************************************************************************)
(* Trees have finitely many blocks.                                        *)
(***************************************************************************)
\* Trees have finitely many blocks.
LEMMA FiniteUnions ==
  ASSUME NEW s \in Seq(Tree), \A i \in DOMAIN s : IsFiniteSet(Blocks(s[i]))
  PROVE  IsFiniteSet(BlocksOf(s))
<1> DEFINE n == Len(s)
           U(m) == UNION {Blocks(s[i]) : i \in 1..m}
           T == {m \in Nat : m <= n => IsFiniteSet(U(m))}
<1>1. n \in Nat /\ DOMAIN s = 1..n
  OBVIOUS
<1>2. U(0) = {}
  OBVIOUS
<1>3. 0 \in T
  <2> HIDE DEF U
  <2> QED
    BY <1>2, FS_EmptySet
<1>4. ASSUME NEW m \in Nat, m \in T PROVE m + 1 \in T
  <2> SUFFICES ASSUME m + 1 <= n PROVE IsFiniteSet(U(m + 1))
    OBVIOUS
  <2>1. m <= n /\ m + 1 \in DOMAIN s
    BY <1>1
  <2>2. IsFiniteSet(U(m)) /\ IsFiniteSet(Blocks(s[m + 1]))
    BY <1>4, <2>1
  <2>3. 1..(m + 1) = (1..m) \cup {m + 1}
    BY <1>4
  <2>4. U(m + 1) = U(m) \cup Blocks(s[m + 1])
    BY <2>3
  <2> HIDE DEF U, T
  <2>5. IsFiniteSet(U(m) \cup Blocks(s[m + 1]))
    BY <2>2, FS_Union
  <2> QED
    BY <2>4, <2>5
<1>5. n \in T
  <2> HIDE DEF T
  <2> QED
    BY <1>1, <1>3, <1>4, SetInduction
<1>6. IsFiniteSet(U(n))
  <2> HIDE DEF U
  <2> QED
    BY <1>1, <1>5
<1>7. BlocksOf(s) = U(n)
  BY <1>1 DEF BlocksOf
<1> QED
  BY <1>6, <1>7

LEMMA FiniteBlocks == \A t \in Tree : IsFiniteSet(Blocks(t))
<1> DEFINE P == {t \in Tree : IsFiniteSet(Blocks(t))}
<1>1. ASSUME NEW t \in Tree, \A i \in DOMAIN t.kids : t.kids[i] \in P PROVE t \in P
  <2>1. t.kids \in Seq(Tree) /\ t.at \in Nat
    BY TreeFields
  <2>2. IsFiniteSet(BlocksOf(t.kids))
    BY <1>1, <2>1, FiniteUnions
  <2>3. IsFiniteSet({t.at} \ {0})
    <3>1. IsFiniteSet({t.at})
      BY FS_Singleton
    <3>2. {t.at} \ {0} \in SUBSET {t.at}
      OBVIOUS
    <3> QED
      BY <3>1, <3>2, FS_Subset
  <2>4. Blocks(t) = ({t.at} \ {0}) \cup BlocksOf(t.kids)
    BY BlocksAre
  <2>5. IsFiniteSet(({t.at} \ {0}) \cup BlocksOf(t.kids))
    BY <2>2, <2>3, FS_Union
  <2> QED
    BY <2>4, <2>5
<1>2. \A t \in Tree : t \in P
  <2> HIDE DEF P
  <2> QED
    BY <1>1, TreeInduction
<1> QED
  BY <1>2

\* What is live after blocks have come and gone.
LEMMA StillLive ==
  ASSUME LiveOK, NEW t \in Tree, NEW L, L \subseteq live \cup Blocks(t)
  PROVE  IsFiniteSet(L) /\ L \subseteq Positive
<1>1. IsFiniteSet(Blocks(t)) /\ Blocks(t) \subseteq Positive
  BY FiniteBlocks, BlocksAre DEF Positive
<1>2. IsFiniteSet(live \cup Blocks(t))
  BY <1>1, FS_Union DEF LiveOK
<1>3. L \in SUBSET (live \cup Blocks(t))
  OBVIOUS
<1> QED
  BY <1>1, <1>2, <1>3, FS_Subset DEF LiveOK

LEMMA LessLive ==
  ASSUME LiveOK, NEW L, L \subseteq live
  PROVE  IsFiniteSet(L) /\ L \subseteq Positive
BY NothingIs, StillLive

-----------------------------------------------------------------------------
(***************************************************************************)
(* The end of yyparse.                                                     *)
(***************************************************************************)
LEMMA NoClones ==
  /\ \A origin : ClonesOK(<<>>, origin)
  /\ MadeOf(<<>>) = <<>> /\ BlocksOf(MadeOf(<<>>)) = {}
<1>1. MadeOf(<<>>) = <<>>
  BY DEF MadeOf
<1>2. BlocksOf(<<>>) = {} /\ Apart(<<>>)
  BY NoTrees
<1>3. <<>> \in Seq(Clones) /\ DOMAIN <<>> = {} /\ Len(<<>>) = 0
  OBVIOUS
<1>4. \A i \in 1..(Len(<<>>) - 1) : FALSE
  BY <1>3
<1>5. ASSUME NEW origin PROVE ClonesOK(<<>>, origin)
  <2> DEFINE e == <<>>
  <2>1. e \in Seq(Clones) /\ Apart(MadeOf(e)) /\ (\A i \in DOMAIN e : FALSE) /\ (\A i \in 1..(Len(e) - 1) : FALSE) /\ e = <<>>
    BY <1>1, <1>2, <1>3, <1>4
  <2> HIDE DEF e
  <2>2. ClonesOK(e, origin)
    BY <2>1 DEF ClonesOK
  <2> QED
    BY <2>2 DEF e
<1> QED
  BY <1>1, <1>2, <1>5

\* The end of yyparse, at which only the root is left.
LEMMA ParsingEnds ==
  ASSUME root \in Proper, stack' = <<>>, look' = NoLook, phase' = "ended", root' = root,
         copy' = Nothing, clones' = <<>>, live' = Blocks(root) \cup lost',
         lost' # {} => root = Nothing, diag' = "OK" => root # Nothing
  PROVE  ParsedOK'
<1>1. ClonesOK(clones', root') /\ BlocksOf(MadeOf(clones')) = {}
  BY NoClones
<1>2. Nothing \in SoundTrees /\ Blocks(Nothing) = {}
  BY NothingIs DEF SoundTrees, Proper
<1>3. CloneExact'
  BY DEF CloneExact
<1> QED
  BY <1>1, <1>2, <1>3 DEF ParsedOK

-----------------------------------------------------------------------------
(***************************************************************************)
(* Every step of the parser keeps the invariant.                           *)
(***************************************************************************)
LEMMA InvariantInit == ParserInit => ParserInvariant
<1> SUFFICES ASSUME ParserInit PROVE ParserInvariant
  OBVIOUS
<1>1. live = {} /\ lost = {} /\ vocabulary \in Vocabularies /\ phase = "parsing" /\ root = Nothing /\ copy = Nothing
      /\ clones = <<>> /\ stack = <<>> /\ look = NoLook
  BY DEF ParserInit
<1>2. LiveOK
  BY <1>1, FS_EmptySet DEF LiveOK
<1>3. look.val = Nothing
  BY <1>1 DEF NoLook
<1>4. Nothing \in Proper /\ Blocks(Nothing) = {}
  BY NothingIs
<1>5. StackOK(<<>>)
  <2> DEFINE e == <<>>
  <2>1. e \in Seq(Entries) /\ DOMAIN e = {}
    OBVIOUS
  <2> HIDE DEF e
  <2>2. StackOK(e)
    BY <2>1 DEF StackOK
  <2> QED
    BY <2>2 DEF e
<1>6. Values(<<>>) = <<>>
  BY DEF Values
<1>7. BlocksOf(<<>>) = {} /\ Apart(<<>>)
  BY NoTrees
<1>8. ParsingOK
  BY <1>1, <1>3, <1>4, <1>5, <1>6, <1>7 DEF ParsingOK
<1> QED
  BY <1>1, <1>2, <1>8 DEF ParserInvariant

\* The state on top of the stack, and that there is none once there is a root.
LEMMA TopIs ==
  ASSUME ParsingOK
  PROVE  /\ Top = After(stack, Len(stack)) /\ Len(stack) \in Nat
         /\ Top # {} => root = Nothing
         /\ Top = {} => \A symbol : Goto(Top, symbol) = {}
<1>1. Len(stack) \in Nat
  BY ValuesAre DEF ParsingOK, StackOK
<1>2. Top = After(stack, Len(stack))
  BY DEF Top, StateAt, After
<1>3. ASSUME root # Nothing PROVE Top = {}
  <2>1. stack = <<Entry("input", {}, Nothing)>>
    BY <1>3 DEF ParsingOK
  <2>2. Len(stack) = 1 /\ stack[1] = Entry("input", {}, Nothing)
    BY <2>1
  <2> QED
    BY <1>2, <2>2 DEF After, Entry
<1>4. ASSUME Top = {}, NEW symbol PROVE Goto(Top, symbol) = {}
  BY <1>4 DEF Goto
<1> QED
  BY <1>1, <1>2, <1>3, <1>4

LEMMA AppendedTree ==
  ASSUME NEW s \in Seq(Tree), NEW t \in Tree
  PROVE  /\ BlocksOf(s \o <<t>>) = BlocksOf(s) \cup Blocks(t)
         /\ Apart(s) /\ BlocksOf(s) \cap Blocks(t) = {} => Apart(s \o <<t>>)
<1> DEFINE u == <<t>>
<1>1. u \in Seq(Tree) /\ BlocksOf(u) = Blocks(t) /\ Apart(u)
  BY OneTree
<1> HIDE DEF u
<1>2. BlocksOf(s \o u) = BlocksOf(s) \cup Blocks(t) /\ (Apart(s) /\ BlocksOf(s) \cap Blocks(t) = {} => Apart(s \o u))
  BY <1>1, Joined
<1> QED
  BY <1>2 DEF u

\* A text at a new address.
LEMMA NewText ==
  ASSUME LiveOK, NEW name \in Names
  PROVE  /\ Text(name, Fresh[1]) \in Proper /\ Text(name, Fresh[1]) \in Tree
         /\ Blocks(Text(name, Fresh[1])) \cap live = {}
         /\ Text(name, Fresh[1]).kind = "text" /\ Text(name, Fresh[1]) # Nothing
<1>1. 1 \in Positive
  BY DEF Positive
<1>2. Fresh[1] \in Positive /\ Fresh[1] \notin live
  BY <1>1, FreshIs
<1> QED
  BY <1>2, TextIs DEF Positive

LEMMA ShiftKeeps == ParserInvariant /\ Shift => ParserInvariant'
<1> SUFFICES ASSUME ParserInvariant, Shift PROVE ParserInvariant'
  OBVIOUS
<1>1. phase = "parsing" /\ ParsingOK /\ LiveOK /\ vocabulary \in Vocabularies
  BY DEF ParserInvariant, Shift
<1>2. PICK token \in vocabulary.tokens, name \in vocabulary.names :
        LET state == Goto(Top, token)
            val == IF CarriesText(token) THEN Text(name, Fresh[1]) ELSE Nothing
        IN /\ state # {}
           /\ stack' = Append(stack, Entry(token, state, val))
           /\ live' = live \cup Blocks(val)
  BY DEF Shift
<1>3. UNCHANGED <<vocabulary, look, lost, diag, root, copy, clones, phase>>
  BY DEF Shift
<1> DEFINE val == IF CarriesText(token) THEN Text(name, Fresh[1]) ELSE Nothing
<1>4. Goto(Top, token) # {} /\ stack' = Append(stack, Entry(token, Goto(Top, token), val)) /\ live' = live \cup Blocks(val)
  BY <1>2
<1>5. token \in Tokens /\ name \in Names /\ token \in Symbols
  BY <1>1, ParserAssumption DEF Names, Symbols
<1>6. val \in Proper /\ val \in Tree /\ Blocks(val) \cap live = {} /\ ValueFits(token, val)
  <2>1. CASE CarriesText(token)
    <3>1. val = Text(name, Fresh[1])
      BY <2>1
    <3> HIDE DEF val
    <3>2. val \in Proper /\ val \in Tree /\ Blocks(val) \cap live = {} /\ val.kind = "text"
      BY <1>1, <1>5, <3>1, NewText
    <3>3. token \in {"id", "text"}
      BY <2>1 DEF CarriesText
    <3>4. token \notin ListSymbols /\ token # "lambda_head" /\ token \notin ExprSymbols
      BY <3>3 DEF ListSymbols, ExprSymbols
    <3> QED
      BY <3>2, <3>3, <3>4 DEF ValueFits
  <2>2. CASE ~CarriesText(token)
    <3>1. val = Nothing
      BY <2>2
    <3> HIDE DEF val
    <3>2. token \in Tokens \ {"id", "text"}
      BY <1>5, <2>2 DEF CarriesText
    <3>3. token \notin ListSymbols /\ token # "lambda_head" /\ token \notin ExprSymbols
      BY <3>2 DEF ListSymbols, ExprSymbols, Tokens
    <3> QED
      BY <3>1, <3>2, <3>3, NothingIs DEF ValueFits
  <2> QED
    BY <2>1, <2>2
<1> HIDE DEF val
<1>7. root = Nothing
  BY <1>1, <1>4, TopIs
<1> DEFINE n == Len(stack)
           b == SubSeq(stack, 1, n)
<1>8. StackOK(stack) /\ n \in Nat /\ n \in 0..n /\ Top = After(stack, n) /\ b = stack
  <2>1. StackOK(stack) /\ stack \in Seq(Entries)
    BY <1>1 DEF ParsingOK, StackOK
  <2> QED
    BY <1>1, <2>1, TopIs
<1>9. StackOK(stack') /\ Values(stack') = Values(stack) \o <<val>> /\ Last(stack').sym = token
  <2> DEFINE t == Append(b, Entry(token, Goto(After(stack, n), token), val))
  <2>1. stack' = t
    BY <1>4, <1>8
  <2>2. n \in 0..Len(stack)
    BY <1>8
  <2> HIDE DEF n
  <2>3. StackOK(t) /\ Values(t) = Values(b) \o <<val>> /\ Last(t).sym = token
    BY <1>5, <1>6, <1>8, <2>2, Pushed
  <2> HIDE DEF b, t
  <2> QED
    BY <1>8, <2>1, <2>3
<1>10. Values(stack) \in Seq(Tree)
  BY <1>8, ValuesAre DEF StackOK
<1>11. /\ BlocksOf(Values(stack')) = BlocksOf(Values(stack)) \cup Blocks(val)
       /\ Apart(Values(stack'))
  <2>1. Apart(Values(stack)) /\ BlocksOf(Values(stack)) \cap Blocks(val) = {}
    BY <1>1, <1>6 DEF ParsingOK
  <2> QED
    BY <1>6, <1>9, <1>10, <2>1, AppendedTree
<1>12. LiveOK'
  <2>1. IsFiniteSet(live') /\ live' \subseteq Positive
    BY <1>1, <1>4, <1>6, StillLive
  <2> QED
    BY <2>1 DEF LiveOK
<1>13. ParsingOK'
  <2>1. Last(stack').sym # "input"
    BY <1>5, <1>9 DEF Tokens
  <2> QED
    BY <1>1, <1>3, <1>4, <1>6, <1>7, <1>9, <1>11, <2>1 DEF ParsingOK
<1> QED
  BY <1>1, <1>3, <1>12, <1>13 DEF ParserInvariant

LEMMA LexerFailsKeeps == ParserInvariant /\ LexerFails => ParserInvariant'
<1> SUFFICES ASSUME ParserInvariant, LexerFails PROVE ParserInvariant'
  OBVIOUS
<1>1. phase = "parsing" /\ ParsingOK /\ LiveOK /\ vocabulary \in Vocabularies /\ look = NoLook
      /\ look' = Look(Bad, Nothing) /\ UNCHANGED <<vocabulary, tokens, stack, live, lost, root, copy, clones, phase>>
  BY DEF ParserInvariant, LexerFails
<1>2. look.val = Nothing /\ look'.val = Nothing
  BY <1>1 DEF NoLook, Look
<1>3. ParsingOK'
  BY <1>1, <1>2 DEF ParsingOK
<1>4. LiveOK'
  BY <1>1 DEF LiveOK
<1> QED
  BY <1>1, <1>3, <1>4 DEF ParserInvariant

LEMMA UnexpectedKeeps == ParserInvariant /\ Unexpected => ParserInvariant'
<1> SUFFICES ASSUME ParserInvariant, Unexpected PROVE ParserInvariant'
  OBVIOUS
<1>1. phase = "parsing" /\ ParsingOK /\ LiveOK /\ vocabulary \in Vocabularies /\ look = NoLook
      /\ UNCHANGED <<vocabulary, tokens, stack, lost, diag, root, copy, clones, phase>>
  BY DEF ParserInvariant, Unexpected
<1>2. look.val = Nothing /\ Blocks(Nothing) = {}
  BY <1>1, NothingIs DEF NoLook
<1>3. \E t \in Proper : look'.val = t /\ live' = live \cup Blocks(t) /\ Blocks(t) \cap live = {}
  <2>1. CASE look' = Look("load", Nothing) /\ UNCHANGED live
    <3>1. look'.val = Nothing
      BY <2>1 DEF Look
    <3> QED
      BY <2>1, <3>1, NothingIs
  <2>2. CASE \E name \in vocabulary.names :
               LET text == Text(name, Fresh[1])
               IN look' = Look("id", text) /\ live' = live \cup Blocks(text)
    <3>1. PICK name \in vocabulary.names : look' = Look("id", Text(name, Fresh[1])) /\ live' = live \cup Blocks(Text(name, Fresh[1]))
      BY <2>2
    <3>2. name \in Names
      BY <1>1 DEF Names
    <3>3. look'.val = Text(name, Fresh[1])
      BY <3>1 DEF Look
    <3> QED
      BY <1>1, <3>1, <3>2, <3>3, NewText
  <2> QED
    BY <2>1, <2>2 DEF Unexpected
<1>4. PICK t \in Proper : look'.val = t /\ live' = live \cup Blocks(t) /\ Blocks(t) \cap live = {}
  BY <1>3
<1>5. ParsingOK'
  BY <1>1, <1>2, <1>4 DEF ParsingOK
<1>6. LiveOK'
  <2>1. IsFiniteSet(live') /\ live' \subseteq Positive
    BY <1>1, <1>4, StillLive, ProperSeqs
  <2> QED
    BY <2>1 DEF LiveOK
<1> QED
  BY <1>1, <1>5, <1>6 DEF ParserInvariant

\* What is left after yyparse has destroyed the symbols.
LEMMA CleanUpKeeps ==
  ASSUME phase = "parsing", ParserInvariant, CleanUp(stack, live), UNCHANGED <<vocabulary, lost, root, copy, clones>>,
         diag' = "OK" => root # Nothing
  PROVE  ParserInvariant'
<1>1. ParsingOK /\ LiveOK /\ vocabulary \in Vocabularies
  BY DEF ParserInvariant
<1>2. /\ live' = live \ (BlocksOf(Values(stack)) \cup Blocks(look.val))
      /\ stack' = <<>> /\ look' = NoLook /\ phase' = "ended"
  BY DEF CleanUp
<1>3. live' = Blocks(root) \cup lost' /\ lost' = {} /\ root \in Proper /\ copy = Nothing /\ clones = <<>>
  BY <1>1, <1>2 DEF ParsingOK
<1>4. ParsedOK'
  BY <1>2, <1>3, ParsingEnds
<1>5. LiveOK'
  BY <1>1, <1>2, LessLive DEF LiveOK
<1> QED
  BY <1>1, <1>2, <1>4, <1>5 DEF ParserInvariant

LEMMA SyntaxErrorKeeps == ParserInvariant /\ SyntaxError => ParserInvariant'
<1> SUFFICES ASSUME ParserInvariant, SyntaxError PROVE ParserInvariant'
  OBVIOUS
<1>1. diag' # "OK"
  BY DEF SyntaxError, Report
<1> QED
  BY <1>1, CleanUpKeeps DEF SyntaxError

LEMMA AcceptKeeps == ParserInvariant /\ Accept => ParserInvariant'
<1> SUFFICES ASSUME ParserInvariant, Accept PROVE ParserInvariant'
  OBVIOUS
<1>1. root # Nothing
  BY DEF Accept, ParserInvariant, ParsingOK
<1> QED
  BY <1>1, CleanUpKeeps DEF Accept

-----------------------------------------------------------------------------
(***************************************************************************)
(* So does a rule of the grammar.                                          *)
(***************************************************************************)
\* The symbols of a rule that is complete.
LEMMA CompleteRule ==
  ASSUME ParsingOK, NEW item \in Top, Complete(item)
  PROVE  /\ item.rule \in Rules \cup {Start} /\ Len(item.rule.rhs) \in Nat
         /\ Len(item.rule.rhs) <= Len(stack)
         /\ item.rule = Start => Len(stack) = 2
         /\ \A j \in 1..Len(item.rule.rhs) :
              ValueFits(item.rule.rhs[j], stack[Len(stack) - Len(item.rule.rhs) + j].val)
<1> DEFINE rule == item.rule
           m == Len(rule.rhs)
           n == Len(stack)
<1>1. StackOK(stack) /\ stack \in Seq(Entries) /\ n \in Nat /\ DOMAIN stack = 1..n
  BY ValuesAre DEF ParsingOK, StackOK
<1>2. Top = After(stack, n) /\ n \in 0..n
  BY <1>1, TopIs
<1>3. item \in Items /\ Seen(stack, n, item)
  BY <1>1, <1>2, StatesSeen
<1>4. rule \in Rules \cup {Start} /\ m \in Nat /\ item.at = m
  <2>1. rule \in Rules \cup {Start}
    BY <1>3 DEF Items
  <2>2. m \in Nat
    BY <2>1, RulesAre
  <2> QED
    BY <2>1, <2>2 DEF Complete
<1>5. m <= n /\ (rule = Start => m = n)
  BY <1>3, <1>4 DEF Seen
<1>6. \A j \in 1..m : Fits(stack[n - m + j].sym, rule.rhs[j])
  BY <1>3, <1>4 DEF Seen
<1>7. \A j \in 1..m : n - m + j \in DOMAIN stack
  <2> HIDE DEF m, n, rule
  <2> QED
    BY <1>1, <1>4, <1>5
<1>8. \A j \in 1..m : ValueFits(rule.rhs[j], stack[n - m + j].val)
  <2> TAKE j \in 1..m
  <2> DEFINE e == stack[n - m + j]
  <2>1. ValueFits(e.sym, e.val) /\ Fits(e.sym, rule.rhs[j])
    BY <1>1, <1>6, <1>7 DEF StackOK
  <2> HIDE DEF e
  <2>2. ValueFits(rule.rhs[j], e.val)
    BY <2>1, FitsExpected
  <2> QED
    BY <2>2 DEF e
<1>9. rule = Start => n = 2
  BY <1>5, StartIs
<1> QED
  BY <1>4, <1>5, <1>8, <1>9

\* A rule that replaces trees A on the stack, besides which are the blocks B
\* below and L of the lookahead.
LEMMA BlocksReplaced ==
  ASSUME NEW A, NEW B, NEW L, live = A \cup B \cup L, LiveOK,
         A \cap B = {}, A \cap L = {}, B \cap L = {},
         NEW val, NEW freed, Keeps(val, freed, A, Fresh), freed \subseteq A \cup {0}
  PROVE  /\ (live \cup Blocks(val)) \ freed = B \cup Blocks(val) \cup L
         /\ Blocks(val) \cap B = {} /\ Blocks(val) \cap L = {}
<1>1. \A a \in Addresses(Fresh) : a \in Positive /\ a \notin live
  BY FreshIs DEF Addresses
<1>2. 0 \notin live
  BY DEF LiveOK, Positive
<1>3. Blocks(val) \subseteq (A \ freed) \cup Addresses(Fresh) /\ A \subseteq Blocks(val) \cup freed /\ 0 \notin Blocks(val)
  <2>1. 0 \notin Addresses(Fresh) /\ 0 \notin A
    BY <1>1, <1>2 DEF Positive
  <2> QED
    BY <2>1 DEF Keeps
<1>4. Blocks(val) \cap B = {} /\ Blocks(val) \cap L = {}
  BY <1>1, <1>3
<1>5. Blocks(val) \cap freed = {}
  BY <1>1, <1>3
<1>6. B \cap freed = {} /\ L \cap freed = {}
  BY <1>2
<1>7. A \ freed \subseteq Blocks(val)
  BY <1>3
<1> QED
  BY <1>4, <1>5, <1>6, <1>7

\* Only the first rule makes the input.
LEMMA NoInput == \A r \in Rules : r.lhs # "input"
BY DEF Rules, Operators, Binders, Calls, Lists, Leaves, Rule

LEMMA ReduceKeeps == ParserInvariant /\ Reduce => ParserInvariant'
<1> SUFFICES ASSUME ParserInvariant, Reduce PROVE ParserInvariant'
  OBVIOUS
<1>1. phase = "parsing" /\ ParsingOK /\ LiveOK /\ vocabulary \in Vocabularies
  BY DEF ParserInvariant, Reduce
<1>2. PICK item \in Top :
       LET rule == item.rule
           n == Len(stack) - Len(rule.rhs)
           below == SubSeq(stack, 1, n)
           args == Values(SubSeq(stack, n + 1, Len(stack)))
           result == Action(rule, args, Fresh)
       IN /\ Complete(item) /\ rule # Start
          /\ result.val \in Tree
          /\ \/ /\ result.val # Nothing
                /\ stack' = Append(below, Entry(rule.lhs, Goto(StateAt(n), rule.lhs), result.val))
                /\ live' = (live \cup Blocks(result.val)) \ result.freed
                /\ UNCHANGED <<vocabulary, tokens, look, lost, diag, root, copy, clones, phase>>
             \/ /\ result.val = Nothing
                /\ Abort(rule, below, args, "UNEXPECTED_TOKEN", result.freed)
                /\ UNCHANGED lost
             \/ /\ result.val # Nothing /\ rule.kind # "pass" /\ rule.reclaims
                /\ Abort(rule, below, args, "OUT_OF_MEMORY", BlocksOf(args))
                /\ UNCHANGED lost
             \/ /\ result.val # Nothing /\ rule.kind # "pass" /\ ~rule.reclaims
                /\ Abort(rule, below, args, "OUT_OF_MEMORY", {})
                /\ lost' = BlocksOf(args)
  BY DEF Reduce
<1> DEFINE rule == item.rule
           m == Len(rule.rhs)
           n == Len(stack) - m
           below == SubSeq(stack, 1, n)
           upper == SubSeq(stack, n + 1, Len(stack))
           args == Values(upper)
           result == Action(rule, args, Fresh)
<1>3. Complete(item) /\ rule # Start /\ result.val \in Tree
  BY <1>2
<1>4. \/ /\ result.val # Nothing
         /\ stack' = Append(below, Entry(rule.lhs, Goto(StateAt(n), rule.lhs), result.val))
         /\ live' = (live \cup Blocks(result.val)) \ result.freed
         /\ UNCHANGED <<vocabulary, tokens, look, lost, diag, root, copy, clones, phase>>
      \/ /\ result.val = Nothing
         /\ Abort(rule, below, args, "UNEXPECTED_TOKEN", result.freed)
         /\ lost' = lost
      \/ Abort(rule, below, args, "OUT_OF_MEMORY", BlocksOf(args)) /\ lost' = lost
      \/ Abort(rule, below, args, "OUT_OF_MEMORY", {}) /\ lost' = BlocksOf(args)
  BY <1>2
<1>5. /\ rule \in Rules /\ m \in Nat /\ m <= Len(stack)
      /\ \A j \in 1..m : ValueFits(rule.rhs[j], stack[n + j].val)
  BY <1>1, <1>3, CompleteRule
<1>6. StackOK(stack) /\ stack \in Seq(Entries) /\ Len(stack) \in Nat
  BY <1>1, ValuesAre DEF ParsingOK, StackOK
<1>7. n \in 0..Len(stack) /\ n \in Nat /\ Len(stack) - n = m
  <2> DEFINE k == Len(stack)
  <2>1. k \in Nat /\ m \in Nat /\ m <= k
    BY <1>5, <1>6
  <2> HIDE DEF k, m
  <2>2. k - m \in 0..k /\ k - m \in Nat /\ k - (k - m) = m
    BY <2>1
  <2> QED
    BY <2>2 DEF k
<1>8. root = Nothing
  BY <1>1, TopIs
<1>9. StateAt(n) = After(stack, n)
  BY DEF StateAt, After
<1> HIDE <1>2
<1>10. /\ below \in Seq(Entries) /\ Len(below) = n
       /\ upper \in Seq(Entries) /\ Len(upper) = m /\ \A i \in 1..Len(upper) : upper[i] = stack[n + i]
       /\ Values(stack) = Values(below) \o args
  <2> DEFINE k == n
  <2>1. k \in 0..Len(stack) /\ Len(stack) - k = m
    BY <1>7
  <2> HIDE DEF k
  <2>2. /\ SubSeq(stack, 1, k) \in Seq(Entries) /\ Len(SubSeq(stack, 1, k)) = k
        /\ SubSeq(stack, k + 1, Len(stack)) \in Seq(Entries) /\ Len(SubSeq(stack, k + 1, Len(stack))) = Len(stack) - k
        /\ \A i \in 1..Len(SubSeq(stack, k + 1, Len(stack))) : SubSeq(stack, k + 1, Len(stack))[i] = stack[k + i]
        /\ Values(stack) = Values(SubSeq(stack, 1, k)) \o Values(SubSeq(stack, k + 1, Len(stack)))
    BY <1>6, <2>1, Halves
  <2> HIDE DEF m
  <2> QED
    BY <2>1, <2>2 DEF k
<1>11. /\ args \in Seq(Proper) /\ args \in Seq(Tree) /\ Len(args) = m /\ DOMAIN args = 1..m
       /\ \A i \in 1..m : args[i] = stack[n + i].val
       /\ Values(below) \in Seq(Tree) /\ Values(below) \in Seq(Proper)
  <2> HIDE DEF upper, below, m, n
  <2>1. /\ args \in Seq(Proper) /\ args \in Seq(Tree) /\ Len(args) = Len(upper) /\ DOMAIN args = 1..Len(upper)
        /\ \A i \in 1..Len(upper) : args[i] = upper[i].val
    BY <1>10, ValuesAre
  <2>2. Values(below) \in Seq(Tree) /\ Values(below) \in Seq(Proper)
    BY <1>10, ValuesAre
  <2> QED
    BY <1>10, <2>1, <2>2
<1> DEFINE A == BlocksOf(args)
           B == BlocksOf(Values(below))
           L == Blocks(look.val)
<1>12. /\ BlocksOf(Values(stack)) = B \cup A /\ Apart(Values(below)) /\ Apart(args) /\ B \cap A = {}
  <2> DEFINE x == Values(below)
  <2>1. x \in Seq(Tree) /\ args \in Seq(Tree) /\ Values(stack) = x \o args /\ Apart(Values(stack))
    BY <1>1, <1>10, <1>11 DEF ParsingOK
  <2> HIDE DEF x, args
  <2>2. BlocksOf(x \o args) = BlocksOf(x) \cup BlocksOf(args) /\ (Apart(x \o args) => Apart(x) /\ Apart(args) /\ BlocksOf(x) \cap BlocksOf(args) = {})
    BY <2>1, Joined
  <2> QED
    BY <2>1, <2>2 DEF x
<1>13. /\ live = A \cup B \cup L /\ A \cap B = {} /\ A \cap L = {} /\ B \cap L = {} /\ Blocks(root) = {}
       /\ copy = Nothing /\ clones = <<>> /\ look.val \in Proper /\ lost = {}
  <2>1. Blocks(root) = {}
    BY <1>8, NothingIs
  <2>2. /\ BlocksOf(Values(stack)) \cap Blocks(look.val) = {}
        /\ live = BlocksOf(Values(stack)) \cup Blocks(look.val) \cup Blocks(root)
        /\ copy = Nothing /\ clones = <<>> /\ look.val \in Proper /\ lost = {}
    BY <1>1 DEF ParsingOK
  <2> HIDE DEF A, B
  <2> QED
    BY <1>12, <2>1, <2>2
<1>14. Given(rule, args, Fresh)
  <2>1. FreshFor(Fresh, A)
    BY <1>1, <1>13, FreshAddresses
  <2>2. \A i \in DOMAIN args : ValueFits(rule.rhs[i], args[i])
    <3> HIDE DEF args, n, m
    <3> QED
      BY <1>5, <1>11
  <2>3. Len(args) = Len(rule.rhs)
    BY <1>11
  <2> HIDE DEF args
  <2> QED
    BY <1>11, <1>12, <2>1, <2>2, <2>3 DEF Given
<1>15. Handles(result, A, Fresh) /\ (result.val # Nothing => ValueFits(rule.lhs, result.val))
  <2> HIDE DEF args, rule
  <2>1. Right(rule, args, Fresh)
    BY <1>3, <1>5, <1>14, ActionsAreRight
  <2> QED
    BY <2>1 DEF Right
<1> HIDE DEF result, args
<1>16. CASE /\ result.val # Nothing
            /\ stack' = Append(below, Entry(rule.lhs, Goto(StateAt(n), rule.lhs), result.val))
            /\ live' = (live \cup Blocks(result.val)) \ result.freed
            /\ UNCHANGED <<vocabulary, tokens, look, lost, diag, root, copy, clones, phase>>
  <2> DEFINE val == result.val
             freed == result.freed
  <2>1. Keeps(val, freed, A, Fresh) /\ freed \subseteq A \cup {0} /\ val \in Proper
    BY <1>3, <1>15, <1>16 DEF Handles, Keeps
  <2>2. rule.lhs \in Symbols
    BY <1>5 DEF Symbols
  <2>3. ValueFits(rule.lhs, val)
    BY <1>15, <1>16
  <2>4. StackOK(stack') /\ Values(stack') = Values(below) \o <<val>> /\ Last(stack').sym = rule.lhs
    <3> DEFINE t == Append(below, Entry(rule.lhs, Goto(After(stack, n), rule.lhs), val))
    <3>1. stack' = t
      BY <1>9, <1>16
    <3> HIDE DEF val, n, rule
    <3>2. StackOK(t) /\ Values(t) = Values(below) \o <<val>> /\ Last(t).sym = rule.lhs
      BY <1>6, <1>7, <2>1, <2>2, <2>3, Pushed
    <3> QED
      BY <3>1, <3>2
  <2>5. live' = (live \cup Blocks(val)) \ freed
    BY <1>16
  <2> HIDE DEF val, freed, below
  <2>6. /\ live' = B \cup Blocks(val) \cup L
        /\ Blocks(val) \cap B = {} /\ Blocks(val) \cap L = {}
    <3> HIDE DEF A, B, L
    <3> QED
      BY <1>1, <1>13, <2>1, <2>5, BlocksReplaced
  <2>7. val \in Tree
    BY <2>1, ProperSeqs
  <2>8. BlocksOf(Values(stack')) = B \cup Blocks(val) /\ Apart(Values(stack'))
    BY <1>11, <1>12, <2>4, <2>6, <2>7, AppendedTree
  <2>9. LiveOK'
    <3>1. IsFiniteSet(live') /\ live' \subseteq Positive
      BY <1>1, <2>5, <2>7, StillLive
    <3> QED
      BY <3>1 DEF LiveOK
  <2>10. lost' = lost /\ look' = look /\ root' = root /\ copy' = copy /\ clones' = clones /\ phase' = phase /\ vocabulary' = vocabulary
    BY <1>16
  <2>11. ParsingOK'
    <3>1. look'.val \in Proper /\ root' = Nothing /\ root' \in Proper /\ copy' = Nothing /\ clones' = <<>> /\ Blocks(root') = {}
      BY <1>8, <1>13, <2>10, NothingIs
    <3>2. Blocks(look'.val) = L /\ lost' = {}
      BY <1>13, <2>10
    <3>3. rule.lhs # "input"
      BY <1>5, NoInput
    <3>4. Last(stack').sym # "input"
      BY <2>4, <3>3
    <3> HIDE DEF A, B, L
    <3> QED
      BY <1>13, <2>4, <2>6, <2>8, <3>1, <3>2, <3>4 DEF ParsingOK
  <2> QED
    BY <1>1, <2>9, <2>10, <2>11 DEF ParserInvariant
<1>17. ASSUME NEW d, NEW freed, Abort(rule, below, args, d, freed), d # "OK",
              (A \subseteq freed /\ lost' = lost) \/ (freed = {} /\ lost' = A)
       PROVE ParserInvariant'
  <2>1. /\ live' = (live \ freed) \ (B \cup L)
        /\ stack' = <<>> /\ look' = NoLook /\ phase' = "ended" /\ diag' # "OK"
        /\ UNCHANGED <<vocabulary, tokens, root, copy, clones>>
    BY <1>17 DEF Abort, CleanUp, Report
  <2> HIDE DEF A, B, L
  <2>2. root \in Proper /\ copy' = Nothing /\ clones' = <<>> /\ root' = root
    BY <1>1, <1>13, <2>1 DEF ParsingOK
  <2>3. live' = Blocks(root) \cup lost'
    BY <1>13, <1>17, <2>1
  <2>4. ParsedOK'
    BY <1>8, <2>1, <2>2, <2>3, ParsingEnds
  <2>5. LiveOK'
    <3>1. live' \subseteq live
      BY <2>1
    <3> QED
      BY <1>1, <3>1, LessLive DEF LiveOK
  <2> QED
    BY <1>1, <2>1, <2>4, <2>5 DEF ParserInvariant
<1>18. CASE result.val = Nothing /\ Abort(rule, below, args, "UNEXPECTED_TOKEN", result.freed) /\ lost' = lost
  <2>1. A \subseteq result.freed
    BY <1>15, <1>18 DEF Handles
  <2> QED
    BY <1>17, <1>18, <2>1
<1>19. CASE Abort(rule, below, args, "OUT_OF_MEMORY", A) /\ lost' = lost
  BY <1>17, <1>19
<1>20. CASE Abort(rule, below, args, "OUT_OF_MEMORY", {}) /\ lost' = A
  BY <1>17, <1>20
<1> QED
  BY <1>4, <1>16, <1>18, <1>19, <1>20

LEMMA TakeRootKeeps == ParserInvariant /\ TakeRoot => ParserInvariant'
<1> SUFFICES ASSUME ParserInvariant, TakeRoot PROVE ParserInvariant'
  OBVIOUS
<1>1. phase = "parsing" /\ ParsingOK /\ LiveOK /\ vocabulary \in Vocabularies
      /\ root' = stack[1].val /\ stack' = <<Entry("input", {}, Nothing)>>
      /\ UNCHANGED <<vocabulary, tokens, look, live, lost, diag, copy, clones, phase>>
  BY DEF ParserInvariant, TakeRoot
<1>2. PICK item \in Top : Complete(item) /\ item.rule = Start
  BY DEF TakeRoot
<1>3. Len(stack) = 2 /\ ValueFits("expr", stack[1].val) /\ ValueFits(".", stack[2].val)
  <2>1. /\ Len(stack) = 2
        /\ \A j \in 1..Len(item.rule.rhs) : ValueFits(item.rule.rhs[j], stack[Len(stack) - Len(item.rule.rhs) + j].val)
    BY <1>1, <1>2, CompleteRule
  <2>2. Len(item.rule.rhs) = 2 /\ item.rule.rhs[1] = "expr" /\ item.rule.rhs[2] = "."
    BY <1>2, StartIs
  <2>3. /\ 1 \in 1..Len(item.rule.rhs) /\ Len(stack) - Len(item.rule.rhs) + 1 = 1
        /\ 2 \in 1..Len(item.rule.rhs) /\ Len(stack) - Len(item.rule.rhs) + 2 = 2
    BY <2>1, <2>2
  <2> QED
    BY <2>1, <2>2, <2>3
<1>4. stack[2].val = Nothing /\ root' # Nothing
  <2>1. "." \in Tokens \ {"id", "text"} /\ "expr" \in ExprSymbols
    BY DEF Tokens, ExprSymbols
  <2>2. stack[2].val = Nothing /\ stack[1].val.kind \in Expressions
    BY <1>3, <2>1 DEF ValueFits
  <2>3. Nothing.kind \notin Expressions
    BY DEF Nothing, Node, Expressions
  <2> QED
    BY <1>1, <2>2, <2>3
<1>5. stack \in Seq(Entries)
  BY <1>1 DEF ParsingOK, StackOK
<1>6. Values(stack) \in Seq(Tree) /\ Len(Values(stack)) = 2 /\ Values(stack)[1] = stack[1].val
      /\ Values(stack)[2] = Nothing /\ DOMAIN Values(stack) = 1..2 /\ stack[1].val \in Proper
  <2> DEFINE u == Values(stack)
  <2>1. /\ u \in Seq(Proper) /\ u \in Seq(Tree) /\ Len(u) = 2 /\ DOMAIN u = 1..2
        /\ \A i \in 1..2 : u[i] = stack[i].val
    BY <1>3, <1>5, ValuesAre
  <2> HIDE DEF u
  <2>a. 1 \in 1..2 /\ 2 \in 1..2
    OBVIOUS
  <2>b. u[1] = stack[1].val /\ u[2] = stack[2].val
    BY <2>a, <2>1
  <2>c. u[1] \in Proper
    BY <2>a, <2>1
  <2>2. u[1] = stack[1].val /\ u[2] = Nothing /\ u[1] \in Proper
    BY <1>4, <2>b, <2>c
  <2> QED
    BY <2>1, <2>2 DEF u
<1>7. BlocksOf(Values(stack)) = Blocks(stack[1].val)
  <2> DEFINE u == Values(stack)
  <2>0. u[2] = Nothing /\ DOMAIN u = 1..2 /\ u[1] = stack[1].val
    BY <1>6
  <2> HIDE DEF u
  <2>a. Blocks(Nothing) = {}
    BY NothingIs
  <2>b. 1..2 = {1, 2}
    OBVIOUS
  <2>1. Blocks(u[2]) = {} /\ DOMAIN u = {1, 2} /\ u[1] = stack[1].val
    BY <2>0, <2>a, <2>b, Zenon
  <2>2. BlocksOf(u) = Blocks(u[1])
    BY <2>1 DEF BlocksOf
  <2> QED
    BY <2>1, <2>2 DEF u
<1>8. root = Nothing /\ Blocks(root) = {}
  BY <1>1, <1>2, TopIs, NothingIs
<1>9. live = Blocks(root') \cup Blocks(look.val) /\ Blocks(root') \cap Blocks(look.val) = {} /\ root' \in Proper
  BY <1>1, <1>6, <1>7, <1>8 DEF ParsingOK
<1> DEFINE e == Entry("input", {}, Nothing)
<1>10. e \in Entries /\ e.sym = "input" /\ e.val = Nothing /\ e.state = {}
  BY NothingIs DEF Entries, Entry, Symbols
<1>11. ValueFits("input", Nothing)
  <2>1. "input" \notin ListSymbols /\ "input" \notin ExprSymbols /\ "input" \notin Tokens /\ "input" \notin {"id", "text"}
        /\ "input" # "lambda_head"
    BY DEF ListSymbols, ExprSymbols, Tokens
  <2> QED
    BY <2>1 DEF ValueFits
<1> HIDE DEF e
<1>12. StackOK(<<e>>)
  <2> DEFINE s == <<e>>
  <2>1. s \in Seq(Entries) /\ \A n \in DOMAIN s : s[n] = e
    BY <1>10
  <2> HIDE DEF s
  <2>2. StackOK(s)
    BY <1>10, <1>11, <2>1 DEF StackOK
  <2> QED
    BY <2>2 DEF s
<1>13. Values(<<e>>) = <<Nothing>>
  BY <1>10 DEF Values
<1>14. BlocksOf(<<Nothing>>) = {} /\ Apart(<<Nothing>>)
  BY NothingIs, OneTree
<1>15. stack' = <<e>>
  BY <1>1 DEF e
<1>16. /\ StackOK(stack') /\ Apart(Values(stack')) /\ BlocksOf(Values(stack')) = {}
  BY <1>12, <1>13, <1>14, <1>15
<1>17. ParsingOK'
  BY <1>1, <1>4, <1>9, <1>16 DEF ParsingOK
<1>18. LiveOK'
  BY <1>1 DEF LiveOK
<1> QED
  BY <1>1, <1>17, <1>18 DEF ParserInvariant

-----------------------------------------------------------------------------
(***************************************************************************)
(* Shapes, of trees and of clones.                                         *)
(***************************************************************************)
OfShape(t, g) == [kind |-> t.kind, name |-> t.name, kids |-> OfKids(t, g)]

Shapes(g, S) == g = [t \in S |-> OfShape(t, g)]

LEMMA ShapesExist == \E g : Shapes(g, Tree)
<1> DEFINE T == {h \in Nat : h <= MaxHeight => \E g : Shapes(g, TreesUpTo[h])}
<1>m. MaxHeight \in Nat
  BY ParserAssumption
<1>1. 0 \in T
  <2> DEFINE g == [t \in TreesUpTo[0] |-> OfShape(t, <<>>)]
  <2>1. \A t \in TreesUpTo[0] : DOMAIN t.kids = {}
    <3> TAKE t \in TreesUpTo[0]
    <3>0. 0 \in 0..MaxHeight
      BY <1>m
    <3>1. IF 0 = 0 THEN t.kids = <<>> ELSE 0 - 1 \in 0..MaxHeight /\ t.kids \in Seq(TreesUpTo[0 - 1])
      BY <3>0, Kids, Zenon
    <3> QED
      BY <3>1
  <2>2. \A t \in TreesUpTo[0] : OfKids(t, g) = OfKids(t, <<>>)
    <3> HIDE DEF g
    <3> QED
      BY <2>1 DEF OfKids
  <2>3. \A t \in TreesUpTo[0] : OfShape(t, g) = OfShape(t, <<>>)
    <3> HIDE DEF g
    <3> QED
      BY <2>2 DEF OfShape
  <2>4. Shapes(g, TreesUpTo[0])
    BY <2>3, Zenon DEF Shapes
  <2> QED
    BY <2>4
<1>2. ASSUME NEW h \in Nat, h \in T PROVE h + 1 \in T
  <2> SUFFICES ASSUME h + 1 <= MaxHeight PROVE \E g : Shapes(g, TreesUpTo[h + 1])
    OBVIOUS
  <2>1. h + 1 \in 0..MaxHeight /\ h + 1 # 0 /\ h + 1 - 1 = h /\ h \in 0..MaxHeight
    BY <1>m
  <2>2. PICK f : Shapes(f, TreesUpTo[h])
    BY <1>2, <2>1
  <2> DEFINE g == [t \in TreesUpTo[h + 1] |-> OfShape(t, f)]
  <2>3. \A t \in TreesUpTo[h + 1] : t \in Tree /\ t.kids \in Seq(TreesUpTo[h])
    BY <2>1, HigherTrees
  <2>4. TreesUpTo[h] \subseteq TreesUpTo[h + 1]
    BY <2>1, TreesGrow
  <2>5. \A t \in TreesUpTo[h] : g[t] = f[t]
    <3> TAKE t \in TreesUpTo[h]
    <3>1. g[t] = OfShape(t, f)
      BY <2>4
    <3>2. f[t] = OfShape(t, f)
      BY <2>2, Zenon DEF Shapes
    <3> QED
      BY <3>1, <3>2
  <2>7. \A t \in TreesUpTo[h + 1] : OfKids(t, g) = OfKids(t, f)
    <3> TAKE t \in TreesUpTo[h + 1]
    <3>1. \A i \in DOMAIN t.kids : g[t.kids[i]] = f[t.kids[i]]
      <4> TAKE i \in DOMAIN t.kids
      <4>1. t.kids[i] \in TreesUpTo[h]
        BY <2>3
      <4> QED
        BY <4>1, <2>5, Zenon
    <3> HIDE DEF g
    <3> QED
      BY <3>1 DEF OfKids
  <2>8. \A t \in TreesUpTo[h + 1] : OfShape(t, g) = OfShape(t, f)
    <3> HIDE DEF g
    <3> QED
      BY <2>7 DEF OfShape
  <2>9. Shapes(g, TreesUpTo[h + 1])
    BY <2>8, Zenon DEF Shapes
  <2> QED
    BY <2>9
<1> HIDE DEF T
<1>3. \A h \in Nat : h \in T
  BY <1>1, <1>2, SetInduction
<1>4. \E g : Shapes(g, TreesUpTo[MaxHeight])
  BY <1>m, <1>3 DEF T
<1> QED
  BY <1>4 DEF Tree

LEMMA ShapeIs == \A t \in Tree : Shape[t] = OfShape(t, Shape)
<1>1. Shape = CHOOSE g : Shapes(g, Tree)
  BY DEF Shape, Shapes, OfShape, OfKids
<1>2. Shapes(Shape, Tree)
  BY <1>1, ShapesExist
<1> QED
  BY <1>2, Zenon DEF Shapes

LEMMA SameShape ==
  ASSUME NEW a \in Tree, NEW b \in Tree, a.kind = b.kind, a.name = b.name, Len(a.kids) = Len(b.kids),
         \A k \in DOMAIN a.kids : Shape[a.kids[k]] = Shape[b.kids[k]]
  PROVE  Shape[a] = Shape[b]
<1>1. DOMAIN a.kids = DOMAIN b.kids
  <2>1. DOMAIN a.kids = 1..Len(a.kids) /\ DOMAIN b.kids = 1..Len(b.kids)
    BY TreeFields
  <2> QED
    BY <2>1
<1>2. OfKids(a, Shape) = OfKids(b, Shape)
  BY <1>1 DEF OfKids
<1>4. OfShape(a, Shape) = OfShape(b, Shape)
  BY <1>2 DEF OfShape
<1> QED
  BY <1>4, ShapeIs

-----------------------------------------------------------------------------
(***************************************************************************)
(* Clones.                                                                 *)
(***************************************************************************)

\* A tree with other kids that are no higher.
LEMMA OtherKids ==
  ASSUME NEW h \in 0..MaxHeight, NEW t \in TreesUpTo[h], NEW at \in Nat, NEW kids,
         kids = <<>> \/ (h # 0 /\ kids \in Seq(TreesUpTo[h - 1]))
  PROVE  [kind |-> t.kind, at |-> at, name |-> t.name, kids |-> kids] \in TreesUpTo[h]
<1>1. t.kind \in Kinds /\ t.name \in Names \cup {""}
  BY Kids
<1> DEFINE K == IF h = 0 THEN {<<>>} ELSE Seq(TreesUpTo[h - 1])
<1>2. TreesUpTo[h] = TreesWith(K)
  BY TreesAre DEF TreesOver
<1>3. kids \in K
  <2>1. <<>> \in Seq(TreesUpTo[h - 1])
    OBVIOUS
  <2> QED
    BY <2>1
<1> HIDE DEF K
<1>4. [kind |-> t.kind, at |-> at, name |-> t.name, kids |-> kids] \in TreesWith(K)
  BY <1>1, <1>3 DEF TreesWith
<1> QED
  BY <1>2, <1>4

LEMMA CloningIs ==
  ASSUME NEW tree \in Tree, NEW kids \in Seq(SoundTrees), Apart(kids),
         Cloning(tree, kids).made \in Tree
  PROVE  /\ Cloning(tree, kids) \in Clones
         /\ Cloning(tree, kids).tree = tree
         /\ Cloning(tree, kids).made.kids = kids
         /\ Blocks(Cloning(tree, kids).made) = BlocksOf(kids)
         /\ Cloning(tree, kids) = Cloning(Cloning(tree, kids).tree, Cloning(tree, kids).made.kids)
<1> DEFINE m == Cloning(tree, kids).made
<1>1. m.kids = kids /\ m.at = 0 /\ m \in Tree
  BY DEF Cloning
<1>2. Cloning(tree, kids) = [tree |-> tree, made |-> m] /\ Cloning(tree, kids).tree = tree
  BY DEF Cloning
<1> HIDE DEF m
<1>3. Blocks(m) = BlocksOf(kids)
  <2>1. Blocks(m) = ({m.at} \ {0}) \cup BlocksOf(m.kids)
    BY <1>1, BlocksAre
  <2> QED
    BY <1>1, <2>1
<1>4. \A i \in DOMAIN kids : kids[i] \in Tree /\ Sound(kids[i]) /\ 0 \notin Blocks(kids[i])
  BY BlocksAre DEF SoundTrees
<1>5. Sound(m)
  BY <1>1, <1>4, SoundTree
<1>6. m \in SoundTrees
  BY <1>1, <1>5 DEF SoundTrees
<1>7. [tree |-> tree, made |-> m] \in Clones
  BY <1>6 DEF Clones
<1> QED
  BY <1>1, <1>2, <1>3, <1>7 DEF m

LEMMA FirstCloning ==
  ASSUME NEW tree \in Tree
  PROVE  /\ Cloning(tree, <<>>) \in Clones
         /\ Cloning(tree, <<>>).tree = tree
         /\ Blocks(Cloning(tree, <<>>).made) = {}
         /\ Copies(Cloning(tree, <<>>))
<1> DEFINE none == <<>>
           c == Cloning(tree, none)
<1>0. none \in Seq(SoundTrees) /\ Apart(none) /\ BlocksOf(none) = {} /\ Len(none) = 0 /\ DOMAIN none = {} /\ none = <<>>
  BY NoTrees
<1> HIDE DEF none
<1>1. \A h \in 0..MaxHeight : tree \in TreesUpTo[h] => c.made \in TreesUpTo[h]
  <2> SUFFICES ASSUME NEW h \in 0..MaxHeight, tree \in TreesUpTo[h] PROVE c.made \in TreesUpTo[h]
    OBVIOUS
  <2>0. 0 \in Nat /\ (none = <<>> \/ (h # 0 /\ none \in Seq(TreesUpTo[h - 1])))
    BY <1>0
  <2>1. [kind |-> tree.kind, at |-> 0, name |-> tree.name, kids |-> none] \in TreesUpTo[h]
    BY <2>0, OtherKids, Zenon
  <2> QED
    BY <2>1 DEF Cloning
<1>2. c.made \in Tree
  BY <1>1, ParserAssumption DEF Tree
<1>3. /\ c \in Clones /\ c.tree = tree /\ c.made.kids = none /\ Blocks(c.made) = BlocksOf(none)
      /\ c = Cloning(c.tree, c.made.kids)
  BY <1>0, <1>2, CloningIs
<1>4. Len(tree.kids) \in Nat
  BY TreeFields
<1> HIDE DEF c
<1>5. Copies(c)
  BY <1>0, <1>1, <1>3, <1>4 DEF Copies
<1> QED
  BY <1>0, <1>3, <1>5 DEF c, none

\* A call of enact_ast_clone is done with its node, and gives it to its caller.
Resumed(c, n, node) == [SubSeq(c, 1, n) EXCEPT ![n] = Cloning(@.tree, Append(@.made.kids, node))]

LEMMA Returned ==
  ASSUME NEW c, NEW origin, ClonesOK(c, origin), NEW n \in Nat, n # 0, Len(c) = n + 1,
         NEW node \in SoundTrees, NEW a, a \notin BlocksOf(MadeOf(c)),
         Blocks(node) = {a} \cup Blocks(c[n + 1].made),
         Shape[node] = Shape[c[n + 1].tree],
         \A h \in 0..MaxHeight : c[n + 1].tree \in TreesUpTo[h] => node \in TreesUpTo[h]
  PROVE  /\ ClonesOK(Resumed(c, n, node), origin) /\ Resumed(c, n, node) # <<>>
         /\ BlocksOf(MadeOf(Resumed(c, n, node))) = {a} \cup BlocksOf(MadeOf(c))
<1> DEFINE up == SubSeq(c, 1, n)
           old == c[n]
           kids == Append(old.made.kids, node)
           new == Cloning(old.tree, kids)
           d == Resumed(c, n, node)
<1>1. c \in Seq(Clones) /\ Apart(MadeOf(c)) /\ c[1].tree = origin
      /\ (\A i \in DOMAIN c : Copies(c[i])) /\ (\A i \in 1..n : Nested(c[i], c[i + 1]))
  <2>1. c # <<>>
    OBVIOUS
  <2>2. Len(c) - 1 = n
    OBVIOUS
  <2> QED
    BY <2>1, <2>2 DEF ClonesOK
<1>2. up \in Seq(Clones) /\ Len(up) = n /\ \A i \in 1..n : up[i] = c[i]
  BY <1>1
<1>3. DOMAIN c = 1..(n + 1) /\ n \in 1..n /\ n \in DOMAIN c /\ n + 1 \in DOMAIN c /\ n # n + 1
  BY <1>1
<1>4. old \in Clones /\ Copies(old) /\ Nested(old, c[n + 1]) /\ c[n + 1] \in Clones
  BY <1>1, <1>3
<1>5. d = [up EXCEPT ![n] = new]
  BY <1>2, <1>3 DEF Resumed
<1>6. old.tree \in Tree /\ old.made \in SoundTrees /\ old.made \in Tree /\ Sound(old.made)
      /\ Len(old.made.kids) \in Nat
  <2>1. old.tree \in Tree /\ old.made \in SoundTrees
    BY <1>4 DEF Clones
  <2>2. old.made \in Tree /\ Sound(old.made)
    BY <2>1 DEF SoundTrees
  <2> QED
    BY <2>1, <2>2, TreeFields
<1> HIDE DEF old
<1>7. old.made.kids \in Seq(SoundTrees) /\ Apart(old.made.kids) /\ Blocks(old.made) = BlocksOf(old.made.kids)
  <2>1. old.made.kids \in Seq(Tree) /\ Apart(old.made.kids) /\ \A i \in DOMAIN old.made.kids : Sound(old.made.kids[i])
    BY <1>6, TreeFields, SoundTree
  <2>2. old.made.at = 0
    <3>1. old = Cloning(old.tree, old.made.kids)
      BY <1>4 DEF Copies
    <3>2. Cloning(old.tree, old.made.kids).made.at = 0
      BY DEF Cloning
    <3> QED
      BY <3>1, <3>2, Zenon
  <2>3. Blocks(old.made) = ({old.made.at} \ {0}) \cup BlocksOf(old.made.kids)
    BY <1>6, BlocksAre
  <2>4. \A i \in DOMAIN old.made.kids : old.made.kids[i] \in SoundTrees
    BY <2>1 DEF SoundTrees
  <2> QED
    BY <2>1, <2>2, <2>3, <2>4
<1> DEFINE m == MadeOf(c)
<1>8. DOMAIN m = DOMAIN c /\ \A i \in DOMAIN c : m[i] = c[i].made
  BY DEF MadeOf
<1>9. /\ Blocks(old.made) \cap Blocks(c[n + 1].made) = {}
      /\ Blocks(old.made) \subseteq BlocksOf(m) /\ Blocks(c[n + 1].made) \subseteq BlocksOf(m)
      /\ Blocks(old.made) \cap Blocks(node) = {}
  <2> HIDE DEF m
  <2>1. Blocks(m[n]) \cap Blocks(m[n + 1]) = {} /\ m[n] = old.made /\ m[n + 1] = c[n + 1].made
    BY <1>1, <1>3, <1>8 DEF Apart, m, old
  <2>2. Blocks(m[n]) \subseteq BlocksOf(m) /\ Blocks(m[n + 1]) \subseteq BlocksOf(m)
    BY <1>3, <1>8 DEF BlocksOf
  <2>3. a \notin BlocksOf(m)
    BY DEF m
  <2> QED
    BY <2>1, <2>2, <2>3
<1>10. kids \in Seq(SoundTrees) /\ Apart(kids) /\ BlocksOf(kids) = Blocks(old.made) \cup Blocks(node)
       /\ Len(kids) = Len(old.made.kids) + 1 /\ kids[Len(kids)] = node
       /\ \A k \in DOMAIN old.made.kids : kids[k] = old.made.kids[k]
  <2> DEFINE s == old.made.kids
  <2>1. s \in Seq(Tree) /\ s \in Seq(SoundTrees) /\ node \in Tree
    BY <1>6, <1>7, TreeFields DEF SoundTrees
  <2>2. Apart(s) /\ BlocksOf(s) \cap Blocks(node) = {} /\ BlocksOf(s) = Blocks(old.made)
    BY <1>7, <1>9
  <2> HIDE DEF s
  <2>3. BlocksOf(s \o <<node>>) = BlocksOf(s) \cup Blocks(node) /\ Apart(s \o <<node>>)
    BY <2>1, <2>2, AppendedTree
  <2>4. Append(s, node) = s \o <<node>>
    BY <2>1
  <2>5. /\ Append(s, node) \in Seq(SoundTrees) /\ Len(Append(s, node)) = Len(s) + 1
        /\ Append(s, node)[Len(Append(s, node))] = node
        /\ \A k \in DOMAIN s : Append(s, node)[k] = s[k]
    BY <2>1
  <2>6. kids = Append(s, node)
    BY DEF s
  <2> HIDE DEF kids
  <2> QED
    BY <2>2, <2>3, <2>4, <2>5, <2>6 DEF s
<1> DEFINE l == Len(old.made.kids)
<1>11. l + 1 \in DOMAIN old.tree.kids /\ c[n + 1].tree = old.tree.kids[l + 1]
  BY <1>4 DEF Nested
<1>12. \A h \in 0..MaxHeight : old.tree \in TreesUpTo[h] => new.made \in TreesUpTo[h]
  <2> SUFFICES ASSUME NEW h \in 0..MaxHeight, old.tree \in TreesUpTo[h] PROVE new.made \in TreesUpTo[h]
    OBVIOUS
  <2>1. IF h = 0 THEN old.tree.kids = <<>> ELSE h - 1 \in 0..MaxHeight /\ old.tree.kids \in Seq(TreesUpTo[h - 1])
    BY Kids
  <2>2. h # 0
    <3>1. DOMAIN <<>> = {}
      OBVIOUS
    <3> HIDE DEF l
    <3> QED
      BY <1>11, <2>1, <3>1
  <2>3. h - 1 \in 0..MaxHeight /\ old.tree.kids \in Seq(TreesUpTo[h - 1])
    BY <2>1, <2>2
  <2>4. node \in TreesUpTo[h - 1]
    <3>1. old.tree.kids[l + 1] \in TreesUpTo[h - 1]
      <4> HIDE DEF l
      <4> QED
        BY <1>11, <2>3
    <3> QED
      BY <1>11, <2>3, <3>1
  <2>5. old.made \in TreesUpTo[h]
    BY <1>4 DEF Copies
  <2>6. old.made.kids \in Seq(TreesUpTo[h - 1])
    <3>1. IF h = 0 THEN old.made.kids = <<>> ELSE h - 1 \in 0..MaxHeight /\ old.made.kids \in Seq(TreesUpTo[h - 1])
      BY <2>5, Kids
    <3> QED
      BY <2>2, <3>1
  <2>7. kids \in Seq(TreesUpTo[h - 1])
    <3> DEFINE s == old.made.kids
               H == TreesUpTo[h - 1]
    <3>1. s \in Seq(H) /\ node \in H
      BY <2>4, <2>6
    <3> HIDE DEF s, H
    <3>2. Append(s, node) \in Seq(H)
      BY <3>1
    <3> QED
      BY <3>2 DEF s, H
  <2> HIDE DEF kids
  <2>8. 0 \in Nat /\ (kids = <<>> \/ (h # 0 /\ kids \in Seq(TreesUpTo[h - 1])))
    BY <2>2, <2>7
  <2>9. [kind |-> old.tree.kind, at |-> 0, name |-> old.tree.name, kids |-> kids] \in TreesUpTo[h]
    BY <2>8, OtherKids, Zenon
  <2> QED
    BY <2>9 DEF Cloning
<1>13. new.made \in Tree
  BY <1>6, <1>12, ParserAssumption DEF Tree
<1>14. /\ new \in Clones /\ new.tree = old.tree /\ new.made.kids = kids /\ Blocks(new.made) = BlocksOf(kids)
       /\ new = Cloning(new.tree, new.made.kids)
  <2> HIDE DEF kids
  <2> QED
    BY <1>6, <1>10, <1>13, CloningIs
<1> HIDE DEF new, kids
<1>15. Copies(new)
  <2>1. DOMAIN old.tree.kids = 1..Len(old.tree.kids) /\ Len(old.tree.kids) \in Nat
    BY <1>6, TreeFields
  <2>2. l \in Nat /\ DOMAIN old.made.kids = 1..l /\ DOMAIN kids = 1..(l + 1) /\ kids[l + 1] = node /\ Len(kids) = l + 1
    BY <1>6, <1>7, <1>10
  <2> HIDE DEF l
  <2>3. Len(kids) <= Len(old.tree.kids)
    BY <1>11, <2>1, <2>2
  <2>4. \A k \in DOMAIN kids : Shape[kids[k]] = Shape[old.tree.kids[k]]
    <3> TAKE k \in DOMAIN kids
    <3>1. CASE k = l + 1
      BY <1>11, <2>2, <3>1
    <3>2. CASE k \in DOMAIN old.made.kids
      BY <1>4, <1>10, <3>2 DEF Copies
    <3> QED
      BY <2>2, <3>1, <3>2
  <2> QED
    BY <1>12, <1>14, <2>3, <2>4 DEF Copies
<1>16. /\ d \in Seq(Clones) /\ DOMAIN d = 1..n /\ Len(d) = n /\ d # <<>>
       /\ d[n] = new /\ \A i \in 1..n : i # n => d[i] = c[i]
  <2> HIDE DEF up, d
  <2>1. DOMAIN up = 1..n /\ up \in [1..n -> Clones]
    BY <1>2
  <2>2. DOMAIN d = 1..n /\ d[n] = new /\ (\A i \in 1..n : i # n => d[i] = c[i]) /\ d \in [1..n -> Clones]
    BY <1>2, <1>3, <1>5, <1>14, <2>1
  <2>3. d \in Seq(Clones) /\ Len(d) = n
    BY <2>2
  <2>4. d # <<>>
    BY <2>3
  <2> QED
    BY <2>2, <2>3, <2>4
<1> HIDE DEF d
<1>17. \A i \in 1..n : d[i].tree = c[i].tree
  BY <1>14, <1>16 DEF old
<1>18. \A i \in DOMAIN d : Copies(d[i])
  BY <1>1, <1>3, <1>15, <1>16
<1>19. d[1].tree = origin
  BY <1>1, <1>17
<1>20. \A i \in 1..(Len(d) - 1) : Nested(d[i], d[i + 1])
  <2> TAKE i \in 1..(Len(d) - 1)
  <2>1. i \in 1..n /\ i + 1 \in 1..n /\ i # n /\ i \in DOMAIN c
    BY <1>16, <1>3
  <2>2. Nested(c[i], c[i + 1]) /\ d[i] = c[i] /\ d[i + 1].tree = c[i + 1].tree
    BY <1>1, <1>16, <1>17, <2>1
  <2> QED
    BY <2>2 DEF Nested
<1> DEFINE u == MadeOf(d)
<1>21. DOMAIN u = 1..n /\ \A i \in 1..n : u[i] = d[i].made
  BY <1>16 DEF MadeOf
<1> HIDE DEF u, m
<1>22. /\ Blocks(u[n]) = Blocks(m[n]) \cup Blocks(node) /\ Blocks(node) = {a} \cup Blocks(m[n + 1])
       /\ \A i \in 1..n : i # n => u[i] = m[i]
  <2>1. u[n] = new.made /\ Blocks(new.made) = Blocks(old.made) \cup Blocks(node)
    BY <1>3, <1>10, <1>14, <1>16, <1>21
  <2>2. m[n] = old.made /\ m[n + 1] = c[n + 1].made
    BY <1>3, <1>8 DEF old
  <2>3. ASSUME NEW i \in 1..n, i # n PROVE u[i] = m[i]
    <3>1. u[i] = d[i].made /\ d[i] = c[i] /\ i \in DOMAIN c
      BY <1>3, <1>16, <1>21, <2>3
    <3> QED
      BY <1>8, <3>1
  <2> QED
    BY <2>1, <2>2, <2>3
<1>23. Apart(m) /\ a \notin BlocksOf(m) /\ DOMAIN m = 1..(n + 1)
  BY <1>1, <1>3, <1>8 DEF m
<1>24. 1..(n + 1) = (1..n) \cup {n + 1} /\ n + 1 \notin 1..n
  OBVIOUS
<1>25. Apart(u)
  <2>1. ASSUME NEW i \in 1..n, i # n PROVE Blocks(u[i]) \cap Blocks(u[n]) = {}
    <3>1. u[i] = m[i] /\ i \in DOMAIN m /\ n \in DOMAIN m /\ n + 1 \in DOMAIN m /\ i # n + 1
      BY <1>3, <1>22, <1>23, <1>24, <2>1
    <3>2. Blocks(m[i]) \cap Blocks(m[n]) = {} /\ Blocks(m[i]) \cap Blocks(m[n + 1]) = {}
      BY <1>23, <2>1, <3>1 DEF Apart
    <3>3. a \notin Blocks(m[i])
      BY <1>23, <3>1 DEF BlocksOf
    <3> QED
      BY <1>22, <3>1, <3>2, <3>3
  <2>2. ASSUME NEW i \in 1..n, NEW j \in 1..n, i # j, i # n, j # n PROVE Blocks(u[i]) \cap Blocks(u[j]) = {}
    <3>1. u[i] = m[i] /\ u[j] = m[j] /\ i \in DOMAIN m /\ j \in DOMAIN m
      BY <1>22, <1>23, <1>24, <2>2
    <3> QED
      BY <1>23, <2>2, <3>1 DEF Apart
  <2> QED
    BY <1>21, <2>1, <2>2 DEF Apart
<1>26. BlocksOf(u) = {a} \cup BlocksOf(m)
  <2>1. \A i \in 1..n : Blocks(m[i]) \subseteq Blocks(u[i]) /\ Blocks(u[i]) \subseteq {a} \cup BlocksOf(m)
    <3> TAKE i \in 1..n
    <3>1. i \in DOMAIN m /\ n \in DOMAIN m /\ n + 1 \in DOMAIN m
      BY <1>3, <1>23, <1>24
    <3>2. Blocks(m[i]) \subseteq BlocksOf(m) /\ Blocks(m[n + 1]) \subseteq BlocksOf(m)
      BY <3>1 DEF BlocksOf
    <3> QED
      BY <1>22, <3>2
  <2>2. {a} \cup Blocks(m[n + 1]) \subseteq Blocks(u[n])
    BY <1>22
  <2>3. BlocksOf(u) \subseteq {a} \cup BlocksOf(m)
    BY <1>21, <2>1 DEF BlocksOf
  <2>4. a \in BlocksOf(u) /\ Blocks(m[n + 1]) \subseteq BlocksOf(u)
    BY <1>3, <1>21, <2>2 DEF BlocksOf
  <2>5. \A i \in 1..n : Blocks(m[i]) \subseteq BlocksOf(u)
    BY <1>21, <2>1 DEF BlocksOf
  <2>6. \A i \in DOMAIN m : Blocks(m[i]) \subseteq BlocksOf(u)
    BY <1>23, <1>24, <2>4, <2>5
  <2>7. BlocksOf(m) \subseteq BlocksOf(u)
    BY <2>6 DEF BlocksOf
  <2> QED
    BY <2>3, <2>4, <2>7
<1>27. ClonesOK(d, origin)
  BY <1>16, <1>18, <1>19, <1>20, <1>25 DEF ClonesOK, u
<1> QED
  BY <1>16, <1>26, <1>27 DEF d, u, m

-----------------------------------------------------------------------------
(***************************************************************************)
(* The C stack of enact_ast_clone.                                         *)
(***************************************************************************)
LEMMA MadeIs ==
  ASSUME NEW c \in Seq(Clones)
  PROVE  /\ MadeOf(c) \in Seq(SoundTrees) /\ MadeOf(c) \in Seq(Tree)
         /\ Len(MadeOf(c)) = Len(c) /\ DOMAIN MadeOf(c) = DOMAIN c
         /\ \A i \in DOMAIN c : MadeOf(c)[i] = c[i].made
<1> DEFINE m == MadeOf(c)
<1>1. DOMAIN m = DOMAIN c /\ m = [i \in DOMAIN m |-> m[i]] /\ \A i \in DOMAIN c : m[i] = c[i].made
  BY DEF MadeOf
<1>2. Len(c) \in Nat /\ DOMAIN c = 1..Len(c) /\ \A i \in DOMAIN c : c[i] \in Clones
  OBVIOUS
<1>3. \A i \in DOMAIN c : c[i].made \in SoundTrees
  BY <1>2 DEF Clones
<1> HIDE DEF m
<1>4. m \in Seq(SoundTrees) /\ Len(m) = Len(c)
  BY <1>1, <1>2, <1>3
<1>5. m \in Seq(Tree)
  BY <1>4 DEF SoundTrees
<1> QED
  BY <1>1, <1>4, <1>5 DEF m

LEMMA OneCall ==
  ASSUME NEW tree \in Tree
  PROVE  /\ ClonesOK(<<Cloning(tree, <<>>)>>, tree)
         /\ BlocksOf(MadeOf(<<Cloning(tree, <<>>)>>)) = {}
<1> DEFINE x == Cloning(tree, <<>>)
           c == <<x>>
<1>1. x \in Clones /\ x.tree = tree /\ Blocks(x.made) = {} /\ Copies(x)
  BY FirstCloning
<1> HIDE DEF x
<1>2. c \in Seq(Clones) /\ Len(c) = 1 /\ DOMAIN c = {1} /\ c[1] = x
  BY <1>1
<1>3. MadeOf(c) = <<x.made>>
  BY DEF MadeOf
<1>4. x.made \in Tree
  BY <1>1 DEF Clones, SoundTrees
<1>5. BlocksOf(<<x.made>>) = {} /\ Apart(<<x.made>>)
  BY <1>1, <1>4, OneTree
<1>6. \A i \in 1..(Len(c) - 1) : FALSE
  BY <1>2
<1> HIDE DEF c
<1>7. ClonesOK(c, tree)
  BY <1>1, <1>2, <1>3, <1>5, <1>6 DEF ClonesOK
<1> QED
  BY <1>3, <1>5, <1>7 DEF c, x

\* A call of enact_ast_clone for the next kid.
LEMMA Called ==
  ASSUME NEW c, NEW origin, ClonesOK(c, origin), NEW n \in Nat, n # 0, Len(c) = n,
         Len(c[n].made.kids) # Len(c[n].tree.kids)
  PROVE  /\ ClonesOK(Append(c, Cloning(c[n].tree.kids[Len(c[n].made.kids) + 1], <<>>)), origin)
         /\ BlocksOf(MadeOf(Append(c, Cloning(c[n].tree.kids[Len(c[n].made.kids) + 1], <<>>)))) = BlocksOf(MadeOf(c))
<1> DEFINE old == c[n]
           l == Len(old.made.kids)
           tree == old.tree.kids[l + 1]
           x == Cloning(tree, <<>>)
           d == Append(c, x)
<1>1. /\ c \in Seq(Clones) /\ Apart(MadeOf(c)) /\ (\A i \in DOMAIN c : Copies(c[i]))
      /\ c[1].tree = origin /\ (\A i \in 1..(Len(c) - 1) : Nested(c[i], c[i + 1]))
  <2>1. c # <<>>
    OBVIOUS
  <2> QED
    BY <2>1 DEF ClonesOK
<1>2. DOMAIN c = 1..n /\ n \in DOMAIN c /\ 1 \in DOMAIN c
  BY <1>1
<1>3. old \in Clones /\ Copies(old)
  BY <1>1, <1>2
<1> HIDE DEF old
<1>4. l + 1 \in DOMAIN old.tree.kids /\ tree \in Tree
  <2>1. old.tree \in Tree /\ old.made \in Tree
    BY <1>3 DEF Clones, SoundTrees
  <2>2. Len(old.tree.kids) \in Nat /\ DOMAIN old.tree.kids = 1..Len(old.tree.kids) /\ l \in Nat
    BY <2>1, TreeFields
  <2>3. l <= Len(old.tree.kids) /\ l # Len(old.tree.kids)
    BY <1>3 DEF Copies, old
  <2> HIDE DEF l
  <2>4. l + 1 \in DOMAIN old.tree.kids
    BY <2>2, <2>3
  <2> QED
    BY <2>1, <2>4, TreeFields
<1>5. x \in Clones /\ x.tree = tree /\ Blocks(x.made) = {} /\ Copies(x)
  <2> HIDE DEF tree
  <2> QED
    BY <1>4, FirstCloning
<1>6. Nested(old, x)
  BY <1>4, <1>5 DEF Nested
<1> HIDE DEF x
<1>7. /\ d \in Seq(Clones) /\ Len(d) = n + 1 /\ DOMAIN d = 1..(n + 1) /\ d[n + 1] = x
      /\ \A i \in 1..n : d[i] = c[i]
  BY <1>1, <1>5
<1> HIDE DEF d
<1>8. MadeOf(d) = MadeOf(c) \o <<x.made>>
  <2>1. MadeOf(c) \in Seq(SoundTrees) /\ Len(MadeOf(c)) = n /\ DOMAIN MadeOf(c) = 1..n /\ \A i \in 1..n : MadeOf(c)[i] = c[i].made
    BY <1>1, <1>2, MadeIs
  <2> DEFINE m == MadeOf(c)
             u == m \o <<x.made>>
             v == MadeOf(d)
  <2>2. DOMAIN v = 1..(n + 1) /\ v[n + 1] = x.made /\ (\A i \in 1..n : v[i] = c[i].made) /\ v = [i \in DOMAIN v |-> v[i]]
    BY <1>7 DEF MadeOf
  <2>3. m \in Seq(SoundTrees) /\ Len(m) = n /\ DOMAIN m = 1..n /\ \A i \in 1..n : m[i] = c[i].made
    BY <2>1
  <2> HIDE DEF m
  <2>4. DOMAIN u = 1..(n + 1) /\ u[n + 1] = x.made /\ (\A i \in 1..n : u[i] = m[i]) /\ u = [i \in DOMAIN u |-> u[i]]
    BY <2>3
  <2> HIDE DEF u, v
  <2>5. 1..(n + 1) = (1..n) \cup {n + 1}
    OBVIOUS
  <2>6. \A i \in 1..(n + 1) : u[i] = v[i]
    BY <2>2, <2>3, <2>4, <2>5
  <2>7. u = v
    BY <2>2, <2>4, <2>6
  <2> QED
    BY <2>7 DEF u, v, m
<1>9. MadeOf(c) \in Seq(Tree) /\ x.made \in Tree
  <2>1. x.made \in Tree
    BY <1>5 DEF Clones, SoundTrees
  <2> QED
    BY <1>1, <2>1, MadeIs
<1>10. BlocksOf(MadeOf(d)) = BlocksOf(MadeOf(c)) /\ Apart(MadeOf(d))
  <2> DEFINE m == MadeOf(c)
  <2>1. m \in Seq(Tree) /\ Apart(m)
    BY <1>1, <1>9
  <2> HIDE DEF m
  <2>2. BlocksOf(m \o <<x.made>>) = BlocksOf(m) \cup Blocks(x.made) /\ Apart(m \o <<x.made>>)
    BY <1>5, <1>9, <2>1, AppendedTree
  <2> QED
    BY <1>5, <1>8, <2>2 DEF m
<1>11. d # <<>> /\ d[1].tree = origin /\ \A i \in DOMAIN d : Copies(d[i])
  <2>1. \A i \in DOMAIN d : (i \in 1..n /\ i \in DOMAIN c) \/ i = n + 1
    BY <1>2, <1>7
  <2> QED
    BY <1>1, <1>2, <1>5, <1>7, <2>1
<1>12. \A i \in 1..(Len(d) - 1) : Nested(d[i], d[i + 1])
  <2> TAKE i \in 1..(Len(d) - 1)
  <2>1. CASE i = n
    BY <1>2, <1>6, <1>7, <2>1 DEF old
  <2>2. CASE i # n
    <3>1. i \in 1..(Len(c) - 1) /\ i \in 1..n /\ i + 1 \in 1..n
      BY <1>7, <2>2
    <3> QED
      BY <1>1, <1>7, <3>1
  <2> QED
    BY <2>1, <2>2
<1>13. ClonesOK(d, origin)
  BY <1>7, <1>10, <1>11, <1>12 DEF ClonesOK
<1> QED
  BY <1>10, <1>13 DEF d, x, old

\* A node whose kids are cloned gets its block.
LEMMA Cloned ==
  ASSUME LiveOK, NEW x \in Clones, Copies(x), Len(x.made.kids) = Len(x.tree.kids), Blocks(x.made) \subseteq live
  PROVE  LET node == [x.made EXCEPT !.at = Fresh[1]]
         IN /\ node \in SoundTrees /\ Blocks(node) = {Fresh[1]} \cup Blocks(x.made)
            /\ Shape[node] = Shape[x.tree]
            /\ \A h \in 0..MaxHeight : x.tree \in TreesUpTo[h] => node \in TreesUpTo[h]
<1> DEFINE a == Fresh[1]
           t == x.made
           node == [t EXCEPT !.at = a]
<1>1. a \in Nat /\ a # 0 /\ a \notin live
  <2>1. 1 \in Positive
    BY DEF Positive
  <2> QED
    BY <2>1, FreshIs DEF Positive
<1>2. t \in Tree /\ Sound(t) /\ x.tree \in Tree
  BY DEF Clones, SoundTrees
<1>3. t = [kind |-> t.kind, at |-> t.at, name |-> t.name, kids |-> t.kids]
  BY <1>2, TreeFields, Zenon
<1>4. x = Cloning(x.tree, t.kids)
  BY DEF Copies
<1>5. t.kind = x.tree.kind /\ t.name = x.tree.name /\ t.at = 0
  <2> DEFINE k == t.kids
  <2>1. x = Cloning(x.tree, k)
    BY <1>4
  <2> HIDE DEF k
  <2>2. Cloning(x.tree, k).made.kind = x.tree.kind /\ Cloning(x.tree, k).made.name = x.tree.name /\ Cloning(x.tree, k).made.at = 0
    BY DEF Cloning
  <2> QED
    BY <2>1, <2>2, Zenon
<1> HIDE DEF a
<1>6. node = [kind |-> t.kind, at |-> a, name |-> t.name, kids |-> t.kids]
  BY <1>3
<1>7. node.kind = t.kind /\ node.at = a /\ node.name = t.name /\ node.kids = t.kids
  BY <1>6
<1> HIDE DEF node, t
<1>8. \A h \in 0..MaxHeight : t \in TreesUpTo[h] => node \in TreesUpTo[h]
  <2> SUFFICES ASSUME NEW h \in 0..MaxHeight, t \in TreesUpTo[h] PROVE node \in TreesUpTo[h]
    OBVIOUS
  <2>1. IF h = 0 THEN t.kids = <<>> ELSE h - 1 \in 0..MaxHeight /\ t.kids \in Seq(TreesUpTo[h - 1])
    BY Kids
  <2>2. t.kids = <<>> \/ (h # 0 /\ t.kids \in Seq(TreesUpTo[h - 1]))
    <3>1. CASE h = 0
      <4>1. t.kids = <<>>
        BY <2>1, <3>1
      <4> QED
        BY <4>1
    <3>2. CASE h # 0
      <4>1. t.kids \in Seq(TreesUpTo[h - 1])
        BY <2>1, <3>2
      <4> QED
        BY <3>2, <4>1
    <3> QED
      BY <3>1, <3>2
  <2>3. [kind |-> t.kind, at |-> a, name |-> t.name, kids |-> t.kids] \in TreesUpTo[h]
    BY <1>1, <2>2, OtherKids
  <2> QED
    BY <1>6, <2>3
<1>9. node \in Tree
  BY <1>2, <1>8, ParserAssumption DEF Tree
<1>10. Blocks(t) = BlocksOf(t.kids) /\ Blocks(node) = {a} \cup Blocks(t)
  <2>1. Blocks(t) = ({t.at} \ {0}) \cup BlocksOf(t.kids) /\ Blocks(node) = ({node.at} \ {0}) \cup BlocksOf(node.kids)
    BY <1>2, <1>9, BlocksAre
  <2> QED
    BY <1>1, <1>5, <1>7, <2>1
<1>11. Sound(node)
  <2>1. Apart(t.kids) /\ \A i \in DOMAIN t.kids : Sound(t.kids[i])
    BY <1>2, SoundTree
  <2>2. a \notin BlocksOf(t.kids)
    BY <1>1, <1>10 DEF t
  <2>3. \A i \in DOMAIN node.kids : node.at \notin Blocks(node.kids[i])
    BY <1>7, <2>2 DEF BlocksOf
  <2> QED
    BY <1>7, <1>9, <2>1, <2>3, SoundTree
<1>12. Shape[node] = Shape[x.tree]
  <2>1. \A k \in DOMAIN t.kids : Shape[t.kids[k]] = Shape[x.tree.kids[k]]
    BY DEF Copies, t
  <2>2. node.kind = x.tree.kind /\ node.name = x.tree.name /\ Len(node.kids) = Len(x.tree.kids)
    BY <1>5, <1>7 DEF t
  <2> QED
    BY <1>2, <1>7, <1>9, <2>1, <2>2, SameShape
<1>13. \A h \in 0..MaxHeight : x.tree \in TreesUpTo[h] => node \in TreesUpTo[h]
  BY <1>8 DEF Copies, t
<1> QED
  BY <1>9, <1>10, <1>11, <1>12, <1>13 DEF SoundTrees, node, t, a

\* The innermost call returns: its blocks are those of the clones of its kids.
LEMMA InnermostReturns ==
  ASSUME NEW c, NEW origin, ClonesOK(c, origin), NEW n \in Nat, Len(c) = n + 1
  PROVE  /\ ClonesOK(SubSeq(c, 1, n), origin)
         /\ Blocks(c[n + 1].made) = BlocksOf(c[n + 1].made.kids)
         /\ BlocksOf(MadeOf(c)) = BlocksOf(MadeOf(SubSeq(c, 1, n))) \cup Blocks(c[n + 1].made)
         /\ BlocksOf(MadeOf(SubSeq(c, 1, n))) \cap Blocks(c[n + 1].made) = {}
<1> DEFINE d == SubSeq(c, 1, n)
           x == c[n + 1]
<1>1. /\ c \in Seq(Clones) /\ Apart(MadeOf(c)) /\ (\A i \in DOMAIN c : Copies(c[i]))
      /\ c[1].tree = origin /\ (\A i \in 1..n : Nested(c[i], c[i + 1]))
  <2>1. c # <<>> /\ Len(c) - 1 = n
    OBVIOUS
  <2> QED
    BY <2>1 DEF ClonesOK
<1>2. DOMAIN c = 1..(n + 1) /\ n + 1 \in DOMAIN c /\ x \in Clones /\ Copies(x)
  BY <1>1
<1>3. d \in Seq(Clones) /\ Len(d) = n /\ DOMAIN d = 1..n /\ \A i \in 1..n : d[i] = c[i]
  BY <1>1
<1> HIDE DEF d, x
<1>4. x.made \in Tree /\ Blocks(x.made) = BlocksOf(x.made.kids)
  <2>1. x.made \in Tree
    BY <1>2 DEF Clones, SoundTrees
  <2>2. x = Cloning(x.tree, x.made.kids)
    BY <1>2 DEF Copies
  <2>3. Cloning(x.tree, x.made.kids).made.at = 0
    BY DEF Cloning
  <2>4. x.made.at = 0
    BY <2>2, <2>3, Zenon
  <2>5. Blocks(x.made) = ({x.made.at} \ {0}) \cup BlocksOf(x.made.kids)
    BY <2>1, BlocksAre
  <2> QED
    BY <2>1, <2>4, <2>5
<1> DEFINE m == MadeOf(c)
           u == MadeOf(d)
           v == u \o <<x.made>>
<1>5. m \in Seq(Tree) /\ Len(m) = n + 1 /\ m[n + 1] = x.made /\ \A i \in 1..n : m[i] = c[i].made
  BY <1>1, <1>2, MadeIs DEF x
<1>6. u \in Seq(Tree) /\ Len(u) = n /\ \A i \in 1..n : u[i] = c[i].made
  BY <1>3, MadeIs
<1>7. Apart(m)
  BY <1>1
<1> HIDE DEF m, u
<1>8. v \in Seq(Tree) /\ Len(v) = n + 1 /\ v[n + 1] = x.made /\ \A i \in 1..n : v[i] = u[i]
  BY <1>4, <1>6
<1> HIDE DEF v
<1>9. m = v
  <2>1. \A i \in 1..(n + 1) : m[i] = v[i]
    <3>1. 1..(n + 1) = (1..n) \cup {n + 1}
      OBVIOUS
    <3> QED
      BY <1>5, <1>6, <1>8, <3>1
  <2> QED
    BY <1>5, <1>8, <2>1
<1>10. BlocksOf(m) = BlocksOf(u) \cup Blocks(x.made) /\ Apart(u) /\ BlocksOf(u) \cap Blocks(x.made) = {}
  <2> DEFINE w == <<x.made>>
  <2>1. w \in Seq(Tree) /\ BlocksOf(w) = Blocks(x.made)
    BY <1>4, OneTree
  <2>2. m = u \o w
    BY <1>9 DEF v
  <2> HIDE DEF w
  <2> QED
    BY <1>6, <1>7, <2>1, <2>2, Joined
<1>11. \A i \in DOMAIN d : Copies(d[i])
  BY <1>1, <1>2, <1>3
<1>12. d # <<>> => d[1].tree = origin
  BY <1>1, <1>3
<1>13. \A i \in 1..(Len(d) - 1) : Nested(d[i], d[i + 1])
  <2> TAKE i \in 1..(Len(d) - 1)
  <2>1. i \in 1..n /\ i + 1 \in 1..n
    BY <1>3
  <2> QED
    BY <1>1, <1>3, <2>1
<1>14. ClonesOK(d, origin)
  BY <1>3, <1>10, <1>11, <1>12, <1>13 DEF ClonesOK, u
<1> QED
  BY <1>4, <1>10, <1>14 DEF d, x, m, u

-----------------------------------------------------------------------------
(***************************************************************************)
(* Every step after the parser keeps the invariant.                        *)
(***************************************************************************)
LEMMA FinishKeeps == ParserInvariant /\ Finish => ParserInvariant'
<1> SUFFICES ASSUME ParserInvariant, Finish PROVE ParserInvariant'
  OBVIOUS
<1>1. phase = "ended" /\ ParsedOK /\ LiveOK /\ vocabulary \in Vocabularies
  BY DEF ParserInvariant, Finish
<1>2. /\ stack = <<>> /\ look = NoLook /\ root \in Proper /\ copy = Nothing /\ clones = <<>>
      /\ live = Blocks(root) \cup lost /\ (lost # {} => root = Nothing)
  BY <1>1, NoClones, NothingIs DEF ParsedOK
<1>3. UNCHANGED <<vocabulary, tokens, stack, look, lost, copy, clones>>
  BY DEF Finish
<1>4. \/ phase' = "parsed" /\ UNCHANGED <<live, root>>
      \/ phase' = "failed" /\ live' = live \ Blocks(root) /\ root' = Nothing
  BY DEF Finish
<1>5. /\ root' \in Proper /\ live' = Blocks(root') \cup lost'
      /\ (lost' # {} => root' = Nothing) /\ live' \subseteq live
  <2>1. CASE phase' = "parsed" /\ UNCHANGED <<live, root>>
    BY <1>2, <1>3, <2>1
  <2>2. CASE phase' = "failed" /\ live' = live \ Blocks(root) /\ root' = Nothing
    BY <1>2, <1>3, <2>2, NothingIs
  <2> QED
    BY <1>4, <2>1, <2>2
<1>6. ClonesOK(clones', root') /\ BlocksOf(MadeOf(clones')) = {} /\ Blocks(copy') = {} /\ copy' \in SoundTrees /\ copy' = Nothing
  <2>1. ClonesOK(<<>>, root') /\ BlocksOf(MadeOf(<<>>)) = {}
    BY NoClones
  <2> QED
    BY <1>2, <1>3, <2>1, NothingIs DEF SoundTrees, Proper
<1>7. phase' \notin {"cloning", "unwinding", "parsing", "ended"} /\ phase' \in {"parsed", "failed"} /\ clones' = <<>>
  BY <1>2, <1>3, <1>4
<1>8. CloneExact'
  BY <1>6 DEF CloneExact
<1>9. ParsedOK'
  BY <1>2, <1>3, <1>5, <1>6, <1>7, <1>8 DEF ParsedOK
<1>10. LiveOK'
  BY <1>1, <1>5, LessLive DEF LiveOK
<1> QED
  BY <1>1, <1>3, <1>7, <1>9, <1>10 DEF ParserInvariant

\* The C stack of enact_ast_clone.
LEMMA StillCloning ==
  ASSUME ParsedOK, phase \in {"cloning", "unwinding"}
  PROVE  /\ clones \in Seq(Clones) /\ clones # <<>>
         /\ Len(clones) \in Nat /\ Len(clones) # 0
         /\ Inner \in Clones /\ Copies(Inner) /\ Blocks(Inner.made) \subseteq BlocksOf(MadeOf(clones))
<1>1. clones # <<>> /\ clones \in Seq(Clones) /\ \A i \in DOMAIN clones : Copies(clones[i])
  BY DEF ParsedOK, ClonesOK
<1>2. Len(clones) \in Nat /\ Len(clones) # 0 /\ Len(clones) \in DOMAIN clones
  BY <1>1
<1>3. Inner \in Clones /\ Copies(Inner)
  BY <1>1, <1>2 DEF Inner
<1>4. DOMAIN MadeOf(clones) = DOMAIN clones /\ MadeOf(clones)[Len(clones)] = Inner.made
  BY <1>1, <1>2, MadeIs DEF Inner
<1>5. Blocks(Inner.made) \subseteq BlocksOf(MadeOf(clones))
  BY <1>2, <1>4 DEF BlocksOf
<1> QED
  BY <1>1, <1>2, <1>3, <1>5

LEMMA MakeFunctionKeeps == ParserInvariant /\ MakeFunction => ParserInvariant'
<1> SUFFICES ASSUME ParserInvariant, MakeFunction PROVE ParserInvariant'
  OBVIOUS
<1>1. phase = "parsed" /\ ParsedOK /\ LiveOK /\ vocabulary \in Vocabularies /\ root # Nothing /\ copy = Nothing
      /\ clones' = <<Cloning(root, <<>>)>> /\ phase' = "cloning"
      /\ UNCHANGED <<vocabulary, tokens, stack, look, live, lost, diag, root, copy>>
  BY DEF ParserInvariant, MakeFunction
<1>2. root \in Tree /\ BlocksOf(MadeOf(clones)) = {}
  BY <1>1, NoClones DEF ParsedOK, Proper
<1>3. ClonesOK(clones', root) /\ BlocksOf(MadeOf(clones')) = {} /\ clones' # <<>>
  BY <1>1, <1>2, OneCall
<1>4. ParsedOK'
  BY <1>1, <1>2, <1>3 DEF ParsedOK, CloneExact
<1>5. LiveOK'
  BY <1>1 DEF LiveOK
<1> QED
  BY <1>1, <1>4, <1>5 DEF ParserInvariant

LEMMA CloneKidKeeps == ParserInvariant /\ CloneKid => ParserInvariant'
<1> SUFFICES ASSUME ParserInvariant, CloneKid PROVE ParserInvariant'
  OBVIOUS
<1>1. phase = "cloning" /\ ParsedOK /\ LiveOK /\ vocabulary \in Vocabularies /\ ~KidsCloned
      /\ clones' = Append(clones, Cloning(Inner.tree.kids[Len(Inner.made.kids) + 1], <<>>))
      /\ UNCHANGED <<vocabulary, tokens, stack, look, live, lost, diag, root, copy, phase>>
  BY DEF ParserInvariant, CloneKid
<1>2. clones \in Seq(Clones) /\ Len(clones) \in Nat /\ Len(clones) # 0
  BY <1>1, StillCloning, Zenon
<1>3. ClonesOK(clones, root)
  BY <1>1 DEF ParsedOK
<1>4. Len(Inner.made.kids) # Len(Inner.tree.kids) /\ Inner = clones[Len(clones)]
  BY <1>1 DEF KidsCloned, Inner
<1>5. ClonesOK(clones', root) /\ BlocksOf(MadeOf(clones')) = BlocksOf(MadeOf(clones))
  BY <1>1, <1>2, <1>3, <1>4, Called
<1>6. clones' # <<>>
  BY <1>1, <1>2
<1>7. ParsedOK'
  BY <1>1, <1>5, <1>6 DEF ParsedOK, CloneExact
<1>8. LiveOK'
  BY <1>1 DEF LiveOK
<1> QED
  BY <1>1, <1>7, <1>8 DEF ParserInvariant

LEMMA CloneNodeKeeps == ParserInvariant /\ CloneNode => ParserInvariant'
<1> SUFFICES ASSUME ParserInvariant, CloneNode PROVE ParserInvariant'
  OBVIOUS
<1> DEFINE a == Fresh[1]
           node == [Inner.made EXCEPT !.at = a]
           n == Len(Outer)
<1>1. /\ phase = "cloning" /\ ParsedOK /\ LiveOK /\ vocabulary \in Vocabularies /\ KidsCloned
      /\ live' = live \cup {a}
      /\ UNCHANGED <<vocabulary, tokens, stack, look, lost, diag, root>>
  BY DEF ParserInvariant, CloneNode
<1>2. IF n = 0
      THEN clones' = <<>> /\ copy' = node /\ phase' = "parsed"
      ELSE /\ clones' = [Outer EXCEPT ![n] = Cloning(@.tree, Append(@.made.kids, node))]
           /\ UNCHANGED <<copy, phase>>
  BY DEF CloneNode
<1>3. /\ clones \in Seq(Clones) /\ clones # <<>> /\ Len(clones) \in Nat /\ Len(clones) # 0
      /\ Inner \in Clones /\ Copies(Inner) /\ Blocks(Inner.made) \subseteq BlocksOf(MadeOf(clones))
  BY <1>1, StillCloning, Zenon
<1>4. n \in Nat /\ Len(clones) = n + 1 /\ Outer = SubSeq(clones, 1, n) /\ Inner = clones[n + 1]
  <2> DEFINE l == Len(clones)
  <2>1. l \in Nat /\ l # 0
    BY <1>3
  <2>2. Outer = SubSeq(clones, 1, l - 1) /\ Len(SubSeq(clones, 1, l - 1)) = l - 1
    BY <1>3 DEF Outer
  <2> HIDE DEF l
  <2>3. n = l - 1
    BY <2>2
  <2>4. n \in Nat /\ l = n + 1
    BY <2>1, <2>3
  <2> HIDE DEF n
  <2> QED
    BY <2>2, <2>3, <2>4 DEF l, Inner
<1>5. a \notin live /\ a \in Positive
  <2>1. 1 \in Positive
    BY DEF Positive
  <2> QED
    BY <1>1, <2>1, FreshIs
<1>6. /\ ClonesOK(clones, root) /\ copy = Nothing /\ root # Nothing
      /\ Blocks(root) \cap BlocksOf(MadeOf(clones)) = {}
      /\ live = Blocks(root) \cup BlocksOf(MadeOf(clones)) /\ lost = {}
      /\ stack = <<>> /\ look = NoLook /\ root \in Proper
  <2>1. copy = Nothing
    BY <1>1 DEF ParsedOK
  <2>2. Blocks(copy) = {}
    BY <2>1, NothingIs
  <2> QED
    BY <1>1, <2>1, <2>2 DEF ParsedOK
<1>7. /\ node \in SoundTrees /\ Blocks(node) = {a} \cup Blocks(Inner.made)
      /\ Shape[node] = Shape[Inner.tree]
      /\ \A h \in 0..MaxHeight : Inner.tree \in TreesUpTo[h] => node \in TreesUpTo[h]
  <2> DEFINE x == Inner
  <2>1. x \in Clones /\ Copies(x) /\ Len(x.made.kids) = Len(x.tree.kids) /\ Blocks(x.made) \subseteq live
    BY <1>1, <1>3, <1>6 DEF KidsCloned
  <2> HIDE DEF x
  <2>2. LET y == [x.made EXCEPT !.at = Fresh[1]]
        IN /\ y \in SoundTrees /\ Blocks(y) = {Fresh[1]} \cup Blocks(x.made)
           /\ Shape[y] = Shape[x.tree]
           /\ \A h \in 0..MaxHeight : x.tree \in TreesUpTo[h] => y \in TreesUpTo[h]
    BY <1>1, <2>1, Cloned
  <2> QED
    BY <2>2 DEF x
<1>8. LiveOK'
  <2>1. IsFiniteSet(live') /\ live' \subseteq Positive
    <3>1. IsFiniteSet(live \cup {a})
      BY <1>1, FS_AddElement DEF LiveOK
    <3> QED
      BY <1>1, <1>5, <3>1 DEF LiveOK
  <2> QED
    BY <2>1 DEF LiveOK
<1> HIDE DEF a, node, n
<1>9. CASE n = 0
  <2>1. clones' = <<>> /\ copy' = node /\ phase' = "parsed"
    BY <1>2, <1>9
  <2>2. ClonesOK(clones', root') /\ BlocksOf(MadeOf(clones')) = {}
    BY <2>1, NoClones
  <2>3. Len(clones) = 1 /\ Inner = clones[1] /\ DOMAIN clones = {1}
    <3>1. Len(clones) = 1 /\ Inner = clones[1]
      BY <1>4, <1>9
    <3> QED
      BY <1>3, <3>1
  <2>4. Inner.tree = root
    BY <1>3, <1>6, <2>3 DEF ClonesOK
  <2>5. BlocksOf(MadeOf(clones)) = Blocks(Inner.made)
    <3> DEFINE m == MadeOf(clones)
    <3>1. DOMAIN m = {1} /\ m[1] = Inner.made
      BY <1>3, <2>3, MadeIs
    <3> HIDE DEF m
    <3>2. BlocksOf(m) = Blocks(m[1])
      BY <3>1 DEF BlocksOf
    <3> QED
      BY <3>1, <3>2 DEF m
  <2>6. CloneExact'
    BY <1>1, <1>7, <2>1, <2>4 DEF CloneExact
  <2>7. Blocks(copy') = {a} \cup BlocksOf(MadeOf(clones))
    BY <1>7, <2>1, <2>5
  <2>8. Blocks(root') \cap Blocks(copy') = {} /\ live' = Blocks(root') \cup Blocks(copy') /\ lost' = {}
    BY <1>1, <1>5, <1>6, <2>7
  <2>9. ParsedOK'
    BY <1>1, <1>6, <1>7, <2>1, <2>2, <2>6, <2>8 DEF ParsedOK
  <2> QED
    BY <1>1, <1>8, <2>1, <2>9 DEF ParserInvariant
<1>10. CASE n # 0
  <2>1. clones' = Resumed(clones, n, node) /\ copy' = copy /\ phase' = phase
    BY <1>2, <1>4, <1>10 DEF Resumed
  <2>2. /\ ClonesOK(clones', root) /\ clones' # <<>>
        /\ BlocksOf(MadeOf(clones')) = {a} \cup BlocksOf(MadeOf(clones))
    <3>1. a \notin BlocksOf(MadeOf(clones))
      BY <1>5, <1>6
    <3>2. Blocks(node) = {a} \cup Blocks(clones[n + 1].made) /\ Shape[node] = Shape[clones[n + 1].tree]
          /\ \A h \in 0..MaxHeight : clones[n + 1].tree \in TreesUpTo[h] => node \in TreesUpTo[h]
      BY <1>4, <1>7
    <3>3. /\ ClonesOK(Resumed(clones, n, node), root) /\ Resumed(clones, n, node) # <<>>
          /\ BlocksOf(MadeOf(Resumed(clones, n, node))) = {a} \cup BlocksOf(MadeOf(clones))
      BY <1>4, <1>6, <1>7, <1>10, <3>1, <3>2, Returned
    <3> QED
      BY <2>1, <3>3
  <2>3. Blocks(copy') = {} /\ copy' = Nothing /\ copy' \in SoundTrees
    BY <1>6, <2>1, NothingIs DEF SoundTrees, Proper
  <2>4. /\ Blocks(root') \cap BlocksOf(MadeOf(clones')) = {}
        /\ live' = Blocks(root') \cup BlocksOf(MadeOf(clones')) /\ lost' = {}
    BY <1>1, <1>5, <1>6, <2>2
  <2>5. ParsedOK'
    BY <1>1, <1>6, <2>1, <2>2, <2>3, <2>4 DEF ParsedOK, CloneExact
  <2> QED
    BY <1>1, <1>8, <2>1, <2>5 DEF ParserInvariant
<1> QED
  BY <1>9, <1>10

LEMMA ReturnsNullKeeps ==
  ASSUME ParserInvariant, phase \in {"cloning", "unwinding"}, ReturnsNull
  PROVE  ParserInvariant'
<1> DEFINE n == Len(clones) - 1
<1>1. /\ ParsedOK /\ LiveOK /\ vocabulary \in Vocabularies
      /\ live' = live \ BlocksOf(Inner.made.kids) /\ clones' = Outer
      /\ phase' = (IF Outer = <<>> THEN "evaluated" ELSE "unwinding")
      /\ UNCHANGED <<vocabulary, tokens, stack, look, lost, diag, root, copy>>
  BY DEF ParserInvariant, ReturnsNull
<1>2. Len(clones) \in Nat /\ Len(clones) # 0 /\ clones # <<>>
  BY <1>1, StillCloning, Zenon
<1>3. n \in Nat /\ Len(clones) = n + 1
  BY <1>2
<1>4. Outer = SubSeq(clones, 1, n) /\ Inner = clones[n + 1]
  BY <1>3 DEF Outer, Inner
<1>5. /\ ClonesOK(clones, root) /\ copy = Nothing /\ Blocks(copy) = {} /\ copy \in SoundTrees /\ root # Nothing
      /\ Blocks(root) \cap BlocksOf(MadeOf(clones)) = {} /\ lost = {}
      /\ live = Blocks(root) \cup BlocksOf(MadeOf(clones))
      /\ stack = <<>> /\ look = NoLook /\ root \in Proper
  <2>1. copy = Nothing
    BY <1>1 DEF ParsedOK
  <2>2. Blocks(copy) = {}
    BY <2>1, NothingIs
  <2> QED
    BY <1>1, <1>2, <2>1, <2>2 DEF ParsedOK
<1> HIDE DEF n
<1>6. /\ ClonesOK(Outer, root) /\ Blocks(Inner.made) = BlocksOf(Inner.made.kids)
      /\ BlocksOf(MadeOf(clones)) = BlocksOf(MadeOf(Outer)) \cup Blocks(Inner.made)
      /\ BlocksOf(MadeOf(Outer)) \cap Blocks(Inner.made) = {}
  BY <1>3, <1>4, <1>5, InnermostReturns
<1>7. /\ Blocks(root') \cap BlocksOf(MadeOf(clones')) = {} /\ ClonesOK(clones', root')
      /\ live' = Blocks(root') \cup BlocksOf(MadeOf(clones')) /\ lost' = {}
  BY <1>1, <1>5, <1>6
<1>8. IF phase' = "unwinding" THEN clones' # <<>> ELSE clones' = <<>> /\ phase' = "evaluated"
  BY <1>1
<1>9. CloneExact'
  BY <1>1, <1>5 DEF CloneExact
<1>10. ParsedOK'
  BY <1>1, <1>5, <1>7, <1>8, <1>9 DEF ParsedOK
<1>11. LiveOK'
  <2>1. live' \subseteq live
    BY <1>1
  <2> QED
    BY <1>1, <2>1, LessLive DEF LiveOK
<1>12. phase' \in {"unwinding", "evaluated"}
  BY <1>8
<1> QED
  BY <1>1, <1>10, <1>11, <1>12 DEF ParserInvariant

LEMMA CloneFailsKeeps == ParserInvariant /\ CloneFails => ParserInvariant'
BY ReturnsNullKeeps DEF CloneFails

LEMMA UnwindCloneKeeps == ParserInvariant /\ UnwindClone => ParserInvariant'
BY ReturnsNullKeeps DEF UnwindClone

LEMMA FreeTreeKeeps == ParserInvariant /\ FreeTree => ParserInvariant'
<1> SUFFICES ASSUME ParserInvariant, FreeTree PROVE ParserInvariant'
  OBVIOUS
<1>1. /\ phase \in {"parsed", "evaluated"} /\ ParsedOK /\ LiveOK /\ vocabulary \in Vocabularies
      /\ live' = live \ Blocks(root) /\ root' = Nothing
      /\ UNCHANGED <<vocabulary, tokens, stack, look, lost, diag, copy, clones, phase>>
      /\ root # Nothing
  BY DEF ParserInvariant, FreeTree
<1>2. clones = <<>> /\ BlocksOf(MadeOf(clones)) = {} /\ ClonesOK(clones', root')
  BY <1>1, NoClones DEF ParsedOK
<1>3. root' \in Proper /\ Blocks(root') = {}
  BY <1>1, NothingIs
<1>4. live' = Blocks(copy) /\ lost = {}
  BY <1>1, <1>2 DEF ParsedOK
<1>5. ParsedOK'
  BY <1>1, <1>2, <1>3, <1>4 DEF ParsedOK, CloneExact
<1>6. LiveOK'
  <2>1. live' \subseteq live
    BY <1>1
  <2> QED
    BY <1>1, <2>1, LessLive DEF LiveOK
<1> QED
  BY <1>1, <1>5, <1>6 DEF ParserInvariant

LEMMA FreeFunctionKeeps == ParserInvariant /\ FreeFunction => ParserInvariant'
<1> SUFFICES ASSUME ParserInvariant, FreeFunction PROVE ParserInvariant'
  OBVIOUS
<1>1. /\ phase \in {"parsed", "evaluated"} /\ ParsedOK /\ LiveOK /\ vocabulary \in Vocabularies
      /\ live' = live \ Blocks(copy) /\ copy' = Nothing /\ phase' = "evaluated"
      /\ UNCHANGED <<vocabulary, tokens, stack, look, lost, diag, root, clones>>
      /\ copy # Nothing
  BY DEF ParserInvariant, FreeFunction
<1>2. clones = <<>> /\ BlocksOf(MadeOf(clones)) = {} /\ ClonesOK(clones', root')
  BY <1>1, NoClones DEF ParsedOK
<1>3. copy' \in SoundTrees /\ Blocks(copy') = {}
  BY <1>1, NothingIs DEF SoundTrees, Proper
<1>4. live' = Blocks(root) /\ lost = {}
  BY <1>1, <1>2 DEF ParsedOK
<1>5. ParsedOK'
  BY <1>1, <1>2, <1>3, <1>4 DEF ParsedOK, CloneExact
<1>6. LiveOK'
  <2>1. live' \subseteq live
    BY <1>1
  <2> QED
    BY <1>1, <2>1, LessLive DEF LiveOK
<1> QED
  BY <1>1, <1>5, <1>6 DEF ParserInvariant

-----------------------------------------------------------------------------
(***************************************************************************)
(* The invariant holds.                                                    *)
(***************************************************************************)
LEMMA InvariantNext == ParserInvariant /\ [ParserNext]_vars => ParserInvariant'
<1> SUFFICES ASSUME ParserInvariant, [ParserNext]_vars PROVE ParserInvariant'
  OBVIOUS
<1>1. CASE UNCHANGED vars
  <2>1. /\ vocabulary' = vocabulary /\ stack' = stack /\ look' = look /\ live' = live /\ lost' = lost /\ diag' = diag
        /\ root' = root /\ copy' = copy /\ clones' = clones /\ phase' = phase
    BY <1>1 DEF vars
  <2>2. LiveOK' = LiveOK /\ ParsingOK' = ParsingOK /\ ParsedOK' = ParsedOK
    BY <2>1 DEF LiveOK, ParsingOK, ParsedOK, CloneExact
  <2> QED
    BY <2>1, <2>2 DEF ParserInvariant
<1>2. CASE Shift
  BY <1>2, ShiftKeeps
<1>3. CASE LexerFails
  BY <1>3, LexerFailsKeeps
<1>4. CASE Unexpected
  BY <1>4, UnexpectedKeeps
<1>5. CASE Reduce
  BY <1>5, ReduceKeeps
<1>6. CASE TakeRoot
  BY <1>6, TakeRootKeeps
<1>7. CASE SyntaxError
  BY <1>7, SyntaxErrorKeeps
<1>8. CASE Accept
  BY <1>8, AcceptKeeps
<1>9. CASE Finish
  BY <1>9, FinishKeeps
<1>10. CASE MakeFunction
  BY <1>10, MakeFunctionKeeps
<1>11. CASE CloneKid
  BY <1>11, CloneKidKeeps
<1>12. CASE CloneNode
  BY <1>12, CloneNodeKeeps
<1>13. CASE CloneFails
  BY <1>13, CloneFailsKeeps
<1>14. CASE FreeTree
  BY <1>14, FreeTreeKeeps
<1>15. CASE FreeFunction
  BY <1>15, FreeFunctionKeeps
<1>16. CASE UnwindClone
  BY <1>16, UnwindCloneKeeps
<1> QED
  BY <1>1, <1>2, <1>3, <1>4, <1>5, <1>6, <1>7, <1>8, <1>9, <1>10, <1>11, <1>12, <1>13, <1>14, <1>15, <1>16
  DEF ParserNext

\* The inductive invariant holds: in every state in which a statement is parsed,
\* cloned or freed (enact.y, ast.c, api.c), whatever the tokens.
THEOREM InvariantHolds == ParserSpec => []ParserInvariant
<1>1. ParserInit => ParserInvariant
  BY InvariantInit
<1>2. ParserInvariant /\ [ParserNext]_vars => ParserInvariant'
  BY InvariantNext
<1> QED
  BY <1>1, <1>2, PTL DEF ParserSpec

-----------------------------------------------------------------------------
(***************************************************************************)
(* What it implies.                                                        *)
(***************************************************************************)

\* Who owns what, in every phase.
LEMMA Owners ==
  ASSUME ParserInvariant
  PROVE  LET V == Values(stack)
             M == MadeOf(clones)
         IN /\ V \in Seq(SoundTrees) /\ M \in Seq(SoundTrees) /\ Apart(V) /\ Apart(M)
            /\ look.val \in SoundTrees /\ root \in SoundTrees /\ copy \in SoundTrees
            /\ BlocksOf(V) \cap (Blocks(look.val) \cup Blocks(root) \cup Blocks(copy) \cup BlocksOf(M)) = {}
            /\ Blocks(look.val) \cap (Blocks(root) \cup Blocks(copy) \cup BlocksOf(M)) = {}
            /\ Blocks(root) \cap (Blocks(copy) \cup BlocksOf(M)) = {} /\ Blocks(copy) \cap BlocksOf(M) = {}
            /\ live = BlocksOf(V) \cup Blocks(look.val) \cup Blocks(root) \cup Blocks(copy) \cup BlocksOf(M) \cup lost
<1> DEFINE V == Values(stack)
           M == MadeOf(clones)
<1>0. Proper \subseteq SoundTrees /\ Nothing \in SoundTrees /\ Blocks(Nothing) = {}
  BY NothingIs DEF Proper, SoundTrees
<1>1. CASE phase = "parsing"
  <2>1. ParsingOK
    BY <1>1 DEF ParserInvariant
  <2>2. V \in Seq(Proper)
    BY <2>1, ValuesAre DEF ParsingOK, StackOK
  <2>3. clones = <<>> /\ copy = Nothing
    BY <2>1 DEF ParsingOK
  <2>4. M = <<>> /\ BlocksOf(M) = {} /\ M \in Seq(SoundTrees) /\ Apart(M)
    <3>1. M = <<>> /\ BlocksOf(<<>>) = {} /\ Apart(<<>>)
      BY <2>3, NoClones, NoTrees
    <3>2. <<>> \in Seq(SoundTrees)
      OBVIOUS
    <3> HIDE DEF M
    <3> QED
      BY <3>1, <3>2
  <2>5. V \in Seq(SoundTrees)
    BY <1>0, <2>2
  <2> HIDE DEF V, M
  <2>6. /\ Apart(V) /\ BlocksOf(V) \cap Blocks(look.val) = {} /\ BlocksOf(V) \cap Blocks(root) = {}
        /\ Blocks(look.val) \cap Blocks(root) = {} /\ look.val \in Proper /\ root \in Proper
        /\ live = BlocksOf(V) \cup Blocks(look.val) \cup Blocks(root) /\ lost = {}
    BY <2>1 DEF ParsingOK, V
  <2> QED
    BY <1>0, <2>3, <2>4, <2>5, <2>6 DEF V, M
<1>2. CASE phase # "parsing"
  <2>1. ParsedOK
    BY <1>2 DEF ParserInvariant
  <2>2. V = <<>> /\ look.val = Nothing
    BY <2>1 DEF ParsedOK, Values, NoLook
  <2>3. BlocksOf(V) = {} /\ V \in Seq(SoundTrees) /\ Apart(V)
    <3>1. V = <<>> /\ BlocksOf(<<>>) = {} /\ Apart(<<>>)
      BY <2>2, NoTrees
    <3>2. <<>> \in Seq(SoundTrees)
      OBVIOUS
    <3> HIDE DEF V
    <3> QED
      BY <3>1, <3>2
  <2>4. clones \in Seq(Clones) /\ Apart(M)
    BY <2>1 DEF ParsedOK, ClonesOK
  <2>5. M \in Seq(SoundTrees)
    BY <2>4, MadeIs
  <2>6. Blocks(copy) \cap BlocksOf(M) = {}
    <3>1. CASE phase \in {"cloning", "unwinding"}
      BY <1>0, <2>1, <3>1 DEF ParsedOK
    <3>2. CASE phase \notin {"cloning", "unwinding"}
      <4>1. clones = <<>>
        BY <2>1, <3>2 DEF ParsedOK
      <4> QED
        BY <4>1, NoClones
    <3> QED
      BY <3>1, <3>2
  <2> HIDE DEF V, M
  <2>7. /\ Blocks(root) \cap Blocks(copy) = {} /\ Blocks(root) \cap BlocksOf(M) = {}
        /\ live = Blocks(root) \cup Blocks(copy) \cup BlocksOf(M) \cup lost
        /\ root \in Proper /\ copy \in SoundTrees
    BY <2>1 DEF ParsedOK, M
  <2> QED
    BY <1>0, <2>2, <2>3, <2>4, <2>5, <2>6, <2>7 DEF V, M
<1> QED
  BY <1>1, <1>2

LEMMA ThreeTrees ==
  ASSUME NEW r \in Tree, NEW s \in Tree, NEW t \in Tree
  PROVE  /\ <<r, s, t>> \in Seq(Tree) /\ BlocksOf(<<r, s, t>>) = Blocks(r) \cup Blocks(s) \cup Blocks(t)
         /\ Blocks(r) \cap Blocks(s) = {} /\ Blocks(r) \cap Blocks(t) = {} /\ Blocks(s) \cap Blocks(t) = {}
            => Apart(<<r, s, t>>)
<1> DEFINE u == <<r, s>>
<1>1. u \in Seq(Tree) /\ BlocksOf(u) = Blocks(r) \cup Blocks(s) /\ (Apart(u) <=> Blocks(r) \cap Blocks(s) = {})
  BY TwoTrees
<1>2. <<r, s, t>> = u \o <<t>>
  OBVIOUS
<1>3. <<r, s, t>> \in Seq(Tree)
  OBVIOUS
<1> HIDE DEF u
<1>4. BlocksOf(u \o <<t>>) = BlocksOf(u) \cup Blocks(t) /\ (Apart(u) /\ BlocksOf(u) \cap Blocks(t) = {} => Apart(u \o <<t>>))
  BY <1>1, AppendedTree
<1>5. Blocks(r) \cap Blocks(s) = {} /\ Blocks(r) \cap Blocks(t) = {} /\ Blocks(s) \cap Blocks(t) = {}
      => Apart(u) /\ BlocksOf(u) \cap Blocks(t) = {}
  BY <1>1
<1> QED
  BY <1>1, <1>2, <1>3, <1>4, <1>5

LEMMA TreesOwn ==
  ASSUME ParserInvariant
  PROVE  /\ Trees \in Seq(SoundTrees) /\ Apart(Trees)
         /\ live = Owned \cup lost
<1> DEFINE V == Values(stack)
           M == MadeOf(clones)
           T == <<look.val, root, copy>>
           B == Blocks(look.val) \cup Blocks(root) \cup Blocks(copy)
<1>1. /\ V \in Seq(SoundTrees) /\ M \in Seq(SoundTrees) /\ Apart(V) /\ Apart(M)
      /\ look.val \in SoundTrees /\ root \in SoundTrees /\ copy \in SoundTrees
      /\ BlocksOf(V) \cap (Blocks(look.val) \cup Blocks(root) \cup Blocks(copy) \cup BlocksOf(M)) = {}
      /\ Blocks(look.val) \cap (Blocks(root) \cup Blocks(copy) \cup BlocksOf(M)) = {}
      /\ Blocks(root) \cap (Blocks(copy) \cup BlocksOf(M)) = {} /\ Blocks(copy) \cap BlocksOf(M) = {}
      /\ live = BlocksOf(V) \cup Blocks(look.val) \cup Blocks(root) \cup Blocks(copy) \cup BlocksOf(M) \cup lost
  BY Owners
<1>2. Trees = (V \o T) \o M
  BY DEF Trees, MadeOf
<1>3. SoundTrees \subseteq Tree
  BY DEF SoundTrees
<1>4. V \in Seq(Tree) /\ M \in Seq(Tree) /\ look.val \in Tree /\ root \in Tree /\ copy \in Tree
  <2> HIDE DEF V, M
  <2> QED
    BY <1>1, <1>3
<1>5. T \in Seq(Tree) /\ T \in Seq(SoundTrees) /\ BlocksOf(T) = B /\ Apart(T)
  <2>1. T \in Seq(SoundTrees)
    BY <1>1
  <2>2. Blocks(look.val) \cap Blocks(root) = {} /\ Blocks(look.val) \cap Blocks(copy) = {} /\ Blocks(root) \cap Blocks(copy) = {}
    BY <1>1
  <2>3. T \in Seq(Tree) /\ BlocksOf(T) = B /\ Apart(T)
    BY <1>4, <2>2, ThreeTrees
  <2> QED
    BY <2>1, <2>3
<1> HIDE DEF V, M, T
<1>6. /\ BlocksOf(V) \cap B = {} /\ BlocksOf(V) \cap BlocksOf(M) = {} /\ B \cap BlocksOf(M) = {}
  BY <1>1
<1>7. live = BlocksOf(V) \cup B \cup BlocksOf(M) \cup lost
  BY <1>1
<1> HIDE DEF B
<1>8. V \o T \in Seq(Tree) /\ BlocksOf(V \o T) = BlocksOf(V) \cup B /\ Apart(V \o T)
  BY <1>1, <1>4, <1>5, <1>6, Joined
<1> DEFINE W == V \o T
<1>9. W \in Seq(Tree) /\ BlocksOf(W) = BlocksOf(V) \cup B /\ Apart(W) /\ W \in Seq(SoundTrees) /\ Trees = W \o M
  BY <1>1, <1>2, <1>5, <1>8
<1> HIDE DEF W
<1>10. BlocksOf(W \o M) = BlocksOf(W) \cup BlocksOf(M) /\ (Apart(W) /\ Apart(M) /\ BlocksOf(W) \cap BlocksOf(M) = {} => Apart(W \o M))
  BY <1>4, <1>9, Joined
<1>11. BlocksOf(W) \cap BlocksOf(M) = {}
  BY <1>6, <1>9
<1>12. Trees \in Seq(SoundTrees) /\ Apart(Trees)
  BY <1>1, <1>9, <1>10, <1>11
<1>13. Owned = BlocksOf(V) \cup B \cup BlocksOf(M)
  BY <1>9, <1>10 DEF Owned
<1> QED
  BY <1>7, <1>12, <1>13

\* Every block of a tree is live and has one owner (enact.y, ast.c).
THEOREM BlocksOwnedOnce == ParserSpec => []OwnedOnce
<1>1. ParserInvariant => OwnedOnce
  <2> SUFFICES ASSUME ParserInvariant PROVE OwnedOnce
    OBVIOUS
  <2>1. Trees \in Seq(SoundTrees) /\ Apart(Trees) /\ Owned \subseteq live
    BY TreesOwn
  <2>2. \A i \in DOMAIN Trees : Trees[i] \in SoundTrees
    <3> DEFINE T == Trees
    <3>1. T \in Seq(SoundTrees)
      BY <2>1
    <3> HIDE DEF T
    <3>2. \A i \in DOMAIN T : T[i] \in SoundTrees
      BY <3>1
    <3> QED
      BY <3>2 DEF T
  <2>3. \A i \in DOMAIN Trees : Sound(Trees[i])
    BY <2>2 DEF SoundTrees
  <2> QED
    BY <2>1, <2>3 DEF OwnedOnce
<1> QED
  BY <1>1, InvariantHolds, PTL

\* No block is lost but the operands of an operator whose node could not be made
\* (enact.y, ast.c, enact_parse_text): the failing clone at any depth frees exactly
\* what it has made.
THEOREM NothingIsLost == ParserSpec => []NothingLost
<1>1. ParserInvariant => NothingLost
  BY TreesOwn DEF NothingLost
<1> QED
  BY <1>1, InvariantHolds, PTL

\* No parameter is there twice, and none of a method is self.
THEOREM ParametersAreDistinct == ParserSpec => []ParametersDistinct
<1>1. ParserInvariant => ParametersDistinct
  <2> SUFFICES ASSUME ParserInvariant, NEW i \in DOMAIN stack PROVE Distinct(stack[i].val)
    BY DEF ParametersDistinct
  <2>1. phase = "parsing"
    <3> SUFFICES ASSUME phase # "parsing" PROVE FALSE
      OBVIOUS
    <3>1. stack = <<>>
      BY DEF ParserInvariant, ParsedOK
    <3>2. DOMAIN <<>> = {}
      OBVIOUS
    <3> QED
      BY <3>1, <3>2
  <2>2. StackOK(stack)
    BY <2>1 DEF ParserInvariant, ParsingOK
  <2>3. stack[i] \in Entries
    BY <2>2 DEF StackOK
  <2>4. stack[i].val \in Proper
    BY <2>3 DEF Entries
  <2> QED
    BY <2>4 DEF Proper
<1> QED
  BY <1>1, InvariantHolds, PTL

\* The clone that a function keeps is as its origin (enact_ast_clone).
THEOREM ClonesAreExact == ParserSpec => []CloneExact
<1>1. ParserInvariant => CloneExact
  BY DEF ParserInvariant, ParsingOK, ParsedOK, CloneExact
<1> QED
  BY <1>1, InvariantHolds, PTL

\* The first diagnostic of a statement is kept to its end, and none fails without
\* one (enact_diag_set, yyerror, enact_parse_text): if yyparse accepts, the symbol
\* on top is the input, which is there only once the root is.
THEOREM FirstDiagnostics == ParserSpec => FirstDiagnosticReported
<1>1. ParserInvariant /\ [ParserNext]_vars
      => [/\ diag # "OK" => diag' = diag
          /\ phase' = "failed" => diag # "OK"]_vars
  <2> SUFFICES ASSUME ParserInvariant, ParserNext
               PROVE (diag # "OK" => diag' = diag) /\ (phase' = "failed" => diag # "OK")
    OBVIOUS
  <2>1. Shift \/ Unexpected \/ TakeRoot => diag' = diag /\ phase' = "parsing"
    BY DEF Shift, Unexpected, TakeRoot
  <2>2. LexerFails => (diag # "OK" => diag' = diag) /\ phase' = "parsing"
    BY DEF LexerFails, Report
  <2>3. Reduce => (diag # "OK" => diag' = diag) /\ phase' \in {"ended", "parsing"}
    <3> SUFFICES ASSUME Reduce PROVE (diag # "OK" => diag' = diag) /\ phase' \in {"ended", "parsing"}
      OBVIOUS
    <3>1. ASSUME NEW rule, NEW below, NEW args, NEW d, NEW freed, Abort(rule, below, args, d, freed)
          PROVE  (diag # "OK" => diag' = diag) /\ phase' = "ended"
      BY <3>1 DEF Abort, CleanUp, Report
    <3>2. phase = "parsing"
      BY DEF Reduce
    <3> QED
      BY <3>1, <3>2 DEF Reduce
  <2>4. SyntaxError \/ Accept => (diag # "OK" => diag' = diag) /\ phase' = "ended"
    BY DEF SyntaxError, Accept, CleanUp, Report
  <2>5. Finish => (diag # "OK" => diag' = diag) /\ (phase' = "failed" => diag # "OK")
    <3> SUFFICES ASSUME Finish PROVE (diag # "OK" => diag' = diag) /\ (phase' = "failed" => diag # "OK")
      OBVIOUS
    <3>1. diag = "OK" => root # Nothing
      BY DEF Finish, ParserInvariant, ParsedOK
    <3> QED
      BY <3>1 DEF Finish, Report
  <2>6. MakeFunction \/ CloneKid \/ CloneNode \/ CloneFails \/ UnwindClone \/ FreeTree \/ FreeFunction
        => diag' = diag /\ phase' # "failed"
    BY DEF MakeFunction, CloneKid, CloneNode, CloneFails, UnwindClone, ReturnsNull, FreeTree, FreeFunction
  <2> QED
    BY <2>1, <2>2, <2>3, <2>4, <2>5, <2>6 DEF ParserNext
<1> QED
  BY <1>1, InvariantHolds, PTL DEF ParserSpec, FirstDiagnosticReported

=============================================================================
