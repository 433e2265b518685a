--------------------------- MODULE EnactHierarchy ----------------------------
(***************************************************************************)
(* The linearization of a class of a real hierarchy, one iteration of its  *)
(* merge at a time: EnactClasses supplies the sequences, EnactMerge is the *)
(* loop that merges them (object.c, enact_class_linearization_vector).     *)
(* Classes do not change while the loop runs.  The program without methods *)
(* is the one followed here, as methods have no part in it.                *)
(***************************************************************************)
EXTENDS EnactClasses, EnactMerge

\* Every class that is created is one that the loop may place.
ASSUME HierarchyAssumption ==
  MaxOfMethods <= MaxClasses /\ 1..MaxClasses \subseteq Class

hierarchyVars == <<supers, methods, seqs, index, out, consistent>>

\* No call is in progress.
Idle == seqs = <<>>

SequencesOf(c) ==
  LET direct == Direct(supers[c])
  IN SequencesToMerge(direct, [i \in 1..Len(direct) |-> Linearization[direct[i]]])

\* The merge for the newest class; it is not reached above an inconsistent one.
BeginLinearization ==
  /\ Idle
  /\ supers # <<>>
  /\ \A c \in Classes : methods[c] = {}
  /\ \A s \in ClassesOf(supers[Len(supers)]) : Linearization[s].consistent
  /\ BeginMerge(SequencesOf(Len(supers)))
  /\ UNCHANGED classVars

\* enact_class_linearization_vector hands out the result.
EndLinearization ==
  /\ ~Idle
  /\ BeginMerge(<<>>)
  /\ UNCHANGED classVars

HierarchyInit ==
  /\ ClassesInit
  /\ seqs = <<>> /\ index = <<>> /\ out = <<>> /\ consistent = TRUE

HierarchyNext ==
  \/ Idle /\ ClassesNext /\ UNCHANGED vars
  \/ BeginLinearization
  \/ Iterate /\ UNCHANGED classVars
  \/ EndLinearization

HierarchySpec == HierarchyInit /\ [][HierarchyNext]_hierarchyVars

=============================================================================
