SPECIFICATION HierarchySpec

CONSTANTS
  Name = {m}
  Class = {1, 2, 3, 4, 5}
  MaxClasses = 5
  MaxOfMethods = 4
  MaxSupers <- SupersOfFive

INVARIANTS
  LinearizationOrders
  LinearizationMonotone
  DispatchAgrees
  SuperVisitsAll
  MergeInv
  GiveUpJustified
  AllPlaced

PROPERTIES
  DispatchLocal

\* The bounds on the classes are reached.
CHECK_DEADLOCK FALSE
