SPECIFICATION DispatchSpec

CONSTANTS
  Name = {m}
  MaxClasses = 3
  MaxOfMethods = 3
  MaxSupers <- SupersOfThree
  Hierarchies <- SmallHierarchies
  Arity <- TwoParameters
  Native = {m}
  MaxObjects = 1
  MaxMade = 1
  MaxDepth = 3

INVARIANTS
  ContextInnermost
  SupplierInherited
  SuperAdvances
  ArgumentsComplete

PROPERTIES
  SuperRefusedOutside
