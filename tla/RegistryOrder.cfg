SPECIFICATION Spec
CONSTANTS
  Handlers <- ThreeHandlers
  MaxQueries = 3
INVARIANTS
  OfferedInOrder
