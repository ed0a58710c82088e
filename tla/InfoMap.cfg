SPECIFICATION Spec
CONSTANTS
  Browsers <- TwoBrowsers
  Ids <- ThreeIds
INVARIANTS
  TypeOK
  NoEmptyInnerMap
  VisitsEachOnce
PROPERTY
  IsInfoSet
