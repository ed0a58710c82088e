CONSTANTS
  Loads = {r1, r2}
  p1 = p1
  p2 = p2
  zip = zip
  Providers = {p1, p2, zip}
  Archives = {zip}
  Order <- MCOrder
  Identifier <- MCIdentifier
  None = None
SPECIFICATION FairSpec
INVARIANTS
  TypeOK
  CallbackRunsOnce
  IteratorsAreValid
  RemovedProviderIsLeaving
  CanceledIsUnanswered
PROPERTIES
  AskedInOrder
  AllSettles
CHECK_DEADLOCK FALSE
