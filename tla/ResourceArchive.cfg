CONSTANTS
  Loads = {r1, r2}
  p1 = p1
  p2 = p2
  zip = zip
  Providers = {p1, zip}
  Archives = {zip}
  Order <- SmallOrder
  Identifier <- SmallIdentifier
  None = None
SPECIFICATION Spec
INVARIANT ArchiveAnswers
CHECK_DEADLOCK FALSE
