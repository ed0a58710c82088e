SPECIFICATION FairSpec
CONSTANTS
  Windows = {w1, w2}
  First = w1
  NoWindow = NoWindow
  MaxPosted = 3
CHECK_DEADLOCK FALSE
INVARIANTS TypeOK DelegateIsAlive DestroyedOnce ExitsAfterBrowsers StrandsOnlyRegistrations
PROPERTIES PageAgrees AcceptedCloseCompletes EndsWhenEmpty
