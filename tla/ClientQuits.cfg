SPECIFICATION Spec
CONSTANTS
  Windows = {w1, w2}
  First = w1
  NoWindow = NoWindow
  MaxPosted = 3
CHECK_DEADLOCK FALSE
INVARIANT QuitsAfterAllWindows
