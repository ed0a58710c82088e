CONSTANTS
  Browsers = {b1, b2}
  Frames = {main}
  MainFrame = main
  Handlers = {h1}
  None = None
  MaxQueries = 2
  MaxSuccess = 1
  MaxTasks = 0
  MaxContexts = 0
  Disturbed = {b1}
  Persistence = {FALSE}
SPECIFICATION Spec
INVARIANTS
  NoQueryLost
  KeyInv
