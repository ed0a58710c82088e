CONSTANTS
  Browsers = {b1}
  Frames = {main, sub}
  MainFrame = main
  Handlers = {h1, h2}
  None = None
  MaxQueries = 1
  MaxSuccess = 1
  MaxTasks = 1
  MaxContexts = 1
  Disturbed = {b1}
  Persistence = {TRUE, FALSE}
SPECIFICATION FairSpec
INVARIANTS
  RequestHasContext
  LiveCallbackHasEntry
PROPERTIES
  ContractHolds
  PageIsAnswered
  HandlerIsReleased
