SPECIFICATION FairSpec
CONSTANTS
  None = None
  Paths = {1}
  Contents = {a, b}
  NoFile = NoFile
  Providers = {"gitlab"}
  GithubFiles = 1
  GitlabFiles = 1
  MaxLocalEdits = 1
  MaxRemoteEdits = 1
  MaxFaults = 2
  MaxLinks = 2
  Workspaces = {x, y}
  Linked = {y}
  Documents = {d, e}
  Draft = b
  MaxCommands = 2
  MaxSwitches = 1
  MaxEdits = 1
  MaxRefusals = 1
  Roots = {"p", "q"}
  Names = {1, 2}
  Inner = {2}
  MaxMutations = 1
  MaxOutside = 1
  MaxMoves = 2
INVARIANTS WorkspaceIsSound
PROPERTIES SyncsAreOfSaved CloudWorkEnds
CHECK_DEADLOCK FALSE
