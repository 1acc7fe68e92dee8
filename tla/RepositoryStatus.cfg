SPECIFICATION FairSpec
CONSTANTS
  None = None
  Paths = {1}
  Contents = {a, b}
  NoFile = NoFile
  Providers = {}
  GithubFiles = 1
  GitlabFiles = 1
  MaxLocalEdits = 1
  MaxRemoteEdits = 1
  MaxFaults = 2
  MaxLinks = 2
  Workspaces = {x, y}
  Linked = {y}
  Documents = {}
  Draft = b
  MaxCommands = 1
  MaxSwitches = 1
  MaxEdits = 1
  MaxRefusals = 0
  Roots = {"p"}
  Names = {1, 2}
  Inner = {2}
  MaxMutations = 1
  MaxOutside = 1
  MaxMoves = 2
INVARIANTS StatusIsOfWorkspace
CHECK_DEADLOCK FALSE
