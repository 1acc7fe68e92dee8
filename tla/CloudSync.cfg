SPECIFICATION Spec
CONSTANTS
  Paths = {1, 2}
  Contents = {a, b}
  NoFile = NoFile
  Providers = {"github", "gitlab"}
  GithubFiles = 1
  GitlabFiles = 2
  MaxLocalEdits = 1
  MaxRemoteEdits = 1
  MaxFaults = 1
  MaxLinks = 2
SYMMETRY Symmetry
INVARIANTS TypeOK BaselineIsShared CleanStatusIsTrue CommitMatchesBaseline
PROPERTIES LocalWorkSurvives RemoteWorkSurvives DivergedVersionsStay
