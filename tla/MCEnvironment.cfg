SPECIFICATION MCSpec
CONSTANTS
  Subjects = {"packages", "environment", "plugins"}
  a = a
  pip = pip
  root = root
  git = git
  legacy = legacy
  pypi = pypi
  Absent = Absent
  Names <- MCNames
  Versions = {1, 2}
  Sources <- MCSources
  Legacy <- legacy
  PyPI <- pypi
  Root <- root
  Pip <- pip
  Results <- MCResults
  Environments <- MCEnvironments
  Flags <- MCFlags
  None = None
  Pythons <- ThreePythons
  Settings <- MCSettings
  NoFile = NoFile
  EmptyFile = EmptyFile
  PoetryNames = {"a", "lib", "poetry", "z"}
  Core = "poetry"
  Order <- ByName
  Requires <- MCRequires
  Installations <- MCInstallations
  Sections <- MCSections
  Edits <- Forward
  Procs = {1}
INVARIANTS
  EnvIsAsLocked
  OthersAreKept
  OperationsAreSettled
  EnvIsRight
  PluginsAreRight
PROPERTIES
  EnvironmentsLast
\* The environment is up to date.
CHECK_DEADLOCK FALSE
