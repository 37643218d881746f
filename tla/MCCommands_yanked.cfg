SPECIFICATION MCSpec
CONSTANTS
  Subjects = {"sources"}
  None = None
  a = a
  b = b
  pypi = pypi
  legacy = legacy
  Absent = Absent
  Root = Root
  Pip = Pip
  Unreadable = Unreadable
  NoLock = NoLock
  Names <- MCNames
  Versions = {1, 2}
  Sources <- MCSources
  Legacy <- legacy
  PyPI <- pypi
  Requires <- MCRequires
  Procs <- OneProcess
  Commands <- MCCommands
  Edits <- MCEdits
  Beginnings <- Environment
  OldLocks = FALSE
  LateEdits = FALSE
  sh1 = sh1
  sh2 = sh2
  Keys <- MCKeys
  Repositories = {"repositories.foo"}
  Values = {"true", "false"}
  Defaults <- MCDefaults
  Migrations <- MCMigrations
  Shells = {sh1, sh2}
  ConfigCommands <- MCConfigCommands
  Starts <- MCStarts
  MaxCommands = 2
  MaxFaults = 1
  SourceNames = {"pypi", "a", "b"}
  Projects <- MCProjects
  Indexes <- MCIndexes
  Uploads <- MCUploads
  MaxChanges = 2
  u1 = u1
  u2 = u2
  c1 = c1
  c2 = c2
  c3 = c3
  m1 = m1
  m2 = m2
  Urls = {u1, u2}
  Refs = {"main", "other"}
  Commits = {c1, c2, c3}
  Pins = {m1, m2}
  Settings <- MCGitSettings
  MaxCalls = 3
  MaxGitFaults = 2
  Clients = {"a", "b", "c"}
  CacheVersions = {"1", "2"}
  LengthOf <- MCLength
  Installations <- MCInstallations
  MaxRequests = 3
  MaxCacheFaults = 1
  Dependencies <- MCDependencies
  SystemVersions = {0, 1}
  Sites <- PureAndUser
  ScriptDirs <- Bins
  SysPaths <- EitherOrder
  Permissions <- MCPermissions
  Layouts <- MCLayouts
INVARIANTS
  YankedIsIgnored
\* A file may be installed, or no file found.
CHECK_DEADLOCK FALSE
