SPECIFICATION MCSpec
SYMMETRY EitherName
CONSTANTS
  Subjects = {"term", "versions"}
  Versions = {1, 2, 3}
  Sources <- IndexAndGit
  DirectOrigins <- Git
  Environments <- OneEnvironment
  Absent = Absent
  None = None
  index = index
  git = git
  linux = linux
  MaxAssignments = 3
  MaxLevel = 2
  foo = foo
  foox = foox
  Names <- WithExtras
  Releases = {1, 2, 3, 4}
  Prereleases = {2, 4}
  Settings <- MCSettings
  MaxEntries = 3
INVARIANTS
  TermIsSound
  RelationIsKnown
  AssignmentsAreTraced
  CacheIsTransparent
\* The solver may have nothing more to say about the package.
CHECK_DEADLOCK FALSE
