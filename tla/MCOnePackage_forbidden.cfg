SPECIFICATION MCSpec
CONSTANTS
  Subjects = {"versions"}
  Versions = {1, 2, 3}
  Sources <- IndexAndGit
  DirectOrigins <- Git
  Environments <- OneEnvironment
  Absent = Absent
  None = None
  index = index
  git = git
  linux = linux
  MaxAssignments = 3
  MaxLevel = 2
  foo = foo
  foox = foox
  Names <- WithExtras
  Releases = {1, 2, 3, 4}
  Prereleases = {2, 4}
  Settings <- Forbidding
  MaxEntries = 3
INVARIANTS
  ForbiddenIsNotOffered
