SPECIFICATION MCSpec
CONSTANTS
  Subjects = {"publishing", "releases"}
  anna = anna
  bert = bert
  p1 = p1
  p2 = p2
  None = None
  Empty = Empty
  Names = {anna, bert}
  Passwords = {p1, p2}
  Letters = {"/", "a", "b", "x"}
  Settings <- MCSettings
  Versions = {1, 2}
  OptionSets <- MCOptionSets
  ServerOf <- MCServerOf
  MaxPublish = 2
  MaxFaults = 1
  r1 = r1
  r2 = r2
  Requirements = {r1, r2}
  InitialChunk = 3
  Unwritten = Unwritten
  Releases <- MCReleases
INVARIANTS
  CredentialsAreRight
  PublishIsComplete
  MetadataIsRight
PROPERTIES
  PublishEnds
  ReleasesAreAnswered
\* All commands have been given, and all releases have been answered.
CHECK_DEADLOCK FALSE
