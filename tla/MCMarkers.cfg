SPECIFICATION MCSpec
CONSTANTS
  Subjects = {"overrides", "markers"}
  a = a
  b = b
  c = c
  root = root
  main = main
  dev = dev
  Packages = {a, b, c}
  Root = root
  Groups = {main, dev}
  Environments = {here}
  Graphs <- MCGraphs
  Names = {"app", "foo", "bar"}
  Versions = {1, 2}
  Sources = {"any", "s", "t"}
  Places <- MCPlaces
  NoEnv = NoEnv
  Problems <- MCProblems
INVARIANTS
  MarkersAreRight
  OverridesArePartition
  EveryEnvironmentIsServed
PROPERTIES
  IterationEnds
