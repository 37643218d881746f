SPECIFICATION Spec
CONSTANTS
  Packages <- FourPackages
  Root = "root"
  Versions = {1, 2, 3}
  RootVersion = 1
  Absent = Absent
  Registries <- SmallRegistries
INVARIANTS
  Soundness
  BacktrackingIsClean
  FailureIsJustified
PROPERTIES
  RefinesResolution
