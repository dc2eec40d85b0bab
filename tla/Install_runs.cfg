SPECIFICATION FairSpec
CONSTANTS
  a = a
  b = b
  c = c
  Root = Root
  Names = {a, b, c}
  Versions = {1, 2}
  Releases <- MCReleases
  Dependencies <- MCDependencies
  AutoInstallPeers = TRUE
  Manifests <- MCManifests
  Later <- MCLater
INVARIANTS TreeLinked ImportedIsComplete SameSpecSameRelease
PROPERTIES EveryRunEnds ImplementsDependencyClosure
