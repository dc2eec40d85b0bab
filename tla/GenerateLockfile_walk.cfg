SPECIFICATION Spec
CONSTANTS
  Peers = {""}
  Registries = {"npm"}
  Default = "npm"
  Integrities = {"sha512"}
  x = x
  y = y
  m = m
  k = k
  z = z
  Names = {x, y, m, k, z}
  Versions = {1, 2}
  Releases <- MCReleases
  Dependencies <- MCDependencies
  AutoInstallPeers = TRUE
  Served <- MCServed
  Manifests <- MCManifests
  GroupLists = {{"prod", "optional", "dev"}, {"prod", "dev"}, {"prod", "optional"}, {"dev"}}
INVARIANTS TypeOK LockfileIsClosed DevMeansOnlyDev RequiredIsJustified RecursionIsSimple
CHECK_DEADLOCK FALSE
