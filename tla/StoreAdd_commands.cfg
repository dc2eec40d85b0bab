SPECIFICATION FairAddSpec
CONSTANTS
  a = a
  b = b
  npm = npm
  own = own
  Names = {a, b}
  Versions = {1, 2}
  Releases <- MCReleases
  Dependencies <- MCDependencies
  AutoInstallPeers = TRUE
  Peers = {"", "(a)"}
  Registries = {npm, own}
  Default = npm
  Integrities = {"a1", "b1", "b2"}
  Served <- MCServed
  Lockfiles <- MCLockfiles
  Root = Root
  CommandLines <- MCCommandLines
  Answers <- MCAnswers
  IntegrityOf <- MCIntegrityOf
  Arguments <- MCArguments
  Faults = TRUE
INVARIANTS AddTypeOK AddedIsStored TreeAsLocked FetchesSelected SoundStaysSound
PROPERTIES EveryCommandEnds ImplementsDependencyClosure
