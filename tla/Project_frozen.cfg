SPECIFICATION Spec
CONSTANTS
  Names <- MCNames
  Versions = {1, 2}
  Releases <- MCReleases
  Dependencies <- MCDependencies
  AutoInstallPeers = FALSE
  Commands <- MCCommands
  NoCommand = NoCommand
  Manifests <- MCManifests
  Later <- MCLater
  Caret <- MCCaret
  Executables = {"x"}
  Provides <- MCProvides
INVARIANTS FrozenFailsOutOfSync
