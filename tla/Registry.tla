------------------------------ MODULE Registry ------------------------------
(***************************************************************************)
(* What an npm registry publishes, as `crates/registry` reads it: packages, *)
(* their releases, the specifiers that select a release and the             *)
(* dependencies a release declares.  Versions are natural numbers in semver *)
(* order; a range is the set of versions that satisfy it, so that a         *)
(* prerelease outside the range is simply not in the set.                   *)
(***************************************************************************)
EXTENDS Naturals

CONSTANTS
  Names,            \* package names
  Versions,         \* version numbers
  Releases,         \* the releases ever published, `{name}@{version}`
  Dependencies,     \* Dependencies[r]: what release r declares
  AutoInstallPeers  \* the auto-install-peers setting

\* "latest", an exact version, a range, or text that is none of them (a workspace
\* or git specifier, a dist-tag other than latest).
Specifiers ==
  {s \in [kind: {"latest", "version", "range", "unparsable"}, set: SUBSET Versions] :
     s.kind = "version" => \E v \in Versions : s.set = {v}}

Kinds == {"dependencies", "optional", "peer"}

Deps == [name: Names, spec: Specifiers, kind: Kinds]

\* Metadata of one package: its published versions, the version tagged latest ({}
\* if none is).
VersionsOf(n) == {v \in Versions : [name |-> n, version |-> v] \in Releases}

Metadata(n) ==
  [versions: SUBSET VersionsOf(n), latest: {{}} \cup {{v} : v \in Versions}]

AllMetadata == UNION {Metadata(n) : n \in Names}

ASSUME RegistryAssumption ==
  /\ Versions \subseteq Nat
  /\ Releases \subseteq [name: Names, version: Versions]
  /\ Dependencies \in [Releases -> SUBSET Deps]
  /\ AutoInstallPeers \in BOOLEAN

-----------------------------------------------------------------------------
\* Package::version_by_tag: the tag may be missing, or its release unpublished.
version_by_tag(m, s) ==
  (IF s.kind = "latest" THEN m.latest ELSE s.set) \cap m.versions

\* Package::pinned_version: the greatest published version in the range.
pinned_version(m, s) ==
  LET satisfying == m.versions \cap s.set
  IN  {v \in satisfying : \A w \in satisfying : w <= v}

\* Package::version_by_specifier: the version, or {} for MissingLatestTag and
\* MissingVersionRelease, and for the panic on a specifier that is no range.
version_by_specifier(m, s) ==
  CASE s.kind \in {"latest", "version"} -> version_by_tag(m, s)
    [] s.kind = "range"                 -> pinned_version(m, s)
    [] s.kind = "unparsable"            -> {}

\* PackageVersion::dependencies(with_peer_dependencies).
dependencies(r) == {d \in Dependencies[r] : d.kind = "peer" => AutoInstallPeers}
=============================================================================
