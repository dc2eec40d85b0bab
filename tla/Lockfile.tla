------------------------------ MODULE Lockfile ------------------------------
(***************************************************************************)
(* What pnpm-lock.yaml says: importers, which name the direct dependencies  *)
(* of a project by group, and a map from dependency paths to snapshots of   *)
(* packages.  GenerateLockfile writes it; install and fetch read it.        *)
(***************************************************************************)
EXTENDS Registry

CONSTANTS
  Peers,        \* the peer suffixes of versions, "" among them
  Registries,   \* custom registries
  Default,      \* the one that stands for `custom_registry: None`
  Integrities

Groups == {"prod", "dev", "optional"}

Urls == [registry: Registries, name: Names, version: Versions]

DependencyPaths == [registry: Registries, name: Names, version: Versions, peers: Peers]

\* A PkgNameVerPeer, and the directory of the virtual store named after it.
Specifier == [name: Names, version: Versions, peers: Peers]

to_virtual_store_name(p) == [name |-> p.name, version |-> p.version, peers |-> p.peers]

\* A value of a snapshot's (optional) dependencies under the key `name`: the version
\* of a package, or a whole dependency path.
References == [name: Names, kind: {"version", "path", "unparsable"}, to: DependencyPaths]

Snapshot ==
  [resolution: {"registry", "tarball", "directory", "git"}, tarball: Urls,
   integrity: SUBSET Integrities, dependencies: SUBSET References, optional: SUBSET References]

Projects == [Groups -> SUBSET Specifier]

\* Where a snapshot's tarball comes from: its own url, or the registry's.
UrlOf(l, p) ==
  IF l.packages[p].resolution = "tarball" THEN l.packages[p].tarball
  ELSE [registry |-> p.registry, name |-> p.name, version |-> p.version]

\* What serde reads: a map from names to references, one importer or several.
WellFormed(l) ==
  /\ l = [packages |-> l.packages, projects |-> l.projects, single |-> l.single]
  /\ l.projects \subseteq Projects /\ l.single \in BOOLEAN
  /\ DOMAIN l.packages \subseteq DependencyPaths
  /\ \A p \in DOMAIN l.packages :
       /\ l.packages[p] \in Snapshot
       /\ \A r, s \in l.packages[p].dependencies : r.name = s.name => r = s

-----------------------------------------------------------------------------
\* A lockfile as GenerateLockfile writes it, from metadata with these tarballs and
\* integrities: no custom registry and no peers, resolutions of one kind, and versions
\* that are packages of the map, as are the direct ones.
Generated(l, tarball, integrity) ==
  /\ \E kind \in {"registry", "tarball"} : \A p \in DOMAIN l.packages :
       LET r == [name |-> p.name, version |-> p.version]
           s == l.packages[p]
       IN  /\ p.registry = Default /\ p.peers = "" /\ r \in Releases
           /\ s.resolution = kind /\ s.tarball = tarball[r]
           /\ s.integrity = integrity[r] /\ s.integrity # {}
           /\ s.optional = {}
           /\ \A d \in s.dependencies :
                d.kind = "version" /\ d.to \in DOMAIN l.packages /\ d.to.name = d.name
  /\ \A project \in l.projects : \A g \in Groups :
       project[g] \subseteq {to_virtual_store_name(p) : p \in DOMAIN l.packages}
=============================================================================
