-------------------------- MODULE GenerateLockfile --------------------------
(***************************************************************************)
(* `GenerateLockfile`: a manifest is resolved into the `packages` of a      *)
(* pnpm-lock.yaml by a depth-first walk of the registry, group by group,    *)
(* in the iteration order of hash maps.  A package met a second time is not *)
(* walked again; only its own `dev` and `optional` flags are merged, which  *)
(* is where the walk's order could show in the file.                        *)
(*                                                                          *)
(* Operators named Seeded... are defects to try the properties on.          *)
(***************************************************************************)
EXTENDS Lockfile, Sequences

CONSTANTS
  Served,     \* Served[n]: the metadata of n that this run's cache holds
  Manifests,  \* possible package.json files: what each group declares
  GroupLists  \* possible values of dependency_groups

\* The order of the three build_root_group calls.
Order == <<"prod", "optional", "dev">>

ASSUME GenerateAssumption ==
  /\ Served \in [Names -> AllMetadata]
  /\ \A n \in Names : Served[n] \in Metadata(n)
  /\ Manifests \subseteq [Groups -> SUBSET Deps]
  /\ GroupLists \subseteq SUBSET Groups

VARIABLES
  manifest,  \* package.json
  enabled,   \* dependency_groups
  at,        \* index in Order of the group being built
  roots,     \* its direct dependencies still to be resolved
  direct,    \* direct[g][n]: the release recorded for n in group g, or {}
  packages,  \* the packages map: from releases to snapshots
  stack,     \* the frames of build_package_snapshot, innermost last
  outcome    \* "running", "ok", "err"

vars == <<manifest, enabled, at, roots, direct, packages, stack, outcome>>

NoLinks == [n \in Names |-> {}]

Links == [Names -> SUBSET Releases]

\* The parts of a PackageSnapshot that the walk computes.
Snapshots == [dev: BOOLEAN, optional: BOOLEAN, dependencies: Links]

Frames ==
  [package: Releases, dev: BOOLEAN, optional: BOOLEAN, todo: SUBSET Deps, dependencies: Links]

Top == stack[Len(stack)]
Callers == SubSeq(stack, 1, Len(stack) - 1)

-----------------------------------------------------------------------------
\* {} stands for the Err that `?` returns.
resolve_package_version(e) ==
  {[name |-> e.name, version |-> v] : v \in version_by_specifier(Served[e.name], e.spec)}

SeededEitherDev(snapshot, dev, optional) ==
  [snapshot EXCEPT !.dev = @ \/ dev, !.optional = @ /\ optional]

merge_package_flags(snapshot, dev, optional) ==
  [snapshot EXCEPT !.dev = @ /\ dev, !.optional = @ /\ optional]

SeededOwnEdgeOnly(frame, e) ==
  \E o \in Dependencies[frame.package] : o.kind = "optional" /\ o.name = e.name

child_optional(frame, e) ==
  \/ frame.optional
  \/ \E o \in Dependencies[frame.package] : o.kind = "optional" /\ o.name = e.name

\* dependencies.chain(optional_dependencies).chain(peer_dependencies), each of them
\* in the order of a HashMap.
Upcoming(todo) ==
  {e \in todo :
     /\ e.kind = "optional" => \A d \in todo : d.kind # "dependencies"
     /\ e.kind = "peer" => \A d \in todo : d.kind = "peer"}

RootsOf(g) == IF g \in enabled THEN manifest[g] ELSE {}

Init ==
  /\ manifest \in Manifests
  /\ enabled \in GroupLists
  /\ at = 1
  /\ roots = RootsOf("prod")
  /\ direct = [g \in Groups |-> NoLinks]
  /\ packages = [r \in {} |-> {}]
  /\ stack = <<>>
  /\ outcome = "running"

SeededNoPlaceholder(r, dev, optional, callers) ==
  IF r \in DOMAIN packages
  THEN /\ packages' = [packages EXCEPT ![r] = merge_package_flags(@, dev, optional)]
       /\ stack' = callers
  ELSE /\ packages' = packages
       /\ stack' = Append(callers, [package |-> r, dev |-> dev, optional |-> optional,
                                    todo |-> dependencies(r), dependencies |-> NoLinks])

\* A call of build_package_snapshot up to its first resolution: merge the flags of
\* a package that is there, or insert a placeholder and begin to walk.
build_package_snapshot(r, dev, optional, callers) ==
  IF r \in DOMAIN packages
  THEN /\ packages' = [packages EXCEPT ![r] = merge_package_flags(@, dev, optional)]
       /\ stack' = callers
  ELSE /\ packages' = [q \in DOMAIN packages \cup {r} |->
                         IF q = r
                         THEN [dev |-> dev, optional |-> optional, dependencies |-> NoLinks]
                         ELSE packages[q]]
       /\ stack' = Append(callers, [package |-> r, dev |-> dev, optional |-> optional,
                                    todo |-> dependencies(r), dependencies |-> NoLinks])

\* `?` all the way up, to the .expect("generate pnpm lockfile").
Fail ==
  /\ outcome' = "err"
  /\ UNCHANGED <<at, roots, direct, packages, stack>>

-----------------------------------------------------------------------------
\* One turn of build_root_group.
BuildRoot ==
  /\ outcome = "running"
  /\ stack = <<>>
  /\ \E e \in roots :
       \/ \E r \in resolve_package_version(e) :
            /\ roots' = roots \ {e}
            /\ direct' = [direct EXCEPT ![Order[at]][e.name] = {r}]
            /\ build_package_snapshot(r, Order[at] = "dev", Order[at] = "optional", <<>>)
            /\ UNCHANGED <<at, outcome>>
       \/ resolve_package_version(e) = {} /\ Fail
  /\ UNCHANGED <<manifest, enabled>>

\* The next group; build_root_group returns None at once if it is not enabled.
NextGroup ==
  /\ outcome = "running"
  /\ stack = <<>> /\ roots = {} /\ at < Len(Order)
  /\ at' = at + 1
  /\ roots' = RootsOf(Order[at + 1])
  /\ UNCHANGED <<manifest, enabled, direct, packages, stack, outcome>>

SeededPeersNotWalked ==
  /\ outcome = "running"
  /\ stack # <<>>
  /\ \E e \in Upcoming(Top.todo) :
       \/ \E r \in resolve_package_version(e) :
            LET caller == [Top EXCEPT !.todo = @ \ {e}, !.dependencies[e.name] = {r}]
            IN  IF e.kind = "peer"
                THEN stack' = Append(Callers, caller) /\ UNCHANGED <<at, roots, direct, packages, outcome>>
                ELSE /\ build_package_snapshot(r, Top.dev, child_optional(Top, e), Append(Callers, caller))
                     /\ UNCHANGED <<at, roots, direct, outcome>>
       \/ resolve_package_version(e) = {} /\ Fail
  /\ UNCHANGED <<manifest, enabled>>

\* One turn of the loop over the dependencies of the innermost package.
BuildChild ==
  /\ outcome = "running"
  /\ stack # <<>>
  /\ \E e \in Upcoming(Top.todo) :
       \/ \E r \in resolve_package_version(e) :
            LET caller == [Top EXCEPT !.todo = @ \ {e}, !.dependencies[e.name] = {r}]
            IN  /\ build_package_snapshot(r, Top.dev, child_optional(Top, e), Append(Callers, caller))
                /\ UNCHANGED <<at, roots, direct, outcome>>
       \/ resolve_package_version(e) = {} /\ Fail
  /\ UNCHANGED <<manifest, enabled>>

\* The loop is over: the placeholder gets its dependencies, and its flags again.
Return ==
  /\ outcome = "running"
  /\ stack # <<>> /\ Top.todo = {}
  /\ packages' = [packages EXCEPT ![Top.package] =
       merge_package_flags([@ EXCEPT !.dependencies = Top.dependencies], Top.dev, Top.optional)]
  /\ stack' = Callers
  /\ UNCHANGED <<manifest, enabled, at, roots, direct, outcome>>

\* Ok(Lockfile { .. })
Finish ==
  /\ outcome = "running"
  /\ stack = <<>> /\ roots = {} /\ at = Len(Order)
  /\ outcome' = "ok"
  /\ UNCHANGED <<manifest, enabled, at, roots, direct, packages, stack>>

Next == BuildRoot \/ NextGroup \/ BuildChild \/ Return \/ Finish

Spec == Init /\ [][Next]_vars

-----------------------------------------------------------------------------
(* What is returned, given what the metadata says of the tarballs.          *)

dependency_path(r) == [registry |-> Default, name |-> r.name, version |-> r.version, peers |-> ""]

\* Versions under the name they are asked for by.
Versioned(links) ==
  UNION {{[name |-> n, kind |-> "version",
           to |-> dependency_path([name |-> n, version |-> q.version])] : q \in links[n]} : n \in Names}

\* `kind` is what lockfile-include-tarball-url makes of the resolutions.
PackageSnapshot(r, kind, tarball, integrity) ==
  [resolution |-> kind, tarball |-> tarball[r], integrity |-> integrity[r],
   dependencies |-> Versioned(packages[r].dependencies), optional |-> {}]

Written(kind, tarball, integrity) ==
  [packages |->
     [p \in {dependency_path(r) : r \in DOMAIN packages} |->
        PackageSnapshot([name |-> p.name, version |-> p.version], kind, tarball, integrity)],
   projects |->
     {[g \in Groups |-> {to_virtual_store_name(ref.to) : ref \in Versioned(direct[g])}]},
   single |-> TRUE]

-----------------------------------------------------------------------------
(* Properties.                                                              *)

\* Types, and the .expect("package snapshot exists after placeholder insert"): the
\* package of every frame is in the map.
TypeOK ==
  /\ manifest \in Manifests /\ enabled \in GroupLists
  /\ at \in 1..3 /\ roots \in SUBSET Deps
  /\ direct \in [Groups -> Links]
  /\ DOMAIN packages \subseteq Releases
  /\ \A r \in DOMAIN packages : packages[r] \in Snapshots
  /\ stack \in Seq(Frames)
  /\ \A i \in 1..Len(stack) : stack[i].package \in DOMAIN packages
  /\ outcome \in {"running", "ok", "err"}

\* The releases every set that contains `from` and is closed under `edges` contains.
Reachable(from, edges) ==
  {r \in Releases : \A S \in SUBSET Releases :
     from \subseteq S /\ (\A q \in S : edges[q] \subseteq S) => r \in S}

Resolved(edges) == UNION {resolve_package_version(e) : e \in edges}

AllEdges == [r \in Releases |-> Resolved(dependencies(r))]

OptionalNames(r) == {o.name : o \in {x \in Dependencies[r] : x.kind = "optional"}}

RequiredEdges ==
  [r \in Releases |-> Resolved({e \in dependencies(r) : e.name \notin OptionalNames(r)})]

\* The map is closed: what the project or a package depends on is in it under the
\* version recorded, and nothing else is.  InstallFrozenLockfile installs exactly
\* this map, and links what it records.
LockfileIsClosed ==
  outcome = "ok" =>
    /\ DOMAIN packages = Reachable(UNION {Resolved(RootsOf(g)) : g \in Groups}, AllEdges)
    /\ \A r \in DOMAIN packages : \A e \in dependencies(r) :
         \E q \in DOMAIN packages :
           /\ packages[r].dependencies[e.name] = {q}
           /\ q \in Resolved({x \in dependencies(r) : x.name = e.name})
    /\ \A g \in Groups : \A e \in RootsOf(g) :
         \E q \in DOMAIN packages : direct[g][e.name] = {q}

\* `dev: true` means that neither dependencies nor optionalDependencies lead there,
\* in whatever order groups and packages were walked.
DevMeansOnlyDev ==
  outcome = "ok" =>
    \A r \in DOMAIN packages :
      packages[r].dev <=>
        r \notin Reachable(Resolved(RootsOf("prod")) \cup Resolved(RootsOf("optional")), AllEdges)

\* The packages a project cannot do without: no optional edge leads there.
Required ==
  Reachable(Resolved(RootsOf("prod")) \cup Resolved(RootsOf("dev")), RequiredEdges)

\* `optional: false` is never set on a package that could be left out.
RequiredIsJustified ==
  outcome = "ok" => \A r \in DOMAIN packages : ~packages[r].optional => r \in Required

\* `optional: true` is never set on a package that cannot be left out: "Resolve a
\* [`PackageManifest`] into a pnpm-compatible lockfile." It does not hold: README.md, section 5.
OptionalMeansOnlyOptional ==
  outcome = "ok" => \A r \in DOMAIN packages : packages[r].optional => r \notin Required

\* A package is never walked within its own walk, so that the recursion through a
\* cycle comes to an end: it is never deeper than there are releases.
RecursionIsSimple ==
  \A i, j \in 1..Len(stack) : stack[i].package = stack[j].package => i = j
=============================================================================
