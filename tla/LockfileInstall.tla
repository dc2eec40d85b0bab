--------------------------- MODULE LockfileInstall ---------------------------
(***************************************************************************)
(* What is installed from a pnpm-lock.yaml: `pacquet install` with a        *)
(* lockfile (InstallFrozenLockfile, CreateVirtualStore,                     *)
(* SymlinkDirectDependencies) and `pacquet fetch` (Fetch), which share      *)
(* InstallPackageBySnapshot.  One future per package, all polled by the     *)
(* task that awaits the `join_all` over them: it gets the tarball through   *)
(* the memory cache, imports it into the virtual store and links its        *)
(* dependencies.                                                            *)
(*                                                                          *)
(* What makes it hard: the links of a package are made before, or without,  *)
(* the packages they lead to; snapshots that differ in their peers share a  *)
(* tarball; install gives up at the first error while fetch goes on; and    *)
(* virtual store and links are what earlier commands left, under other      *)
(* lockfiles, some of them killed.                                          *)
(*                                                                          *)
(* Operators named Seeded... are defects to try the properties on.          *)
(***************************************************************************)
EXTENDS Lockfile

CONSTANTS
  Served,       \* Served[u]: the integrity of what url u serves, in a set; {} if nothing
  Lockfiles,    \* the lockfiles this project ever has
  Root,         \* the project's node_modules
  CommandLines, \* the commands and flags users give
  Faults        \* TRUE: a request or an import may fail, and a process be killed

Flags == [command: {"install", "fetch"}, prod: BOOLEAN, dev: BOOLEAN,
          no_optional: BOOLEAN, offline: BOOLEAN]

Paths == UNION {DOMAIN l.packages : l \in Lockfiles}
Dirs == {to_virtual_store_name(p) : p \in Paths}
Tarballs == UNION {{UrlOf(l, p) : p \in DOMAIN l.packages} : l \in Lockfiles}
Targets == [dir: Specifier, name: Names]

ASSUME LockfileAssumption ==
  /\ Default \in Registries /\ Root \notin Dirs /\ Faults \in BOOLEAN
  /\ Served \in [Urls -> SUBSET Integrities] /\ CommandLines \subseteq Flags
  /\ \A l \in Lockfiles : WellFormed(l)

VARIABLES
  store,    \* the integrities whose index file is in the store directory
  virtual,  \* virtual[d]: "absent", "partial", "full" directory of package files
  content,  \* content[d]: the integrity its files were imported from, in a set
  link,     \* link[d][n]: where the symlink n of d leads, {} if there is none
  run,      \* the command: lockfile, dependency groups, network mode
  phase,    \* where it is: "idle" before one, and after an error, a panic or a kill
  pending,  \* collect_selected_packages: the stack ..
  visited,  \* .. and the paths taken from it
  pc,       \* pc[p]: the await the future of package p is suspended at
  cache,    \* cache[u]: "vacant", "in_progress", "available" in the memory cache ..
  files     \* .. and the integrity of the files it holds, in a set

disk == <<store, virtual, content, link>>
walk == <<pending, visited>>
memory == <<cache, files>>
vars == <<disk, run, phase, walk, pc, memory>>

NoRun == [command |-> "none"]

Ended == phase \in {"idle", "ok"}

Packages == run.lockfile.packages

NoLinks == [n \in Names |-> {}]

-----------------------------------------------------------------------------
(* The flags of the command line.                                           *)

\* InstallDependencyOptions::dependency_groups
install_groups(prod, dev, no_optional) ==
  {g \in Groups : \/ g = "prod" /\ (prod = dev \/ prod)
                  \/ g = "dev" /\ (prod = dev \/ dev)
                  \/ g = "optional" /\ ~no_optional}

\* FetchDependencyOptions::dependency_groups
fetch_groups(prod, dev) ==
  {g \in Groups : \/ g \in {"prod", "optional"} /\ (prod = dev \/ prod)
                  \/ g = "dev" /\ (prod = dev \/ dev)}

groups_of(flags) ==
  IF flags.command = "install" THEN install_groups(flags.prod, flags.dev, flags.no_optional)
  ELSE fetch_groups(flags.prod, flags.dev)

\* ProjectSnapshot::dependencies_by_groups
dependencies_by_groups(project, groups) == UNION {project[g] : g \in groups}

-----------------------------------------------------------------------------
(* LockfilePackageIndex.  The result of a lookup is a set: {} for None, and  *)
(* more than one path where the iteration order of a HashMap decides.        *)

resolve_by_specifier(l, registry, s) ==
  LET candidates == {p \in DOMAIN l.packages : to_virtual_store_name(p) = s}
      same       == {p \in candidates : p.registry = registry}
  IN  IF same # {} THEN same ELSE candidates

resolve_root_dependency(l, s) == resolve_by_specifier(l, Default, s)

\* resolve_snapshot_dependency: a path is not looked up.
resolve_snapshot_dependency(l, parent, ref) ==
  IF ref.kind = "path" THEN {ref.to}
  ELSE resolve_by_specifier(l, parent.registry,
         [name |-> ref.name, version |-> ref.to.version, peers |-> ref.to.peers])

\* resolve_optional_dependency: it is.
resolve_optional_dependency(l, parent, ref) ==
  CASE ref.kind = "path"       -> {ref.to} \cap DOMAIN l.packages
    [] ref.kind = "version"    -> resolve_snapshot_dependency(l, parent, ref)
    [] ref.kind = "unparsable" -> {}

\* What each dependency of a visited package may resolve to.
Children(l, p) ==
  {resolve_snapshot_dependency(l, p, ref) : ref \in l.packages[p].dependencies}
    \cup {resolve_optional_dependency(l, p, ref) : ref \in l.packages[p].optional}

\* root_dependency_paths of every importer.
RootPaths(l, groups) ==
  {resolve_root_dependency(l, s) :
     s \in UNION {dependencies_by_groups(project, groups) : project \in l.projects}}

\* One path from every set of a set of alternatives.
Picks(alternatives) ==
  {{pick[A] : A \in alternatives} :
     pick \in {f \in [alternatives -> UNION alternatives] : \A A \in alternatives : f[A] \in A}}

-----------------------------------------------------------------------------
Init ==
  /\ store = {}
  /\ virtual = [d \in Dirs |-> "absent"]
  /\ content = [d \in Dirs |-> {}]
  /\ link = [d \in Dirs \cup {Root} |-> NoLinks]
  /\ run = NoRun
  /\ phase = "idle"
  /\ pending = {} /\ visited = {}
  /\ pc = [p \in Paths |-> "absent"]
  /\ cache = [u \in Tarballs |-> "vacant"]
  /\ files = [u \in Tarballs |-> {}]

\* One future per path, with an empty memory cache.
Futures(paths) ==
  /\ pc' = [p \in Paths |-> IF p \in paths THEN "new" ELSE "absent"]
  /\ cache' = [u \in Tarballs |-> "vacant"]
  /\ files' = [u \in Tarballs |-> {}]

SeededKeepFutures ==
  phase' = "idle" /\ run' = NoRun /\ UNCHANGED <<pc, memory>> /\ pending' = {} /\ visited' = {}

\* The process exits with an error, panics or is killed; its memory is gone.
Stop == phase' = "idle" /\ run' = NoRun /\ Futures({}) /\ pending' = {} /\ visited' = {}

Exists(d) == d \in Dirs /\ virtual[d] # "absent"

\* Does the link lead anywhere?  Under an alias it does not: no directory of the
\* virtual store holds a package under another name than its own.
Leads(t) == Exists(t.dir) /\ t.name = t.dir.name

\* No link dangles.
LinksLead == \A d \in DOMAIN link, n \in Names : \A t \in link[d][n] : Leads(t)

\* `sound` is history: what LinksLead was at the start.
Runs(flags) ==
  [command: {flags.command}, lockfile: Lockfiles, groups: {groups_of(flags)},
   offline: {flags.offline}, sound: BOOLEAN]

\* CreateVirtualStore::run; a lockfile without packages meets todo!().
StartInstall ==
  /\ Ended
  /\ \E flags \in CommandLines :
       /\ flags.command = "install"
       /\ \E r \in Runs(flags) :
            /\ r.sound = LinksLead
            /\ IF DOMAIN r.lockfile.packages = {} THEN Stop
               ELSE /\ run' = r /\ phase' = "packages"
                    /\ Futures(DOMAIN r.lockfile.packages)
                    /\ pending' = {} /\ visited' = {}
  /\ UNCHANGED disk

\* Fetch::run up to its walk: MissingPackageSnapshots, or a direct dependency that is
\* not there.
StartFetch ==
  /\ Ended
  /\ \E flags \in CommandLines :
       /\ flags.command = "fetch"
       /\ \E r \in Runs(flags) :
            /\ r.sound = LinksLead
            /\ IF DOMAIN r.lockfile.packages = {} \/ {} \in RootPaths(r.lockfile, r.groups)
               THEN Stop
               ELSE /\ run' = r /\ phase' = "collect"
                    /\ pending' \in Picks(RootPaths(r.lockfile, r.groups)) /\ visited' = {}
                    /\ Futures({})
  /\ UNCHANGED disk

\* MissingSnapshot, UnsupportedResolution, ResolvePackage, ParseOptionalDependency.
Uncollectable(l, p) ==
  \/ p \notin DOMAIN l.packages
  \/ l.packages[p].resolution = "git"
  \/ {} \in Children(l, p)

\* One turn of collect_selected_packages; what has been visited is skipped.
Collect ==
  /\ phase = "collect"
  /\ \E p \in pending :
       IF Uncollectable(run.lockfile, p)
       THEN Stop
       ELSE /\ visited' = visited \cup {p}
            /\ \E children \in Picks(Children(run.lockfile, p)) :
                 pending' = (pending \cup children) \ visited'
            /\ UNCHANGED <<run, phase, pc, memory>>
  /\ UNCHANGED disk

\* A directory is walked, not selected.
Selectable(l, p) == l.packages[p].resolution \in {"registry", "tarball"}

CollectDone ==
  /\ phase = "collect" /\ pending = {}
  /\ Futures({p \in visited : Selectable(run.lockfile, p)})
  /\ phase' = "packages"
  /\ UNCHANGED <<disk, run, walk>>

-----------------------------------------------------------------------------
(* InstallPackageBySnapshot: the future of package p.                        *)

\* Importing and linking block the thread: no other future is polled meanwhile.
Polled == phase = "packages" /\ \A p \in Paths : pc[p] \notin {"files", "import", "link"}

Suspend(p, l) == pc' = [pc EXCEPT ![p] = l]

\* The panics on directories, git repositories and tarballs without integrity.
Unsupported(p) ==
  \/ Packages[p].resolution \in {"directory", "git"}
  \/ Packages[p].integrity = {}

Url(p) == UrlOf(run.lockfile, p)

SeededGoOn(p) == Suspend(p, "done") /\ UNCHANGED <<run, phase, walk>>

\* An Err of the future: .unwrap() in CreateVirtualStore, kept by Fetch until the
\* others are done.  The caller sees to the cache.
Fails(p) == Suspend(p, "failed") /\ UNCHANGED <<run, phase, walk>>

SeededIgnoreErr(p) == Suspend(p, "done") /\ UNCHANGED <<run, phase, walk, memory>>

Err(p) ==
  IF run.command = "install" THEN Stop ELSE Fails(p) /\ UNCHANGED memory

\* The cas_paths published under the url.
Publish(p, integrity) ==
  /\ cache' = [cache EXCEPT ![Url(p)] = "available"]
  /\ files' = [files EXCEPT ![Url(p)] = integrity]
  /\ Suspend(p, "files")

\* run_with_mem_cache up to its first await.
Begin(p) ==
  /\ Polled
  /\ pc[p] = "new" /\ ~Unsupported(p)
  /\ \/ cache[Url(p)] = "available" /\ Suspend(p, "files") /\ UNCHANGED memory
     \/ cache[Url(p)] = "in_progress" /\ Suspend(p, "waiting") /\ UNCHANGED memory
     \/ /\ cache[Url(p)] = "vacant" /\ Packages[p].integrity \subseteq store
        /\ Publish(p, Packages[p].integrity)
     \/ /\ cache[Url(p)] = "vacant" /\ ~(Packages[p].integrity \subseteq store)
        /\ ~run.offline
        /\ cache' = [cache EXCEPT ![Url(p)] = "in_progress"]
        /\ Suspend(p, "download")
        /\ UNCHANGED files
  /\ UNCHANGED <<disk, run, phase, walk>>

Panics(p) ==
  /\ Polled
  /\ pc[p] = "new" /\ Unsupported(p)
  /\ Stop
  /\ UNCHANGED disk

\* OfflineCacheMiss; only install is ever offline.
Misses(p) ==
  /\ Polled
  /\ pc[p] = "new" /\ ~Unsupported(p)
  /\ cache[Url(p)] = "vacant" /\ ~(Packages[p].integrity \subseteq store) /\ run.offline
  /\ Err(p)
  /\ UNCHANGED disk

\* The tarball has arrived, its checksum holds, and it is in the store with its index.
Downloaded(p) ==
  /\ Polled
  /\ pc[p] = "download"
  /\ Served[Url(p)] = Packages[p].integrity
  /\ store' = store \cup Packages[p].integrity
  /\ Publish(p, Packages[p].integrity)
  /\ UNCHANGED <<virtual, content, link, run, phase, walk>>

\* It has not, or its checksum is another.
DownloadFails(p) ==
  /\ Polled
  /\ pc[p] = "download"
  /\ Faults \/ Served[Url(p)] # Packages[p].integrity
  /\ Err(p)
  /\ UNCHANGED disk

\* The owner of the entry has published it.
Woken(p) ==
  /\ Polled
  /\ pc[p] = "waiting" /\ cache[Url(p)] = "available"
  /\ Suspend(p, "files")
  /\ UNCHANGED <<disk, run, phase, walk, memory>>

-----------------------------------------------------------------------------
(* CreateVirtualDirBySnapshot.                                               *)

\* create_cas_files: nothing is done about a directory that exists, else it is created ..
Import(p) ==
  LET d == to_virtual_store_name(p)
  IN  /\ phase = "packages" /\ pc[p] = "files"
      /\ IF Exists(d)
         THEN Suspend(p, "link") /\ UNCHANGED <<virtual, content>>
         ELSE /\ virtual' = [virtual EXCEPT ![d] = "partial"]
              /\ content' = [content EXCEPT ![d] = files[Url(p)]]
              /\ Suspend(p, "import")
      /\ UNCHANGED <<store, link, run, phase, walk, memory>>

\* .. and every file linked into it.
Imported(p) ==
  /\ phase = "packages" /\ pc[p] = "import"
  /\ virtual' = [virtual EXCEPT ![to_virtual_store_name(p)] = "full"]
  /\ Suspend(p, "link")
  /\ UNCHANGED <<store, content, link, run, phase, walk, memory>>

\* link_file fails.
ImportFails(p) ==
  /\ Faults
  /\ phase = "packages" /\ pc[p] = "import"
  /\ Err(p)
  /\ UNCHANGED disk

SeededSkipExisting(d, n, t) == IF link[d][n] = {} THEN {t} ELSE link[d][n]

\* symlink_package: a link that dangles does not exist(), and AlreadyExists is ignored.
symlink_package(d, n, t) ==
  IF link[d][n] = {} \/ \E old \in link[d][n] : Leads(old) THEN {t} ELSE link[d][n]

\* The links of create_symlink_layout, and of SymlinkDirectDependencies.
Layout(p) ==
  {[dir |-> IF ref.kind = "path" THEN to_virtual_store_name(ref.to)
            ELSE [name |-> ref.name, version |-> ref.to.version, peers |-> ref.to.peers],
    name |-> ref.name] : ref \in Packages[p].dependencies}

Direct == {[dir |-> s, name |-> s.name] :
             s \in UNION {dependencies_by_groups(project, run.groups) :
                            project \in run.lockfile.projects}}

\* A link that leads elsewhere is removed first.
Stale(d, n, t) == \E old \in link[d][n] \ {t} : Leads(old)

\* What becomes of the symlink n of d when the targets are linked; of two under one name,
\* whichever comes last.  For one in `gone` the stale link has been removed and no more.
Outcomes(d, n, targets, gone) ==
  LET wanted == {t \in targets : t.name = n}
  IN  IF wanted = {} THEN {link[d][n]}
      ELSE {symlink_package(d, n, t) : t \in wanted \ gone}
             \cup {{} : t \in {t \in wanted \cap gone : Stale(d, n, t)}}

\* The symlinks of d with its targets linked.
Linked(d, targets, gone) ==
  {[link EXCEPT ![d] = f] :
     f \in {f \in [Names -> UNION {Outcomes(d, n, targets, gone) : n \in Names}] :
             \A n \in Names : f[n] \in Outcomes(d, n, targets, gone)}}

CreateSymlinkLayout(p) ==
  /\ phase = "packages" /\ pc[p] = "link"
  /\ link' \in Linked(to_virtual_store_name(p), Layout(p), {})
  /\ Suspend(p, "done")
  /\ UNCHANGED <<store, virtual, content, run, phase, walk, memory>>

-----------------------------------------------------------------------------
(* After the join_all.                                                       *)

Joined == phase = "packages" /\ \A p \in Paths : pc[p] \in {"absent", "done", "failed"}

\* The first Err that fetch kept is its result.
FetchDone ==
  /\ Joined /\ run.command = "fetch"
  /\ IF \E p \in Paths : pc[p] = "failed"
     THEN Stop
     ELSE phase' = "ok" /\ Futures({}) /\ UNCHANGED <<run, walk>>
  /\ UNCHANGED disk

\* The links of Root without those under `names` that are not wanted.
Without(names) ==
  [link EXCEPT ![Root] =
     [n \in Names |-> IF n \in names /\ ~(\E t \in Direct : t.name = n) THEN {} ELSE link[Root][n]]]

\* SymlinkDirectDependencies: workspaces panic; sync_direct_dependency_links removes
\* what is not wanted ..
SyncRoots ==
  /\ Joined /\ run.command = "install"
  /\ \/ ~run.lockfile.single /\ Stop /\ UNCHANGED link
     \/ /\ run.lockfile.single
        /\ link' = Without(Names)
        /\ phase' = "roots"
        /\ Futures({})
        /\ UNCHANGED <<run, walk>>
  /\ UNCHANGED <<store, virtual, content>>

\* .. and the wanted links are made.
LinkRoots ==
  /\ phase = "roots"
  /\ link' \in Linked(Root, Direct, {})
  /\ phase' = "ok"
  /\ UNCHANGED <<store, virtual, content, run, walk, pc, memory>>

-----------------------------------------------------------------------------
(* The environment.                                                          *)

\* SIGKILL, in the middle of a layout or of the direct links too.
Kill ==
  /\ Faults /\ ~Ended
  /\ Stop
  /\ \/ UNCHANGED link
     \/ \E p \in Paths :
          /\ pc[p] = "link"
          /\ \E some \in SUBSET Layout(p) : \E gone \in SUBSET some :
               link' \in Linked(to_virtual_store_name(p), some, gone)
     \/ /\ Joined /\ run.command = "install" /\ run.lockfile.single
        /\ \E names \in SUBSET Names : link' = Without(names)
     \/ /\ phase = "roots"
        /\ \E some \in SUBSET Direct : \E gone \in SUBSET some : link' \in Linked(Root, some, gone)
  /\ UNCHANGED <<store, virtual, content>>

\* rm -rf node_modules, the virtual store with it.
DeleteModules ==
  /\ Ended
  /\ virtual' = [d \in Dirs |-> "absent"]
  /\ content' = [d \in Dirs |-> {}]
  /\ link' = [d \in Dirs \cup {Root} |-> NoLinks]
  /\ Stop
  /\ UNCHANGED store

-----------------------------------------------------------------------------
Step(p) ==
  \/ Begin(p) \/ Panics(p) \/ Misses(p) \/ Downloaded(p) \/ DownloadFails(p) \/ Woken(p)
  \/ Import(p) \/ Imported(p) \/ ImportFails(p) \/ CreateSymlinkLayout(p)

Command == Collect \/ CollectDone \/ FetchDone \/ SyncRoots \/ LinkRoots

Start == StartInstall \/ StartFetch

Next == Start \/ Command \/ Kill \/ DeleteModules \/ \E p \in Paths : Step(p)

\* Requests are answered or fail, and tokio polls what has been woken.
Fairness == WF_vars(Command) /\ \A p \in Paths : WF_vars(Step(p))

Spec == Init /\ [][Next]_vars
FairSpec == Spec /\ Fairness

-----------------------------------------------------------------------------
(* Properties.                                                               *)

States == {"absent", "new", "download", "waiting", "files", "import", "link", "done", "failed"}

TypeOK ==
  /\ store \in SUBSET Integrities
  /\ virtual \in [Dirs -> {"absent", "partial", "full"}]
  /\ content \in [Dirs -> SUBSET Integrities]
  /\ link \in [Dirs \cup {Root} -> [Names -> SUBSET Targets]]
  /\ phase \in {"idle", "collect", "packages", "roots", "ok"}
  /\ IF phase = "idle" THEN run = NoRun ELSE run \in UNION {Runs(flags) : flags \in CommandLines}
  /\ pending \in SUBSET DependencyPaths /\ visited \in SUBSET Paths
  /\ pc \in [Paths -> States]
  /\ \A p \in Paths : pc[p] # "absent" => phase = "packages" /\ p \in DOMAIN Packages
  /\ cache \in [Tarballs -> {"vacant", "in_progress", "available"}]
  /\ files \in [Tarballs -> SUBSET Integrities]

Supported(l, p) ==
  l.packages[p].resolution \in {"registry", "tarball"} /\ l.packages[p].integrity # {}

\* What the lockfiles of a project agree on, if nobody has edited them: one tarball for a
\* directory of the virtual store, one for a url, and a directory for each package.
Consistent ==
  /\ \A l, m \in Lockfiles : \A p \in DOMAIN l.packages, q \in DOMAIN m.packages :
       /\ Supported(l, p) /\ Supported(m, q)
       /\ to_virtual_store_name(p) = to_virtual_store_name(q)
       => l.packages[p].integrity = m.packages[q].integrity
  /\ \A l \in Lockfiles : \A p, q \in DOMAIN l.packages :
       /\ Supported(l, p) /\ Supported(l, q) /\ UrlOf(l, p) = UrlOf(l, q)
            => l.packages[p].integrity = l.packages[q].integrity
       /\ to_virtual_store_name(p) = to_virtual_store_name(q) => p = q

\* V contains the direct dependencies of the groups, and with a package all it depends on.
Closed(l, groups, V) ==
  /\ V \subseteq DOMAIN l.packages
  /\ \A A \in RootPaths(l, groups) : A \cap V # {}
  /\ \A p \in V : \A A \in Children(l, p) : A \cap V # {}

\* The packages that the direct dependencies of the groups may lead to.
Reachable(l, groups) ==
  {p \in DOMAIN l.packages : \A S \in SUBSET DOMAIN l.packages :
     /\ \A A \in RootPaths(l, groups) : A \cap DOMAIN l.packages \subseteq S
     /\ \A q \in S : \A A \in Children(l, q) : A \cap DOMAIN l.packages \subseteq S
     => p \in S}

\* What a directory of the virtual store holds.
Holds(p) ==
  /\ Exists(to_virtual_store_name(p))
  /\ content[to_virtual_store_name(p)] = Packages[p].integrity

\* "Import the files from the store dir to each node_modules/.pacquet/{name}@{version}",
\* "Create a symbolic link at each node_modules/{name}": an install that ends well leaves
\* every package of the lockfile imported, from the tarball the lockfile names, whatever
\* earlier lockfiles, failures and kills left; and, unless a link dangled when it began,
\* the links of every package as locked and exactly the direct links of its groups.
TreeAsLocked ==
  phase = "ok" /\ run.command = "install" =>
    /\ \A p \in DOMAIN Packages : Holds(p)
    /\ run.sound =>
         /\ \A p \in DOMAIN Packages : \A t \in Layout(p) :
              link[to_virtual_store_name(p)][t.name] = {t}
         /\ \A n \in Names : IF \E t \in Direct : t.name = n
                            THEN \E t \in Direct : t.name = n /\ link[Root][n] = {t}
                            ELSE link[Root][n] = {}

\* What the links of a lockfile lead to are packages of it, under their names.
Whole ==
  \A t \in Direct \cup UNION {Layout(p) : p \in DOMAIN Packages} :
    \E q \in DOMAIN Packages : t = [dir |-> to_virtual_store_name(q), name |-> q.name]

\* An install that ends well and met no link that dangles leaves none, although packages
\* are linked before what they depend on is imported, and beside the links of earlier
\* lockfiles: the next install can again replace every link.
SoundStaysSound ==
  phase = "ok" /\ run.command = "install" /\ run.sound /\ Whole => LinksLead

\* "Create dependency symbolic links in each `node_modules/.pacquet/{name}@{version}
\* /node_modules/`": they are there, and lead to the imported packages.
\* It does not hold: README.md, section 5.
DependenciesLinked ==
  phase = "ok" /\ run.command = "install" =>
    \A p \in DOMAIN Packages : \A t \in Layout(p) :
      \E s \in link[to_virtual_store_name(p)][t.name] : Leads(s)

\* "Fetch packages from a lockfile into the store and virtual store": those its groups
\* need, through optional dependencies, cycles and custom registries, and no others
\* ("Development packages will not be fetched"); an install --offline of them finds them.
FetchesSelected ==
  run.command = "fetch" =>
    /\ phase \in {"packages", "ok"} => Closed(run.lockfile, run.groups, visited)
    /\ visited \subseteq Reachable(run.lockfile, run.groups)
    /\ \A p \in Paths : pc[p] # "absent" => p \in visited
    /\ phase = "ok" => \A p \in visited : Selectable(run.lockfile, p) => Holds(p) /\ Packages[p].integrity \subseteq store

\* A fetch whose owner of a tarball has failed while another future waits for it.
Abandoned ==
  \E p, q \in Paths : /\ pc[p] = "failed" /\ pc[q] = "waiting"
                      /\ Url(p) = Url(q)

\* Every command ends: no future waits for one that waits for it, and a failure ends all
\* that wait for it, except that fetch, which goes on after an error, then waits for
\* ever for the tarball of two snapshots.
CommandEnds == ~Ended ~> Ended \/ Abandoned
=============================================================================
