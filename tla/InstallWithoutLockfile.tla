----------------------- MODULE InstallWithoutLockfile -----------------------
(***************************************************************************)
(* `InstallWithoutLockfile` and `InstallPackageFromRegistry`: the default   *)
(* `pacquet install`.  One future per dependency edge, all polled by one    *)
(* task: it resolves the edge, imports the package into the virtual store,  *)
(* links it where it is wanted, and, if it is the first to name the         *)
(* package, awaits the futures of the package's own dependencies.           *)
(*                                                                          *)
(* What makes it hard: a future that comes second to a package returns      *)
(* although the package has only been started; dependency cycles; a         *)
(* registry that publishes during the run; node_modules left by an earlier  *)
(* run that was killed, or that resolved other versions.                    *)
(*                                                                          *)
(* Operators named Seeded... are defects to try the properties on.          *)
(***************************************************************************)
EXTENDS Registry

CONSTANTS
  Manifests,  \* what manifest.dependencies(groups) may yield: sets of Deps
  Root,       \* the project's own node_modules
  Later       \* the releases that are not published yet when all begins

\* Directories links are created in: the project's node_modules, and that of a
\* release, $VIRTUAL_STORE/{name}@{version}/node_modules.
Dirs == {Root} \cup Releases

Future(d, e) == [dir |-> d, dep |-> e]

ChildrenOf(r) == {Future(r, e) : e \in dependencies(r)}

RootsOf(m) == {Future(Root, e) : e \in m}

Futures == (UNION {ChildrenOf(r) : r \in Releases}) \cup (UNION {RootsOf(m) : m \in Manifests})

ASSUME InstallAssumption ==
  /\ Manifests \subseteq SUBSET Deps
  /\ Root \notin Releases /\ Later \subseteq Releases
  /\ \A r \in Releases : \A e \in Dependencies[r] : e.name # r.name

VARIABLES
  registry,  \* registry[n]: the metadata the registry serves now
  saved,     \* saved[n]: metadata file in the store directory, {} or a singleton
  cell,      \* cell[n]: this run's RegistryMetadataCache, {} or a singleton
  mode,      \* registry_metadata_mode of this run
  manifest,  \* the dependencies of the groups this run installs
  process,   \* "idle", "running", "ok", "dead"
  pc,        \* pc[f]: the await future f is suspended at
  package,   \* package[f]: the release f resolved its edge to, {} before
  resolved,  \* resolved_packages
  virtual,   \* virtual[r]: "absent", "partial", "full" directory of package files
  link,      \* link[d][n]: the release the symlink n of d points to, {} if none
  found,     \* history: the directories that lacked files when this run started
  sound      \* history: no link dangled when this run started

vars == <<registry, saved, cell, mode, manifest, process, pc, package, resolved, virtual, link,
          found, sound>>

\* found and sound are read by no action: they let a property speak of what the run
\* was given.
runVars == <<mode, manifest, process, found, sound>>

States == {"absent", "metadata", "tarball", "import", "children", "done"}

-----------------------------------------------------------------------------
\* Before the first run: nothing installed.
FirstMetadata(n) ==
  LET versions == {v \in VersionsOf(n) : [name |-> n, version |-> v] \notin Later}
  IN  [versions |-> versions, latest |-> {v \in versions : \A w \in versions : w <= v}]

Init ==
  /\ registry = [n \in Names |-> FirstMetadata(n)]
  /\ saved = [n \in Names |-> {}]
  /\ cell = [n \in Names |-> {}]
  /\ mode = "online"
  /\ manifest = {}
  /\ process = "idle"
  /\ pc = [f \in Futures |-> "absent"]
  /\ package = [f \in Futures |-> {}]
  /\ resolved = {}
  /\ virtual = [r \in Releases |-> "absent"]
  /\ link = [d \in Dirs |-> [n \in Names |-> {}]]
  /\ found = {} /\ sound = TRUE

\* The registry, at any time: a new release, tagged latest or not.
Publish(n) ==
  /\ \E v \in VersionsOf(n) \ registry[n].versions :
       \E l \in {registry[n].latest, {v}} :
         registry' = [registry EXCEPT ![n] =
                        [versions |-> registry[n].versions \cup {v}, latest |-> l]]
  /\ UNCHANGED <<saved, cell, runVars, pc, package, resolved, virtual, link>>

-----------------------------------------------------------------------------
(* The run.                                                                 *)

Exists(r) == virtual[r] # "absent"

LinksLead == \A d \in Dirs : \A n \in Names : \A t \in link[d][n] : Exists(t)

\* InstallWithoutLockfile::run with new caches: one future per direct dependency.
Start ==
  /\ process # "running"
  /\ process' = "running"
  /\ manifest' \in Manifests
  /\ mode' \in {"online", "prefer_offline"}
  /\ cell' = [n \in Names |-> {}]
  /\ resolved' = {}
  /\ pc' = [f \in Futures |-> IF f \in RootsOf(manifest') THEN "metadata" ELSE "absent"]
  /\ package' = [f \in Futures |-> {}]
  /\ found' = {r \in Releases : virtual[r] = "partial"}
  /\ sound' = LinksLead
  /\ UNCHANGED <<registry, saved, virtual, link>>

SeededSpawnedImport == process = "running"

\* create_cas_files blocks the thread: while one future imports, none is polled.
Polled == process = "running" /\ \A f \in Futures : pc[f] # "import"

SeededNoCell(n) ==
  IF mode = "prefer_offline" /\ saved[n] # {} THEN saved[n] ELSE {registry[n]}

\* fetch_package_metadata: this run's cell, else the file if it is preferred, else
\* the registry's answer.
Fetched(n) ==
  IF cell[n] # {} THEN cell[n]
  ELSE IF mode = "prefer_offline" /\ saved[n] # {} THEN saved[n]
  ELSE {registry[n]}

\* The release that version_by_specifier finds there, in a set.
Selected(f) ==
  {[name |-> f.dep.name, version |-> v] :
     v \in UNION {version_by_specifier(m, f.dep.spec) : m \in Fetched(f.dep.name)}}

\* The metadata is also written to the store directory, unless a file is there.
Save(n) == saved' = [saved EXCEPT ![n] = IF @ = {} THEN Fetched(n) ELSE @]

\* The process is gone, and what it had in memory.
Die ==
  /\ process' = "dead" /\ manifest' = {} /\ mode' = "online"
  /\ cell' = [n \in Names |-> {}]
  /\ pc' = [f \in Futures |-> "absent"]
  /\ package' = [f \in Futures |-> {}]
  /\ resolved' = {}
  /\ found' = {} /\ sound' = TRUE

Resolve(f) ==
  /\ Polled
  /\ pc[f] = "metadata"
  /\ Save(f.dep.name)
  /\ \/ \E r \in Selected(f) :
          /\ cell' = [cell EXCEPT ![f.dep.name] = Fetched(f.dep.name)]
          /\ package' = [package EXCEPT ![f] = {r}]
          /\ pc' = [pc EXCEPT ![f] = "tarball"]
          /\ UNCHANGED <<runVars, resolved>>
     \/ Selected(f) = {} /\ Die     \* .unwrap()
  /\ UNCHANGED <<registry, virtual, link>>

SeededSkipExisting(d, r) ==
  link' = [link EXCEPT ![d][r.name] = IF @ = {} THEN {r} ELSE @]

\* symlink_package(r, d/name): skip a link to r, replace one to another release; a
\* link that dangles does not exist(), and creating it again is AlreadyExists,
\* which is ignored.
symlink_package(d, r) ==
  LET old == link[d][r.name]
  IN  link' = [link EXCEPT ![d][r.name] =
                 IF old = {} \/ \E t \in old : Exists(t) THEN {r} ELSE old]

SeededAwaitStarted(f, r) ==
  /\ resolved' = resolved \cup {r}
  /\ pc' = [g \in Futures |-> IF g = f THEN "children"
                              ELSE IF g \in ChildrenOf(r) /\ r \notin resolved THEN "metadata"
                              ELSE pc[g]]

\* install_dependencies_from_registry(r): the first future to name r starts r's
\* dependencies and awaits them, every other one returns.
install_dependencies(f, r) ==
  /\ resolved' = resolved \cup {r}
  /\ pc' = IF r \in resolved
           THEN [pc EXCEPT ![f] = "done"]
           ELSE [g \in Futures |-> IF g = f THEN "children"
                                   ELSE IF g \in ChildrenOf(r) THEN "metadata"
                                   ELSE pc[g]]

\* run_with_mem_cache returned the package's files.  create_cas_files does nothing
\* with a directory that exists; else it creates the directory ..
Import(f) ==
  /\ Polled
  /\ pc[f] = "tarball"
  /\ \E r \in package[f] :
       IF Exists(r)
       THEN symlink_package(f.dir, r) /\ install_dependencies(f, r) /\ UNCHANGED virtual
       ELSE /\ virtual' = [virtual EXCEPT ![r] = "partial"]
            /\ pc' = [pc EXCEPT ![f] = "import"]
            /\ UNCHANGED <<link, resolved>>
  /\ UNCHANGED <<registry, saved, cell, runVars, package>>

\* .. and links every file into it.
Imported(f) ==
  /\ process = "running"
  /\ pc[f] = "import"
  /\ \E r \in package[f] :
       /\ virtual' = [virtual EXCEPT ![r] = "full"]
       /\ symlink_package(f.dir, r)
       /\ install_dependencies(f, r)
  /\ UNCHANGED <<registry, saved, cell, runVars, package>>

\* create_dir_all fails and leaves nothing, or a link_file fails and leaves the directory
\* without some of its files; the future's caller unwraps the error.
ImportFails(f) ==
  /\ \/ process = "running" /\ pc[f] = "import"
     \/ Polled /\ pc[f] = "tarball" /\ \E r \in package[f] : ~Exists(r)
  /\ Die
  /\ UNCHANGED <<registry, saved, virtual, link>>

\* The join_all over the children of f's package is ready.
Joined(f) == \A r \in package[f] : \A g \in ChildrenOf(r) : pc[g] = "done"

Complete(f) ==
  /\ Polled
  /\ pc[f] = "children"
  /\ Joined(f)
  /\ pc' = [pc EXCEPT ![f] = "done"]
  /\ UNCHANGED <<registry, saved, cell, runVars, package, resolved, virtual, link>>

\* The join_all over the direct dependencies is ready: sync_direct_dependency_links
\* removes the entries of node_modules that are not wanted.
Finish ==
  /\ Polled
  /\ \A f \in RootsOf(manifest) : pc[f] = "done"
  /\ link' = [link EXCEPT ![Root] =
       [n \in Names |-> IF \E e \in manifest : e.name = n THEN link[Root][n] ELSE {}]]
  /\ process' = "ok"
  /\ UNCHANGED <<registry, saved, cell, mode, manifest, pc, package, resolved, virtual, found, sound>>

-----------------------------------------------------------------------------
(* The environment.                                                         *)

\* SIGKILL, or the panic of an .unwrap() on a failed request or symlink.
Kill ==
  /\ process = "running"
  /\ Die
  /\ UNCHANGED <<registry, saved, virtual, link>>

\* Between runs, of which nothing is left in memory, somebody deletes
\* node_modules/.pacquet.
Wipe ==
  /\ process # "running"
  /\ Die
  /\ virtual' = [r \in Releases |-> "absent"]
  /\ link' = [d \in Dirs |-> IF d = Root THEN link[d] ELSE [n \in Names |-> {}]]
  /\ UNCHANGED <<registry, saved>>

-----------------------------------------------------------------------------
Step(f) == Resolve(f) \/ Import(f) \/ Imported(f) \/ ImportFails(f) \/ Complete(f)

Run == Finish \/ \E f \in Futures : Step(f)

Next ==
  \/ Start \/ Run \/ Kill \/ Wipe
  \/ \E n \in Names : Publish(n)

\* Requests are answered, and tokio polls some future as long as one has been woken: no
\* future is relied on to be polled before another.
Fairness == WF_vars(Run)

Spec == Init /\ [][Next]_vars
FairSpec == Spec /\ Fairness

-----------------------------------------------------------------------------
(* Properties.                                                              *)

TypeOK ==
  /\ registry \in [Names -> AllMetadata]
  /\ saved \in [Names -> SUBSET AllMetadata]
  /\ cell \in [Names -> SUBSET AllMetadata]
  /\ \A n \in Names : {registry[n]} \cup saved[n] \cup cell[n] \subseteq Metadata(n)
  /\ mode \in {"online", "prefer_offline"}
  /\ manifest \in Manifests \cup {{}}
  /\ process \in {"idle", "running", "ok", "dead"}
  /\ pc \in [Futures -> States]
  /\ package \in [Futures -> SUBSET Releases]
  /\ resolved \in SUBSET Releases
  /\ virtual \in [Releases -> {"absent", "partial", "full"}]
  /\ link \in [Dirs -> [Names -> SUBSET Releases]]
  /\ found \in SUBSET Releases /\ sound \in BOOLEAN

\* d's symlink for the edge leads to a release this run resolved, and of a version
\* that some specifier for that name in the same directory selects.
Linked(edges, d, e) ==
  \E r \in resolved :
    /\ link[d][e.name] = {r}
    /\ \E x \in edges :
         x.name = e.name /\ \E m \in cell[e.name] : r.version \in version_by_specifier(m, x.spec)

\* "Create dependency symbolic links in .../node_modules/", "Create a symbolic link
\* at `node_modules/{name}`", "Repeat the process for the dependencies of the
\* package": a run that ends well leaves links for the direct dependencies, no
\* others, and for every dependency of every package it installed, unless it found
\* links that dangle, which a deleted virtual store leaves and symlink_package keeps.
TreeLinked ==
  process = "ok" /\ sound =>
    /\ \A e \in manifest : Linked(manifest, Root, e)
    /\ \A n \in Names : link[Root][n] # {} => \E e \in manifest : e.name = n
    /\ \A r \in resolved : \A e \in dependencies(r) : Linked(dependencies(r), r, e)

\* A future goes on to a package's dependencies only when the package's directory has
\* all its files, unless it lacked some when the run started: the early return of
\* create_cas_files for a directory that exists never takes one that another future of
\* the run is filling, and no run goes on after an import of its own that failed.
ImportedIsComplete ==
  process \in {"running", "ok"} => \A r \in resolved : virtual[r] = "full" \/ r \in found

\* "Import (by reflink, hardlink, or copy) the files from the store dir to
\* `node_modules/.pacquet/{name}@{version}/node_modules/{name}/`": a run that ends well
\* leaves every package it installed with all its files.
TreeComplete ==
  process = "ok" => \A r \in resolved : virtual[r] = "full"

\* One metadata per package and run: futures that name a package with the same
\* specifier agree on its release, whatever the registry publishes in between.
SameSpecSameRelease ==
  \A f, g \in Futures :
    f.dep.name = g.dep.name /\ f.dep.spec = g.dep.spec
      /\ package[f] # {} /\ package[g] # {} => package[f] = package[g]

\* The futures of a run that await each other never do so in a circle, cyclic
\* dependencies included: every run ends.
EveryRunEnds == process = "running" ~> process # "running"

-----------------------------------------------------------------------------
\* While the run has something to say of what it resolves.
Told == process \in {"running", "ok"}

Edges == {f.dep : f \in Futures}

\* The releases that some metadata of its package make of an edge.
Candidates ==
  [e \in Edges |-> {[name |-> e.name, version |-> v] :
     v \in UNION {version_by_specifier(m, e.spec) : m \in Metadata(e.name)}}]

\* The releases that an edge stands for in this run.
StandsFor(e) ==
  {r \in Releases : r.name = e.name /\
     \E m \in cell[e.name] : r.version \in version_by_specifier(m, e.spec)}

Closure == INSTANCE DependencyClosure WITH
  Needs <- [r \in Releases |-> dependencies(r)], Goals <- Manifests,
  status <- IF process = "running" THEN "on" ELSE IF process = "ok" THEN "ok" ELSE "off",
  wanted <- IF Told THEN manifest ELSE {},
  chosen <- [e \in Edges |-> IF Told THEN StandsFor(e) ELSE {}],
  resolved <- IF Told THEN resolved ELSE {}

\* Every behaviour of the installer, whatever is left in node_modules, is one of a
\* DependencyClosure: although a future returns while the package it came second to is
\* only being started, a run that ends well has taken all that is needed, and it settles
\* each edge once, whatever the registry publishes meanwhile.
ImplementsDependencyClosure == Closure!Spec
=============================================================================
