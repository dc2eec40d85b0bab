# npnpm in TLA+

`npnpm` (the crates still say `pacquet`) installs npm packages the way pnpm does:
tarballs are unpacked into a content-addressable store, packages are linked from there into
a virtual store (`node_modules/.pacquet`), and symlinks lead from `node_modules` and from
each package to its dependencies. This directory holds TLA+ models of that program, the
configurations TLC checks them with, and theorems about them that TLAPS checks.

* [1. The system](#1-the-system): components, state, operations, interactions
* [2. The modules](#2-the-modules): what models what
* [3. The runs](#3-the-runs): what TLC checks, bounds, fairness
* [4. The theorems](#4-the-theorems): what is proved, and how
* [5. Where code and documentation disagree](#5-where-code-and-documentation-disagree)
* [6. What is not modelled](#6-what-is-not-modelled)
* [7. Plan](#7-plan)

To check: `tlc -config Project_commands.cfg MCProject`, `tlapm ProjectProofs.tla`, and so on.
`PROJECT.json` lists the runs, the source lines behind every definition ("map"), the hazards
of the code, and for each property a defect ("mutants": an operator named `Seeded...` put in
place of a definition) which that property finds.

## 1. The system

Paths are relative to `src/crates/`.

| component | state it keeps | operations | interacts with |
|---|---|---|---|
| `store-dir`, `fs`: the store | files `v3/files/xx/…`, with suffixes none, `-exec` and `-index.json` | `write_cas_file`, `write_index_file`, `read_index_file`, `prune`, `status`; `ensure_file` below them | every process with the same store directory; nothing locks it |
| `tarball` | `MemCache`: url → `InProgress(Notify)` or `Available(paths)` | `run_with_mem_cache`, `run_without_mem_cache` | futures of one install; the store; the network |
| `registry` | none | `version_by_specifier`, `dependencies` | the registry's HTTP answers |
| `package-manager`: install without a lockfile | `ResolvedPackages`, futures, virtual store, symlinks | `InstallWithoutLockfile`, `InstallPackageFromRegistry`, `create_cas_files`, `symlink_package`, `sync_direct_dependency_links` | `MemCache`, `RegistryMetadataCache` |
| `package-manager`: lockfile generation | `packages` and importer under construction, recursion stack | `GenerateLockfile` (`LockfileBuilder`) | metadata cache |
| `package-manager`: commands | `package.json`, `pnpm-lock.yaml`, `node_modules`, `.bin` | `Install`, `Add`, `Remove`, `Update`, `Fetch`; `State::init` | all of the above |
| `package-manager`: install from a lockfile | virtual store, symlinks | `InstallFrozenLockfile`, `CreateVirtualStore`, `SymlinkDirectDependencies` | lockfile, store |
| `package-manager`: `CreateBins` | `.bin` directories | remove, collect, link | the links of `node_modules` |
| `package-manager`: fetch | the selection, futures | `Fetch`, `LockfilePackageIndex`, `collect_selected_packages` | lockfile, store, virtual store |
| `package-manager`: store add | `ResolvedPackages`, loops of a recursion | `StoreAdd`, `StoreAdder` | metadata cache, store |
| `RegistryMetadataCache` | a cell per package, a metadata file per package in the store | fetch once per run, prefer the file with `--prefer-offline` | every resolution |
| `package-manifest`, `lockfile` | the two files | `from_path`, `save`, `load_from_dir`, `save_to_dir` | the commands |
| `npmrc` | settings | `Npmrc::current` | the commands |
| `registry-mock` (in `src/tasks/`) | an anchor file with a reference count, a file lock, a file for a prepared server, server processes | `RegistryAnchor::load_or_init`, its `Drop`, `PreparedRegistryInfo::launch`, `end` | every test process |
| `network`, `executor`, `diagnostics`, CLI entry, benchmarks | a semaphore, a child process | – | – |

What makes it hard, and what each component has to get right:

* **The store** is shared by extraction tasks and by processes, with three separate
  file-system calls in `ensure_file` and a `prune` that reads, lists and removes. An index must
  never name a file that is neither there nor being written; `prune` must remove the orphans and
  nothing else; `status` must not vouch for a store that is not intact.
* **The in-memory cache** has futures waiting for a download that may fail, a notification apart
  from the state it announces, and a `DashMap` guard held across an `await`. A url must be
  downloaded once, no wake-up may get lost, and every caller must get an answer.
* **The install without a lockfile** has one future per dependency edge; the second future to
  name a package returns although the package has only been begun; dependencies are cyclic;
  the registry publishes meanwhile; `node_modules` is what an earlier run, perhaps a killed one,
  has left. A run that ends well must leave exactly the links that manifest and packages want.
* **The generator** walks a cyclic graph in the order of hash maps, and merges flags of packages
  it meets again. The file must be closed, minimal, and independent of the order.
* **The commands** change four things one after the other and may fail or be killed in between;
  the next command, with other flags and groups, starts from what it finds. A command that ends
  well must leave `node_modules` as `package.json` declares it, and a lockfile in sync with it.
* **What is installed from a lockfile** has one future per package; links are made before the packages
  they lead to are there, or without them; snapshots share tarballs; install gives up at the
  first error, fetch goes on. An install must leave the tree the lockfile describes, over whatever other
  lockfiles left; fetch must take what its groups need and no more.
* **`store add`** requests metadata concurrently, with retries, and walks a cyclic graph. Success must
  mean that everything needed is in the store.
* **The shared registry of the tests** is counted in a file under a lock by processes that are
  killed. Nobody may stop a server that a test counts on.

`PROJECT.json` lists 40 hazards at the lines where they bite, with the properties that would
catch each of them, or the reason why none does.

## 2. The modules

| module | models | built on |
|---|---|---|
| `Registry` | what the registry serves and how a specifier selects a version | |
| `StoreDir` | the store under several workers | |
| `PackageStore` | what the store promises (abstract) | |
| `MemCache` | the tarball cache of one install | |
| `SingleFlight` | what the cache promises (abstract) | |
| `DependencyClosure` | what resolving dependencies promises (abstract) | |
| `InstallWithoutLockfile` | the default install | `Registry` |
| `Lockfile` | what a pnpm-lock.yaml says, and which ones are generated | `Registry` |
| `GenerateLockfile` | the walk that makes a lockfile | `Lockfile` |
| `Project` | the five commands on a project | `Registry` |
| `LockfileInstall` | install from a lockfile, and fetch | `Lockfile` |
| `StoreAdd` | `store add`, beside the commands of `LockfileInstall` | `LockfileInstall` |
| `RegistryAnchor` | the mocked registry that tests share | |
| `MC…` | instances for TLC | the module of the same name |
| `…Proofs` | theorems | the module of the same name |

Sets of at most one element stand for `Option` throughout (`{}` is `None`), and for what `?`
returns early on.

**Registry.** Versions are numbers, in the order of semver. A specifier is the tag `latest`, one
version, a range (the set of versions in it) or text that does not parse.
`version_by_specifier` returns the tagged version, the pinned one, or the greatest of the range.

**StoreDir.** `disk[p]` is absent, empty (opened, not yet written) or full. A worker is anything
that runs store code on its own, in this or another process. A download goes through `load`
(read the index), `fetch`, and for each tar entry and at last the index through `exists`, `open`
and `write` — the three calls of `ensure_file` (`EnsureExists`, `EnsureOpen`, `EnsureWrite`).
`prune` reads the indexes one at a time, lists the files, and checks and removes them one at a
time; `status` likewise. `linked` says whether the open file is still reachable, since a `prune`
may unlink it. A mode is its set of executable bits. With `Faults` any step may be a worker's last.
A prune may also meet files written after it began to list. Its list of the indexes is one step, as is that of
a status; the indexes themselves are read one at a time. `known[w]` and `pruned[w]` are history: the indexes that were there when `w` listed them, and what
prunes have removed since; so is `torn`, the files that a killed or failing worker left without content. `PruneAlone` keeps prunes and downloads apart: a rule for those who run them, which
nothing in the code enforces. The runs `store_concurrent` and `store_prune_race` do without it.

**PackageStore.** Files come first; a package comes at once, when all its files are there; whoever is given
a package is given all its files, and a file goes only when no package has it and nobody still
counts on it. `StoreDir` implements it (`Promise`) when nobody prunes during a download, through kills
at any step: an index that exists is a package, the paths a download returned are what it was given.

**MemCache.** All futures of an install are polled by the task that awaits their `join_all`, so
an action is the code between two awaits. `pc` names the await. A waiter holds the shard lock of
the `Ref` that `mem_cache.get` returned in all its awaits; `InsertBlocks` is an `insert` into
a shard that is locked, which blocks the one thread there is. `Collects` distinguishes `fetch`, which
keeps an error until its `join_all` is over, from the callers that unwrap it.

**SingleFlight.** A key is `none`, `flying` or `landed`; the value is decided once, by the call
that landed it, and every other call is served that value. `MemCache` implements it under the mapping
`Promise` if its callers unwrap errors.

**InstallWithoutLockfile.** A future is a pair of the directory it links in and the dependency
edge. It awaits metadata (`Resolve`), then the tarball; then it imports (`Import`: `virtual[r]`
becomes `partial`; `Imported`: `full`; `ImportFails`: nothing or a `partial` directory stays, and the run ends),
links, and, if it is the first to insert the package in
`resolved_packages`, awaits its children (`Complete`). `create_cas_files` blocks the thread, so no
future is polled during `import`. `Finish` removes the links that are not wanted. The registry may
publish at any time, the process may be killed at any step, and the virtual store may be deleted
between runs. Two variables are history: `found`, the packages whose directories lacked files when the run
started, and `sound`, whether no link dangled then.

**DependencyClosure.** A command learns which release each edge (a package name and a specifier) stands
for, once; it takes a release only when something it was asked for or something it has taken needs it; and
it ends well only with all that is needed. Both walks implement it, by different means:
`InstallWithoutLockfile` with futures that await each other and a set of packages begun,
`StoreAdd` with a recursion over `join_all`s. In both a release is chosen when its name's
metadata cell is filled, not when a request is answered.

**GenerateLockfile.** `stack` has the frames of `build_package_snapshot`; a package is in the map
with a placeholder before its dependencies are walked. The order inside a hash map is
nondeterministic, the order of groups and of the three dependency maps is the code's. A run
starts with any manifest and group list; errors stop it where it is. `Written` is the lockfile that a state
of the walk stands for, as a record of `Lockfile`; it takes the tarballs and integrities of the metadata, which
the walk copies, as arguments.

**Project.** One action per step of a command: `Start` is `State::init` with the arguments of the
subcommand, which creates a missing `package.json` from a template (`WriteTemplate`), whatever the flags; `Add`, `Remove` and `Update` edit the manifest in memory; `LockfileOnly`,
`OfflineInstall` and `OnlineInstall` are the branches of `Install::run`, each of which puts the
phases it will go through in `steps`; `Generate`, `TruncateLockfile`, `WriteLockfile`, `Import`,
`Link`, `Resolve`, `Unlink`, `RemoveBins`, `CreateBinLinks`, `TruncateManifest` and
`WriteManifest` are the phases, one step per package or link. `fs::write` and `File::create` truncate before they write: a
file between the two is in `torn`, and the next command cannot parse it. `Kill` ends the process
anywhere, also between the `remove_file` and the `symlink_dir` of a link that changes.

The settings of a command are those of `Npmrc::current`: the project's `.npmrc`, or else the one in
the home directory, or else the defaults, one file and not a merge of them. A file with one value that
does not parse counts as none, without a word (`load_npmrc`). A command line is a record of
flags, which `add_groups`, `remove_groups` and `update_groups` turn into dependency groups as
`src/crates/cli/src/cli_args/` does.

What `Project` abstracts from: a command reads each package's metadata once, so the registry
publishes between commands only; releases have no dependencies of their own (the two modules above
are about those); `Import` and `Resolve` are atomic per package (their insides are
`InstallWithoutLockfile` and `StoreDir`); commands run one at a time, and the user edits or deletes
`package.json`, deletes `pnpm-lock.yaml` or deletes `node_modules` between them.

**Lockfile.** A lockfile is a record of a packages map, the importers, and whether it is
the lockfile of a single project. A dependency path is a record of registry, name, version and
peers; `to_virtual_store_name` drops the registry, as the code does, so that two paths may share a
directory. `WellFormed` is what can be parsed, `Generated` what the generator writes.

**LockfileInstall.** `install` starts a future for every package (`StartInstall`); `fetch` first walks
(`Collect`, one turn of the `while let` each), resolving names with
`resolve_by_specifier`, where the order of a hash map picks among several candidates (`Picks`). A future
goes through the memory cache (`Begin`, `Downloaded`, `Woken`), imports (`Import`, `Imported`;
nothing at all for a directory that exists) and links (`CreateSymlinkLayout`). Importing blocks the
thread, so no other future is polled. An `Err` ends an install and is kept by fetch (`Err`). At the end
`SyncRoots` and `LinkRoots` deal with the direct links. `symlink_package` has the three cases
of the code: nothing there, a link that leads somewhere, and one that dangles, which does not
`exist()`, so that the `AlreadyExists` of the second attempt is swallowed and the old link stays.
`Kill` may come in the middle of the links, between removal and creation; `DeleteModules`
deletes `node_modules`.

**StoreAdd.** `request[e]` is the future of one package and specifier in a `join_all`; `cell[n]`
is the `OnceCell` of a name, filled by the first answer, asked for again by the next in line when a
request fails; `stack` has what the `for` loops of the recursion have left. The store is that of
`LockfileInstall`, whose commands run before and after.

**RegistryAnchor.** Every test is a process: `Load` (a prepared server?), `TryLock` (the lock free
means: I am the first), then either `Spawn` and `Initialize`, or `Lock` and `Join`; on its way out
`Lock`, `Leave`, `StopServer`, `Delete`. A panic drops the lock, as does a kill, which may also
tear the anchor. Deleting a file may fail: the anchor stays, with a warning, after its server was stopped; `end` panics.
`cut` is history: the servers whose anchor was left behind in this way or by a kill. Ports and pids of servers are one number. `Launch`, `Save`, `End` and
`DeletePrepared` are `just registry-mock launch` and `end`.

## 3. The runs

Sizes are TLC's distinct states; every passing run is exhaustive. A type invariant is among the
properties where it says more than types (who holds a lock, which frame is in the map); every module's is
a theorem.

| run | instance | checks | states |
|---|---|---|---|
| `store_concurrent` | two downloaders, two pruners (one worker is both), a checker, all at once; workers die anywhere | `PruneKeepsKnown`, `StatusOkMeansIntact` | 1,282,049 |
| `store_prune_race` | a downloader and a pruner, no faults | `PruneKeepsReferenced` (violated) | |
| `store_faults` | as `store_concurrent`, but prunes apart from downloads | `IndexedFilesBacked`, `RestingStoreComplete`, `PruneLeavesNoOrphan`, `EveryCommandReturns`, `ImplementsPackageStore` | 187,641 |
| `store_two_writers` | two downloaders, nothing else | `ReturnedFilesComplete` (violated) | |
| `cache_calls` | four calls, two urls in one shard, failures | `InProgressIsProcessed`, `NoLostWakeup`, `OneDownloadPerUrl`, `ImplementsSingleFlight`, `CallsReturnUnlessBlocked` | 1,336 |
| `cache_shard` | the same, no failures | `EveryCallReturns` (violated) | |
| `install_runs` | two manifests; kills at any step, imports that fail, wipes between runs, publishing | `TreeLinked`, `ImportedIsComplete`, `SameSpecSameRelease`, `EveryRunEnds`, `ImplementsDependencyClosure` | 221,537 |
| `lockfile_walk` | 256 projects, four group lists | `TypeOK`, `LockfileIsClosed`, `DevMeansOnlyDev`, `RequiredIsJustified`, `RecursionIsSimple` | 5,012 |
| `project_commands` | 16 command lines, two manifests | `LocksSatisfySpecifiers`, `LinksLead`, `InstalledAsDeclared`, `LockedIsInstalled`, `ExecutablesAreOwned`, `OfflineAndFrozenAreReadOnly`, `SavedOnceInstalled` | 1,194,273 |
| `project_frozen` | the same | `FrozenFailsOutOfSync` (violated) | |
| `store_add` | five lockfiles, five command lines, four argument lists | `AddTypeOK`, `AddedIsStored`, `TreeAsLocked`, `FetchesSelected`, `SoundStaysSound`, `EveryCommandEnds`, `ImplementsDependencyClosure` | 348,293 |
| `shared_registry` | three tests at a time, one kill, a prepared server | `TypeOK`, `ServedWhileUsed`, `EveryTestEnds` | 96,006 |

**Why the bounds are enough.**

* *Store*: `t1` has a duplicate entry whose first occurrence is ejected from the index and whose
  mode is 0744; `t2` shares both contents with `t1`, one with another mode. Three workers are a
  writer, another writer of the same content, and a third that prunes or checks; what any of them
  sees of a fourth it also sees of these.
* *Cache*: three calls of one url are an owner, a waiter and a latecomer; the fourth, for
  another url of the same shard, is what can block on that shard.
* *Install*: a cycle `a <-> b` with an optional edge, a `b@2` published later that has `c` as a peer
  dependency, and two manifests, of which the second drops `a` and takes a range of `b`; run after run in either order.
  Three names suffice for a future that waits, one that comes second to a package and one in
  another directory.
* *Lockfile*: every subset of two prod and two optional dependencies with four dev groups, over a
  graph with a cycle, a package with an optional and a required way to it, one that is a
  dependency and a peer in two versions, and one whose dependency cannot be resolved.
* *Project*: two packages, of which the first gets a second release meanwhile; both provide the
  same executable, and the second release no longer does. The commands cover each branch of `Install::run`
  (`lockfile` setting on and off, `--frozen-lockfile`, `--offline`, both, `--prefer-offline`,
  `--lockfile-only`, `--resolution-only`, a subset of the groups), each editing command, and
  `fetch`. There is no bound on how many commands run, are killed, or find the leavings of others: the
  state graph closes by itself.

* *StoreAdd* (with `LockfileInstall`): the lockfile `New` follows `Old` with another release of `b` from another
  registry, a cycle through an optional dependency and a changed group; `Old` has `b` in two variants
  of one tarball, which is what a waiter needs; `Workspace` has two projects and a package in a
  directory; `Broken` has a version that is not in it, a tarball without integrity and an
  optional dependency that does not parse; `Empty` has no packages. The command lines are install of all groups, of the
  production ones offline, of the development ones without optional, and fetch with and without
  `--prod`. `store add` gets a tag, two packages, a release without integrity and a
  specifier that does not parse, over a registry with a cycle, where `b` answers with one of two metadata.
  `LockfilesAgree` evaluates the assumption `Consistent` of the theorems on these lockfiles.
* *Registry anchor*: with three tests one spawns, one waits and one uses the server meanwhile;
  two numbers of servers let one replace the other in the anchor. A number that nothing refers to is
  given to the next server, so no run needs more. `MaxKills` is 1, and every step may be the one;
  a test that has ended is another test.

Two bounds limit behaviour: `MaxKills`, and in `LockfileInstall` that commands on one project run one at
a time. No counter is cut off; the reference count is bounded by the tests that run.

**Deadlock** is checked except where a system stops for good: `GenerateLockfile` and `MemCache` are
one run each.

**Fairness** is weak fairness of the program's own steps, and never of the environment
(kills, edits, publishing):

* `StoreDir`: each worker, because each is a thread or process of its own that waits for nobody.
* `MemCache`: each call, because the executor polls a future that was woken; a thread that is
  blocked on a shard disables the steps of every future, and fairness does not help it.
* `InstallWithoutLockfile`: the run as a whole: tokio polls some future as long as one has been woken,
  and requests are answered; no future is relied on to go before another.
* `StoreAdd`, `LockfileInstall`: each future, the command around them, and `store add`.
* `RegistryAnchor`: each test process, and strong fairness of `Lock`: the kernel gives a file lock to
  one of those that wait, and does not pass one of them over for ever. Nothing is assumed of
  `just registry-mock`, which a developer types, nor that a test is ever started.

## 4. The theorems

Every theorem holds for all values of the constants that satisfy the module's assumptions. The
assumptions are what the code relies on: versions are comparable, `Dependencies` and `Entries`
have their types, no release depends on its own name (`InstallAssumption`), and in
`ProjectAssumption` that releases have no dependencies (a restriction of the model), that
`update` and `fetch` know no peer group, and that add, remove, update and fetch have none of the flags
`--frozen-lockfile`, `--offline`, `--prefer-offline`, `--lockfile-only` and `--resolution-only`
(`add.rs:106`, `remove.rs:72` and `update.rs:130` pass `false` for them).

| theorem | statement | assuming |
|---|---|---|
| `StoreDirProofs!IndexedFilesAreBacked` | `Spec => []IndexedFilesBacked` | `PruneAlone` |
| `StoreDirProofs!RestingStoreIsComplete` | `Spec => []RestingStoreComplete` | |
| `StoreDirProofs!PruneRespectsIndexes` | `Spec => PruneKeepsKnown` | |
| `StoreDirProofs!PruneLeavesOnlyReferenced` | `Spec => PruneLeavesNoOrphan` | `PruneAlone` |
| `StoreDirProofs!StatusIsTruthful` | `Spec => StatusOkMeansIntact` | |
| `StoreDirProofs!StoreIsPackageStore` | `Spec => ImplementsPackageStore` (refinement) | `PruneAlone` |
| `MemCacheProofs!InProgressEntriesAreProcessed` | `Spec => []InProgressIsProcessed` | `~Collects` |
| `MemCacheProofs!WakeupsAreNotLost` | `Spec => []NoLostWakeup` | |
| `MemCacheProofs!DownloadsAreShared` | `Spec => []OneDownloadPerUrl` | |
| `MemCacheProofs!CacheIsSingleFlight` | `Spec => ImplementsSingleFlight` (refinement) | `~Collects` |
| `InstallProofs!NodeModulesLinked` | `Spec => []TreeLinked` | |
| `InstallProofs!PackagesComplete` | `Spec => []ImportedIsComplete` | |
| `InstallProofs!InstallIsDependencyClosure` | `Spec => ImplementsDependencyClosure` (refinement) | |
| `InstallProofs!OneReleasePerSpecifier` | `Spec => []SameSpecSameRelease` | |
| `GenerateLockfileProofs!LockfileClosed` | `Spec => []LockfileIsClosed` | |
| `GenerateLockfileProofs!DevOnlyDev` | `Spec => []DevMeansOnlyDev` | |
| `GenerateLockfileProofs!RequiredJustified` | `Spec => []RequiredIsJustified` | |
| `GenerateLockfileProofs!RecursesOnce` | `Spec => []RecursionIsSimple` | |
| `GenerateLockfileProofs!WritesWhatInstalls` | `Spec => [](outcome = "ok" => WellFormed(l) /\ Generated(l, ..))` of the `l` written | every release has an integrity, as its `.expect` demands |
| `RegistryProofs!SelectsOne` | a specifier selects at most one version | |
| `ProjectProofs!LockfilesAreSound` | `Spec => []LocksSatisfySpecifiers` | |
| `ProjectProofs!LinksAlwaysLead` | `Spec => []LinksLead` | |
| `ProjectProofs!EndsAsDeclared` | `Spec => []InstalledAsDeclared` | |
| `ProjectProofs!EndsAsLocked` | `Spec => []LockedIsInstalled` | |
| `ProjectProofs!EndsWithOwnedExecutables` | `Spec => []ExecutablesAreOwned` | |
| `ProjectProofs!InstalledBeforeSaved` | `Spec => SavedOnceInstalled` | |
| `ProjectProofs!OfflineAndFrozenWriteNothing` | `Spec => OfflineAndFrozenAreReadOnly` | |
| `StoreAddProofs!StoreAddIsTransitive` | `AddSpec => []AddedIsStored` | |
| `StoreAddProofs!FetchTakesTheClosure` | `AddSpec => []FetchesSelected` | `Consistent` |
| `StoreAddProofs!InstallsAsLocked` | `AddSpec => []TreeAsLocked` | `Consistent` |
| `StoreAddProofs!EndsSound` | `AddSpec => []SoundStaysSound` | `Consistent` |
| `StoreAddProofs!GeneratedInstalls` | `AddSpec => [](TreeAsLocked /\ FetchesSelected)`, and `LinksLead /\ DependenciesLinked` after an install that met no dangling link | all lockfiles `Generated` |
| `StoreAddProofs!StoreAddIsDependencyClosure` | `AddSpec => ImplementsDependencyClosure` (refinement) | |
| `StoreAddProofs!AddTypesHold` | `AddSpec => []AddTypeOK` | |
| `RegistryAnchorProofs!NobodyLosesItsServer` | `Spec => []ServedWhileUsed` | |
| `RegistryAnchorProofs!AnchorTypeCorrect`, and `TypeCorrect` in the modules before it but `RegistryProofs` and `StoreAddProofs` | `Spec => []TypeOK` | |

`Consistent` says of the lockfiles a project has over time: snapshots of one directory of the virtual
store, in the same lockfile or another, have one integrity; those of one url in a lockfile too; and no
two paths of a lockfile share a directory. The last excludes paths that differ in their registry only. The
code relies on all three (`create_cas_files.rs:34` looks at the directory only, `tarball/src/lib.rs:168`
at the url only), and a registry that never changes a published tarball grants the first two.
A lockfile that `GenerateLockfile` wrote (`Generated`: no custom registry, no peers, the integrity and
the tarball of the metadata, versions that are in the packages map) needs no such assumption.
`WritesWhatInstalls` proves that what the walk returns is `Generated`, and `GeneratedInstalls` supposes only that two releases with one tarball url have one integrity. What it
does not suppose is that the lockfiles of a project are of one registry state, of the same groups or settings.

`PruneAlone` is necessary where the table names it: without it TLC finds each of these properties violated
in the instance of `store_faults`. So are the exceptions within the formulas, `sound` in `TreeLinked` among them.

The arguments:

* **Store** (`StoreInv`). `IndexedFilesBacked` is not inductive: the next index to be written will
  name the files of all entries before it. The invariant adds that a worker has ensured every
  entry before the current one (`EntriesEnsured`), that the file it has open is still where it was
  created (`OpenFileLinked`), that downloads and prunes exclude each other (`Exclusive`), and that
  a prune knows what the indexes it has read reference, and what all of them reference by the time
  it removes files (`PruneInformed`). All of this survives faults. `EmptyFilesWritten`, that an empty file
  has a writer that is alive or is on the record of those left by a worker that died (`torn`), needs nothing else and no
  `PruneAlone`: `RestingStoreComplete` follows from it alone. For
  `PruneLeavesNoOrphan`, `ScanInv` says that every file is still to be visited or is referenced. `PruneKeepsKnown` and `StatusOkMeansIntact`
  need none of this, since they hold without `PruneAlone`: `LoopsInv` says that an index of the list is still to be
  read or all it references has been seen (`KnownRead`), that a prune is about to remove only what it has not seen
  (`UnseenRemoved`), and that what status has checked is full or was pruned since (`CheckedIntact`). The
  refinement maps each step that creates a file, writes an index, returns, or removes a file to one of
  `PackageStore`; that the returned paths exist is `HeldSatisfied`, and that a removed file is nobody's
  is `PruneInformed` again.
* **Cache** (`CacheInv`). Which entry of its url each suspended future may find
  (`SuspendedWhereAllowed`), at most one owner per url (`OneOwner`), and, if callers unwrap, an
  owner for every entry in progress (`EntryOwned`). The refinement uses it to show that every step
  that changes `cache` is one of `SingleFlight`, and every other one a stutter or a join.
* **Install** (`WorkInv`, `LinkInv`, `ImportInv`, `CellInv`). `TreeLinked` speaks of a run that has ended. While it goes on,
  every package that was begun is either complete or awaited by the one future that began it
  (`Awaited`), begun packages and futures match (`FuturesBelong`, `FuturesBegun`), links lead to
  what was resolved (`LinksMade`), and futures never await each other in a circle
  (`NoWaitCycle`, said of sets of futures, so that no induction is needed): hence when the direct
  dependencies are done, everything is. That part, `WorkInv`, holds of every run; `LinkInv` adds the
  links, of runs that began with no link that dangles (`sound`): then `symlink_package` always makes the link it is asked for. `ImportInv`: a directory that lacks files lacked them when the run
  started (`found`), or is being filled by the one future that blocks the thread; a kill or a failed import ends the run. `CellInv`: what a future resolved is what its cell
  selects, and a cell holds one answer. The refinement takes from `CellInv` that an edge, once settled, stays
  so, and from `WorkInv` that whatever is begun is needed and that everything needed is begun at the end.
* **Lockfile** (`ClosedInv`, `DevInv`, `RequiredInv`). A package in the map either has its
  dependencies recorded, or a frame on the stack still has them to do; cycles need no more. That
  nothing else is recorded is said with closed sets, as `Reachable` is: the map lies within every
  closed set that has the roots. The flags are treated in the same way.
  `RecursesOnce` needs only the type invariant: the package of a frame is in the map, and a frame is pushed for one that is not.
  `NamedInv` makes the result `Generated`: links under a name lead to one release of that name, which is in the map.
* **Project** (`ProjectInv`). Every plan lists its phases in one order (`Rank`), so that the set
  `Left` of phases that remain determines where the command is, and `Continue` takes
  the least one off. `Rules` says which sets may remain: `import` before `link`, `truncate_lock`
  before `write_lock`, `generate` with both, nothing after `unlink` but what links again. Over
  that, `VirtualInv` says what is imported by when, `LinkInv` what the phases that are over have
  achieved in `node_modules`, `SavedInv` what they have written, `BinInv` whom executables belong to. All
  of it is vacuous for a process that has ended, and nothing of it is assumed of what a command
  finds: a kill at any step establishes it again. `QuietInv` adds that no phase which writes a
  lockfile is left under `--offline` and `--frozen-lockfile`.

* **StoreAdd** (`AddInv`). The recursion is a depth-first search: what a stored release depends on
  is stored or left in a loop of the stack (`Covered`), what is stored or left is wanted (`Reached`),
  and a cell is set once, so that what a specifier stands for does not change (`CellsSetOnce`). Cycles need
  no case of their own, since the release in hand is the only one whose dependencies are not covered. The
  refinement reads the same facts as steps. The types hold of inconsistent lockfiles as well: only `fetch` needs a
  fact to have them, that what it visits is in the packages map (`LockTypes`).
* **LockfileInstall** (`LockInv`). Directories and cached files come from some supported snapshot
  (`Filled`, `FilesCached`), each future has done what its position says (`Progress`), install has
  a future for every package and none that failed (`AllInstalled`), fetch one for each it selected
  (`AllFetched`). The walk: a dependency of what was visited has been visited or is on the stack
  (`Walked`), and so are no others: all of it lies in every closed set that has the roots. For the links,
  `LinksSound`: in a command that started without dangling links, a link that dangles is one that
  the command itself has made, in a directory it will not link again, to what the lockfile asks for there
  (`LinkOf`). When all packages are imported such a link leads somewhere, if the lockfile has the package
  (`Whole`): hence `SoundStaysSound`, which makes `run.sound` hold of every install that follows only such ones.
* **RegistryAnchor** (`AnchorInv`). The holder of the lock is the only process that looks at the
  anchor (`Sole`). The tests an anchor counts are at most its count (`Counting`); a server that is being
  stopped has only its last user (`Stopping`); no number is given to two servers that anything
  refers to (`Apart`, `Bound`); and a counted test has a server that runs (`Serving`).

Model-checked only: all liveness (`EveryCommandReturns`, `CallsReturnUnlessBlocked`,
`EveryRunEnds`, `EveryCommandEnds`, `EveryTestEnds`), since fairness and `ENABLED` are beyond the
prover. Every other property of a passing run is a theorem. The least of a set of names, which
`EndsWithOwnedExecutables` needs, comes from the library's fact that `<` is well-founded on the naturals; no
induction over data is used.

## 5. Where code and documentation disagree

Four runs end in a violation. Each checks one sentence of the repository against what the code does.

* `store_two_writers` — `ensure_file` returns at once when the file exists (`fs/src/ensure_file.rs:40`),
  also when another worker has just opened it and not written it. Two tarballs that share a file,
  extracted at once, give one of the downloads a path to an empty file.
* `store_prune_race` — `prune` collects the references of all indexes (`store-dir/src/prune.rs:47`) and then
  lists the files (line 48), and no lock keeps other processes out. A download that writes its files
  and its index between the two has the files removed under the index, although the doc comment at
  `prune.rs:45` says that referenced files stay. Later installs load that index and fail at the missing
  files. What does hold is `PruneKeepsKnown`; the rest of what the store promises (`IndexedFilesBacked`, `PruneLeavesNoOrphan`,
  `ImplementsPackageStore`) holds if those who use the store run no prune during a download (`PruneAlone`).
* `cache_shard` — the guard of `mem_cache.get` is held across `notified().await`
  (`tarball/src/lib.rs:168`). An insert for another url of that shard blocks the thread that has to
  complete the download; nothing returns any more.
* `project_frozen` — with `lockfile=false`, the default, `--frozen-lockfile` is not looked at
  (`install.rs:181`), and together with `--offline` the lockfile is not compared (`install.rs:164`).

Further behaviour that the models show and that the properties except by name:

* A command that finds no `package.json` creates one (`state.rs:50`, `package-manifest/src/lib.rs:133`), also with
  `--offline` or `--frozen-lockfile`, and before it can fail; `OfflineAndFrozenAreReadOnly` and
  `SavedOnceInstalled` speak of a `package.json` that is there, or has been created. A process that dies inside the `fs::write` leaves an empty
  file that no later command parses.
* `create_cas_files` takes a directory that exists for an imported package (`create_cas_files.rs:34`). An
  import that fails half-way (`create_cas_files.rs:59`), or a kill, leaves a partial one, and every later
  install reports success: `TreeComplete`, which is what the doc comment at `install_without_lockfile.rs:26`
  promises, fails in the instance of `install_runs`. `ImportedIsComplete` is what holds.
* When the virtual store is deleted, a link into it dangles and is kept, also by an install that wants
  another release: `TreeLinked` excepts the runs that began so (`sound`).
* `RegistryAnchor::delete` goes on when `remove_file` fails (`registry_anchor.rs:101`): the anchor names a server
  that has been stopped, and a test that waited for the lock joins it. `ServedWhileUsed` excepts the servers
  of anchors left behind (`cut`). `PreparedRegistryInfo::delete` panics in the same case.
* A package met again by the generator has its own flags merged, not those of the packages below it
  (`generate_lockfile.rs:170`). Whether these are `optional: true` depends on a hash map's
  order: `OptionalMeansOnlyOptional` fails in the instance of `lockfile_walk`.
* A link made to a package that is not imported dangles and is never replaced, even when the lockfile
  changes (`symlink_package.rs:53`): `DependenciesLinked` fails in `store_add` (an alias is
  enough), and `TreeAsLocked` speaks only of commands that met no dangling link (`run.sound`). It is
  true of lockfiles that are generated, when the install met no dangling link (`GeneratedInstalls`).
* `fetch` goes on after an error (`fetch.rs:88`) while the failed download leaves its entry in
  progress (`tarball/src/lib.rs:192`): the future of a second snapshot of that tarball waits for ever.
  `EveryCommandEnds` excepts it (`Abandoned`).
* A test that gets the lock of the mocked registry at once spawns a server, also when one is running
  (`registry_anchor.rs:77`); the anchor then names the new one, and nobody stops the old one when
  its users have left. The comment at `registry_anchor.rs:14` expects one server for all. A test that
  waited for the lock panics when the last user has deleted the anchor meanwhile (`registry_anchor.rs:93`).
* One value of `.npmrc` that does not parse discards the whole file silently (`npmrc/src/lib.rs:224`).

Divergences that were read and need no run:

* `cli/README.md:99` says that prune "removes all packages inside the directory", and the help text at
  `cli/src/cli_args/store.rs:17` that it removes packages "not used by any projects". The code
  does neither: it removes files that no index references, and never an index, so that it removes no package at all. The
  models and the properties about prune follow the code and its own doc comment.
* The comment at `symlink_package.rs:39` says a symlink path that
  exists is skipped, while the code replaces a link that leads elsewhere, which
  `InstalledAsDeclared` depends on (`SeededKeepLink` is the behaviour of the comment).

## 6. What is not modelled

* **Settings** other than `lockfile` and `prefer-frozen-lockfile`: paths, the registry, hoisting and the
  rest of `npmrc` are constants of the models or unused by the code that is modelled. CLI parsing
  and tracing (`cli`, `diagnostics`) keep no state.
* **The network semaphore** (`network/src/lib.rs:23`): a request is an answer or a failure, in any
  order; the permit is released before the body is read, and nothing depends on how many run at once.
* **A torn metadata file** (`registry_metadata_cache.rs:60`): it is written in one step in the models. What
  `ensure_file` does to a file, `StoreDir` has.
* **`run`, `test`, `start`, `exec`** (`executor`): a child process, no state.
* **Formats**: package names, integrities, semver ranges, YAML and JSON, virtual store names. Conversions
  keep what the models tell apart.
* **Lockfiles with several projects**: install panics, which is modelled; fetch walks all of them.
* **Two commands on one project at once**, and edits of `package.json` during a command: nothing in the
  code protects against either. Processes that share the *store* are modelled.
* **`.bin` inside the virtual store**, and which of reflink, hard link and copy `link_file` tries.
* **`init`**, which writes a file if there is none, and the benchmark tasks.

What is partly covered is listed, with what is missing, under "components" in
`PROJECT.json`.

## 7. Plan

Done: `Registry`, `StoreDir` over `PackageStore`, `MemCache` over `SingleFlight`,
`InstallWithoutLockfile` and `StoreAdd` over `DependencyClosure`, `GenerateLockfile`, `Project`, `LockfileInstall`,
`RegistryAnchor`, and proofs about each. They came in this order because the store and the install carry the
program's concurrency, and the commands compose what the others promise.

Next, most important first:

1. **Abstract specifications** for the two that have none: an atomic `install` that `Project` implements,
   whose one step takes `node_modules` from anything to what `package.json` declares; a server that lives as
   long as somebody uses it, for `RegistryAnchor`.
2. **Torn metadata files** under `--prefer-offline`, and `.bin` inside the virtual store.
