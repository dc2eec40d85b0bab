------------------------------ MODULE Project ------------------------------
(***************************************************************************)
(* The commands that work on a project: `pacquet install`, `add`, `remove`, *)
(* `update` and `fetch`, from State::init over Install::run's choice of a   *)
(* way to install down to the files they leave: package.json,               *)
(* pnpm-lock.yaml, the direct links of node_modules and node_modules/.bin.  *)
(*                                                                          *)
(* What makes it hard: four files change one after the other, a command may *)
(* be killed or fail between any two writes, and the next command, with     *)
(* other flags, groups and settings, starts from what it finds.             *)
(*                                                                          *)
(* A command reads each package's metadata once (its RegistryMetadataCache),*)
(* so the registry may as well publish between commands only.  Releases     *)
(* declare no dependencies here: what is below the direct ones is the       *)
(* subject of GenerateLockfile and InstallWithoutLockfile, what is inside   *)
(* the store that of StoreDir.                                              *)
(*                                                                          *)
(* Operators named Seeded... are defects to try the properties on.          *)
(***************************************************************************)
EXTENDS Registry, Sequences

CONSTANTS
  Commands,   \* the command lines, each with the .npmrc settings it runs under
  NoCommand,  \* none runs, or the last one failed
  Manifests,  \* what the user writes into package.json
  Later,      \* the releases that are not published yet when all begins
  Caret,      \* Caret[v]: the versions in ^v
  Executables,\* names of executables
  Provides    \* Provides[r]: the names in the bin field of release r

Groups == {"prod", "dev", "optional", "peer"}
LockGroups == Groups \ {"peer"}

\* A dependency in package.json, and one in the importer of pnpm-lock.yaml.
Entries == [group: Groups, name: Names, spec: Specifiers]
Locks == [group: LockGroups, name: Names, spec: Specifiers, version: Versions]

\* The settings of .npmrc that decide how to install, those that are on by default,
\* and the files: what is neither true nor false does not parse.
Settings == {"lockfile", "prefer_frozen_lockfile"}
Defaults == {"prefer_frozen_lockfile"}
Npmrcs == UNION {[K -> {"true", "false", "other"}] : K \in SUBSET Settings}

Switches == Settings \cup {"frozen_lockfile", "offline", "prefer_offline", "lockfile_only",
                          "resolution_only", "latest", "save_exact"}

\* packages: the names on the command line, each with a specifier or, {}, without.
CommandLines ==
  [cmd: {"install", "add", "remove", "update", "fetch"}, groups: SUBSET Groups,
   flags: SUBSET Switches, packages: SUBSET [name: Names, spec: {{}} \cup {{s} : s \in Specifiers}]]

\* The settings of the .npmrc in a directory; {} if there is none, or one does not parse.
load_npmrc(dir) ==
  {{s \in Settings : IF s \in DOMAIN f THEN f[s] = "true" ELSE s \in Defaults} :
     f \in {g \in dir : \A s \in DOMAIN g : g[s] # "other"}}

\* Npmrc::current: those of the project, or else of the user, or else the defaults;
\* they are not merged.
current(project_dir, home_dir) ==
  IF load_npmrc(project_dir) # {} THEN UNION load_npmrc(project_dir)
  ELSE IF load_npmrc(home_dir) # {} THEN UNION load_npmrc(home_dir)
  ELSE Defaults

\* The dependency groups that the flags of a subcommand select.
add_groups(save) ==
  {g \in Groups : \/ g \in save
                  \/ g = "prod" /\ save = {}
                  \/ g = "dev" /\ save = {"peer"}}

remove_groups(save) == IF save = {} THEN Groups ELSE save

update_groups(prod, dev, no_optional) ==
  {g \in LockGroups : \/ g = "prod" /\ (prod = dev \/ prod)
                      \/ g = "dev" /\ (prod = dev \/ dev)
                      \/ g = "optional" /\ ~no_optional}

ASSUME ProjectAssumption ==
  /\ Names \subseteq Nat
  /\ \A r \in Releases : Dependencies[r] = {}
  /\ Commands \subseteq CommandLines /\ NoCommand \notin Commands
  /\ \A c \in Commands :
       /\ c.cmd \in {"update", "fetch"} => "peer" \notin c.groups
       /\ c.cmd # "install" => c.flags \cap {"frozen_lockfile", "offline", "prefer_offline",
                                            "lockfile_only", "resolution_only"} = {}
  /\ Manifests \subseteq SUBSET Entries
  /\ Later \subseteq Releases
  /\ Caret \in [Versions -> SUBSET Versions]
  /\ Provides \in [Releases -> SUBSET Executables]

\* What their flags and the .npmrc files come to; a package is named once.
ASSUME CommandLineAssumption ==
  \A c \in Commands :
    /\ c.flags \cap Settings \in {current(p, h) : p, h \in {{}} \cup {{f} : f \in Npmrcs}}
    /\ c.cmd = "add" => c.groups \in {add_groups(save) : save \in SUBSET Groups}
    /\ c.cmd = "remove" => c.groups \in {remove_groups(save) : save \in SUBSET LockGroups}
    /\ c.cmd \in {"install", "update"} =>
         c.groups \in {update_groups(prod, dev, no) : prod, dev, no \in BOOLEAN}
    /\ \A p, q \in c.packages : p.name = q.name => p = q

VARIABLES
  registry,      \* registry[n]: the metadata the registry serves
  saved,         \* saved[n]: metadata file in the store directory, {} or a singleton
  store,         \* releases with an index file in the store
  package_json,  \* its dependencies: a set of Entries
  missing,       \* there is no package.json (then package_json = {})
  pnpm_lock,     \* its importer: {} if there is no file, else a singleton
  torn,          \* which of the two files are truncated and not yet written
  virtual,       \* releases in node_modules/.pacquet
  link,          \* link[n]: the release node_modules/n points to, in a set
  bin,           \* bin[x]: the package node_modules/.bin/x runs, in a set
  args,          \* the command that runs, or that ended well
  manifest,      \* its package.json, edited in memory
  lockfile,      \* its Option<&Lockfile>: {} or a singleton
  steps,         \* what it has still to do, <<>> once it has ended
  done           \* the packages or dependencies the current step has dealt with

world == <<registry, saved, store>>
files == <<package_json, missing, pnpm_lock, torn>>
modules == <<virtual, link, bin>>
memory == <<args, manifest, lockfile, steps, done>>
vars == <<world, files, modules, memory>>

Running == steps # <<>>
Succeeded == ~Running /\ args # NoCommand
At(s) == Running /\ Head(steps) = s
Flag(f) == f \in args.flags

Declared(l) == [group |-> l.group, name |-> l.name, spec |-> l.spec]
Locked(l) == [name |-> l.name, version |-> l.version]

\* PackageManifest::dependencies and ProjectSnapshot::dependencies_by_groups.
InGroups(entries, groups) == {e \in entries : e.group \in groups}

FirstMetadata(n) ==
  LET versions == {v \in VersionsOf(n) : [name |-> n, version |-> v] \notin Later}
  IN  [versions |-> versions, latest |-> {v \in versions : \A w \in versions : w <= v}]

Init ==
  /\ registry = [n \in Names |-> FirstMetadata(n)]
  /\ saved = [n \in Names |-> {}] /\ store = {}
  /\ package_json \in Manifests /\ missing = FALSE /\ pnpm_lock = {} /\ torn = {}
  /\ virtual = {} /\ link = [n \in Names |-> {}] /\ bin = [x \in Executables |-> {}]
  /\ args = NoCommand /\ manifest = {} /\ lockfile = {} /\ steps = <<>> /\ done = {}

\* The process ends, by a panic, an error or a signal.
Fail == args' = NoCommand /\ manifest' = {} /\ lockfile' = {} /\ steps' = <<>> /\ done' = {}

\* The step is done; those in s come before the rest.
Continue(s) == steps' = s \o Tail(steps) /\ done' = {} /\ UNCHANGED args

-----------------------------------------------------------------------------
(* State::init, and what the subcommands add to it.                         *)

\* State::init reads pnpm-lock.yaml if the lockfile setting says so, InstallArgs
\* with some flags, FetchArgs always.
ReadsLockfile(c) ==
  \/ c.cmd = "fetch" \/ "lockfile" \in c.flags
  \/ c.cmd = "install" /\ c.flags \cap {"offline", "frozen_lockfile", "lockfile_only"} # {}

\* An empty file is neither JSON nor a lockfile.
Readable(c) ==
  /\ c.cmd # "fetch" => "package.json" \notin torn
  /\ ReadsLockfile(c) => "pnpm-lock.yaml" \notin torn

\* Remove and Update pass lockfile: None to Install.
UsesLockfile(c) == ReadsLockfile(c) /\ c.cmd \in {"install", "add", "fetch"}

SeededSaveFirst(c) ==
  CASE c.cmd = "fetch"   -> <<"fetch">>
    [] c.cmd = "install" -> <<"decide">>
    [] OTHER             -> <<"edit", "truncate", "save", "decide">>

StepsOf(c) ==
  CASE c.cmd = "fetch"   -> <<"fetch">>
    [] c.cmd = "install" -> <<"decide">>
    [] OTHER             -> <<"edit", "decide", "truncate", "save">>

\* The Option<&Lockfile> of Install and Fetch.
LockfileFor(c) == IF UsesLockfile(c) THEN pnpm_lock ELSE {}

\* PackageManifest::create_if_needed: a missing package.json is created, whatever the
\* flags, with a template that declares no dependencies.  fs::write first creates an
\* empty file.
Start(c) ==
  /\ ~Running
  /\ \/ /\ missing /\ c.cmd # "fetch"
        /\ missing' = FALSE /\ torn' = torn \cup {"package.json"}
        /\ args' = c /\ done' = {} /\ manifest' = package_json /\ lockfile' = {}
        /\ steps' = <<"template">> \o StepsOf(c)
     \/ /\ ~missing \/ c.cmd = "fetch"
        /\ IF Readable(c)
           THEN /\ args' = c /\ done' = {} /\ lockfile' = LockfileFor(c)
                /\ manifest' = IF c.cmd = "fetch" THEN {} ELSE package_json
                /\ steps' = StepsOf(c)
           ELSE Fail
        /\ UNCHANGED <<missing, torn>>
  /\ UNCHANGED <<world, package_json, pnpm_lock, modules>>

\* The template is written; then pnpm-lock.yaml is read.
WriteTemplate ==
  /\ At("template")
  /\ torn' = torn \ {"package.json"}
  /\ IF ReadsLockfile(args) => "pnpm-lock.yaml" \notin torn
     THEN lockfile' = LockfileFor(args) /\ Continue(<<>>) /\ UNCHANGED manifest
     ELSE Fail
  /\ UNCHANGED <<world, package_json, missing, pnpm_lock, modules>>

-----------------------------------------------------------------------------
(* Resolution.                                                              *)

\* fetch_package_metadata; a fetched answer is also written to the store directory,
\* unless a file is there.
Metadatum(n) ==
  IF Flag("prefer_offline") /\ saved[n] # {} THEN saved[n] ELSE {registry[n]}

Save(names) ==
  saved' = [n \in Names |-> IF n \in names /\ saved[n] = {} THEN {registry[n]} ELSE saved[n]]

SeededNewest(n, s) == UNION {m.latest : m \in Metadatum(n)}

\* The version the specifier selects, in a set.
Selected(n, s) == UNION {version_by_specifier(m, s) : m \in Metadatum(n)}

Latest == [kind |-> "latest", set |-> {}]

\* PackageVersion::serialize(save_exact).
Serialize(v, exact) ==
  IF exact THEN [kind |-> "version", set |-> {v}] ELSE [kind |-> "range", set |-> Caret[v]]

-----------------------------------------------------------------------------
(* Add, Remove and Update edit the manifest in memory.                      *)

NamedPackages == {p.name : p \in args.packages}

\* The version range Add writes for p, in a set.
AddedSpec(p) ==
  IF p.spec # {} THEN p.spec
  ELSE {Serialize(v, Flag("save_exact")) : v \in Selected(p.name, Latest)}

\* PackageManifest::add_dependency, of several: a name has one specifier in a group.
add_dependency(m, entries) ==
  {e \in m : \A x \in entries : <<x.group, x.name>> # <<e.group, e.name>>} \cup entries

\* PackageManifest::remove_dependency, of several.
remove_dependency(m, groups, names) == {e \in m : ~(e.group \in groups /\ e.name \in names)}

\* Every group of the command gets each of the packages.
Add ==
  /\ At("edit") /\ args.cmd = "add"
  /\ Save({p.name : p \in {q \in args.packages : q.spec = {}}})
  /\ IF \A p \in args.packages : AddedSpec(p) # {}
     THEN /\ manifest' = add_dependency(manifest,
               UNION {{[group |-> g, name |-> p.name, spec |-> s] :
                         g \in args.groups, s \in AddedSpec(p)} : p \in args.packages})
          /\ Continue(<<>>) /\ UNCHANGED lockfile
     ELSE Fail
  /\ UNCHANGED <<registry, store, files, modules>>

Remove ==
  /\ At("edit") /\ args.cmd = "remove"
  /\ manifest' = remove_dependency(manifest, args.groups, NamedPackages)
  /\ Continue(<<>>)
  /\ UNCHANGED <<world, files, modules, lockfile>>

\* The entries Update looks at, and what it makes of one: a set, {} on an error.
Targets ==
  {e \in InGroups(manifest, args.groups) : args.packages # {} => e.name \in NamedPackages}

UpdatedSpec(e) ==
  IF Flag("latest")
  THEN {Serialize(v, e.spec.kind = "version") : v \in Selected(e.name, Latest)}
  ELSE LET asked == UNION {p.spec : p \in {q \in args.packages : q.name = e.name}}
       IN  IF asked = {} THEN {e.spec} ELSE asked

Update ==
  /\ At("edit") /\ args.cmd = "update"
  /\ IF NamedPackages \subseteq {e.name : e \in Targets}
     THEN /\ Save(IF Flag("latest") THEN {e.name : e \in Targets} ELSE {})
          /\ IF \A e \in Targets : UpdatedSpec(e) # {}
             THEN /\ manifest' = add_dependency(manifest,
                        UNION {{[e EXCEPT !.spec = s] : s \in UpdatedSpec(e)} : e \in Targets})
                  /\ Continue(<<>>) /\ UNCHANGED lockfile
             ELSE Fail
     ELSE Fail /\ UNCHANGED saved
  /\ UNCHANGED <<registry, store, files, modules>>

-----------------------------------------------------------------------------
(* Install::run chooses how to install.                                     *)

InstallGroups == IF args.cmd = "remove" THEN LockGroups ELSE args.groups

SeededNamesOnly(m, l, groups) ==
  \A g \in groups : {e.name : e \in InGroups(m, {g})} = {k.name : k \in InGroups(l, {g})}

\* lockfile_matches_manifest: in each group the same names with the same specifiers;
\* get_map_by_group has nothing for the peers.
lockfile_matches_manifest(m, l, groups) ==
  \A g \in groups : InGroups(m, {g}) = {Declared(k) : k \in InGroups(l, {g})}

InSync == \E l \in lockfile : lockfile_matches_manifest(manifest, l, InstallGroups)

GenerateAndSave == <<"generate", "truncate_lock", "write_lock">>

SeededLinkFirst == <<"unlink", "link", "import">>

\* InstallFrozenLockfile::run: CreateVirtualStore, then SymlinkDirectDependencies.
InstallFrozenLockfile == <<"import", "unlink", "link">>

\* InstallWithoutLockfile::run.
InstallWithoutLockfile == <<"resolve", "unlink">>

CreateBins == <<"remove_bins", "create_bins">>

OnlyLockfile == Flag("lockfile_only") \/ Flag("resolution_only")

LockfileOnly ==
  /\ At("decide") /\ OnlyLockfile
  /\ \/ /\ Flag("frozen_lockfile") \/ Flag("offline")
        /\ Fail
     \/ /\ ~Flag("frozen_lockfile") /\ ~Flag("offline")
        /\ ~Flag("resolution_only") /\ InSync
        /\ Continue(<<>>) /\ UNCHANGED <<manifest, lockfile>>
     \/ /\ ~Flag("frozen_lockfile") /\ ~Flag("offline")
        /\ Flag("resolution_only") \/ ~InSync
        /\ Continue(GenerateAndSave) /\ UNCHANGED <<manifest, lockfile>>
  /\ UNCHANGED <<world, files, modules>>

SeededOfflineResolves ==
  /\ At("decide") /\ ~OnlyLockfile /\ Flag("offline")
  /\ Continue((IF InSync THEN <<>> ELSE GenerateAndSave) \o InstallFrozenLockfile \o CreateBins)
  /\ UNCHANGED <<world, files, modules, manifest, lockfile>>

OfflineInstall ==
  /\ At("decide") /\ ~OnlyLockfile /\ Flag("offline")
  /\ \/ /\ lockfile # {} /\ (Flag("frozen_lockfile") \/ InSync)
        /\ Continue(InstallFrozenLockfile \o CreateBins) /\ UNCHANGED <<manifest, lockfile>>
     \/ /\ lockfile = {} \/ ~(Flag("frozen_lockfile") \/ InSync)
        /\ Fail
  /\ UNCHANGED <<world, files, modules>>

\* Without the lockfile setting, --frozen-lockfile is not looked at.
OnlineInstall ==
  /\ At("decide") /\ ~OnlyLockfile /\ ~Flag("offline")
  /\ \/ /\ ~Flag("lockfile")
        /\ Continue(InstallWithoutLockfile \o CreateBins) /\ UNCHANGED <<manifest, lockfile>>
     \/ /\ Flag("lockfile") /\ Flag("frozen_lockfile") /\ ~InSync
        /\ Fail
     \/ /\ Flag("lockfile") /\ InSync
        /\ Flag("frozen_lockfile") \/ Flag("prefer_frozen_lockfile")
        /\ Continue(InstallFrozenLockfile \o CreateBins) /\ UNCHANGED <<manifest, lockfile>>
     \/ /\ Flag("lockfile") /\ ~Flag("frozen_lockfile")
        /\ ~(InSync /\ Flag("prefer_frozen_lockfile"))
        /\ Continue(GenerateAndSave \o InstallFrozenLockfile \o CreateBins)
        /\ UNCHANGED <<manifest, lockfile>>
  /\ UNCHANGED <<world, files, modules>>

-----------------------------------------------------------------------------
(* GenerateLockfile and Lockfile::save_to_dir.                              *)

Direct == InGroups(manifest, InstallGroups)

\* build_root_group is called for three groups; there are no peers in a lockfile.
Roots == InGroups(Direct, LockGroups)

\* An error stops the walk where it is.
Generate ==
  /\ At("generate")
  /\ LET failing == {e \in Roots : Selected(e.name, e.spec) = {}}
         locks == UNION {{[group |-> e.group, name |-> e.name, spec |-> e.spec, version |-> v] :
                            v \in Selected(e.name, e.spec)} : e \in Roots}
     IN  \/ /\ failing = {}
            /\ Save({e.name : e \in Roots})
            /\ lockfile' = {locks} /\ Continue(<<>>) /\ UNCHANGED manifest
         \/ /\ \E walked \in SUBSET (Roots \ failing), e \in failing :
                 Save({x.name : x \in walked \cup {e}})
            /\ Fail
  /\ UNCHANGED <<registry, store, files, modules>>

\* fs::write truncates the file, then writes it.
TruncateLockfile ==
  /\ At("truncate_lock")
  /\ pnpm_lock' = {} /\ torn' = torn \cup {"pnpm-lock.yaml"}
  /\ Continue(<<>>)
  /\ UNCHANGED <<world, package_json, missing, modules, manifest, lockfile>>

WriteLockfile ==
  /\ At("write_lock")
  /\ pnpm_lock' = lockfile /\ torn' = torn \ {"pnpm-lock.yaml"}
  /\ Continue(<<>>)
  /\ UNCHANGED <<world, package_json, missing, modules, manifest, lockfile>>

-----------------------------------------------------------------------------
(* Packages and links.                                                      *)

Did(x) == done' = done \cup {x} /\ UNCHANGED <<args, steps>>

Packages(groups) == UNION {{Locked(k) : k \in InGroups(l, groups)} : l \in lockfile}

\* FetchArgs and Fetch::run fail without a lockfile, and with an empty one, whose
\* packages are None.
Fetch ==
  /\ At("fetch")
  /\ IF Packages(LockGroups) # {}
     THEN Continue(<<"import">>) /\ UNCHANGED <<manifest, lockfile>>
     ELSE Fail
  /\ UNCHANGED <<world, files, modules>>

\* CreateVirtualStore takes all of packages, Fetch what its groups need.
Wanted == Packages(IF args.cmd = "fetch" THEN args.groups ELSE LockGroups)

\* InstallPackageBySnapshot: offline, a package that is not in the store is an error.
Import ==
  /\ At("import")
  /\ \E r \in Wanted \ done :
       \/ /\ Flag("offline") => r \in store
          /\ store' = store \cup {r} /\ virtual' = virtual \cup {r}
          /\ Did(r) /\ UNCHANGED <<manifest, lockfile>>
       \/ /\ Flag("offline") /\ r \notin store
          /\ Fail /\ UNCHANGED <<store, virtual>>
  /\ UNCHANGED <<registry, saved, files, link, bin>>

\* CreateVirtualStore has nothing but todo!() for packages: None.
Imported ==
  /\ At("import") /\ Wanted \subseteq done
  /\ IF Packages(LockGroups) = {} THEN Fail ELSE Continue(<<>>) /\ UNCHANGED <<manifest, lockfile>>
  /\ UNCHANGED <<world, files, modules>>

SeededKeepLink(r) == link' = [link EXCEPT ![r.name] = IF @ = {} THEN {r} ELSE @]

\* symlink_package: what it points to exists, so a link to another release goes.
symlink_package(r) == link' = [link EXCEPT ![r.name] = {r}]

\* SymlinkDirectDependencies, one link.
Link ==
  /\ At("link")
  /\ \E l \in lockfile : \E k \in InGroups(l, InstallGroups) \ done :
       symlink_package(Locked(k)) /\ Did(k)
  /\ UNCHANGED <<world, files, virtual, bin, manifest, lockfile>>

\* InstallPackageFromRegistry, one direct dependency.
Resolve ==
  /\ At("resolve")
  /\ \E e \in Direct \ done :
       /\ Save({e.name})
       /\ \/ \E v \in Selected(e.name, e.spec) :
               LET r == [name |-> e.name, version |-> v] IN
               /\ store' = store \cup {r} /\ virtual' = virtual \cup {r}
               /\ symlink_package(r) /\ Did(e) /\ UNCHANGED <<manifest, lockfile>>
          \/ Selected(e.name, e.spec) = {} /\ Fail /\ UNCHANGED <<store, virtual, link>>
  /\ UNCHANGED <<registry, files, bin>>

\* The names sync_direct_dependency_links keeps.
Desired ==
  {e.name : e \in IF Flag("lockfile") \/ Flag("offline")
                  THEN UNION {InGroups(l, InstallGroups) : l \in lockfile} ELSE Direct}

Stale == {n \in Names : link[n] # {}} \ Desired

\* sync_direct_dependency_links, one entry.
Unlink ==
  /\ At("unlink")
  /\ \E n \in Stale : link' = [link EXCEPT ![n] = {}]
  /\ UNCHANGED <<world, files, virtual, bin, memory>>

Linked ==
  /\ \/ At("link") /\ \A l \in lockfile : InGroups(l, InstallGroups) \subseteq done
     \/ At("resolve") /\ Direct \subseteq done
     \/ At("unlink") /\ Stale = {}
  /\ Continue(<<>>)
  /\ UNCHANGED <<world, files, modules, manifest, lockfile>>

-----------------------------------------------------------------------------
(* CreateBins on node_modules, and PackageManifest::save.                   *)

RemoveBins ==
  /\ At("remove_bins")
  /\ bin' = [x \in Executables |-> {}]
  /\ Continue(<<>>)
  /\ UNCHANGED <<world, files, virtual, link, manifest, lockfile>>

Providers(x) == {n \in Names : \E r \in link[n] : x \in Provides[r]}

SeededLastWins(x) == {n \in Providers(x) : \A m \in Providers(x) : m <= n}

\* entry(bin_name).or_insert_with: the first package in the order of names has it.
Owner(x) == {n \in Providers(x) : \A m \in Providers(x) : n <= m}

CreateBinLinks ==
  /\ At("create_bins")
  /\ bin' = [x \in Executables |-> Owner(x)]
  /\ Continue(<<>>)
  /\ UNCHANGED <<world, files, virtual, link, manifest, lockfile>>

\* File::create, then write_all.
TruncateManifest ==
  /\ At("truncate")
  /\ package_json' = {} /\ torn' = torn \cup {"package.json"}
  /\ Continue(<<>>)
  /\ UNCHANGED <<world, missing, pnpm_lock, modules, manifest, lockfile>>

WriteManifest ==
  /\ At("save")
  /\ package_json' = manifest /\ torn' = torn \ {"package.json"}
  /\ Continue(<<>>)
  /\ UNCHANGED <<world, missing, pnpm_lock, modules, manifest, lockfile>>

-----------------------------------------------------------------------------
(* The environment.                                                         *)

\* A signal, or a request or a write that fails; between the two calls of
\* symlink_package that replace a link, the link is lost.
Kill ==
  /\ Running
  /\ Fail
  /\ \/ UNCHANGED link
     \/ /\ At("link") \/ At("resolve")
        /\ \E n \in Desired : link' = [link EXCEPT ![n] = {}]
  /\ UNCHANGED <<world, files, virtual, bin>>

\* The user, between commands: edits package.json, deletes it, deletes pnpm-lock.yaml,
\* or deletes node_modules.
EditManifest ==
  /\ ~Running /\ Fail
  /\ package_json' \in Manifests /\ missing' = FALSE /\ torn' = torn \ {"package.json"}
  /\ UNCHANGED <<world, pnpm_lock, modules>>

DeleteManifest ==
  /\ ~Running /\ Fail
  /\ package_json' = {} /\ missing' = TRUE /\ torn' = torn \ {"package.json"}
  /\ UNCHANGED <<world, pnpm_lock, modules>>

DeleteLockfile ==
  /\ ~Running /\ Fail
  /\ pnpm_lock' = {} /\ torn' = torn \ {"pnpm-lock.yaml"}
  /\ UNCHANGED <<world, package_json, missing, modules>>

DeleteModules ==
  /\ ~Running /\ Fail
  /\ virtual' = {} /\ link' = [n \in Names |-> {}] /\ bin' = [x \in Executables |-> {}]
  /\ UNCHANGED <<world, files>>

\* The registry: a new release, tagged latest or not.
Publish(n) ==
  /\ ~Running /\ Fail
  /\ \E v \in VersionsOf(n) \ registry[n].versions :
       \E l \in {registry[n].latest, {v}} :
         registry' = [registry EXCEPT ![n] =
                        [versions |-> registry[n].versions \cup {v}, latest |-> l]]
  /\ UNCHANGED <<saved, store, files, modules>>

-----------------------------------------------------------------------------
Step ==
  \/ WriteTemplate
  \/ Add \/ Remove \/ Update
  \/ LockfileOnly \/ OfflineInstall \/ OnlineInstall
  \/ Generate \/ TruncateLockfile \/ WriteLockfile
  \/ Fetch \/ Import \/ Imported \/ Link \/ Resolve \/ Unlink \/ Linked
  \/ RemoveBins \/ CreateBinLinks \/ TruncateManifest \/ WriteManifest

Next ==
  \/ \E c \in Commands : Start(c)
  \/ Step
  \/ Kill \/ EditManifest \/ DeleteManifest \/ DeleteLockfile \/ DeleteModules
  \/ \E n \in Names : Publish(n)

Spec == Init /\ [][Next]_vars

-----------------------------------------------------------------------------
(* Properties.                                                              *)

Phases == {"template", "edit", "decide", "generate", "truncate_lock", "write_lock", "fetch", "import",
           "resolve", "unlink", "link", "remove_bins", "create_bins", "truncate", "save"}

TypeOK ==
  /\ registry \in [Names -> AllMetadata] /\ saved \in [Names -> SUBSET AllMetadata]
  /\ \A n \in Names : {registry[n]} \cup saved[n] \subseteq Metadata(n)
  /\ {store, virtual} \subseteq SUBSET Releases
  /\ {package_json, manifest} \subseteq SUBSET Entries /\ missing \in BOOLEAN
  /\ pnpm_lock \cup lockfile \subseteq SUBSET Locks
  /\ torn \subseteq {"package.json", "pnpm-lock.yaml"}
  /\ link \in [Names -> SUBSET Releases] /\ bin \in [Executables -> SUBSET Names]
  /\ args \in Commands \cup {NoCommand} /\ (Running => args \in Commands)
  /\ steps \in Seq(Phases)

\* The version is one the specifier may select.
Satisfies(v, s) == s.kind = "latest" \/ v \in s.set

\* Whatever is killed, edited or published in between: a lockfile names for each
\* dependency a published release that its specifier selects.
LocksSatisfySpecifiers ==
  \A l \in pnpm_lock \cup lockfile : \A k \in l :
    Locked(k) \in Releases /\ Satisfies(k.version, k.spec)

\* Every link of node_modules leads to a package of its name in the virtual store,
\* at any time.
LinksLead ==
  \A n \in Names : \A r \in link[n] : r \in virtual /\ r.name = n

InstallsModules == args.cmd # "fetch" /\ ~OnlyLockfile

\* The groups whose dependencies end up in node_modules.
LinkedGroups ==
  IF Flag("lockfile") \/ Flag("offline") THEN InstallGroups \ {"peer"} ELSE InstallGroups

DeclaredNow == InGroups(manifest, LinkedGroups)

\* --offline --frozen-lockfile takes the lockfile as it is.
AsItIs == Flag("offline") /\ Flag("frozen_lockfile")

\* node_modules has a link for each declared dependency of the command's groups, to
\* a release that a specifier declared for it selects, and no other link.
ModulesMatchManifest ==
  /\ \A n \in Names : link[n] # {} => \E e \in DeclaredNow : e.name = n
  /\ \A e \in DeclaredNow :
       \E r \in link[e.name], x \in DeclaredNow :
         x.name = e.name /\ Satisfies(r.version, x.spec)

\* "symlink `foo -> .pacquet/foo@x.y.z/node_modules/foo` shall be created": a command
\* that ends well leaves node_modules as package.json declares it, whatever node_modules
\* and pnpm-lock.yaml were before.
InstalledAsDeclared ==
  Succeeded /\ InstallsModules /\ ~AsItIs => ModulesMatchManifest

\* With the lockfile setting, a command that ends well leaves a lockfile that a
\* --frozen-lockfile install of the same groups accepts, and in node_modules the
\* releases it names.
LockedIsInstalled ==
  Succeeded /\ Flag("lockfile") /\ args.cmd # "fetch" /\ ~AsItIs =>
    \E l \in pnpm_lock :
      /\ torn = {}
      /\ lockfile_matches_manifest(package_json, l, InstallGroups \ {"peer"})
      /\ InstallsModules =>
           \A k \in InGroups(l, InstallGroups) :
             link[k.name] \subseteq {Locked(j) : j \in InGroups(l, InstallGroups)}

\* An executable of node_modules/.bin runs a package that is linked and provides it,
\* the first one by name, after every command that ends well.
ExecutablesAreOwned ==
  Succeeded /\ InstallsModules =>
    \A x \in Executables :
      /\ \A n \in bin[x] : \E r \in link[n] : x \in Provides[r]
      /\ \A n \in Names : (\E r \in link[n] : x \in Provides[r]) => \E m \in bin[x] : m <= n

\* The step is one of command c, which runs or begins to.
StepOf(c) == (Running /\ args = c) \/ (~Running /\ Running' /\ args' = c)

\* "Use only packages already available in the store", "Don't generate a lockfile":
\* --offline writes nothing to the store, and neither it nor --frozen-lockfile writes a
\* lockfile, or touches a package.json that is there when the command starts.
OfflineAndFrozenAreReadOnly ==
  [][\A c \in Commands : StepOf(c) =>
       /\ "offline" \in c.flags => UNCHANGED <<store, saved>>
       /\ c.flags \cap {"offline", "frozen_lockfile"} # {} =>
            /\ UNCHANGED <<package_json, pnpm_lock>>
            /\ torn' \subseteq torn \cup {f \in {"package.json"} : missing}
            /\ missing' => missing]_vars

\* add, remove and update touch the package.json that State::init has found or created
\* only once everything is installed: one that fails or is killed before leaves it alone.
SavedOnceInstalled ==
  [][Running /\ (package_json' # package_json \/ ("package.json" \in torn' \ torn))
       => ModulesMatchManifest]_vars

\* "fails when pnpm-lock.yaml is out of sync": an install with --frozen-lockfile that
\* ends well had a lockfile in sync with package.json.
FrozenFailsOutOfSync ==
  Succeeded /\ args.cmd = "install" /\ Flag("frozen_lockfile") => InSync
=============================================================================
