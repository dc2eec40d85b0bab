--------------------------- MODULE ProjectProofs ---------------------------
(***************************************************************************)
(* Theorems about Project for any registry contents, any package.json files *)
(* and any command lines.                                                   *)
(***************************************************************************)
EXTENDS Project, RegistryProofs, WellFoundedInduction

-----------------------------------------------------------------------------
(* What the operators return.                                               *)

\* A specifier selects, in fetched or saved metadata, a release that is published.
LEMMA SelectedIsPublished ==
  ASSUME TypeOK, NEW n \in Names, NEW s \in Specifiers, NEW v \in Selected(n, s)
  PROVE  /\ v \in Versions /\ [name |-> n, version |-> v] \in Releases
         /\ Satisfies(v, s)
<1>1. PICK m \in Metadatum(n) : v \in version_by_specifier(m, s)
  BY DEF Selected
<1>2. m \in Metadata(n)
  BY <1>1 DEF Metadatum, TypeOK
<1>3. v \in m.versions
  BY <1>1, SelectsPublished
<1>4. v \in VersionsOf(n)
  BY <1>2, <1>3 DEF Metadata
<1>5. s.kind \in {"latest", "version", "range", "unparsable"}
  BY DEF Specifiers
<1>6. Satisfies(v, s)
  BY <1>1, <1>5 DEF version_by_specifier, version_by_tag, pinned_version, Satisfies
<1>7. QED BY <1>4, <1>6 DEF VersionsOf

\* What add and update write into package.json is a specifier.
LEMMA SerializeType ==
  ASSUME NEW v \in Versions, NEW exact
  PROVE  Serialize(v, exact) \in Specifiers
<1>1. CASE exact
  <2>1. Serialize(v, exact) = [kind |-> "version", set |-> {v}]
    BY <1>1 DEF Serialize
  <2>2. QED BY <2>1 DEF Specifiers
<1>2. CASE ~exact
  <2>1. Serialize(v, exact) = [kind |-> "range", set |-> Caret[v]]
    BY <1>2 DEF Serialize
  <2>2. Caret[v] \in SUBSET Versions
    BY ProjectAssumption
  <2>3. QED BY <2>1, <2>2 DEF Specifiers
<1>3. QED BY <1>1, <1>2

LEMMA LatestType == Latest \in Specifiers
  BY DEF Latest, Specifiers

\* The fields of a command line.
LEMMA CommandFields ==
  ASSUME NEW c \in Commands
  PROVE  /\ c.groups \in SUBSET Groups /\ c.cmd \in {"install", "add", "remove", "update", "fetch"}
         /\ \A p \in c.packages : p.name \in Names /\ p.spec \subseteq Specifiers
<1>1. c \in CommandLines
  BY ProjectAssumption
<1>2. c.groups \in SUBSET Groups /\ c.cmd \in {"install", "add", "remove", "update", "fetch"}
        /\ c.packages \in SUBSET [name: Names, spec: {{}} \cup {{s} : s \in Specifiers}]
  BY <1>1 DEF CommandLines
<1>3. QED BY <1>2

LEMMA EntryFields ==
  ASSUME NEW e \in Entries
  PROVE  e.group \in Groups /\ e.name \in Names /\ e.spec \in Specifiers
  BY DEF Entries

LEMMA LockFields ==
  ASSUME NEW k \in Locks
  PROVE  /\ k.group \in LockGroups /\ k.name \in Names /\ k.spec \in Specifiers
         /\ k.version \in Versions
  BY DEF Locks

-----------------------------------------------------------------------------
(* Types.                                                                   *)

LEMMA SaveType ==
  ASSUME TypeOK, NEW names, Save(names)
  PROVE  /\ saved' \in [Names -> SUBSET AllMetadata]
         /\ \A n \in Names : saved'[n] \subseteq Metadata(n)
<1>1. \A n \in Names : saved'[n] \in {saved[n], {registry[n]}}
  BY DEF Save
<1>2. \A n \in Names : saved'[n] \subseteq Metadata(n)
  BY <1>1 DEF TypeOK
<1>3. \A n \in Names : saved'[n] \subseteq AllMetadata
  BY <1>2 DEF AllMetadata
<1>4. saved' = [n \in Names |-> saved'[n]]
  BY DEF Save
<1>5. QED BY <1>2, <1>3, <1>4

\* The memory of a process that has ended.
LEMMA FailType ==
  ASSUME Fail
  PROVE  /\ manifest' = {} /\ lockfile' = {} /\ steps' = <<>> /\ args' = NoCommand
         /\ steps' \in Seq(Phases) /\ ~Running'
  BY DEF Fail, Running

LEMMA ContinueType ==
  ASSUME TypeOK, Running, NEW s \in Seq(Phases), Continue(s)
  PROVE  /\ steps' \in Seq(Phases) /\ args' = args /\ args \in Commands
  BY DEF TypeOK, Running, Continue

LEMMA Plans ==
  /\ <<>> \in Seq(Phases) /\ GenerateAndSave \in Seq(Phases)
  /\ InstallFrozenLockfile \o CreateBins \in Seq(Phases)
  /\ InstallWithoutLockfile \o CreateBins \in Seq(Phases)
  /\ GenerateAndSave \o InstallFrozenLockfile \o CreateBins \in Seq(Phases)
  /\ <<"import">> \in Seq(Phases)
  /\ \A c : StepsOf(c) \in Seq(Phases) /\ <<"template">> \o StepsOf(c) \in Seq(Phases)
<1> DEFINE P == Phases
<1>1. /\ "edit" \in P /\ "decide" \in P /\ "generate" \in P /\ "truncate_lock" \in P
      /\ "write_lock" \in P /\ "fetch" \in P /\ "import" \in P /\ "resolve" \in P
      /\ "unlink" \in P /\ "link" \in P /\ "remove_bins" \in P /\ "create_bins" \in P
      /\ "truncate" \in P /\ "save" \in P /\ "template" \in P
  BY DEF Phases
<1> HIDE DEF P
<1>2. /\ GenerateAndSave \in Seq(P) /\ InstallFrozenLockfile \in Seq(P)
      /\ InstallWithoutLockfile \in Seq(P) /\ CreateBins \in Seq(P)
      /\ <<>> \in Seq(P) /\ <<"import">> \in Seq(P)
  BY <1>1 DEF GenerateAndSave, InstallFrozenLockfile, InstallWithoutLockfile, CreateBins
<1>3. ASSUME NEW c PROVE StepsOf(c) \in Seq(P)
  <2>1. CASE c.cmd = "fetch"
    <3>1. StepsOf(c) = <<"fetch">>
      BY <2>1, Zenon DEF StepsOf
    <3>2. QED BY <1>1, <3>1
  <2>2. CASE c.cmd = "install"
    <3>1. StepsOf(c) = <<"decide">>
      BY <2>2, Zenon DEF StepsOf
    <3>2. QED BY <1>1, <3>1
  <2>3. CASE c.cmd # "fetch" /\ c.cmd # "install"
    <3>1. StepsOf(c) = <<"edit", "decide", "truncate", "save">>
      BY <2>3, Zenon DEF StepsOf
    <3>2. QED BY <1>1, <3>1
  <2>4. QED BY <2>1, <2>2, <2>3
<1>4. \A c : StepsOf(c) \in Seq(P) /\ <<"template">> \o StepsOf(c) \in Seq(P)
  <2>1. ASSUME NEW s \in Seq(P) PROVE <<"template">> \o s \in Seq(P)
    BY <1>1
  <2>2. QED BY <1>3, <2>1, Zenon
<1>5. QED BY <1>2, <1>4 DEF P

\* What is published first has at most one release tagged latest.
LEMMA TypeInit == Init => TypeOK
<1> SUFFICES ASSUME Init PROVE TypeOK
  OBVIOUS
<1>1. ASSUME NEW n \in Names PROVE FirstMetadata(n) \in Metadata(n)
  <2> DEFINE versions == {v \in VersionsOf(n) : [name |-> n, version |-> v] \notin Later}
             top == {v \in versions : \A w \in versions : w <= v}
  <2>1. versions \subseteq VersionsOf(n) /\ versions \subseteq Versions /\ Versions \subseteq Nat
    BY RegistryAssumption DEF VersionsOf
  <2>2. ASSUME NEW v \in top, NEW w \in top PROVE v = w
    <3>1. v \in Nat /\ w \in Nat /\ v <= w /\ w <= v
      BY <2>1
    <3>2. QED BY <3>1
  <2>3. top = {} \/ \E v \in Versions : top = {v}
    BY <2>1, <2>2
  <2>4. QED BY <2>1, <2>3 DEF FirstMetadata, Metadata
<1>2. registry \in [Names -> AllMetadata] /\ \A n \in Names : registry[n] \in Metadata(n)
  BY <1>1 DEF Init, AllMetadata
<1>3. package_json \subseteq Entries
  BY ProjectAssumption DEF Init
<1>4. QED BY <1>2, <1>3, Plans DEF Init, TypeOK, Running

\* The environment only ever ends commands, edits package.json, deletes and publishes.
LEMMA EnvironmentType ==
  ASSUME TypeOK
  PROVE  /\ Kill \/ EditManifest \/ DeleteManifest \/ DeleteLockfile \/ DeleteModules => TypeOK'
         /\ \A n \in Names : Publish(n) => TypeOK'
<1>1. Kill => TypeOK'
  BY FailType, Plans DEF Kill, TypeOK, world, files
<1>2. ASSUME EditManifest PROVE TypeOK'
  <2>1. package_json' \subseteq Entries /\ missing' \in BOOLEAN
    BY <1>2, ProjectAssumption DEF EditManifest
  <2>2. QED BY <1>2, <2>1, FailType DEF EditManifest, TypeOK, world, modules
<1>7. DeleteManifest => TypeOK'
  BY FailType DEF DeleteManifest, TypeOK, world, modules
<1>3. DeleteLockfile => TypeOK'
  BY FailType DEF DeleteLockfile, TypeOK, world, modules
<1>4. DeleteModules => TypeOK'
  BY FailType DEF DeleteModules, TypeOK, world, files
<1>5. ASSUME NEW n \in Names, Publish(n) PROVE TypeOK'
  <2>1. PICK v \in VersionsOf(n) : \E l \in {registry[n].latest, {v}} :
          registry' = [registry EXCEPT ![n] =
                         [versions |-> registry[n].versions \cup {v}, latest |-> l]]
    BY <1>5 DEF Publish
  <2>2. PICK l \in {registry[n].latest, {v}} :
          registry' = [registry EXCEPT ![n] =
                         [versions |-> registry[n].versions \cup {v}, latest |-> l]]
    BY <2>1
  <2>3. registry[n] \in Metadata(n)
    BY DEF TypeOK
  <2>4. [versions |-> registry[n].versions \cup {v}, latest |-> l] \in Metadata(n)
    BY <2>3 DEF Metadata, VersionsOf
  <2>5. registry' \in [Names -> AllMetadata] /\ \A x \in Names : registry'[x] \in Metadata(x)
    <3> DEFINE new == [versions |-> registry[n].versions \cup {v}, latest |-> l]
    <3>1. new \in Metadata(n) /\ registry' = [registry EXCEPT ![n] = new]
      BY <2>2, <2>4
    <3>2. new \in AllMetadata
      BY <3>1, Zenon DEF AllMetadata
    <3>3. registry \in [Names -> AllMetadata] /\ \A x \in Names : registry[x] \in Metadata(x)
      BY DEF TypeOK
    <3> HIDE DEF new
    <3>4. QED BY <3>1, <3>2, <3>3
  <2>6. Fail /\ UNCHANGED <<saved, store, files, modules>>
    BY <1>5 DEF Publish
  <2>7. QED BY <2>5, <2>6, FailType DEF TypeOK, files, modules
<1>6. QED BY <1>1, <1>2, <1>3, <1>4, <1>5, <1>7

LEMMA StartType == ASSUME TypeOK, NEW c \in Commands, Start(c) PROVE TypeOK'
<1>1. /\ UNCHANGED <<world, package_json, pnpm_lock, modules>>
      /\ missing' \in BOOLEAN /\ torn' \subseteq torn \cup {"package.json"}
  BY DEF Start, TypeOK
<1>2. CASE Fail
  BY <1>1, <1>2, FailType DEF TypeOK, world, modules
<1>3. CASE ~Fail
  <2>1. /\ args' = c /\ manifest' \in {{}, package_json} /\ lockfile' \in {{}, pnpm_lock}
        /\ steps' \in {StepsOf(c), <<"template">> \o StepsOf(c)}
    BY <1>3 DEF Start, LockfileFor
  <2>2. steps' \in Seq(Phases)
    BY <2>1, Plans
  <2>3. QED BY <1>1, <2>1, <2>2 DEF TypeOK, world, modules, Running
<1>4. QED BY <1>2, <1>3

LEMMA TemplateType == ASSUME TypeOK, WriteTemplate PROVE TypeOK'
<1>1. /\ UNCHANGED <<world, package_json, missing, pnpm_lock, modules>> /\ torn' \subseteq torn
      /\ Running
  BY DEF WriteTemplate, At
<1>2. CASE Fail
  BY <1>1, <1>2, FailType DEF TypeOK, world, modules
<1>3. CASE ~Fail
  <2>1. lockfile' \in {{}, pnpm_lock} /\ Continue(<<>>) /\ UNCHANGED manifest
    BY <1>3 DEF WriteTemplate, LockfileFor
  <2>2. steps' \in Seq(Phases) /\ args' = args /\ args \in Commands
    BY <1>1, <2>1, Plans, ContinueType
  <2>3. QED BY <1>1, <2>1, <2>2 DEF TypeOK, world, modules
<1>4. QED BY <1>2, <1>3

LEMMA EditType == ASSUME TypeOK, Add \/ Remove \/ Update PROVE TypeOK'
<1>1. Running /\ args \in Commands
  BY DEF Add, Remove, Update, At, TypeOK
<1>2. UNCHANGED <<registry, store, files, modules>>
  BY DEF Add, Remove, Update, world
<1>3. /\ saved' \in [Names -> SUBSET AllMetadata]
      /\ \A n \in Names : saved'[n] \subseteq Metadata(n)
  BY SaveType DEF Add, Remove, Update, world, TypeOK
<1>4. CASE Fail
  BY <1>2, <1>3, <1>4, FailType DEF TypeOK, files, modules
<1>5. CASE ~Fail
  <2>1. Continue(<<>>) /\ UNCHANGED lockfile
    BY <1>5 DEF Add, Remove, Update
  <2>2. manifest' \subseteq Entries
    <3>1. CASE Add
      <4>1. ASSUME NEW p \in args.packages PROVE AddedSpec(p) \subseteq Specifiers
        <5>1. p.name \in Names /\ p.spec \subseteq Specifiers
          BY <1>1, CommandFields
        <5>2. \A v \in Selected(p.name, Latest) : Serialize(v, Flag("save_exact")) \in Specifiers
          BY <5>1, LatestType, SelectedIsPublished, SerializeType
        <5>3. QED BY <5>1, <5>2 DEF AddedSpec
      <4>2. manifest' \subseteq manifest \cup
                UNION {{[group |-> g, name |-> p.name, spec |-> s] :
                          g \in args.groups, s \in AddedSpec(p)} : p \in args.packages}
        BY <3>1, <1>5 DEF Add, add_dependency
      <4>3. ASSUME NEW p \in args.packages, NEW g \in args.groups, NEW s \in AddedSpec(p)
            PROVE  [group |-> g, name |-> p.name, spec |-> s] \in Entries
        BY <1>1, <4>1, CommandFields DEF Entries
      <4>4. manifest \subseteq Entries
        BY DEF TypeOK
      <4>5. QED BY <4>2, <4>3, <4>4
    <3>2. CASE Remove
      BY <3>2 DEF Remove, remove_dependency, TypeOK
    <3>3. CASE Update
      <4>1. manifest' \subseteq manifest \cup
                  UNION {{[e EXCEPT !.spec = s] : s \in UpdatedSpec(e)} : e \in Targets}
        BY <3>3, <1>5 DEF Update, add_dependency
      <4>2. Targets \subseteq manifest /\ manifest \subseteq Entries
        BY DEF Targets, InGroups, TypeOK
      <4>3. ASSUME NEW e \in Targets PROVE UpdatedSpec(e) \subseteq Specifiers
        <5>1. e.name \in Names /\ e.spec \in Specifiers
          BY <4>2, EntryFields
        <5>2. CASE Flag("latest")
          <6>1. \A v \in Selected(e.name, Latest) :
                  Serialize(v, e.spec.kind = "version") \in Specifiers
            BY <5>1, LatestType, SelectedIsPublished, SerializeType
          <6>2. QED BY <5>2, <6>1 DEF UpdatedSpec
        <5>3. CASE ~Flag("latest")
          <6>1. \A p \in args.packages : p.spec \subseteq Specifiers
            BY <1>1, CommandFields
          <6>2. UNION {p.spec : p \in {q \in args.packages : q.name = e.name}} \subseteq Specifiers
            BY <6>1
          <6>3. QED BY <5>1, <5>3, <6>2 DEF UpdatedSpec
        <5>4. QED BY <5>2, <5>3
      <4>4. ASSUME NEW e \in Targets, NEW s \in UpdatedSpec(e) PROVE [e EXCEPT !.spec = s] \in Entries
        BY <4>2, <4>3 DEF Entries
      <4>5. QED BY <4>1, <4>2, <4>4
    <3>4. QED BY <3>1, <3>2, <3>3
  <2>3. steps' \in Seq(Phases) /\ args' = args /\ args \in Commands
    BY <1>1, <2>1, Plans, ContinueType
  <2>4. QED BY <1>2, <1>3, <2>1, <2>2, <2>3 DEF TypeOK, files, modules
<1>6. QED BY <1>4, <1>5

LEMMA DecideType == ASSUME TypeOK, LockfileOnly \/ OfflineInstall \/ OnlineInstall PROVE TypeOK'
<1>1. Running /\ UNCHANGED <<world, files, modules>>
  BY DEF LockfileOnly, OfflineInstall, OnlineInstall, At
<1>2. CASE Fail
  BY <1>1, <1>2, FailType DEF TypeOK, world, files, modules
<1>3. CASE ~Fail
  <2>1. \E s \in Seq(Phases) : Continue(s) /\ UNCHANGED <<manifest, lockfile>>
    BY <1>3, Plans DEF LockfileOnly, OfflineInstall, OnlineInstall
  <2>2. steps' \in Seq(Phases) /\ args' = args /\ args \in Commands
    BY <1>1, <2>1, ContinueType
  <2>3. QED BY <1>1, <2>1, <2>2 DEF TypeOK, world, files, modules
<1>4. QED BY <1>2, <1>3

\* The releases a lockfile names are published, and satisfy their specifiers.
Sound(l) == \A k \in l : Locked(k) \in Releases /\ Satisfies(k.version, k.spec)

LEMMA GenerateFacts ==
  ASSUME TypeOK, Generate
  PROVE  /\ Running /\ args \in Commands
         /\ saved' \in [Names -> SUBSET AllMetadata]
         /\ \A n \in Names : saved'[n] \subseteq Metadata(n)
         /\ UNCHANGED <<registry, store, files, modules>>
         /\ \/ Fail
            \/ /\ Continue(<<>>) /\ UNCHANGED manifest
               /\ \E l \in SUBSET Locks : lockfile' = {l} /\ Sound(l)
<1> DEFINE failing == {e \in Roots : Selected(e.name, e.spec) = {}}
           locks == UNION {{[group |-> e.group, name |-> e.name, spec |-> e.spec, version |-> v] :
                              v \in Selected(e.name, e.spec)} : e \in Roots}
<1>1. Running /\ args \in Commands
  BY DEF Generate, At, TypeOK
<1>2. \E names : Save(names)
  BY Zenon DEF Generate
<1>3. /\ saved' \in [Names -> SUBSET AllMetadata]
      /\ \A n \in Names : saved'[n] \subseteq Metadata(n)
  BY <1>2, SaveType
<1>4. \/ Fail
      \/ Continue(<<>>) /\ UNCHANGED manifest /\ lockfile' = {locks}
  BY Zenon DEF Generate
<1>5. locks \in SUBSET Locks /\ Sound(locks)
  <2>1. ASSUME NEW e \in Roots, NEW v \in Selected(e.name, e.spec),
               NEW k, k = [group |-> e.group, name |-> e.name, spec |-> e.spec, version |-> v]
        PROVE  k \in Locks /\ Locked(k) \in Releases /\ Satisfies(k.version, k.spec)
    <3>1. e \in Entries /\ e.group \in LockGroups
      BY DEF Roots, Direct, InGroups, TypeOK
    <3>2. e.name \in Names /\ e.spec \in Specifiers
      BY <3>1, EntryFields
    <3>3. /\ v \in Versions /\ [name |-> e.name, version |-> v] \in Releases
          /\ Satisfies(v, e.spec)
      BY <3>2, SelectedIsPublished
    <3>4. k.name = e.name /\ k.version = v /\ k.spec = e.spec
      BY <2>1
    <3>5. k \in Locks
      BY <2>1, <3>1, <3>2, <3>3 DEF Locks
    <3>6. QED BY <3>3, <3>4, <3>5 DEF Locked
  <2>2. \A k \in locks : \E e \in Roots : \E v \in Selected(e.name, e.spec) :
          k = [group |-> e.group, name |-> e.name, spec |-> e.spec, version |-> v]
    OBVIOUS
  <2>3. QED BY <2>1, <2>2 DEF Sound
<1>6. UNCHANGED <<registry, store, files, modules>>
  BY DEF Generate
<1>7. QED BY <1>1, <1>3, <1>4, <1>5, <1>6

LEMMA GenerateType == ASSUME TypeOK, Generate PROVE TypeOK'
<1>1. CASE Fail
  BY <1>1, GenerateFacts, FailType DEF TypeOK, files, modules
<1>2. CASE ~Fail
  <2>1. PICK l \in SUBSET Locks : lockfile' = {l} /\ Continue(<<>>) /\ UNCHANGED manifest
    BY <1>2, GenerateFacts
  <2>2. steps' \in Seq(Phases) /\ args' = args /\ args \in Commands
    BY <2>1, GenerateFacts, Plans, ContinueType
  <2>3. QED BY <2>1, <2>2, GenerateFacts DEF TypeOK, files, modules
<1>3. QED BY <1>1, <1>2

LEMMA WriteType ==
  ASSUME TypeOK, TruncateLockfile \/ WriteLockfile \/ TruncateManifest \/ WriteManifest
  PROVE  TypeOK'
<1>1. Running /\ Continue(<<>>) /\ UNCHANGED <<world, modules, manifest, lockfile>>
  BY DEF TruncateLockfile, WriteLockfile, TruncateManifest, WriteManifest, At
<1>2. steps' \in Seq(Phases) /\ args' = args /\ args \in Commands
  BY <1>1, Plans, ContinueType
<1>3. /\ package_json' \subseteq Entries /\ pnpm_lock' \subseteq SUBSET Locks
      /\ torn' \subseteq {"package.json", "pnpm-lock.yaml"} /\ missing' \in BOOLEAN
  BY DEF TypeOK, TruncateLockfile, WriteLockfile, TruncateManifest, WriteManifest
<1>4. QED BY <1>1, <1>2, <1>3 DEF TypeOK, world, modules

LEMMA BinType == ASSUME TypeOK, RemoveBins \/ CreateBinLinks PROVE TypeOK'
<1>1. /\ Running /\ Continue(<<>>)
      /\ UNCHANGED <<world, files, virtual, link, manifest, lockfile>>
  BY DEF RemoveBins, CreateBinLinks, At
<1>2. steps' \in Seq(Phases) /\ args' = args /\ args \in Commands
  BY <1>1, Plans, ContinueType
<1>3. bin' \in [Executables -> SUBSET Names]
  BY DEF RemoveBins, CreateBinLinks, Owner, Providers
<1>4. QED BY <1>1, <1>2, <1>3 DEF TypeOK, world, files

\* A package that is imported, linked or unlinked.
LEMMA WantedType ==
  ASSUME TypeOK, LocksSatisfySpecifiers, NEW groups
  PROVE  Packages(groups) \subseteq Releases
  BY DEF Packages, InGroups, LocksSatisfySpecifiers

LEMMA PackageType ==
  ASSUME TypeOK, LocksSatisfySpecifiers,
         Fetch \/ Import \/ Imported \/ Link \/ Resolve \/ Unlink \/ Linked
  PROVE  TypeOK'
<1>1. Running /\ args \in Commands
  <2>1. Running
    BY DEF Fetch, Import, Imported, Link, Resolve, Unlink, Linked, At
  <2>2. QED BY <2>1 DEF TypeOK
<1>2. CASE Fetch \/ Imported \/ Linked
  <2>1. UNCHANGED <<world, files, modules>>
    BY <1>2 DEF Fetch, Imported, Linked
  <2>2. CASE Fail
    BY <2>1, <2>2, FailType DEF TypeOK, world, files, modules
  <2>3. CASE ~Fail
    <3>1. \E s \in Seq(Phases) : Continue(s) /\ UNCHANGED <<manifest, lockfile>>
      BY <1>2, <2>3, Plans DEF Fetch, Imported, Linked
    <3>2. steps' \in Seq(Phases) /\ args' = args
      BY <1>1, <3>1, ContinueType
    <3>3. QED BY <1>1, <2>1, <3>1, <3>2 DEF TypeOK, world, files, modules
  <2>4. QED BY <2>2, <2>3
<1>3. CASE Import
  <2>1. PICK r \in Wanted \ done :
          \/ /\ store' = store \cup {r} /\ virtual' = virtual \cup {r}
             /\ Did(r) /\ UNCHANGED <<manifest, lockfile>>
          \/ Fail /\ UNCHANGED <<store, virtual>>
    BY <1>3 DEF Import
  <2>2. r \in Releases
    BY <2>1, WantedType DEF Wanted
  <2>3. UNCHANGED <<registry, saved, files, link, bin>>
    BY <1>3 DEF Import
  <2>4. CASE Fail /\ UNCHANGED <<store, virtual>>
    BY <2>3, <2>4, FailType DEF TypeOK, files
  <2>5. CASE /\ store' = store \cup {r} /\ virtual' = virtual \cup {r}
             /\ Did(r) /\ UNCHANGED <<manifest, lockfile>>
    BY <1>1, <2>2, <2>3, <2>5 DEF TypeOK, files, Did, Running
  <2>6. QED BY <2>1, <2>4, <2>5
<1>4. CASE Link
  <2>1. PICK l \in lockfile : \E k \in InGroups(l, InstallGroups) \ done :
          symlink_package(Locked(k)) /\ Did(k)
    BY <1>4 DEF Link
  <2>2. PICK k \in l : symlink_package(Locked(k)) /\ Did(k)
    BY <2>1 DEF InGroups
  <2>3. Locked(k) \in Releases
    BY <2>1, <2>2 DEF LocksSatisfySpecifiers
  <2>4. link' \in [Names -> SUBSET Releases]
    BY <2>2, <2>3 DEF symlink_package, TypeOK
  <2>5. UNCHANGED <<world, files, virtual, bin, manifest, lockfile>>
    BY <1>4 DEF Link
  <2>6. QED BY <1>1, <2>2, <2>4, <2>5 DEF TypeOK, world, files, Did, Running
<1>5. CASE Resolve
  <2>1. PICK e \in Direct \ done :
          /\ Save({e.name})
          /\ \/ \E v \in Selected(e.name, e.spec) :
                  LET r == [name |-> e.name, version |-> v] IN
                  /\ store' = store \cup {r} /\ virtual' = virtual \cup {r}
                  /\ symlink_package(r) /\ Did(e) /\ UNCHANGED <<manifest, lockfile>>
             \/ Fail /\ UNCHANGED <<store, virtual, link>>
    BY <1>5 DEF Resolve
  <2>2. e.name \in Names /\ e.spec \in Specifiers
    BY EntryFields DEF Direct, InGroups, TypeOK
  <2>3. /\ saved' \in [Names -> SUBSET AllMetadata]
        /\ \A n \in Names : saved'[n] \subseteq Metadata(n)
    BY <2>1, SaveType
  <2>4. UNCHANGED <<registry, files, bin>>
    BY <1>5 DEF Resolve
  <2>5. CASE Fail /\ UNCHANGED <<store, virtual, link>>
    BY <2>3, <2>4, <2>5, FailType DEF TypeOK, files
  <2>6. ASSUME NEW v \in Selected(e.name, e.spec), NEW r,
               r = [name |-> e.name, version |-> v],
               store' = store \cup {r}, virtual' = virtual \cup {r},
               symlink_package(r), Did(e), UNCHANGED <<manifest, lockfile>>
        PROVE  TypeOK'
    <3>1. r \in Releases
      BY <2>2, <2>6, SelectedIsPublished
    <3>2. link' \in [Names -> SUBSET Releases]
      BY <3>1, <2>6 DEF symlink_package, TypeOK
    <3>3. QED BY <1>1, <2>3, <2>4, <2>6, <3>1, <3>2 DEF TypeOK, files, Did, Running
  <2>7. QED BY <2>1, <2>5, <2>6
<1>6. CASE Unlink
  <2>1. link' \in [Names -> SUBSET Releases]
    BY <1>6 DEF Unlink, TypeOK
  <2>2. UNCHANGED <<world, files, virtual, bin, memory>>
    BY <1>6 DEF Unlink
  <2>3. QED BY <1>1, <2>1, <2>2 DEF TypeOK, world, files, memory, Running
<1>7. QED BY <1>2, <1>3, <1>4, <1>5, <1>6

LEMMA TypeStep == TypeOK /\ LocksSatisfySpecifiers /\ [Next]_vars => TypeOK'
<1> SUFFICES ASSUME TypeOK, LocksSatisfySpecifiers, [Next]_vars PROVE TypeOK'
  OBVIOUS
<1>1. ASSUME NEW c \in Commands, Start(c) PROVE TypeOK'
  BY <1>1, StartType
<1>2. CASE Step
  BY <1>2, TemplateType, EditType, DecideType, GenerateType, WriteType, BinType, PackageType DEF Step
<1>3. CASE UNCHANGED vars
  BY <1>3 DEF TypeOK, vars, world, files, modules, memory, Running
<1>4. QED BY <1>1, <1>2, <1>3, EnvironmentType DEF Next

-----------------------------------------------------------------------------
(* Lockfiles.                                                               *)

\* Only Generate makes a lockfile; every other step keeps one of the two there are,
\* or none.
LEMMA NewLockfiles ==
  ASSUME TypeOK, [Next]_vars
  PROVE  Generate \/ pnpm_lock' \cup lockfile' \subseteq pnpm_lock \cup lockfile
<1> DEFINE Kept == pnpm_lock' \cup lockfile' \subseteq pnpm_lock \cup lockfile
<1>0. CASE WriteTemplate
  BY <1>0 DEF WriteTemplate, LockfileFor, Fail
<1>1. ASSUME NEW c \in Commands, Start(c) PROVE Kept
  BY <1>1 DEF Start, LockfileFor, Fail
<1>2. CASE Add \/ Remove \/ Update
  BY <1>2 DEF Add, Remove, Update, Fail, files
<1>3. CASE LockfileOnly \/ OfflineInstall \/ OnlineInstall
  BY <1>3 DEF LockfileOnly, OfflineInstall, OnlineInstall, Fail, files
<1>4. CASE TruncateLockfile \/ WriteLockfile \/ TruncateManifest \/ WriteManifest
  BY <1>4 DEF TruncateLockfile, WriteLockfile, TruncateManifest, WriteManifest
<1>5. CASE Fetch \/ Import \/ Imported \/ Link \/ Resolve \/ Unlink \/ Linked
  BY <1>5 DEF Fetch, Import, Imported, Link, Resolve, Unlink, Linked, Fail, files, memory
<1>6. CASE RemoveBins \/ CreateBinLinks
  BY <1>6 DEF RemoveBins, CreateBinLinks, files
<1>7. CASE Kill \/ EditManifest \/ DeleteManifest \/ DeleteLockfile \/ DeleteModules
  BY <1>7 DEF Kill, EditManifest, DeleteManifest, DeleteLockfile, DeleteModules, Fail, files
<1>8. ASSUME NEW n \in Names, Publish(n) PROVE Kept
  BY <1>8 DEF Publish, Fail, files
<1>9. CASE UNCHANGED vars
  BY <1>9 DEF vars, files, memory
<1>10. QED BY <1>0, <1>1, <1>2, <1>3, <1>4, <1>5, <1>6, <1>7, <1>8, <1>9 DEF Next, Step

\* A step that makes no lockfile keeps them sound.
LEMMA LocksStep ==
  TypeOK /\ LocksSatisfySpecifiers /\ [Next]_vars => LocksSatisfySpecifiers'
<1> SUFFICES ASSUME TypeOK, LocksSatisfySpecifiers, [Next]_vars
             PROVE  \A l \in pnpm_lock' \cup lockfile' : Sound(l)
  BY DEF LocksSatisfySpecifiers, Sound, Locked, Satisfies
<1>1. \A l \in pnpm_lock \cup lockfile : Sound(l)
  BY DEF LocksSatisfySpecifiers, Sound
<1>2. CASE Generate
  <2>1. pnpm_lock' = pnpm_lock
    BY <1>2 DEF Generate, files
  <2>2. lockfile' = {} \/ \E l : lockfile' = {l} /\ Sound(l)
    BY <1>2, GenerateFacts, FailType
  <2>3. QED BY <1>1, <2>1, <2>2
<1>3. CASE ~Generate
  BY <1>1, <1>3, NewLockfiles
<1>4. QED BY <1>2, <1>3

LEMMA LocksInit == Init => LocksSatisfySpecifiers
  BY DEF Init, LocksSatisfySpecifiers

\* The model keeps its types: the registry serves well-formed metadata, package.json
\* and pnpm-lock.yaml hold well-formed dependencies, and links lead to releases.
THEOREM TypeCorrect == Spec => []TypeOK
<1>1. Init => TypeOK /\ LocksSatisfySpecifiers
  BY TypeInit, LocksInit
<1>2. TypeOK /\ LocksSatisfySpecifiers /\ [Next]_vars => (TypeOK /\ LocksSatisfySpecifiers)'
  BY TypeStep, LocksStep
<1>3. QED BY <1>1, <1>2, PTL DEF Spec

\* GenerateLockfile and Lockfile::save_to_dir: whatever is killed, edited or published
\* in between, pnpm-lock.yaml names published releases that its specifiers select.
THEOREM LockfilesAreSound == Spec => []LocksSatisfySpecifiers
<1>1. Init => TypeOK /\ LocksSatisfySpecifiers
  BY TypeInit, LocksInit
<1>2. TypeOK /\ LocksSatisfySpecifiers /\ [Next]_vars => (TypeOK /\ LocksSatisfySpecifiers)'
  BY TypeStep, LocksStep
<1>3. QED BY <1>1, <1>2, PTL DEF Spec

-----------------------------------------------------------------------------
(***************************************************************************)
(* The plan of a command.  In every plan the phases come in one order, so    *)
(* that the set of those that are left says where the command is.           *)
(***************************************************************************)
Rank ==
  [p \in Phases |->
     IF p = "template" THEN 0 ELSE IF p = "edit" THEN 1 ELSE IF p = "decide" THEN 2 ELSE IF p = "generate" THEN 3
     ELSE IF p = "truncate_lock" THEN 4 ELSE IF p = "write_lock" THEN 5
     ELSE IF p = "fetch" THEN 6 ELSE IF p = "import" THEN 7 ELSE IF p = "resolve" THEN 8
     ELSE IF p = "unlink" THEN 9 ELSE IF p = "link" THEN 10 ELSE IF p = "remove_bins" THEN 11
     ELSE IF p = "create_bins" THEN 12 ELSE IF p = "truncate" THEN 13 ELSE 14]

ElementsOf(s) == {s[i] : i \in 1..Len(s)}
Ascending(s) == \A i, j \in 1..Len(s) : i < j => Rank[s[i]] < Rank[s[j]]

Left == ElementsOf(steps)

LEMMA Ranks ==
  /\ Rank \in [Phases -> Nat]
  /\ Rank["template"] = 0 /\ Rank["edit"] = 1 /\ Rank["decide"] = 2 /\ Rank["generate"] = 3
  /\ Rank["truncate_lock"] = 4 /\ Rank["write_lock"] = 5 /\ Rank["fetch"] = 6
  /\ Rank["import"] = 7 /\ Rank["resolve"] = 8 /\ Rank["unlink"] = 9 /\ Rank["link"] = 10
  /\ Rank["remove_bins"] = 11 /\ Rank["create_bins"] = 12 /\ Rank["truncate"] = 13
  /\ Rank["save"] = 14
  BY DEF Rank, Phases

LEMMA SeqType == ASSUME NEW s \in Seq(Phases)
                 PROVE  Len(s) \in Nat /\ \A i \in 1..Len(s) : s[i] \in Phases
  OBVIOUS

\* Two plans one after the other.
LEMMA ConcatPlan ==
  ASSUME NEW s \in Seq(Phases), NEW t \in Seq(Phases), Ascending(s), Ascending(t),
         \A p \in ElementsOf(s), q \in ElementsOf(t) : Rank[p] < Rank[q]
  PROVE  /\ s \o t \in Seq(Phases) /\ Ascending(s \o t)
         /\ ElementsOf(s \o t) = ElementsOf(s) \cup ElementsOf(t)
<1> DEFINE st == s \o t
<1>1. /\ st \in Seq(Phases) /\ Len(st) = Len(s) + Len(t)
      /\ \A i \in 1..Len(st) : st[i] = IF i <= Len(s) THEN s[i] ELSE t[i - Len(s)]
      /\ Len(s) \in Nat /\ Len(t) \in Nat
  OBVIOUS
<1> HIDE DEF st
<1>2. ASSUME NEW i \in 1..Len(st), NEW j \in 1..Len(st), i < j PROVE Rank[st[i]] < Rank[st[j]]
  <2>1. CASE j <= Len(s)
    BY <1>1, <1>2, <2>1 DEF Ascending
  <2>2. CASE i > Len(s)
    <3>1. i - Len(s) \in 1..Len(t) /\ j - Len(s) \in 1..Len(t) /\ i - Len(s) < j - Len(s)
      BY <1>1, <1>2, <2>2
    <3>2. st[i] = t[i - Len(s)] /\ st[j] = t[j - Len(s)]
      BY <1>1, <1>2, <2>2
    <3>3. QED BY <3>1, <3>2 DEF Ascending
  <2>3. CASE i <= Len(s) /\ j > Len(s)
    <3>1. i \in 1..Len(s) /\ j - Len(s) \in 1..Len(t)
      BY <1>1, <2>3
    <3>2. st[i] = s[i] /\ st[j] = t[j - Len(s)]
      BY <1>1, <1>2, <2>3
    <3>3. QED BY <3>1, <3>2 DEF ElementsOf
  <2>4. QED BY <1>1, <2>1, <2>2, <2>3
<1>3. ASSUME NEW p \in ElementsOf(st) PROVE p \in ElementsOf(s) \cup ElementsOf(t)
  <2>1. PICK i \in 1..Len(st) : p = st[i]
    BY DEF ElementsOf
  <2>2. CASE i <= Len(s)
    BY <1>1, <2>1, <2>2 DEF ElementsOf
  <2>3. CASE i > Len(s)
    <3>1. i - Len(s) \in 1..Len(t) /\ p = t[i - Len(s)]
      BY <1>1, <2>1, <2>3
    <3>2. QED BY <3>1 DEF ElementsOf
  <2>4. QED BY <1>1, <2>2, <2>3
<1>4. ASSUME NEW p \in ElementsOf(s) PROVE p \in ElementsOf(st)
  <2>1. PICK i \in 1..Len(s) : p = s[i]
    BY DEF ElementsOf
  <2>2. i \in 1..Len(st) /\ p = st[i]
    BY <1>1, <2>1
  <2>3. QED BY <2>2 DEF ElementsOf
<1>5. ASSUME NEW p \in ElementsOf(t) PROVE p \in ElementsOf(st)
  <2>1. PICK i \in 1..Len(t) : p = t[i]
    BY DEF ElementsOf
  <2>2. Len(s) + i \in 1..Len(st) /\ p = st[Len(s) + i]
    BY <1>1, <2>1
  <2>3. QED BY <2>2 DEF ElementsOf
<1>6. Ascending(st) /\ ElementsOf(st) = ElementsOf(s) \cup ElementsOf(t)
  BY <1>2, <1>3, <1>4, <1>5 DEF Ascending
<1>7. QED BY <1>1, <1>6 DEF st

\* The head is the first phase that is left, and what follows it is the rest.
LEMMA HeadOfPlan ==
  ASSUME NEW s \in Seq(Phases), Ascending(s), s # <<>>
  PROVE  /\ Head(s) \in ElementsOf(s) /\ Tail(s) \in Seq(Phases) /\ Ascending(Tail(s))
         /\ \A q \in ElementsOf(s) : q = Head(s) \/ Rank[Head(s)] < Rank[q]
         /\ ElementsOf(Tail(s)) = ElementsOf(s) \ {Head(s)}
<1> DEFINE t == Tail(s)
<1>1. /\ t \in Seq(Phases) /\ Len(t) = Len(s) - 1 /\ Len(s) \in Nat \ {0}
      /\ \A i \in 1..Len(t) : t[i] = s[i + 1]
      /\ Head(s) = s[1]
  OBVIOUS
<1> HIDE DEF t
<1>2. Rank \in [Phases -> Nat] /\ \A i \in 1..Len(s) : s[i] \in Phases
  BY Ranks
<1>3. ASSUME NEW i \in 1..Len(t), NEW j \in 1..Len(t), i < j PROVE Rank[t[i]] < Rank[t[j]]
  BY <1>1, <1>3 DEF Ascending
<1>4. ASSUME NEW q \in ElementsOf(s) PROVE q = s[1] \/ Rank[s[1]] < Rank[q]
  <2>1. PICK i \in 1..Len(s) : q = s[i]
    BY DEF ElementsOf
  <2>2. i = 1 \/ 1 < i
    BY <1>1, <2>1
  <2>3. QED BY <1>1, <2>1, <2>2 DEF Ascending
<1>5. ASSUME NEW q \in ElementsOf(t) PROVE q \in ElementsOf(s) /\ q # s[1]
  <2>1. PICK i \in 1..Len(t) : q = t[i]
    BY DEF ElementsOf
  <2>2. i + 1 \in 1..Len(s) /\ q = s[i + 1] /\ 1 < i + 1 /\ 1 \in 1..Len(s)
    BY <1>1, <2>1
  <2>3. Rank[s[1]] < Rank[q] /\ q \in Phases /\ s[1] \in Phases
    BY <1>2, <2>2 DEF Ascending
  <2>4. q # s[1]
    BY <1>2, <2>3
  <2>5. QED BY <2>2, <2>4 DEF ElementsOf
<1>6. ASSUME NEW q \in ElementsOf(s), q # s[1] PROVE q \in ElementsOf(t)
  <2>1. PICK i \in 1..Len(s) : q = s[i]
    BY DEF ElementsOf
  <2>2. i - 1 \in 1..Len(t) /\ q = t[i - 1]
    BY <1>1, <1>6, <2>1
  <2>3. QED BY <2>2 DEF ElementsOf
<1>7. s[1] \in ElementsOf(s)
  BY <1>1 DEF ElementsOf
<1>8. Ascending(t) /\ ElementsOf(t) = ElementsOf(s) \ {s[1]}
  BY <1>3, <1>5, <1>6 DEF Ascending
<1>9. QED BY <1>1, <1>4, <1>7, <1>8 DEF t

-----------------------------------------------------------------------------
(***************************************************************************)
(* The inductive invariant.  PlanInv says which phases may be left, and      *)
(* hence in which order they come; VirtualInv that a link is only created    *)
(* once its package has been imported; LinkInv what the phases that are over *)
(* have achieved in node_modules; SavedInv what they have written.           *)
(***************************************************************************)
ViaLock == Flag("lockfile") \/ Flag("offline")

\* The way to install is chosen, or the command has even ended well.
Decided == args # NoCommand /\ args.cmd # "fetch" /\ "decide" \notin Left

Installing == Decided /\ ~OnlyLockfile

InstallPhases == {"import", "resolve", "unlink", "link", "remove_bins", "create_bins"}

\* What may be left of the plan of command c, and hence what has come before.
Rules(c, left) ==
  LET flag(f) == f \in c.flags
      only == flag("lockfile_only") \/ flag("resolution_only")
      via == flag("lockfile") \/ flag("offline")
  IN  /\ {"template", "edit"} \cap left # {} => "decide" \in left
      /\ "decide" \in left =>
           /\ c.cmd # "fetch" /\ left \subseteq {"template", "edit", "decide", "truncate", "save"}
           /\ c.cmd # "install" => {"truncate", "save"} \subseteq left
      /\ c.cmd = "fetch" => left \in {{}, {"fetch"}, {"import"}}
      /\ c.cmd # "fetch" => "fetch" \notin left
      /\ c.cmd \in {"install", "fetch"} => {"truncate", "save"} \cap left = {}
      /\ "truncate" \in left => "save" \in left
      /\ "generate" \in left => "truncate_lock" \in left
      /\ "truncate_lock" \in left => "write_lock" \in left
      /\ c.cmd # "fetch" /\ only => left \cap InstallPhases = {}
      /\ c.cmd # "fetch" /\ "decide" \notin left /\ ~only =>
           /\ "write_lock" \in left => "import" \in left
           /\ "import" \in left => "unlink" \in left
           /\ "resolve" \in left => "unlink" \in left
           /\ "unlink" \in left /\ via => "link" \in left
           /\ {"unlink", "link"} \cap left # {} => "remove_bins" \in left
           /\ "remove_bins" \in left => "create_bins" \in left
           /\ ~via => {"generate", "import", "link"} \cap left = {}
           /\ via => "resolve" \notin left

PlanInv ==
  /\ Ascending(steps)
  /\ args = NoCommand => Left = {}
  /\ args # NoCommand => Rules(args, Left)

\* A lockfile is one file.
OneLock == (\A l, k \in pnpm_lock : l = k) /\ (\A l, k \in lockfile : l = k)

VirtualInv ==
  /\ LinksLead
  /\ At("import") => done \subseteq virtual
  /\ Installing /\ "link" \in Left /\ "import" \notin Left => Packages(LockGroups) \subseteq virtual

\* The lockfile has what the manifest declares in the command's groups.
Fits(l) == lockfile_matches_manifest(manifest, l, InstallGroups \ {"peer"})

Directs(l) == InGroups(l, InstallGroups)

\* What the link of dependency k of the lockfile leads to, and that of e of package.json.
LinkedTo(l, k) == link[k.name] # {} /\ link[k.name] \subseteq {Locked(j) : j \in Directs(l)}

LinkedAs(e) ==
  /\ link[e.name] # {}
  /\ \A r \in link[e.name] : \E x \in Direct : x.name = e.name /\ Satisfies(r.version, x.spec)

LinkInv ==
  Installing /\ "generate" \notin Left =>
    /\ ViaLock => \E l \in lockfile : AsItIs \/ Fits(l)
    /\ "unlink" \notin Left => \A n \in Names : link[n] # {} => n \in Desired
    /\ At("link") => \A l \in lockfile : \A k \in done : k \in Directs(l) /\ LinkedTo(l, k)
    /\ ViaLock /\ "link" \notin Left => \A l \in lockfile : \A k \in Directs(l) : LinkedTo(l, k)
    /\ At("resolve") => \A e \in done : e \in Direct /\ LinkedAs(e)
    /\ ~ViaLock /\ "resolve" \notin Left => \A e \in Direct : LinkedAs(e)

BinInv ==
  Installing /\ "create_bins" \notin Left => bin = [x \in Executables |-> Owner(x)]

SavedInv ==
  args # NoCommand /\ args.cmd # "fetch" =>
    /\ "edit" \notin Left /\ "save" \notin Left => package_json = manifest
    /\ "package.json" \in torn =>
         "template" \in Left \/ ("truncate" \notin Left /\ "save" \in Left)
    /\ Flag("lockfile") =>
         /\ "decide" \in Left /\ "template" \notin Left => "pnpm-lock.yaml" \notin torn /\ lockfile \in {{}, pnpm_lock}
         /\ Decided /\ ~AsItIs /\ "generate" \notin Left => \E l \in lockfile : Fits(l)
         /\ Decided /\ ~AsItIs /\ "write_lock" \notin Left =>
              "pnpm-lock.yaml" \notin torn /\ pnpm_lock = lockfile

ProjectInv ==
  /\ TypeOK /\ LocksSatisfySpecifiers /\ PlanInv /\ OneLock
  /\ VirtualInv /\ LinkInv /\ BinInv /\ SavedInv

-----------------------------------------------------------------------------
(* How a command proceeds through its plan.                                 *)

LEMMA AtFacts ==
  ASSUME TypeOK, PlanInv, NEW p, At(p)
  PROVE  /\ Running /\ Head(steps) = p /\ args \in Commands /\ args # NoCommand
         /\ p \in Left /\ Left \subseteq Phases
         /\ \A q \in Left : q = p \/ Rank[p] < Rank[q]
<1>1. Running /\ Head(steps) = p /\ args \in Commands
  BY DEF At, TypeOK
<1>2. args # NoCommand
  BY <1>1, ProjectAssumption
<1>3. steps \in Seq(Phases) /\ steps # <<>> /\ Ascending(steps)
  BY <1>1 DEF Running, TypeOK, PlanInv
<1>4. Left \subseteq Phases
  BY <1>3, SeqType DEF Left, ElementsOf
<1>5. QED BY <1>1, <1>2, <1>3, <1>4, HeadOfPlan DEF Left

LEMMA ContinueFacts ==
  ASSUME TypeOK, PlanInv, NEW p, At(p), NEW s \in Seq(Phases), Ascending(s), Continue(s),
         \A q \in ElementsOf(s), r \in Left \ {p} : Rank[q] < Rank[r]
  PROVE  /\ Ascending(steps)' /\ Left' = ElementsOf(s) \cup (Left \ {p})
         /\ args' = args /\ done' = {}
<1>1. steps \in Seq(Phases) /\ steps # <<>> /\ Ascending(steps) /\ Head(steps) = p
  BY DEF At, Running, TypeOK, PlanInv
<1>2. /\ Tail(steps) \in Seq(Phases) /\ Ascending(Tail(steps))
      /\ ElementsOf(Tail(steps)) = Left \ {p}
  BY <1>1, HeadOfPlan DEF Left
<1>3. steps' = s \o Tail(steps) /\ args' = args /\ done' = {}
  BY DEF Continue
<1>4. /\ Ascending(s \o Tail(steps))
      /\ ElementsOf(s \o Tail(steps)) = ElementsOf(s) \cup (Left \ {p})
  BY <1>2, ConcatPlan
<1>5. Left' = ElementsOf(steps')
  BY DEF Left, ElementsOf
<1>6. (Ascending(steps))' <=> Ascending(steps')
  BY DEF Ascending
<1>7. QED BY <1>3, <1>4, <1>5, <1>6

\* The phase is over and the next one begins.
LEMMA Advance ==
  ASSUME TypeOK, PlanInv, NEW p, At(p), Continue(<<>>)
  PROVE  Ascending(steps)' /\ Left' = Left \ {p} /\ args' = args /\ done' = {}
<1>1. <<>> \in Seq(Phases) /\ Ascending(<<>>) /\ ElementsOf(<<>>) = {}
  BY DEF Ascending, ElementsOf
<1>2. \A q \in ElementsOf(<<>>), r \in Left \ {p} : Rank[q] < Rank[r]
  BY <1>1
<1>3. QED BY <1>1, <1>2, ContinueFacts

LEMMA PlanElements ==
  /\ ElementsOf(GenerateAndSave) = {"generate", "truncate_lock", "write_lock"}
  /\ Ascending(GenerateAndSave) /\ GenerateAndSave \in Seq(Phases)
  /\ ElementsOf(InstallFrozenLockfile \o CreateBins) =
       {"import", "unlink", "link", "remove_bins", "create_bins"}
  /\ Ascending(InstallFrozenLockfile \o CreateBins)
  /\ InstallFrozenLockfile \o CreateBins \in Seq(Phases)
  /\ ElementsOf(InstallWithoutLockfile \o CreateBins) =
       {"resolve", "unlink", "remove_bins", "create_bins"}
  /\ Ascending(InstallWithoutLockfile \o CreateBins)
  /\ InstallWithoutLockfile \o CreateBins \in Seq(Phases)
  /\ ElementsOf(GenerateAndSave \o InstallFrozenLockfile \o CreateBins) =
       {"generate", "truncate_lock", "write_lock",
        "import", "unlink", "link", "remove_bins", "create_bins"}
  /\ Ascending(GenerateAndSave \o InstallFrozenLockfile \o CreateBins)
  /\ GenerateAndSave \o InstallFrozenLockfile \o CreateBins \in Seq(Phases)
  /\ ElementsOf(<<"import">>) = {"import"} /\ Ascending(<<"import">>)
  /\ <<"import">> \in Seq(Phases)
<1>1. /\ ElementsOf(GenerateAndSave) = {"generate", "truncate_lock", "write_lock"}
      /\ Ascending(GenerateAndSave) /\ GenerateAndSave \in Seq(Phases)
  <2>1. GenerateAndSave \in Seq(Phases)
    BY Plans
  <2>2. /\ GenerateAndSave[1] = "generate" /\ GenerateAndSave[2] = "truncate_lock"
        /\ GenerateAndSave[3] = "write_lock" /\ Len(GenerateAndSave) = 3
    BY DEF GenerateAndSave
  <2>3. QED BY <2>1, <2>2, Ranks DEF ElementsOf, Ascending
<1>2. /\ ElementsOf(InstallFrozenLockfile) = {"import", "unlink", "link"}
      /\ Ascending(InstallFrozenLockfile) /\ InstallFrozenLockfile \in Seq(Phases)
  <2>1. InstallFrozenLockfile \in Seq(Phases)
    BY DEF InstallFrozenLockfile, Phases
  <2>2. /\ InstallFrozenLockfile[1] = "import" /\ InstallFrozenLockfile[2] = "unlink"
        /\ InstallFrozenLockfile[3] = "link" /\ Len(InstallFrozenLockfile) = 3
    BY DEF InstallFrozenLockfile
  <2>3. QED BY <2>1, <2>2, Ranks DEF ElementsOf, Ascending
<1>3. /\ ElementsOf(InstallWithoutLockfile) = {"resolve", "unlink"}
      /\ Ascending(InstallWithoutLockfile) /\ InstallWithoutLockfile \in Seq(Phases)
  <2>1. InstallWithoutLockfile \in Seq(Phases)
    BY DEF InstallWithoutLockfile, Phases
  <2>2. /\ InstallWithoutLockfile[1] = "resolve" /\ InstallWithoutLockfile[2] = "unlink"
        /\ Len(InstallWithoutLockfile) = 2
    BY DEF InstallWithoutLockfile
  <2>3. QED BY <2>1, <2>2, Ranks DEF ElementsOf, Ascending
<1>4. /\ ElementsOf(CreateBins) = {"remove_bins", "create_bins"}
      /\ Ascending(CreateBins) /\ CreateBins \in Seq(Phases)
  <2>1. CreateBins \in Seq(Phases)
    BY DEF CreateBins, Phases
  <2>2. /\ CreateBins[1] = "remove_bins" /\ CreateBins[2] = "create_bins"
        /\ Len(CreateBins) = 2
    BY DEF CreateBins
  <2>3. QED BY <2>1, <2>2, Ranks DEF ElementsOf, Ascending
<1>5. ElementsOf(<<"import">>) = {"import"} /\ Ascending(<<"import">>) /\ <<"import">> \in Seq(Phases)
  BY Plans DEF ElementsOf, Ascending
<1>6. /\ InstallFrozenLockfile \o CreateBins \in Seq(Phases)
      /\ Ascending(InstallFrozenLockfile \o CreateBins)
      /\ ElementsOf(InstallFrozenLockfile \o CreateBins) =
           {"import", "unlink", "link", "remove_bins", "create_bins"}
  <2>1. \A p \in ElementsOf(InstallFrozenLockfile), q \in ElementsOf(CreateBins) :
          Rank[p] < Rank[q]
    BY <1>2, <1>4, Ranks
  <2>2. QED BY <1>2, <1>4, <2>1, ConcatPlan
<1>7. /\ InstallWithoutLockfile \o CreateBins \in Seq(Phases)
      /\ Ascending(InstallWithoutLockfile \o CreateBins)
      /\ ElementsOf(InstallWithoutLockfile \o CreateBins) =
           {"resolve", "unlink", "remove_bins", "create_bins"}
  <2>1. \A p \in ElementsOf(InstallWithoutLockfile), q \in ElementsOf(CreateBins) :
          Rank[p] < Rank[q]
    BY <1>3, <1>4, Ranks
  <2>2. QED BY <1>3, <1>4, <2>1, ConcatPlan
<1>8. /\ GenerateAndSave \o InstallFrozenLockfile \o CreateBins \in Seq(Phases)
      /\ Ascending(GenerateAndSave \o InstallFrozenLockfile \o CreateBins)
      /\ ElementsOf(GenerateAndSave \o InstallFrozenLockfile \o CreateBins) =
           {"generate", "truncate_lock", "write_lock",
            "import", "unlink", "link", "remove_bins", "create_bins"}
  <2>1. \A p \in ElementsOf(GenerateAndSave), q \in ElementsOf(InstallFrozenLockfile) :
          Rank[p] < Rank[q]
    BY <1>1, <1>2, Ranks
  <2>2. /\ GenerateAndSave \o InstallFrozenLockfile \in Seq(Phases)
        /\ Ascending(GenerateAndSave \o InstallFrozenLockfile)
        /\ ElementsOf(GenerateAndSave \o InstallFrozenLockfile) =
             {"generate", "truncate_lock", "write_lock", "import", "unlink", "link"}
    BY <1>1, <1>2, <2>1, ConcatPlan
  <2>3. \A p \in ElementsOf(GenerateAndSave \o InstallFrozenLockfile), q \in ElementsOf(CreateBins) :
          Rank[p] < Rank[q]
    <3>1. \A p \in {"generate", "truncate_lock", "write_lock", "import", "unlink", "link"},
             q \in {"remove_bins", "create_bins"} : Rank[p] < Rank[q]
      BY Ranks
    <3>2. QED BY <1>4, <2>2, <3>1
  <2> DEFINE before == GenerateAndSave \o InstallFrozenLockfile
             after == CreateBins
  <2>4. /\ before \in Seq(Phases) /\ Ascending(before)
        /\ after \in Seq(Phases) /\ Ascending(after)
        /\ \A p \in ElementsOf(before), q \in ElementsOf(after) : Rank[p] < Rank[q]
    BY <1>4, <2>2, <2>3
  <2>5. ElementsOf(before) \cup ElementsOf(after) =
          {"generate", "truncate_lock", "write_lock",
           "import", "unlink", "link", "remove_bins", "create_bins"}
    BY <1>4, <2>2
  <2> HIDE DEF before, after
  <2>6. /\ before \o after \in Seq(Phases) /\ Ascending(before \o after)
        /\ ElementsOf(before \o after) = ElementsOf(before) \cup ElementsOf(after)
    BY <2>4, ConcatPlan
  <2>7. QED BY <2>5, <2>6 DEF before, after
<1>9. QED BY <1>1, <1>5, <1>6, <1>7, <1>8

\* A process that has ended has no plan, and owes nothing.
LEMMA FailFacts ==
  ASSUME Fail
  PROVE  /\ args' = NoCommand /\ Left' = {} /\ PlanInv' /\ LinkInv' /\ BinInv' /\ SavedInv'
         /\ ~Installing' /\ \A p : ~At(p)'
<1>1. args' = NoCommand /\ steps' = <<>>
  BY DEF Fail
<1>2. Left' = {} /\ Ascending(steps)'
  BY <1>1 DEF Left, ElementsOf, Ascending
<1>3. ~Running' /\ ~Decided' /\ ~Installing'
  BY <1>1 DEF Running, Decided, Installing
<1>4. QED BY <1>1, <1>2, <1>3 DEF PlanInv, LinkInv, BinInv, SavedInv, Decided, At

\* A command that has come to the end of a phase still keeps the rules.
LEMMA RulesLess ==
  ASSUME NEW c, NEW left \in SUBSET Phases, Rules(c, left), NEW p \in left, p # "decide",
         \A q \in left : q = p \/ Rank[p] < Rank[q]
  PROVE  Rules(c, left \ {p})
<1>1. p \in Phases
  OBVIOUS
<1>2. \A q \in left : q = p \/ Rank[p] < Rank[q]
  OBVIOUS
<1>3. CASE p \in {"template", "edit", "generate", "truncate_lock", "write_lock", "fetch"}
  BY <1>2, <1>3, Ranks DEF Rules, InstallPhases
<1>4. CASE p \in {"import", "resolve", "unlink", "link"}
  BY <1>2, <1>4, Ranks DEF Rules, InstallPhases
<1>5. CASE p \in {"remove_bins", "create_bins", "truncate", "save"}
  BY <1>2, <1>5, Ranks DEF Rules, InstallPhases
<1>6. QED BY <1>1, <1>3, <1>4, <1>5 DEF Phases

LEMMA AdvanceKeepsPlan ==
  ASSUME TypeOK, PlanInv, NEW p, At(p), p # "decide", Continue(<<>>)
  PROVE  PlanInv' /\ Left' = Left \ {p} /\ args' = args /\ done' = {}
<1>1. Ascending(steps)' /\ Left' = Left \ {p} /\ args' = args /\ done' = {}
  BY Advance
<1>2. Rules(args, Left \ {p})
  BY AtFacts, RulesLess DEF PlanInv
<1>3. args # NoCommand
  BY AtFacts
<1>4. QED BY <1>1, <1>2, <1>3 DEF PlanInv

LEMMA PlansBegin ==
  ASSUME NEW c
  PROVE  /\ StepsOf(c) \in Seq(Phases) /\ Ascending(StepsOf(c))
         /\ c.cmd = "fetch" => ElementsOf(StepsOf(c)) = {"fetch"}
         /\ c.cmd = "install" => ElementsOf(StepsOf(c)) = {"decide"}
         /\ c.cmd \notin {"fetch", "install"} =>
              ElementsOf(StepsOf(c)) = {"edit", "decide", "truncate", "save"}
<1> DEFINE s == StepsOf(c)
<1>1. s \in Seq(Phases)
  BY Plans
<1>2. CASE c.cmd = "fetch"
  <2>1. s = <<"fetch">>
    BY <1>2, Zenon DEF StepsOf
  <2> HIDE DEF s
  <2>2. ElementsOf(s) = {"fetch"} /\ Ascending(s)
    BY <2>1 DEF ElementsOf, Ascending
  <2>3. QED BY <1>1, <1>2, <2>2 DEF s
<1>3. CASE c.cmd = "install"
  <2>1. s = <<"decide">>
    BY <1>3, Zenon DEF StepsOf
  <2> HIDE DEF s
  <2>2. ElementsOf(s) = {"decide"} /\ Ascending(s)
    BY <2>1 DEF ElementsOf, Ascending
  <2>3. QED BY <1>1, <1>3, <2>2 DEF s
<1>4. CASE c.cmd \notin {"fetch", "install"}
  <2>1. s = <<"edit", "decide", "truncate", "save">>
    BY <1>4, Zenon DEF StepsOf
  <2> HIDE DEF s
  <2>2. s[1] = "edit" /\ s[2] = "decide" /\ s[3] = "truncate" /\ s[4] = "save" /\ Len(s) = 4
    BY <2>1
  <2>3. ElementsOf(s) = {"edit", "decide", "truncate", "save"} /\ Ascending(s)
    BY <2>2, Ranks DEF ElementsOf, Ascending
  <2>4. QED BY <1>1, <1>4, <2>3 DEF s
<1>5. QED BY <1>2, <1>3, <1>4

LEMMA StartPlan ==
  ASSUME TypeOK, NEW c \in Commands, Start(c)
  PROVE  /\ PlanInv' /\ (Fail \/ (args' = c /\ ~Decided'))
         /\ ~Fail /\ c.cmd # "fetch" => ("template" \in Left' <=> missing)
<1>1. CASE Fail
  BY <1>1, FailFacts
<1>2. CASE ~Fail
  <2> DEFINE s == StepsOf(c)
  <2>1. /\ args' = c /\ c # NoCommand
        /\ missing /\ c.cmd # "fetch" => steps' = <<"template">> \o s
        /\ ~missing \/ c.cmd = "fetch" => steps' = s
    BY <1>2, ProjectAssumption DEF Start
  <2>2. /\ s \in Seq(Phases) /\ Ascending(s)
        /\ c.cmd = "fetch" => ElementsOf(s) = {"fetch"}
        /\ c.cmd = "install" => ElementsOf(s) = {"decide"}
        /\ c.cmd \notin {"fetch", "install"} => ElementsOf(s) = {"edit", "decide", "truncate", "save"}
    BY PlansBegin
  <2> HIDE DEF s
  <2> DEFINE t == <<"template">>
  <2>3. t \in Seq(Phases) /\ Ascending(t) /\ ElementsOf(t) = {"template"}
    BY DEF Phases, Ascending, ElementsOf
  <2> HIDE DEF t
  <2>4. (Ascending(steps)' <=> Ascending(steps')) /\ Left' = ElementsOf(steps')
    BY DEF Ascending, Left, ElementsOf
  <2>5. CASE missing /\ c.cmd # "fetch"
    <3>0. ElementsOf(s) \subseteq {"edit", "decide", "truncate", "save"}
      <4>1. CASE c.cmd = "install"
        BY <2>2, <4>1
      <4>2. CASE c.cmd # "install"
        BY <2>2, <2>5, <4>2
      <4>3. QED BY <4>1, <4>2
    <3>1. \A q \in ElementsOf(t), p \in ElementsOf(s) : Rank[q] < Rank[p]
      <4>1. \A p \in ElementsOf(s) : Rank["template"] < Rank[p]
        BY <3>0, Ranks
      <4>2. QED BY <2>3, <4>1
    <3>2. Ascending(t \o s) /\ ElementsOf(t \o s) = {"template"} \cup ElementsOf(s)
      BY <2>2, <2>3, <3>1, ConcatPlan
    <3>3. Ascending(steps)' /\ Left' = {"template"} \cup ElementsOf(s)
      BY <2>1, <2>4, <2>5, <3>2 DEF t
    <3>4. CASE c.cmd = "install"
      BY <2>1, <2>2, <2>5, <3>3, <3>4 DEF PlanInv, Rules, Decided, InstallPhases
    <3>5. CASE c.cmd # "install"
      BY <2>1, <2>2, <2>5, <3>3, <3>5 DEF PlanInv, Rules, Decided, InstallPhases
    <3>6. QED BY <3>4, <3>5
  <2>6. CASE ~missing \/ c.cmd = "fetch"
    <3>1. Ascending(steps)' /\ Left' = ElementsOf(s)
      BY <2>1, <2>2, <2>4, <2>6
    <3>2. CASE c.cmd = "fetch"
      BY <2>1, <2>2, <3>1, <3>2 DEF PlanInv, Rules, Decided
    <3>3. CASE c.cmd = "install"
      BY <2>1, <2>2, <2>6, <3>1, <3>3 DEF PlanInv, Rules, Decided, InstallPhases
    <3>4. CASE c.cmd \notin {"fetch", "install"}
      BY <2>1, <2>2, <2>6, <3>1, <3>4 DEF PlanInv, Rules, Decided, InstallPhases
    <3>5. QED BY <3>2, <3>3, <3>4
  <2>7. QED BY <2>5, <2>6
<1>3. QED BY <1>1, <1>2

\* Install::run's choice, as the phases that are left after it.
LEMMA DecideFacts ==
  ASSUME TypeOK, PlanInv, LockfileOnly \/ OfflineInstall \/ OnlineInstall
  PROVE  /\ At("decide") /\ UNCHANGED <<world, files, modules>>
         /\ \/ Fail
            \/ /\ PlanInv' /\ args' = args /\ done' = {} /\ UNCHANGED <<manifest, lockfile>>
               /\ args \in Commands /\ args.cmd # "fetch"
               /\ Left \subseteq {"decide", "truncate", "save"}
               /\ \/ OnlyLockfile /\ InSync /\ Left' = Left \ {"decide"}
                  \/ /\ OnlyLockfile
                     /\ Left' = {"generate", "truncate_lock", "write_lock"} \cup (Left \ {"decide"})
                  \/ /\ ~OnlyLockfile /\ ViaLock /\ lockfile # {} /\ (AsItIs \/ InSync)
                     /\ Left' = {"import", "unlink", "link", "remove_bins", "create_bins"}
                                  \cup (Left \ {"decide"})
                  \/ /\ ~OnlyLockfile /\ ~ViaLock
                     /\ Left' = {"resolve", "unlink", "remove_bins", "create_bins"}
                                  \cup (Left \ {"decide"})
                  \/ /\ ~OnlyLockfile /\ ViaLock
                     /\ Left' = {"generate", "truncate_lock", "write_lock", "import", "unlink",
                                 "link", "remove_bins", "create_bins"} \cup (Left \ {"decide"})
<1> DEFINE rest == Left \ {"decide"}
<1>1. At("decide") /\ UNCHANGED <<world, files, modules>>
  BY DEF LockfileOnly, OfflineInstall, OnlineInstall
<1>2. /\ "decide" \in Left /\ Left \subseteq Phases /\ args \in Commands /\ args # NoCommand
      /\ \A q \in Left : q = "decide" \/ Rank["decide"] < Rank[q]
  BY <1>1, AtFacts
<1>3. Rules(args, Left)
  BY <1>2 DEF PlanInv
<1>4. /\ args.cmd # "fetch" /\ rest \subseteq {"truncate", "save"}
      /\ args.cmd # "install" => rest = {"truncate", "save"}
      /\ args.cmd = "install" => rest = {}
      /\ Left \subseteq {"decide", "truncate", "save"}
  BY <1>2, <1>3, Ranks DEF Rules
<1> HIDE DEF rest
<1>5. /\ \A q \in rest : Rank[q] >= 13
      /\ \A q \in {"generate", "truncate_lock", "write_lock", "import", "resolve", "unlink",
                   "link", "remove_bins", "create_bins"} : Rank[q] < 13 /\ Rank[q] \in Nat
      /\ \A q \in rest : Rank[q] \in Nat
  BY <1>4, Ranks
<1>6. ASSUME OnlyLockfile, Continue(<<>>)
      PROVE  PlanInv' /\ args' = args /\ done' = {} /\ Left' = rest
  <2>1. Ascending(steps)' /\ Left' = rest /\ args' = args /\ done' = {}
    BY <1>1, <1>6, Advance DEF rest
  <2>2. Rules(args, rest)
    BY <1>4 DEF Rules, InstallPhases
  <2>3. QED BY <1>2, <2>1, <2>2 DEF PlanInv
<1>7. ASSUME OnlyLockfile, Continue(GenerateAndSave)
      PROVE  /\ PlanInv' /\ args' = args /\ done' = {}
             /\ Left' = {"generate", "truncate_lock", "write_lock"} \cup rest
  <2> DEFINE s == GenerateAndSave
             elements == {"generate", "truncate_lock", "write_lock"}
  <2>1. /\ s \in Seq(Phases) /\ Ascending(s) /\ ElementsOf(s) = elements
        /\ Continue(s)
    BY <1>7, PlanElements
  <2>2. /\ Ascending(steps)' /\ args' = args /\ done' = {}
        /\ Left' = elements \cup rest
    <3>1. \A q \in elements, r \in rest : Rank[q] < Rank[r]
      BY <1>5
    <3> HIDE DEF s, elements
    <3>2. \A q \in ElementsOf(s), r \in Left \ {"decide"} : Rank[q] < Rank[r]
      BY <2>1, <3>1 DEF rest
    <3>3. QED BY <1>1, <2>1, <3>2, ContinueFacts DEF rest
  <2>3. Rules(args, {"generate", "truncate_lock", "write_lock"} \cup rest)
    BY <1>4, <1>7 DEF Rules, InstallPhases, OnlyLockfile, Flag
  <2>4. QED BY <1>2, <2>2, <2>3 DEF PlanInv
<1>8. ASSUME ~OnlyLockfile, ViaLock, Continue(InstallFrozenLockfile \o CreateBins)
      PROVE  /\ PlanInv' /\ args' = args /\ done' = {}
             /\ Left' = {"import", "unlink", "link", "remove_bins", "create_bins"} \cup rest
  <2> DEFINE s == InstallFrozenLockfile \o CreateBins
             elements == {"import", "unlink", "link", "remove_bins", "create_bins"}
  <2>1. /\ s \in Seq(Phases) /\ Ascending(s) /\ ElementsOf(s) = elements
        /\ Continue(s)
    BY <1>8, PlanElements
  <2>2. /\ Ascending(steps)' /\ args' = args /\ done' = {}
        /\ Left' = elements \cup rest
    <3>1. \A q \in elements, r \in rest : Rank[q] < Rank[r]
      BY <1>5
    <3> HIDE DEF s, elements
    <3>2. \A q \in ElementsOf(s), r \in Left \ {"decide"} : Rank[q] < Rank[r]
      BY <2>1, <3>1 DEF rest
    <3>3. QED BY <1>1, <2>1, <3>2, ContinueFacts DEF rest
  <2>3. Rules(args, {"import", "unlink", "link", "remove_bins", "create_bins"} \cup rest)
    BY <1>4, <1>8 DEF Rules, InstallPhases, OnlyLockfile, ViaLock, Flag
  <2>4. QED BY <1>2, <2>2, <2>3 DEF PlanInv
<1>9. ASSUME ~OnlyLockfile, ~ViaLock, Continue(InstallWithoutLockfile \o CreateBins)
      PROVE  /\ PlanInv' /\ args' = args /\ done' = {}
             /\ Left' = {"resolve", "unlink", "remove_bins", "create_bins"} \cup rest
  <2> DEFINE s == InstallWithoutLockfile \o CreateBins
             elements == {"resolve", "unlink", "remove_bins", "create_bins"}
  <2>1. /\ s \in Seq(Phases) /\ Ascending(s) /\ ElementsOf(s) = elements
        /\ Continue(s)
    BY <1>9, PlanElements
  <2>2. /\ Ascending(steps)' /\ args' = args /\ done' = {}
        /\ Left' = elements \cup rest
    <3>1. \A q \in elements, r \in rest : Rank[q] < Rank[r]
      BY <1>5
    <3> HIDE DEF s, elements
    <3>2. \A q \in ElementsOf(s), r \in Left \ {"decide"} : Rank[q] < Rank[r]
      BY <2>1, <3>1 DEF rest
    <3>3. QED BY <1>1, <2>1, <3>2, ContinueFacts DEF rest
  <2>3. Rules(args, {"resolve", "unlink", "remove_bins", "create_bins"} \cup rest)
    BY <1>4, <1>9 DEF Rules, InstallPhases, OnlyLockfile, ViaLock, Flag
  <2>4. QED BY <1>2, <2>2, <2>3 DEF PlanInv
<1>10. ASSUME ~OnlyLockfile, ViaLock,
              Continue(GenerateAndSave \o InstallFrozenLockfile \o CreateBins)
       PROVE  /\ PlanInv' /\ args' = args /\ done' = {}
              /\ Left' = {"generate", "truncate_lock", "write_lock", "import", "unlink",
                          "link", "remove_bins", "create_bins"} \cup rest
  <2> DEFINE s == GenerateAndSave \o InstallFrozenLockfile \o CreateBins
             elements == {"generate", "truncate_lock", "write_lock", "import", "unlink",
                         "link", "remove_bins", "create_bins"}
  <2>1. /\ s \in Seq(Phases) /\ Ascending(s) /\ ElementsOf(s) = elements
        /\ Continue(s)
    BY <1>10, PlanElements
  <2>2. /\ Ascending(steps)' /\ args' = args /\ done' = {}
        /\ Left' = elements \cup rest
    <3>1. \A q \in elements, r \in rest : Rank[q] < Rank[r]
      BY <1>5
    <3> HIDE DEF s, elements
    <3>2. \A q \in ElementsOf(s), r \in Left \ {"decide"} : Rank[q] < Rank[r]
      BY <2>1, <3>1 DEF rest
    <3>3. QED BY <1>1, <2>1, <3>2, ContinueFacts DEF rest
  <2>3. Rules(args, {"generate", "truncate_lock", "write_lock", "import", "unlink",
                     "link", "remove_bins", "create_bins"} \cup rest)
    BY <1>4, <1>10 DEF Rules, InstallPhases, OnlyLockfile, ViaLock, Flag
  <2>4. QED BY <1>2, <2>2, <2>3 DEF PlanInv
<1>11. CASE LockfileOnly
  <2>1. \/ Fail
        \/ OnlyLockfile /\ InSync /\ Continue(<<>>) /\ UNCHANGED <<manifest, lockfile>>
        \/ OnlyLockfile /\ Continue(GenerateAndSave) /\ UNCHANGED <<manifest, lockfile>>
    BY <1>11 DEF LockfileOnly
  <2>2. QED BY <1>1, <1>2, <1>4, <1>6, <1>7, <2>1 DEF rest
<1>12. CASE OfflineInstall
  <2>1. \/ Fail
        \/ /\ ~OnlyLockfile /\ ViaLock /\ lockfile # {} /\ (AsItIs \/ InSync)
           /\ Continue(InstallFrozenLockfile \o CreateBins) /\ UNCHANGED <<manifest, lockfile>>
    BY <1>12 DEF OfflineInstall, ViaLock, AsItIs
  <2>2. QED BY <1>1, <1>2, <1>4, <1>8, <2>1 DEF rest
<1>13. CASE OnlineInstall
  <2>1. \/ Fail
        \/ /\ ~OnlyLockfile /\ ~ViaLock /\ UNCHANGED <<manifest, lockfile>>
           /\ Continue(InstallWithoutLockfile \o CreateBins)
        \/ /\ ~OnlyLockfile /\ ViaLock /\ lockfile # {} /\ InSync /\ UNCHANGED <<manifest, lockfile>>
           /\ Continue(InstallFrozenLockfile \o CreateBins)
        \/ /\ ~OnlyLockfile /\ ViaLock /\ UNCHANGED <<manifest, lockfile>>
           /\ Continue(GenerateAndSave \o InstallFrozenLockfile \o CreateBins)
    BY <1>13 DEF OnlineInstall, ViaLock, InSync
  <2>2. QED BY <1>1, <1>2, <1>4, <1>8, <1>9, <1>10, <2>1 DEF rest
<1>14. QED BY <1>11, <1>12, <1>13

-----------------------------------------------------------------------------
(* Every step keeps the invariant.                                          *)

\* What depends on the command, the manifest and the lockfile only.
LEMMA SameMemory ==
  ASSUME UNCHANGED <<args, manifest, lockfile>>
  PROVE  /\ (OnlyLockfile <=> OnlyLockfile') /\ (ViaLock <=> ViaLock') /\ (AsItIs <=> AsItIs')
         /\ (Flag("lockfile") <=> Flag("lockfile")')
         /\ Direct' = Direct /\ Desired' = Desired /\ Wanted' = Wanted
         /\ Packages(LockGroups)' = Packages(LockGroups)
         /\ \A l : Fits(l)' <=> Fits(l)
         /\ \A l : Directs(l)' = Directs(l)
<1>1. InstallGroups' = InstallGroups /\ \A f : Flag(f)' <=> Flag(f)
  BY DEF InstallGroups, Flag
<1>2. (OnlyLockfile <=> OnlyLockfile') /\ (ViaLock <=> ViaLock') /\ (AsItIs <=> AsItIs')
  BY DEF OnlyLockfile, ViaLock, AsItIs, Flag
<1>3. Direct' = Direct /\ Desired' = Desired
  BY <1>1 DEF Direct, Desired, InGroups, Flag
<1>4. Packages(LockGroups)' = Packages(LockGroups) /\ Wanted' = Wanted
  BY DEF Packages, InGroups, Wanted, LockGroups
<1>5. \A l : (Fits(l)' <=> Fits(l)) /\ Directs(l)' = Directs(l)
  BY <1>1 DEF Fits, Directs, lockfile_matches_manifest, InGroups, Declared
<1>6. QED BY <1>1, <1>2, <1>3, <1>4, <1>5 DEF Flag

Others == VirtualInv /\ LinkInv /\ BinInv /\ SavedInv /\ OneLock

LEMMA EnvironmentKeeps ==
  ASSUME ProjectInv,
         \/ Kill \/ EditManifest \/ DeleteManifest \/ DeleteLockfile \/ DeleteModules
         \/ \E n \in Names : Publish(n)
  PROVE  PlanInv' /\ Others'
<1>1. Fail
  BY DEF Kill, EditManifest, DeleteManifest, DeleteLockfile, DeleteModules, Publish
<1>2. lockfile' = {} /\ pnpm_lock' \in {{}, pnpm_lock}
  BY <1>1 DEF Kill, EditManifest, DeleteManifest, DeleteLockfile, DeleteModules, Publish, Fail, files
<1>3. OneLock'
  BY <1>2 DEF OneLock, ProjectInv
<1>4. LinksLead'
  <2>1. \A n \in Names : link'[n] \in {{}, link[n]}
    BY DEF ProjectInv, TypeOK, Kill, EditManifest, DeleteManifest, DeleteLockfile, DeleteModules, Publish, modules
  <2>2. virtual' = virtual \/ \A n \in Names : link'[n] = {}
    BY DEF Kill, EditManifest, DeleteManifest, DeleteLockfile, DeleteModules, Publish, modules
  <2>3. QED BY <2>1, <2>2 DEF ProjectInv, VirtualInv, LinksLead
<1>5. QED BY <1>1, <1>3, <1>4, FailFacts DEF Others, VirtualInv

LEMMA StartKeeps ==
  ASSUME ProjectInv, NEW c \in Commands, Start(c)
  PROVE  PlanInv' /\ Others'
<1>1. UNCHANGED <<world, package_json, pnpm_lock, modules>>
  BY DEF Start
<1>2. LinksLead' /\ OneLock'
  <2>1. lockfile' \in {{}, pnpm_lock}
    BY DEF Start, LockfileFor, Fail
  <2>2. QED BY <1>1, <2>1 DEF ProjectInv, OneLock, VirtualInv, LinksLead, modules
<1>3. CASE Fail
  BY <1>2, <1>3, FailFacts DEF Others, VirtualInv
<1>4. CASE ~Fail
  <2>1. /\ PlanInv' /\ args' = c /\ ~Decided'
        /\ c.cmd # "fetch" => ("template" \in Left' <=> missing)
    BY <1>4, StartPlan DEF ProjectInv
  <2>2. done' = {} /\ (c.cmd # "fetch" => manifest' = package_json)
    BY <1>4 DEF Start
  <2>3. ~missing /\ c.cmd # "fetch" =>
          Readable(c) /\ torn' = torn /\ lockfile' = LockfileFor(c)
    BY <1>4 DEF Start
  <2>4. VirtualInv' /\ LinkInv' /\ BinInv'
    BY <1>2, <2>1, <2>2 DEF VirtualInv, LinkInv, BinInv, Installing
  <2>5. SavedInv'
    <3> SUFFICES ASSUME c.cmd # "fetch" PROVE SavedInv'
      BY <2>1 DEF SavedInv
    <3>1. package_json' = manifest'
      BY <1>1, <2>2
    <3>2. CASE missing
      BY <2>1, <3>1, <3>2 DEF SavedInv
    <3>3. CASE ~missing
      <4>1. "package.json" \notin torn'
        BY <2>3, <3>3 DEF Readable
      <4>2. Flag("lockfile")' => "pnpm-lock.yaml" \notin torn' /\ lockfile' \in {{}, pnpm_lock'}
        BY <1>1, <2>1, <2>3, <3>3 DEF Readable, ReadsLockfile, LockfileFor, Flag
      <4>3. QED BY <2>1, <3>1, <4>1, <4>2 DEF SavedInv
    <3>4. QED BY <3>2, <3>3
  <2>6. QED BY <1>2, <2>1, <2>4, <2>5 DEF Others
<1>5. QED BY <1>3, <1>4

LEMMA TemplateKeeps ==
  ASSUME ProjectInv, WriteTemplate
  PROVE  PlanInv' /\ Others'
<1>1. At("template") /\ UNCHANGED <<package_json, pnpm_lock, modules>> /\ torn' = torn \ {"package.json"}
  BY DEF WriteTemplate
<1>2. lockfile' \in {{}, pnpm_lock}
  BY DEF WriteTemplate, LockfileFor, Fail
<1>3. LinksLead' /\ OneLock'
  BY <1>1, <1>2 DEF ProjectInv, OneLock, VirtualInv, LinksLead, modules
<1>4. CASE Fail
  BY <1>3, <1>4, FailFacts DEF Others, VirtualInv
<1>5. CASE ~Fail
  <2>1. /\ Continue(<<>>) /\ UNCHANGED manifest
        /\ ReadsLockfile(args) => "pnpm-lock.yaml" \notin torn
    BY <1>5 DEF WriteTemplate
  <2>2. PlanInv' /\ Left' = Left \ {"template"} /\ args' = args /\ done' = {}
    BY <1>1, <2>1, AdvanceKeepsPlan DEF ProjectInv
  <2>3. /\ args \in Commands /\ args # NoCommand /\ "template" \in Left /\ "decide" \in Left
        /\ args.cmd # "fetch"
    <3>1. args \in Commands /\ args # NoCommand /\ "template" \in Left
      BY <1>1, AtFacts DEF ProjectInv
    <3>2. QED BY <3>1 DEF ProjectInv, PlanInv, Rules
  <2>4. ~Decided' /\ ~Installing'
    BY <2>2, <2>3 DEF Decided, Installing
  <2>5. Flag("lockfile")' => "pnpm-lock.yaml" \notin torn' /\ lockfile' \in {{}, pnpm_lock'}
    BY <1>1, <1>2, <2>1, <2>2 DEF ReadsLockfile, Flag
  <2>6. SavedInv'
    BY <1>1, <2>1, <2>2, <2>3, <2>4, <2>5 DEF ProjectInv, SavedInv
  <2>7. QED BY <1>3, <2>2, <2>4, <2>6 DEF Others, VirtualInv, LinkInv, BinInv
<1>6. QED BY <1>4, <1>5

LEMMA EditKeeps ==
  ASSUME ProjectInv, Add \/ Remove \/ Update
  PROVE  PlanInv' /\ Others'
<1>1. At("edit") /\ UNCHANGED <<files, modules>>
  BY DEF Add, Remove, Update
<1>2. lockfile' \in {{}, lockfile}
  BY DEF Add, Remove, Update, Fail
<1>3. LinksLead' /\ OneLock'
  BY <1>1, <1>2 DEF ProjectInv, OneLock, VirtualInv, LinksLead, files, modules
<1>4. CASE Fail
  BY <1>3, <1>4, FailFacts DEF Others, VirtualInv
<1>5. CASE ~Fail
  <2>1. Continue(<<>>) /\ UNCHANGED lockfile
    BY <1>5 DEF Add, Remove, Update
  <2>2. PlanInv' /\ Left' = Left \ {"edit"} /\ args' = args /\ done' = {}
    BY <1>1, <2>1, AdvanceKeepsPlan DEF ProjectInv
  <2>3. /\ args \in Commands /\ args # NoCommand /\ "edit" \in Left /\ "decide" \in Left
        /\ args.cmd \in {"add", "remove", "update"}
        /\ {"truncate", "save"} \subseteq Left
    <3>1. args \in Commands /\ args # NoCommand /\ "edit" \in Left
      BY <1>1, AtFacts DEF ProjectInv
    <3>2. args.cmd \in {"add", "remove", "update"}
      BY DEF Add, Remove, Update
    <3>3. QED BY <3>1, <3>2 DEF ProjectInv, PlanInv, Rules
  <2>4. ~Decided' /\ ~Installing'
    BY <2>2, <2>3 DEF Decided, Installing
  <2>5. SavedInv'
    BY <1>1, <2>1, <2>2, <2>3, <2>4 DEF ProjectInv, SavedInv, Flag, files
  <2>6. QED BY <1>3, <2>2, <2>4, <2>5 DEF Others, VirtualInv, LinkInv, BinInv
<1>6. QED BY <1>4, <1>5

\* A lockfile in sync has what the manifest declares, the peers left aside.
LEMMA InSyncFits ==
  ASSUME InSync
  PROVE  \E l \in lockfile : Fits(l)
  BY DEF InSync, Fits, lockfile_matches_manifest

LEMMA DecideKeeps ==
  ASSUME ProjectInv, LockfileOnly \/ OfflineInstall \/ OnlineInstall
  PROVE  PlanInv' /\ Others'
<1>1. At("decide") /\ UNCHANGED <<world, files, modules>>
  BY DecideFacts DEF ProjectInv
<1>2. lockfile' \in {{}, lockfile}
  BY DEF LockfileOnly, OfflineInstall, OnlineInstall, Fail
<1>3. LinksLead' /\ OneLock'
  BY <1>1, <1>2 DEF ProjectInv, OneLock, VirtualInv, LinksLead, files, modules
<1>4. CASE Fail
  BY <1>3, <1>4, FailFacts DEF Others, VirtualInv
<1>5. CASE ~Fail
  <2>1. /\ PlanInv' /\ args' = args /\ done' = {} /\ UNCHANGED <<manifest, lockfile>>
        /\ args \in Commands /\ args.cmd # "fetch" /\ Left \subseteq {"decide", "truncate", "save"}
    BY <1>5, DecideFacts DEF ProjectInv
  <2>2. /\ (OnlyLockfile <=> OnlyLockfile') /\ (ViaLock <=> ViaLock') /\ (AsItIs <=> AsItIs')
        /\ (Flag("lockfile") <=> Flag("lockfile")')
        /\ \A l : Fits(l)' <=> Fits(l)
    BY <2>1, SameMemory
  <2>3. /\ Installing' => "remove_bins" \in Left' /\ "create_bins" \in Left' /\ "unlink" \in Left'
        /\ Installing' /\ "link" \in Left' => "import" \in Left'
        /\ Installing' /\ ViaLock => "link" \in Left'
        /\ Installing' /\ ~ViaLock => "resolve" \in Left'
        /\ "truncate" \in Left' <=> "truncate" \in Left
        /\ "save" \in Left' <=> "save" \in Left
        /\ "edit" \notin Left /\ "edit" \notin Left'
        /\ "generate" \in Left' => "write_lock" \in Left'
    BY <1>5, <2>1, <2>2, DecideFacts DEF ProjectInv, Installing
  <2>4. \/ "generate" \in Left' \/ (\E l \in lockfile : Fits(l))
        \/ Installing' /\ AsItIs /\ lockfile # {}
        \/ Installing' /\ ~ViaLock
    <3>1. Decided' \/ "decide" \in Left'
      BY <2>1, ProjectAssumption DEF Decided
    <3>2. "decide" \notin Left'
      BY <1>5, <2>1, DecideFacts DEF ProjectInv
    <3>3. QED BY <1>5, <2>2, <3>1, <3>2, InSyncFits, DecideFacts DEF ProjectInv, Installing
  <2>5. VirtualInv'
    BY <1>3, <2>1, <2>3 DEF VirtualInv
  <2>6. LinkInv'
    <3> SUFFICES ASSUME Installing', "generate" \notin Left' PROVE LinkInv'
      BY DEF LinkInv
    <3>1. ViaLock => \E l \in lockfile : AsItIs \/ Fits(l)
      BY <2>4
    <3>2. ViaLock' => \E l \in lockfile' : AsItIs' \/ Fits(l)'
      BY <2>1, <2>2, <3>1
    <3>3. QED BY <2>1, <2>2, <2>3, <3>2 DEF LinkInv
  <2>7. BinInv'
    BY <2>3 DEF BinInv
  <2>8. SavedInv'
    <3>1. /\ "decide" \in Left /\ args # NoCommand
          /\ Flag("lockfile") => "pnpm-lock.yaml" \notin torn /\ lockfile \in {{}, pnpm_lock}
          /\ "edit" \notin Left /\ "save" \notin Left => package_json = manifest
          /\ "package.json" \in torn => "truncate" \notin Left /\ "save" \in Left
      BY <1>1, <2>1, AtFacts DEF ProjectInv, SavedInv
    <3>2. /\ "edit" \notin Left' /\ "save" \notin Left' => package_json' = manifest'
          /\ "package.json" \in torn' => "truncate" \notin Left' /\ "save" \in Left'
      BY <1>1, <2>1, <2>3, <3>1 DEF files
    <3>3. ASSUME Flag("lockfile"), ~AsItIs, "generate" \notin Left'
          PROVE  /\ \E l \in lockfile' : Fits(l)'
                 /\ "pnpm-lock.yaml" \notin torn' /\ pnpm_lock' = lockfile'
      <4>1. PICK l \in lockfile : Fits(l)
        BY <2>4, <3>3 DEF ViaLock
      <4>2. Fits(l)' /\ l \in lockfile'
        BY <2>1, <2>2, <4>1
      <4>3. QED BY <1>1, <2>1, <3>1, <3>3, <4>1, <4>2 DEF files
    <3>4. "decide" \notin Left'
      BY <1>5, <2>1, DecideFacts DEF ProjectInv
    <3>5. QED BY <2>2, <2>3, <3>2, <3>3, <3>4 DEF SavedInv
  <2>9. QED BY <1>3, <2>1, <2>5, <2>6, <2>7, <2>8 DEF Others
<1>6. QED BY <1>4, <1>5

\* The generated importer has what the manifest declares, peers left aside.
LEMMA GenerateFits ==
  ASSUME TypeOK, Generate, ~Fail
  PROVE  \E l : lockfile' = {l} /\ Fits(l)
<1> DEFINE failing == {e \in Roots : Selected(e.name, e.spec) = {}}
           locks == UNION {{[group |-> e.group, name |-> e.name, spec |-> e.spec, version |-> v] :
                              v \in Selected(e.name, e.spec)} : e \in Roots}
<1>1. failing = {} /\ lockfile' = {locks}
  BY Zenon DEF Generate
<1>2. Roots = {e \in manifest : e.group \in InstallGroups /\ e.group \in LockGroups}
  BY DEF Roots, Direct, InGroups
<1>3. \A e \in Roots : e \in Entries
  BY <1>2 DEF TypeOK
<1>4. ASSUME NEW k \in locks
      PROVE  Declared(k) \in Roots /\ k.group = Declared(k).group
  <2>1. PICK e \in Roots : \E v \in Selected(e.name, e.spec) :
          k = [group |-> e.group, name |-> e.name, spec |-> e.spec, version |-> v]
    OBVIOUS
  <2>2. k.group = e.group /\ k.name = e.name /\ k.spec = e.spec
    BY <2>1
  <2>3. Declared(k) = e
    BY <1>3, <2>1, <2>2 DEF Declared, Entries
  <2>4. QED BY <2>1, <2>2, <2>3
<1>5. ASSUME NEW e \in Roots
      PROVE  \E k \in locks : Declared(k) = e /\ k.group = e.group
  <2>1. PICK v \in Selected(e.name, e.spec) : TRUE
    BY <1>1
  <2>2. PICK k : k = [group |-> e.group, name |-> e.name, spec |-> e.spec, version |-> v]
    OBVIOUS
  <2>3. k \in locks
    BY <2>1, <2>2
  <2>4. k.group = e.group /\ k.name = e.name /\ k.spec = e.spec
    BY <2>2
  <2>5. Declared(k) = e
    BY <1>3, <2>4 DEF Declared, Entries
  <2>6. QED BY <2>3, <2>4, <2>5
<1> HIDE DEF locks
<1>6. ASSUME NEW g \in InstallGroups \ {"peer"}
      PROVE  InGroups(manifest, {g}) = {Declared(k) : k \in InGroups(locks, {g})}
  <2>1. InGroups(manifest, {g}) \subseteq Roots
    BY <1>2 DEF InGroups, LockGroups, TypeOK, Entries
  <2>2. \A e \in InGroups(manifest, {g}) : \E k \in InGroups(locks, {g}) : e = Declared(k)
    BY <1>5, <2>1 DEF InGroups
  <2>3. \A k \in InGroups(locks, {g}) : Declared(k) \in InGroups(manifest, {g})
    BY <1>2, <1>4 DEF InGroups
  <2>4. QED BY <2>2, <2>3
<1>7. Fits(locks)
  BY <1>6 DEF Fits, lockfile_matches_manifest
<1>8. QED BY <1>1, <1>7 DEF locks

\* What depends on the command and the manifest only.
LEMMA SameCommand ==
  ASSUME UNCHANGED <<args, manifest>>
  PROVE  /\ (OnlyLockfile <=> OnlyLockfile') /\ (ViaLock <=> ViaLock') /\ (AsItIs <=> AsItIs')
         /\ (Flag("lockfile") <=> Flag("lockfile")') /\ Direct' = Direct
         /\ \A l : Fits(l)' <=> Fits(l)
<1>1. InstallGroups' = InstallGroups /\ \A f : Flag(f)' <=> Flag(f)
  BY DEF InstallGroups, Flag
<1>2. (OnlyLockfile <=> OnlyLockfile') /\ (ViaLock <=> ViaLock') /\ (AsItIs <=> AsItIs')
  BY DEF OnlyLockfile, ViaLock, AsItIs, Flag
<1>3. Direct' = Direct /\ \A l : Fits(l)' <=> Fits(l)
  BY <1>1 DEF Direct, Fits, lockfile_matches_manifest, InGroups, Declared
<1>4. QED BY <1>1, <1>2, <1>3

LEMMA GenerateKeeps ==
  ASSUME ProjectInv, Generate
  PROVE  PlanInv' /\ Others'
<1>1. At("generate") /\ UNCHANGED <<registry, store, files, modules>>
  BY DEF Generate
<1>2. pnpm_lock' = pnpm_lock /\ \A l, k \in lockfile' : l = k
  <2>1. lockfile' = {} \/ \E l : lockfile' = {l}
    BY GenerateFacts, FailType DEF ProjectInv
  <2>2. QED BY <1>1, <2>1 DEF files
<1>3. LinksLead' /\ OneLock'
  BY <1>1, <1>2 DEF ProjectInv, OneLock, VirtualInv, LinksLead, modules
<1>4. CASE Fail
  BY <1>3, <1>4, FailFacts DEF Others, VirtualInv
<1>5. CASE ~Fail
  <2>1. PICK l : lockfile' = {l} /\ Fits(l)
    BY <1>5, GenerateFits DEF ProjectInv
  <2>2. Continue(<<>>) /\ UNCHANGED manifest
    BY <1>5, GenerateFacts DEF ProjectInv
  <2>3. PlanInv' /\ Left' = Left \ {"generate"} /\ args' = args /\ done' = {}
    BY <1>1, <2>2, AdvanceKeepsPlan DEF ProjectInv
  <2>4. "generate" \in Left /\ args # NoCommand /\ Rules(args, Left)
    BY <1>1, AtFacts DEF ProjectInv, PlanInv
  <2>5. /\ (OnlyLockfile <=> OnlyLockfile') /\ (ViaLock <=> ViaLock') /\ (AsItIs <=> AsItIs')
        /\ (Flag("lockfile") <=> Flag("lockfile")')
        /\ \A k : Fits(k)' <=> Fits(k)
    BY <2>2, <2>3, SameCommand
  <2>6. "write_lock" \in Left' /\ args.cmd # "fetch" /\ "decide" \notin Left
    BY <2>3, <2>4 DEF Rules
  <2>7. Installing <=> Installing'
    BY <2>3, <2>5 DEF Installing, Decided
  <2>8. Installing => /\ "import" \in Left' /\ "unlink" \in Left' /\ "link" \in Left'
                      /\ "create_bins" \in Left' /\ ViaLock
    BY <2>3, <2>4 DEF Rules, Installing, Decided, OnlyLockfile, ViaLock, Flag
  <2>9. VirtualInv' /\ BinInv'
    BY <1>3, <2>3, <2>7, <2>8 DEF VirtualInv, BinInv
  <2>10. LinkInv'
    BY <2>1, <2>3, <2>5, <2>7, <2>8 DEF LinkInv
  <2>11. SavedInv'
    BY <1>1, <2>1, <2>2, <2>3, <2>4, <2>5, <2>6 DEF ProjectInv, SavedInv, files
  <2>12. QED BY <1>3, <2>3, <2>9, <2>10, <2>11 DEF Others
<1>6. QED BY <1>4, <1>5

\* A phase that touches neither node_modules nor what the command has in memory keeps
\* what the phases before it achieved there.
LEMMA AdvanceKeeps ==
  ASSUME ProjectInv, NEW p, At(p),
         p \notin {"decide", "generate", "fetch", "import", "resolve", "unlink", "link"},
         Continue(<<>>), UNCHANGED <<virtual, link, manifest, lockfile>>
  PROVE  /\ PlanInv' /\ Left' = Left \ {p} /\ args' = args
         /\ VirtualInv' /\ LinkInv' /\ (p # "create_bins" /\ bin' = bin => BinInv')
<1>1. PlanInv' /\ Left' = Left \ {p} /\ args' = args /\ done' = {}
  BY AdvanceKeepsPlan DEF ProjectInv
<1>2. /\ (OnlyLockfile <=> OnlyLockfile') /\ (ViaLock <=> ViaLock') /\ (AsItIs <=> AsItIs')
      /\ Direct' = Direct /\ Desired' = Desired
      /\ Packages(LockGroups)' = Packages(LockGroups)
      /\ \A l : Fits(l)' <=> Fits(l)
      /\ \A l : Directs(l)' = Directs(l)
  BY <1>1, SameMemory
<1>3. Installing <=> Installing'
  BY <1>1, <1>2 DEF Installing, Decided
<1>4. \A q \in {"generate", "import", "resolve", "unlink", "link"} : q \in Left' <=> q \in Left
  BY <1>1
<1>5. \A l, k : LinkedTo(l, k)' <=> LinkedTo(l, k)
  BY <1>2 DEF LinkedTo, Locked
<1>6. \A e : LinkedAs(e)' <=> LinkedAs(e)
  BY <1>2 DEF LinkedAs, Satisfies
<1>7. VirtualInv'
  BY <1>1, <1>2, <1>3, <1>4 DEF ProjectInv, VirtualInv, LinksLead
<1>8. LinkInv'
  BY <1>1, <1>2, <1>3, <1>4, <1>5, <1>6 DEF ProjectInv, LinkInv
<1>9. p # "create_bins" /\ bin' = bin => BinInv'
  BY <1>1, <1>3 DEF ProjectInv, BinInv, Owner, Providers
<1>10. QED BY <1>1, <1>7, <1>8, <1>9

LEMMA WriteLockKeeps ==
  ASSUME ProjectInv, TruncateLockfile \/ WriteLockfile
  PROVE  PlanInv' /\ Others'
<1> DEFINE p == IF TruncateLockfile THEN "truncate_lock" ELSE "write_lock"
<1>1. /\ p \in {"truncate_lock", "write_lock"} /\ At(p) /\ Continue(<<>>)
      /\ UNCHANGED <<package_json, virtual, link, bin, manifest, lockfile>>
      /\ ("package.json" \in torn' <=> "package.json" \in torn)
  BY DEF TruncateLockfile, WriteLockfile, modules
<1>2. p = "truncate_lock" => pnpm_lock' = {}
  BY DEF TruncateLockfile
<1>3. p = "write_lock" => pnpm_lock' = lockfile /\ "pnpm-lock.yaml" \notin torn'
  BY DEF WriteLockfile, TruncateLockfile
<1> HIDE DEF p
<1>4. /\ PlanInv' /\ Left' = Left \ {p} /\ args' = args
      /\ VirtualInv' /\ LinkInv' /\ BinInv'
  BY <1>1, AdvanceKeeps
<1>5. OneLock'
  BY <1>1, <1>2, <1>3 DEF ProjectInv, OneLock
<1>6. /\ p \in Left /\ args # NoCommand /\ Rules(args, Left) /\ "decide" \notin Left
      /\ p = "write_lock" => "generate" \notin Left
      /\ p = "truncate_lock" => "write_lock" \in Left'
  <2>1. /\ p \in Left /\ args # NoCommand /\ Rules(args, Left)
        /\ \A q \in Left : q = p \/ Rank[p] < Rank[q]
    BY <1>1, AtFacts DEF ProjectInv, PlanInv
  <2>2. QED BY <1>1, <1>4, <2>1, Ranks DEF Rules
<1>7. (AsItIs <=> AsItIs') /\ (Flag("lockfile") <=> Flag("lockfile")') /\ \A l : Fits(l)' <=> Fits(l)
  BY <1>1, <1>4, SameCommand
<1>8. "generate" \in Left' <=> "generate" \in Left
  BY <1>1, <1>4
<1>9. SavedInv'
  <2>1. /\ "edit" \notin Left' /\ "save" \notin Left' =>
             "edit" \notin Left /\ "save" \notin Left
        /\ ("truncate" \in Left' <=> "truncate" \in Left) /\ ("save" \in Left' <=> "save" \in Left)
        /\ "decide" \notin Left' /\ (Decided <=> Decided')
    BY <1>1, <1>4, <1>6 DEF Decided
  <2>2. "write_lock" \notin Left' => p = "write_lock"
    BY <1>1, <1>4, <1>6
  <2>3. QED BY <1>1, <1>2, <1>3, <1>4, <1>6, <1>7, <1>8, <2>1, <2>2 DEF ProjectInv, SavedInv
<1>10. QED BY <1>4, <1>5, <1>9 DEF Others

LEMMA WriteManifestKeeps ==
  ASSUME ProjectInv, TruncateManifest \/ WriteManifest
  PROVE  PlanInv' /\ Others'
<1> DEFINE p == IF TruncateManifest THEN "truncate" ELSE "save"
<1>1. /\ p \in {"truncate", "save"} /\ At(p) /\ Continue(<<>>)
      /\ UNCHANGED <<pnpm_lock, virtual, link, bin, manifest, lockfile>>
      /\ ("pnpm-lock.yaml" \in torn' <=> "pnpm-lock.yaml" \in torn)
  BY DEF TruncateManifest, WriteManifest, modules
<1>2. p = "save" => package_json' = manifest' /\ "package.json" \notin torn'
  BY <1>1 DEF WriteManifest, TruncateManifest
<1> HIDE DEF p
<1>3. /\ PlanInv' /\ Left' = Left \ {p} /\ args' = args
      /\ VirtualInv' /\ LinkInv' /\ BinInv'
  BY <1>1, AdvanceKeeps
<1>4. OneLock'
  BY <1>1 DEF ProjectInv, OneLock
<1>5. /\ p \in Left /\ args # NoCommand /\ "decide" \notin Left /\ "generate" \notin Left
      /\ "write_lock" \notin Left
      /\ p = "truncate" => "save" \in Left'
      /\ p = "save" => "truncate" \notin Left'
  <2>1. /\ p \in Left /\ args # NoCommand /\ Rules(args, Left)
        /\ \A q \in Left : q = p \/ Rank[p] < Rank[q]
    BY <1>1, AtFacts DEF ProjectInv, PlanInv
  <2>2. QED BY <1>1, <1>3, <2>1, Ranks DEF Rules
<1>6. (AsItIs <=> AsItIs') /\ (Flag("lockfile") <=> Flag("lockfile")') /\ \A l : Fits(l)' <=> Fits(l)
  BY <1>1, <1>3, SameCommand
<1>7. SavedInv'
  <2>1. "decide" \notin Left' /\ "generate" \notin Left' /\ "write_lock" \notin Left'
          /\ "truncate" \notin Left' /\ (Decided <=> Decided')
    BY <1>1, <1>3, <1>5 DEF Decided
  <2>2. p = "truncate" => "save" \in Left'
    BY <1>5
  <2>3. QED BY <1>1, <1>2, <1>3, <1>5, <1>6, <2>1, <2>2 DEF ProjectInv, SavedInv
<1>8. QED BY <1>3, <1>4, <1>7 DEF Others

\* A phase that touches no file but node_modules.
LEMMA SavedKept ==
  ASSUME ProjectInv, NEW p \in InstallPhases, Left' \in {Left, Left \ {p}},
         UNCHANGED <<files, args, manifest, lockfile>>
  PROVE  SavedInv' /\ OneLock'
<1>1. (AsItIs <=> AsItIs') /\ (Flag("lockfile") <=> Flag("lockfile")') /\ \A l : Fits(l)' <=> Fits(l)
  BY SameCommand
<1>2. \A q \in {"template", "edit", "save", "truncate", "decide", "generate", "write_lock"} :
        q \in Left' <=> q \in Left
  BY DEF InstallPhases
<1>3. Decided <=> Decided'
  BY <1>2 DEF Decided
<1>4. OneLock'
  BY DEF ProjectInv, OneLock, files
<1>5. QED BY <1>1, <1>2, <1>3, <1>4 DEF ProjectInv, SavedInv, files

LEMMA BinKeeps ==
  ASSUME ProjectInv, RemoveBins \/ CreateBinLinks
  PROVE  PlanInv' /\ Others'
<1> DEFINE p == IF RemoveBins THEN "remove_bins" ELSE "create_bins"
<1>1. /\ p \in {"remove_bins", "create_bins"} /\ At(p) /\ Continue(<<>>)
      /\ UNCHANGED <<files, virtual, link, manifest, lockfile>>
  BY DEF RemoveBins, CreateBinLinks
<1>2. p = "create_bins" => bin' = [x \in Executables |-> Owner(x)]
  BY DEF RemoveBins, CreateBinLinks
<1> HIDE DEF p
<1>3. PlanInv' /\ Left' = Left \ {p} /\ args' = args /\ VirtualInv' /\ LinkInv'
  BY <1>1, AdvanceKeeps
<1>4. SavedInv' /\ OneLock'
  BY <1>1, <1>3, SavedKept DEF InstallPhases
<1>5. /\ p \in Left /\ args # NoCommand /\ Rules(args, Left)
  BY <1>1, AtFacts DEF ProjectInv, PlanInv
<1>6. args.cmd # "fetch" /\ ~OnlyLockfile /\ "decide" \notin Left
  BY <1>1, <1>5 DEF Rules, InstallPhases, OnlyLockfile, Flag
<1>7. BinInv'
  <2>1. CASE p = "create_bins"
    <3>1. \A x : Owner(x)' = Owner(x)
      BY <1>1 DEF Owner, Providers
    <3>2. QED BY <1>2, <2>1, <3>1 DEF BinInv
  <2>2. CASE p = "remove_bins"
    <3>1. Installing
      BY <1>5, <1>6 DEF Installing, Decided
    <3>2. "create_bins" \in Left'
      BY <1>3, <1>5, <1>6, <2>2 DEF Rules, OnlyLockfile, Flag
    <3>3. QED BY <3>2 DEF BinInv
  <2>3. QED BY <1>1, <2>1, <2>2
<1>8. QED BY <1>3, <1>4, <1>7 DEF Others

\* At a phase that installs packages, with all that is left after it.
LEMMA AtInstall ==
  ASSUME ProjectInv, NEW p \in {"import", "resolve", "unlink", "link"}, At(p), args.cmd # "fetch"
  PROVE  /\ Installing /\ "generate" \notin Left /\ p \in Left
         /\ "create_bins" \in Left
         /\ p = "import" => ViaLock /\ "unlink" \in Left /\ "link" \in Left
         /\ p = "unlink" => "resolve" \notin Left /\ "import" \notin Left /\ (ViaLock => "link" \in Left)
         /\ p = "link" => ViaLock /\ "unlink" \notin Left /\ "import" \notin Left
         /\ p = "resolve" => ~ViaLock /\ "unlink" \in Left
<1>1. /\ p \in Left /\ args # NoCommand /\ Rules(args, Left)
      /\ \A q \in Left : q = p \/ Rank[p] < Rank[q]
  BY AtFacts DEF ProjectInv, PlanInv
<1>2. ~OnlyLockfile /\ "decide" \notin Left
  BY <1>1 DEF Rules, InstallPhases, OnlyLockfile, Flag
<1>3. Installing
  BY <1>1, <1>2 DEF Installing, Decided
<1>4. "generate" \notin Left
  BY <1>1, Ranks
<1>5. /\ p = "import" => ViaLock /\ "unlink" \in Left /\ "link" \in Left
      /\ p = "unlink" => (ViaLock => "link" \in Left)
      /\ p = "link" => ViaLock
      /\ p = "resolve" => ~ViaLock /\ "unlink" \in Left
      /\ "create_bins" \in Left
  BY <1>1, <1>2 DEF Rules, OnlyLockfile, ViaLock, Flag
<1>6. /\ p = "unlink" => "resolve" \notin Left /\ "import" \notin Left
      /\ p = "link" => "unlink" \notin Left /\ "import" \notin Left
  BY <1>1, Ranks
<1>7. QED BY <1>1, <1>3, <1>4, <1>5, <1>6

\* Fetch::run only imports: nothing is owed to node_modules.
LEMMA FetchKeeps ==
  ASSUME ProjectInv, Fetch
  PROVE  PlanInv' /\ Others'
<1>1. At("fetch") /\ UNCHANGED <<world, files, modules>> /\ lockfile' \in {{}, lockfile}
  BY DEF Fetch, Fail
<1>2. LinksLead' /\ OneLock'
  BY <1>1 DEF ProjectInv, OneLock, VirtualInv, LinksLead, files, modules
<1>3. CASE Fail
  BY <1>2, <1>3, FailFacts DEF Others, VirtualInv
<1>4. CASE ~Fail
  <2>1. Continue(<<"import">>)
    BY <1>4 DEF Fetch
  <2>2. "fetch" \in Left /\ args # NoCommand /\ Rules(args, Left)
    BY <1>1, AtFacts DEF ProjectInv, PlanInv
  <2>3. args.cmd = "fetch" /\ Left = {"fetch"}
    BY <2>2 DEF Rules
  <2>4. \A q \in ElementsOf(<<"import">>), r \in Left \ {"fetch"} : Rank[q] < Rank[r]
    BY <2>3
  <2>5. Ascending(steps)' /\ Left' = {"import"} /\ args' = args /\ done' = {}
    <3>1. TypeOK /\ PlanInv
      BY DEF ProjectInv
    <3>2. /\ <<"import">> \in Seq(Phases) /\ Ascending(<<"import">>)
          /\ ElementsOf(<<"import">>) = {"import"}
      BY PlanElements
    <3>3. /\ Ascending(steps)' /\ args' = args /\ done' = {}
          /\ Left' = ElementsOf(<<"import">>) \cup (Left \ {"fetch"})
      BY <1>1, <2>1, <2>4, <3>1, <3>2, ContinueFacts
    <3>4. QED BY <2>3, <3>2, <3>3
  <2>6. Rules(args, {"import"})
    BY <2>3 DEF Rules
  <2>7. PlanInv' /\ ~Installing' /\ ~Decided'
    BY <2>2, <2>3, <2>5, <2>6 DEF PlanInv, Installing, Decided
  <2>8. VirtualInv' /\ LinkInv' /\ BinInv' /\ SavedInv'
    BY <1>2, <2>3, <2>5, <2>7 DEF VirtualInv, LinkInv, BinInv, SavedInv
  <2>9. QED BY <1>2, <2>7, <2>8 DEF Others
<1>5. QED BY <1>3, <1>4

\* While a phase goes on, what depends on the plan is as before.
LEMMA SamePhase ==
  ASSUME UNCHANGED <<args, steps>>
  PROVE  Left' = Left /\ (Ascending(steps)' <=> Ascending(steps)) /\ \A p : At(p)' <=> At(p)
  BY DEF Left, ElementsOf, Ascending, At, Running

LEMMA ImportKeeps ==
  ASSUME ProjectInv, Import
  PROVE  PlanInv' /\ Others'
<1>1. /\ At("import") /\ UNCHANGED <<registry, saved, files, link, bin>>
      /\ virtual \subseteq virtual' /\ lockfile' \in {{}, lockfile}
  BY DEF Import, Fail
<1>2. LinksLead' /\ OneLock'
  BY <1>1 DEF ProjectInv, OneLock, VirtualInv, LinksLead, files
<1>3. CASE Fail
  BY <1>2, <1>3, FailFacts DEF Others, VirtualInv
<1>4. CASE ~Fail
  <2>1. PICK r \in Wanted \ done :
          virtual' = virtual \cup {r} /\ Did(r) /\ UNCHANGED <<manifest, lockfile>>
    BY <1>4 DEF Import
  <2>2. UNCHANGED <<args, steps, manifest, lockfile>> /\ done' = done \cup {r}
    BY <2>1 DEF Did
  <2>3. Left' = Left /\ (Ascending(steps)' <=> Ascending(steps)) /\ \A p : At(p)' <=> At(p)
    BY <2>2, SamePhase
  <2>4. /\ (OnlyLockfile <=> OnlyLockfile') /\ Packages(LockGroups)' = Packages(LockGroups)
        /\ (ViaLock <=> ViaLock')
    BY <2>2, SameMemory
  <2>5. PlanInv' /\ (Installing <=> Installing')
    BY <2>2, <2>3, <2>4 DEF ProjectInv, PlanInv, Installing, Decided
  <2>6. VirtualInv'
    BY <1>1, <1>2, <2>1, <2>2, <2>3, <2>4, <2>5 DEF ProjectInv, VirtualInv
  <2>7. SavedInv'
    BY <1>1, <2>2, <2>3, SavedKept DEF InstallPhases
  <2>8. LinkInv' /\ BinInv'
    <3>1. CASE args.cmd = "fetch"
      BY <2>2, <3>1 DEF LinkInv, BinInv, Installing, Decided
    <3>2. CASE args.cmd # "fetch"
      <4>1. /\ Installing /\ ViaLock /\ "create_bins" \in Left /\ "unlink" \in Left /\ "link" \in Left
        BY <1>1, <3>2, AtInstall
      <4>2. ~At("link") /\ ~At("resolve")
        BY <1>1 DEF At
      <4>3. /\ (AsItIs <=> AsItIs') /\ \A l : Fits(l)' <=> Fits(l)
        BY <2>2, SameMemory
      <4>4. QED BY <2>2, <2>3, <2>4, <2>5, <4>1, <4>2, <4>3 DEF ProjectInv, LinkInv, BinInv
    <3>3. QED BY <3>1, <3>2
  <2>9. QED BY <1>2, <2>5, <2>6, <2>7, <2>8 DEF Others
<1>5. QED BY <1>3, <1>4

LEMMA ImportedKeeps ==
  ASSUME ProjectInv, Imported
  PROVE  PlanInv' /\ Others'
<1>1. /\ At("import") /\ Wanted \subseteq done /\ UNCHANGED <<world, files, modules>>
      /\ lockfile' \in {{}, lockfile}
  BY DEF Imported, Fail
<1>2. LinksLead' /\ OneLock'
  BY <1>1 DEF ProjectInv, OneLock, VirtualInv, LinksLead, files, modules
<1>3. CASE Fail
  BY <1>2, <1>3, FailFacts DEF Others, VirtualInv
<1>4. CASE ~Fail
  <2>1. Continue(<<>>) /\ UNCHANGED <<manifest, lockfile>>
    BY <1>4 DEF Imported
  <2>2. PlanInv' /\ Left' = Left \ {"import"} /\ args' = args /\ done' = {}
    BY <1>1, <2>1, AdvanceKeepsPlan DEF ProjectInv
  <2>3. /\ (OnlyLockfile <=> OnlyLockfile') /\ Packages(LockGroups)' = Packages(LockGroups)
        /\ (ViaLock <=> ViaLock') /\ (AsItIs <=> AsItIs') /\ \A l : Fits(l)' <=> Fits(l)
    BY <2>1, <2>2, SameMemory
  <2>4. SavedInv'
    BY <1>1, <2>1, <2>2, SavedKept DEF InstallPhases
  <2>5. CASE args.cmd = "fetch"
    <3>1. ~Installing'
      BY <2>2, <2>5 DEF Installing, Decided
    <3>2. VirtualInv' /\ LinkInv' /\ BinInv'
      BY <1>2, <2>2, <3>1 DEF VirtualInv, LinkInv, BinInv
    <3>3. QED BY <1>2, <2>2, <2>4, <3>2 DEF Others
  <2>6. CASE args.cmd # "fetch"
    <3>1. /\ Installing /\ ViaLock /\ "create_bins" \in Left /\ "unlink" \in Left /\ "link" \in Left
          /\ "generate" \notin Left
      BY <1>1, <2>6, AtInstall
    <3>2. Packages(LockGroups) \subseteq virtual
      BY <1>1, <2>6 DEF ProjectInv, VirtualInv, Wanted
    <3>3. VirtualInv'
      BY <1>1, <1>2, <2>2, <2>3, <3>2 DEF VirtualInv, modules
    <3>4. LinkInv' /\ BinInv'
      BY <2>1, <2>2, <2>3, <3>1 DEF ProjectInv, LinkInv, BinInv
    <3>5. QED BY <1>2, <2>2, <2>4, <3>3, <3>4 DEF Others
  <2>7. QED BY <2>5, <2>6
<1>5. QED BY <1>3, <1>4

\* The phases that change the links.
LEMMA AtLinks ==
  ASSUME ProjectInv, NEW p \in {"resolve", "unlink", "link"}, At(p)
  PROVE  /\ args.cmd # "fetch" /\ args # NoCommand /\ Installing /\ "generate" \notin Left
         /\ p \in Left /\ "create_bins" \in Left
         /\ p = "unlink" => "resolve" \notin Left /\ "import" \notin Left /\ (ViaLock => "link" \in Left)
         /\ p = "link" => ViaLock /\ "unlink" \notin Left /\ "import" \notin Left
         /\ p = "resolve" => ~ViaLock /\ "unlink" \in Left
         /\ \A q : At(q) => q = p
<1>1. p \in Left /\ args # NoCommand /\ Rules(args, Left)
  BY AtFacts DEF ProjectInv, PlanInv
<1>2. args.cmd # "fetch"
  BY <1>1 DEF Rules
<1>3. \A q : At(q) => q = p
  BY DEF At
<1>4. QED BY <1>1, <1>2, <1>3, AtInstall

\* One link is made or removed: what is not about the links is as before.
LEMMA LinkStep ==
  ASSUME ProjectInv, NEW p \in {"resolve", "unlink", "link"}, At(p),
         UNCHANGED <<files, bin, args, steps, manifest, lockfile>>
  PROVE  /\ PlanInv' /\ BinInv' /\ SavedInv' /\ OneLock'
         /\ Left' = Left /\ (Installing <=> Installing') /\ (\A q : At(q)' <=> At(q))
         /\ (ViaLock <=> ViaLock') /\ (AsItIs <=> AsItIs') /\ Direct' = Direct /\ Desired' = Desired
         /\ Packages(LockGroups)' = Packages(LockGroups)
         /\ \A l : (Fits(l)' <=> Fits(l)) /\ Directs(l)' = Directs(l)
<1>1. Left' = Left /\ (Ascending(steps)' <=> Ascending(steps)) /\ \A q : At(q)' <=> At(q)
  BY SamePhase
<1>2. /\ (OnlyLockfile <=> OnlyLockfile') /\ (ViaLock <=> ViaLock') /\ (AsItIs <=> AsItIs')
      /\ Direct' = Direct /\ Desired' = Desired
      /\ Packages(LockGroups)' = Packages(LockGroups)
      /\ \A l : (Fits(l)' <=> Fits(l)) /\ Directs(l)' = Directs(l)
  BY SameMemory
<1>3. PlanInv' /\ (Installing <=> Installing')
  BY <1>1, <1>2 DEF ProjectInv, PlanInv, Installing, Decided
<1>4. SavedInv' /\ OneLock'
  BY <1>1, SavedKept DEF InstallPhases
<1>5. BinInv'
  BY <1>1, AtLinks DEF BinInv
<1>6. QED BY <1>1, <1>2, <1>3, <1>4, <1>5

LEMMA LinkKeeps ==
  ASSUME ProjectInv, Link
  PROVE  PlanInv' /\ Others'
<1>1. PICK l \in lockfile : \E j \in InGroups(l, InstallGroups) \ done :
        symlink_package(Locked(j)) /\ Did(j)
  BY DEF Link
<1> PICK k \in InGroups(l, InstallGroups) \ done : symlink_package(Locked(k)) /\ Did(k)
  BY <1>1
<1>2. /\ At("link") /\ UNCHANGED <<files, virtual, bin, args, steps, manifest, lockfile>>
      /\ done' = done \cup {k} /\ link' = [link EXCEPT ![k.name] = {Locked(k)}]
      /\ k \in l /\ k \in Directs(l)
  BY DEF Link, Did, symlink_package, Locked, Directs, InGroups
<1>3. /\ Installing /\ "generate" \notin Left /\ "link" \in Left /\ ViaLock
      /\ "unlink" \notin Left /\ "import" \notin Left /\ ~At("resolve") /\ ~At("import")
  BY <1>2, AtLinks
<1>4. k \in Locks /\ k.name \in Names /\ Locked(k).name = k.name
  BY <1>2 DEF ProjectInv, TypeOK, Locks, Locked
<1>5. /\ link'[k.name] = {Locked(k)} /\ \A n \in Names : n # k.name => link'[n] = link[n]
      /\ \A j \in l : j.name \in Names
  BY <1>2, <1>4 DEF ProjectInv, TypeOK, Locks
<1>6. /\ PlanInv' /\ BinInv' /\ SavedInv' /\ OneLock'
      /\ Left' = Left /\ (Installing <=> Installing') /\ (\A q : At(q)' <=> At(q))
      /\ (ViaLock <=> ViaLock') /\ (AsItIs <=> AsItIs') /\ Direct' = Direct /\ Desired' = Desired
      /\ Packages(LockGroups)' = Packages(LockGroups)
      /\ \A m : (Fits(m)' <=> Fits(m)) /\ Directs(m)' = Directs(m)
  BY <1>2, LinkStep
<1>7. Locked(k) \in virtual
  <2>1. k \in InGroups(l, LockGroups)
    BY <1>2, <1>4 DEF InGroups, Locks
  <2>2. Locked(k) \in Packages(LockGroups)
    BY <2>1 DEF Packages
  <2>3. QED BY <1>3, <2>2 DEF ProjectInv, VirtualInv
<1>8. VirtualInv'
  <2>1. LinksLead'
    BY <1>2, <1>4, <1>5, <1>7 DEF ProjectInv, VirtualInv, LinksLead
  <2>2. QED BY <1>2, <1>3, <1>6, <2>1 DEF ProjectInv, VirtualInv
<1>9. LinkInv'
  <2>1. \A m \in lockfile : m = l
    BY DEF ProjectInv, OneLock
  <2>2. \A n \in Names : link'[n] # {} => n \in Desired
    <3>1. k.name \in Desired
      BY <1>2, <1>3 DEF Desired, ViaLock, Directs
    <3>2. QED BY <1>3, <1>5, <3>1 DEF ProjectInv, LinkInv
  <2>3. \A j \in done' : j \in Directs(l) /\ LinkedTo(l, j)'
    <3>1. \A j \in done : j \in Directs(l) /\ LinkedTo(l, j)
      BY <1>2, <1>3 DEF ProjectInv, LinkInv
    <3>2. \A j \in Directs(l) : j.name \in Names
      BY <1>5 DEF Directs, InGroups
    <3>3. ASSUME NEW j \in done' PROVE j \in Directs(l) /\ LinkedTo(l, j)'
      <4>1. CASE j.name = k.name
        BY <1>2, <1>5, <1>6, <3>1, <3>3, <4>1 DEF LinkedTo, Locked
      <4>2. CASE j.name # k.name
        BY <1>2, <1>5, <1>6, <3>1, <3>2, <3>3, <4>2 DEF LinkedTo, Locked
      <4>3. QED BY <4>1, <4>2
    <3>4. QED BY <3>3
  <2>4. ViaLock => \E m \in lockfile : AsItIs \/ Fits(m)
    BY <1>3 DEF ProjectInv, LinkInv
  <2>5. QED BY <1>2, <1>3, <1>6, <2>1, <2>2, <2>3, <2>4 DEF LinkInv
<1>10. QED BY <1>6, <1>8, <1>9 DEF Others

LEMMA UnlinkKeeps ==
  ASSUME ProjectInv, Unlink
  PROVE  PlanInv' /\ Others'
<1>1. PICK n \in Stale : link' = [link EXCEPT ![n] = {}]
  BY DEF Unlink
<1>2. At("unlink") /\ UNCHANGED <<files, virtual, bin, args, steps, manifest, lockfile, done>>
  BY DEF Unlink, memory
<1>3. /\ Installing /\ "generate" \notin Left /\ "unlink" \in Left /\ "resolve" \notin Left
      /\ "import" \notin Left /\ (ViaLock => "link" \in Left)
      /\ ~At("resolve") /\ ~At("import") /\ ~At("link")
  BY <1>2, AtLinks
<1>4. n \in Names /\ n \notin Desired /\ link'[n] = {} /\ \A m \in Names : m # n => link'[m] = link[m]
  BY <1>1 DEF Stale, ProjectInv, TypeOK
<1>5. /\ PlanInv' /\ BinInv' /\ SavedInv' /\ OneLock'
      /\ Left' = Left /\ (Installing <=> Installing') /\ (\A q : At(q)' <=> At(q))
      /\ (ViaLock <=> ViaLock') /\ (AsItIs <=> AsItIs') /\ Direct' = Direct /\ Desired' = Desired
      /\ Packages(LockGroups)' = Packages(LockGroups)
      /\ \A m : (Fits(m)' <=> Fits(m)) /\ Directs(m)' = Directs(m)
  BY <1>2, LinkStep
<1>6. VirtualInv'
  BY <1>2, <1>3, <1>4, <1>5 DEF ProjectInv, VirtualInv, LinksLead
<1>7. LinkInv'
  <2>1. ~ViaLock => \A e \in Direct : LinkedAs(e)'
    <3> SUFFICES ASSUME ~ViaLock, NEW e \in Direct PROVE LinkedAs(e)'
      OBVIOUS
    <3>1. e.name \in Desired /\ e.name \in Names
      BY DEF Desired, ViaLock, Direct, InGroups, ProjectInv, TypeOK, Entries
    <3>2. LinkedAs(e)
      BY <1>3 DEF ProjectInv, LinkInv
    <3>3. link'[e.name] = link[e.name]
      BY <1>4, <3>1
    <3>4. QED BY <1>5, <3>2, <3>3 DEF LinkedAs, Satisfies
  <2>2. ViaLock => \E m \in lockfile : AsItIs \/ Fits(m)
    BY <1>3 DEF ProjectInv, LinkInv
  <2>3. QED BY <1>2, <1>3, <1>5, <2>1, <2>2 DEF LinkInv
<1>8. QED BY <1>5, <1>6, <1>7 DEF Others

LEMMA ResolveKeeps ==
  ASSUME ProjectInv, Resolve
  PROVE  PlanInv' /\ Others'
<1>1. At("resolve") /\ UNCHANGED <<files, bin>> /\ lockfile' \in {{}, lockfile}
  BY DEF Resolve, Fail
<1>2. CASE Fail /\ UNCHANGED <<virtual, link>>
  <2>1. LinksLead' /\ OneLock'
    BY <1>1, <1>2 DEF ProjectInv, OneLock, VirtualInv, LinksLead, files
  <2>2. QED BY <1>2, <2>1, FailFacts DEF Others, VirtualInv
<1>3. CASE ~(Fail /\ UNCHANGED <<virtual, link>>)
  <2>1. PICK e \in Direct \ done : \E v \in Selected(e.name, e.spec) :
          LET r == [name |-> e.name, version |-> v] IN
          /\ virtual' = virtual \cup {r} /\ symlink_package(r) /\ Did(e)
          /\ UNCHANGED <<manifest, lockfile>>
    BY <1>3 DEF Resolve
  <2>2. PICK v \in Selected(e.name, e.spec) :
          LET r == [name |-> e.name, version |-> v] IN
          /\ virtual' = virtual \cup {r} /\ symlink_package(r) /\ Did(e)
          /\ UNCHANGED <<manifest, lockfile>>
    BY <2>1
  <2> DEFINE r == [name |-> e.name, version |-> v]
  <2>3. /\ virtual' = virtual \cup {r} /\ link' = [link EXCEPT ![e.name] = {r}]
        /\ done' = done \cup {e} /\ UNCHANGED <<args, steps, manifest, lockfile>>
        /\ e \in Direct /\ r.name = e.name /\ r.version = v
    BY <2>1, <2>2 DEF symlink_package, Did
  <2>4. e \in Entries /\ e.name \in Names /\ e.spec \in Specifiers
    BY <2>3 DEF ProjectInv, TypeOK, Direct, InGroups, Entries
  <2>5. Satisfies(r.version, e.spec)
    BY <2>3, <2>4, SelectedIsPublished DEF ProjectInv
  <2> HIDE DEF r
  <2>6. link'[e.name] = {r} /\ \A n \in Names : n # e.name => link'[n] = link[n]
    BY <2>3, <2>4 DEF ProjectInv, TypeOK
  <2>7. /\ Installing /\ "generate" \notin Left /\ "resolve" \in Left /\ "unlink" \in Left
        /\ ~ViaLock /\ ~At("link") /\ ~At("import") /\ ~At("unlink")
    BY <1>1, AtLinks
  <2>8. /\ PlanInv' /\ BinInv' /\ SavedInv' /\ OneLock'
        /\ Left' = Left /\ (Installing <=> Installing') /\ (\A q : At(q)' <=> At(q))
        /\ (ViaLock <=> ViaLock') /\ Direct' = Direct
        /\ Packages(LockGroups)' = Packages(LockGroups)
    BY <1>1, <2>3, LinkStep
  <2>9. VirtualInv'
    <3>1. LinksLead'
      BY <2>3, <2>4, <2>6 DEF ProjectInv, VirtualInv, LinksLead
    <3>2. QED BY <2>3, <2>7, <2>8, <3>1 DEF ProjectInv, VirtualInv
  <2>10. LinkInv'
    <3>1. \A d \in done : d \in Direct /\ LinkedAs(d)
      BY <1>1, <2>7 DEF ProjectInv, LinkInv
    <3>2. ASSUME NEW d \in done' PROVE d \in Direct /\ LinkedAs(d)'
      <4>1. d \in Direct /\ d.name \in Names
        BY <2>3, <3>1, <3>2 DEF ProjectInv, TypeOK, Direct, InGroups, Entries
      <4>2. CASE d.name = e.name
        BY <2>3, <2>5, <2>6, <2>8, <4>1, <4>2 DEF LinkedAs, Satisfies
      <4>3. CASE d.name # e.name
        <5>1. link'[d.name] = link[d.name] /\ LinkedAs(d)
          BY <2>3, <2>6, <3>1, <4>1, <4>3
        <5>2. QED BY <2>8, <4>1, <5>1 DEF LinkedAs, Satisfies
      <4>4. QED BY <4>2, <4>3
    <3>3. QED BY <2>7, <2>8, <3>2 DEF LinkInv
  <2>11. QED BY <2>8, <2>9, <2>10 DEF Others
<1>4. QED BY <1>2, <1>3

\* A phase that changes the links is over.
LEMMA LinkedKeeps ==
  ASSUME ProjectInv, Linked
  PROVE  PlanInv' /\ Others'
<1>1. PICK p \in {"resolve", "unlink", "link"} :
        /\ At(p) /\ Continue(<<>>) /\ UNCHANGED <<files, virtual, link, bin, manifest, lockfile>>
        /\ p = "link" => \A l \in lockfile : Directs(l) \subseteq done
        /\ p = "resolve" => Direct \subseteq done
        /\ p = "unlink" => Stale = {}
  BY DEF Linked, modules, Directs
<1>2. PlanInv' /\ Left' = Left \ {p} /\ args' = args /\ done' = {}
  BY <1>1, AdvanceKeepsPlan DEF ProjectInv
<1>3. /\ Installing /\ "generate" \notin Left /\ p \in Left /\ "create_bins" \in Left
      /\ p = "unlink" => "resolve" \notin Left /\ "import" \notin Left /\ (ViaLock => "link" \in Left)
      /\ p = "link" => ViaLock /\ "unlink" \notin Left
      /\ p = "resolve" => ~ViaLock /\ "unlink" \in Left
  BY <1>1, AtLinks
<1>4. /\ (OnlyLockfile <=> OnlyLockfile') /\ (ViaLock <=> ViaLock') /\ (AsItIs <=> AsItIs')
      /\ Direct' = Direct /\ Desired' = Desired
      /\ Packages(LockGroups)' = Packages(LockGroups)
      /\ \A l : Fits(l)' <=> Fits(l)
      /\ \A l : Directs(l)' = Directs(l)
  BY <1>1, <1>2, SameMemory
<1>5. SavedInv' /\ OneLock'
  BY <1>1, <1>2, SavedKept DEF InstallPhases
<1>6. (Installing <=> Installing') /\ BinInv'
  BY <1>2, <1>3, <1>4 DEF Installing, Decided, BinInv
<1>7. VirtualInv'
  BY <1>1, <1>2, <1>4, <1>6 DEF ProjectInv, VirtualInv, LinksLead
<1>8. LinkInv'
  <2>1. /\ \A l, k : LinkedTo(l, k)' <=> LinkedTo(l, k)
        /\ \A e : LinkedAs(e)' <=> LinkedAs(e)
    BY <1>1, <1>4 DEF LinkedTo, LinkedAs, Locked, Satisfies
  <2>2. ViaLock' => \E l \in lockfile' : AsItIs' \/ Fits(l)'
    BY <1>1, <1>3, <1>4 DEF ProjectInv, LinkInv
  <2>3. "unlink" \notin Left' => \A n \in Names : link'[n] # {} => n \in Desired'
    <3>1. CASE p = "unlink"
      BY <1>1, <1>4, <3>1 DEF Stale
    <3>2. CASE p # "unlink"
      BY <1>1, <1>2, <1>3, <1>4, <3>2 DEF ProjectInv, LinkInv
    <3>3. QED BY <3>1, <3>2
  <2>4. ViaLock' /\ "link" \notin Left' =>
          \A l \in lockfile' : \A k \in Directs(l)' : LinkedTo(l, k)'
    <3>1. CASE p = "link"
      BY <1>1, <1>3, <1>4, <2>1, <3>1 DEF ProjectInv, LinkInv
    <3>2. CASE p # "link"
      BY <1>1, <1>2, <1>3, <1>4, <2>1, <3>2 DEF ProjectInv, LinkInv
    <3>3. QED BY <3>1, <3>2
  <2>5. ~ViaLock' /\ "resolve" \notin Left' => \A e \in Direct' : LinkedAs(e)'
    <3>1. CASE p = "resolve"
      BY <1>1, <1>3, <1>4, <2>1, <3>1 DEF ProjectInv, LinkInv
    <3>2. CASE p # "resolve"
      BY <1>1, <1>2, <1>3, <1>4, <2>1, <3>2 DEF ProjectInv, LinkInv
    <3>3. QED BY <3>1, <3>2
  <2>6. QED BY <1>2, <2>2, <2>3, <2>4, <2>5 DEF LinkInv
<1>9. QED BY <1>2, <1>5, <1>6, <1>7, <1>8 DEF Others

LEMMA ProjectInit == Init => ProjectInv
<1> SUFFICES ASSUME Init PROVE ProjectInv
  OBVIOUS
<1>1. TypeOK /\ LocksSatisfySpecifiers
  BY TypeInit, LocksInit
<1>2. steps = <<>> /\ Left = {} /\ Ascending(steps) /\ args = NoCommand
  BY DEF Init, Left, ElementsOf, Ascending
<1>3. ~Running /\ ~Installing /\ PlanInv
  BY <1>2 DEF Running, Installing, Decided, PlanInv
<1>4. OneLock /\ VirtualInv
  BY <1>3 DEF Init, OneLock, VirtualInv, LinksLead, At
<1>5. LinkInv /\ BinInv /\ SavedInv
  BY <1>2, <1>3 DEF LinkInv, BinInv, SavedInv
<1>6. QED BY <1>1, <1>3, <1>4, <1>5 DEF ProjectInv

LEMMA ProjectStep == ProjectInv /\ [Next]_vars => ProjectInv'
<1> SUFFICES ASSUME ProjectInv, [Next]_vars PROVE ProjectInv'
  OBVIOUS
<1>1. TypeOK' /\ LocksSatisfySpecifiers'
  BY TypeStep, LocksStep DEF ProjectInv
<1>2. ASSUME PlanInv' /\ Others' PROVE ProjectInv'
  BY <1>1, <1>2 DEF ProjectInv, Others
<1>3. CASE UNCHANGED vars
  <2>1. /\ UNCHANGED <<args, steps, manifest, lockfile, done, package_json, pnpm_lock, torn>>
        /\ UNCHANGED <<virtual, link, bin>>
    BY <1>3 DEF vars, memory, files, modules
  <2>2. /\ Left' = Left /\ (Ascending(steps)' <=> Ascending(steps)) /\ (\A q : At(q)' <=> At(q))
    BY <2>1, SamePhase
  <2>3. /\ (OnlyLockfile <=> OnlyLockfile') /\ (ViaLock <=> ViaLock') /\ (AsItIs <=> AsItIs')
        /\ (Flag("lockfile") <=> Flag("lockfile")')
        /\ Direct' = Direct /\ Desired' = Desired
        /\ Packages(LockGroups)' = Packages(LockGroups)
        /\ \A l : Fits(l)' <=> Fits(l)
        /\ \A l : Directs(l)' = Directs(l)
    BY <2>1, SameMemory
  <2>4. PlanInv' /\ OneLock' /\ (Installing <=> Installing') /\ (Decided <=> Decided')
    BY <2>1, <2>2, <2>3 DEF ProjectInv, PlanInv, OneLock, Installing, Decided
  <2>5. VirtualInv'
    BY <2>1, <2>2, <2>3, <2>4 DEF ProjectInv, VirtualInv, LinksLead
  <2>6. LinkInv'
    <3>1. /\ \A l, k : LinkedTo(l, k)' <=> LinkedTo(l, k)
          /\ \A e : LinkedAs(e)' <=> LinkedAs(e)
      BY <2>1, <2>3 DEF LinkedTo, LinkedAs, Locked, Satisfies
    <3>2. QED BY <2>1, <2>2, <2>3, <2>4, <3>1 DEF ProjectInv, LinkInv
  <2>7. BinInv'
    BY <2>1, <2>2, <2>4 DEF ProjectInv, BinInv, Owner, Providers
  <2>8. SavedInv'
    BY <2>1, <2>2, <2>3, <2>4 DEF ProjectInv, SavedInv
  <2>9. QED BY <1>2, <2>4, <2>5, <2>6, <2>7, <2>8 DEF Others
<1>4. CASE \E c \in Commands : Start(c)
  BY <1>2, <1>4, StartKeeps
<1>5. CASE Kill \/ EditManifest \/ DeleteManifest \/ DeleteLockfile \/ DeleteModules \/ \E n \in Names : Publish(n)
  BY <1>2, <1>5, EnvironmentKeeps
<1>6. CASE Step
  <2>0. CASE WriteTemplate
    BY <1>2, <2>0, TemplateKeeps
  <2>1. CASE Add \/ Remove \/ Update
    BY <1>2, <2>1, EditKeeps
  <2>2. CASE LockfileOnly \/ OfflineInstall \/ OnlineInstall
    BY <1>2, <2>2, DecideKeeps
  <2>3. CASE Generate \/ TruncateLockfile \/ WriteLockfile
    BY <1>2, <2>3, GenerateKeeps, WriteLockKeeps
  <2>4. CASE Fetch \/ Import \/ Imported
    BY <1>2, <2>4, FetchKeeps, ImportKeeps, ImportedKeeps
  <2>5. CASE Link \/ Resolve \/ Unlink \/ Linked
    BY <1>2, <2>5, LinkKeeps, ResolveKeeps, UnlinkKeeps, LinkedKeeps
  <2>6. CASE RemoveBins \/ CreateBinLinks \/ TruncateManifest \/ WriteManifest
    BY <1>2, <2>6, BinKeeps, WriteManifestKeeps
  <2>7. QED BY <1>6, <2>0, <2>1, <2>2, <2>3, <2>4, <2>5, <2>6 DEF Step
<1>7. QED BY <1>3, <1>4, <1>5, <1>6 DEF Next

LEMMA ProjectInvariant == Spec => []ProjectInv
<1>1. Init => ProjectInv
  BY ProjectInit
<1>2. ProjectInv /\ [Next]_vars => ProjectInv'
  BY ProjectStep
<1>3. QED BY <1>1, <1>2, PTL DEF Spec

-----------------------------------------------------------------------------
(* What the invariant gives.                                                *)

\* Every link of node_modules leads to a package of its name in the virtual store, at
\* any time: create_virtual_store and install_package_from_registry import before they
\* link, and a kill between the two calls of symlink_package leaves no link.
THEOREM LinksAlwaysLead == Spec => []LinksLead
<1>1. ProjectInv => LinksLead
  BY DEF ProjectInv, VirtualInv
<1>2. QED BY <1>1, ProjectInvariant, PTL

\* Once nothing is left to import, unlink, link or resolve, node_modules is as declared.
LEMMA InstalledMatches ==
  ASSUME ProjectInv, Installing, ~AsItIs,
         {"generate", "import", "resolve", "unlink", "link"} \cap Left = {}
  PROVE  ModulesMatchManifest
<1>1. /\ ViaLock => \E l \in lockfile : Fits(l)
      /\ \A n \in Names : link[n] # {} => n \in Desired
      /\ ViaLock => \A l \in lockfile : \A k \in Directs(l) : LinkedTo(l, k)
      /\ ~ViaLock => \A e \in Direct : LinkedAs(e)
  BY DEF ProjectInv, LinkInv
<1>2. \A e \in DeclaredNow : e.name \in Names
  BY DEF DeclaredNow, InGroups, ProjectInv, TypeOK, Entries
<1>3. CASE ViaLock
  <2>1. PICK l \in lockfile : Fits(l)
    BY <1>1, <1>3
  <2>2. LinkedGroups = InstallGroups \ {"peer"}
    BY <1>3 DEF LinkedGroups, ViaLock
  <2>3. \A m \in lockfile : m = l
    BY DEF ProjectInv, OneLock
  <2>4. l \in SUBSET Locks /\ \A k \in l : Locked(k) \in Releases /\ Satisfies(k.version, k.spec)
    BY DEF ProjectInv, TypeOK, LocksSatisfySpecifiers
  <2>5. \A k \in Directs(l) : Declared(k) \in DeclaredNow /\ k.name \in Names /\ k \in l
    <3> SUFFICES ASSUME NEW k \in Directs(l)
                 PROVE  Declared(k) \in DeclaredNow /\ k.name \in Names /\ k \in l
      OBVIOUS
    <3>1. k \in l /\ k.group \in InstallGroups \ {"peer"} /\ k.name \in Names
      BY <2>4 DEF Directs, InGroups, Locks, LockGroups
    <3>2. k \in InGroups(l, {k.group})
      BY <3>1 DEF InGroups
    <3>3. Declared(k) \in InGroups(manifest, {k.group})
      BY <2>1, <3>1, <3>2 DEF Fits, lockfile_matches_manifest
    <3>4. QED BY <2>2, <3>1, <3>3 DEF InGroups, DeclaredNow
  <2>6. ASSUME NEW n \in Names, link[n] # {} PROVE \E e \in DeclaredNow : e.name = n
    <3>1. PICK k \in Directs(l) : k.name = n
      BY <1>1, <1>3, <2>3, <2>6 DEF Desired, ViaLock, Directs
    <3>2. Declared(k) \in DeclaredNow /\ Declared(k).name = n
      BY <2>5, <3>1 DEF Declared
    <3>3. QED BY <3>2
  <2>7. ASSUME NEW e \in DeclaredNow
        PROVE  \E r \in link[e.name], x \in DeclaredNow :
                 x.name = e.name /\ Satisfies(r.version, x.spec)
    <3>1. e \in manifest /\ e.group \in InstallGroups \ {"peer"}
      BY <2>2, <2>7 DEF DeclaredNow, InGroups
    <3>2. e \in InGroups(manifest, {e.group})
      BY <3>1 DEF InGroups
    <3>3. PICK k \in InGroups(l, {e.group}) : e = Declared(k)
      BY <2>1, <3>1, <3>2 DEF Fits, lockfile_matches_manifest
    <3>4. k \in Directs(l) /\ k.name = e.name
      BY <3>1, <3>3 DEF Directs, InGroups, Declared
    <3>5. LinkedTo(l, k)
      BY <1>1, <1>3, <3>4
    <3>6. PICK r \in link[e.name] : \E j \in Directs(l) : r = Locked(j)
      BY <3>4, <3>5 DEF LinkedTo
    <3>7. PICK j \in Directs(l) : r = Locked(j)
      BY <3>6
    <3>8. r.name = e.name
      BY <1>2, <2>7, <3>6 DEF ProjectInv, VirtualInv, LinksLead
    <3>9. /\ Declared(j) \in DeclaredNow /\ Declared(j).name = e.name
          /\ Satisfies(r.version, Declared(j).spec)
      BY <2>4, <2>5, <3>7, <3>8 DEF Declared, Locked
    <3>10. QED BY <3>6, <3>9
  <2>8. QED BY <2>6, <2>7 DEF ModulesMatchManifest
<1>4. CASE ~ViaLock
  <2>1. DeclaredNow = Direct /\ Desired = {e.name : e \in Direct}
    BY <1>4 DEF DeclaredNow, LinkedGroups, Direct, Desired, ViaLock
  <2>2. \A n \in Names : link[n] # {} => \E e \in DeclaredNow : e.name = n
    BY <1>1, <2>1
  <2>3. ASSUME NEW e \in DeclaredNow
        PROVE  \E r \in link[e.name], x \in DeclaredNow :
                 x.name = e.name /\ Satisfies(r.version, x.spec)
    BY <1>1, <1>4, <2>1, <2>3 DEF LinkedAs
  <2>4. QED BY <2>2, <2>3 DEF ModulesMatchManifest
<1>5. QED BY <1>3, <1>4

LEMMA Ended ==
  ASSUME Succeeded
  PROVE  /\ args # NoCommand /\ Left = {}
         /\ args.cmd # "fetch" => Decided /\ (~OnlyLockfile => Installing)
<1>1. args # NoCommand /\ steps = <<>>
  BY DEF Succeeded, Running
<1>2. Left = {}
  BY <1>1 DEF Left, ElementsOf
<1>3. QED BY <1>1, <1>2 DEF Decided, Installing

\* An install, add, remove or update that ends well leaves node_modules as package.json
\* declares it, whatever node_modules and pnpm-lock.yaml were before, and however often
\* commands were killed: sync_direct_dependency_links and symlink_package do not trust
\* what they find.
THEOREM EndsAsDeclared == Spec => []InstalledAsDeclared
<1>1. ProjectInv => InstalledAsDeclared
  BY Ended, InstalledMatches DEF InstalledAsDeclared, InstallsModules
<1>2. QED BY <1>1, ProjectInvariant, PTL

\* With the lockfile setting, Install::run leaves a lockfile that the next
\* --frozen-lockfile install of the same groups accepts, and links what it names.
THEOREM EndsAsLocked == Spec => []LockedIsInstalled
<1>1. ASSUME ProjectInv PROVE LockedIsInstalled
  <2> SUFFICES ASSUME Succeeded, Flag("lockfile"), args.cmd # "fetch", ~AsItIs
               PROVE  \E l \in pnpm_lock :
                        /\ torn = {}
                        /\ lockfile_matches_manifest(package_json, l, InstallGroups \ {"peer"})
                        /\ InstallsModules =>
                             \A k \in InGroups(l, InstallGroups) :
                               link[k.name] \subseteq {Locked(j) : j \in InGroups(l, InstallGroups)}
    BY DEF LockedIsInstalled
  <2>1. args # NoCommand /\ Left = {} /\ Decided /\ (~OnlyLockfile => Installing)
    BY Ended
  <2>2. package_json = manifest /\ torn = {} /\ pnpm_lock = lockfile
    BY <1>1, <2>1 DEF ProjectInv, SavedInv, TypeOK
  <2>3. PICK l \in lockfile : Fits(l)
    BY <1>1, <2>1 DEF ProjectInv, SavedInv
  <2>4. InstallsModules => \A k \in Directs(l) : LinkedTo(l, k)
    BY <1>1, <2>1 DEF ProjectInv, LinkInv, InstallsModules, ViaLock
  <2>5. QED BY <2>2, <2>3, <2>4 DEF Fits, LinkedTo, Directs
<1>2. QED BY <1>1, ProjectInvariant, PTL

\* add, remove and update write package.json only once everything is installed: their
\* run functions call Install::run before PackageManifest::save.
THEOREM InstalledBeforeSaved == Spec => SavedOnceInstalled
<1>1. ASSUME ProjectInv, [Next]_vars, Running,
             package_json' # package_json \/ "package.json" \in torn' \ torn
      PROVE  ModulesMatchManifest
  <2>1. TruncateManifest \/ WriteManifest
    <3>1. CASE UNCHANGED vars
      BY <1>1, <3>1 DEF vars, files
    <3>2. CASE (\E c \in Commands : Start(c)) \/ Kill \/ EditManifest \/ DeleteManifest \/ DeleteLockfile
                 \/ DeleteModules \/ \E n \in Names : Publish(n)
      BY <1>1, <3>2 DEF Start, Kill, EditManifest, DeleteManifest, DeleteLockfile, DeleteModules, Publish, files
    <3>3. CASE Step
      <4>0. CASE WriteTemplate
        BY <1>1, <4>0 DEF WriteTemplate
      <4>1. CASE Add \/ Remove \/ Update \/ LockfileOnly \/ OfflineInstall \/ OnlineInstall
        BY <1>1, <4>1 DEF Add, Remove, Update, LockfileOnly, OfflineInstall, OnlineInstall, files
      <4>2. CASE Generate \/ TruncateLockfile \/ WriteLockfile
        BY <1>1, <4>2 DEF Generate, TruncateLockfile, WriteLockfile, files
      <4>3. CASE Fetch \/ Import \/ Imported \/ Link \/ Resolve \/ Unlink \/ Linked
        BY <1>1, <4>3 DEF Fetch, Import, Imported, Link, Resolve, Unlink, Linked, files
      <4>4. CASE RemoveBins \/ CreateBinLinks
        BY <1>1, <4>4 DEF RemoveBins, CreateBinLinks, files
      <4>5. QED BY <3>3, <4>0, <4>1, <4>2, <4>3, <4>4 DEF Step
    <3>4. QED BY <1>1, <3>1, <3>2, <3>3 DEF Next
  <2>2. PICK p \in {"truncate", "save"} : At(p)
    BY <2>1 DEF TruncateManifest, WriteManifest
  <2>3. /\ args \in Commands /\ args # NoCommand /\ p \in Left /\ Rules(args, Left)
        /\ \A q \in Left : q = p \/ Rank[p] < Rank[q]
    BY <1>1, <2>2, AtFacts DEF ProjectInv, PlanInv
  <2>4. args.cmd \notin {"install", "fetch"}
    BY <2>2, <2>3 DEF Rules
  <2>5. ~OnlyLockfile /\ ~AsItIs
    <3>1. args.flags \cap {"frozen_lockfile", "offline", "prefer_offline",
                           "lockfile_only", "resolution_only"} = {}
      BY <2>3, <2>4, ProjectAssumption
    <3>2. QED BY <3>1 DEF OnlyLockfile, AsItIs, Flag
  <2>6. {"decide", "generate", "import", "resolve", "unlink", "link"} \cap Left = {}
    BY <2>2, <2>3, Ranks
  <2>7. Installing
    BY <2>3, <2>4, <2>5, <2>6 DEF Installing, Decided
  <2>8. QED BY <1>1, <2>5, <2>6, <2>7, InstalledMatches
<1>2. QED BY <1>1, ProjectInvariant, PTL DEF Spec, SavedOnceInstalled

\* Every set of package names has a first one.
LEMMA FirstName ==
  ASSUME NEW T \in SUBSET Nat, T # {}
  PROVE  \E m \in T : \A n \in T : m <= n
<1>1. PICK m \in T : \A n \in T : ~ (<<n, m>> \in OpToRel(<, Nat))
  BY NatLessThanWellFounded, WFMin
<1>2. \A n \in T : ~ (n < m)
  BY <1>1 DEF OpToRel
<1>3. QED BY <1>2

\* CreateBins on node_modules: an executable of node_modules/.bin runs the first package
\* by name that is linked and provides it, after every command that ends well.
THEOREM EndsWithOwnedExecutables == Spec => []ExecutablesAreOwned
<1>1. ASSUME ProjectInv PROVE ExecutablesAreOwned
  <2> SUFFICES ASSUME Succeeded, InstallsModules, NEW x \in Executables
               PROVE  /\ \A n \in bin[x] : \E r \in link[n] : x \in Provides[r]
                      /\ \A n \in Names : (\E r \in link[n] : x \in Provides[r]) =>
                           \E m \in bin[x] : m <= n
    BY DEF ExecutablesAreOwned
  <2>1. bin[x] = Owner(x)
    BY <1>1, Ended DEF ProjectInv, BinInv, InstallsModules
  <2>2. ASSUME NEW n \in Names, \E r \in link[n] : x \in Provides[r]
        PROVE  \E m \in bin[x] : m <= n
    <3>1. n \in Providers(x) /\ Providers(x) \in SUBSET Nat
      BY <2>2, ProjectAssumption DEF Providers
    <3>2. PICK m \in Providers(x) : \A k \in Providers(x) : m <= k
      BY <3>1, FirstName
    <3>3. QED BY <2>1, <3>1, <3>2 DEF Owner
  <2>3. QED BY <2>1, <2>2 DEF Owner, Providers
<1>2. QED BY <1>1, ProjectInvariant, PTL

-----------------------------------------------------------------------------
(***************************************************************************)
(* --offline and --frozen-lockfile: the plan has no phase that writes a      *)
(* lockfile, so that the phases that are left need no look at the store.    *)
(***************************************************************************)
ReadsOnly(c) == {"offline", "frozen_lockfile"} \cap c.flags # {}

WritingPhases == {"generate", "truncate_lock", "write_lock"}

QuietInv == args # NoCommand /\ ReadsOnly(args) => WritingPhases \cap Left = {}

\* The plans of the two ways to install without a new lockfile.
LEMMA QuietPlan ==
  ASSUME TypeOK, PlanInv, At("decide"), Left \subseteq {"decide", "truncate", "save"},
         NEW s \in {<<>>, InstallFrozenLockfile \o CreateBins, InstallWithoutLockfile \o CreateBins},
         Continue(s)
  PROVE  WritingPhases \cap Left' = {}
<1>1. /\ s \in Seq(Phases) /\ Ascending(s)
      /\ ElementsOf(s) \subseteq {"import", "resolve", "unlink", "link", "remove_bins", "create_bins"}
  <2>1. <<>> \in Seq(Phases) /\ Ascending(<<>>) /\ ElementsOf(<<>>) = {}
    BY DEF Ascending, ElementsOf
  <2>2. QED BY <2>1, PlanElements
<1>2. \A q \in ElementsOf(s), r \in Left \ {"decide"} : Rank[q] < Rank[r]
  <2>1. \A q \in {"import", "resolve", "unlink", "link", "remove_bins", "create_bins"} :
          Rank[q] \in Nat /\ Rank[q] < 13
    BY Ranks
  <2>2. \A r \in Left \ {"decide"} : Rank[r] \in Nat /\ Rank[r] >= 13
    BY Ranks
  <2>3. QED BY <1>1, <2>1, <2>2
<1>3. Left' = ElementsOf(s) \cup (Left \ {"decide"})
  BY <1>1, <1>2, ContinueFacts
<1>4. QED BY <1>1, <1>3 DEF WritingPhases

LEMMA QuietStep == ProjectInv /\ QuietInv /\ [Next]_vars => QuietInv'
<1> SUFFICES ASSUME ProjectInv, QuietInv, [Next]_vars PROVE QuietInv'
  OBVIOUS
<1>1. TypeOK /\ PlanInv
  BY DEF ProjectInv
<1>2. ASSUME Fail PROVE QuietInv'
  BY <1>2 DEF Fail, QuietInv
<1>3. ASSUME Left' \subseteq Left, args' = args PROVE QuietInv'
  BY <1>3 DEF QuietInv, ReadsOnly
<1>4. ASSUME NEW p, At(p), Continue(<<>>) PROVE QuietInv'
  BY <1>1, <1>3, <1>4, Advance
<1>5. ASSUME UNCHANGED <<args, steps>> PROVE QuietInv'
  BY <1>3, <1>5, SamePhase
<1>6. CASE UNCHANGED vars
  BY <1>5, <1>6 DEF vars, memory
<1>7. ASSUME NEW c \in Commands, Start(c) PROVE QuietInv'
  <2>1. CASE Fail
    BY <1>2, <2>1
  <2>2. CASE ~Fail
    <3>1. PlanInv' /\ args' = c /\ ~Decided' /\ c # NoCommand
      BY <1>1, <1>7, <2>2, StartPlan, ProjectAssumption
    <3>2. Rules(c, Left')
      BY <3>1 DEF PlanInv
    <3>3. WritingPhases \cap Left' = {}
      BY <3>1, <3>2 DEF Rules, Decided, WritingPhases
    <3>4. QED BY <3>3 DEF QuietInv
  <2>3. QED BY <2>1, <2>2
<1>8. CASE LockfileOnly \/ OfflineInstall \/ OnlineInstall
  <2>1. CASE Fail
    BY <1>2, <2>1
  <2>2. CASE ~Fail
    <3>1. /\ At("decide") /\ args' = args /\ Left \subseteq {"decide", "truncate", "save"}
      BY <1>1, <1>8, <2>2, DecideFacts
    <3>2. SUFFICES ASSUME ReadsOnly(args) PROVE WritingPhases \cap Left' = {}
      BY <3>1 DEF QuietInv, ReadsOnly
    <3>3. Flag("offline") \/ Flag("frozen_lockfile")
      BY <3>2 DEF ReadsOnly, Flag
    <3>4. \/ Continue(<<>>) \/ Continue(InstallFrozenLockfile \o CreateBins)
          \/ Continue(InstallWithoutLockfile \o CreateBins)
      BY <1>8, <2>2, <3>3 DEF LockfileOnly, OfflineInstall, OnlineInstall
    <3>5. QED BY <1>1, <3>1, <3>4, QuietPlan
  <2>3. QED BY <2>1, <2>2
<1>9. CASE Kill \/ EditManifest \/ DeleteManifest \/ DeleteLockfile \/ DeleteModules \/ \E n \in Names : Publish(n)
  BY <1>2, <1>9 DEF Kill, EditManifest, DeleteManifest, DeleteLockfile, DeleteModules, Publish
<1>10. CASE Add \/ Remove \/ Update \/ Generate \/ TruncateLockfile \/ WriteLockfile
  BY <1>2, <1>4, <1>10 DEF Add, Remove, Update, Generate, TruncateLockfile, WriteLockfile
<1>11. CASE Fetch
  <2>1. CASE Fail
    BY <1>2, <2>1
  <2>2. CASE ~Fail
    <3>1. At("fetch") /\ Continue(<<"import">>)
      BY <1>11, <2>2 DEF Fetch
    <3>2. PlanInv' /\ args' = args /\ "fetch" \in Left /\ args # NoCommand /\ Rules(args, Left)
      BY <1>1, <1>11, <3>1, FetchKeeps, AtFacts DEF Continue, PlanInv
    <3>3. args.cmd = "fetch" /\ Rules(args, Left')
      BY <3>2 DEF Rules, PlanInv
    <3>4. WritingPhases \cap Left' = {}
      BY <3>3 DEF Rules, WritingPhases
    <3>5. QED BY <3>4 DEF QuietInv
  <2>3. QED BY <2>1, <2>2
<1>12. CASE Import \/ Imported \/ Link \/ Resolve \/ Unlink
  BY <1>2, <1>4, <1>5, <1>12 DEF Import, Imported, Link, Resolve, Unlink, Did, memory
<1>15. CASE WriteTemplate
  BY <1>2, <1>4, <1>15 DEF WriteTemplate
<1>13. CASE Linked \/ RemoveBins \/ CreateBinLinks \/ TruncateManifest \/ WriteManifest
  BY <1>4, <1>13 DEF Linked, RemoveBins, CreateBinLinks, TruncateManifest, WriteManifest
<1>14. QED BY <1>6, <1>7, <1>8, <1>9, <1>10, <1>11, <1>12, <1>13, <1>15 DEF Next, Step

\* What a step of a command writes beside node_modules.
LEMMA Writers ==
  ASSUME ProjectInv, QuietInv, [Next]_vars, Running, ReadsOnly(args)
  PROVE  /\ UNCHANGED <<package_json, missing, pnpm_lock>> /\ torn' \subseteq torn
         /\ Flag("offline") => UNCHANGED <<store, saved>>
<1>1. args \in Commands /\ args # NoCommand
  BY ProjectAssumption DEF ProjectInv, TypeOK
<1>2. args.cmd = "install"
  BY <1>1, ProjectAssumption DEF ReadsOnly
<1>3. WritingPhases \cap Left = {} /\ Rules(args, Left)
  BY <1>1 DEF QuietInv, ProjectInv, PlanInv
<1>4. \A p : At(p) => p \in Left
  BY AtFacts DEF ProjectInv
<1>5. \A p \in {"generate", "truncate_lock", "write_lock", "truncate", "save"} : ~At(p)
  BY <1>2, <1>3, <1>4 DEF Rules, WritingPhases
<1>6. CASE UNCHANGED vars
  BY <1>6 DEF vars, world, files
<1>7. CASE (\E c \in Commands : Start(c)) \/ Kill \/ EditManifest \/ DeleteManifest \/ DeleteLockfile
             \/ DeleteModules \/ \E n \in Names : Publish(n)
  BY <1>7 DEF Start, Kill, EditManifest, DeleteManifest, DeleteLockfile, DeleteModules, Publish, world, files
<1>8. CASE LockfileOnly \/ OfflineInstall \/ OnlineInstall
  BY <1>8 DEF LockfileOnly, OfflineInstall, OnlineInstall, world, files
<1>9. CASE Fetch \/ Imported \/ Link \/ Unlink \/ Linked \/ RemoveBins \/ CreateBinLinks
  BY <1>9 DEF Fetch, Imported, Link, Unlink, Linked, RemoveBins, CreateBinLinks, world, files
<1>10. CASE Import
  BY <1>10 DEF Import, files
<1>11. CASE Resolve
  <2>1. ~Flag("offline")
    <3>1. At("resolve") /\ "resolve" \in Left
      BY <1>4, <1>11 DEF Resolve
    <3>2. args.cmd # "fetch" /\ (args.flags \cap {"lockfile_only", "resolution_only"} # {} =>
                                   Left \cap InstallPhases = {})
      BY <1>2, <1>3 DEF Rules
    <3>3. ~Flag("lockfile_only") /\ ~Flag("resolution_only")
      BY <3>1, <3>2 DEF InstallPhases, Flag
    <3>4. "decide" \notin Left
      BY <1>3, <3>1 DEF Rules
    <3>5. QED BY <1>3, <3>1, <3>2, <3>3, <3>4 DEF Rules, Flag
  <2>2. QED BY <1>11, <2>1 DEF Resolve, files
<1>12. CASE Add \/ Remove \/ Update
  BY <1>2, <1>12 DEF Add, Remove, Update
<1>13. CASE Generate \/ TruncateLockfile \/ WriteLockfile \/ TruncateManifest \/ WriteManifest
  BY <1>5, <1>13 DEF Generate, TruncateLockfile, WriteLockfile, TruncateManifest, WriteManifest
<1>15. CASE WriteTemplate
  BY <1>15 DEF WriteTemplate, world
<1>14. QED BY <1>6, <1>7, <1>8, <1>9, <1>10, <1>11, <1>12, <1>13, <1>15 DEF Next, Step

\* A command that begins creates package.json if there is none, and writes nothing else.
LEMMA Begins ==
  ASSUME [Next]_vars, ~Running, Running'
  PROVE  /\ UNCHANGED <<store, saved, package_json, pnpm_lock>>
         /\ torn' \subseteq torn \cup {f \in {"package.json"} : missing}
         /\ missing' => missing
<1>1. CASE \E c \in Commands : Start(c)
  BY <1>1 DEF Start, world
<1>2. CASE Step
  BY <1>2 DEF Step, At, WriteTemplate, Add, Remove, Update, LockfileOnly, OfflineInstall,
              OnlineInstall, Generate, TruncateLockfile, WriteLockfile, Fetch, Import, Imported,
              Link, Resolve, Unlink, Linked, RemoveBins, CreateBinLinks, TruncateManifest,
              WriteManifest
<1>3. CASE Kill \/ EditManifest \/ DeleteManifest \/ DeleteLockfile \/ DeleteModules
             \/ \E n \in Names : Publish(n)
  BY <1>3, FailType DEF Kill, EditManifest, DeleteManifest, DeleteLockfile, DeleteModules, Publish
<1>4. CASE UNCHANGED vars
  BY <1>4 DEF vars, memory, Running
<1>5. QED BY <1>1, <1>2, <1>3, <1>4 DEF Next

\* --offline writes nothing to the store, and neither it nor --frozen-lockfile writes
\* pnpm-lock.yaml or touches a package.json that is there: Install::run returns, or
\* installs what the lockfile has, before it comes to GenerateLockfile and
\* Lockfile::save_to_dir, and create_if_needed writes its template only if there is no
\* package.json.
THEOREM OfflineAndFrozenWriteNothing == Spec => OfflineAndFrozenAreReadOnly
<1>1. Init => ProjectInv /\ QuietInv
  BY ProjectInit DEF QuietInv, Init
<1>2. ProjectInv /\ QuietInv /\ [Next]_vars => (ProjectInv /\ QuietInv)'
  BY ProjectStep, QuietStep
<1>3. ProjectInv /\ QuietInv /\ [Next]_vars =>
        \A c \in Commands : StepOf(c) =>
          /\ "offline" \in c.flags => UNCHANGED <<store, saved>>
          /\ c.flags \cap {"offline", "frozen_lockfile"} # {} =>
               /\ UNCHANGED <<package_json, pnpm_lock>>
               /\ torn' \subseteq torn \cup {f \in {"package.json"} : missing}
               /\ missing' => missing
  <2> SUFFICES ASSUME ProjectInv, QuietInv, [Next]_vars, NEW c \in Commands, StepOf(c)
               PROVE  /\ "offline" \in c.flags => UNCHANGED <<store, saved>>
                      /\ c.flags \cap {"offline", "frozen_lockfile"} # {} =>
                           /\ UNCHANGED <<package_json, pnpm_lock>>
                           /\ torn' \subseteq torn \cup {f \in {"package.json"} : missing}
                           /\ missing' => missing
    OBVIOUS
  <2>1. CASE Running /\ args = c
    BY <2>1, Writers DEF ReadsOnly, Flag
  <2>2. CASE ~Running /\ Running'
    BY <2>2, Begins
  <2>3. QED BY <2>1, <2>2 DEF StepOf
<1>4. QED BY <1>1, <1>2, <1>3, PTL DEF Spec, OfflineAndFrozenAreReadOnly

=============================================================================
