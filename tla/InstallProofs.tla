---------------------------- MODULE InstallProofs ----------------------------
(***************************************************************************)
(* Theorems about InstallWithoutLockfile for any registry contents, any     *)
(* manifests and any dependency graph, cycles included.                     *)
(***************************************************************************)
EXTENDS InstallWithoutLockfile, RegistryProofs

-----------------------------------------------------------------------------
(* Futures and what they select.                                            *)

LEMMA FutureFields ==
  ASSUME NEW f \in Futures
  PROVE  /\ f.dir \in Dirs /\ f.dep \in Deps
         /\ f = Future(f.dir, f.dep)
         /\ f.dep.name \in Names /\ f.dep.spec \in Specifiers
<1>1. CASE \E r \in Releases : f \in ChildrenOf(r)
  <2>0. PICK r \in Releases : f \in ChildrenOf(r)
    BY <1>1
  <2>1. PICK e \in dependencies(r) : f = Future(r, e)
    BY <2>0 DEF ChildrenOf
  <2>2. e \in Deps
    BY <2>1, RegistryAssumption DEF dependencies
  <2>3. f.dir = r /\ f.dep = e
    BY <2>1 DEF Future
  <2>4. QED BY <2>1, <2>2, <2>3 DEF Dirs, Deps
<1>2. CASE \E m \in Manifests : f \in RootsOf(m)
  <2>0. PICK m \in Manifests : f \in RootsOf(m)
    BY <1>2
  <2>1. PICK e \in m : f = Future(Root, e)
    BY <2>0 DEF RootsOf
  <2>2. e \in Deps
    BY <2>1, InstallAssumption
  <2>3. f.dir = Root /\ f.dep = e
    BY <2>1 DEF Future
  <2>4. QED BY <2>1, <2>2, <2>3 DEF Dirs, Deps
<1>3. QED BY <1>1, <1>2 DEF Futures

\* The futures of r's dependencies are those whose directory is r.
LEMMA Children ==
  ASSUME NEW r \in Releases
  PROVE  /\ ChildrenOf(r) \subseteq Futures
         /\ \A g \in ChildrenOf(r) : g.dir = r /\ g.dir # Root /\ g.dep \in dependencies(r)
         /\ \A e \in dependencies(r) :
              Future(r, e) \in ChildrenOf(r) /\ Future(r, e).dir = r /\ Future(r, e).dep = e
<1>1. ChildrenOf(r) \subseteq Futures
  BY DEF Futures
<1>2. \A e \in dependencies(r) :
        Future(r, e) \in ChildrenOf(r) /\ Future(r, e).dir = r /\ Future(r, e).dep = e
  BY DEF ChildrenOf, Future
<1>3. QED BY <1>1, <1>2, InstallAssumption DEF ChildrenOf

LEMMA Roots ==
  ASSUME NEW m \in Manifests \cup {{}}
  PROVE  /\ RootsOf(m) \subseteq Futures
         /\ \A g \in RootsOf(m) : g.dir = Root /\ g.dep \in m
         /\ \A e \in m :
              Future(Root, e) \in RootsOf(m) /\ Future(Root, e).dir = Root /\ Future(Root, e).dep = e
<1>1. RootsOf(m) \subseteq Futures
  BY DEF Futures, RootsOf
<1>2. QED BY <1>1 DEF RootsOf, Future

\* A release found in well-typed metadata is one the registry knows.
LEMMA SelectedType ==
  ASSUME TypeOK, NEW f \in Futures
  PROVE  /\ Fetched(f.dep.name) \subseteq Metadata(f.dep.name)
         /\ Fetched(f.dep.name) \subseteq AllMetadata
         /\ Selected(f) \subseteq Releases
         /\ \A r \in Selected(f) :
              /\ r.name = f.dep.name
              /\ \E m \in Fetched(f.dep.name) : r.version \in version_by_specifier(m, f.dep.spec)
<1> DEFINE n == f.dep.name
<1>1. n \in Names /\ f.dep.spec \in Specifiers
  BY FutureFields
<1>2. Fetched(n) \subseteq Metadata(n)
  BY <1>1 DEF TypeOK, Fetched
<1>3. Fetched(n) \subseteq AllMetadata
  BY <1>1, <1>2 DEF AllMetadata
<1>4. ASSUME NEW r \in Selected(f)
      PROVE  /\ r \in Releases /\ r.name = n
             /\ \E m \in Fetched(n) : r.version \in version_by_specifier(m, f.dep.spec)
  <2>0. PICK m \in Fetched(n) : \E v \in version_by_specifier(m, f.dep.spec) :
          r = [name |-> n, version |-> v]
    BY <1>4 DEF Selected
  <2>1. PICK v \in version_by_specifier(m, f.dep.spec) : r = [name |-> n, version |-> v]
    BY <2>0
  <2>2. v \in m.versions
    BY <1>1, <2>1, SelectsPublished
  <2>3. m.versions \subseteq VersionsOf(n)
    BY <1>2, <2>1 DEF Metadata
  <2>4. r \in Releases
    BY <2>1, <2>2, <2>3 DEF VersionsOf
  <2>5. r.name = n /\ r.version = v
    BY <2>1
  <2>6. QED BY <2>1, <2>4, <2>5
<1>5. QED BY <1>2, <1>3, <1>4

-----------------------------------------------------------------------------
(* Type correctness.                                                        *)

LEMMA DieType == ASSUME TypeOK, Die, UNCHANGED <<registry, virtual, link>>,
                        saved' \in [Names -> SUBSET AllMetadata],
                        \A n \in Names : saved'[n] \subseteq Metadata(n)
                 PROVE  TypeOK'
  BY DEF TypeOK, Die, States

LEMMA SymlinkType ==
  ASSUME TypeOK, NEW d \in Dirs, NEW r \in Releases, symlink_package(d, r)
  PROVE  link' \in [Dirs -> [Names -> SUBSET Releases]]
<1>1. r.name \in Names
  BY RegistryAssumption
<1>2. link[d] \in [Names -> SUBSET Releases] /\ link[d][r.name] \in SUBSET Releases
  BY <1>1 DEF TypeOK
<1>3. PICK t \in SUBSET Releases : link' = [link EXCEPT ![d][r.name] = t]
  BY <1>2 DEF symlink_package
<1>4. QED BY <1>1, <1>2, <1>3 DEF TypeOK

LEMMA ExpandType ==
  ASSUME TypeOK, NEW f \in Futures, NEW r \in Releases, install_dependencies(f, r)
  PROVE  pc' \in [Futures -> States] /\ resolved' \in SUBSET Releases
  BY DEF TypeOK, install_dependencies, States

LEMMA TypeStep == TypeOK /\ [Next]_vars => TypeOK'
<1> SUFFICES ASSUME TypeOK, [Next]_vars PROVE TypeOK'
  OBVIOUS
<1>1. CASE Start
  <2>1. pc' \in [Futures -> States]
    BY <1>1 DEF Start, States
  <2>2. sound' \in BOOLEAN
    BY <1>1 DEF Start, LinksLead
  <2>3. QED BY <1>1, <2>1, <2>2 DEF TypeOK, Start
<1>2. CASE Finish
  <2>1. Root \in Dirs /\ link[Root] \in [Names -> SUBSET Releases]
    BY DEF TypeOK, Dirs
  <2>2. [n \in Names |-> IF \E e \in manifest : e.name = n THEN link[Root][n] ELSE {}]
           \in [Names -> SUBSET Releases]
    BY <2>1
  <2>3. link' \in [Dirs -> [Names -> SUBSET Releases]]
    BY <1>2, <2>2 DEF Finish, TypeOK
  <2>4. QED BY <1>2, <2>3 DEF TypeOK, Finish
<1>3. CASE Kill
  BY <1>3, DieType DEF Kill, TypeOK
<1>4. CASE Wipe
  BY <1>4 DEF Wipe, Die, TypeOK, States
<1>5. ASSUME NEW n \in Names, Publish(n)
      PROVE  TypeOK'
  <2>0. PICK v \in VersionsOf(n) : \E l \in {registry[n].latest, {v}} :
          registry' = [registry EXCEPT ![n] =
                        [versions |-> registry[n].versions \cup {v}, latest |-> l]]
    BY <1>5 DEF Publish
  <2>1. PICK l \in {registry[n].latest, {v}} :
          registry' = [registry EXCEPT ![n] =
                        [versions |-> registry[n].versions \cup {v}, latest |-> l]]
    BY <2>0
  <2>2. registry[n] \in Metadata(n)
    BY DEF TypeOK
  <2>5. VersionsOf(n) \subseteq Versions
    BY DEF VersionsOf
  <2>6. /\ registry[n].versions \subseteq VersionsOf(n)
        /\ registry[n].latest \in {{}} \cup {{x} : x \in Versions}
    BY <2>2 DEF Metadata
  <2>9. {v} \in {{x} : x \in Versions}
    BY <2>5
  <2>7. l \in {{}} \cup {{x} : x \in Versions}
    <3>1. l = registry[n].latest \/ l = {v}
      BY <2>1
    <3>2. QED BY <3>1, <2>6, <2>9, Zenon
  <2>8. registry[n].versions \cup {v} \in SUBSET VersionsOf(n)
    BY <2>6
  <2>3. [versions |-> registry[n].versions \cup {v}, latest |-> l] \in Metadata(n)
    BY <2>7, <2>8 DEF Metadata
  <2>4. /\ registry' \in [Names -> AllMetadata]
        /\ \A x \in Names : registry'[x] \in Metadata(x)
    BY <2>1, <2>3 DEF AllMetadata, TypeOK
  <2>10. /\ UNCHANGED <<saved, cell, mode, manifest, process, pc, package, resolved>>
         /\ UNCHANGED <<virtual, link, found, sound>>
    BY <1>5 DEF Publish, runVars
  <2>11. \A x \in Names : {registry'[x]} \cup saved'[x] \cup cell'[x] \subseteq Metadata(x)
    <3>1. \A x \in Names : saved[x] \cup cell[x] \subseteq Metadata(x)
      BY DEF TypeOK
    <3>2. QED BY <2>4, <2>10, <3>1
  <2>12. QED BY <2>4, <2>10, <2>11 DEF TypeOK
<1>6. ASSUME NEW f \in Futures, Resolve(f)
      PROVE  TypeOK'
  <2>1. /\ Fetched(f.dep.name) \subseteq Metadata(f.dep.name)
        /\ Fetched(f.dep.name) \subseteq AllMetadata
        /\ Selected(f) \subseteq Releases
        /\ f.dep.name \in Names
    BY SelectedType, FutureFields
  <2>2. /\ saved' \in [Names -> SUBSET AllMetadata]
        /\ \A n \in Names : saved'[n] \subseteq Metadata(n)
    BY <1>6, <2>1 DEF Resolve, Save, TypeOK
  <2>3. CASE Die
    BY <1>6, <2>2, <2>3, DieType DEF Resolve
  <2>4. CASE \E r \in Selected(f) :
          /\ cell' = [cell EXCEPT ![f.dep.name] = Fetched(f.dep.name)]
          /\ package' = [package EXCEPT ![f] = {r}]
          /\ pc' = [pc EXCEPT ![f] = "tarball"]
          /\ UNCHANGED <<runVars, resolved>>
    BY <1>6, <2>1, <2>2, <2>4 DEF Resolve, TypeOK, runVars, States
  <2>5. QED BY <1>6, <2>3, <2>4 DEF Resolve
<1>7. ASSUME NEW f \in Futures, Import(f) \/ Imported(f)
      PROVE  TypeOK'
  <2>1. PICK r \in package[f] :
          \/ symlink_package(f.dir, r) /\ install_dependencies(f, r)
             /\ virtual' \in {virtual, [virtual EXCEPT ![r] = "full"]}
          \/ /\ virtual' = [virtual EXCEPT ![r] = "partial"]
             /\ pc' = [pc EXCEPT ![f] = "import"]
             /\ UNCHANGED <<link, resolved>>
    BY <1>7 DEF Import, Imported
  <2>2. r \in Releases /\ f.dir \in Dirs
    BY FutureFields DEF TypeOK
  <2>3. virtual' \in [Releases -> {"absent", "partial", "full"}]
    BY <2>1, <2>2 DEF TypeOK
  <2>4. link' \in [Dirs -> [Names -> SUBSET Releases]]
    BY <2>1, <2>2, SymlinkType DEF TypeOK
  <2>5. pc' \in [Futures -> States] /\ resolved' \in SUBSET Releases
    BY <2>1, <2>2, ExpandType DEF TypeOK, States
  <2>6. UNCHANGED <<registry, saved, cell, runVars, package>>
    BY <1>7 DEF Import, Imported
  <2>7. QED BY <2>3, <2>4, <2>5, <2>6 DEF TypeOK, runVars
<1>8. ASSUME NEW f \in Futures, Complete(f)
      PROVE  TypeOK'
  BY <1>8 DEF Complete, TypeOK, runVars, States
<1>9. CASE UNCHANGED vars
  BY <1>9 DEF vars, TypeOK, runVars
<1>10. ASSUME NEW f \in Futures, ImportFails(f)
       PROVE  TypeOK'
  BY <1>10, DieType DEF ImportFails, TypeOK
<1>11. QED BY <1>1, <1>2, <1>3, <1>4, <1>5, <1>6, <1>7, <1>8, <1>9, <1>10 DEF Next, Run, Step

LEMMA TypeInit == Init => TypeOK
<1> SUFFICES ASSUME Init PROVE TypeOK
  OBVIOUS
<1>1. ASSUME NEW n \in Names PROVE FirstMetadata(n) \in Metadata(n)
  <2> DEFINE versions == {v \in VersionsOf(n) : [name |-> n, version |-> v] \notin Later}
             latest == {v \in versions : \A w \in versions : w <= v}
  <2>1. versions \subseteq VersionsOf(n) /\ versions \subseteq Versions /\ Versions \subseteq Nat
    BY RegistryAssumption DEF VersionsOf
  <2>2. ASSUME NEW v \in latest, NEW w \in latest PROVE v = w
    <3>1. v \in Nat /\ w \in Nat
      BY <2>1
    <3>2. v <= w /\ w <= v
      OBVIOUS
    <3>3. QED BY <3>1, <3>2
  <2>3. latest = {} \/ \E v \in Versions : latest = {v}
    BY <2>1, <2>2
  <2>4. QED BY <2>1, <2>3 DEF FirstMetadata, Metadata
<1>2. registry \in [Names -> AllMetadata]
  BY <1>1 DEF Init, AllMetadata
<1>3. QED BY <1>1, <1>2 DEF Init, TypeOK, States

\* The installer, its futures and node_modules stay within their types.
THEOREM TypeCorrect == Spec => []TypeOK
  BY TypeInit, TypeStep, PTL DEF Spec

-----------------------------------------------------------------------------
(***************************************************************************)
(* The work of a run.  Every package someone has started is either complete *)
(* or awaited by exactly the future that started it (Awaited), futures and  *)
(* started packages match (FuturesBelong, FuturesBegun), and futures never  *)
(* await each other in a circle (NoWaitCycle, stated of sets of futures so  *)
(* that it needs no induction).  None of it looks at the disk: it holds     *)
(* whatever earlier runs, kills and users have left there.                  *)
(***************************************************************************)
Past == {"children", "done"}
Pending == {"metadata", "tarball", "import", "children"}

Chosen(f, r) ==
  r.name = f.dep.name /\ \E m \in cell[f.dep.name] : r.version \in version_by_specifier(m, f.dep.spec)

PackagesChosen ==
  \A f \in Futures : pc[f] \in {"tarball", "import"} \cup Past =>
    \E r \in Releases : package[f] = {r} /\ Chosen(f, r)

PackagesBegun ==
  \A f \in Futures : pc[f] \in Past => package[f] \subseteq resolved

FuturesBelong ==
  \A f \in Futures : pc[f] # "absent" =>
    f \in RootsOf(manifest) \/ (f.dir \in resolved /\ f \in ChildrenOf(f.dir))

FuturesBegun ==
  /\ \A f \in RootsOf(manifest) : pc[f] # "absent"
  /\ \A r \in resolved : \A g \in ChildrenOf(r) : pc[g] # "absent"

Awaited ==
  \A r \in resolved :
    \/ \A g \in ChildrenOf(r) : pc[g] = "done"
    \/ \E f \in Futures : pc[f] = "children" /\ package[f] = {r}

NoWaitCycle ==
  \A S \in SUBSET Futures :
    S # {} /\ (\A f \in S : pc[f] \in Pending /\ f.dir # Root) =>
      \E e \in S : \A g \in S : ~(pc[g] = "children" /\ package[g] = {e.dir})

WorkInv ==
  /\ PackagesChosen /\ PackagesBegun
  /\ FuturesBelong /\ FuturesBegun /\ Awaited /\ NoWaitCycle

LEMMA WorkInit == Init => WorkInv
<1> SUFFICES ASSUME Init PROVE WorkInv
  OBVIOUS
<1>1. QED BY DEF Init, WorkInv, RootsOf, PackagesChosen, PackagesBegun, FuturesBelong, FuturesBegun,
              Awaited, NoWaitCycle, Past, Pending

-----------------------------------------------------------------------------
\* When the direct dependencies are done, so is every future.
LEMMA AllDone ==
  ASSUME TypeOK, WorkInv, \A f \in RootsOf(manifest) : pc[f] = "done"
  PROVE  \A r \in resolved : \A g \in ChildrenOf(r) : pc[g] = "done"
<1> DEFINE S == {f \in Futures : pc[f] \in Pending /\ f.dir # Root}
<1>1. ASSUME S # {} PROVE FALSE
  <2>1. PICK e \in S : \A g \in S : ~(pc[g] = "children" /\ package[g] = {e.dir})
    BY <1>1 DEF WorkInv, NoWaitCycle
  <2>2. e.dir \in resolved /\ e \in ChildrenOf(e.dir)
    BY <2>1, Roots DEF WorkInv, FuturesBelong, Pending, TypeOK
  <2>3. PICK f \in Futures : pc[f] = "children" /\ package[f] = {e.dir}
    BY <2>1, <2>2 DEF WorkInv, Awaited, Pending
  <2>4. f \notin RootsOf(manifest)
    BY <2>3
  <2>5. f.dir # Root
    BY <2>3, <2>4, InstallAssumption DEF WorkInv, FuturesBelong, TypeOK
  <2>6. f \in S
    BY <2>3, <2>5 DEF Pending
  <2>7. QED BY <2>1, <2>3, <2>6
<1>2. ASSUME NEW r \in resolved, NEW g \in ChildrenOf(r)
      PROVE  pc[g] = "done"
  <2>1. r \in Releases /\ g \in Futures /\ g.dir # Root
    BY <1>2, Children DEF TypeOK
  <2>2. pc[g] # "absent"
    BY <1>2 DEF WorkInv, FuturesBegun
  <2>3. pc[g] \notin Pending
    BY <1>1, <2>1
  <2>4. pc[g] \in States
    BY <2>1 DEF TypeOK
  <2>5. QED BY <2>2, <2>3, <2>4 DEF States, Pending
<1>3. QED BY <1>2

\* The process is gone, and with it the work.
LEMMA DieWork == ASSUME Die PROVE WorkInv'
<1>1. /\ \A f \in Futures : pc'[f] = "absent"
      /\ resolved' = {} /\ manifest' = {}
  BY DEF Die
<1>2. FuturesBegun'
  BY <1>1 DEF FuturesBegun, RootsOf
<1>3. QED BY <1>1, <1>2 DEF WorkInv, PackagesChosen, PackagesBegun, FuturesBelong, Awaited, NoWaitCycle,
              Past, Pending

\* What Import and Imported do once the package's directory is there.
Expands(f, r) ==
  /\ pc[f] \in {"tarball", "import"} /\ package[f] = {r}
  /\ install_dependencies(f, r)
  /\ UNCHANGED <<cell, manifest, package>>

\* The futures an expansion touches: f itself, and the children it starts, which
\* nobody had started.
LEMMA ExpandsOnly ==
  ASSUME TypeOK, WorkInv, NEW f \in Futures, NEW r \in Releases, Expands(f, r)
  PROVE  /\ pc'[f] \in Past
         /\ f \notin ChildrenOf(r)
         /\ r.name = f.dep.name
         /\ \A g \in Futures : g # f =>
              \/ pc'[g] = pc[g]
              \/ r \notin resolved /\ g \in ChildrenOf(r) /\ pc[g] = "absent" /\ pc'[g] = "metadata"
         /\ r \notin resolved =>
              /\ pc'[f] = "children"
              /\ \A g \in ChildrenOf(r) : pc[g] = "absent" /\ pc'[g] = "metadata"
         /\ r \in resolved => pc'[f] = "done"
<1>1. Chosen(f, r)
  <2>1. PICK q \in Releases : package[f] = {q} /\ Chosen(f, q)
    BY DEF WorkInv, PackagesChosen, Expands, Past
  <2>2. q = r
    BY <2>1 DEF Expands
  <2>3. QED BY <2>1, <2>2
<1>2. f \notin ChildrenOf(r)
  <2>1. ASSUME f \in ChildrenOf(r) PROVE FALSE
    <3>1. f.dep \in dependencies(r)
      BY <2>1, Children
    <3>2. f.dep.name # r.name
      BY <3>1, InstallAssumption DEF dependencies
    <3>3. QED BY <1>1, <3>2 DEF Chosen
  <2>2. QED BY <2>1
<1>3. ASSUME r \notin resolved, NEW g \in ChildrenOf(r) PROVE pc[g] = "absent"
  <2>1. g \in Futures /\ g.dir = r /\ g.dir # Root
    BY <1>3, Children
  <2>2. g \notin RootsOf(manifest)
    BY <2>1, Roots DEF TypeOK
  <2>3. QED BY <1>3, <2>1, <2>2 DEF WorkInv, FuturesBelong
<1>4. pc \in [Futures -> States] /\ ChildrenOf(r) \subseteq Futures
  BY Children DEF TypeOK
<1>5. CASE r \in resolved
  BY <1>1, <1>2, <1>4, <1>5 DEF Expands, install_dependencies, Past, Chosen
<1>6. CASE r \notin resolved
  <2>1. pc' = [g \in Futures |-> IF g = f THEN "children"
                                 ELSE IF g \in ChildrenOf(r) THEN "metadata"
                                 ELSE pc[g]]
    BY <1>6 DEF Expands, install_dependencies
  <2>2. pc'[f] = "children"
    BY <2>1
  <2>3. \A g \in ChildrenOf(r) : pc[g] = "absent" /\ pc'[g] = "metadata"
    BY <1>2, <1>3, <1>4, <1>6, <2>1
  <2>4. \A g \in Futures : g # f /\ g \notin ChildrenOf(r) => pc'[g] = pc[g]
    BY <2>1
  <2>5. QED BY <1>1, <1>2, <1>6, <2>2, <2>3, <2>4 DEF Past, Chosen
<1>7. QED BY <1>5, <1>6

LEMMA ExpandsKeepsPackages ==
  ASSUME TypeOK, WorkInv, NEW f \in Futures, NEW r \in Releases, Expands(f, r)
  PROVE  PackagesChosen' /\ PackagesBegun'
<1>1. /\ pc'[f] \in Past
      /\ \A g \in Futures : g # f => pc'[g] = pc[g] \/ (pc[g] = "absent" /\ pc'[g] = "metadata")
  BY ExpandsOnly
<1>2. resolved' = resolved \cup {r} /\ package' = package /\ cell' = cell /\ package[f] = {r}
  BY DEF Expands, install_dependencies
<1>3. PackagesChosen'
  <2>1. ASSUME NEW g \in Futures, pc'[g] \in {"tarball", "import"} \cup Past
        PROVE  pc[g] \in {"tarball", "import"} \cup Past
    BY <2>1, <1>1 DEF Expands, Past
  <2>2. QED BY <1>2, <2>1 DEF WorkInv, PackagesChosen, Chosen
<1>4. PackagesBegun'
  BY <1>1, <1>2 DEF WorkInv, PackagesBegun, Past
<1>5. QED BY <1>3, <1>4

LEMMA ExpandsKeepsFutures ==
  ASSUME TypeOK, WorkInv, NEW f \in Futures, NEW r \in Releases, Expands(f, r)
  PROVE  FuturesBelong' /\ FuturesBegun' /\ Awaited'
<1>1. /\ pc'[f] \in Past
      /\ \A g \in Futures : g # f =>
           \/ pc'[g] = pc[g]
           \/ r \notin resolved /\ g \in ChildrenOf(r) /\ pc[g] = "absent" /\ pc'[g] = "metadata"
      /\ r \notin resolved =>
           pc'[f] = "children" /\ \A g \in ChildrenOf(r) : pc'[g] = "metadata"
  BY ExpandsOnly
<1>2. resolved' = resolved \cup {r} /\ package' = package /\ package[f] = {r} /\ manifest' = manifest
  BY DEF Expands, install_dependencies
<1>3. pc[f] \in {"tarball", "import"}
  BY DEF Expands
<1>4. \A g \in ChildrenOf(r) : g \in Futures /\ g.dir = r
  BY Children
<1>5. FuturesBelong'
  <2>1. ASSUME NEW g \in Futures, pc'[g] # "absent"
        PROVE  g \in RootsOf(manifest) \/ (g.dir \in resolved' /\ g \in ChildrenOf(g.dir))
    <3>1. CASE pc[g] # "absent"
      BY <1>2, <2>1, <3>1 DEF WorkInv, FuturesBelong
    <3>2. CASE pc[g] = "absent"
      <4>1. g \in ChildrenOf(r)
        BY <1>1, <1>3, <2>1, <3>2
      <4>2. QED BY <1>2, <1>4, <4>1
    <3>3. QED BY <3>1, <3>2
  <2>2. QED BY <1>2, <2>1 DEF FuturesBelong
<1>6. FuturesBegun'
  <2>1. ASSUME NEW g \in Futures, pc[g] # "absent" PROVE pc'[g] # "absent"
    BY <1>1, <2>1 DEF Past
  <2>2. \A g \in RootsOf(manifest) : pc'[g] # "absent"
    BY <2>1, Roots DEF TypeOK, WorkInv, FuturesBegun
  <2>3. ASSUME NEW q \in resolved', NEW g \in ChildrenOf(q)
        PROVE  pc'[g] # "absent"
    <3>1. CASE q \in resolved
      <4>1. g \in Futures
        BY <2>3, <3>1, Children DEF TypeOK
      <4>2. QED BY <2>1, <2>3, <3>1, <4>1 DEF WorkInv, FuturesBegun
    <3>2. CASE q \notin resolved
      BY <1>1, <1>2, <2>3, <3>2
    <3>3. QED BY <3>1, <3>2
  <2>4. QED BY <1>2, <2>2, <2>3 DEF FuturesBegun
<1>7. Awaited'
  <2>1. ASSUME NEW q \in resolved'
        PROVE  \/ \A g \in ChildrenOf(q) : pc'[g] = "done"
               \/ \E h \in Futures : pc'[h] = "children" /\ package[h] = {q}
    <3>1. CASE q \notin resolved
      BY <1>1, <1>2, <2>1, <3>1
    <3>2. CASE q \in resolved /\ \A g \in ChildrenOf(q) : pc[g] = "done"
      <4>1. \A g \in ChildrenOf(q) : g \in Futures
        BY <3>2, Children DEF TypeOK
      <4>2. QED BY <1>1, <1>3, <3>2, <4>1
    <3>3. CASE \E h \in Futures : pc[h] = "children" /\ package[h] = {q}
      BY <1>1, <1>3, <3>3
    <3>4. QED BY <3>1, <3>2, <3>3 DEF WorkInv, Awaited
  <2>2. QED BY <1>2, <2>1 DEF Awaited
<1>8. QED BY <1>5, <1>6, <1>7

LEMMA ExpandsKeepsOrder ==
  ASSUME TypeOK, WorkInv, NEW f \in Futures, NEW r \in Releases, Expands(f, r), FuturesBelong'
  PROVE  NoWaitCycle'
<1>1. /\ f \notin ChildrenOf(r)
      /\ \A g \in Futures : g # f =>
           \/ pc'[g] = pc[g]
           \/ r \notin resolved /\ g \in ChildrenOf(r) /\ pc[g] = "absent" /\ pc'[g] = "metadata"
      /\ r \in resolved => pc'[f] = "done"
  BY ExpandsOnly
<1>2. package' = package /\ package[f] = {r} /\ pc[f] \in {"tarball", "import"} /\ manifest' = manifest
  BY DEF Expands
<1> SUFFICES ASSUME NEW S \in SUBSET Futures, S # {},
                    \A g \in S : pc'[g] \in Pending /\ g.dir # Root
             PROVE  \E e \in S : \A g \in S : ~(pc'[g] = "children" /\ package[g] = {e.dir})
  BY <1>2 DEF NoWaitCycle
<1> DEFINE T == S \ ChildrenOf(r)
\* A new child: nobody but f awaits r's children.
<1>3. ASSUME NEW e \in S \cap ChildrenOf(r), f \notin S, r \notin resolved
      PROVE  \A g \in S : ~(pc'[g] = "children" /\ package[g] = {e.dir})
  <2>1. e.dir = r
    BY <1>3, Children
  <2>2. ASSUME NEW g \in S, pc'[g] = "children", package[g] = {r} PROVE FALSE
    <3>1. g \in Futures /\ pc[g] = "children"
      BY <1>1, <1>3, <2>2
    <3>2. QED BY <1>3, <2>2, <3>1 DEF WorkInv, PackagesBegun, Past
  <2>3. QED BY <2>1, <2>2
\* Otherwise the old order holds among those that are not r's new children.
<1>4. ASSUME r \notin resolved, T # {}
      PROVE  \E e \in S : \A g \in S : ~(pc'[g] = "children" /\ package[g] = {e.dir})
  <2>1. \A g \in T : g \in Futures /\ pc[g] \in Pending /\ g.dir # Root
    BY <1>1, <1>2 DEF Pending
  <2>2. PICK e \in T : \A g \in T : ~(pc[g] = "children" /\ package[g] = {e.dir})
    <3>1. T \in SUBSET Futures
      OBVIOUS
    <3>2. QED BY <1>4, <2>1, <3>1 DEF WorkInv, NoWaitCycle
  <2>3. e.dir # r
    <3>1. pc'[e] # "absent" /\ e \notin ChildrenOf(r) /\ e.dir # Root
      BY <2>2 DEF Pending
    <3>2. e \notin RootsOf(manifest)
      BY <3>1, Roots DEF TypeOK
    <3>3. QED BY <1>2, <3>1, <3>2 DEF FuturesBelong
  <2>4. ASSUME NEW g \in S, pc'[g] = "children", package[g] = {e.dir} PROVE FALSE
    <3>1. g # f
      BY <1>2, <2>3, <2>4
    <3>2. pc[g] = "children" /\ g \in T
      <4>1. pc'[g] = pc[g]
        BY <1>1, <2>4, <3>1
      <4>2. g \notin ChildrenOf(r)
        <5>1. ASSUME g \in ChildrenOf(r) PROVE FALSE
          <6>1. pc'[g] = "metadata"
            BY <1>4, <5>1, ExpandsOnly
          <6>2. QED BY <2>4, <6>1
        <5>2. QED BY <5>1
      <4>3. QED BY <2>4, <4>1, <4>2
    <3>3. QED BY <2>2, <2>4, <3>2
  <2>5. QED BY <2>2, <2>4
<1>5. CASE r \in resolved
  <2>1. \A g \in S : pc'[g] = pc[g]
    BY <1>1, <1>5 DEF Pending
  <2>2. PICK e \in S : \A g \in S : ~(pc[g] = "children" /\ package[g] = {e.dir})
    BY <2>1 DEF WorkInv, NoWaitCycle
  <2>3. QED BY <2>1, <2>2
<1>6. CASE r \notin resolved /\ T = {}
  <2>1. f \notin S
    BY <1>1, <1>6
  <2>2. PICK e \in S : e \in ChildrenOf(r)
    BY <1>6
  <2>3. QED BY <1>3, <1>6, <2>1, <2>2
<1>7. QED BY <1>4, <1>5, <1>6

-----------------------------------------------------------------------------
\* A step that lets no future begin to wait keeps the order.
LEMMA OrderKept ==
  ASSUME NoWaitCycle,
         \A g \in Futures : pc'[g] \in Pending => pc[g] \in Pending,
         \A g \in Futures : pc'[g] = "children" => pc[g] = "children" /\ package'[g] = package[g]
  PROVE  NoWaitCycle'
<1> SUFFICES ASSUME NEW S \in SUBSET Futures, S # {},
                    \A g \in S : pc'[g] \in Pending /\ g.dir # Root
             PROVE  \E e \in S : \A g \in S : ~(pc'[g] = "children" /\ package'[g] = {e.dir})
  BY DEF NoWaitCycle
<1>1. \A g \in S : pc[g] \in Pending /\ g.dir # Root
  OBVIOUS
<1>2. PICK e \in S : \A g \in S : ~(pc[g] = "children" /\ package[g] = {e.dir})
  BY <1>1 DEF NoWaitCycle
<1>3. QED BY <1>2

LEMMA StartWork == ASSUME Start, TypeOK' PROVE WorkInv'
<1>1. \A f \in Futures : pc'[f] = IF f \in RootsOf(manifest') THEN "metadata" ELSE "absent"
  BY DEF Start
<1>2. \A f \in RootsOf(manifest') : f \in Futures /\ f.dir = Root
  BY Roots DEF Start
<1>3. resolved' = {}
  BY DEF Start
<1>4. PackagesChosen' /\ PackagesBegun'
  BY <1>1 DEF PackagesChosen, PackagesBegun, Past
<1>5. FuturesBelong' /\ FuturesBegun' /\ Awaited'
  BY <1>1, <1>2, <1>3 DEF FuturesBelong, FuturesBegun, Awaited
<1>6. NoWaitCycle'
  BY <1>1, <1>2 DEF NoWaitCycle, Pending
<1>7. QED BY <1>4, <1>5, <1>6 DEF WorkInv

\* A step of f alone, by which nothing is begun and nothing done.
LEMMA PollWork ==
  ASSUME TypeOK, WorkInv, NEW f \in Futures, pc[f] \in {"metadata", "tarball"},
         pc'[f] \in {"tarball", "import"}, PackagesChosen',
         \A g \in Futures : g # f => pc'[g] = pc[g] /\ package'[g] = package[g],
         UNCHANGED <<manifest, resolved>>
  PROVE  WorkInv'
<1>1. \A g \in RootsOf(manifest) : g \in Futures
  BY Roots DEF TypeOK
<1>2. \A q \in resolved : \A g \in ChildrenOf(q) : g \in Futures
  BY Children DEF TypeOK
<1>3. PackagesBegun'
  BY DEF WorkInv, PackagesBegun, Past
<1>4. FuturesBelong' /\ FuturesBegun'
  BY <1>1, <1>2 DEF WorkInv, FuturesBelong, FuturesBegun
<1>5. Awaited'
  BY <1>2 DEF WorkInv, Awaited
<1>6. NoWaitCycle'
  BY OrderKept DEF WorkInv, Pending
<1>7. QED BY <1>3, <1>4, <1>5, <1>6 DEF WorkInv

LEMMA ResolveWork ==
  ASSUME TypeOK, WorkInv, NEW f \in Futures, Resolve(f)
  PROVE  WorkInv'
<1>1. CASE Die
  BY <1>1, DieWork
<1>2. CASE ~Die
  <2>1. PICK r \in Selected(f) :
        /\ cell' = [cell EXCEPT ![f.dep.name] = Fetched(f.dep.name)]
        /\ package' = [package EXCEPT ![f] = {r}]
        /\ pc' = [pc EXCEPT ![f] = "tarball"]
        /\ UNCHANGED <<runVars, resolved>>
    BY <1>2 DEF Resolve
  <2>2. /\ r \in Releases /\ r.name = f.dep.name
        /\ \E m \in Fetched(f.dep.name) : r.version \in version_by_specifier(m, f.dep.spec)
        /\ f.dep.name \in Names
    BY <2>1, SelectedType, FutureFields
  <2>3. /\ pc'[f] = "tarball" /\ package'[f] = {r} /\ pc[f] = "metadata"
        /\ \A g \in Futures : g # f => pc'[g] = pc[g] /\ package'[g] = package[g]
        /\ UNCHANGED <<manifest, resolved>>
    BY <2>1 DEF Resolve, TypeOK, runVars
  \* The cell is set once: what was chosen from it stays chosen.
  <2>4. \A n \in Names : cell[n] \subseteq cell'[n]
    BY <2>1 DEF Fetched, TypeOK
  <2>5. PackagesChosen'
    <3>1. Chosen(f, r)'
      BY <2>1, <2>2 DEF Chosen, TypeOK
    <3>2. ASSUME NEW g \in Futures, NEW q, Chosen(g, q) PROVE Chosen(g, q)'
      BY <2>4, <3>2, FutureFields DEF Chosen
    <3>3. QED BY <2>2, <2>3, <3>1, <3>2 DEF WorkInv, PackagesChosen
  <2>6. QED BY <2>3, <2>5, PollWork
<1>3. QED BY <1>1, <1>2

LEMMA ImportWork ==
  ASSUME TypeOK, WorkInv, NEW f \in Futures, Import(f) \/ Imported(f)
  PROVE  WorkInv'
<1>1. UNCHANGED <<cell, manifest, package>> /\ pc[f] \in {"tarball", "import"}
  BY DEF Import, Imported, Polled, runVars
<1>2. PICK r \in Releases : package[f] = {r}
  BY <1>1 DEF WorkInv, PackagesChosen
<1>3. CASE install_dependencies(f, r)
  <2>1. Expands(f, r)
    BY <1>1, <1>2, <1>3 DEF Expands
  <2>2. FuturesBelong' /\ FuturesBegun' /\ Awaited' /\ PackagesChosen' /\ PackagesBegun'
    BY <2>1, ExpandsKeepsFutures, ExpandsKeepsPackages
  <2>3. QED BY <2>1, <2>2, ExpandsKeepsOrder DEF WorkInv
<1>4. CASE pc[f] = "tarball" /\ pc' = [pc EXCEPT ![f] = "import"] /\ UNCHANGED resolved
  <2>1. pc'[f] = "import" /\ \A g \in Futures : g # f => pc'[g] = pc[g]
    BY <1>4 DEF TypeOK
  <2>2. PackagesChosen'
    BY <1>1, <1>4, <2>1 DEF WorkInv, PackagesChosen, Chosen, Past
  <2>3. QED BY <1>1, <1>4, <2>1, <2>2, PollWork
<1>5. QED BY <1>2, <1>3, <1>4 DEF Import, Imported

LEMMA CompleteWork ==
  ASSUME TypeOK, WorkInv, NEW f \in Futures, Complete(f)
  PROVE  WorkInv'
<1>1. /\ UNCHANGED <<cell, manifest, package, resolved>>
      /\ pc[f] = "children" /\ pc'[f] = "done" /\ \A g \in Futures : g # f => pc'[g] = pc[g]
  BY DEF Complete, runVars, TypeOK
<1>2. PackagesChosen' /\ PackagesBegun'
  BY <1>1 DEF WorkInv, PackagesChosen, PackagesBegun, Chosen, Past
<1>3. \A g \in RootsOf(manifest) : g \in Futures
  BY Roots DEF TypeOK
<1>4. \A q \in resolved : \A g \in ChildrenOf(q) : g \in Futures
  BY Children DEF TypeOK
<1>5. FuturesBelong' /\ FuturesBegun'
  BY <1>1, <1>3, <1>4 DEF WorkInv, FuturesBelong, FuturesBegun
<1>6. Awaited'
  <2>1. ASSUME NEW q \in resolved
        PROVE  \/ \A g \in ChildrenOf(q) : pc'[g] = "done"
               \/ \E h \in Futures : pc'[h] = "children" /\ package[h] = {q}
    <3>1. CASE \A g \in ChildrenOf(q) : pc[g] = "done"
      BY <1>1, <1>4, <3>1
    <3>2. CASE package[f] = {q}
      <4>1. \A g \in ChildrenOf(q) : pc[g] = "done"
        BY <3>2 DEF Complete, Joined
      <4>2. QED BY <3>1, <4>1
    <3>3. CASE \E h \in Futures : h # f /\ pc[h] = "children" /\ package[h] = {q}
      BY <1>1, <3>3
    <3>4. QED BY <3>1, <3>2, <3>3 DEF WorkInv, Awaited
  <2>2. QED BY <1>1, <2>1 DEF Awaited
<1>7. NoWaitCycle'
  BY <1>1, OrderKept DEF WorkInv, Pending
<1>8. QED BY <1>2, <1>5, <1>6, <1>7 DEF WorkInv

LEMMA WorkStep == TypeOK /\ WorkInv /\ [Next]_vars => WorkInv'
<1> SUFFICES ASSUME TypeOK, WorkInv, [Next]_vars PROVE WorkInv'
  OBVIOUS
<1>1. CASE Start
  BY <1>1, StartWork, TypeStep
<1>2. CASE Kill \/ Wipe
  BY <1>2, DieWork DEF Kill, Wipe
<1>3. ASSUME NEW f \in Futures, Step(f) PROVE WorkInv'
  BY <1>3, ResolveWork, ImportWork, CompleteWork, DieWork DEF Step, ImportFails
<1>4. CASE Finish \/ (\E n \in Names : Publish(n)) \/ UNCHANGED vars
  <2>1. UNCHANGED <<cell, manifest, pc, package, resolved>>
    BY <1>4 DEF Finish, Publish, vars, runVars
  <2>2. PackagesChosen' /\ PackagesBegun' /\ FuturesBelong'
    BY <2>1 DEF WorkInv, PackagesChosen, PackagesBegun, Chosen, FuturesBelong
  <2>3. FuturesBegun' /\ Awaited'
    BY <2>1 DEF WorkInv, FuturesBegun, Awaited
  <2>4. NoWaitCycle'
    BY <2>1, OrderKept DEF WorkInv, Pending
  <2>5. QED BY <2>2, <2>3, <2>4 DEF WorkInv
<1>5. QED BY <1>1, <1>2, <1>3, <1>4 DEF Next, Run

-----------------------------------------------------------------------------
(***************************************************************************)
(* The links of a run that found no dangling link.  Links lead to what      *)
(* exists, so that symlink_package always makes the link it is asked for,   *)
(* and what a future has linked is what its edge resolved to.               *)
(***************************************************************************)
LinksMade ==
  \A f \in Futures : pc[f] \in Past =>
    \E g \in Futures :
      /\ g.dir = f.dir /\ g.dep.name = f.dep.name /\ pc[g] \in Past
      /\ link[f.dir][f.dep.name] = package[g]

LinkInv == Told /\ sound => LinksMade /\ LinksLead

TreeInv == TypeOK /\ WorkInv /\ LinkInv /\ TreeLinked

LEMMA TreeInit == Init => TreeInv
  BY TypeInit, WorkInit DEF TreeInv, LinkInv, TreeLinked, Init, LinksMade, LinksLead, Past

\* A future that is done has left the link its edge asks for.
LEMMA DoneIsLinked ==
  ASSUME TreeInv, Told, sound, NEW f \in Futures, pc[f] = "done", NEW edges,
         \A g \in Futures : pc[g] # "absent" /\ g.dir = f.dir => g.dep \in edges
  PROVE  Linked(edges, f.dir, f.dep)
<1>1. PICK g \in Futures : /\ g.dir = f.dir /\ g.dep.name = f.dep.name /\ pc[g] \in Past
                           /\ link[f.dir][f.dep.name] = package[g]
  BY DEF TreeInv, LinkInv, LinksMade, Past
<1>2. PICK r \in Releases : package[g] = {r} /\ Chosen(g, r)
  BY <1>1 DEF TreeInv, WorkInv, PackagesChosen
<1>3. r \in resolved
  BY <1>1, <1>2 DEF TreeInv, WorkInv, PackagesBegun
<1>4. g.dep \in edges
  BY <1>1 DEF Past
<1>5. QED BY <1>1, <1>2, <1>3, <1>4 DEF Linked, Chosen

\* The process is gone: nothing is said of the links.
LEMMA DieLinks == ASSUME Die PROVE LinkInv' /\ TreeLinked'
  BY DEF Die, LinkInv, TreeLinked, Told

\* Where links lead to directories that exist, symlink_package always sets its own.
LEMMA SymlinkSets ==
  ASSUME TypeOK, LinksLead, NEW d \in Dirs, NEW r \in Releases, symlink_package(d, r)
  PROVE  /\ link'[d][r.name] = {r}
         /\ \A c \in Dirs : \A n \in Names : c # d \/ n # r.name => link'[c][n] = link[c][n]
<1>1. r.name \in Names
  BY RegistryAssumption
<1>2. link[d][r.name] = {} \/ \E t \in link[d][r.name] : Exists(t)
  BY <1>1 DEF LinksLead
<1>3. link' = [link EXCEPT ![d][r.name] = {r}]
  BY <1>2 DEF symlink_package
<1>4. link \in [Dirs -> [Names -> SUBSET Releases]]
  BY DEF TypeOK
<1>5. QED BY <1>1, <1>3, <1>4

LEMMA ExpandsKeepsLinks ==
  ASSUME TypeOK, WorkInv, LinksMade, LinksLead,
         NEW f \in Futures, NEW r \in Releases, Expands(f, r), symlink_package(f.dir, r),
         Exists(r)', \A t \in Releases : Exists(t) => Exists(t)'
  PROVE  LinksMade' /\ LinksLead'
<1>1. /\ pc'[f] \in Past /\ r.name = f.dep.name
      /\ \A g \in Futures : g # f => pc'[g] = pc[g] \/ (pc[g] = "absent" /\ pc'[g] = "metadata")
  BY ExpandsOnly
<1>2. f.dir \in Dirs /\ f.dep.name \in Names
  BY FutureFields
<1>3. /\ link'[f.dir][f.dep.name] = {r}
      /\ \A d \in Dirs : \A n \in Names : d # f.dir \/ n # f.dep.name => link'[d][n] = link[d][n]
  BY <1>1, <1>2, SymlinkSets
<1>4. resolved' = resolved \cup {r} /\ package' = package /\ cell' = cell /\ package[f] = {r}
  BY DEF Expands, install_dependencies
<1>5. LinksMade'
  <2>1. ASSUME NEW g \in Futures, pc'[g] \in Past
        PROVE  \E h \in Futures :
                    /\ h.dir = g.dir /\ h.dep.name = g.dep.name /\ pc'[h] \in Past
                    /\ link'[g.dir][g.dep.name] = package[h]
    <3>0. g.dir \in Dirs /\ g.dep.name \in Names
      BY <2>1, FutureFields
    <3>1. CASE g.dir = f.dir /\ g.dep.name = f.dep.name
      BY <1>1, <1>3, <1>4, <3>1
    <3>2. CASE ~(g.dir = f.dir /\ g.dep.name = f.dep.name)
      <4>1. pc[g] \in Past
        BY <1>1, <2>1, <3>2 DEF Past
      <4>2. PICK h \in Futures : /\ h.dir = g.dir /\ h.dep.name = g.dep.name /\ pc[h] \in Past
                                 /\ link[g.dir][g.dep.name] = package[h]
        BY <2>1, <4>1 DEF LinksMade
      <4>3. pc'[h] \in Past
        BY <1>1, <4>2 DEF Past
      <4>4. link'[g.dir][g.dep.name] = link[g.dir][g.dep.name]
        BY <1>3, <3>0, <3>2
      <4>5. QED BY <4>2, <4>3, <4>4
    <3>3. QED BY <3>1, <3>2
  <2>2. QED BY <1>4, <2>1 DEF LinksMade
<1>6. LinksLead'
  <2>1. ASSUME NEW d \in Dirs, NEW n \in Names, NEW t \in link'[d][n]
        PROVE  Exists(t)'
    <3>1. CASE d = f.dir /\ n = f.dep.name
      BY <1>3, <2>1, <3>1
    <3>2. CASE ~(d = f.dir /\ n = f.dep.name)
      <4>1. t \in link[d][n]
        BY <1>3, <2>1, <3>2
      <4>2. t \in Releases /\ Exists(t)
        BY <4>1 DEF TypeOK, LinksLead
      <4>3. QED BY <4>2
    <3>3. QED BY <3>1, <3>2
  <2>2. QED BY <2>1 DEF LinksLead
<1>7. QED BY <1>5, <1>6

LEMMA ImportLinks ==
  ASSUME TreeInv, NEW f \in Futures, Import(f) \/ Imported(f)
  PROVE  LinkInv' /\ TreeLinked'
<1>1. /\ process = "running" /\ process' = "running"
      /\ UNCHANGED <<sound, cell, manifest, package>> /\ pc[f] \in {"tarball", "import"}
  BY DEF Import, Imported, Polled, runVars
<1> SUFFICES ASSUME sound PROVE LinksMade' /\ LinksLead'
  BY <1>1 DEF LinkInv, TreeLinked
<1>0. LinksMade /\ LinksLead
  BY <1>1 DEF TreeInv, LinkInv, Told
<1>2. PICK r \in Releases : package[f] = {r}
  BY <1>1 DEF TreeInv, WorkInv, PackagesChosen
<1>3. CASE symlink_package(f.dir, r) /\ install_dependencies(f, r) /\ Exists(r)'
           /\ \A t \in Releases : Exists(t) => Exists(t)'
  BY <1>0, <1>1, <1>2, <1>3, ExpandsKeepsLinks DEF Expands, TreeInv
<1>4. CASE /\ virtual' = [virtual EXCEPT ![r] = "partial"] /\ pc[f] = "tarball"
           /\ pc' = [pc EXCEPT ![f] = "import"] /\ UNCHANGED <<link, resolved>>
  <2>1. /\ pc'[f] = "import" /\ \A g \in Futures : g # f => pc'[g] = pc[g]
        /\ \A t \in Releases : Exists(t) => Exists(t)'
    BY <1>4 DEF TreeInv, TypeOK, Exists
  <2>2. LinksMade'
    BY <1>0, <1>1, <1>4, <2>1 DEF LinksMade, Past
  <2>3. LinksLead'
    BY <1>0, <1>4, <2>1 DEF TreeInv, TypeOK, LinksLead
  <2>4. QED BY <2>2, <2>3
<1>5. CASE Import(f)
  <2>1. CASE Exists(r)
    BY <1>2, <1>3, <1>5, <2>1 DEF Import, Exists
  <2>2. CASE ~Exists(r)
    BY <1>2, <1>4, <1>5, <2>2 DEF Import
  <2>3. QED BY <2>1, <2>2
<1>6. CASE Imported(f)
  <2>1. virtual' = [virtual EXCEPT ![r] = "full"] /\ symlink_package(f.dir, r)
        /\ install_dependencies(f, r)
    BY <1>2, <1>6 DEF Imported
  <2>2. Exists(r)' /\ \A t \in Releases : Exists(t) => Exists(t)'
    BY <2>1 DEF TreeInv, TypeOK, Exists
  <2>3. QED BY <1>3, <2>1, <2>2
<1>7. QED BY <1>5, <1>6

\* Neither the links nor what they lead to change, and no future comes to be past them.
LEMMA LinksStay ==
  ASSUME LinkInv, UNCHANGED <<process, sound, virtual, link>>,
         \A g \in Futures : pc'[g] \in Past => pc[g] \in Past /\ package'[g] = package[g],
         \A g \in Futures : pc[g] \in Past => pc'[g] \in Past
  PROVE  LinkInv'
<1>1. LinksMade => LinksMade'
  BY DEF LinksMade
<1>2. LinksLead => LinksLead'
  BY DEF LinksLead, Exists
<1>3. QED BY <1>1, <1>2 DEF LinkInv, Told

LEMMA FinishLinks == ASSUME TreeInv, Finish PROVE LinkInv' /\ TreeLinked'
<1>1. /\ \A f \in RootsOf(manifest) : pc[f] = "done"
      /\ process = "running" /\ process' = "ok"
      /\ UNCHANGED <<cell, manifest, pc, package, resolved, virtual, sound>>
  BY DEF Finish, Polled
<1> SUFFICES ASSUME sound PROVE LinkInv' /\ TreeLinked'
  BY <1>1 DEF LinkInv, TreeLinked
<1>0. Told /\ LinksMade /\ LinksLead
  BY <1>1 DEF TreeInv, LinkInv, Told
<1>2. /\ \A d \in Dirs : d # Root => link'[d] = link[d]
      /\ link'[Root] = [n \in Names |-> IF \E e \in manifest : e.name = n THEN link[Root][n] ELSE {}]
  BY DEF Finish, TreeInv, TypeOK, Dirs
<1>3. \A r \in resolved : \A g \in ChildrenOf(r) : pc[g] = "done"
  BY <1>1, AllDone DEF TreeInv
\* The links of the futures that ran are all wanted.
<1>4. ASSUME NEW f \in Futures, pc[f] # "absent"
      PROVE  link'[f.dir][f.dep.name] = link[f.dir][f.dep.name]
  <2>1. f.dir \in Dirs /\ f.dep.name \in Names
    BY FutureFields
  <2>2. CASE f.dir = Root
    <3>1. f \in RootsOf(manifest)
      BY <1>4, <2>2, InstallAssumption DEF TreeInv, WorkInv, FuturesBelong, TypeOK
    <3>2. f.dep \in manifest
      BY <3>1, Roots DEF TreeInv, TypeOK
    <3>3. QED BY <1>2, <2>1, <2>2, <3>2
  <2>3. CASE f.dir # Root
    BY <1>2, <2>1, <2>3
  <2>4. QED BY <2>2, <2>3
<1>5. LinkInv'
  <2>1. LinksMade'
    BY <1>0, <1>1, <1>4 DEF LinksMade, Past
  <2>2. LinksLead'
    BY <1>0, <1>1, <1>2 DEF LinksLead, Exists
  <2>3. QED BY <2>1, <2>2 DEF LinkInv
<1>6. ASSUME NEW e \in manifest PROVE Linked(manifest, Root, e)'
  <2> DEFINE f == Future(Root, e)
  <2>1. f \in Futures /\ f \in RootsOf(manifest) /\ f.dir = Root /\ f.dep = e
    BY Roots DEF TreeInv, TypeOK
  <2>2. ASSUME NEW g \in Futures, pc[g] # "absent", g.dir = Root PROVE g.dep \in manifest
    <3>1. g \in RootsOf(manifest)
      BY <2>2, InstallAssumption DEF TreeInv, WorkInv, FuturesBelong, TypeOK
    <3>2. QED BY <3>1, Roots DEF TreeInv, TypeOK
  <2>3. Linked(manifest, Root, e)
    BY <1>0, <1>1, <2>1, <2>2, DoneIsLinked
  <2>4. link'[Root][e.name] = link[Root][e.name]
    BY <1>1, <1>4, <2>1
  <2>5. QED BY <1>1, <2>3, <2>4 DEF Linked
<1>7. ASSUME NEW r \in resolved, NEW e \in dependencies(r)
      PROVE  Linked(dependencies(r), r, e)'
  <2> DEFINE f == Future(r, e)
  <2>0. r \in Releases /\ r # Root
    BY InstallAssumption DEF TreeInv, TypeOK
  <2>1. f \in Futures /\ f \in ChildrenOf(r) /\ f.dir = r /\ f.dep = e
    BY <2>0, Children
  <2>2. ASSUME NEW g \in Futures, pc[g] # "absent", g.dir = r PROVE g.dep \in dependencies(r)
    <3>1. g \notin RootsOf(manifest)
      BY <2>0, <2>2, Roots DEF TreeInv, TypeOK
    <3>2. g \in ChildrenOf(r)
      BY <2>2, <3>1 DEF TreeInv, WorkInv, FuturesBelong
    <3>3. QED BY <2>0, <3>2, Children
  <2>3. Linked(dependencies(r), r, e)
    BY <1>0, <1>3, <2>1, <2>2, DoneIsLinked
  <2>4. link'[r][e.name] = link[r][e.name]
    BY <1>3, <1>4, <2>1
  <2>5. QED BY <1>1, <2>3, <2>4 DEF Linked, dependencies
<1>8. \A n \in Names : link'[Root][n] # {} => \E e \in manifest : e.name = n
  BY <1>2
<1>9. TreeLinked'
  BY <1>1, <1>6, <1>7, <1>8 DEF TreeLinked
<1>10. QED BY <1>5, <1>9

LEMMA TreeStep == TreeInv /\ [Next]_vars => TreeInv'
<1> SUFFICES ASSUME TreeInv, [Next]_vars PROVE LinkInv' /\ TreeLinked'
  BY TypeStep, WorkStep DEF TreeInv
<1>1. CASE Start
  <2>1. /\ process' = "running" /\ UNCHANGED <<virtual, link>> /\ sound' = LinksLead
        /\ \A f \in Futures : pc'[f] \notin Past
    BY <1>1 DEF Start, Past
  <2>2. LinkInv'
    BY <2>1 DEF LinkInv, LinksMade, LinksLead, Exists
  <2>3. QED BY <2>1, <2>2 DEF TreeLinked
<1>2. CASE Finish
  BY <1>2, FinishLinks
<1>3. ASSUME Die PROVE LinkInv' /\ TreeLinked'
  BY <1>3, DieLinks
<1>4. ASSUME NEW f \in Futures, Resolve(f), ~Die PROVE LinkInv' /\ TreeLinked'
  <2>1. /\ process' = "running" /\ UNCHANGED <<process, sound, virtual, link>>
        /\ pc[f] = "metadata" /\ pc'[f] = "tarball"
        /\ \A g \in Futures : g # f => pc'[g] = pc[g] /\ package'[g] = package[g]
    BY <1>4 DEF Resolve, Polled, runVars, TreeInv, TypeOK
  <2>2. QED BY <2>1, LinksStay DEF TreeInv, TreeLinked, Past
<1>5. ASSUME NEW f \in Futures, Import(f) \/ Imported(f) PROVE LinkInv' /\ TreeLinked'
  BY <1>5, ImportLinks
<1>6. ASSUME NEW f \in Futures, Complete(f) PROVE LinkInv' /\ TreeLinked'
  <2>1. /\ process' = "running" /\ UNCHANGED <<process, sound, package, virtual, link>>
        /\ pc[f] = "children" /\ pc'[f] = "done"
        /\ \A g \in Futures : g # f => pc'[g] = pc[g]
    BY <1>6 DEF Complete, Polled, runVars, TreeInv, TypeOK
  <2>2. QED BY <2>1, LinksStay DEF TreeInv, TreeLinked, Past
<1>7. CASE (\E n \in Names : Publish(n)) \/ UNCHANGED vars
  <2>1. UNCHANGED <<cell, manifest, process, pc, package, resolved, virtual, link, sound>>
    BY <1>7 DEF Publish, vars, runVars
  <2>2. TreeLinked'
    <3>1. \A edges, d, e : Linked(edges, d, e)' = Linked(edges, d, e)
      BY <2>1 DEF Linked
    <3>2. QED BY <2>1, <3>1 DEF TreeInv, TreeLinked
  <2>3. QED BY <2>1, <2>2, LinksStay DEF TreeInv
<1>8. QED BY <1>1, <1>2, <1>3, <1>4, <1>5, <1>6, <1>7 DEF Next, Run, Step, Kill, ImportFails, Wipe, Resolve

\* A run that ends well, and began with no link that dangles, leaves node_modules linked
\* as the manifest and the packages' own dependencies want it, whatever earlier runs left
\* there, when they were killed, which of their imports failed, and whatever the registry
\* publishes meanwhile.
THEOREM NodeModulesLinked == Spec => []TreeLinked
<1>1. Init => TreeInv
  BY TreeInit
<1>2. TreeInv /\ [Next]_vars => TreeInv'
  BY TreeStep
<1>3. TreeInv => TreeLinked
  BY DEF TreeInv
<1>4. QED BY <1>1, <1>2, <1>3, PTL DEF Spec

-----------------------------------------------------------------------------
(***************************************************************************)
(* SameSpecSameRelease: a cell is filled once per run, from at most one     *)
(* metadata, and a specifier selects at most one version of a metadata.     *)
(***************************************************************************)
AtMostOne(S) == \A x, y \in S : x = y

CellInv ==
  /\ \A n \in Names : AtMostOne(saved[n]) /\ AtMostOne(cell[n])
  /\ \A f \in Futures : \A r \in package[f] : Chosen(f, r)

LEMMA CellInit == Init => CellInv
  BY DEF Init, CellInv, AtMostOne

LEMMA CellStep == TypeOK /\ CellInv /\ [Next]_vars => CellInv'
<1> SUFFICES ASSUME TypeOK, CellInv, [Next]_vars PROVE CellInv'
  OBVIOUS
<1>0. ASSUME UNCHANGED <<saved, cell, package>> PROVE CellInv'
  BY <1>0 DEF CellInv, Chosen
<1>1. ASSUME Start \/ (Die /\ saved' = saved) PROVE CellInv'
  BY <1>1 DEF Start, Die, CellInv, AtMostOne
<1>2. ASSUME NEW f \in Futures, Resolve(f)
      PROVE  CellInv'
  <2> DEFINE n == f.dep.name
  <2>1. n \in Names
    BY FutureFields
  <2>2. AtMostOne(Fetched(n))
    BY <2>1 DEF Fetched, CellInv, AtMostOne
  <2>3. saved' = [saved EXCEPT ![n] = IF saved[n] = {} THEN Fetched(n) ELSE saved[n]]
    BY <1>2 DEF Resolve, Save
  <2>4. \A x \in Names : AtMostOne(saved'[x])
    BY <2>1, <2>2, <2>3 DEF CellInv, TypeOK
  <2>5. CASE Die
    BY <2>4, <2>5 DEF Die, CellInv, AtMostOne
  <2>6. CASE ~Die
    <3>1. PICK r \in Selected(f) :
            /\ cell' = [cell EXCEPT ![n] = Fetched(n)]
            /\ package' = [package EXCEPT ![f] = {r}]
      BY <1>2, <2>6 DEF Resolve
    <3>2. \A x \in Names : AtMostOne(cell'[x])
      BY <2>1, <2>2, <3>1 DEF CellInv, TypeOK
    <3>3. \A x \in Names : \A m \in cell[x] : m \in cell'[x]
      BY <2>1, <3>1 DEF Fetched, TypeOK
    <3>4. Chosen(f, r)'
      BY <2>1, <3>1, SelectedType DEF Chosen, TypeOK
    <3>5. ASSUME NEW g \in Futures, NEW q \in package'[g] PROVE Chosen(g, q)'
      <4>1. CASE g = f
        <5>1. q = r
          BY <3>1, <4>1 DEF TypeOK
        <5>2. QED BY <3>4, <4>1, <5>1
      <4>2. CASE g # f
        <5>1. Chosen(g, q) /\ g.dep.name \in Names
          BY <3>1, <4>2, FutureFields DEF TypeOK, CellInv
        <5>2. QED BY <3>3, <5>1 DEF Chosen
      <4>3. QED BY <4>1, <4>2
    <3>6. QED BY <2>4, <3>2, <3>5 DEF CellInv
  <2>7. QED BY <2>5, <2>6
<1>3. CASE Finish
  BY <1>0, <1>3 DEF Finish
<1>4. CASE Kill
  BY <1>1, <1>4 DEF Kill
<1>5. CASE Wipe
  BY <1>1, <1>5 DEF Wipe
<1>6. ASSUME NEW n \in Names, Publish(n) PROVE CellInv'
  BY <1>0, <1>6 DEF Publish
<1>7. ASSUME NEW f \in Futures, Import(f) \/ Imported(f) \/ Complete(f) PROVE CellInv'
  BY <1>0, <1>7 DEF Import, Imported, Complete
<1>8. CASE UNCHANGED vars
  BY <1>0, <1>8 DEF vars
<1>9. QED BY <1>1, <1>2, <1>3, <1>4, <1>5, <1>6, <1>7, <1>8 DEF Next, Run, Step, ImportFails

\* Whatever is published while a run resolves, and whatever file an earlier run
\* left: one specifier of one package means one release in a run.
THEOREM OneReleasePerSpecifier == Spec => []SameSpecSameRelease
<1>1. Spec => [](TypeOK /\ CellInv)
  BY TypeInit, TypeStep, CellInit, CellStep, PTL DEF Spec
<1>2. TypeOK /\ CellInv => SameSpecSameRelease
  <2> SUFFICES ASSUME TypeOK, CellInv, NEW f \in Futures, NEW g \in Futures,
                      f.dep.name = g.dep.name, f.dep.spec = g.dep.spec,
                      package[f] # {}, package[g] # {}
               PROVE  package[f] = package[g]
    BY DEF SameSpecSameRelease
  <2>1. ASSUME NEW r \in package[f], NEW q \in package[g] PROVE r = q
    <3>1. /\ f.dep.name \in Names /\ f.dep.spec \in Specifiers
          /\ r \in [name : Names, version : Versions] /\ q \in [name : Names, version : Versions]
      BY FutureFields, RegistryAssumption DEF TypeOK
    <3>2. r.name = q.name
      BY DEF CellInv, Chosen
    <3>3. PICK m \in cell[f.dep.name] : r.version \in version_by_specifier(m, f.dep.spec)
      BY DEF CellInv, Chosen
    <3>4. PICK o \in cell[f.dep.name] : q.version \in version_by_specifier(o, f.dep.spec)
      BY DEF CellInv, Chosen
    <3>5. o = m /\ m \in Metadata(f.dep.name)
      BY <3>1, <3>3, <3>4 DEF CellInv, AtMostOne, TypeOK
    <3>6. r.version = q.version
      BY <3>1, <3>3, <3>4, <3>5, SelectsOne
    <3>7. QED BY <3>1, <3>2, <3>6
  <2>2. QED BY <2>1
<1>3. QED BY <1>1, <1>2, PTL

-----------------------------------------------------------------------------
(***************************************************************************)
(* ImportedIsComplete: a directory that lacks files lacked them when the    *)
(* run started, or is being filled by the one future that imports, and      *)
(* nobody else is polled until it is full; what was resolved in this run    *)
(* has a directory.                                                         *)
(***************************************************************************)
Filling(f, r) == pc[f] = "import" /\ r \in package[f]

ImportInv ==
  /\ \A f \in Futures : AtMostOne(package[f])
  /\ \A f, g \in Futures : pc[f] = "import" /\ pc[g] = "import" => f = g
  /\ \A f \in Futures : pc[f] = "import" => package[f] \cap resolved = {}
  /\ Told => \A r \in Releases : virtual[r] = "partial" =>
       r \in found \/ (process = "running" /\ \E f \in Futures : Filling(f, r))
  /\ Told => \A r \in resolved : Exists(r)

LEMMA ImportInit == Init => ImportInv
  BY DEF Init, ImportInv, AtMostOne, Told

\* Where futures are polled, no directory lacks files, but for those found so.
LEMMA PolledIsWhole ==
  ASSUME ImportInv, Polled, NEW r \in Releases, virtual[r] = "partial" PROVE r \in found
  BY DEF ImportInv, Polled, Filling, Told

\* A step that lets no future import, creates no directory and forgets nothing.
LEMMA NobodyImports ==
  ASSUME TypeOK, UNCHANGED found, \A g \in Futures : AtMostOne(package'[g]),
         \A g \in Futures : pc'[g] # "import",
         \A r \in Releases : virtual'[r] = "partial" => r \in found,
         \A r \in resolved' : Exists(r)'
  PROVE  ImportInv'
  BY DEF ImportInv

LEMMA ExpandImports ==
  ASSUME TypeOK, NEW f \in Futures, NEW r \in Releases, install_dependencies(f, r)
  PROVE  \A g \in Futures : pc'[g] = "import" => pc[g] = "import" /\ g # f
  BY DEF install_dependencies, TypeOK

LEMMA ImportInvStep == TypeOK /\ ImportInv /\ [Next]_vars => ImportInv'
<1> SUFFICES ASSUME TypeOK, ImportInv, [Next]_vars PROVE ImportInv'
  OBVIOUS
<1>1. CASE Start
  BY <1>1 DEF Start, ImportInv, AtMostOne, TypeOK
<1>2. ASSUME Die PROVE ImportInv'
  BY <1>2 DEF Die, ImportInv, AtMostOne, Told
<1>3. ASSUME NEW f \in Futures, Resolve(f), ~Die PROVE ImportInv'
  <2>1. PICK r \in Selected(f) :
          /\ package' = [package EXCEPT ![f] = {r}]
          /\ pc' = [pc EXCEPT ![f] = "tarball"]
          /\ UNCHANGED <<process, found, resolved>>
    BY <1>3 DEF Resolve, runVars
  <2>2. Polled /\ UNCHANGED virtual
    BY <1>3 DEF Resolve
  <2>3. \A g \in Futures : AtMostOne(package'[g])
    BY <2>1 DEF TypeOK, ImportInv, AtMostOne
  <2>4. \A g \in Futures : pc'[g] # "import"
    BY <2>1, <2>2 DEF Polled, TypeOK
  <2>5. \A x \in resolved' : Exists(x)'
    BY <2>1, <2>2 DEF ImportInv, Polled, Told, Exists
  <2>6. QED BY <2>1, <2>2, <2>3, <2>4, <2>5, PolledIsWhole, NobodyImports
<1>4. ASSUME NEW f \in Futures, Import(f) PROVE ImportInv'
  <2>1. PICK r \in package[f] :
          IF Exists(r)
          THEN install_dependencies(f, r) /\ UNCHANGED virtual
          ELSE /\ virtual' = [virtual EXCEPT ![r] = "partial"]
               /\ pc' = [pc EXCEPT ![f] = "import"]
               /\ UNCHANGED resolved
    BY <1>4 DEF Import
  <2>2. Polled /\ UNCHANGED <<package, process, found>> /\ r \in Releases
    BY <1>4 DEF Import, runVars, TypeOK
  <2>3. \A x \in resolved : Exists(x)
    BY <2>2 DEF ImportInv, Polled, Told
  <2>4. CASE Exists(r)
    <3>1. \A g \in Futures : pc'[g] # "import"
      BY <2>1, <2>2, <2>4, ExpandImports DEF Polled
    <3>2. resolved' = resolved \cup {r} /\ UNCHANGED virtual
      BY <2>1, <2>4 DEF install_dependencies
    <3>3. \A x \in resolved' : Exists(x)'
      BY <2>3, <2>4, <3>2 DEF Exists
    <3>4. \A g \in Futures : AtMostOne(package'[g])
      BY <2>2 DEF ImportInv
    <3>5. QED BY <2>2, <3>1, <3>2, <3>3, <3>4, PolledIsWhole, NobodyImports
  <2>5. CASE ~Exists(r)
    <3>1. /\ \A x \in Releases : virtual'[x] = IF x = r THEN "partial" ELSE virtual[x]
          /\ \A g \in Futures : pc'[g] = IF g = f THEN "import" ELSE pc[g]
          /\ UNCHANGED resolved
      BY <2>1, <2>2, <2>5 DEF TypeOK
    <3>2. \A g \in Futures : pc'[g] = "import" <=> g = f
      BY <2>2, <3>1 DEF Polled
    <3>3. process' = "running" /\ Filling(f, r)'
      BY <2>2, <3>2 DEF Polled, Filling
    <3>4. \A x \in Releases : virtual'[x] = "partial" =>
            x \in found' \/ \E g \in Futures : Filling(g, x)'
      BY <2>2, <3>1, <3>3, PolledIsWhole
    <3>5. \A x \in resolved' : Exists(x)'
      BY <2>3, <3>1 DEF Exists, TypeOK
    <3>6. package[f] \cap resolved = {}
      BY <2>3, <2>5 DEF ImportInv, AtMostOne
    <3>7. QED BY <2>2, <3>1, <3>2, <3>3, <3>4, <3>5, <3>6 DEF ImportInv
  <2>6. QED BY <2>4, <2>5
<1>5. ASSUME NEW f \in Futures, Imported(f) PROVE ImportInv'
  <2>1. PICK r \in package[f] :
          virtual' = [virtual EXCEPT ![r] = "full"] /\ install_dependencies(f, r)
    BY <1>5 DEF Imported
  <2>2. /\ UNCHANGED <<package, process, found>> /\ r \in Releases /\ Told
        /\ pc[f] = "import" /\ package[f] \subseteq Releases
    BY <1>5 DEF Imported, runVars, TypeOK, Told
  <2>3. \A x \in Releases : virtual'[x] = IF x = r THEN "full" ELSE virtual[x]
    BY <2>1, <2>2 DEF TypeOK
  <2>4. \A g \in Futures : pc'[g] # "import"
    BY <2>1, <2>2, ExpandImports DEF ImportInv
  <2>5. \A x \in Releases : virtual'[x] = "partial" => x \in found
    <3> SUFFICES ASSUME NEW x \in Releases, virtual[x] = "partial", x # r, x \notin found
                 PROVE  FALSE
      BY <2>3
    <3>1. PICK g \in Futures : Filling(g, x)
      BY <2>2 DEF ImportInv
    <3>2. g = f
      BY <2>2, <3>1 DEF ImportInv, Filling
    <3>3. QED BY <3>1, <3>2 DEF ImportInv, AtMostOne, Filling
  <2>6. resolved' = resolved \cup {r} /\ resolved \subseteq Releases
    BY <2>1 DEF install_dependencies, TypeOK
  <2>7. \A x \in resolved' : Exists(x)'
    BY <2>2, <2>3, <2>6 DEF ImportInv, Exists
  <2>8. \A g \in Futures : AtMostOne(package'[g])
    BY <2>2 DEF ImportInv
  <2>9. QED BY <2>2, <2>4, <2>5, <2>7, <2>8, NobodyImports
<1>6. ASSUME NEW f \in Futures, Complete(f) PROVE ImportInv'
  <2>1. /\ Polled /\ UNCHANGED <<package, process, found, resolved, virtual>>
        /\ \A g \in Futures : pc'[g] # "import"
    BY <1>6 DEF Complete, Polled, runVars, TypeOK
  <2>2. /\ \A x \in resolved' : Exists(x)'
        /\ \A g \in Futures : AtMostOne(package'[g])
    BY <2>1 DEF ImportInv, Polled, Told, Exists
  <2>3. QED BY <2>1, <2>2, PolledIsWhole, NobodyImports
<1>7. CASE Finish
  <2>1. Polled /\ UNCHANGED <<pc, package, resolved, virtual, found>>
    BY <1>7 DEF Finish
  <2>2. /\ \A x \in resolved' : Exists(x)'
        /\ \A g \in Futures : AtMostOne(package'[g]) /\ pc'[g] # "import"
    BY <2>1 DEF ImportInv, Polled, Told, Exists
  <2>3. QED BY <2>1, <2>2, PolledIsWhole, NobodyImports
<1>8. CASE Wipe
  BY <1>2, <1>8 DEF Wipe
<1>9. CASE (\E n \in Names : Publish(n)) \/ UNCHANGED vars
  <2>1. UNCHANGED <<process, pc, package, resolved, virtual, found>>
    BY <1>9 DEF Publish, runVars, vars
  <2>2. QED BY <2>1 DEF ImportInv, Exists, Filling, Told
<1>10. QED
  BY <1>1, <1>2, <1>3, <1>4, <1>5, <1>6, <1>7, <1>8, <1>9
     DEF Next, Run, Step, Kill, ImportFails, Resolve

\* While a run goes on and when it has ended well, each package whose dependencies were
\* started has all its files or lacked some before the run: whatever imports fail, whoever
\* is killed, and whether or not the virtual store is deleted between runs.
THEOREM PackagesComplete == Spec => []ImportedIsComplete
<1>1. TypeOK /\ ImportInv => ImportedIsComplete
  <2> SUFFICES ASSUME TypeOK, ImportInv, Told, NEW r \in resolved, virtual[r] # "full"
               PROVE  r \in found
    BY DEF ImportedIsComplete, Told
  <2>1. r \in Releases /\ virtual[r] = "partial"
    BY DEF TypeOK, ImportInv, Exists
  <2>2. ~\E f \in Futures : Filling(f, r)
    BY DEF ImportInv, Filling
  <2>3. QED BY <2>1, <2>2 DEF ImportInv
<1>2. QED BY <1>1, TypeInit, TypeStep, ImportInit, ImportInvStep, PTL DEF Spec

-----------------------------------------------------------------------------
(* The installer implements DependencyClosure.  Resolve is Learn, the first *)
(* Import or Imported of a package is Take, and Finish is Finish: WorkInv   *)
(* says that nothing is missing then.  The disk plays no part, so kills and *)
(* wipes are covered.                                                       *)

\* The metadata of a cell make one release of an edge.
LEMMA StandsForOne ==
  ASSUME NEW e \in Deps, NEW M \in SUBSET Metadata(e.name), AtMostOne(M),
         NEW r \in Releases, NEW q \in Releases,
         r.name = e.name, q.name = e.name,
         NEW m \in M, r.version \in version_by_specifier(m, e.spec),
         NEW k \in M, q.version \in version_by_specifier(k, e.spec)
  PROVE  r = q
<1>1. e.name \in Names /\ e.spec \in Specifiers /\ k = m
  BY DEF Deps, AtMostOne
<1>2. r.version = q.version
  BY <1>1, SelectsOne
<1>3. r = [name |-> r.name, version |-> r.version] /\ q = [name |-> q.name, version |-> q.version]
  BY RegistryAssumption
<1>4. QED BY <1>2, <1>3

LEMMA EdgeFields == ASSUME NEW e \in Edges PROVE e \in Deps /\ e.name \in Names
BY FutureFields DEF Edges

\* The run is over, or forgotten.
LEMMA SilentMaps == ASSUME ~Told' PROVE Closure!Stop
<1>1. process' # "running" /\ process' # "ok"
  BY DEF Told
<1>2. QED BY <1>1 DEF Closure!Stop, Closure!Nothing

LEMMA UntoldStays ==
  ASSUME UNCHANGED <<process, manifest, cell, resolved>> PROVE UNCHANGED Closure!vars
BY DEF Closure!vars, Told, StandsFor

LEMMA StartMaps == ASSUME Start PROVE Closure!Begin
<1>1. /\ process # "running" /\ process' = "running" /\ manifest' \in Manifests /\ resolved' = {}
      /\ cell' = [n \in Names |-> {}]
  BY DEF Start
<1>2. \A e \in Edges : StandsFor(e)' = {}
  BY <1>1, EdgeFields DEF StandsFor
<1>3. Told'
  BY <1>1 DEF Told
<1>4. QED BY <1>1, <1>2, <1>3 DEF Closure!Begin, Closure!Nothing

\* A cell is set once: what was settled before stays, and the edges of the same name are
\* settled with this one.
LEMMA ResolveMaps ==
  ASSUME TypeOK, CellInv, CellInv', NEW f \in Futures, Resolve(f), ~Die
  PROVE  Closure!Learn
<1> DEFINE n == f.dep.name
<1>1. /\ process = "running" /\ cell' = [cell EXCEPT ![n] = Fetched(n)]
      /\ UNCHANGED <<manifest, process, resolved>>
  BY DEF Resolve, Polled, runVars
<1>2. n \in Names /\ cell \in [Names -> SUBSET AllMetadata] /\ Fetched(n) \subseteq Metadata(n)
  BY FutureFields, SelectedType DEF TypeOK
<1>3. cell'[n] = Fetched(n) /\ \A x \in Names : x # n => cell'[x] = cell[x]
  BY <1>1, <1>2
<1>4. ASSUME NEW e \in Edges
      PROVE  \/ StandsFor(e)' = StandsFor(e)
             \/ StandsFor(e) = {} /\ \E r \in Candidates[e] : StandsFor(e)' = {r}
  <2>1. e \in Deps /\ e.name \in Names
    BY EdgeFields
  <2>2. CASE e.name # n \/ cell[n] # {}
    <3>1. cell'[e.name] = cell[e.name]
      BY <1>3, <2>1, <2>2 DEF Fetched
    <3>2. QED BY <3>1 DEF StandsFor
  <2>3. CASE e.name = n /\ cell[n] = {}
    <3>1. StandsFor(e) = {}
      BY <2>3 DEF StandsFor
    <3>2. ASSUME NEW r \in StandsFor(e)' PROVE r \in Candidates[e] /\ StandsFor(e)' = {r}
      <4>1. PICK m \in cell'[n] : r.version \in version_by_specifier(m, e.spec)
        BY <2>3, <3>2 DEF StandsFor
      <4>2. r \in Releases /\ r.name = n
        BY <2>3, <3>2 DEF StandsFor
      <4>3. cell'[n] \in SUBSET Metadata(n) /\ AtMostOne(cell'[n])
        BY <1>2, <1>3 DEF CellInv
      <4>4. r = [name |-> n, version |-> r.version]
        BY <4>2, RegistryAssumption
      <4>5. r \in Candidates[e]
        BY <2>3, <4>1, <4>3, <4>4 DEF Candidates
      <4>6. ASSUME NEW q \in StandsFor(e)' PROVE q = r
        <5>1. q \in Releases /\ q.name = n /\ \E k \in cell'[n] : q.version \in version_by_specifier(k, e.spec)
          BY <2>3, <4>6 DEF StandsFor
        <5>2. QED BY <2>1, <2>3, <4>1, <4>2, <4>3, <5>1, StandsForOne
      <4>7. QED BY <3>2, <4>5, <4>6
    <3>3. QED BY <3>1, <3>2
  <2>4. QED BY <2>2, <2>3
<1>5. \A e \in Edges : StandsFor(e)' \subseteq Releases
  BY DEF StandsFor
<1>6. Told /\ Told'
  BY <1>1 DEF Told
<1>7. QED BY <1>1, <1>4, <1>5, <1>6 DEF Closure!Learn

\* What a future has chosen is what its edge stands for.
LEMMA ChosenStands ==
  ASSUME TypeOK, CellInv, NEW f \in Futures, NEW r \in Releases, Chosen(f, r)
  PROVE  StandsFor(f.dep) = {r}
<1>1. f.dep \in Deps /\ f.dep.name \in Names
  BY FutureFields
<1>2. cell[f.dep.name] \in SUBSET Metadata(f.dep.name) /\ AtMostOne(cell[f.dep.name])
  BY <1>1 DEF TypeOK, CellInv
<1>3. r \in StandsFor(f.dep)
  BY DEF Chosen, StandsFor
<1>4. ASSUME NEW q \in StandsFor(f.dep) PROVE q = r
  BY <1>1, <1>2, <1>4, StandsForOne DEF Chosen, StandsFor
<1>5. QED BY <1>3, <1>4

LEMMA NeededIs ==
  ASSUME TypeOK, Told
  PROVE  /\ Closure!Needed = manifest \cup UNION {dependencies(r) : r \in resolved}
         /\ \A e \in Closure!Needed : e \in Edges /\
              \/ Future(Root, e) \in RootsOf(manifest)
              \/ \E r \in resolved : Future(r, e) \in ChildrenOf(r)
<1>1. Closure!Needed = manifest \cup UNION {dependencies(r) : r \in resolved}
  BY DEF Closure!Needed, TypeOK
<1>2. ASSUME NEW e \in manifest PROVE e \in Edges /\ Future(Root, e) \in RootsOf(manifest)
  BY Roots DEF TypeOK, Edges
<1>3. ASSUME NEW r \in resolved, NEW e \in dependencies(r)
      PROVE  e \in Edges /\ Future(r, e) \in ChildrenOf(r)
  <2>1. r \in Releases
    BY DEF TypeOK
  <2>2. QED BY <2>1, Children DEF Edges
<1>4. QED BY <1>1, <1>2, <1>3

\* A package is taken for an edge of the manifest, or of a package that was taken.
LEMMA ImportMaps ==
  ASSUME TypeOK, WorkInv, CellInv, NEW f \in Futures, Import(f) \/ Imported(f)
  PROVE  UNCHANGED Closure!vars \/ \E r \in Releases : Closure!Take(r)
<1>1. /\ process = "running" /\ Told /\ Told' /\ UNCHANGED <<process, manifest, cell>>
      /\ pc[f] \in {"tarball", "import"}
  BY DEF Import, Imported, Polled, runVars, Told
<1>2. [e \in Edges |-> StandsFor(e)]' = [e \in Edges |-> StandsFor(e)]
  BY <1>1 DEF StandsFor
<1>3. CASE UNCHANGED resolved
  BY <1>1, <1>3, UntoldStays
<1>4. CASE ~UNCHANGED resolved
  <2>1. PICK r \in package[f] : resolved' = resolved \cup {r}
    BY <1>4 DEF Import, Imported, install_dependencies
  <2>2. r \in Releases /\ Chosen(f, r)
    BY <2>1 DEF TypeOK, CellInv
  <2>3. f.dep \in Edges /\ StandsFor(f.dep) = {r}
    BY <2>2, ChosenStands DEF Edges
  <2>4. f.dep \in Closure!Needed
    <3>1. f \in RootsOf(manifest) \/ (f.dir \in resolved /\ f \in ChildrenOf(f.dir))
      BY <1>1 DEF WorkInv, FuturesBelong
    <3>2. f \in RootsOf(manifest) => f.dep \in manifest
      BY Roots DEF TypeOK
    <3>3. f.dir \in resolved /\ f \in ChildrenOf(f.dir) => f.dep \in dependencies(f.dir)
      BY Children DEF TypeOK
    <3>4. QED BY <1>1, <3>1, <3>2, <3>3, NeededIs
  <2>5. Closure!Take(r)
    BY <1>1, <1>2, <2>1, <2>3, <2>4 DEF Closure!Take
  <2>6. QED BY <2>2, <2>5
<1>5. QED BY <1>3, <1>4

LEMMA FinishMaps == ASSUME TypeOK, WorkInv, CellInv, Finish PROVE Closure!Finish
<1>1. /\ process = "running" /\ process' = "ok" /\ Told /\ Told'
      /\ UNCHANGED <<manifest, cell, resolved>>
      /\ \A f \in RootsOf(manifest) : pc[f] = "done"
  BY DEF Finish, Polled, Told
<1>2. [e \in Edges |-> StandsFor(e)]' = [e \in Edges |-> StandsFor(e)]
  BY <1>1 DEF StandsFor
<1>3. \A r \in resolved : \A g \in ChildrenOf(r) : pc[g] = "done"
  BY <1>1, AllDone
<1>4. ASSUME NEW e \in Closure!Needed
      PROVE  e \in Edges /\ StandsFor(e) # {} /\ StandsFor(e) \subseteq resolved
  <2>1. PICK f \in Futures : f.dep = e /\ pc[f] = "done"
    <3>1. CASE Future(Root, e) \in RootsOf(manifest)
      <4>1. Future(Root, e) \in Futures
        BY <3>1, Roots DEF TypeOK
      <4>2. QED BY <1>1, <3>1, <4>1 DEF Future
    <3>2. CASE \E r \in resolved : Future(r, e) \in ChildrenOf(r)
      <4>1. PICK r \in resolved : Future(r, e) \in ChildrenOf(r)
        BY <3>2
      <4>2. Future(r, e) \in Futures
        BY <4>1, Children DEF TypeOK
      <4>3. QED BY <1>3, <4>1, <4>2 DEF Future
    <3>3. QED BY <1>1, <1>4, <3>1, <3>2, NeededIs
  <2>2. PICK r \in Releases : package[f] = {r} /\ Chosen(f, r)
    BY <2>1 DEF WorkInv, PackagesChosen, Past
  <2>3. r \in resolved
    BY <2>1, <2>2 DEF WorkInv, PackagesBegun, Past
  <2>4. StandsFor(e) = {r}
    BY <2>1, <2>2, ChosenStands
  <2>5. QED BY <1>1, <1>4, <2>3, <2>4, NeededIs
<1>5. QED BY <1>1, <1>2, <1>4 DEF Closure!Finish

\* Although a future returns when another has only started its package, and whatever is
\* published, killed or deleted meanwhile: each edge is settled once, a package is taken
\* when something needs it, and a run ends well with all that is needed.
THEOREM InstallIsDependencyClosure == Spec => ImplementsDependencyClosure
<1> DEFINE I == TypeOK /\ WorkInv /\ CellInv
<1>1. Init => Closure!Init
  BY DEF Init, Closure!Init, Closure!Nothing, Told
<1>2. I /\ CellInv' /\ [Next]_vars => [Closure!Next]_(Closure!vars)
  <2> SUFFICES ASSUME I, CellInv', [Next]_vars PROVE Closure!Next \/ UNCHANGED Closure!vars
    OBVIOUS
  <2>1. CASE Start
    BY <2>1, StartMaps DEF Closure!Next
  <2>2. CASE Finish
    BY <2>2, FinishMaps DEF Closure!Next
  <2>3. CASE Die
    <3>1. ~Told'
      BY <2>3 DEF Die, Told
    <3>2. QED BY <3>1, SilentMaps DEF Closure!Next
  <2>4. ASSUME NEW f \in Futures, Resolve(f), ~Die PROVE Closure!Next
    BY <2>4, ResolveMaps DEF Closure!Next
  <2>5. ASSUME NEW f \in Futures, Import(f) \/ Imported(f) PROVE Closure!Next \/ UNCHANGED Closure!vars
    BY <2>5, ImportMaps DEF Closure!Next
  <2>6. CASE (\E f \in Futures : Complete(f)) \/ (\E n \in Names : Publish(n)) \/ UNCHANGED vars
    <3>1. UNCHANGED <<process, manifest, cell, resolved>>
      BY <2>6 DEF Complete, Publish, runVars, vars
    <3>2. QED BY <3>1, UntoldStays
  <2>7. QED BY <2>1, <2>2, <2>3, <2>4, <2>5, <2>6 DEF Next, Run, Step, Kill, Wipe, ImportFails
<1>3. QED
  BY <1>1, <1>2, TypeInit, TypeStep, WorkInit, WorkStep, CellInit, CellStep, PTL
  DEF Spec, ImplementsDependencyClosure, Closure!Spec
=============================================================================
