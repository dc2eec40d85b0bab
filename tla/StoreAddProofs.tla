--------------------------- MODULE StoreAddProofs ---------------------------
(***************************************************************************)
(* Proofs about StoreAdd and the LockfileInstall it contains, for any       *)
(* registry, lockfiles, arguments, failures and kills.                      *)
(*                                                                          *)
(* First: a `store add` that ends well has stored what it was asked for     *)
(* with all its dependencies.  The recursion is a depth-first walk, so the  *)
(* invariant is that of a search: what a stored release depends on is       *)
(* stored, or still in a loop of the stack (Covered), and nothing else is   *)
(* (Reached).  That a release does not change meanwhile follows from the    *)
(* OnceCell of its name, set once (CellsSetOnce).                           *)
(*                                                                          *)
(* Second: fetch takes the closure of its groups, and an install leaves the *)
(* tree its lockfile describes.  What is in a directory or in the memory    *)
(* cache was put there from some supported snapshot (Filled, FilesCached),  *)
(* and Consistent says that snapshots of one directory or one url agree.    *)
(* What each future has done (Progress), who has a future (AllInstalled,    *)
(* AllFetched), what the walk has met (Walked) and which links may dangle   *)
(* (LinksSound) are kept by every step.                                     *)
(***************************************************************************)
EXTENDS StoreAdd, RegistryProofs

\* What the loops of a stack have left.
On(s) == UNION {s[i] : i \in 1..Len(s)}

\* What the requests of a join_all are for: the arguments, or the dependencies of the
\* release that has been stored last.
Frame == IF current = {} THEN arguments ELSE UNION {Declared(r) : r \in current}

AddTypes ==
  /\ arguments \subseteq Asked
  /\ request \in [Asked -> {"none", "new", "fetching", "found", "failed"}]
  /\ \A n \in Names : cell[n] \subseteq Metadata(n)
  /\ DOMAIN cell = Names
  /\ stack \in Seq(SUBSET Releases)
  /\ resolved \subseteq Releases /\ current \subseteq resolved

CellsSetOnce ==
  /\ \A n \in Names : \A m, k \in cell[n] : m = k
  /\ \A e \in Asked : request[e] = "fetching" =>
       /\ cell[e.name] = {}
       /\ \A x \in Asked : request[x] = "fetching" /\ x.name = e.name => x = e
  /\ \A e \in Asked : request[e] = "found" => Release(e) # {}

\* Where the command is.
Position ==
  /\ adding = "metadata" =>
       /\ \A e \in Asked : request[e] # "none" <=> e \in Frame
       /\ current = {} => resolved = {} /\ stack = <<>>
  /\ adding = "tarball" => current # {}
  /\ adding \in {"next", "ok"} => current = {}
  /\ adding \in {"metadata", "tarball"} => \A r, q \in current : r = q
  /\ adding = "ok" => stack = <<>>

Found(e) == Release(e) # {} /\ Release(e) \subseteq resolved \cup On(stack)

Covered ==
  /\ (adding = "metadata" /\ current = {}) \/ \A e \in arguments : Found(e)
  /\ \A r \in resolved \ current : \A e \in Declared(r) : Found(e)

Reached == \A r \in resolved \cup On(stack) : \E e \in Wanted : r \in Release(e)

Stored ==
  \A r \in resolved : \/ IntegrityOf[r] # {} /\ IntegrityOf[r] \subseteq store
                      \/ adding = "tarball" /\ r \in current

AddInv ==
  /\ adding \in {"no", "metadata", "next", "tarball", "ok"}
  /\ adding # "no" => AddTypes /\ CellsSetOnce /\ Position /\ Covered /\ Reached /\ Stored

-----------------------------------------------------------------------------
(* Stacks of sets.                                                          *)

LEMMA PushOn ==
  ASSUME NEW T, NEW s \in Seq(SUBSET T), NEW X \in SUBSET T
  PROVE  <<X>> \o s \in Seq(SUBSET T) /\ On(<<X>> \o s) = X \cup On(s)
<1> DEFINE p == <<X>> \o s
<1>1. /\ p \in Seq(SUBSET T) /\ Len(p) = Len(s) + 1 /\ p[1] = X
      /\ \A i \in 1..Len(s) : p[i + 1] = s[i]
  OBVIOUS
<1>2. ASSUME NEW r \in On(p) PROVE r \in X \cup On(s)
  <2>1. PICK i \in 1..Len(p) : r \in p[i]
    BY <1>2 DEF On
  <2>2. CASE i = 1
    BY <1>1, <2>1, <2>2
  <2>3. CASE i # 1
    <3>1. i - 1 \in 1..Len(s) /\ p[i] = s[i - 1]
      BY <1>1, <2>1, <2>3
    <3>2. QED BY <2>1, <3>1 DEF On
  <2>4. QED BY <2>2, <2>3
<1>3. X \subseteq On(p)
  <2>1. 1 \in 1..Len(p)
    BY <1>1
  <2>2. QED BY <1>1, <2>1 DEF On
<1>4. On(s) \subseteq On(p)
  <2>1. \A i \in 1..Len(s) : i + 1 \in 1..Len(p)
    BY <1>1
  <2>2. QED BY <1>1, <2>1 DEF On
<1>5. QED BY <1>1, <1>2, <1>3, <1>4

LEMMA PopOn ==
  ASSUME NEW T, NEW s \in Seq(SUBSET T), s # <<>>
  PROVE  /\ Head(s) \in SUBSET T /\ Tail(s) \in Seq(SUBSET T)
         /\ On(s) = Head(s) \cup On(Tail(s))
<1>1. /\ Head(s) = s[1] /\ Tail(s) \in Seq(SUBSET T) /\ Len(Tail(s)) = Len(s) - 1
      /\ Len(s) \in Nat /\ Len(s) >= 1
      /\ \A i \in 1..Len(Tail(s)) : Tail(s)[i] = s[i + 1]
  OBVIOUS
<1>2. 1 \in 1..Len(s) /\ \A i \in 1..Len(Tail(s)) : i + 1 \in 1..Len(s)
  BY <1>1
<1>3. Head(s) \in SUBSET T
  BY <1>1, <1>2
<1>4. ASSUME NEW r \in On(s) PROVE r \in Head(s) \cup On(Tail(s))
  <2>1. PICK i \in 1..Len(s) : r \in s[i]
    BY <1>4 DEF On
  <2>2. CASE i = 1
    BY <1>1, <2>1, <2>2
  <2>3. CASE i # 1
    <3>1. i - 1 \in 1..Len(Tail(s)) /\ Tail(s)[i - 1] = s[i]
      BY <1>1, <2>1, <2>3
    <3>2. QED BY <2>1, <3>1 DEF On
  <2>4. QED BY <2>2, <2>3
<1>5. Head(s) \subseteq On(s) /\ On(Tail(s)) \subseteq On(s)
  BY <1>1, <1>2 DEF On
<1>6. QED BY <1>1, <1>3, <1>4, <1>5

LEMMA TakeOn ==
  ASSUME NEW T, NEW s \in Seq(SUBSET T), s # <<>>, NEW r \in Head(s)
  PROVE  LET t == [s EXCEPT ![1] = @ \ {r}]
         IN  t \in Seq(SUBSET T) /\ On(t) \subseteq On(s) /\ On(s) \subseteq On(t) \cup {r}
<1> DEFINE t == [s EXCEPT ![1] = @ \ {r}]
<1>1. /\ t \in Seq(SUBSET T) /\ Len(t) = Len(s) /\ Len(s) \in Nat
      /\ \A i \in 1..Len(s) : t[i] \subseteq s[i] /\ s[i] \subseteq t[i] \cup {r}
  <2>1. Len(s) \in Nat /\ 1 \in 1..Len(s) /\ DOMAIN s = 1..Len(s) /\ s \in [1..Len(s) -> SUBSET T]
    OBVIOUS
  <2>2. t \in [1..Len(s) -> SUBSET T]
    BY <2>1
  <2>3. t \in Seq(SUBSET T) /\ Len(t) = Len(s)
    BY <2>1, <2>2
  <2>4. QED BY <2>1, <2>3
<1>2. On(t) \subseteq On(s) /\ On(s) \subseteq On(t) \cup {r}
  BY <1>1 DEF On
<1>3. QED BY <1>1, <1>2

-----------------------------------------------------------------------------
(* Releases and requests.                                                   *)

LEMMA DeclaredType ==
  ASSUME NEW r \in Releases PROVE Declared(r) \subseteq Asked /\ Declared(r) \subseteq Specs
<1>1. Dependencies[r] \subseteq Deps
  BY RegistryAssumption
<1>2. ASSUME NEW d \in dependencies(r) PROVE [name |-> d.name, spec |-> d.spec] \in Specs
  <2>1. d \in Deps
    BY <1>1, <1>2 DEF dependencies
  <2>2. QED BY <2>1 DEF Specs, Deps
<1>3. Declared(r) \subseteq Specs
  BY <1>2 DEF Declared
<1>4. Declared(r) \subseteq Asked
  BY DEF Asked
<1>5. QED BY <1>3, <1>4

LEMMA AskedType == Asked \subseteq Specs
<1>1. UNION Arguments \subseteq Specs
  BY AddAssumption
<1>2. QED BY <1>1, DeclaredType DEF Asked

LEMMA SpecFields == ASSUME NEW e \in Specs PROVE e.name \in Names /\ e.spec \in Specifiers
BY DEF Specs

LEMMA ReleaseType ==
  ASSUME AddTypes, NEW e \in Asked
  PROVE  Release(e) \subseteq Releases
<1>1. e.name \in Names /\ e.spec \in Specifiers
  BY AskedType, SpecFields
<1>2. ASSUME NEW m \in cell[e.name], NEW v \in version_by_specifier(m, e.spec)
      PROVE  [name |-> e.name, version |-> v] \in Releases
  <2>1. m.versions \subseteq VersionsOf(e.name)
    BY <1>1 DEF AddTypes, Metadata
  <2>2. v \in VersionsOf(e.name)
    BY <1>1, <1>2, <2>1, SelectsPublished
  <2>3. QED BY <2>2 DEF VersionsOf
<1>3. QED BY <1>2 DEF Release

\* A cell that is set stays as it is, and with it the releases it selects.
LEMMA ReleaseStays ==
  ASSUME NEW e, cell'[e.name] = cell[e.name]
  PROVE  Release(e)' = Release(e)
BY DEF Release

LEMMA UnsetSelectsNothing ==
  ASSUME NEW e, cell[e.name] = {}
  PROVE  Release(e) = {}
BY DEF Release

LEMMA StopsKeeps == ASSUME AddStops PROVE AddInv'
BY DEF AddStops, AddInv

\* An answer, new or from the cell.
LEMMA ResolveKeeps ==
  ASSUME AddInv, adding = "metadata", NEW e \in Asked, NEW m, m \in Metadata(e.name),
         Resolve(e, m), UNCHANGED store,
         \/ request[e] = "new" /\ cell[e.name] = {m}
         \/ request[e] = "fetching"
  PROVE  AddInv'
<1>1. CASE e.spec.kind = "unparsable"
  BY <1>1, StopsKeeps DEF Resolve
<1>2. CASE e.spec.kind # "unparsable"
  <2> DEFINE V == version_by_specifier(m, e.spec)
  <2>1. /\ request' = [request EXCEPT ![e] = IF V = {} THEN "failed" ELSE "found"]
        /\ cell' = [cell EXCEPT ![e.name] = {m}]
        /\ UNCHANGED <<adding, arguments, stack, current, resolved>>
    BY <1>2 DEF Resolve, loops
  <2>2. e.name \in Names
    BY AskedType, SpecFields
  <2>3. AddTypes /\ CellsSetOnce /\ Position /\ Covered /\ Reached /\ Stored
    BY DEF AddInv
  <2>4. /\ cell'[e.name] = {m} /\ \A n \in Names : n # e.name => cell'[n] = cell[n]
        /\ DOMAIN cell' = Names
    BY <2>1, <2>2, <2>3 DEF AddTypes
  <2>5. /\ request'[e] = (IF V = {} THEN "failed" ELSE "found")
        /\ \A x \in Asked : x # e => request'[x] = request[x]
        /\ request' \in [Asked -> {"none", "new", "fetching", "found", "failed"}]
    BY <2>1, <2>3 DEF AddTypes
  <2>6. ASSUME NEW x \in Specs, Release(x) # {} PROVE Release(x)' = Release(x)
    <3>1. x.name \in Names /\ cell[x.name] # {}
      BY <2>6, SpecFields, UnsetSelectsNothing
    <3>2. cell'[x.name] = cell[x.name]
      <4>1. CASE x.name = e.name
        BY <2>3, <2>4, <3>1, <4>1 DEF CellsSetOnce
      <4>2. CASE x.name # e.name
        BY <2>4, <3>1, <4>2
      <4>3. QED BY <4>1, <4>2
    <3>3. QED BY <3>2, ReleaseStays
  <2>7. AddTypes'
    BY <2>1, <2>2, <2>3, <2>4, <2>5 DEF AddTypes
  <2>8. CellsSetOnce'
    <3>1. \A n \in Names : \A k, l \in cell'[n] : k = l
      BY <2>3, <2>4 DEF CellsSetOnce
    <3>2. ASSUME NEW x \in Asked, request'[x] = "fetching"
          PROVE  /\ cell'[x.name] = {}
                 /\ \A y \in Asked : request'[y] = "fetching" /\ y.name = x.name => y = x
      <4>1. x # e /\ request[x] = "fetching"
        BY <2>5, <3>2
      <4>2. x.name # e.name /\ x.name \in Names
        BY <2>3, <4>1, AskedType, SpecFields DEF CellsSetOnce
      <4>3. cell'[x.name] = {}
        BY <2>3, <2>4, <4>1, <4>2 DEF CellsSetOnce
      <4>4. \A y \in Asked : request'[y] = "fetching" => request[y] = "fetching"
        BY <2>5
      <4>5. QED BY <2>3, <4>1, <4>3, <4>4 DEF CellsSetOnce
    <3>3. ASSUME NEW x \in Asked, request'[x] = "found" PROVE Release(x)' # {}
      <4>1. CASE x = e
        <5>1. PICK v \in V : TRUE
          BY <2>5, <3>3, <4>1
        <5>2. [name |-> e.name, version |-> v] \in Release(e)'
          BY <2>4, <5>1 DEF Release
        <5>3. QED BY <4>1, <5>2
      <4>2. CASE x # e
        <5>1. Release(x) # {} /\ x \in Specs
          BY <2>3, <2>5, <3>3, <4>2, AskedType DEF CellsSetOnce
        <5>2. QED BY <2>6, <5>1
      <4>3. QED BY <4>1, <4>2
    <3>4. QED BY <3>1, <3>2, <3>3 DEF CellsSetOnce
  <2>9. Position'
    <3>1. Frame' = Frame
      BY <2>1 DEF Frame
    <3>2. \A x \in Asked : request'[x] # "none" <=> request[x] # "none"
      BY <2>5
    <3>3. QED BY <2>1, <2>3, <3>1, <3>2 DEF Position
  <2>10. Covered'
    <3>1. \A x \in Specs : Found(x) => Found(x)'
      BY <2>1, <2>6 DEF Found
    <3>2. arguments \subseteq Specs /\ \A r \in resolved : Declared(r) \subseteq Specs
      BY <2>3, AskedType, DeclaredType DEF AddTypes
    <3>3. QED BY <2>1, <2>3, <3>1, <3>2 DEF Covered
  <2>11. Reached'
    <3>1. Wanted' = Wanted /\ Wanted \subseteq Specs
      BY <2>1, <2>3, AskedType, DeclaredType DEF Wanted, AddTypes
    <3>2. QED BY <2>1, <2>3, <2>6, <3>1 DEF Reached
  <2>12. Stored'
    BY <2>1, <2>3 DEF Stored
  <2>13. QED BY <2>1, <2>7, <2>8, <2>9, <2>10, <2>11, <2>12 DEF AddInv
<1>3. QED BY <1>1, <1>2

-----------------------------------------------------------------------------
(* The actions.                                                             *)

LEMMA StartKeeps == ASSUME StartAdd PROVE AddInv'
<1>1. /\ arguments' \in Arguments /\ adding' = "metadata" /\ Requests(arguments') /\ NewMemory
  BY DEF StartAdd
<1>2. /\ request' = [e \in Asked |-> IF e \in arguments' THEN "new" ELSE "none"]
      /\ cell' = [n \in Names |-> {}] /\ stack' = <<>> /\ current' = {} /\ resolved' = {}
  BY <1>1 DEF Requests, NewMemory
<1>3. arguments' \subseteq Asked
  BY <1>1 DEF Asked
<1>4. On(stack') = {}
  BY <1>2 DEF On
<1>5. AddTypes' /\ CellsSetOnce'
  BY <1>2, <1>3 DEF AddTypes, CellsSetOnce
<1>6. Frame' = arguments'
  BY <1>2 DEF Frame
<1>7. Position' /\ Covered' /\ Stored'
  BY <1>1, <1>2, <1>6 DEF Position, Covered, Stored
<1>8. Reached'
  BY <1>2, <1>4 DEF Reached
<1>9. QED BY <1>1, <1>5, <1>7, <1>8 DEF AddInv

\* Another request for metadata, or one that fails.
LEMMA RequestKeeps ==
  ASSUME AddInv, adding = "metadata", NEW e \in Asked, NEW l \in {"fetching", "failed"},
         request[e] # "none", request' = [request EXCEPT ![e] = l],
         UNCHANGED <<vars, adding, arguments, cell, loops>>,
         l = "fetching" =>
           /\ cell[e.name] = {}
           /\ \A x \in Asked : request[x] = "fetching" => x.name # e.name
  PROVE  AddInv'
<1>1. AddTypes /\ CellsSetOnce /\ Position /\ Covered /\ Reached /\ Stored
  BY DEF AddInv
<1>2. /\ UNCHANGED <<adding, arguments, cell, stack, current, resolved, store>>
      /\ \A x : Release(x)' = Release(x)
  BY DEF loops, vars, disk, Release
<1>3. /\ request'[e] = l /\ \A x \in Asked : x # e => request'[x] = request[x]
      /\ request' \in [Asked -> {"none", "new", "fetching", "found", "failed"}]
  BY <1>1 DEF AddTypes
<1>4. AddTypes'
  BY <1>1, <1>2, <1>3 DEF AddTypes
<1>5. CellsSetOnce'
  BY <1>1, <1>2, <1>3 DEF CellsSetOnce
<1>6. Position'
  <2>1. Frame' = Frame
    BY <1>2 DEF Frame
  <2>2. \A x \in Asked : request'[x] # "none" <=> request[x] # "none"
    BY <1>3
  <2>3. QED BY <1>1, <1>2, <2>1, <2>2 DEF Position
<1>7. Covered' /\ Reached' /\ Stored'
  BY <1>1, <1>2 DEF Covered, Found, Reached, Wanted, Stored
<1>8. QED BY <1>2, <1>4, <1>5, <1>6, <1>7 DEF AddInv

LEMMA GatheredKeeps == ASSUME AddInv, Gathered PROVE AddInv'
<1>1. CASE \E e \in Asked : request[e] = "failed"
  BY <1>1, StopsKeeps DEF Gathered
<1>2. CASE ~(\E e \in Asked : request[e] = "failed")
  <2> DEFINE found == {e \in Asked : request[e] = "found"}
             X == UNION {Release(e) : e \in found}
  <2>1. AddTypes /\ CellsSetOnce /\ Position /\ Covered /\ Reached /\ Stored
    BY DEF AddInv, Gathered
  <2>2. /\ adding = "metadata" /\ adding' = "next" /\ stack' = <<X>> \o stack /\ current' = {}
        /\ request' = [e \in Asked |-> "none"]
        /\ UNCHANGED <<arguments, cell, resolved, store>>
    BY <1>2 DEF Gathered, Requests, vars, disk
  <2>3. \A e : Release(e)' = Release(e)
    BY <2>2 DEF Release
  <2>4. \A e \in Asked : e \in Frame <=> e \in found
    BY <1>2, <2>1, <2>2 DEF Gathered, Position
  <2>5. /\ stack' \in Seq(SUBSET Releases) /\ On(stack') = X \cup On(stack)
    <3>1. X \in SUBSET Releases
      BY <2>1, ReleaseType
    <3>2. QED BY <2>1, <2>2, <3>1, PushOn DEF AddTypes
  <2>6. AddTypes' /\ CellsSetOnce'
    BY <2>1, <2>2, <2>5 DEF AddTypes, CellsSetOnce
  <2>7. Position'
    BY <2>2 DEF Position
  <2>8. Frame \subseteq Asked
    BY <2>1, DeclaredType DEF Frame, AddTypes
  <2>9. \A e : (Found(e) => Found(e)') /\ (e \in Frame => Found(e)')
    <3>1. ASSUME NEW e, e \in Frame PROVE Found(e)'
      <4>1. e \in found
        BY <2>4, <2>8, <3>1
      <4>2. Release(e) # {}
        BY <2>1, <4>1 DEF CellsSetOnce
      <4>3. Release(e) \subseteq X
        BY <4>1
      <4>4. QED BY <2>3, <2>5, <4>2, <4>3 DEF Found
    <3>2. \A e : Found(e) => Found(e)'
      BY <2>2, <2>3, <2>5 DEF Found
    <3>3. QED BY <3>1, <3>2
  <2>10. Covered'
    <3>1. \A e \in arguments : Found(e)'
      BY <2>1, <2>2, <2>9 DEF Covered, Frame
    <3>2. ASSUME NEW r \in resolved, NEW e \in Declared(r) PROVE Found(e)'
      <4>1. CASE r \in current
        BY <2>9, <3>2, <4>1 DEF Frame
      <4>2. CASE r \notin current
        BY <2>1, <2>9, <3>2, <4>2 DEF Covered
      <4>3. QED BY <4>1, <4>2
    <3>3. QED BY <2>2, <3>1, <3>2 DEF Covered
  <2>11. Reached'
    <3>1. Wanted' = Wanted /\ Frame \subseteq Wanted
      BY <2>1, <2>2 DEF Wanted, Frame, AddTypes
    <3>2. \A r \in X : \E e \in Wanted : r \in Release(e)
      BY <2>4, <3>1
    <3>3. QED BY <2>1, <2>2, <2>3, <2>5, <3>1, <3>2 DEF Reached
  <2>12. Stored'
    BY <2>1, <2>2 DEF Stored
  <2>13. QED BY <2>2, <2>6, <2>7, <2>10, <2>11, <2>12 DEF AddInv
<1>3. QED BY <1>1, <1>2

LEMMA NextPackageKeeps == ASSUME AddInv, NextPackage PROVE AddInv'
<1>1. AddTypes /\ CellsSetOnce /\ Position /\ Covered /\ Reached /\ Stored
  BY DEF AddInv, NextPackage
<1>2. /\ adding = "next" /\ current = {} /\ stack \in Seq(SUBSET Releases) /\ stack # <<>>
      /\ UNCHANGED <<arguments, request, cell, store>>
  BY <1>1 DEF NextPackage, Position, AddTypes, vars, disk
<1>3. \A e : Release(e)' = Release(e)
  BY <1>2 DEF Release
<1>4. CASE Head(stack) = {} /\ stack' = Tail(stack) /\ UNCHANGED <<adding, current, resolved>>
  <2>1. stack' \in Seq(SUBSET Releases) /\ On(stack') = On(stack)
    <3>1. /\ Tail(stack) \in Seq(SUBSET Releases)
          /\ On(stack) = Head(stack) \cup On(Tail(stack))
      BY <1>2, PopOn
    <3>2. On(stack) = On(Tail(stack))
      BY <1>4, <3>1
    <3>3. On(stack)' = On(Tail(stack))
      BY <1>4 DEF On
    <3>4. QED BY <1>4, <3>1, <3>2, <3>3
  <2>2. AddTypes' /\ CellsSetOnce' /\ Position' /\ Stored'
    BY <1>1, <1>2, <1>3, <1>4, <2>1 DEF AddTypes, CellsSetOnce, Position, Stored
  <2>3. Covered' /\ Reached'
    BY <1>1, <1>2, <1>3, <1>4, <2>1 DEF Covered, Found, Reached, Wanted
  <2>4. QED BY <1>2, <1>4, <2>2, <2>3 DEF AddInv
<1>5. ASSUME NEW r \in Head(stack), stack' = [stack EXCEPT ![1] = @ \ {r}], Store(r)
      PROVE  AddInv'
  <2>1. /\ stack' \in Seq(SUBSET Releases) /\ On(stack') \subseteq On(stack)
        /\ On(stack) \subseteq On(stack') \cup {r}
    BY <1>2, <1>5, TakeOn
  <2>2. r \in Releases /\ r \in On(stack)
    BY <1>2, <1>5, PopOn
  <2>3. /\ resolved' = resolved \cup {r}
        /\ \/ r \in resolved /\ adding' = "next" /\ current' = {}
           \/ r \notin resolved /\ adding' = "tarball" /\ current' = {r}
    BY <1>2, <1>5 DEF Store
  <2>4. AddTypes'
    BY <1>1, <1>2, <2>1, <2>2, <2>3 DEF AddTypes
  <2>5. CellsSetOnce'
    BY <1>1, <1>2, <1>3 DEF CellsSetOnce
  <2>6. Position'
    BY <2>3 DEF Position
  <2>7. \A e : Found(e) => Found(e)'
    BY <1>3, <2>1, <2>3 DEF Found
  <2>8. Covered'
    <3>1. \A e \in arguments' : Found(e)'
      BY <1>1, <1>2, <2>7 DEF Covered
    <3>2. resolved' \ current' \subseteq resolved \ current
      BY <1>2, <2>3
    <3>3. QED BY <1>1, <2>7, <3>1, <3>2 DEF Covered
  <2>9. Reached'
    <3>1. Wanted \subseteq Wanted'
      BY <1>2, <2>3 DEF Wanted
    <3>2. resolved' \cup On(stack') \subseteq resolved \cup On(stack)
      BY <2>1, <2>2, <2>3
    <3>3. QED BY <1>1, <1>3, <3>1, <3>2 DEF Reached
  <2>10. Stored'
    BY <1>1, <1>2, <2>3 DEF Stored
  <2>11. QED BY <2>3, <2>4, <2>5, <2>6, <2>8, <2>9, <2>10 DEF AddInv
<1>6. QED BY <1>4, <1>5 DEF NextPackage

LEMMA TarballKeeps == ASSUME AddInv, NEW r \in Releases, Tarball(r) PROVE AddInv'
<1>1. CASE IntegrityOf[r] = {}
  BY <1>1, StopsKeeps DEF Tarball
<1>2. CASE IntegrityOf[r] # {}
  <2>1. AddTypes /\ CellsSetOnce /\ Position /\ Covered /\ Reached /\ Stored
    BY DEF AddInv, Tarball
  <2>2. /\ adding = "tarball" /\ adding' = "metadata" /\ r \in current
        /\ store' = store \cup IntegrityOf[r]
        /\ request' = [e \in Asked |-> IF e \in Declared(r) THEN "new" ELSE "none"]
        /\ UNCHANGED <<arguments, cell, stack, current, resolved>>
    BY <1>2 DEF Tarball, Requests, loops
  <2>3. \A e : Release(e)' = Release(e)
    BY <2>2 DEF Release
  <2>4. current = {r}
    BY <2>1, <2>2 DEF Position
  <2>5. AddTypes' /\ CellsSetOnce'
    BY <2>1, <2>2 DEF AddTypes, CellsSetOnce
  <2>6. Position'
    <3>1. Frame' = Declared(r)
      BY <2>2, <2>4 DEF Frame
    <3>2. QED BY <2>2, <2>4, <3>1 DEF Position
  <2>7. Covered' /\ Reached'
    BY <2>1, <2>2, <2>3, <2>4 DEF Covered, Found, Reached, Wanted
  <2>8. Stored'
    BY <1>2, <2>1, <2>2, <2>4 DEF Stored
  <2>9. QED BY <2>2, <2>5, <2>6, <2>7, <2>8 DEF AddInv
<1>3. QED BY <1>1, <1>2

LEMMA AddDoneKeeps == ASSUME AddInv, AddDone PROVE AddInv'
<1>1. AddTypes /\ CellsSetOnce /\ Position /\ Covered /\ Reached /\ Stored
  BY DEF AddInv, AddDone
<1>2. /\ adding = "next" /\ adding' = "ok" /\ stack = <<>>
      /\ UNCHANGED <<arguments, request, cell, stack, current, resolved, store>>
  BY DEF AddDone, loops, vars, disk
<1>3. \A e : Release(e)' = Release(e)
  BY <1>2 DEF Release
<1>4. AddTypes' /\ CellsSetOnce' /\ Position'
  BY <1>1, <1>2, <1>3 DEF AddTypes, CellsSetOnce, Position
<1>5. Covered' /\ Reached' /\ Stored'
  BY <1>1, <1>2, <1>3 DEF Covered, Found, Reached, Wanted, Stored
<1>6. QED BY <1>2, <1>4, <1>5 DEF AddInv

LEMMA AddInvStep == AddInv /\ [AddNext]_allVars => AddInv'
<1> SUFFICES ASSUME AddInv, [AddNext]_allVars PROVE AddInv'
  OBVIOUS
<1>1. CASE UNCHANGED allVars
  <2>1. UNCHANGED <<adding, arguments, request, cell, stack, current, resolved, store>>
    BY <1>1 DEF allVars, addVars, loops, vars, disk
  <2>2. \A e : Release(e)' = Release(e)
    BY <2>1 DEF Release
  <2>3. QED
    BY <2>1, <2>2
    DEF AddInv, AddTypes, CellsSetOnce, Position, Frame, Covered, Found, Reached, Wanted, Stored
<1>2. CASE KillAdd \/ OtherCommand \/ \E r \in Releases : TarballFails(r)
  BY <1>2, StopsKeeps DEF KillAdd, OtherCommand, TarballFails, AddStops, AddInv
<1>3. ASSUME NEW e \in Asked, Ask(e) PROVE AddInv'
  BY <1>3, RequestKeeps DEF Ask, AddInv
<1>4. ASSUME NEW e \in Asked, Unanswered(e) PROVE AddInv'
  BY <1>4, RequestKeeps DEF Unanswered, AddInv
<1>5. ASSUME NEW e \in Asked, Cached(e) PROVE AddInv'
  <2>1. PICK m \in cell[e.name] : Resolve(e, m)
    BY <1>5 DEF Cached
  <2>2. /\ adding = "metadata" /\ request[e] = "new" /\ UNCHANGED store
        /\ m \in Metadata(e.name) /\ cell[e.name] = {m}
    BY <1>5, <2>1, AskedType, SpecFields DEF Cached, AddInv, AddTypes, CellsSetOnce, vars, disk
  <2>3. QED BY <2>1, <2>2, ResolveKeeps
<1>6. ASSUME NEW e \in Asked, Answered(e) PROVE AddInv'
  <2>1. PICK m \in Answers[e.name] : Resolve(e, m)
    BY <1>6 DEF Answered
  <2>2. /\ adding = "metadata" /\ request[e] = "fetching" /\ UNCHANGED store
        /\ m \in Metadata(e.name)
    BY <1>6, <2>1, AskedType, SpecFields, AddAssumption DEF Answered, vars, disk
  <2>3. QED BY <2>1, <2>2, ResolveKeeps
<1>7. QED
  BY <1>1, <1>2, <1>3, <1>4, <1>5, <1>6, StartKeeps, GatheredKeeps, NextPackageKeeps,
     TarballKeeps, AddDoneKeeps
  DEF AddNext, AddStep

LEMMA AddInvHolds == AddSpec => []AddInv
<1>1. AddInit => AddInv
  BY DEF AddInit, AddInv
<1>2. QED BY <1>1, AddInvStep, PTL DEF AddSpec

\* `store add` through cycles, diamonds, requests that fail and are asked again, beside
\* any other commands: when it succeeds it has resolved its arguments and all their
\* transitive dependencies, nothing else, each by one answer of the registry, and every
\* release is in the store.
THEOREM StoreAddIsTransitive == AddSpec => []AddedIsStored
<1>1. AddInv => AddedIsStored
  <2> SUFFICES ASSUME AddInv, adding = "ok" PROVE AddedIsStored
    BY DEF AddedIsStored
  <2>1. AddTypes /\ Position /\ Covered /\ Reached /\ Stored
    BY DEF AddInv
  <2>2. current = {} /\ On(stack) = {}
    BY <2>1 DEF Position, On
  <2>3. ASSUME NEW e \in Wanted PROVE Release(e) # {} /\ Release(e) \subseteq resolved
    <3>1. Found(e)
      BY <2>1, <2>2 DEF Covered, Wanted
    <3>2. QED BY <2>2, <3>1 DEF Found
  <2>4. resolved = UNION {Release(e) : e \in Wanted}
    <3>1. \A r \in resolved : \E e \in Wanted : r \in Release(e)
      BY <2>1 DEF Reached
    <3>2. QED BY <2>3, <3>1
  <2>5. QED BY <2>1, <2>2, <2>3, <2>4 DEF AddedIsStored, Stored
<1>2. QED BY <1>1, AddInvHolds, PTL

-----------------------------------------------------------------------------
LEMMA PathTypes ==
  /\ Paths \subseteq DependencyPaths
  /\ \A p \in DependencyPaths : to_virtual_store_name(p) \in Specifier
  /\ \A p \in Paths : to_virtual_store_name(p) \in Dirs
<1>1. Paths \subseteq DependencyPaths
  BY LockfileAssumption DEF WellFormed, Paths
<1>2. \A p \in DependencyPaths : to_virtual_store_name(p) \in Specifier
  BY DEF DependencyPaths, to_virtual_store_name, Specifier
<1>3. QED BY <1>1, <1>2 DEF Dirs

LEMMA SnapshotTypes ==
  ASSUME NEW l \in Lockfiles, NEW p \in DOMAIN l.packages
  PROVE  /\ p \in Paths /\ p \in DependencyPaths
         /\ l.packages[p] \in Snapshot /\ l.packages[p].integrity \subseteq Integrities
         /\ UrlOf(l, p) \in Tarballs
         /\ l.packages[p].dependencies \subseteq References
         /\ l.packages[p].optional \subseteq References
         /\ \A r, s \in l.packages[p].dependencies : r.name = s.name => r = s
<1>1. l.packages[p] \in Snapshot
  BY LockfileAssumption DEF WellFormed
<1>2. /\ l.packages[p].integrity \subseteq Integrities
      /\ l.packages[p].dependencies \subseteq References
      /\ l.packages[p].optional \subseteq References
  BY <1>1 DEF Snapshot
<1>3. p \in Paths /\ p \in DependencyPaths /\ UrlOf(l, p) \in Tarballs
  BY PathTypes DEF Paths, Tarballs
<1>4. QED BY <1>1, <1>2, <1>3, LockfileAssumption DEF WellFormed

LEMMA RunTypes ==
  ASSUME TypeOK, phase # "idle"
  PROVE  /\ run.lockfile \in Lockfiles /\ run.command \in {"install", "fetch"}
         /\ run.sound \in BOOLEAN
         /\ run \in UNION {Runs(flags) : flags \in CommandLines}
<1>1. PICK flags \in CommandLines : run \in Runs(flags)
  BY DEF TypeOK
<1>2. flags.command \in {"install", "fetch"}
  BY LockfileAssumption DEF Flags
<1>3. QED BY <1>1, <1>2 DEF Runs

LEMMA LinkedIs ==
  ASSUME link \in [Dirs \cup {Root} -> [Names -> SUBSET Targets]], NEW d \in Dirs \cup {Root},
         NEW targets \in SUBSET Targets, NEW gone, NEW link2 \in Linked(d, targets, gone)
  PROVE  /\ link2 \in [Dirs \cup {Root} -> [Names -> SUBSET Targets]]
         /\ \A e \in (Dirs \cup {Root}) \ {d} : link2[e] = link[e]
         /\ \A n \in Names : link2[d][n] \in Outcomes(d, n, targets, gone)
<1>1. PICK f \in [Names -> UNION {Outcomes(d, n, targets, gone) : n \in Names}] :
        /\ link2 = [link EXCEPT ![d] = f]
        /\ \A n \in Names : f[n] \in Outcomes(d, n, targets, gone)
  BY DEF Linked
<1>2. ASSUME NEW n \in Names PROVE Outcomes(d, n, targets, gone) \subseteq SUBSET Targets
  <2>1. link[d][n] \subseteq Targets
    OBVIOUS
  <2>2. \A t \in targets : symlink_package(d, n, t) \subseteq Targets
    BY <2>1 DEF symlink_package
  <2>3. QED BY <2>1, <2>2 DEF Outcomes
<1>3. f \in [Names -> SUBSET Targets]
  BY <1>1, <1>2
<1>4. QED BY <1>1, <1>3

LEMMA LayoutType == ASSUME TypeOK, phase # "idle", NEW p \in DOMAIN Packages PROVE Layout(p) \subseteq Targets
<1>1. Packages[p].dependencies \subseteq References
  BY RunTypes, SnapshotTypes DEF Packages
<1>2. \A r \in References : /\ r.name \in Names /\ r.to \in DependencyPaths
                            /\ r.to.version \in Versions /\ r.to.peers \in Peers
  BY DEF References, DependencyPaths
<1>3. QED BY <1>1, <1>2, PathTypes DEF Layout, Targets, Specifier

LEMMA DirectType == ASSUME TypeOK, phase # "idle" PROVE Direct \subseteq Targets
<1>1. PICK flags \in CommandLines : run \in Runs(flags)
  BY DEF TypeOK
<1>2. run.groups = groups_of(flags) /\ run.lockfile.projects \subseteq Projects
  BY <1>1, LockfileAssumption DEF WellFormed, Runs
<1>3. run.groups \subseteq Groups
  BY <1>2 DEF groups_of, install_groups, fetch_groups
<1>4. \A project \in run.lockfile.projects : dependencies_by_groups(project, run.groups) \subseteq Specifier
  BY <1>2, <1>3 DEF dependencies_by_groups, Projects
<1>5. QED BY <1>4 DEF Direct, Targets, Specifier

LEMMA PickIs ==
  ASSUME NEW alternatives, NEW P \in Picks(alternatives)
  PROVE  P \subseteq UNION alternatives /\ \A A \in alternatives : A \cap P # {}
BY DEF Picks

LEMMA ChildrenType ==
  ASSUME NEW l \in Lockfiles, NEW p \in DOMAIN l.packages
  PROVE  UNION Children(l, p) \subseteq DependencyPaths
<1>1. l.packages[p].dependencies \subseteq References /\ l.packages[p].optional \subseteq References
      /\ DOMAIN l.packages \subseteq DependencyPaths
  BY SnapshotTypes, LockfileAssumption DEF WellFormed
<1>2. \A r \in References : r.to \in DependencyPaths
  BY DEF References
<1>3. \A x, s : resolve_by_specifier(l, x, s) \subseteq DependencyPaths
  BY <1>1 DEF resolve_by_specifier
<1>4. \A r \in References : /\ resolve_snapshot_dependency(l, p, r) \subseteq DependencyPaths
                            /\ resolve_optional_dependency(l, p, r) \subseteq DependencyPaths
  <2> TAKE r \in References
  <2>1. resolve_snapshot_dependency(l, p, r) \subseteq DependencyPaths
    BY <1>2, <1>3 DEF resolve_snapshot_dependency
  <2>2. r.kind \in {"version", "path", "unparsable"}
    BY DEF References
  <2>3. QED BY <1>2, <2>1, <2>2 DEF resolve_optional_dependency
<1>5. QED BY <1>1, <1>4 DEF Children

LEMMA RootPathsType ==
  ASSUME NEW l \in Lockfiles, NEW groups PROVE UNION RootPaths(l, groups) \subseteq DependencyPaths
BY LockfileAssumption DEF WellFormed, RootPaths, resolve_root_dependency, resolve_by_specifier

-----------------------------------------------------------------------------
(* The invariant of the commands that install from a lockfile.              *)

\* Directories of the virtual store are made from supported snapshots.
Filled ==
  \A d \in Dirs : virtual[d] # "absent" =>
    \E l \in Lockfiles : \E p \in DOMAIN l.packages :
      Supported(l, p) /\ to_virtual_store_name(p) = d /\ content[d] = l.packages[p].integrity

\* So are the files in the memory cache, and they are in the store.
FilesCached ==
  \A u \in Tarballs : cache[u] = "available" =>
    \E p \in DOMAIN Packages :
      /\ Supported(run.lockfile, p) /\ Url(p) = u
      /\ files[u] = Packages[p].integrity /\ files[u] \subseteq store

\* What a future has done when it is suspended at an await.
Progress ==
  \A p \in Paths :
    /\ pc[p] \notin {"absent", "new", "failed"} => Supported(run.lockfile, p)
    /\ pc[p] \in {"files", "import", "link", "done"} => cache[Url(p)] = "available"
    /\ pc[p] \in {"import", "link", "done"} => virtual[to_virtual_store_name(p)] # "absent"

\* Install has a future for every package, and gives up when one fails ..
AllInstalled ==
  run.command = "install" =>
    /\ phase \in {"packages", "roots", "ok"}
    /\ phase = "packages" => \A p \in DOMAIN Packages : pc[p] \notin {"absent", "failed"}
    /\ phase \in {"roots", "ok"} => \A p \in DOMAIN Packages : Holds(p)

\* .. fetch has one for every package it has selected.
AllFetched ==
  run.command = "fetch" =>
    /\ phase \in {"collect", "packages", "ok"}
    /\ \A p \in Paths : pc[p] # "absent" => p \in visited
    /\ phase = "packages" => \A p \in visited : Selectable(run.lockfile, p) => pc[p] # "absent"
    /\ phase = "ok" => \A p \in visited : Selectable(run.lockfile, p) =>
                         Holds(p) /\ Packages[p].integrity \subseteq store

\* The walk: what it has met is what it has visited or has still to visit.
Walked ==
  run.command = "fetch" =>
    /\ visited \subseteq DOMAIN Packages
    /\ phase # "collect" => pending = {}
    /\ \A A \in RootPaths(run.lockfile, run.groups) : A \cap (pending \cup visited) # {}
    /\ \A p \in visited : \A A \in Children(run.lockfile, p) : A \cap (pending \cup visited) # {}
    /\ (pending \cup visited) \cap DOMAIN Packages \subseteq Reachable(run.lockfile, run.groups)

LaidOut(p) == \A t \in Layout(p) : link[to_virtual_store_name(p)][t.name] = {t}

RootsLinked ==
  \A n \in Names : IF \E t \in Direct : t.name = n
                   THEN \E t \in Direct : t.name = n /\ link[Root][n] = {t}
                   ELSE link[Root][n] = {}

\* A link that the snapshot of p asks for, in its directory.
LinkOf(p, d, t) == d = to_virtual_store_name(p) /\ t \in Layout(p)

\* In a command that met no link that dangles: a link that does is one of a package that
\* has been linked, as its snapshot says.
LinksSound ==
  phase # "idle" /\ run.sound =>
    /\ phase \in {"collect", "packages"} =>
         \A d \in DOMAIN link, n \in Names : \A t \in link[d][n] :
           Leads(t) \/ \E p \in DOMAIN Packages : pc[p] = "done" /\ LinkOf(p, d, t)
    /\ \A p \in Paths : pc[p] = "done" => LaidOut(p)
    /\ run.command = "install" =>
         /\ phase \in {"roots", "ok"} =>
              /\ \A p \in DOMAIN Packages : LaidOut(p)
              /\ \A d \in Dirs, n \in Names : \A t \in link[d][n] :
                   Leads(t) \/ \E p \in DOMAIN Packages : LinkOf(p, d, t)
         /\ phase = "roots" =>
              \A n \in Names : /\ \A t \in link[Root][n] : Leads(t)
                               /\ ~(\E t \in Direct : t.name = n) => link[Root][n] = {}
         /\ phase = "ok" => RootsLinked

LockInv ==
  TypeOK /\ Filled /\ FilesCached /\ Progress /\ AllInstalled /\ AllFetched /\ Walked /\ LinksSound

LEMMA NoRunIs == NoRun.command = "none"
BY DEF NoRun

\* A command that starts or stops has no futures.
LEMMA FuturesType ==
  ASSUME NEW paths \in SUBSET Paths, Futures(paths)
  PROVE  /\ pc' \in [Paths -> States] /\ \A p \in Paths : pc'[p] = IF p \in paths THEN "new" ELSE "absent"
         /\ cache' \in [Tarballs -> {"vacant", "in_progress", "available"}]
         /\ \A u \in Tarballs : cache'[u] = "vacant"
         /\ files' \in [Tarballs -> SUBSET Integrities]
BY DEF Futures, States

LEMMA StoppedKeeps ==
  ASSUME TypeOK, Stop, Filled', store' \in SUBSET Integrities,
         virtual' \in [Dirs -> {"absent", "partial", "full"}],
         content' \in [Dirs -> SUBSET Integrities],
         link' \in [Dirs \cup {Root} -> [Names -> SUBSET Targets]]
  PROVE  LockInv'
<1>1. /\ phase' = "idle" /\ run' = NoRun /\ Futures({}) /\ pending' = {} /\ visited' = {}
  BY DEF Stop
<1>2. TypeOK'
  BY <1>1, FuturesType DEF TypeOK
<1>3. FilesCached' /\ Progress'
  BY <1>1, FuturesType DEF FilesCached, Progress
<1>4. AllInstalled' /\ AllFetched' /\ Walked'
  BY <1>1, NoRunIs DEF AllInstalled, AllFetched, Walked
<1>5. LinksSound'
  BY <1>1 DEF LinksSound
<1>6. QED BY <1>2, <1>3, <1>4, <1>5 DEF LockInv

LEMMA StopKeeps ==
  ASSUME TypeOK, Filled, Stop, UNCHANGED <<virtual, content>>, store' \in SUBSET Integrities,
         link' \in [Dirs \cup {Root} -> [Names -> SUBSET Targets]]
  PROVE  LockInv'
<1>1. Filled'
  BY DEF Filled
<1>2. QED BY <1>1, StoppedKeeps DEF TypeOK

LEMMA RootsReachable ==
  ASSUME NEW l \in Lockfiles, NEW groups, NEW A \in RootPaths(l, groups)
  PROVE  A \cap DOMAIN l.packages \subseteq Reachable(l, groups)
BY DEF Reachable

LEMMA ChildrenReachable ==
  ASSUME NEW l \in Lockfiles, NEW groups, NEW p \in Reachable(l, groups), NEW A \in Children(l, p)
  PROVE  A \cap DOMAIN l.packages \subseteq Reachable(l, groups)
BY DEF Reachable

LEMMA StartSound ==
  ASSUME UNCHANGED disk, run'.sound = LinksLead, phase' \in {"collect", "packages"},
         \A p \in Paths : pc'[p] # "done"
  PROVE  LinksSound'
<1>1. LinksLead' = LinksLead
  BY DEF LinksLead, Leads, Exists, disk
<1>2. run'.sound => \A d \in DOMAIN link', n \in Names : \A t \in link'[d][n] : Leads(t)'
  BY <1>1 DEF LinksLead
<1>3. phase' \notin {"roots", "ok"}
  OBVIOUS
<1>4. QED BY <1>2, <1>3 DEF LinksSound

LEMMA StartInstallKeeps == ASSUME LockInv, StartInstall PROVE LockInv'
<1>1. TypeOK /\ Filled /\ UNCHANGED disk
  BY DEF LockInv, StartInstall
<1>2. CASE Stop
  BY <1>1, <1>2, StopKeeps DEF disk, TypeOK
<1>3. CASE ~Stop
  <2>1. PICK flags \in CommandLines : \E r \in Runs(flags) :
          /\ flags.command = "install" /\ r.sound = LinksLead
          /\ run' = r /\ phase' = "packages" /\ Futures(DOMAIN r.lockfile.packages)
          /\ pending' = {} /\ visited' = {}
    BY <1>3 DEF StartInstall
  <2>2. PICK r \in Runs(flags) :
          /\ flags.command = "install" /\ r.sound = LinksLead
          /\ run' = r /\ phase' = "packages" /\ Futures(DOMAIN r.lockfile.packages)
          /\ pending' = {} /\ visited' = {}
    BY <2>1
  <2>3. r.command = "install" /\ r.lockfile \in Lockfiles
    BY <2>2 DEF Runs
  <2>4. Packages' = r.lockfile.packages /\ DOMAIN r.lockfile.packages \subseteq Paths
    BY <2>2, <2>3 DEF Packages, Paths
  <2>5. /\ pc' \in [Paths -> States]
        /\ \A p \in Paths : pc'[p] = IF p \in DOMAIN r.lockfile.packages THEN "new" ELSE "absent"
        /\ cache' \in [Tarballs -> {"vacant", "in_progress", "available"}]
        /\ \A u \in Tarballs : cache'[u] = "vacant"
        /\ files' \in [Tarballs -> SUBSET Integrities]
    BY <2>2, <2>4, FuturesType
  <2>6. TypeOK'
    BY <1>1, <2>2, <2>4, <2>5 DEF TypeOK, disk
  <2>7. Filled'
    BY <1>1 DEF Filled, disk
  <2>8. FilesCached' /\ Progress'
    BY <2>5 DEF FilesCached, Progress
  <2>9. AllInstalled'
    BY <2>2, <2>3, <2>4, <2>5 DEF AllInstalled
  <2>10. AllFetched' /\ Walked'
    BY <2>2, <2>3 DEF AllFetched, Walked
  <2>11. LinksSound'
    BY <1>1, <2>2, <2>5, StartSound
  <2>12. QED BY <2>6, <2>7, <2>8, <2>9, <2>10, <2>11 DEF LockInv
<1>4. QED BY <1>2, <1>3

LEMMA StartFetchKeeps == ASSUME LockInv, StartFetch PROVE LockInv'
<1>1. TypeOK /\ Filled /\ UNCHANGED disk
  BY DEF LockInv, StartFetch
<1>2. CASE Stop
  BY <1>1, <1>2, StopKeeps DEF disk, TypeOK
<1>3. CASE ~Stop
  <2>1. PICK flags \in CommandLines : \E r \in Runs(flags) :
          /\ flags.command = "fetch" /\ r.sound = LinksLead
          /\ run' = r /\ phase' = "collect" /\ Futures({})
          /\ pending' \in Picks(RootPaths(r.lockfile, r.groups)) /\ visited' = {}
    BY <1>3 DEF StartFetch
  <2>2. PICK r \in Runs(flags) :
          /\ flags.command = "fetch" /\ r.sound = LinksLead
          /\ run' = r /\ phase' = "collect" /\ Futures({})
          /\ pending' \in Picks(RootPaths(r.lockfile, r.groups)) /\ visited' = {}
    BY <2>1
  <2>3. r.command = "fetch" /\ r.lockfile \in Lockfiles
    BY <2>2 DEF Runs
  <2>4. Packages' = r.lockfile.packages
    BY <2>2 DEF Packages
  <2>5. /\ pc' \in [Paths -> States] /\ \A p \in Paths : pc'[p] = "absent"
        /\ cache' \in [Tarballs -> {"vacant", "in_progress", "available"}]
        /\ \A u \in Tarballs : cache'[u] = "vacant"
        /\ files' \in [Tarballs -> SUBSET Integrities]
    BY <2>2, FuturesType
  <2>6. /\ pending' \subseteq UNION RootPaths(r.lockfile, r.groups)
        /\ \A A \in RootPaths(r.lockfile, r.groups) : A \cap pending' # {}
    BY <2>2, PickIs
  <2>7. TypeOK'
    BY <1>1, <2>2, <2>3, <2>5, <2>6, RootPathsType DEF TypeOK, disk
  <2>8. Filled'
    BY <1>1 DEF Filled, disk
  <2>9. FilesCached' /\ Progress'
    BY <2>5 DEF FilesCached, Progress
  <2>10. AllInstalled' /\ AllFetched'
    BY <2>2, <2>3, <2>5 DEF AllInstalled, AllFetched
  <2>11. Walked'
    <3>1. pending' \cap DOMAIN r.lockfile.packages \subseteq Reachable(r.lockfile, r.groups)
      BY <2>3, <2>6, RootsReachable
    <3>2. Reachable(run.lockfile, run.groups)' = Reachable(r.lockfile, r.groups)
      BY <2>2
    <3>3. QED BY <2>2, <2>4, <2>6, <3>1, <3>2 DEF Walked
  <2>12. LinksSound'
    BY <1>1, <2>2, <2>5, StartSound
  <2>13. QED BY <2>7, <2>8, <2>9, <2>10, <2>11, <2>12 DEF LockInv
<1>4. QED BY <1>2, <1>3

LEMMA CollectKeeps == ASSUME LockInv, Collect PROVE LockInv'
<1>1. TypeOK /\ Filled /\ UNCHANGED disk /\ phase = "collect"
  BY DEF LockInv, Collect
<1>2. CASE Stop
  BY <1>1, <1>2, StopKeeps DEF disk, TypeOK
<1>3. CASE ~Stop
  <2>1. PICK p \in pending :
          /\ ~Uncollectable(run.lockfile, p)
          /\ visited' = visited \cup {p}
          /\ \E children \in Picks(Children(run.lockfile, p)) :
               pending' = (pending \cup children) \ visited'
          /\ UNCHANGED <<run, phase, pc, memory>>
    BY <1>3 DEF Collect
  <2>2. PICK children \in Picks(Children(run.lockfile, p)) :
          pending' = (pending \cup children) \ visited'
    BY <2>1
  <2>3. /\ run.lockfile \in Lockfiles /\ run.command \in {"install", "fetch"}
        /\ p \in DOMAIN Packages /\ p \in Paths
    BY <1>1, <2>1, RunTypes, SnapshotTypes DEF Uncollectable, Packages
  <2>4. /\ children \subseteq UNION Children(run.lockfile, p)
        /\ \A A \in Children(run.lockfile, p) : A \cap children # {}
    BY PickIs
  <2>5. /\ UNCHANGED <<run, phase, pc, memory, disk>> /\ Packages' = Packages
        /\ pending' \cup visited' = pending \cup visited \cup children
    BY <1>1, <2>1, <2>2 DEF Packages
  <2>6. run.command = "fetch"
    BY <1>1, <2>3 DEF LockInv, AllInstalled
  <2>7. TypeOK'
    <3>1. pending' \subseteq DependencyPaths
      BY <1>1, <2>2, <2>3, <2>4, ChildrenType DEF TypeOK, Packages
    <3>2. QED BY <1>1, <2>1, <2>3, <2>5, <3>1 DEF TypeOK, disk, memory
  <2>8. Filled' /\ FilesCached' /\ Progress' /\ AllInstalled'
    BY <1>1, <2>5, <2>6 DEF LockInv, Filled, FilesCached, Progress, AllInstalled, disk, memory, Url
  <2>9. AllFetched'
    BY <1>1, <2>1, <2>5 DEF LockInv, AllFetched
  <2>10. Walked'
    <3>1. Walked /\ p \in Reachable(run.lockfile, run.groups)
      BY <2>3, <2>6 DEF LockInv, Walked
    <3>2. children \cap DOMAIN Packages \subseteq Reachable(run.lockfile, run.groups)
      BY <2>3, <2>4, <3>1, ChildrenReachable DEF Packages
    <3>3. \A A \in RootPaths(run.lockfile, run.groups) : A \cap (pending' \cup visited') # {}
      BY <2>5, <2>6, <3>1 DEF Walked
    <3>4. \A q \in visited' : \A A \in Children(run.lockfile, q) : A \cap (pending' \cup visited') # {}
      BY <2>1, <2>4, <2>5, <2>6, <3>1 DEF Walked
    <3>5. (pending' \cup visited') \cap DOMAIN Packages \subseteq Reachable(run.lockfile, run.groups)
      BY <2>5, <2>6, <3>1, <3>2 DEF Walked
    <3>6. visited' \subseteq DOMAIN Packages
      BY <2>1, <2>3, <2>6, <3>1 DEF Walked
    <3>7. UNCHANGED run /\ phase' = "collect"
      BY <1>1, <2>5
    <3>8. QED BY <2>5, <3>3, <3>4, <3>5, <3>6, <3>7 DEF Walked
  <2>11. LinksSound'
    BY <1>1, <2>5
    DEF LockInv, LinksSound, LinkOf, Leads, Exists, LaidOut, Layout, Direct, RootsLinked, disk, Packages
  <2>12. QED BY <2>7, <2>8, <2>9, <2>10, <2>11 DEF LockInv
<1>4. QED BY <1>2, <1>3

LEMMA CollectDoneKeeps == ASSUME LockInv, CollectDone PROVE LockInv'
<1>1. /\ TypeOK /\ Filled /\ Walked /\ LinksSound /\ AllInstalled
      /\ phase = "collect" /\ pending = {} /\ phase' = "packages"
      /\ UNCHANGED <<disk, run, walk>>
      /\ Futures({p \in visited : Selectable(run.lockfile, p)})
  BY DEF LockInv, CollectDone
<1>2. run.lockfile \in Lockfiles /\ run.command = "fetch" /\ run.sound \in BOOLEAN
  BY <1>1, RunTypes DEF AllInstalled
<1>3. visited \subseteq DOMAIN Packages /\ Packages' = Packages
  BY <1>1, <1>2 DEF Walked, Packages
<1>4. /\ pc' \in [Paths -> States]
      /\ \A p \in Paths : pc'[p] = IF p \in visited /\ Selectable(run.lockfile, p) THEN "new" ELSE "absent"
      /\ cache' \in [Tarballs -> {"vacant", "in_progress", "available"}]
      /\ \A u \in Tarballs : cache'[u] = "vacant"
      /\ files' \in [Tarballs -> SUBSET Integrities]
  <2>1. {p \in visited : Selectable(run.lockfile, p)} \in SUBSET Paths
    BY <1>1 DEF TypeOK
  <2>2. QED BY <1>1, <2>1, FuturesType
<1>5. TypeOK'
  BY <1>1, <1>3, <1>4 DEF TypeOK, disk, walk
<1>6. Filled' /\ FilesCached' /\ Progress'
  BY <1>1, <1>4 DEF Filled, FilesCached, Progress, disk
<1>7. AllInstalled' /\ AllFetched'
  <2>1. visited' = visited /\ run' = run /\ visited \subseteq Paths
    BY <1>1 DEF walk, TypeOK
  <2>2. QED BY <1>1, <1>2, <1>4, <2>1 DEF AllInstalled, AllFetched
<1>8. Walked'
  BY <1>1, <1>2, <1>3 DEF Walked, walk
<1>9. LinksSound'
  <2>1. run.sound => LinksLead
    <3>1. \A q \in DOMAIN Packages : pc[q] = "absent"
      BY <1>1, <1>2, SnapshotTypes DEF TypeOK, Packages
    <3>2. QED BY <1>1, <3>1 DEF LinksSound, LinksLead
  <2>2. LinksLead' = LinksLead
    BY <1>1 DEF LinksLead, Leads, Exists, disk
  <2>3. run.sound => \A d \in DOMAIN link', n \in Names : \A t \in link'[d][n] : Leads(t)'
    BY <2>1, <2>2 DEF LinksLead
  <2>4. \A p \in Paths : pc'[p] # "done"
    BY <1>4
  <2>5. QED BY <1>1, <2>3, <2>4 DEF LinksSound
<1>10. QED BY <1>5, <1>6, <1>7, <1>8, <1>9 DEF LockInv

\* A step of the future of p, but for the last, leaves the walk and the links as they are.
LEMMA FutureStays ==
  ASSUME LockInv, NEW p \in Paths, pc[p] \notin {"absent", "done"},
         NEW s \in States \ {"absent", "done"}, pc' = [pc EXCEPT ![p] = s],
         s = "failed" => run.command = "fetch",
         UNCHANGED <<run, phase, walk, link>>,
         \A d \in Dirs : virtual[d] # "absent" => virtual'[d] # "absent"
  PROVE  AllInstalled' /\ AllFetched' /\ Walked' /\ LinksSound'
<1>1. /\ TypeOK /\ AllInstalled /\ AllFetched /\ Walked /\ LinksSound
      /\ pc \in [Paths -> States] /\ phase = "packages" /\ p \in DOMAIN Packages
  BY DEF LockInv, TypeOK
<1>2. /\ Packages' = Packages /\ run' = run /\ phase' = phase
      /\ pending' = pending /\ visited' = visited /\ link' = link
  BY DEF Packages, walk
<1>3. /\ DOMAIN Packages \subseteq Paths
      /\ \A q \in Paths : pc'[q] = IF q = p THEN s ELSE pc[q]
  BY <1>1, RunTypes, SnapshotTypes DEF Packages
<1>4. AllInstalled'
  BY <1>1, <1>2, <1>3 DEF AllInstalled
<1>5. AllFetched'
  BY <1>1, <1>2, <1>3 DEF AllFetched
<1>6. Walked'
  BY <1>1, <1>2 DEF Walked
<1>7. LinksSound'
  <2>1. \A t : Leads(t) => Leads(t)'
    BY DEF Leads, Exists
  <2>2. /\ \A q : LaidOut(q)' = LaidOut(q)
        /\ \A q, d, t : LinkOf(q, d, t)' = LinkOf(q, d, t)
    BY <1>2 DEF LaidOut, Layout, LinkOf
  <2>3. \A q \in Paths : pc'[q] = "done" <=> pc[q] = "done"
    BY <1>3
  <2>4. SUFFICES ASSUME run.sound PROVE LinksSound'
    BY <1>2 DEF LinksSound
  <2>5. \A d \in DOMAIN link', n \in Names : \A t \in link'[d][n] :
           Leads(t)' \/ \E q \in DOMAIN Packages : pc'[q] = "done" /\ LinkOf(q, d, t)
    BY <1>1, <1>2, <1>3, <2>1, <2>3, <2>4 DEF LinksSound
  <2>6. \A q \in Paths : pc'[q] = "done" => LaidOut(q)'
    BY <1>1, <2>2, <2>3, <2>4 DEF LinksSound
  <2>7. QED BY <1>1, <1>2, <2>2, <2>5, <2>6 DEF LinksSound
<1>8. QED BY <1>4, <1>5, <1>6, <1>7

\* Where the files of a supported package come from: its tarball.
LEMMA CachedFiles ==
  ASSUME Consistent, LockInv, NEW p \in DOMAIN Packages, phase = "packages",
         Supported(run.lockfile, p), cache[Url(p)] = "available"
  PROVE  files[Url(p)] = Packages[p].integrity /\ Packages[p].integrity \subseteq store
<1>1. run.lockfile \in Lockfiles /\ Url(p) \in Tarballs
  BY RunTypes, SnapshotTypes DEF LockInv, Packages, Url
<1>2. PICK q \in DOMAIN Packages :
        /\ Supported(run.lockfile, q) /\ Url(q) = Url(p)
        /\ files[Url(p)] = Packages[q].integrity /\ files[Url(p)] \subseteq store
  BY <1>1 DEF LockInv, FilesCached
<1>3. Packages[q].integrity = Packages[p].integrity
  BY <1>1, <1>2 DEF Consistent, Url, Packages
<1>4. QED BY <1>2, <1>3

\* A package whose directory exists is in it.
LEMMA FilledHolds ==
  ASSUME Consistent, TypeOK, Filled, phase # "idle",
         NEW p \in DOMAIN Packages, Supported(run.lockfile, p),
         virtual[to_virtual_store_name(p)] # "absent"
  PROVE  Holds(p)
<1>1. run.lockfile \in Lockfiles /\ p \in Paths /\ to_virtual_store_name(p) \in Dirs
  BY RunTypes, SnapshotTypes, PathTypes DEF Packages
<1>2. PICK l \in Lockfiles : \E q \in DOMAIN l.packages :
        /\ Supported(l, q) /\ to_virtual_store_name(q) = to_virtual_store_name(p)
        /\ content[to_virtual_store_name(p)] = l.packages[q].integrity
  BY <1>1 DEF Filled
<1>3. content[to_virtual_store_name(p)] = Packages[p].integrity
  BY <1>1, <1>2 DEF Consistent, Packages
<1>4. QED BY <1>1, <1>3 DEF Holds, Exists

LEMMA UnsupportedIs ==
  ASSUME TypeOK, phase # "idle", NEW p \in DOMAIN Packages
  PROVE  ~Unsupported(p) <=> Supported(run.lockfile, p)
<1>1. Packages[p] \in Snapshot
  BY RunTypes, SnapshotTypes DEF Packages
<1>2. Packages[p].resolution \in {"registry", "tarball", "directory", "git"}
  BY <1>1 DEF Snapshot
<1>3. QED BY <1>2 DEF Unsupported, Supported, Packages

\* The future of a package, and where it is.
LEMMA FutureTypes ==
  ASSUME TypeOK, NEW p \in Paths, pc[p] # "absent"
  PROVE  /\ phase = "packages" /\ p \in DOMAIN Packages /\ run.lockfile \in Lockfiles
         /\ DOMAIN Packages \subseteq Paths
         /\ \A q \in DOMAIN Packages : Url(q) \in Tarballs /\ to_virtual_store_name(q) \in Dirs
         /\ run.command \in {"install", "fetch"}
         /\ Packages[p].integrity \in SUBSET Integrities
<1>1. phase = "packages" /\ p \in DOMAIN Packages
  BY DEF TypeOK
<1>2. QED BY <1>1, RunTypes, SnapshotTypes, PathTypes DEF Packages, Url

\* What a future has done is done for good, and it goes on when it has done more.
LEMMA ProgressGoesOn ==
  ASSUME LockInv, NEW p \in Paths, pc[p] # "absent", NEW s \in States,
         pc' = [pc EXCEPT ![p] = s], UNCHANGED run, Supported(run.lockfile, p),
         \A u \in Tarballs : cache[u] = "available" => cache'[u] = "available",
         \A d \in Dirs : virtual[d] # "absent" => virtual'[d] # "absent",
         s \in {"files", "import", "link", "done"} => cache'[Url(p)] = "available",
         s \in {"import", "link", "done"} => virtual'[to_virtual_store_name(p)] # "absent"
  PROVE  Progress'
<1> SUFFICES ASSUME NEW q \in Paths
             PROVE  /\ pc'[q] \notin {"absent", "new", "failed"} => Supported(run.lockfile, q)
                    /\ pc'[q] \in {"files", "import", "link", "done"} => cache'[Url(q)] = "available"
                    /\ pc'[q] \in {"import", "link", "done"}
                         => virtual'[to_virtual_store_name(q)] # "absent"
  BY DEF Progress, Url, Supported
<1>1. TypeOK /\ Progress /\ pc'[q] = IF q = p THEN s ELSE pc[q]
  BY DEF LockInv, TypeOK
<1>2. CASE q = p
  BY <1>1, <1>2
<1>3. CASE q # p /\ pc[q] # "absent"
  <2>1. Url(q) \in Tarballs /\ to_virtual_store_name(q) \in Dirs
    BY <1>1, <1>3, FutureTypes
  <2>2. QED BY <1>1, <1>3, <2>1 DEF Progress
<1>4. CASE q # p /\ pc[q] = "absent"
  BY <1>1, <1>4
<1>5. QED BY <1>2, <1>3, <1>4

LEMMA BeginKeeps == ASSUME LockInv, NEW p \in Paths, Begin(p) PROVE LockInv'
<1>1. /\ TypeOK /\ Filled /\ FilesCached /\ Progress
      /\ pc[p] = "new" /\ ~Unsupported(p) /\ UNCHANGED <<disk, run, phase, walk>>
      /\ pc \in [Paths -> States] /\ cache \in [Tarballs -> {"vacant", "in_progress", "available"}]
      /\ files \in [Tarballs -> SUBSET Integrities]
  BY DEF LockInv, Begin, TypeOK
<1>2. /\ phase = "packages" /\ p \in DOMAIN Packages /\ run.lockfile \in Lockfiles
      /\ DOMAIN Packages \subseteq Paths
      /\ \A q \in DOMAIN Packages : Url(q) \in Tarballs /\ to_virtual_store_name(q) \in Dirs
      /\ Packages[p].integrity \in SUBSET Integrities
  BY <1>1, FutureTypes
<1>3. Supported(run.lockfile, p)
  BY <1>1, <1>2, UnsupportedIs
<1>4. \A q : Url(q)' = Url(q) /\ Packages' = Packages
  BY <1>1 DEF Url, Packages
<1>5. PICK s \in {"files", "waiting", "download"} :
        /\ pc' = [pc EXCEPT ![p] = s]
        /\ \/ s = "files" /\ cache[Url(p)] = "available" /\ UNCHANGED memory
           \/ s = "waiting" /\ UNCHANGED memory
           \/ /\ s = "files" /\ Packages[p].integrity \subseteq store
              /\ cache' = [cache EXCEPT ![Url(p)] = "available"]
              /\ files' = [files EXCEPT ![Url(p)] = Packages[p].integrity]
           \/ /\ s = "download" /\ cache[Url(p)] = "vacant"
              /\ cache' = [cache EXCEPT ![Url(p)] = "in_progress"] /\ UNCHANGED files
  BY DEF Begin, Suspend, Publish
<1>6. TypeOK'
  BY <1>1, <1>2, <1>4, <1>5 DEF TypeOK, disk, walk, memory, States
<1>7. Filled'
  BY <1>1 DEF Filled, disk
<1>8. FilesCached'
  BY <1>1, <1>2, <1>3, <1>4, <1>5 DEF FilesCached, disk, memory
<1>9. Progress'
  <2>1. \A u \in Tarballs : cache[u] = "available" => cache'[u] = "available"
    BY <1>1, <1>2, <1>5 DEF memory
  <2>2. s = "files" => cache'[Url(p)] = "available"
    BY <1>1, <1>2, <1>5 DEF memory
  <2>3. QED BY <1>1, <1>3, <1>5, <2>1, <2>2, ProgressGoesOn DEF disk, States
<1>10. AllInstalled' /\ AllFetched' /\ Walked' /\ LinksSound'
  BY <1>1, <1>5, FutureStays DEF disk, States
<1>11. QED BY <1>6, <1>7, <1>8, <1>9, <1>10 DEF LockInv

LEMMA ErrKeeps ==
  ASSUME LockInv, NEW p \in Paths, pc[p] \notin {"absent", "done"}, Supported(run.lockfile, p),
         Err(p), UNCHANGED disk
  PROVE  LockInv'
<1>1. /\ TypeOK /\ Filled /\ FilesCached /\ pc \in [Paths -> States] /\ phase = "packages"
      /\ run.command \in {"install", "fetch"} /\ p \in DOMAIN Packages
  BY FutureTypes DEF LockInv, TypeOK
<1>2. CASE Stop
  BY <1>1, <1>2, StopKeeps DEF disk, TypeOK
<1>3. CASE ~Stop
  <2>1. /\ run.command = "fetch" /\ pc' = [pc EXCEPT ![p] = "failed"]
        /\ UNCHANGED <<run, phase, walk, memory>>
    BY <1>1, <1>3 DEF Err, Fails, Suspend
  <2>2. TypeOK'
    BY <1>1, <2>1 DEF TypeOK, disk, walk, memory, States, Packages
  <2>3. Filled' /\ FilesCached'
    BY <1>1, <2>1 DEF Filled, FilesCached, disk, memory, Packages, Url
  <2>4. Progress'
    BY <2>1, ProgressGoesOn DEF disk, memory, States
  <2>5. AllInstalled' /\ AllFetched' /\ Walked' /\ LinksSound'
    BY <2>1, FutureStays DEF disk, States
  <2>6. QED BY <2>2, <2>3, <2>4, <2>5 DEF LockInv
<1>4. QED BY <1>2, <1>3

\* Suspended where it has begun, a future is one of a supported package.
LEMMA BegunIsSupported ==
  ASSUME LockInv, NEW p \in Paths, pc[p] \notin {"absent", "new", "failed"}
  PROVE  Supported(run.lockfile, p)
BY DEF LockInv, Progress

LEMMA FailureKeeps ==
  ASSUME LockInv, NEW p \in Paths, Panics(p) \/ Misses(p) \/ DownloadFails(p) \/ ImportFails(p)
  PROVE  LockInv'
<1>1. TypeOK /\ Filled /\ UNCHANGED disk
  BY DEF LockInv, Panics, Misses, DownloadFails, ImportFails
<1>2. CASE Panics(p)
  BY <1>1, <1>2, StopKeeps DEF Panics, disk, TypeOK
<1>3. CASE Misses(p)
  <2>1. pc[p] = "new" /\ ~Unsupported(p) /\ Err(p)
    BY <1>3 DEF Misses
  <2>2. Supported(run.lockfile, p)
    BY <1>1, <2>1, FutureTypes, UnsupportedIs
  <2>3. QED BY <1>1, <2>1, <2>2, ErrKeeps
<1>4. CASE DownloadFails(p)
  BY <1>1, <1>4, BegunIsSupported, ErrKeeps DEF DownloadFails
<1>5. CASE ImportFails(p)
  BY <1>1, <1>5, BegunIsSupported, ErrKeeps DEF ImportFails
<1>6. QED BY <1>2, <1>3, <1>4, <1>5

LEMMA DownloadedKeeps == ASSUME LockInv, NEW p \in Paths, Downloaded(p) PROVE LockInv'
<1>1. /\ TypeOK /\ Filled /\ FilesCached /\ AllFetched
      /\ pc[p] = "download" /\ pc' = [pc EXCEPT ![p] = "files"]
      /\ store' = store \cup Packages[p].integrity
      /\ cache' = [cache EXCEPT ![Url(p)] = "available"]
      /\ files' = [files EXCEPT ![Url(p)] = Packages[p].integrity]
      /\ UNCHANGED <<virtual, content, link, run, phase, walk>>
      /\ pc \in [Paths -> States] /\ cache \in [Tarballs -> {"vacant", "in_progress", "available"}]
      /\ files \in [Tarballs -> SUBSET Integrities]
  BY DEF LockInv, Downloaded, Publish, Suspend, TypeOK
<1>2. /\ phase = "packages" /\ p \in DOMAIN Packages /\ Url(p) \in Tarballs
      /\ Packages[p].integrity \in SUBSET Integrities
  BY <1>1, FutureTypes
<1>3. Supported(run.lockfile, p)
  BY <1>1, BegunIsSupported
<1>4. \A q : Url(q)' = Url(q) /\ Packages' = Packages
  BY <1>1 DEF Url, Packages
<1>5. TypeOK'
  BY <1>1, <1>2, <1>4 DEF TypeOK, walk, States
<1>6. Filled'
  BY <1>1 DEF Filled
<1>7. FilesCached'
  <2>1. SUFFICES ASSUME NEW u \in Tarballs, cache'[u] = "available"
                 PROVE  \E q \in DOMAIN Packages :
                          /\ Supported(run.lockfile, q) /\ Url(q) = u
                          /\ files'[u] = Packages[q].integrity /\ files'[u] \subseteq store'
    BY <1>1, <1>4 DEF FilesCached
  <2>2. CASE u = Url(p)
    BY <1>1, <1>2, <1>3, <2>2
  <2>3. CASE u # Url(p)
    BY <1>1, <2>1, <2>3 DEF FilesCached
  <2>4. QED BY <2>2, <2>3
<1>8. Progress'
  BY <1>1, <1>2, <1>3, ProgressGoesOn DEF States
<1>9. AllInstalled' /\ AllFetched' /\ Walked' /\ LinksSound'
  BY <1>1, FutureStays DEF States
<1>10. QED BY <1>5, <1>6, <1>7, <1>8, <1>9 DEF LockInv

LEMMA WokenKeeps == ASSUME LockInv, NEW p \in Paths, Woken(p) PROVE LockInv'
<1>1. /\ TypeOK /\ Filled /\ FilesCached /\ pc \in [Paths -> States]
      /\ pc[p] = "waiting" /\ cache[Url(p)] = "available" /\ pc' = [pc EXCEPT ![p] = "files"]
      /\ UNCHANGED <<disk, run, phase, walk, memory>>
  BY DEF LockInv, Woken, Suspend, TypeOK
<1>2. phase = "packages" /\ p \in DOMAIN Packages
  BY <1>1, FutureTypes
<1>3. TypeOK'
  BY <1>1, <1>2 DEF TypeOK, disk, walk, memory, States, Packages
<1>4. Filled' /\ FilesCached'
  BY <1>1 DEF Filled, FilesCached, disk, memory, Packages, Url
<1>5. Progress'
  BY <1>1, BegunIsSupported, ProgressGoesOn DEF disk, memory, States
<1>6. AllInstalled' /\ AllFetched' /\ Walked' /\ LinksSound'
  BY <1>1, FutureStays DEF disk, States
<1>7. QED BY <1>3, <1>4, <1>5, <1>6 DEF LockInv

LEMMA ImportKeeps ==
  ASSUME Consistent, LockInv, NEW p \in Paths, Import(p) \/ Imported(p) PROVE LockInv'
<1> DEFINE d == to_virtual_store_name(p)
<1>1. /\ TypeOK /\ Filled /\ FilesCached /\ pc \in [Paths -> States]
      /\ pc[p] \in {"files", "import"}
      /\ UNCHANGED <<store, link, run, phase, walk, memory>>
      /\ virtual \in [Dirs -> {"absent", "partial", "full"}]
      /\ content \in [Dirs -> SUBSET Integrities]
  BY DEF LockInv, Import, Imported, TypeOK
<1>2. /\ phase = "packages" /\ p \in DOMAIN Packages /\ d \in Dirs
      /\ run.lockfile \in Lockfiles /\ Packages[p].integrity \in SUBSET Integrities
  BY <1>1, FutureTypes
<1>3. /\ Supported(run.lockfile, p) /\ cache[Url(p)] = "available"
      /\ pc[p] = "import" => virtual[d] # "absent"
  BY <1>1 DEF LockInv, Progress
<1>4. files[Url(p)] = Packages[p].integrity
  BY <1>2, <1>3, CachedFiles
<1>5. PICK s \in {"link", "import"} :
        /\ pc' = [pc EXCEPT ![p] = s]
        /\ \/ UNCHANGED <<virtual, content>> /\ virtual[d] # "absent"
           \/ /\ virtual' = [virtual EXCEPT ![d] = "partial"]
              /\ content' = [content EXCEPT ![d] = Packages[p].integrity]
           \/ virtual' = [virtual EXCEPT ![d] = "full"] /\ UNCHANGED content /\ virtual[d] # "absent"
  <2>1. CASE Import(p)
    BY <1>2, <1>4, <2>1 DEF Import, Suspend, Exists
  <2>2. CASE Imported(p)
    BY <1>3, <2>2 DEF Imported, Suspend
  <2>3. QED BY <2>1, <2>2
<1>6. TypeOK'
  BY <1>1, <1>2, <1>5 DEF TypeOK, walk, memory, States, Packages
<1>7. /\ \A e \in Dirs : virtual[e] # "absent" => virtual'[e] # "absent"
      /\ virtual'[d] # "absent"
  BY <1>1, <1>2, <1>5
<1>8. Filled'
  <2>1. SUFFICES ASSUME NEW e \in Dirs, virtual'[e] # "absent"
                 PROVE  \E l \in Lockfiles : \E q \in DOMAIN l.packages :
                          /\ Supported(l, q) /\ to_virtual_store_name(q) = e
                          /\ content'[e] = l.packages[q].integrity
    BY DEF Filled
  <2>2. CASE content'[e] = content[e] /\ virtual[e] # "absent"
    BY <1>1, <2>2 DEF Filled
  <2>3. CASE e = d /\ content'[e] = Packages[p].integrity
    BY <1>2, <1>3, <2>3 DEF Packages
  <2>4. QED BY <1>1, <1>2, <1>5, <2>1, <2>2, <2>3
<1>9. FilesCached'
  BY <1>1 DEF FilesCached, memory, Packages, Url
<1>10. Progress'
  BY <1>1, <1>3, <1>5, <1>7, ProgressGoesOn DEF memory, States
<1>11. AllInstalled' /\ AllFetched' /\ Walked' /\ LinksSound'
  BY <1>1, <1>5, <1>7, FutureStays DEF States
<1>12. QED BY <1>6, <1>8, <1>9, <1>10, <1>11 DEF LockInv

LEMMA LayoutOne ==
  ASSUME TypeOK, phase # "idle", NEW p \in DOMAIN Packages,
         NEW t \in Layout(p), NEW u \in Layout(p), t.name = u.name
  PROVE  t = u
BY RunTypes, SnapshotTypes DEF Layout, Packages

\* A link that leads, or is not there, becomes what it should be.
LEMMA OutcomeIs ==
  ASSUME NEW d, NEW n, NEW targets, \A t \in link[d][n] : Leads(t),
         NEW T \in Outcomes(d, n, targets, {})
  PROVE  IF \E t \in targets : t.name = n THEN \E t \in targets : t.name = n /\ T = {t}
         ELSE T = link[d][n]
<1>1. \A t : symlink_package(d, n, t) = {t}
  BY DEF symlink_package
<1>2. QED BY <1>1 DEF Outcomes

LEMMA CreateSymlinkLayoutKeeps ==
  ASSUME Consistent, LockInv, NEW p \in Paths, CreateSymlinkLayout(p) PROVE LockInv'
<1> DEFINE d == to_virtual_store_name(p)
<1>1. /\ TypeOK /\ Filled /\ FilesCached /\ Progress /\ AllInstalled /\ AllFetched /\ Walked
      /\ LinksSound /\ pc \in [Paths -> States]
      /\ pc[p] = "link" /\ pc' = [pc EXCEPT ![p] = "done"]
      /\ link' \in Linked(d, Layout(p), {})
      /\ UNCHANGED <<store, virtual, content, run, phase, walk, memory>>
      /\ link \in [Dirs \cup {Root} -> [Names -> SUBSET Targets]]
  BY DEF LockInv, CreateSymlinkLayout, Suspend, TypeOK
<1>2. /\ phase = "packages" /\ p \in DOMAIN Packages /\ d \in Dirs
      /\ run.lockfile \in Lockfiles /\ DOMAIN Packages \subseteq Paths
  BY <1>1, FutureTypes
<1>3. /\ link' \in [Dirs \cup {Root} -> [Names -> SUBSET Targets]]
      /\ \A e \in (Dirs \cup {Root}) \ {d} : link'[e] = link[e]
      /\ \A n \in Names : link'[d][n] \in Outcomes(d, n, Layout(p), {})
  <2>1. Layout(p) \in SUBSET Targets /\ d \in Dirs \cup {Root}
    BY <1>1, <1>2, LayoutType
  <2>2. /\ link' \in Linked(d, Layout(p), {})
        /\ link \in [Dirs \cup {Root} -> [Names -> SUBSET Targets]]
    BY <1>1
  <2> HIDE DEF d
  <2>3. QED BY <2>1, <2>2, LinkedIs
<1>4. /\ Packages' = Packages /\ run' = run /\ phase' = phase
      /\ \A q \in Paths : pc'[q] = IF q = p THEN "done" ELSE pc[q]
  BY <1>1 DEF Packages
<1>5. TypeOK'
  BY <1>1, <1>2, <1>3, <1>4 DEF TypeOK, walk, memory, States
<1>6. Filled' /\ FilesCached'
  BY <1>1 DEF Filled, FilesCached, memory, Packages, Url
<1>7. Progress'
  <2>1. /\ Supported(run.lockfile, p) /\ cache[Url(p)] = "available" /\ virtual[d] # "absent"
    BY <1>1 DEF Progress
  <2>2. QED BY <1>1, <2>1, ProgressGoesOn DEF memory, States
<1>8. AllInstalled' /\ AllFetched' /\ Walked'
  <2>1. AllInstalled'
    BY <1>1, <1>2, <1>4 DEF AllInstalled
  <2>2. AllFetched'
    BY <1>1, <1>2, <1>4 DEF AllFetched, walk
  <2>3. Walked'
    BY <1>1, <1>2, <1>4 DEF Walked, walk
  <2>4. QED BY <2>1, <2>2, <2>3
<1>9. LinksSound'
  <2>1. SUFFICES ASSUME run.sound PROVE LinksSound'
    BY <1>4 DEF LinksSound
  <2>2. \A q \in DOMAIN Packages : to_virtual_store_name(q) = d => q = p
    BY <1>2 DEF Consistent, Packages
  <2>3. \A n \in Names : \A t \in link[d][n] : Leads(t)
    BY <1>1, <1>2, <2>1, <2>2 DEF LinksSound, LinkOf
  <2>4. \A t : Leads(t)' = Leads(t)
    BY <1>1 DEF Leads, Exists
  <2>5. \A e \in DOMAIN link', n \in Names : \A t \in link'[e][n] :
           Leads(t)' \/ \E q \in DOMAIN Packages : pc'[q] = "done" /\ LinkOf(q, e, t)
    <3> TAKE e \in DOMAIN link', n \in Names
    <3> TAKE t \in link'[e][n]
    <3>1. CASE e = d
      <4>1. t \in Layout(p) \/ t \in link[d][n]
        BY <1>3, <2>3, <3>1, OutcomeIs
      <4>2. QED BY <1>2, <1>4, <2>3, <2>4, <3>1, <4>1 DEF LinkOf
    <3>2. CASE e # d
      <4>1. link'[e] = link[e] /\ e \in DOMAIN link
        BY <1>1, <1>3, <3>2
      <4>2. Leads(t) \/ \E q \in DOMAIN Packages : pc[q] = "done" /\ LinkOf(q, e, t)
        BY <1>1, <1>2, <2>1, <4>1 DEF LinksSound
      <4>3. QED BY <1>2, <1>4, <2>4, <4>2
    <3>3. QED BY <3>1, <3>2
  <2>6. ASSUME NEW q \in Paths, pc'[q] = "done" PROVE LaidOut(q)'
    <3>1. Layout(q)' = Layout(q)
      BY <1>4 DEF Layout
    <3>2. q \in DOMAIN Packages
      BY <1>1, <1>2, <1>4, <2>6, FutureTypes
    <3>3. Layout(q) \subseteq Targets /\ \A t \in Layout(q) : t.name \in Names
      BY <1>1, <1>2, <3>2, LayoutType DEF Targets
    <3>4. CASE q = p
      <4>1. ASSUME NEW t \in Layout(p) PROVE link'[d][t.name] = {t}
        <5>1. PICK u \in Layout(p) : u.name = t.name /\ link'[d][t.name] = {u}
          BY <1>3, <2>3, <3>3, <3>4, <4>1, OutcomeIs
        <5>2. QED BY <1>1, <1>2, <5>1, LayoutOne
      <4>2. QED BY <3>1, <3>4, <4>1 DEF LaidOut
    <3>5. CASE q # p
      <4>1. LaidOut(q)
        BY <1>1, <1>2, <1>4, <2>1, <2>6, <3>5 DEF LinksSound
      <4>2. to_virtual_store_name(q) # d /\ to_virtual_store_name(q) \in Dirs
        BY <2>2, <3>2, <3>5, PathTypes
      <4>3. link'[to_virtual_store_name(q)] = link[to_virtual_store_name(q)]
        BY <1>3, <4>2
      <4>4. QED BY <3>1, <4>1, <4>3 DEF LaidOut
    <3>6. QED BY <3>4, <3>5
  <2>7. \A q, e, t : LinkOf(q, e, t)' = LinkOf(q, e, t)
    BY <1>4 DEF LinkOf, Layout
  <2>8. QED BY <1>2, <1>4, <2>5, <2>6, <2>7 DEF LinksSound
<1>10. QED BY <1>5, <1>6, <1>7, <1>8, <1>9 DEF LockInv

LEMMA FetchDoneKeeps == ASSUME Consistent, LockInv, FetchDone PROVE LockInv'
<1>1. /\ TypeOK /\ Filled /\ Progress /\ AllFetched /\ Walked /\ LinksSound
      /\ Joined /\ run.command = "fetch" /\ UNCHANGED disk
  BY DEF LockInv, FetchDone
<1>2. CASE Stop
  BY <1>1, <1>2, StopKeeps DEF disk, TypeOK
<1>3. CASE ~Stop
  <2>1. /\ \A p \in Paths : pc[p] # "failed"
        /\ phase = "packages" /\ phase' = "ok" /\ Futures({}) /\ UNCHANGED <<run, walk>>
    BY <1>1, <1>3 DEF FetchDone, Joined
  <2>2. /\ run.lockfile \in Lockfiles /\ Packages' = Packages /\ visited' = visited
        /\ pending' = pending /\ run' = run
        /\ visited \subseteq DOMAIN Packages /\ DOMAIN Packages \subseteq Paths
    BY <1>1, <2>1, RunTypes, SnapshotTypes DEF Walked, Packages, walk
  <2>3. /\ pc' \in [Paths -> States] /\ \A p \in Paths : pc'[p] = "absent"
        /\ cache' \in [Tarballs -> {"vacant", "in_progress", "available"}]
        /\ \A u \in Tarballs : cache'[u] = "vacant"
        /\ files' \in [Tarballs -> SUBSET Integrities]
    BY <2>1, FuturesType
  <2>4. TypeOK'
    BY <1>1, <2>1, <2>2, <2>3 DEF TypeOK, disk
  <2>5. Filled' /\ FilesCached' /\ Progress'
    BY <1>1, <2>3 DEF Filled, FilesCached, Progress, disk
  <2>6. AllInstalled'
    BY <1>1, <2>2 DEF AllInstalled
  <2>7. AllFetched'
    <3>1. ASSUME NEW p \in visited, Selectable(run.lockfile, p)
          PROVE  Holds(p) /\ Packages[p].integrity \subseteq store
      <4>1. pc[p] = "done"
        BY <1>1, <2>1, <2>2, <3>1 DEF AllFetched, Joined
      <4>2. /\ Supported(run.lockfile, p) /\ virtual[to_virtual_store_name(p)] # "absent"
            /\ cache[Url(p)] = "available"
        BY <1>1, <2>2, <4>1 DEF Progress
      <4>3. Holds(p)
        BY <1>1, <2>1, <2>2, <4>2, FilledHolds
      <4>4. Packages[p].integrity \subseteq store
        BY <2>1, <2>2, <4>2, CachedFiles
      <4>5. QED BY <4>3, <4>4
    <3>2. \A p : Holds(p)' = Holds(p)
      BY <1>1, <2>2 DEF Holds, Exists, disk
    <3>3. QED BY <1>1, <2>1, <2>2, <2>3, <3>1, <3>2 DEF AllFetched, disk
  <2>8. Walked'
    BY <1>1, <2>1, <2>2 DEF Walked
  <2>9. LinksSound'
    BY <1>1, <2>1, <2>2, <2>3 DEF LinksSound
  <2>10. QED BY <2>4, <2>5, <2>6, <2>7, <2>8, <2>9 DEF LockInv
<1>4. QED BY <1>2, <1>3

LEMMA WithoutType ==
  ASSUME link \in [Dirs \cup {Root} -> [Names -> SUBSET Targets]], NEW names
  PROVE  Without(names) \in [Dirs \cup {Root} -> [Names -> SUBSET Targets]]
BY DEF Without

LEMMA SyncRootsKeeps == ASSUME Consistent, LockInv, SyncRoots PROVE LockInv'
<1>1. /\ TypeOK /\ Filled /\ Progress /\ AllInstalled /\ LinksSound
      /\ Joined /\ run.command = "install" /\ UNCHANGED <<store, virtual, content>>
      /\ link \in [Dirs \cup {Root} -> [Names -> SUBSET Targets]]
  BY DEF LockInv, SyncRoots, TypeOK
<1>2. CASE Stop /\ UNCHANGED link
  BY <1>1, <1>2, StopKeeps DEF TypeOK
<1>3. CASE ~(Stop /\ UNCHANGED link)
  <2>1. /\ link' = Without(Names) /\ phase = "packages" /\ phase' = "roots"
        /\ Futures({}) /\ UNCHANGED <<run, walk>>
    BY <1>1, <1>3 DEF SyncRoots, Joined
  <2>2. /\ run.lockfile \in Lockfiles /\ Packages' = Packages /\ visited' = visited
        /\ pending' = pending /\ run' = run /\ DOMAIN Packages \subseteq Paths
    BY <1>1, <2>1, RunTypes, SnapshotTypes DEF Packages, walk
  <2>3. /\ pc' \in [Paths -> States] /\ \A p \in Paths : pc'[p] = "absent"
        /\ cache' \in [Tarballs -> {"vacant", "in_progress", "available"}]
        /\ \A u \in Tarballs : cache'[u] = "vacant"
        /\ files' \in [Tarballs -> SUBSET Integrities]
    BY <2>1, FuturesType
  <2>4. TypeOK'
    BY <1>1, <2>1, <2>2, <2>3, WithoutType DEF TypeOK
  <2>5. Filled' /\ FilesCached' /\ Progress'
    BY <1>1, <2>3 DEF Filled, FilesCached, Progress
  <2>6. \A p \in DOMAIN Packages : pc[p] = "done"
    BY <1>1, <2>1, <2>2 DEF AllInstalled, Joined
  <2>7. AllInstalled'
    <3>1. ASSUME NEW p \in DOMAIN Packages PROVE Holds(p)
      <4>1. Supported(run.lockfile, p) /\ virtual[to_virtual_store_name(p)] # "absent"
        BY <1>1, <2>2, <2>6 DEF Progress
      <4>2. QED BY <1>1, <2>1, <4>1, FilledHolds
    <3>2. \A p : Holds(p)' = Holds(p)
      BY <1>1, <2>2 DEF Holds, Exists
    <3>3. QED BY <2>1, <2>2, <3>1, <3>2 DEF AllInstalled
  <2>8. AllFetched' /\ Walked'
    BY <1>1, <2>2 DEF AllFetched, Walked
  <2>9. LinksSound'
    <3>1. SUFFICES ASSUME run.sound PROVE LinksSound'
      BY <2>2 DEF LinksSound
    <3>2. /\ \A d \in Dirs : link'[d] = link[d]
          /\ \A n \in Names : /\ link'[Root][n] \subseteq link[Root][n]
                              /\ ~(\E t \in Direct : t.name = n) => link'[Root][n] = {}
      BY <1>1, <2>1, LockfileAssumption DEF Without
    <3>3. Direct' = Direct /\ \A t : Leads(t)' = Leads(t)
      BY <1>1, <2>2 DEF Direct, Leads, Exists
    <3>4. \A p \in DOMAIN Packages : LaidOut(p)'
      <4>1. \A p \in DOMAIN Packages : LaidOut(p) /\ to_virtual_store_name(p) \in Dirs
        BY <1>1, <2>1, <2>2, <2>6, <3>1, PathTypes DEF LinksSound
      <4>2. \A p : Layout(p)' = Layout(p)
        BY <2>2 DEF Layout
      <4>3. QED BY <3>2, <4>1, <4>2 DEF LaidOut
    <3>5. \A n \in Names : \A t \in link[Root][n] : Leads(t)
      <4>1. \A p \in DOMAIN Packages : to_virtual_store_name(p) # Root
        BY <2>2, PathTypes, LockfileAssumption
      <4>2. QED BY <1>1, <2>1, <3>1, <4>1 DEF LinksSound, LinkOf
    <3>6. \A d \in Dirs, n \in Names : \A t \in link'[d][n] :
            Leads(t)' \/ \E p \in DOMAIN Packages : LinkOf(p, d, t)'
      <4>1. \A p, d, t : LinkOf(p, d, t)' = LinkOf(p, d, t)
        BY <2>2 DEF LinkOf, Layout
      <4>2. \A d \in Dirs, n \in Names : \A t \in link[d][n] :
              Leads(t) \/ \E p \in DOMAIN Packages : LinkOf(p, d, t)
        BY <1>1, <2>1, <3>1 DEF LinksSound
      <4>3. QED BY <3>2, <3>3, <4>1, <4>2
    <3>7. QED BY <2>1, <2>2, <2>3, <3>2, <3>3, <3>4, <3>5, <3>6 DEF LinksSound
  <2>10. QED BY <2>4, <2>5, <2>7, <2>8, <2>9 DEF LockInv
<1>4. QED BY <1>2, <1>3

LEMMA LinkRootsKeeps == ASSUME LockInv, LinkRoots PROVE LockInv'
<1>1. /\ TypeOK /\ Filled /\ FilesCached /\ Progress /\ AllInstalled /\ AllFetched /\ LinksSound
      /\ phase = "roots" /\ phase' = "ok" /\ link' \in Linked(Root, Direct, {})
      /\ UNCHANGED <<store, virtual, content, run, walk, pc, memory>>
      /\ link \in [Dirs \cup {Root} -> [Names -> SUBSET Targets]]
  BY DEF LockInv, LinkRoots, TypeOK
<1>2. /\ run.lockfile \in Lockfiles /\ run.command = "install"
      /\ Packages' = Packages /\ run' = run /\ DOMAIN Packages \subseteq Paths
      /\ \A p \in Paths : pc[p] = "absent" /\ pc'[p] = "absent"
  BY <1>1, RunTypes, SnapshotTypes DEF AllFetched, Packages, TypeOK
<1>3. /\ link' \in [Dirs \cup {Root} -> [Names -> SUBSET Targets]]
      /\ \A d \in Dirs : link'[d] = link[d]
      /\ \A n \in Names : link'[Root][n] \in Outcomes(Root, n, Direct, {})
  <2>1. Direct \in SUBSET Targets /\ Root \in Dirs \cup {Root}
    BY <1>1, DirectType
  <2>2. /\ link' \in [Dirs \cup {Root} -> [Names -> SUBSET Targets]]
        /\ \A d \in (Dirs \cup {Root}) \ {Root} : link'[d] = link[d]
        /\ \A n \in Names : link'[Root][n] \in Outcomes(Root, n, Direct, {})
    BY <1>1, <2>1, LinkedIs
  <2>3. QED BY <2>2, LockfileAssumption
<1>4. TypeOK'
  BY <1>1, <1>2, <1>3 DEF TypeOK, walk, memory
<1>5. Filled' /\ FilesCached' /\ Progress'
  BY <1>1, <1>2 DEF Filled, FilesCached, Progress, memory, Packages, Url
<1>6. AllInstalled'
  <2>1. \A p : Holds(p)' = Holds(p)
    BY <1>1, <1>2 DEF Holds, Exists
  <2>2. QED BY <1>1, <1>2, <2>1 DEF AllInstalled
<1>7. AllFetched' /\ Walked'
  BY <1>2 DEF AllFetched, Walked
<1>8. LinksSound'
  <2>1. SUFFICES ASSUME run.sound PROVE LinksSound'
    BY <1>2 DEF LinksSound
  <2>2. \A n \in Names : /\ \A t \in link[Root][n] : Leads(t)
                         /\ ~(\E t \in Direct : t.name = n) => link[Root][n] = {}
    BY <1>1, <1>2, <2>1 DEF LinksSound
  <2>3. RootsLinked'
    <3>1. \A n \in Names : IF \E t \in Direct : t.name = n
                           THEN \E t \in Direct : t.name = n /\ link'[Root][n] = {t}
                           ELSE link'[Root][n] = {}
      BY <1>3, <2>2, OutcomeIs
    <3>2. Direct' = Direct
      BY <1>2 DEF Direct
    <3>3. QED BY <3>1, <3>2 DEF RootsLinked
  <2>4. \A p \in DOMAIN Packages : LaidOut(p)'
    <3>1. \A p \in DOMAIN Packages : LaidOut(p) /\ to_virtual_store_name(p) \in Dirs
      BY <1>1, <1>2, <2>1, PathTypes DEF LinksSound
    <3>2. \A p : Layout(p)' = Layout(p)
      BY <1>2 DEF Layout
    <3>3. QED BY <1>3, <3>1, <3>2 DEF LaidOut
  <2>5. \A d \in Dirs, n \in Names : \A t \in link'[d][n] :
          Leads(t)' \/ \E p \in DOMAIN Packages : LinkOf(p, d, t)'
    <3>1. (\A p, d, t : LinkOf(p, d, t)' = LinkOf(p, d, t)) /\ (\A t : Leads(t)' = Leads(t))
      BY <1>1, <1>2 DEF LinkOf, Layout, Leads, Exists
    <3>2. \A d \in Dirs, n \in Names : \A t \in link[d][n] :
            Leads(t) \/ \E p \in DOMAIN Packages : LinkOf(p, d, t)
      BY <1>1, <1>2, <2>1 DEF LinksSound
    <3>3. QED BY <1>3, <3>1, <3>2
  <2>6. QED BY <1>1, <1>2, <2>3, <2>4, <2>5 DEF LinksSound
<1>9. QED BY <1>4, <1>5, <1>6, <1>7, <1>8 DEF LockInv

LEMMA KillKeeps == ASSUME LockInv, Kill PROVE LockInv'
<1>1. /\ TypeOK /\ Filled /\ Stop /\ phase # "idle" /\ UNCHANGED <<store, virtual, content>>
      /\ link \in [Dirs \cup {Root} -> [Names -> SUBSET Targets]]
  BY DEF LockInv, Kill, Ended, TypeOK
<1>2. link' \in [Dirs \cup {Root} -> [Names -> SUBSET Targets]]
  <2>1. CASE UNCHANGED link
    BY <1>1, <2>1
  <2>2. ASSUME NEW p \in Paths, pc[p] = "link", NEW some \in SUBSET Layout(p),
               NEW gone \in SUBSET some, link' \in Linked(to_virtual_store_name(p), some, gone)
        PROVE  link' \in [Dirs \cup {Root} -> [Names -> SUBSET Targets]]
    <3>1. p \in DOMAIN Packages /\ to_virtual_store_name(p) \in Dirs \cup {Root}
      BY <1>1, <2>2, FutureTypes
    <3>2. some \in SUBSET Targets
      BY <1>1, <2>2, <3>1, LayoutType
    <3>3. QED BY <1>1, <2>2, <3>1, <3>2, LinkedIs
  <2>3. ASSUME NEW names \in SUBSET Names, link' = Without(names)
        PROVE  link' \in [Dirs \cup {Root} -> [Names -> SUBSET Targets]]
    BY <1>1, <2>3, WithoutType
  <2>4. ASSUME NEW some \in SUBSET Direct, NEW gone \in SUBSET some, link' \in Linked(Root, some, gone)
        PROVE  link' \in [Dirs \cup {Root} -> [Names -> SUBSET Targets]]
    <3>1. some \in SUBSET Targets /\ Root \in Dirs \cup {Root}
      BY <1>1, <2>4, DirectType
    <3>2. QED BY <1>1, <2>4, <3>1, LinkedIs
  <2>5. QED BY <2>1, <2>2, <2>3, <2>4 DEF Kill
<1>3. QED BY <1>1, <1>2, StopKeeps DEF TypeOK

LEMMA DeleteModulesKeeps == ASSUME LockInv, DeleteModules PROVE LockInv'
<1>1. /\ TypeOK /\ Stop /\ UNCHANGED store
      /\ virtual' = [d \in Dirs |-> "absent"] /\ content' = [d \in Dirs |-> {}]
      /\ link' = [d \in Dirs \cup {Root} |-> NoLinks]
  BY DEF LockInv, DeleteModules
<1>2. Filled'
  BY <1>1 DEF Filled
<1>3. NoLinks \in [Names -> SUBSET Targets]
  BY DEF NoLinks
<1>4. QED BY <1>1, <1>2, <1>3, StoppedKeeps DEF TypeOK

LEMMA NextKeeps == ASSUME Consistent, LockInv, Next PROVE LockInv'
<1>1. CASE Start
  BY <1>1, StartInstallKeeps, StartFetchKeeps DEF Start
<1>2. CASE Command
  BY <1>2, CollectKeeps, CollectDoneKeeps, FetchDoneKeeps, SyncRootsKeeps, LinkRootsKeeps DEF Command
<1>3. CASE Kill
  BY <1>3, KillKeeps
<1>4. CASE DeleteModules
  BY <1>4, DeleteModulesKeeps
<1>5. ASSUME NEW p \in Paths, Step(p) PROVE LockInv'
  <2>1. CASE Begin(p)
    BY <2>1, BeginKeeps
  <2>2. CASE Panics(p) \/ Misses(p) \/ DownloadFails(p) \/ ImportFails(p)
    BY <2>2, FailureKeeps
  <2>3. CASE Downloaded(p)
    BY <2>3, DownloadedKeeps
  <2>4. CASE Woken(p)
    BY <2>4, WokenKeeps
  <2>5. CASE Import(p) \/ Imported(p)
    BY <2>5, ImportKeeps
  <2>6. CASE CreateSymlinkLayout(p)
    BY <2>6, CreateSymlinkLayoutKeeps
  <2>7. QED BY <1>5, <2>1, <2>2, <2>3, <2>4, <2>5, <2>6 DEF Step
<1>6. QED BY <1>1, <1>2, <1>3, <1>4, <1>5 DEF Next

\* `store add` only adds to the store.
LEMMA StoreGrowsKeeps ==
  ASSUME LockInv, store \subseteq store', store' \in SUBSET Integrities,
         UNCHANGED <<virtual, content, link, run, phase, walk, pc, memory>>
  PROVE  LockInv'
<1>1. /\ TypeOK /\ Filled /\ FilesCached /\ Progress /\ AllInstalled /\ AllFetched /\ Walked
      /\ LinksSound
  BY DEF LockInv
<1>2. /\ virtual' = virtual /\ content' = content /\ link' = link /\ run' = run /\ phase' = phase
      /\ pending' = pending /\ visited' = visited /\ pc' = pc /\ cache' = cache /\ files' = files
      /\ Packages' = Packages
  BY DEF walk, memory, Packages
<1>3. TypeOK'
  BY <1>1, <1>2 DEF TypeOK
<1>4. Filled' /\ FilesCached' /\ Progress'
  BY <1>1, <1>2 DEF Filled, FilesCached, Progress, Url
<1>5. AllInstalled' /\ AllFetched' /\ Walked'
  <2>1. \A p : Holds(p)' = Holds(p)
    BY <1>2 DEF Holds, Exists
  <2>2. QED BY <1>1, <1>2, <2>1 DEF AllInstalled, AllFetched, Walked
<1>6. LinksSound'
  <2>1. \A t : Leads(t)' = Leads(t)
    BY <1>2 DEF Leads, Exists
  <2>2. /\ \A p : LaidOut(p)' = LaidOut(p) /\ Direct' = Direct /\ RootsLinked' = RootsLinked
        /\ \A p, d, t : LinkOf(p, d, t)' = LinkOf(p, d, t)
    BY <1>2 DEF LaidOut, Layout, RootsLinked, Direct, LinkOf
  <2>3. QED BY <1>1, <1>2, <2>1, <2>2 DEF LinksSound
<1>7. QED BY <1>3, <1>4, <1>5, <1>6 DEF LockInv

LEMMA LockInvStep == ASSUME Consistent PROVE LockInv /\ [AddNext]_allVars => LockInv'
<1> SUFFICES ASSUME LockInv, [AddNext]_allVars PROVE LockInv'
  OBVIOUS
<1>1. ASSUME UNCHANGED vars PROVE LockInv'
  <2>1. TypeOK /\ UNCHANGED <<store, virtual, content, link, run, phase, walk, pc, memory>>
    BY <1>1 DEF LockInv, vars, disk, walk, memory
  <2>2. store \subseteq store' /\ store' \in SUBSET Integrities
    BY <2>1 DEF TypeOK
  <2>3. QED BY <2>1, <2>2, StoreGrowsKeeps
<1>2. CASE StartAdd
  <2>1. TypeOK /\ Filled /\ Stop /\ UNCHANGED disk
    BY <1>2 DEF LockInv, StartAdd
  <2>2. QED BY <2>1, StopKeeps DEF disk, TypeOK
<1>3. ASSUME NEW r \in Releases, Tarball(r) PROVE LockInv'
  <2>1. /\ store \subseteq store' /\ store' \in SUBSET Integrities
        /\ UNCHANGED <<virtual, content, link, run, phase, walk, pc, memory>>
    BY <1>3, AddAssumption DEF LockInv, TypeOK, Tarball
  <2>2. QED BY <2>1, StoreGrowsKeeps
<1>4. CASE OtherCommand
  BY <1>4, NextKeeps DEF OtherCommand
<1>5. ASSUME NEW e \in Asked, Ask(e) \/ Cached(e) \/ Answered(e) \/ Unanswered(e) PROVE LockInv'
  BY <1>1, <1>5 DEF Ask, Cached, Answered, Unanswered
<1>6. CASE Gathered \/ NextPackage \/ AddDone \/ KillAdd
  BY <1>1, <1>6 DEF Gathered, NextPackage, AddDone, KillAdd
<1>7. ASSUME NEW r \in Releases, TarballFails(r) PROVE LockInv'
  BY <1>1, <1>7 DEF TarballFails
<1>8. CASE UNCHANGED allVars
  BY <1>1, <1>8 DEF allVars
<1>9. QED BY <1>2, <1>3, <1>4, <1>5, <1>6, <1>7, <1>8 DEF AddNext, AddStep

LEMMA LockInvHolds == ASSUME Consistent PROVE AddSpec => []LockInv
<1>1. AddInit => LockInv
  <2> SUFFICES ASSUME Init PROVE LockInv
    BY DEF AddInit
  <2>1. NoLinks \in [Names -> SUBSET Targets]
    BY DEF NoLinks
  <2>2. TypeOK
    BY <2>1 DEF Init, TypeOK, States
  <2>3. Filled /\ FilesCached /\ Progress
    BY DEF Init, Filled, FilesCached, Progress
  <2>4. AllInstalled /\ AllFetched /\ Walked /\ LinksSound
    BY NoRunIs DEF Init, AllInstalled, AllFetched, Walked, LinksSound
  <2>5. QED BY <2>2, <2>3, <2>4 DEF LockInv
<1>2. QED BY <1>1, LockInvStep, PTL DEF AddSpec

\* Fetch selects the packages that the direct dependencies of its groups need and no
\* others, through cycles and ambiguous lookups, and when it succeeds every one of them is
\* in the store and in its directory, whatever commands, failures and kills came before.
THEOREM FetchTakesTheClosure == ASSUME Consistent PROVE AddSpec => []FetchesSelected
<1>1. LockInv => FetchesSelected
  <2> SUFFICES ASSUME LockInv, run.command = "fetch" PROVE FetchesSelected
    BY DEF FetchesSelected
  <2>1. /\ AllFetched /\ Walked
    BY DEF LockInv
  <2>2. /\ visited \subseteq DOMAIN Packages
        /\ visited \subseteq Reachable(run.lockfile, run.groups)
    BY <2>1 DEF Walked
  <2>3. phase \in {"packages", "ok"} => Closed(run.lockfile, run.groups, visited)
    BY <2>1, <2>2 DEF Walked, Closed, Packages
  <2>4. QED BY <2>1, <2>2, <2>3 DEF AllFetched, FetchesSelected
<1>2. QED BY <1>1, LockInvHolds, PTL

\* An install from a lockfile that succeeds leaves every package of it imported from its
\* own tarball, and, unless a link dangled at its start, the links of each package and of
\* the root as the lockfile says.
THEOREM InstallsAsLocked == ASSUME Consistent PROVE AddSpec => []TreeAsLocked
<1>1. LockInv => TreeAsLocked
  <2> SUFFICES ASSUME LockInv, phase = "ok", run.command = "install" PROVE TreeAsLocked
    BY DEF TreeAsLocked
  <2>1. AllInstalled /\ LinksSound
    BY DEF LockInv
  <2>2. \A p \in DOMAIN Packages : Holds(p)
    BY <2>1 DEF AllInstalled
  <2>3. run.sound => RootsLinked /\ \A p \in DOMAIN Packages : LaidOut(p)
    BY <2>1 DEF LinksSound
  <2>4. QED BY <2>2, <2>3 DEF TreeAsLocked, RootsLinked, LaidOut
<1>2. QED BY <1>1, LockInvHolds, PTL

\* An install that ends well, and met no link that dangles, leaves none, if its lockfile has
\* the packages that its links lead to.
THEOREM EndsSound == ASSUME Consistent PROVE AddSpec => []SoundStaysSound
<1>1. LockInv => SoundStaysSound
  <2> SUFFICES ASSUME LockInv, phase = "ok", run.command = "install", run.sound, Whole,
                      NEW d \in DOMAIN link, NEW n \in Names, NEW t \in link[d][n]
               PROVE  Leads(t)
    BY DEF SoundStaysSound, LinksLead
  <2>1. AllInstalled /\ LinksSound /\ DOMAIN link = Dirs \cup {Root}
    BY DEF LockInv, TypeOK
  <2>2. ASSUME t \in Direct \cup UNION {Layout(p) : p \in DOMAIN Packages} PROVE Leads(t)
    <3>1. PICK q \in DOMAIN Packages : t = [dir |-> to_virtual_store_name(q), name |-> q.name]
      BY <2>2 DEF Whole
    <3>2. Holds(q)
      BY <2>1 DEF AllInstalled
    <3>3. t.dir.name = q.name
      BY <3>1 DEF to_virtual_store_name
    <3>4. QED BY <3>1, <3>2, <3>3 DEF Holds, Leads
  <2>3. CASE d = Root
    <3>1. t \in Direct
      BY <2>1, <2>3 DEF LinksSound, RootsLinked
    <3>2. QED BY <2>2, <3>1
  <2>4. CASE d \in Dirs
    <3>1. Leads(t) \/ \E p \in DOMAIN Packages : LinkOf(p, d, t)
      BY <2>1, <2>4 DEF LinksSound
    <3>2. QED BY <2>2, <3>1 DEF LinkOf
  <2>5. QED BY <2>1, <2>3, <2>4
<1>2. QED BY <1>1, LockInvHolds, PTL

-----------------------------------------------------------------------------
(* A project whose lockfiles are all generated: what an install may assume. *)

\* Lockfiles that GenerateLockfile has written, under any settings and at any times, agree:
\* it names packages by their release, and takes the integrity of a release from a registry
\* that does not publish it again with another tarball.
LEMMA GeneratedAgree ==
  ASSUME NEW tarball \in [Releases -> Urls],
         \A r, q \in Releases : tarball[r] = tarball[q] => IntegrityOf[r] = IntegrityOf[q],
         \A l \in Lockfiles : Generated(l, tarball, IntegrityOf)
  PROVE  Consistent
<1> DEFINE ReleaseOf(p) == [name |-> p.name, version |-> p.version]
<1>1. ASSUME NEW l \in Lockfiles, NEW p \in DOMAIN l.packages
      PROVE  /\ p = [registry |-> Default, name |-> p.name, version |-> p.version, peers |-> ""]
             /\ ReleaseOf(p) \in Releases /\ l.packages[p].integrity = IntegrityOf[ReleaseOf(p)]
  BY <1>1, SnapshotTypes DEF Generated, DependencyPaths
<1>2. ASSUME NEW p, NEW q, to_virtual_store_name(p) = to_virtual_store_name(q)
      PROVE  p.name = q.name /\ p.version = q.version
  BY <1>2 DEF to_virtual_store_name
<1>3. ASSUME NEW l \in Lockfiles, NEW p \in DOMAIN l.packages, NEW q \in DOMAIN l.packages,
             UrlOf(l, p) = UrlOf(l, q)
      PROVE  IntegrityOf[ReleaseOf(p)] = IntegrityOf[ReleaseOf(q)]
  <2>1. PICK kind \in {"registry", "tarball"} : \A x \in DOMAIN l.packages :
          /\ l.packages[x].resolution = kind
          /\ l.packages[x].tarball = tarball[ReleaseOf(x)]
    BY DEF Generated
  <2>2. CASE kind = "registry"
    BY <1>3, <2>1, <2>2 DEF UrlOf
  <2>3. CASE kind = "tarball"
    <3>1. tarball[ReleaseOf(p)] = tarball[ReleaseOf(q)]
      BY <1>3, <2>1, <2>3 DEF UrlOf
    <3>2. QED BY <1>1, <3>1
  <2>4. QED BY <2>1, <2>2, <2>3
<1>4. ASSUME NEW l \in Lockfiles, NEW m \in Lockfiles,
             NEW p \in DOMAIN l.packages, NEW q \in DOMAIN m.packages,
             to_virtual_store_name(p) = to_virtual_store_name(q)
      PROVE  l.packages[p].integrity = m.packages[q].integrity
  <2>1. ReleaseOf(p) = ReleaseOf(q)
    BY <1>2, <1>4
  <2>2. l.packages[p].integrity = IntegrityOf[ReleaseOf(p)]
    BY <1>1
  <2>3. m.packages[q].integrity = IntegrityOf[ReleaseOf(q)]
    BY <1>1
  <2>4. QED BY <2>1, <2>2, <2>3
<1>5. ASSUME NEW l \in Lockfiles, NEW p \in DOMAIN l.packages, NEW q \in DOMAIN l.packages
      PROVE  /\ UrlOf(l, p) = UrlOf(l, q) => l.packages[p].integrity = l.packages[q].integrity
             /\ to_virtual_store_name(p) = to_virtual_store_name(q) => p = q
  <2>1. ASSUME UrlOf(l, p) = UrlOf(l, q) PROVE l.packages[p].integrity = l.packages[q].integrity
    <3>1. IntegrityOf[ReleaseOf(p)] = IntegrityOf[ReleaseOf(q)]
      BY <1>3, <2>1
    <3>2. /\ l.packages[p].integrity = IntegrityOf[ReleaseOf(p)]
          /\ l.packages[q].integrity = IntegrityOf[ReleaseOf(q)]
      BY <1>1
    <3>3. QED BY <3>1, <3>2
  <2>2. /\ p = [registry |-> Default, name |-> p.name, version |-> p.version, peers |-> ""]
        /\ q = [registry |-> Default, name |-> q.name, version |-> q.version, peers |-> ""]
    BY <1>1
  <2>3. ASSUME to_virtual_store_name(p) = to_virtual_store_name(q) PROVE p = q
    <3>1. p.name = q.name /\ p.version = q.version
      BY <1>2, <2>3
    <3>2. QED BY <2>2, <3>1
  <2>4. QED BY <2>1, <2>3
<1>6. QED BY <1>4, <1>5 DEF Consistent

\* They also have every package that their links lead to.
LEMMA GeneratedWhole ==
  ASSUME NEW tarball, \A l \in Lockfiles : Generated(l, tarball, IntegrityOf), TypeOK, phase # "idle"
  PROVE  Whole
<1>1. run.lockfile \in Lockfiles /\ run.groups \subseteq Groups
  <2>1. PICK flags \in CommandLines : run \in Runs(flags)
    BY DEF TypeOK
  <2>2. run.lockfile \in Lockfiles /\ run.groups = groups_of(flags)
    BY <2>1 DEF Runs
  <2>3. QED BY <2>2 DEF groups_of, install_groups, fetch_groups
<1>2. ASSUME NEW t \in Direct
      PROVE  \E q \in DOMAIN Packages : t = [dir |-> to_virtual_store_name(q), name |-> q.name]
  <2>1. PICK project \in run.lockfile.projects :
          \E s \in dependencies_by_groups(project, run.groups) : t = [dir |-> s, name |-> s.name]
    BY DEF Direct
  <2>2. PICK g \in Groups : \E s \in project[g] : t = [dir |-> s, name |-> s.name]
    BY <1>1, <2>1 DEF dependencies_by_groups
  <2>3. PICK s \in project[g] : t = [dir |-> s, name |-> s.name]
    BY <2>2
  <2>4. project[g] \subseteq {to_virtual_store_name(q) : q \in DOMAIN Packages}
    BY <1>1, <2>1 DEF Generated, Packages
  <2>5. PICK q \in DOMAIN Packages : s = to_virtual_store_name(q)
    BY <2>3, <2>4
  <2>6. s.name = q.name
    BY <2>5 DEF to_virtual_store_name
  <2>7. QED BY <2>3, <2>5, <2>6
<1>3. ASSUME NEW p \in DOMAIN Packages, NEW t \in Layout(p)
      PROVE  \E q \in DOMAIN Packages : t = [dir |-> to_virtual_store_name(q), name |-> q.name]
  <2>1. PICK d \in Packages[p].dependencies :
          t = [dir |-> IF d.kind = "path" THEN to_virtual_store_name(d.to)
                       ELSE [name |-> d.name, version |-> d.to.version, peers |-> d.to.peers],
               name |-> d.name]
    BY DEF Layout
  <2>2. d.kind = "version" /\ d.to \in DOMAIN Packages /\ d.to.name = d.name
    <3>1. Generated(run.lockfile, tarball, IntegrityOf)
      BY <1>1
    <3>2. PICK kind \in {"registry", "tarball"} : \A x \in DOMAIN Packages :
            \A e \in Packages[x].dependencies :
              e.kind = "version" /\ e.to \in DOMAIN Packages /\ e.to.name = e.name
      BY <3>1 DEF Generated, Packages
    <3>3. QED BY <3>2
  <2>3. t = [dir |-> to_virtual_store_name(d.to), name |-> d.to.name]
    BY <2>1, <2>2 DEF to_virtual_store_name
  <2>4. QED BY <2>2, <2>3
<1>4. QED BY <1>2, <1>3 DEF Whole

\* A project that has only ever had generated lockfiles needs no other assumption: installs
\* and fetches leave what is locked, and an install that met no dangling link leaves every
\* dependency linked to a package that is there.
THEOREM GeneratedInstalls ==
  ASSUME NEW tarball \in [Releases -> Urls],
         \A r, q \in Releases : tarball[r] = tarball[q] => IntegrityOf[r] = IntegrityOf[q],
         \A l \in Lockfiles : Generated(l, tarball, IntegrityOf)
  PROVE  AddSpec =>
           [](/\ TreeAsLocked /\ FetchesSelected
              /\ phase = "ok" /\ run.command = "install" /\ run.sound => LinksLead /\ DependenciesLinked)
<1>1. Consistent
  BY GeneratedAgree
<1>2. TypeOK /\ TreeAsLocked /\ SoundStaysSound =>
        (phase = "ok" /\ run.command = "install" /\ run.sound => LinksLead /\ DependenciesLinked)
  <2> SUFFICES ASSUME TypeOK, TreeAsLocked, SoundStaysSound,
                      phase = "ok", run.command = "install", run.sound
               PROVE  LinksLead /\ DependenciesLinked
    OBVIOUS
  <2>1. Whole
    BY GeneratedWhole
  <2>2. LinksLead
    BY <2>1 DEF SoundStaysSound
  <2>3. ASSUME NEW p \in DOMAIN Packages, NEW t \in Layout(p)
        PROVE  \E s \in link[to_virtual_store_name(p)][t.name] : Leads(s)
    <3>1. link[to_virtual_store_name(p)][t.name] = {t}
      BY <2>3 DEF TreeAsLocked
    <3>2. PICK q \in DOMAIN Packages : t = [dir |-> to_virtual_store_name(q), name |-> q.name]
      BY <2>1, <2>3 DEF Whole
    <3>3. Holds(q) /\ t.dir = to_virtual_store_name(q) /\ t.name = t.dir.name
      BY <3>2 DEF TreeAsLocked, to_virtual_store_name
    <3>4. QED BY <3>1, <3>3 DEF Holds, Leads
  <2>4. QED BY <2>2, <2>3 DEF DependenciesLinked
<1>3. LockInv => TypeOK
  BY DEF LockInv
<1>4. QED BY <1>1, <1>2, <1>3, LockInvHolds, InstallsAsLocked, FetchTakesTheClosure, EndsSound, PTL

-----------------------------------------------------------------------------
(* The types, for lockfiles that agree on nothing: Consistent is for what   *)
(* an install means, not for where it can go.                               *)

\* fetch selects from the packages of its lockfile: only they get a future.
LockTypes == TypeOK /\ (phase = "collect" => visited \subseteq DOMAIN Packages)

LinksType == [Dirs \cup {Root} -> [Names -> SUBSET Targets]]

LEMMA StoppedType ==
  ASSUME LockTypes, Stop, UNCHANGED <<store, virtual, content>>, link' \in LinksType
  PROVE  LockTypes'
<1>1. /\ phase' = "idle" /\ run' = NoRun /\ Futures({}) /\ pending' = {} /\ visited' = {}
  BY DEF Stop
<1>2. QED BY <1>1, FuturesType DEF LockTypes, TypeOK, LinksType

LEMMA StoppedLinksStay ==
  ASSUME LockTypes, Stop, UNCHANGED disk
  PROVE  LockTypes'
BY StoppedType DEF disk, LockTypes, TypeOK, LinksType

\* A future goes on: what else may change stays in its type.
LEMMA SuspendedType ==
  ASSUME LockTypes, NEW p \in Paths, pc[p] # "absent", NEW s \in States, Suspend(p, s),
         UNCHANGED <<run, phase, walk>>, store' \in SUBSET Integrities,
         virtual' \in [Dirs -> {"absent", "partial", "full"}],
         content' \in [Dirs -> SUBSET Integrities], link' \in LinksType,
         cache' \in [Tarballs -> {"vacant", "in_progress", "available"}],
         files' \in [Tarballs -> SUBSET Integrities]
  PROVE  LockTypes'
<1>1. /\ TypeOK /\ pc \in [Paths -> States] /\ phase = "packages" /\ p \in DOMAIN Packages
  BY DEF LockTypes, TypeOK
<1>2. pc' \in [Paths -> States] /\ \A q \in Paths : pc'[q] = IF q = p THEN s ELSE pc[q]
  BY <1>1 DEF Suspend
<1>3. /\ run' = run /\ phase' = phase /\ pending' = pending /\ visited' = visited
      /\ Packages' = Packages
  BY DEF walk, Packages
<1>4. QED BY <1>1, <1>2, <1>3 DEF LockTypes, TypeOK, LinksType

LEMMA StartTypes == ASSUME LockTypes, Start PROVE LockTypes'
<1>1. TypeOK /\ UNCHANGED disk
  BY DEF LockTypes, Start, StartInstall, StartFetch
<1>2. CASE Stop
  BY <1>1, <1>2, StoppedLinksStay
<1>3. ASSUME ~Stop, StartInstall PROVE LockTypes'
  <2>1. PICK r \in UNION {Runs(flags) : flags \in CommandLines} :
          /\ run' = r /\ phase' = "packages" /\ Futures(DOMAIN r.lockfile.packages)
          /\ pending' = {} /\ visited' = {}
    BY <1>3 DEF StartInstall
  <2>2. r.lockfile \in Lockfiles
    BY DEF Runs
  <2>3. Packages' = r.lockfile.packages /\ DOMAIN r.lockfile.packages \in SUBSET Paths
    BY <2>1, <2>2 DEF Packages, Paths
  <2>4. QED BY <1>1, <2>1, <2>3, FuturesType DEF LockTypes, TypeOK, disk
<1>4. ASSUME ~Stop, StartFetch PROVE LockTypes'
  <2>1. PICK r \in UNION {Runs(flags) : flags \in CommandLines} :
          /\ run' = r /\ phase' = "collect" /\ Futures({})
          /\ pending' \in Picks(RootPaths(r.lockfile, r.groups)) /\ visited' = {}
    BY <1>4 DEF StartFetch
  <2>2. pending' \subseteq DependencyPaths
    BY <2>1, PickIs, RootPathsType DEF Runs
  <2>3. QED BY <1>1, <2>1, <2>2, FuturesType DEF LockTypes, TypeOK, disk
<1>5. QED BY <1>2, <1>3, <1>4 DEF Start

LEMMA CollectTypes == ASSUME LockTypes, Collect PROVE LockTypes'
<1>1. TypeOK /\ UNCHANGED disk /\ phase = "collect" /\ visited \subseteq DOMAIN Packages
  BY DEF LockTypes, Collect
<1>2. CASE Stop
  BY <1>1, <1>2, StoppedLinksStay
<1>3. CASE ~Stop
  <2> PICK p \in pending :
          /\ ~Uncollectable(run.lockfile, p)
          /\ visited' = visited \cup {p}
          /\ \E children \in Picks(Children(run.lockfile, p)) :
               pending' = (pending \cup children) \ visited'
          /\ UNCHANGED <<run, phase, pc, memory>>
    BY <1>3 DEF Collect
  <2>1. PICK children \in Picks(Children(run.lockfile, p)) :
          pending' = (pending \cup children) \ visited'
    OBVIOUS
  <2>2. /\ run.lockfile \in Lockfiles /\ p \in DOMAIN Packages /\ p \in Paths
    BY <1>1, RunTypes, SnapshotTypes DEF Uncollectable, Packages
  <2>3. children \subseteq DependencyPaths
    BY <2>2, PickIs, ChildrenType DEF Packages
  <2>4. Packages' = Packages
    BY DEF Packages
  <2>5. pending' \subseteq DependencyPaths /\ visited' \subseteq Paths /\ visited' \subseteq DOMAIN Packages
    BY <1>1, <2>1, <2>2, <2>3 DEF TypeOK
  <2>6. QED BY <1>1, <2>1, <2>4, <2>5 DEF LockTypes, TypeOK, disk, memory
<1>4. QED BY <1>2, <1>3

LEMMA CollectDoneTypes == ASSUME LockTypes, CollectDone PROVE LockTypes'
<1>1. /\ TypeOK /\ phase = "collect" /\ phase' = "packages" /\ UNCHANGED <<disk, run, walk>>
      /\ visited \subseteq DOMAIN Packages /\ Packages' = Packages
      /\ Futures({p \in visited : Selectable(run.lockfile, p)})
  BY DEF LockTypes, CollectDone, Packages
<1>2. {p \in visited : Selectable(run.lockfile, p)} \in SUBSET Paths
  BY <1>1 DEF TypeOK
<1>3. \A p \in Paths : pc'[p] # "absent" => p \in DOMAIN Packages
  BY <1>1, <1>2, FuturesType
<1>4. QED BY <1>1, <1>2, <1>3, FuturesType DEF LockTypes, TypeOK, disk, walk

LEMMA JoinedTypes == ASSUME LockTypes, FetchDone \/ SyncRoots PROVE LockTypes'
<1>1. TypeOK /\ phase = "packages" /\ link \in LinksType
  BY DEF LockTypes, TypeOK, LinksType, FetchDone, SyncRoots, Joined
<1>2. CASE FetchDone
  <2>1. CASE Stop
    BY <1>2, <2>1, StoppedLinksStay DEF FetchDone
  <2>2. CASE ~Stop
    <3>1. phase' = "ok" /\ Futures({}) /\ UNCHANGED <<run, walk, disk>>
      BY <1>2, <2>2 DEF FetchDone
    <3>2. QED BY <1>1, <3>1, FuturesType DEF LockTypes, TypeOK, disk, walk
  <2>3. QED BY <2>1, <2>2
<1>3. CASE SyncRoots
  <2>1. link' \in LinksType
    <3>1. Without(Names) \in LinksType
      BY <1>1, WithoutType DEF LinksType
    <3>2. QED BY <1>1, <1>3, <3>1 DEF SyncRoots
  <2>2. CASE Stop
    BY <1>3, <2>1, <2>2, StoppedType DEF SyncRoots
  <2>3. CASE ~Stop
    <3>1. /\ phase' = "roots" /\ Futures({}) /\ UNCHANGED <<run, walk, store, virtual, content>>
      BY <1>3, <2>3 DEF SyncRoots
    <3>2. QED BY <1>1, <2>1, <3>1, FuturesType DEF LockTypes, TypeOK, walk, LinksType
  <2>4. QED BY <2>2, <2>3
<1>4. QED BY <1>2, <1>3

LEMMA LinkRootsTypes == ASSUME LockTypes, LinkRoots PROVE LockTypes'
<1>1. /\ TypeOK /\ phase = "roots" /\ link \in LinksType /\ phase' = "ok"
      /\ UNCHANGED <<store, virtual, content, run, walk, pc, memory>>
  BY DEF LockTypes, LinkRoots, TypeOK, LinksType
<1>2. link' \in LinksType
  BY <1>1, DirectType, LinkedIs DEF LinkRoots, LinksType
<1>3. Packages' = Packages
  BY <1>1 DEF Packages
<1>4. QED BY <1>1, <1>2, <1>3 DEF LockTypes, TypeOK, walk, memory, LinksType

LEMMA KillTypes == ASSUME LockTypes, Kill PROVE LockTypes'
<1>1. TypeOK /\ Stop /\ UNCHANGED <<store, virtual, content>> /\ link \in LinksType
  BY DEF LockTypes, Kill, TypeOK, LinksType
<1>2. ASSUME NEW p \in Paths, pc[p] = "link", NEW some \in SUBSET Layout(p), NEW gone,
             link' \in Linked(to_virtual_store_name(p), some, gone)
      PROVE  link' \in LinksType
  <2>1. phase # "idle" /\ p \in DOMAIN Packages /\ to_virtual_store_name(p) \in Dirs
    BY <1>1, <1>2, FutureTypes
  <2>2. some \in SUBSET Targets
    BY <1>1, <2>1, LayoutType
  <2>3. QED BY <1>1, <1>2, <2>1, <2>2, LinkedIs DEF LinksType
<1>3. ASSUME NEW names, link' = Without(names) PROVE link' \in LinksType
  BY <1>1, <1>3, WithoutType DEF LinksType
<1>4. ASSUME phase = "roots", NEW some \in SUBSET Direct, NEW gone, link' \in Linked(Root, some, gone)
      PROVE  link' \in LinksType
  <2>1. some \in SUBSET Targets
    BY <1>1, <1>4, DirectType
  <2>2. QED BY <1>1, <1>4, <2>1, LinkedIs DEF LinksType
<1>5. link' \in LinksType
  BY <1>1, <1>2, <1>3, <1>4 DEF Kill
<1>6. QED BY <1>1, <1>5, StoppedType

LEMMA StepTypes == ASSUME LockTypes, NEW p \in Paths, Step(p) PROVE LockTypes'
<1>1. /\ TypeOK /\ link \in LinksType /\ pc[p] # "absent" /\ store \in SUBSET Integrities
      /\ virtual \in [Dirs -> {"absent", "partial", "full"}]
      /\ content \in [Dirs -> SUBSET Integrities]
      /\ cache \in [Tarballs -> {"vacant", "in_progress", "available"}]
      /\ files \in [Tarballs -> SUBSET Integrities]
  BY DEF LockTypes, TypeOK, LinksType, Step, Begin, Panics, Misses, Downloaded, DownloadFails,
         Woken, Import, Imported, ImportFails, CreateSymlinkLayout
<1>2. /\ phase # "idle" /\ p \in DOMAIN Packages /\ to_virtual_store_name(p) \in Dirs
      /\ Url(p) \in Tarballs /\ Packages[p].integrity \in SUBSET Integrities
  BY <1>1, FutureTypes
<1> DEFINE d == to_virtual_store_name(p)
<1>3. CASE Stop /\ UNCHANGED disk
  BY <1>3, StoppedLinksStay
<1>4. CASE Fails(p) /\ UNCHANGED <<disk, memory>>
  BY <1>1, <1>4, SuspendedType DEF Fails, disk, memory, States
<1>5. CASE Begin(p)
  <2>1. PICK s \in States : Suspend(p, s) /\ UNCHANGED <<disk, run, phase, walk>>
    BY <1>5 DEF Begin, Publish, States
  <2>2. /\ cache' \in [Tarballs -> {"vacant", "in_progress", "available"}]
        /\ files' \in [Tarballs -> SUBSET Integrities]
    BY <1>1, <1>2, <1>5 DEF Begin, Publish, memory
  <2>3. QED BY <1>1, <2>1, <2>2, SuspendedType DEF disk
<1>6. CASE Downloaded(p)
  <2>1. /\ store' \in SUBSET Integrities /\ UNCHANGED <<virtual, content, link, run, phase, walk>>
        /\ cache' \in [Tarballs -> {"vacant", "in_progress", "available"}]
        /\ files' \in [Tarballs -> SUBSET Integrities] /\ Suspend(p, "files")
    BY <1>1, <1>2, <1>6 DEF Downloaded, Publish
  <2>2. QED BY <1>1, <2>1, SuspendedType DEF States
<1>7. CASE Woken(p)
  BY <1>1, <1>7, SuspendedType DEF Woken, disk, memory, States
<1>8. CASE Import(p)
  <2>1. PICK s \in {"link", "import"} :
          /\ Suspend(p, s) /\ UNCHANGED <<store, link, run, phase, walk, memory>>
          /\ \/ UNCHANGED <<virtual, content>>
             \/ /\ virtual' = [virtual EXCEPT ![d] = "partial"]
                /\ content' = [content EXCEPT ![d] = files[Url(p)]]
    BY <1>8 DEF Import
  <2>2. /\ virtual' \in [Dirs -> {"absent", "partial", "full"}]
        /\ content' \in [Dirs -> SUBSET Integrities]
    BY <1>1, <1>2, <2>1
  <2>3. QED BY <1>1, <2>1, <2>2, SuspendedType DEF memory, States
<1>9. CASE Imported(p)
  <2>1. /\ virtual' \in [Dirs -> {"absent", "partial", "full"}] /\ Suspend(p, "link")
        /\ UNCHANGED <<store, content, link, run, phase, walk, memory>>
    BY <1>1, <1>2, <1>9 DEF Imported
  <2>2. QED BY <1>1, <2>1, SuspendedType DEF memory, States
<1>10. CASE CreateSymlinkLayout(p)
  <2>1. link' \in LinksType
    BY <1>1, <1>2, <1>10, LayoutType, LinkedIs DEF CreateSymlinkLayout, LinksType
  <2>2. QED BY <1>1, <1>10, <2>1, SuspendedType DEF CreateSymlinkLayout, memory, States
<1>11. QED BY <1>3, <1>4, <1>5, <1>6, <1>7, <1>8, <1>9, <1>10
  DEF Step, Panics, Misses, DownloadFails, ImportFails, Err

LEMMA NextTypes == ASSUME LockTypes, Next PROVE LockTypes'
<1>1. CASE DeleteModules
  <2>1. NoLinks \in [Names -> SUBSET Targets]
    BY DEF NoLinks
  <2>2. /\ virtual' \in [Dirs -> {"absent", "partial", "full"}] /\ store' = store
        /\ content' \in [Dirs -> SUBSET Integrities] /\ link' \in LinksType
        /\ phase' = "idle" /\ run' = NoRun /\ Futures({}) /\ pending' = {} /\ visited' = {}
    BY <1>1, <2>1 DEF DeleteModules, LinksType, Stop
  <2>3. QED BY <2>2, FuturesType DEF LockTypes, TypeOK, LinksType
<1>2. QED BY <1>1, StartTypes, CollectTypes, CollectDoneTypes, JoinedTypes, LinkRootsTypes,
             KillTypes, StepTypes DEF Next, Command

\* Between two commands nothing is left of `store add` in memory.
Blank ==
  /\ request = [e \in Asked |-> "none"] /\ cell = [n \in Names |-> {}]
  /\ arguments = {} /\ stack = <<>> /\ current = {} /\ resolved = {}

MemoryTypes ==
  /\ arguments \in {{}} \cup Arguments /\ cell \in [Names -> SUBSET AllMetadata]
  /\ adding = "no" => Blank

LEMMA AddStopsTypes ==
  ASSUME AddStops \/ (adding' = "no" /\ arguments' = {} /\ Requests({}) /\ NewMemory)
  PROVE  MemoryTypes'
<1>1. Blank'
  BY DEF AddStops, Requests, NewMemory, Blank
<1>2. QED BY <1>1 DEF Blank, MemoryTypes

LEMMA MemoryStep ==
  ASSUME MemoryTypes, AddNext PROVE MemoryTypes'
<1>1. CASE StartAdd
  BY <1>1 DEF StartAdd, NewMemory, MemoryTypes
<1>2. CASE AddStops \/ OtherCommand
  BY <1>2, AddStopsTypes DEF OtherCommand
<1>3. ASSUME ~AddStops, NEW e \in Asked, NEW m \in AllMetadata, Resolve(e, m), adding = "metadata"
      PROVE  MemoryTypes'
  BY <1>3 DEF Resolve, MemoryTypes
<1>4. ASSUME ~AddStops, NEW e \in Asked, Ask(e) \/ Cached(e) \/ Answered(e) \/ Unanswered(e)
      PROVE  MemoryTypes'
  <2>1. e.name \in Names
    BY AskedType, SpecFields
  <2>2. cell[e.name] \subseteq AllMetadata /\ Answers[e.name] \subseteq AllMetadata
    BY <2>1, AddAssumption DEF MemoryTypes
  <2>3. QED BY <1>3, <1>4, <2>2 DEF Ask, Cached, Answered, Unanswered, MemoryTypes
<1>5. ASSUME ~AddStops, Gathered \/ NextPackage \/ AddDone PROVE MemoryTypes'
  BY <1>5 DEF Gathered, NextPackage, AddDone, Store, MemoryTypes, loops
<1>6. ASSUME ~AddStops, NEW r \in Releases, Tarball(r) PROVE MemoryTypes'
  BY <1>6 DEF Tarball, MemoryTypes
<1>7. (\E r \in Releases : TarballFails(r)) \/ KillAdd => AddStops
  BY DEF TarballFails, KillAdd
<1>8. QED BY <1>1, <1>2, <1>4, <1>5, <1>6, <1>7 DEF AddNext, AddStep

\* The variables of the commands stay in their types, whatever the lockfiles, the registry
\* and the disk are like: `arguments` are some that a user gave, and only what its lockfile
\* has as a package gets a future.
THEOREM AddTypesHold == AddSpec => []AddTypeOK
<1> DEFINE I == LockTypes /\ MemoryTypes
<1>1. AddInit => I
  <2> SUFFICES ASSUME AddInit PROVE I
    OBVIOUS
  <2>1. NoLinks \in [Names -> SUBSET Targets]
    BY DEF NoLinks
  <2>2. LockTypes
    BY <2>1 DEF AddInit, Init, LockTypes, TypeOK, States
  <2>3. MemoryTypes
    BY DEF AddInit, MemoryTypes, Blank
  <2>4. QED BY <2>2, <2>3
<1>2. I /\ [AddNext]_allVars => I'
  <2> SUFFICES ASSUME I, [AddNext]_allVars PROVE I'
    OBVIOUS
  <2>1. ASSUME UNCHANGED vars PROVE LockTypes'
    BY <2>1 DEF LockTypes, TypeOK, vars, disk, walk, memory, Packages
  <2>2. ASSUME NEW r \in Releases, Tarball(r) PROVE LockTypes'
    <3>1. /\ store' \in SUBSET Integrities
          /\ UNCHANGED <<virtual, content, link, run, phase, walk, pc, memory>>
      BY <2>2, AddAssumption DEF LockTypes, TypeOK, Tarball
    <3>2. QED BY <3>1 DEF LockTypes, TypeOK, walk, memory, Packages
  <2>3. CASE StartAdd
    BY <2>3, StoppedLinksStay, MemoryStep DEF StartAdd, AddNext
  <2>4. CASE OtherCommand
    BY <2>4, NextTypes, MemoryStep DEF OtherCommand, AddNext
  <2>5. CASE AddStep \/ KillAdd
    <3>1. LockTypes'
      BY <2>1, <2>2, <2>5 DEF AddStep, Ask, Cached, Answered, Unanswered, Gathered, NextPackage,
         AddDone, TarballFails, KillAdd
    <3>2. QED BY <2>5, <3>1, MemoryStep DEF AddNext
  <2>6. CASE UNCHANGED allVars
    BY <2>1, <2>6 DEF allVars, addVars, loops, MemoryTypes, Blank
  <2>7. QED BY <2>3, <2>4, <2>5, <2>6 DEF AddNext
<1>3. I /\ AddInv => AddTypeOK
  <2> SUFFICES ASSUME I, AddInv PROVE AddTypeOK
    OBVIOUS
  <2>1. CASE adding = "no"
    BY <2>1 DEF AddTypeOK, LockTypes, MemoryTypes, Blank
  <2>2. CASE adding # "no"
    BY <2>2 DEF AddTypeOK, AddInv, AddTypes, LockTypes, MemoryTypes
  <2>3. QED BY <2>1, <2>2
<1>4. QED BY <1>1, <1>2, <1>3, AddInvHolds, PTL DEF AddSpec

-----------------------------------------------------------------------------
(* `store add` implements DependencyClosure.  Asked and Answered by one     *)
(* request of a name are Learn, a turn of a loop is Take, and the rest of   *)
(* the recursion is invisible.                                              *)

LEMMA MemoryTypesHold == AddSpec => []MemoryTypes
<1>1. AddInit => MemoryTypes
  BY DEF AddInit, MemoryTypes, Blank
<1>2. MemoryTypes /\ [AddNext]_allVars => MemoryTypes'
  BY MemoryStep DEF allVars, addVars, loops, MemoryTypes, Blank
<1>3. QED BY <1>1, <1>2, PTL DEF AddSpec

\* The metadata of a cell make one release of an edge.
LEMMA ReleaseIsOne ==
  ASSUME AddTypes, CellsSetOnce, NEW e \in Asked, NEW r \in Release(e)
  PROVE  Release(e) = {r}
<1>1. e.name \in Names /\ e.spec \in Specifiers
  BY AskedType, SpecFields
<1>2. PICK m \in cell[e.name] : \E v \in version_by_specifier(m, e.spec) : r = [name |-> e.name, version |-> v]
  BY DEF Release
<1>3. \A k \in cell[e.name] : k = m
  BY <1>1, <1>2 DEF CellsSetOnce
<1>4. m \in Metadata(e.name)
  BY <1>1, <1>2 DEF AddTypes
<1>5. \A v, w \in version_by_specifier(m, e.spec) : v = w
  BY <1>1, <1>4, SelectsOne
<1>6. QED BY <1>2, <1>3, <1>5 DEF Release

LEMMA BlankMaps ==
  ASSUME adding' = "no", arguments' = {}, NewMemory
  PROVE  Closure!Stop
<1>1. \A e \in Asked : Release(e)' = {}
  BY AskedType, SpecFields DEF NewMemory, Release
<1>2. QED BY <1>1 DEF Closure!Stop, Closure!Nothing, NewMemory

LEMMA StartMaps == ASSUME StartAdd PROVE Closure!Begin
<1>1. adding \in {"no", "ok"} /\ adding' = "metadata" /\ arguments' \in Arguments /\ NewMemory
  BY DEF StartAdd, AddEnded
<1>2. \A e \in Asked : Release(e)' = {}
  BY <1>1, AskedType, SpecFields DEF NewMemory, Release
<1>3. QED BY <1>1, <1>2 DEF Closure!Begin, Closure!Nothing, NewMemory

\* The first answer for a name settles all its edges.
LEMMA AnsweredMaps ==
  ASSUME AddInv, AddInv', adding = "metadata", NEW e \in Asked, request[e] = "fetching",
         NEW m \in Answers[e.name], Resolve(e, m), e.spec.kind # "unparsable"
  PROVE  Closure!Learn
<1>1. AddTypes /\ CellsSetOnce /\ AddTypes' /\ CellsSetOnce'
  BY DEF AddInv, Resolve
<1>2. e.name \in Names /\ cell[e.name] = {} /\ DOMAIN cell = Names
  BY <1>1, AskedType, SpecFields DEF CellsSetOnce, AddTypes
<1>3. cell' = [cell EXCEPT ![e.name] = {m}] /\ UNCHANGED <<adding, arguments, resolved>>
  BY DEF Resolve, loops
<1>4. ASSUME NEW x \in Asked
      PROVE  /\ Release(x)' \subseteq Releases
             /\ \/ Release(x)' = Release(x)
                \/ Release(x) = {} /\ \E r \in Candidates[x] : Release(x)' = {r}
  <2>1. x.name \in Names /\ Release(x)' \subseteq Releases
    <3>1. x.name \in Names /\ x.spec \in Specifiers
      BY AskedType, SpecFields
    <3>2. ASSUME NEW k \in cell'[x.name], NEW v \in version_by_specifier(k, x.spec)
          PROVE  [name |-> x.name, version |-> v] \in Releases
      <4>1. k.versions \subseteq VersionsOf(x.name) /\ v \in k.versions
        BY <1>1, <3>1, <3>2, SelectsPublished DEF AddTypes, Metadata
      <4>2. QED BY <4>1 DEF VersionsOf
    <3>3. QED BY <3>1, <3>2 DEF Release
  <2>2. CASE x.name # e.name
    BY <1>2, <1>3, <2>1, <2>2, ReleaseStays
  <2>3. CASE x.name = e.name /\ Release(x)' = {}
    BY <1>2, <2>3, UnsetSelectsNothing
  <2>4. CASE x.name = e.name /\ Release(x)' # {}
    <3>1. PICK r \in Release(x)' : TRUE
      BY <2>4
    <3>2. cell'[x.name] = {m} /\ cell[x.name] = {}
      BY <1>2, <1>3, <2>4
    <3>3. r \in Candidates[x]
      BY <2>4, <3>1, <3>2 DEF Release, Candidates
    <3>4. \A v, w \in version_by_specifier(m, x.spec) : v = w
      <4>1. m \in Metadata(x.name) /\ x.spec \in Specifiers
        BY <1>2, <2>4, AddAssumption, AskedType, SpecFields
      <4>2. QED BY <2>1, <4>1, SelectsOne
    <3>5. Release(x)' = {r}
      BY <3>1, <3>2, <3>4 DEF Release
    <3>6. QED BY <2>1, <3>2, <3>3, <3>5, UnsetSelectsNothing
  <2>5. QED BY <2>2, <2>3, <2>4
<1>5. QED BY <1>3, <1>4 DEF Closure!Learn

LEMMA WantedIsNeeded == ASSUME resolved \subseteq Releases PROVE Closure!Needed = Wanted
BY DEF Closure!Needed, Wanted

LEMMA NextPackageMaps ==
  ASSUME AddInv, NextPackage PROVE UNCHANGED Closure!vars \/ \E r \in Releases : Closure!Take(r)
<1>1. AddTypes /\ CellsSetOnce /\ Position /\ Reached
  BY DEF AddInv, NextPackage
<1>2. /\ adding = "next" /\ stack \in Seq(SUBSET Releases) /\ stack # <<>>
      /\ UNCHANGED <<arguments, cell>>
  BY <1>1 DEF NextPackage, AddTypes
<1>3. [e \in Asked |-> Release(e)]' = [e \in Asked |-> Release(e)]
  BY <1>2 DEF Release
<1>4. CASE UNCHANGED <<adding, resolved>>
  BY <1>2, <1>3, <1>4 DEF Closure!vars
<1>5. CASE ~UNCHANGED <<adding, resolved>>
  <2>1. PICK r \in Head(stack) : resolved' = resolved \cup {r} /\ adding' = "tarball"
    BY <1>5 DEF NextPackage, Store
  <2>2. r \in Releases /\ r \in On(stack)
    BY <1>2, <2>1, PopOn
  <2>3. PICK e \in Wanted : r \in Release(e)
    BY <1>1, <2>2 DEF Reached
  <2>4. e \in Asked
    BY <1>1, DeclaredType DEF Wanted, AddTypes
  <2>5. Release(e) = {r}
    BY <1>1, <2>3, <2>4, ReleaseIsOne
  <2>6. e \in Closure!Needed
    BY <1>1, <2>3, WantedIsNeeded DEF AddTypes
  <2>7. Closure!Take(r)
    BY <1>2, <1>3, <2>1, <2>4, <2>5, <2>6 DEF Closure!Take
  <2>8. QED BY <2>2, <2>7
<1>6. QED BY <1>4, <1>5

LEMMA AddDoneMaps == ASSUME AddInv, AddDone PROVE Closure!Finish
<1>1. AddTypes /\ Position /\ Covered
  BY DEF AddInv, AddDone
<1>2. /\ adding = "next" /\ adding' = "ok" /\ stack = <<>> /\ current = {} /\ On(stack) = {}
      /\ UNCHANGED <<arguments, cell, resolved>>
  BY <1>1 DEF AddDone, loops, Position, On
<1>3. [e \in Asked |-> Release(e)]' = [e \in Asked |-> Release(e)]
  BY <1>2 DEF Release
<1>4. ASSUME NEW e \in Wanted PROVE e \in Asked /\ Release(e) # {} /\ Release(e) \subseteq resolved
  <2>1. e \in Asked
    BY <1>1, DeclaredType DEF Wanted, AddTypes
  <2>2. Found(e)
    BY <1>1, <1>2 DEF Covered, Wanted
  <2>3. QED BY <1>2, <2>1, <2>2 DEF Found
<1>5. Closure!Needed = Wanted
  BY <1>1, WantedIsNeeded DEF AddTypes
<1>6. QED BY <1>2, <1>3, <1>4, <1>5 DEF Closure!Finish

\* Two edges of a name are settled by one answer, the first, and never again; a release is
\* taken when something needs it, and `store add` ends well with all that is needed: every
\* step, of other commands and of failures too, is one of a DependencyClosure.
THEOREM StoreAddIsDependencyClosure == AddSpec => ImplementsDependencyClosure
<1>1. AddInit => Closure!Init
  <2> SUFFICES ASSUME AddInit PROVE Closure!Init
    OBVIOUS
  <2>1. \A e \in Asked : Release(e) = {}
    BY AskedType, SpecFields DEF AddInit, Release
  <2>2. QED BY <2>1 DEF AddInit, Closure!Init, Closure!Nothing
<1>2. AddInv /\ AddInv' /\ MemoryTypes /\ [AddNext]_allVars => [Closure!Next]_(Closure!vars)
  <2> SUFFICES ASSUME AddInv, AddInv', MemoryTypes, [AddNext]_allVars PROVE Closure!Next \/ UNCHANGED Closure!vars
    OBVIOUS
  <2>1. ASSUME UNCHANGED <<arguments, cell, resolved>>,
               \/ UNCHANGED adding
               \/ adding \notin {"no", "ok"} /\ adding' \notin {"no", "ok"}
        PROVE  UNCHANGED Closure!vars
    <3>1. [e \in Asked |-> Release(e)]' = [e \in Asked |-> Release(e)]
      BY <2>1 DEF Release
    <3>2. QED BY <2>1, <3>1 DEF Closure!vars
  <2>2. CASE AddStops \/ OtherCommand
    BY <2>2, BlankMaps DEF AddStops, OtherCommand, Closure!Next
  <2>3. CASE StartAdd
    BY <2>3, StartMaps DEF Closure!Next
  <2>4. ASSUME ~AddStops, NEW e \in Asked, Ask(e) \/ Cached(e) \/ Answered(e) \/ Unanswered(e)
        PROVE  Closure!Next \/ UNCHANGED Closure!vars
    <3>1. CASE Ask(e) \/ Unanswered(e)
      BY <2>1, <3>1 DEF Ask, Unanswered, loops
    <3>2. CASE Cached(e)
      <4>1. PICK m \in cell[e.name] : Resolve(e, m)
        BY <3>2 DEF Cached
      <4>2. adding = "metadata" /\ cell' = [cell EXCEPT ![e.name] = {m}] /\ UNCHANGED <<adding, arguments, resolved>>
        BY <2>4, <3>2, <4>1 DEF Cached, Resolve, loops
      <4>3. cell[e.name] = {m} /\ DOMAIN cell = Names
        BY <3>2, <4>1, AskedType, SpecFields DEF Cached, AddInv, AddTypes, CellsSetOnce
      <4>4. cell' = cell
        BY <4>2, <4>3 DEF MemoryTypes
      <4>5. QED BY <2>1, <4>2, <4>4
    <3>3. CASE Answered(e)
      <4>1. PICK m \in Answers[e.name] : Resolve(e, m)
        BY <3>3 DEF Answered
      <4>2. e.spec.kind # "unparsable"
        BY <2>4, <4>1 DEF Resolve
      <4>3. QED BY <3>3, <4>1, <4>2, AnsweredMaps DEF Answered, Closure!Next
    <3>4. QED BY <2>4, <3>1, <3>2, <3>3
  <2>5. CASE ~AddStops /\ Gathered
    BY <2>1, <2>5 DEF Gathered
  <2>6. CASE NextPackage
    BY <2>6, NextPackageMaps DEF Closure!Next
  <2>7. CASE AddDone
    BY <2>7, AddDoneMaps DEF Closure!Next
  <2>8. ASSUME ~AddStops, NEW r \in Releases, Tarball(r) PROVE UNCHANGED Closure!vars
    BY <2>1, <2>8 DEF Tarball, loops
  <2>9. CASE UNCHANGED allVars
    BY <2>1, <2>9 DEF allVars, addVars, loops
  <2>10. (\E r \in Releases : TarballFails(r)) \/ KillAdd => AddStops
    BY DEF TarballFails, KillAdd
  <2>11. QED BY <2>2, <2>3, <2>4, <2>5, <2>6, <2>7, <2>8, <2>9, <2>10 DEF AddNext, AddStep
<1>3. QED BY <1>1, <1>2, AddInvHolds, MemoryTypesHold, PTL DEF AddSpec, ImplementsDependencyClosure, Closure!Spec
=============================================================================
