----------------------- MODULE GenerateLockfileProofs -----------------------
(***************************************************************************)
(* Theorems about GenerateLockfile for any registry contents, manifests and *)
(* dependency graph, cycles included.                                       *)
(***************************************************************************)
EXTENDS GenerateLockfile, RegistryProofs, SequenceTheorems

-----------------------------------------------------------------------------
(* What the operators return.                                               *)

LEMMA Resolves ==
  ASSUME NEW e \in Deps
  PROVE  /\ resolve_package_version(e) \subseteq Releases
         /\ \A r, q \in resolve_package_version(e) : r = q
<1>1. Served[e.name] \in Metadata(e.name) /\ e.spec \in Specifiers /\ e.name \in Names
  BY GenerateAssumption DEF Deps
<1>2. version_by_specifier(Served[e.name], e.spec) \subseteq VersionsOf(e.name)
  BY <1>1, SelectsPublished DEF Metadata
<1>3. \A v, w \in version_by_specifier(Served[e.name], e.spec) : v = w
  BY <1>1, SelectsOne
<1>4. QED BY <1>2, <1>3 DEF resolve_package_version, VersionsOf

LEMMA DependenciesAreDeps == \A r \in Releases : dependencies(r) \subseteq Deps
  BY RegistryAssumption DEF dependencies

LEMMA MergeType ==
  ASSUME NEW s \in Snapshots, NEW dev \in BOOLEAN, NEW optional \in BOOLEAN
  PROVE  /\ merge_package_flags(s, dev, optional) \in Snapshots
         /\ merge_package_flags(s, dev, optional).dependencies = s.dependencies
  BY DEF merge_package_flags, Snapshots

\* The stack as a set of frames.
Elements(s) == {s[i] : i \in 1..Len(s)}

LEMMA AppendElements ==
  ASSUME NEW s \in Seq(Frames), NEW f \in Frames
  PROVE  /\ Append(s, f) \in Seq(Frames)
         /\ Elements(Append(s, f)) = Elements(s) \cup {f}
<1>1. /\ Append(s, f) \in Seq(Frames)
      /\ Len(Append(s, f)) = Len(s) + 1
      /\ \A i \in 1..Len(s) : Append(s, f)[i] = s[i]
      /\ Append(s, f)[Len(s) + 1] = f
  BY AppendProperties
<1>2. Len(s) \in Nat
  BY LenProperties
<1>3. 1..(Len(s) + 1) = 1..Len(s) \cup {Len(s) + 1}
  BY <1>2
<1>4. QED BY <1>1, <1>2, <1>3 DEF Elements

\* The innermost frame and the frames below it.
LEMMA StackSplit ==
  ASSUME stack \in Seq(Frames), stack # <<>>
  PROVE  /\ Top \in Frames
         /\ Callers \in Seq(Frames)
         /\ Elements(stack) = Elements(Callers) \cup {Top}
<1>1. Len(stack) \in Nat \ {0}
  BY EmptySeq
<1>2. \A i \in 1..Len(stack) : stack[i] \in Frames
  BY ElementOfSeq
<1>3. Top \in Frames
  BY <1>1, <1>2 DEF Top
<1> DEFINE n == Len(stack) - 1
<1>4. n \in Int /\ \A i \in 1..n : stack[i] \in Frames
  BY <1>1, <1>2
<1>5. n \in Nat /\ 1..Len(stack) = 1..n \cup {n + 1} /\ Top = stack[n + 1]
  BY <1>1 DEF Top
<1> HIDE DEF n
<1>6. /\ SubSeq(stack, 1, n) \in Seq(Frames)
      /\ Len(SubSeq(stack, 1, n)) = IF 1 <= n THEN n - 1 + 1 ELSE 0
      /\ \A i \in 1..(n - 1 + 1) : SubSeq(stack, 1, n)[i] = stack[1 + i - 1]
  BY <1>4, SubSeqProperties
<1>7. Callers = SubSeq(stack, 1, n)
  BY DEF Callers, n
<1>8. Len(Callers) = n
  BY <1>5, <1>6, <1>7
<1>9. \A i \in 1..n : Callers[i] = stack[i]
  BY <1>5, <1>6, <1>7
<1>10. QED BY <1>3, <1>5, <1>6, <1>7, <1>8, <1>9 DEF Elements

LEMMA EmptyElements == Elements(<<>>) = {} /\ <<>> \in Seq(Frames)
  BY EmptySeq DEF Elements


\* What a call does: r is in the map, its flags merged or as the call says, and if
\* it was not there, a frame that begins to walk it is on the stack.
Entered(r, dev, optional, callers) ==
  /\ stack' \in Seq(Frames)
  /\ DOMAIN packages' = DOMAIN packages \cup {r}
  /\ \A q \in DOMAIN packages' : packages'[q] \in Snapshots
  /\ \A q \in DOMAIN packages :
       /\ packages'[q].dependencies = packages[q].dependencies
       /\ q # r => packages'[q] = packages[q]
  /\ r \notin DOMAIN packages => packages'[r].dependencies = NoLinks
  /\ packages'[r].dev <=> dev /\ (r \in DOMAIN packages => packages[r].dev)
  /\ packages'[r].optional <=> optional /\ (r \in DOMAIN packages => packages[r].optional)
  /\ Elements(callers) \subseteq Elements(stack')
  /\ \A f \in Elements(stack') : f \in Elements(callers) \/
       (/\ f.package = r /\ r \notin DOMAIN packages
        /\ f.todo = dependencies(r) /\ f.dependencies = NoLinks
        /\ f.dev <=> dev
        /\ f.optional <=> optional)
  /\ r \notin DOMAIN packages => \E f \in Elements(stack') : f.package = r

LEMMA Call ==
  ASSUME TypeOK, NEW r \in Releases, NEW dev \in BOOLEAN, NEW optional \in BOOLEAN,
         NEW callers \in Seq(Frames),
         build_package_snapshot(r, dev, optional, callers)
  PROVE  Entered(r, dev, optional, callers)
<1>1. \A q \in DOMAIN packages : packages[q] \in Snapshots
  BY DEF TypeOK
<1>2. NoLinks \in Links
  BY DEF NoLinks, Links
<1>4. CASE r \in DOMAIN packages
  <2>1. /\ packages' = [packages EXCEPT ![r] = merge_package_flags(packages[r], dev, optional)]
        /\ stack' = callers
    BY <1>4 DEF build_package_snapshot
  <2> DEFINE merged == merge_package_flags(packages[r], dev, optional)
  <2>2. merged \in Snapshots /\ merged.dependencies = packages[r].dependencies
    BY <1>1, <1>4, MergeType
  <2>3. /\ merged.dev <=> packages[r].dev /\ dev
        /\ merged.optional <=> packages[r].optional /\ optional
    BY <1>1, <1>4 DEF merge_package_flags, Snapshots
  <2>4. /\ DOMAIN packages' = DOMAIN packages
        /\ packages'[r] = merged
        /\ \A q \in DOMAIN packages : q # r => packages'[q] = packages[q]
    BY <1>4, <2>1
  <2> HIDE DEF merged
  <2>5. QED BY <1>1, <1>4, <2>1, <2>2, <2>3, <2>4 DEF Entered
<1>5. CASE r \notin DOMAIN packages
  <2> DEFINE new == [dev |-> dev, optional |-> optional, dependencies |-> NoLinks]
             frame == [package |-> r, dev |-> dev, optional |-> optional,
                       todo |-> dependencies(r), dependencies |-> NoLinks]
  <2>1. /\ packages' = [q \in DOMAIN packages \cup {r} |-> IF q = r THEN new ELSE packages[q]]
        /\ stack' = Append(callers, frame)
    BY <1>5 DEF build_package_snapshot
  <2>2. /\ new \in Snapshots /\ (new.dev <=> dev) /\ (new.optional <=> optional)
        /\ new.dependencies = NoLinks
    BY <1>2 DEF Snapshots
  <2>3. frame \in Frames
    BY <1>2, DependenciesAreDeps DEF Frames
  <2>4. /\ frame.package = r /\ frame.todo = dependencies(r) /\ frame.dependencies = NoLinks
        /\ frame.dev <=> dev
        /\ frame.optional <=> optional
    OBVIOUS
  <2> HIDE DEF new, frame
  <2>5. /\ stack' \in Seq(Frames)
        /\ Elements(stack') = Elements(callers) \cup {frame}
    BY <2>1, <2>3, AppendElements
  <2>6. /\ DOMAIN packages' = DOMAIN packages \cup {r}
        /\ packages'[r] = new
        /\ \A q \in DOMAIN packages : packages'[q] = packages[q]
    BY <1>5, <2>1
  <2>7. QED BY <1>1, <1>5, <2>2, <2>4, <2>5, <2>6 DEF Entered
<1>6. QED BY <1>4, <1>5

\* The frame of the innermost package after dependency e has resolved to r.
Walked(e, r) == [Top EXCEPT !.todo = @ \ {e}, !.dependencies[e.name] = {r}]

Failed ==
  outcome' = "err" /\ UNCHANGED <<manifest, enabled, at, roots, direct, packages, stack>>

\* The two actions that resolve a dependency, as calls.
LEMMA RootStep ==
  ASSUME TypeOK, BuildRoot
  PROVE  /\ outcome = "running" /\ Elements(stack) = {}
         /\ Failed \/ \E e \in roots : \E r \in Releases : \E dev, optional \in BOOLEAN :
              /\ e \in Deps /\ r \in resolve_package_version(e)
              /\ dev <=> Order[at] = "dev"
              /\ optional <=> Order[at] = "optional"
              /\ roots' = roots \ {e}
              /\ direct' = [direct EXCEPT ![Order[at]][e.name] = {r}]
              /\ Entered(r, dev, optional, <<>>)
              /\ UNCHANGED <<manifest, enabled, at, outcome>>
<1>1. roots \subseteq Deps
  BY DEF TypeOK
<1>2. SUFFICES ASSUME ~Failed
      PROVE  \E e \in roots : \E r \in Releases : \E dev, optional \in BOOLEAN :
              /\ e \in Deps /\ r \in resolve_package_version(e)
              /\ dev <=> Order[at] = "dev"
              /\ optional <=> Order[at] = "optional"
              /\ roots' = roots \ {e}
              /\ direct' = [direct EXCEPT ![Order[at]][e.name] = {r}]
              /\ Entered(r, dev, optional, <<>>)
              /\ UNCHANGED <<manifest, enabled, at, outcome>>
  BY EmptyElements DEF BuildRoot
<1>3. PICK e \in roots : \E r \in resolve_package_version(e) :
        /\ roots' = roots \ {e}
        /\ direct' = [direct EXCEPT ![Order[at]][e.name] = {r}]
        /\ build_package_snapshot(r, Order[at] = "dev", Order[at] = "optional", <<>>)
        /\ UNCHANGED <<at, outcome>>
  BY <1>2 DEF BuildRoot, Fail, Failed
<1>4. PICK r \in resolve_package_version(e) :
        /\ roots' = roots \ {e}
        /\ direct' = [direct EXCEPT ![Order[at]][e.name] = {r}]
        /\ build_package_snapshot(r, Order[at] = "dev", Order[at] = "optional", <<>>)
        /\ UNCHANGED <<at, outcome>>
  BY <1>3
<1>5. r \in Releases /\ e \in Deps
  BY <1>1, Resolves
<1>6. (Order[at] = "dev") \in BOOLEAN /\ (Order[at] = "optional") \in BOOLEAN
  OBVIOUS
<1>7. UNCHANGED <<manifest, enabled>>
  BY DEF BuildRoot
<1>8. Entered(r, Order[at] = "dev", Order[at] = "optional", <<>>)
  BY <1>4, <1>5, <1>6, EmptyElements, Call
<1>9. QED BY <1>4, <1>5, <1>6, <1>7, <1>8

LEMMA ChildStep ==
  ASSUME TypeOK, BuildChild
  PROVE  /\ outcome = "running" /\ stack # <<>>
         /\ Failed \/ \E e \in Top.todo : \E r \in Releases : \E callers \in Seq(Frames) :
            \E optional \in BOOLEAN :
              /\ e \in Deps /\ r \in resolve_package_version(e)
              /\ Walked(e, r) \in Frames
              /\ Elements(callers) = Elements(Callers) \cup {Walked(e, r)}
              /\ optional <=> child_optional(Top, e)
              /\ Entered(r, Top.dev, optional, callers)
              /\ UNCHANGED <<manifest, enabled, at, roots, direct, outcome>>
<1>1. stack \in Seq(Frames) /\ stack # <<>>
  BY DEF TypeOK, BuildChild
<1>2. /\ Top \in Frames
      /\ Callers \in Seq(Frames)
  BY <1>1, StackSplit
<1>3. Top.todo \subseteq Deps
  BY <1>2 DEF Frames
<1>4. SUFFICES ASSUME ~Failed
      PROVE  \E e \in Top.todo : \E r \in Releases : \E callers \in Seq(Frames) :
            \E optional \in BOOLEAN :
              /\ e \in Deps /\ r \in resolve_package_version(e)
              /\ Walked(e, r) \in Frames
              /\ Elements(callers) = Elements(Callers) \cup {Walked(e, r)}
              /\ optional <=> child_optional(Top, e)
              /\ Entered(r, Top.dev, optional, callers)
              /\ UNCHANGED <<manifest, enabled, at, roots, direct, outcome>>
  BY <1>1 DEF BuildChild
<1>5. PICK e \in Top.todo : \E r \in resolve_package_version(e) :
        /\ build_package_snapshot(r, Top.dev, child_optional(Top, e), Append(Callers, Walked(e, r)))
        /\ UNCHANGED <<at, roots, direct, outcome>>
  BY <1>4 DEF BuildChild, Fail, Failed, Upcoming, Walked
<1>6. PICK r \in resolve_package_version(e) :
        /\ build_package_snapshot(r, Top.dev, child_optional(Top, e), Append(Callers, Walked(e, r)))
        /\ UNCHANGED <<at, roots, direct, outcome>>
  BY <1>5
<1>7. r \in Releases /\ e \in Deps
  BY <1>3, Resolves
<1>8. Walked(e, r) \in Frames
  BY <1>2, <1>7 DEF Walked, Frames, Links
<1>9. /\ Append(Callers, Walked(e, r)) \in Seq(Frames)
      /\ Elements(Append(Callers, Walked(e, r))) = Elements(Callers) \cup {Walked(e, r)}
  BY <1>2, <1>8, AppendElements
<1>10. UNCHANGED <<manifest, enabled>>
  BY DEF BuildChild
<1>11. child_optional(Top, e) \in BOOLEAN
  BY <1>2 DEF Frames, child_optional
<1>12. Entered(r, Top.dev, child_optional(Top, e), Append(Callers, Walked(e, r)))
  <2>1. Top.dev \in BOOLEAN
    BY <1>2 DEF Frames
  <2>2. QED BY <1>6, <1>7, <1>9, <1>11, <2>1, Call
<1>13. QED BY <1>6, <1>7, <1>8, <1>9, <1>10, <1>11, <1>12

-----------------------------------------------------------------------------
(* Type correctness.                                                        *)

LEMMA TypeInit == Init => TypeOK
<1> SUFFICES ASSUME Init PROVE TypeOK
  OBVIOUS
<1>1. roots \in SUBSET Deps
  BY GenerateAssumption DEF Init, RootsOf, Groups
<1>2. direct \in [Groups -> Links]
  BY DEF Init, NoLinks, Links
<1>3. stack = <<>> /\ stack \in Seq(Frames) /\ Len(stack) = 0
  BY EmptyElements DEF Init
<1>4. QED BY <1>1, <1>2, <1>3 DEF Init, TypeOK

LEMMA TypeStep == TypeOK /\ [Next]_vars => TypeOK'
<1> SUFFICES ASSUME TypeOK, [Next]_vars PROVE TypeOK'
  OBVIOUS
<1>a. /\ stack \in Seq(Frames)
      /\ \A f \in Elements(stack) : f.package \in DOMAIN packages
  BY DEF TypeOK, Elements
<1>b. ASSUME /\ stack' \in Seq(Frames)
             /\ \A f \in Elements(stack') : f.package \in DOMAIN packages'
      PROVE  \A i \in 1..Len(stack') : stack'[i].package \in DOMAIN packages'
  BY <1>b DEF Elements
<1>c. \A g \in Groups : RootsOf(g) \in SUBSET Deps
  BY GenerateAssumption DEF TypeOK, RootsOf
<1>1. CASE BuildRoot
  <2>1. CASE Failed
    BY <2>1 DEF Failed, TypeOK
  <2>2. CASE ~Failed
    <3>1. PICK e \in roots, r \in Releases, dev \in BOOLEAN, optional \in BOOLEAN :
            /\ roots' = roots \ {e}
            /\ direct' = [direct EXCEPT ![Order[at]][e.name] = {r}]
            /\ Entered(r, dev, optional, <<>>)
            /\ UNCHANGED <<manifest, enabled, at, outcome>>
      BY <1>1, <2>2, RootStep
    <3>2. /\ stack' \in Seq(Frames)
          /\ DOMAIN packages' = DOMAIN packages \cup {r}
          /\ \A q \in DOMAIN packages' : packages'[q] \in Snapshots
      BY <3>1 DEF Entered
    <3>5. \A f \in Elements(stack') : f.package \in DOMAIN packages'
      BY <3>1, <3>2, EmptyElements DEF Entered
    <3>3. direct' \in [Groups -> Links]
      BY <3>1 DEF TypeOK, Links
    <3>4. QED BY <1>b, <3>1, <3>2, <3>3, <3>5 DEF TypeOK
  <2>3. QED BY <2>1, <2>2
<1>2. CASE NextGroup
  <2>1. at \in 1..2 /\ at' = at + 1 /\ roots' = RootsOf(Order[at + 1])
    BY <1>2 DEF NextGroup, TypeOK, Order
  <2>2. Order[at + 1] \in Groups
    BY <2>1 DEF Order, Groups
  <2>3. roots' \in SUBSET Deps
    BY <1>c, <2>1, <2>2
  <2>4. QED BY <1>2, <2>1, <2>3 DEF NextGroup, TypeOK
<1>3. CASE BuildChild
  <2>1. CASE Failed
    BY <2>1 DEF Failed, TypeOK
  <2>2. CASE ~Failed
    <3>0. /\ Top \in Frames /\ Top \in Elements(stack)
          /\ Elements(Callers) \subseteq Elements(stack)
      BY <1>3, <1>a, StackSplit, ChildStep
    <3>1. PICK e \in Top.todo, r \in Releases, callers \in Seq(Frames), optional \in BOOLEAN :
            /\ Elements(callers) = Elements(Callers) \cup {Walked(e, r)}
            /\ Entered(r, Top.dev, optional, callers)
            /\ UNCHANGED <<manifest, enabled, at, roots, direct, outcome>>
      BY <1>3, <2>2, ChildStep
    <3>2. Walked(e, r).package = Top.package
      BY <3>0 DEF Walked, Frames
    <3>4. /\ stack' \in Seq(Frames)
          /\ DOMAIN packages' = DOMAIN packages \cup {r}
          /\ \A q \in DOMAIN packages' : packages'[q] \in Snapshots
      BY <3>1 DEF Entered
    <3>7. \A f \in Elements(stack') : f \in Elements(callers) \/ f.package = r
      BY <3>1 DEF Entered
    <3>5. \A f \in Elements(stack') : f.package \in DOMAIN packages'
      BY <1>a, <3>0, <3>1, <3>2, <3>4, <3>7
    <3>6. QED BY <1>b, <3>1, <3>4, <3>5 DEF TypeOK
  <2>3. QED BY <2>1, <2>2
<1>4. CASE Return
  <2>0. /\ Top \in Frames /\ Callers \in Seq(Frames)
        /\ Elements(stack) = Elements(Callers) \cup {Top}
    BY <1>4, <1>a, StackSplit DEF Return
  <2>1. /\ Top.package \in DOMAIN packages
        /\ packages[Top.package] \in Snapshots
        /\ Top.dev \in BOOLEAN /\ Top.optional \in BOOLEAN /\ Top.dependencies \in Links
    BY <1>a, <2>0 DEF Frames, TypeOK
  <2>2. [packages[Top.package] EXCEPT !.dependencies = Top.dependencies] \in Snapshots
    BY <2>1 DEF Snapshots
  <2>3. merge_package_flags([packages[Top.package] EXCEPT !.dependencies = Top.dependencies],
                            Top.dev, Top.optional) \in Snapshots
    BY <2>1, <2>2, MergeType
  <2>4. /\ DOMAIN packages' = DOMAIN packages
        /\ \A q \in DOMAIN packages' : packages'[q] \in Snapshots
    BY <1>4, <2>1, <2>3 DEF Return, TypeOK
  <2>5. stack' \in Seq(Frames) /\ \A f \in Elements(stack') : f.package \in DOMAIN packages'
    BY <1>4, <1>a, <2>0, <2>4 DEF Return
  <2>6. QED BY <1>4, <1>b, <2>4, <2>5 DEF Return, TypeOK
<1>5. CASE Finish
  BY <1>5 DEF Finish, TypeOK
<1>6. CASE UNCHANGED vars
  BY <1>6 DEF vars, TypeOK
<1>7. QED BY <1>1, <1>2, <1>3, <1>4, <1>5, <1>6 DEF Next

\* The walk stays within its types, and the snapshot that build_package_snapshot
\* fetches again after its recursion is always there.
THEOREM TypeCorrect == Spec => []TypeOK
  BY TypeInit, TypeStep, PTL DEF Spec

-----------------------------------------------------------------------------
(* RecursionIsSimple.  The package of every frame is in the map, by TypeOK, *)
(* and a frame is added only for a package that is not.                     *)

Simple(s) == \A i, j \in 1..Len(s) : s[i].package = s[j].package => i = j

\* The callers of the innermost package are the stack below it.
LEMMA BelowTop ==
  ASSUME stack \in Seq(Frames), stack # <<>>
  PROVE  /\ Callers \in Seq(Frames) /\ Len(stack) \in Nat \ {0}
         /\ Len(Callers) = Len(stack) - 1
         /\ \A i \in 1..(Len(stack) - 1) : Callers[i] = stack[i]
<1>1. Len(stack) \in Nat \ {0}
  BY EmptySeq
<1>2. \A i \in 1..Len(stack) : stack[i] \in Frames
  BY ElementOfSeq
<1> DEFINE n == Len(stack) - 1
<1>3. n \in Nat /\ n \in Int /\ \A i \in 1..n : stack[i] \in Frames
  BY <1>1, <1>2
<1> HIDE DEF n
<1>4. /\ SubSeq(stack, 1, n) \in Seq(Frames)
      /\ Len(SubSeq(stack, 1, n)) = IF 1 <= n THEN n - 1 + 1 ELSE 0
      /\ \A i \in 1..(n - 1 + 1) : SubSeq(stack, 1, n)[i] = stack[1 + i - 1]
  BY <1>3, SubSeqProperties
<1>5. Callers = SubSeq(stack, 1, n)
  BY DEF Callers, n
<1>6. /\ Callers \in Seq(Frames) /\ Len(Callers) = n /\ \A i \in 1..n : Callers[i] = stack[i]
  BY <1>3, <1>4, <1>5
<1>7. QED BY <1>1, <1>6 DEF n

LEMMA SimpleAppend ==
  ASSUME NEW s \in Seq(Frames), Simple(s), NEW f \in Frames,
         \A i \in 1..Len(s) : s[i].package # f.package
  PROVE  Simple(Append(s, f))
<1>1. /\ Len(Append(s, f)) = Len(s) + 1
      /\ \A i \in 1..Len(s) : Append(s, f)[i] = s[i]
      /\ Append(s, f)[Len(s) + 1] = f
  BY AppendProperties
<1>2. Len(s) \in Nat
  BY LenProperties
<1>3. 1..(Len(s) + 1) = 1..Len(s) \cup {Len(s) + 1}
  BY <1>2
<1>4. QED BY <1>1, <1>2, <1>3 DEF Simple

LEMMA CallSimple ==
  ASSUME NEW r \in Releases, NEW dev \in BOOLEAN, NEW optional \in BOOLEAN,
         NEW callers \in Seq(Frames), Simple(callers),
         \A i \in 1..Len(callers) : callers[i].package \in DOMAIN packages,
         build_package_snapshot(r, dev, optional, callers)
  PROVE  Simple(stack')
<1>1. CASE r \in DOMAIN packages
  BY <1>1 DEF build_package_snapshot
<1>2. CASE r \notin DOMAIN packages
  <2> DEFINE frame == [package |-> r, dev |-> dev, optional |-> optional,
                       todo |-> dependencies(r), dependencies |-> NoLinks]
  <2>1. stack' = Append(callers, frame)
    BY <1>2 DEF build_package_snapshot
  <2>2. frame \in Frames /\ frame.package = r
    BY DependenciesAreDeps DEF Frames, NoLinks, Links
  <2> HIDE DEF frame
  <2>3. QED BY <1>2, <2>1, <2>2, SimpleAppend
<1>3. QED BY <1>1, <1>2

LEMMA SimpleStep == TypeOK /\ Simple(stack) /\ [Next]_vars => Simple(stack')
<1> SUFFICES ASSUME TypeOK, Simple(stack), [Next]_vars PROVE Simple(stack')
  OBVIOUS
<1>0. stack \in Seq(Frames) /\ \A i \in 1..Len(stack) : stack[i].package \in DOMAIN packages
  BY DEF TypeOK
<1>1. CASE BuildRoot
  <2>1. CASE UNCHANGED stack
    BY <2>1
  <2>2. CASE stack' # stack
    <3>1. PICK e \in roots : \E r \in resolve_package_version(e) :
            build_package_snapshot(r, Order[at] = "dev", Order[at] = "optional", <<>>)
      BY <1>1, <2>2 DEF BuildRoot, Fail
    <3>2. PICK r \in resolve_package_version(e) :
            build_package_snapshot(r, Order[at] = "dev", Order[at] = "optional", <<>>)
      BY <3>1
    <3>3. r \in Releases
      BY Resolves DEF TypeOK
    <3>4. <<>> \in Seq(Frames) /\ Simple(<<>>)
      BY EmptyElements DEF Simple
    <3>5. \A i \in 1..Len(<<>>) : <<>>[i].package \in DOMAIN packages
      OBVIOUS
    <3> DEFINE dev == Order[at] = "dev"
               optional == Order[at] = "optional"
    <3>6. dev \in BOOLEAN /\ optional \in BOOLEAN
      OBVIOUS
    <3>7. build_package_snapshot(r, dev, optional, <<>>)
      BY <3>2
    <3> HIDE DEF dev, optional
    <3>8. QED BY <3>3, <3>4, <3>5, <3>6, <3>7, CallSimple
  <2>3. QED BY <2>1, <2>2
<1>2. CASE BuildChild
  <2>1. CASE UNCHANGED stack
    BY <2>1
  <2>2. CASE stack' # stack
    <3>0. stack # <<>> /\ Top \in Frames
      BY <1>0, <1>2, StackSplit DEF BuildChild
    <3>1. PICK e \in Top.todo : \E r \in resolve_package_version(e) :
            build_package_snapshot(r, Top.dev, child_optional(Top, e), Append(Callers, Walked(e, r)))
      BY <1>2, <2>2 DEF BuildChild, Fail, Upcoming, Walked
    <3>2. PICK r \in resolve_package_version(e) :
            build_package_snapshot(r, Top.dev, child_optional(Top, e), Append(Callers, Walked(e, r)))
      BY <3>1
    <3>3. r \in Releases /\ e \in Deps
      BY <3>0, Resolves DEF Frames
    <3>4. /\ Walked(e, r) \in Frames /\ Walked(e, r).package = Top.package
          /\ Top.dev \in BOOLEAN /\ child_optional(Top, e) \in BOOLEAN
      BY <3>0, <3>3 DEF Walked, Frames, Links, child_optional
    <3> DEFINE callers == Append(Callers, Walked(e, r))
    <3>5. /\ Callers \in Seq(Frames) /\ Len(stack) \in Nat \ {0} /\ Len(Callers) = Len(stack) - 1
          /\ \A i \in 1..(Len(stack) - 1) : Callers[i] = stack[i]
      BY <1>0, <3>0, BelowTop
    <3>6. /\ callers \in Seq(Frames) /\ Len(callers) = Len(stack)
          /\ \A i \in 1..(Len(stack) - 1) : callers[i] = stack[i]
          /\ callers[Len(stack)] = Walked(e, r)
      BY <3>4, <3>5, AppendProperties
    <3> HIDE DEF callers
    <3>7. \A i \in 1..Len(stack) : callers[i].package = stack[i].package
      BY <3>4, <3>5, <3>6 DEF Top
    <3>8. Simple(callers) /\ \A i \in 1..Len(callers) : callers[i].package \in DOMAIN packages
      BY <1>0, <3>6, <3>7 DEF Simple
    <3>9. QED BY <3>2, <3>3, <3>4, <3>6, <3>8, CallSimple DEF callers
  <2>3. QED BY <2>1, <2>2
<1>3. CASE Return
  <2>1. stack # <<>> /\ stack' = Callers
    BY <1>3 DEF Return
  <2>2. QED BY <1>0, <2>1, BelowTop DEF Simple
<1>4. CASE NextGroup \/ Finish \/ UNCHANGED vars
  BY <1>4 DEF NextGroup, Finish, vars
<1>5. QED BY <1>1, <1>2, <1>3, <1>4 DEF Next

\* A package is never walked within its own walk, however the dependencies of the
\* registry go round in circles.
THEOREM RecursesOnce == Spec => []RecursionIsSimple
<1>1. Init => Simple(stack)
  BY EmptyElements DEF Init, Simple
<1>2. Simple(stack) <=> RecursionIsSimple
  BY DEF Simple, RecursionIsSimple
<1>3. TypeOK /\ Simple(stack) /\ [Next]_vars => Simple(stack)'
  BY SimpleStep
<1>4. QED BY <1>1, <1>2, <1>3, TypeInit, TypeStep, PTL DEF Spec

-----------------------------------------------------------------------------
(***************************************************************************)
(* LockfileIsClosed.  The walk visits a package once, so what is known of a *)
(* package in the map is either that its own dependencies are recorded, or  *)
(* that a frame on the stack still has them to do: cycles need no more than *)
(* that.  That nothing unneeded is recorded is stated with closed sets, as  *)
(* Reachable is: the map lies within every closed set that has the roots.   *)
(***************************************************************************)
Recorded(map, edges, siblings, links) ==
  \A e \in edges :
    /\ resolve_package_version(e) \subseteq map
    /\ \E q \in map :
         links[e.name] = {q} /\ q \in Resolved({x \in siblings : x.name = e.name})

FrameRecorded(map, f) ==
  /\ f.todo \subseteq dependencies(f.package)
  /\ Recorded(map, dependencies(f.package) \ f.todo, dependencies(f.package), f.dependencies)

PackageRecorded(map, r, links) == Recorded(map, dependencies(r), dependencies(r), links)

FramesRecorded == \A f \in Elements(stack) : FrameRecorded(DOMAIN packages, f)

PackagesRecorded ==
  \A r \in DOMAIN packages :
    \/ \E f \in Elements(stack) : f.package = r
    \/ PackageRecorded(DOMAIN packages, r, packages[r].dependencies)

\* The groups that have been built so far, the current one up to `roots`.
Built(i) == IF i < at THEN RootsOf(Order[i]) ELSE IF i = at THEN RootsOf(Order[i]) \ roots ELSE {}

RootsRecorded ==
  /\ roots \subseteq RootsOf(Order[at])
  /\ \A i \in 1..3 : \A e \in Built(i) :
       /\ resolve_package_version(e) \subseteq DOMAIN packages
       /\ \E q \in DOMAIN packages : direct[Order[i]][e.name] = {q}

\* X lies within every set that contains `from` and is closed under `edges`.
Within(X, from, edges) ==
  \A S \in SUBSET Releases : from \subseteq S /\ (\A q \in S : edges[q] \subseteq S) => X \subseteq S

Wanted(groups) == UNION {Resolved(RootsOf(g)) : g \in groups}

NothingElse == Within(DOMAIN packages, Wanted(Groups), AllEdges)

ClosedInv ==
  /\ TypeOK
  /\ FramesRecorded /\ PackagesRecorded /\ RootsRecorded
  /\ NothingElse
  /\ outcome = "ok" => stack = <<>> /\ roots = {} /\ at = 3

LEMMA RecordedStays ==
  ASSUME NEW map, NEW larger, map \subseteq larger
  PROVE  /\ \A f : FrameRecorded(map, f) => FrameRecorded(larger, f)
         /\ \A r, links : PackageRecorded(map, r, links) => PackageRecorded(larger, r, links)
  BY DEF FrameRecorded, PackageRecorded, Recorded

LEMMA EnteredRecorded ==
  ASSUME PackagesRecorded, NEW r, NEW dev, NEW optional, NEW callers,
         Entered(r, dev, optional, callers),
         \A f \in Elements(stack) : \E g \in Elements(callers) : g.package = f.package,
         \A f \in Elements(callers) : FrameRecorded(DOMAIN packages', f)
  PROVE  FramesRecorded' /\ PackagesRecorded'
<1>1. DOMAIN packages' = DOMAIN packages \cup {r}
  BY DEF Entered
<1>2. ASSUME NEW f \in Elements(stack')
      PROVE  FrameRecorded(DOMAIN packages', f)
  <2>1. CASE f \in Elements(callers)
    BY <2>1
  <2>2. CASE f \notin Elements(callers)
    <3>1. f.package = r /\ f.todo = dependencies(r)
      BY <2>2 DEF Entered
    <3>2. QED BY <3>1 DEF FrameRecorded, Recorded
  <2>3. QED BY <2>1, <2>2
<1>3. ASSUME NEW q \in DOMAIN packages', ~ \E f \in Elements(stack') : f.package = q
      PROVE  PackageRecorded(DOMAIN packages', q, packages'[q].dependencies)
  <2>1. q \in DOMAIN packages
    BY <1>1, <1>3 DEF Entered
  <2>2. ~ \E f \in Elements(stack) : f.package = q
    BY <1>3 DEF Entered
  <2>3. PackageRecorded(DOMAIN packages, q, packages[q].dependencies)
    BY <2>1, <2>2 DEF PackagesRecorded
  <2>4. packages'[q].dependencies = packages[q].dependencies
    BY <2>1 DEF Entered
  <2>5. QED BY <1>1, <2>3, <2>4, RecordedStays
<1>4. QED BY <1>2, <1>3 DEF FramesRecorded, PackagesRecorded

LEMMA WithinGrows ==
  ASSUME NEW X, NEW from, NEW edges, Within(X, from, edges),
         NEW r, r \in from \/ \E q \in X : r \in edges[q]
  PROVE  Within(X \cup {r}, from, edges)
  BY DEF Within

LEMMA WithinLess ==
  ASSUME NEW X, NEW Y, Y \subseteq X, NEW from, NEW edges, Within(X, from, edges)
  PROVE  Within(Y, from, edges)
  BY DEF Within

LEMMA WithinReachable ==
  ASSUME NEW X \in SUBSET Releases, NEW from, NEW edges, Within(X, from, edges)
  PROVE  X \subseteq Reachable(from, edges)
  BY DEF Within, Reachable

LEMMA WantedStays ==
  ASSUME UNCHANGED <<manifest, enabled>>
  PROVE  \A groups : Wanted(groups)' = Wanted(groups)
  BY DEF Wanted, RootsOf

LEMMA ResolvesTo ==
  ASSUME NEW e \in Deps, NEW r \in resolve_package_version(e)
  PROVE  resolve_package_version(e) = {r}
  BY Resolves

LEMMA WalkStays ==
  ASSUME UNCHANGED <<manifest, enabled, at, roots, direct, packages, stack>>,
         FramesRecorded, PackagesRecorded, RootsRecorded, NothingElse
  PROVE  FramesRecorded' /\ PackagesRecorded' /\ RootsRecorded' /\ NothingElse'
<1>1. FramesRecorded' /\ PackagesRecorded'
  BY DEF FramesRecorded, PackagesRecorded, Elements
<1>2. RootsRecorded'
  BY DEF RootsRecorded, Built, RootsOf
<1>3. NothingElse'
  BY WantedStays DEF NothingElse
<1>4. QED BY <1>1, <1>2, <1>3

LEMMA ClosedInit == Init => ClosedInv
<1> SUFFICES ASSUME Init PROVE ClosedInv
  OBVIOUS
<1>1. TypeOK
  BY TypeInit
<1>2. Elements(stack) = {} /\ DOMAIN packages = {}
  BY EmptyElements DEF Init
<1>3. FramesRecorded /\ PackagesRecorded /\ NothingElse
  BY <1>2 DEF FramesRecorded, PackagesRecorded, NothingElse, Within
<1>4. roots = RootsOf(Order[at]) /\ at = 1
  BY DEF Init, Order
<1>5. \A i \in 1..3 : Built(i) = {}
  BY <1>4 DEF Built
<1>6. RootsRecorded
  BY <1>4, <1>5 DEF RootsRecorded
<1>7. QED BY <1>1, <1>3, <1>6 DEF ClosedInv, Init

LEMMA ClosedStep == ClosedInv /\ [Next]_vars => ClosedInv'
<1> SUFFICES ASSUME ClosedInv, [Next]_vars PROVE ClosedInv'
  OBVIOUS
<1> USE DEF ClosedInv
<1>a. TypeOK'
  BY TypeStep
<1>b. stack \in Seq(Frames)
  BY DEF TypeOK
<1>0. ASSUME Failed \/ UNCHANGED vars
      PROVE  ClosedInv'
  <2>1. UNCHANGED <<manifest, enabled, at, roots, direct, packages, stack>>
    BY <1>0 DEF Failed, vars
  <2>2. FramesRecorded' /\ PackagesRecorded' /\ RootsRecorded' /\ NothingElse'
    BY <2>1, WalkStays
  <2>3. outcome' = "ok" => stack' = <<>> /\ roots' = {} /\ at' = 3
    BY <1>0, <2>1 DEF Failed, vars
  <2>4. QED BY <1>a, <2>2, <2>3
<1>1. CASE BuildRoot /\ ~Failed
  <2>0. Elements(stack) = {} /\ outcome = "running"
    BY <1>1, RootStep
  <2>1. PICK e \in roots, r \in Releases, dev \in BOOLEAN, optional \in BOOLEAN :
          /\ e \in Deps /\ r \in resolve_package_version(e)
          /\ roots' = roots \ {e}
          /\ direct' = [direct EXCEPT ![Order[at]][e.name] = {r}]
          /\ Entered(r, dev, optional, <<>>)
          /\ UNCHANGED <<manifest, enabled, at, outcome>>
    BY <1>1, RootStep
  <2>2. FramesRecorded' /\ PackagesRecorded'
    BY <2>0, <2>1, EmptyElements, EnteredRecorded
  <2>3. /\ DOMAIN packages' = DOMAIN packages \cup {r}
        /\ resolve_package_version(e) = {r}
    BY <2>1, ResolvesTo DEF Entered
  <2>4. e.name \in Names /\ Order[at] \in Groups
        /\ \A i \in 1..3 : Order[i] \in Groups /\ (Order[i] = Order[at] => i = at)
    BY <2>1 DEF Deps, Order, Groups, TypeOK
  <2>5. \A g \in Groups : \A n \in Names :
          direct'[g][n] = IF g = Order[at] /\ n = e.name THEN {r} ELSE direct[g][n]
    BY <2>1, <2>4 DEF TypeOK, Links
  <2>6. \A i \in 1..3 : Built(i)' \subseteq Built(i) \cup (IF i = at THEN {e} ELSE {})
    BY <2>1 DEF Built, RootsOf
  <2>7. RootsRecorded'
    <3>1. roots' \subseteq RootsOf(Order[at])'
      BY <2>1 DEF RootsRecorded, RootsOf
    <3>2. ASSUME NEW i \in 1..3, NEW x \in Built(i)'
          PROVE  /\ resolve_package_version(x) \subseteq DOMAIN packages'
                 /\ \E q \in DOMAIN packages' : direct'[Order[i]][x.name] = {q}
      <4>1. x \in Deps /\ x.name \in Names
        BY <2>1, GenerateAssumption DEF Built, RootsOf, Deps, Order, Groups, TypeOK
      <4>2. CASE i = at /\ x = e
        BY <2>3, <2>4, <2>5, <4>2
      <4>3. CASE x \in Built(i)
        <5>1. /\ resolve_package_version(x) \subseteq DOMAIN packages
              /\ \E q \in DOMAIN packages : direct[Order[i]][x.name] = {q}
          BY <4>3 DEF RootsRecorded
        <5>2. direct'[Order[i]][x.name] \in {{r}, direct[Order[i]][x.name]}
          BY <2>4, <2>5, <4>1
        <5>3. QED BY <2>3, <5>1, <5>2
      <4>4. QED BY <2>6, <4>2, <4>3
    <3>3. QED BY <3>1, <3>2 DEF RootsRecorded, resolve_package_version
  <2>8. NothingElse'
    <3>1. e \in RootsOf(Order[at]) /\ Order[at] \in Groups
      BY <2>4 DEF RootsRecorded
    <3>2. r \in Wanted(Groups)
      BY <2>1, <3>1 DEF Resolved, Wanted
    <3>5. Within(DOMAIN packages \cup {r}, Wanted(Groups), AllEdges)
      BY <2>3, <3>2, WithinGrows DEF NothingElse
    <3>3. Within(DOMAIN packages', Wanted(Groups), AllEdges)
      BY <2>3, <3>5
    <3>4. QED BY <2>1, <3>3, WantedStays DEF NothingElse
  <2>9. QED BY <1>a, <2>0, <2>1, <2>2, <2>7, <2>8
<1>2. CASE NextGroup
  <2>1. /\ at \in 1..2 /\ at' = at + 1 /\ roots = {} /\ roots' = RootsOf(Order[at + 1])
        /\ UNCHANGED <<manifest, enabled, direct, packages, stack, outcome>>
        /\ outcome = "running"
    BY <1>2 DEF NextGroup, TypeOK, Order
  <2>2. FramesRecorded' /\ PackagesRecorded' /\ NothingElse'
    BY <2>1 DEF FramesRecorded, PackagesRecorded, NothingElse, Wanted, RootsOf,
                Elements
  <2>3. \A i \in 1..3 : Built(i)' \subseteq Built(i)
    BY <2>1 DEF Built, RootsOf
  <2>4. roots' \subseteq RootsOf(Order[at])'
    BY <2>1 DEF RootsOf
  <2>5. RootsRecorded'
    BY <2>1, <2>3, <2>4 DEF RootsRecorded
  <2>6. QED BY <1>a, <2>1, <2>2, <2>5
<1>3. CASE BuildChild /\ ~Failed
  <2>0. /\ outcome = "running"
        /\ Top \in Frames /\ Elements(stack) = Elements(Callers) \cup {Top}
    BY <1>3, <1>b, ChildStep, StackSplit
  <2>1. PICK e \in Top.todo, r \in Releases, callers \in Seq(Frames), optional \in BOOLEAN :
          /\ e \in Deps /\ r \in resolve_package_version(e)
          /\ Elements(callers) = Elements(Callers) \cup {Walked(e, r)}
          /\ Entered(r, Top.dev, optional, callers)
          /\ UNCHANGED <<manifest, enabled, at, roots, direct, outcome>>
    BY <1>3, ChildStep
  <2>2. /\ Walked(e, r).package = Top.package
        /\ Walked(e, r).todo = Top.todo \ {e}
        /\ \A n \in Names : Walked(e, r).dependencies[n] =
             IF n = e.name THEN {r} ELSE Top.dependencies[n]
    BY <2>0, <2>1 DEF Walked, Frames, Links, Deps
  <2>3. /\ DOMAIN packages' = DOMAIN packages \cup {r}
        /\ resolve_package_version(e) = {r}
        /\ Top.package \in DOMAIN packages
    <3>1. Top.package \in DOMAIN packages
      BY <2>0 DEF TypeOK, Elements
    <3>2. resolve_package_version(e) = {r}
      BY <2>1, ResolvesTo
    <3>3. QED BY <2>1, <3>1, <3>2 DEF Entered
  <2> DEFINE deps == dependencies(Top.package)
  <2>4. deps \subseteq Deps /\ Top.todo \subseteq deps
    BY <2>0, DependenciesAreDeps DEF FramesRecorded, FrameRecorded, Frames
  <2>5. FrameRecorded(DOMAIN packages', Walked(e, r))
    <3> SUFFICES ASSUME NEW x \in deps, x \notin Top.todo \/ x = e
                 PROVE  /\ resolve_package_version(x) \subseteq DOMAIN packages'
                        /\ \E q \in DOMAIN packages' :
                             /\ Walked(e, r).dependencies[x.name] = {q}
                             /\ q \in Resolved({y \in deps : y.name = x.name})
      BY <2>2, <2>4 DEF FrameRecorded, Recorded
    <3>0. x.name \in Names
      BY <2>4 DEF Deps
    <3>1. r \in Resolved({y \in deps : y.name = e.name})
      BY <2>1, <2>4 DEF Resolved
    <3>2. CASE x.name = e.name
      <4>1. Walked(e, r).dependencies[x.name] = {r}
        BY <2>2, <3>0, <3>2
      <4>2. resolve_package_version(x) \subseteq DOMAIN packages'
        <5>1. CASE x = e
          BY <5>1, <2>3
        <5>2. CASE x \notin Top.todo
          BY <5>2, <2>0, <2>3 DEF FramesRecorded, FrameRecorded, Recorded
        <5>3. QED BY <5>1, <5>2
      <4>3. QED BY <2>3, <3>1, <3>2, <4>1, <4>2
    <3>3. CASE x.name # e.name
      <4>1. x \in deps \ Top.todo
        BY <3>3
      <4>2. /\ resolve_package_version(x) \subseteq DOMAIN packages
            /\ \E q \in DOMAIN packages :
                 /\ Top.dependencies[x.name] = {q}
                 /\ q \in Resolved({y \in deps : y.name = x.name})
        BY <2>0, <4>1 DEF FramesRecorded, FrameRecorded, Recorded
      <4>3. QED BY <2>2, <2>3, <3>0, <3>3, <4>2
    <3>4. QED BY <3>2, <3>3
  <2>6. \A f \in Elements(Callers) : FrameRecorded(DOMAIN packages', f)
    BY <2>0, <2>3, RecordedStays DEF FramesRecorded
  <2>7. FramesRecorded' /\ PackagesRecorded'
    <3>1. \A f \in Elements(stack) : \E g \in Elements(callers) : g.package = f.package
      BY <2>0, <2>1, <2>2
    <3>2. \A f \in Elements(callers) : FrameRecorded(DOMAIN packages', f)
      BY <2>1, <2>5, <2>6
    <3>3. QED BY <2>1, <3>1, <3>2, EnteredRecorded
  <2>8. RootsRecorded'
    BY <2>1, <2>3 DEF RootsRecorded, Built, RootsOf, resolve_package_version
  <2>9. NothingElse'
    <3>1. Top.package \in Releases
      BY <2>0 DEF Frames
    <3>2. r \in AllEdges[Top.package]
      BY <2>1, <2>4, <3>1 DEF AllEdges, Resolved
    <3>5. Within(DOMAIN packages \cup {r}, Wanted(Groups), AllEdges)
      BY <2>3, <3>2, WithinGrows DEF NothingElse
    <3>3. Within(DOMAIN packages', Wanted(Groups), AllEdges)
      BY <2>3, <3>5
    <3>4. QED BY <2>1, <3>3, WantedStays DEF NothingElse
  <2>10. QED BY <1>a, <2>0, <2>1, <2>7, <2>8, <2>9
<1>4. CASE Return
  <2>0. /\ Top \in Frames /\ Elements(stack) = Elements(Callers) \cup {Top}
        /\ Top.todo = {} /\ stack' = Callers /\ outcome = "running"
        /\ UNCHANGED <<manifest, enabled, at, roots, direct, outcome>>
    BY <1>4, <1>b, StackSplit DEF Return
  <2>1. /\ Top.package \in DOMAIN packages
        /\ packages[Top.package] \in Snapshots
        /\ Top.dev \in BOOLEAN /\ Top.optional \in BOOLEAN /\ Top.dependencies \in Links
    BY <2>0 DEF Frames, TypeOK, Elements
  <2>2. [packages[Top.package] EXCEPT !.dependencies = Top.dependencies] \in Snapshots
    BY <2>1 DEF Snapshots
  <2>3. merge_package_flags([packages[Top.package] EXCEPT !.dependencies = Top.dependencies],
                            Top.dev, Top.optional).dependencies = Top.dependencies
    BY <2>1, <2>2, MergeType DEF Snapshots
  <2>4. /\ DOMAIN packages' = DOMAIN packages
        /\ packages'[Top.package].dependencies = Top.dependencies
        /\ \A q \in DOMAIN packages : q # Top.package => packages'[q] = packages[q]
    BY <1>4, <2>1, <2>3 DEF Return
  <2>5. FramesRecorded'
    BY <2>0, <2>4 DEF FramesRecorded
  <2>6. ASSUME NEW q \in DOMAIN packages, ~ \E f \in Elements(Callers) : f.package = q
        PROVE  PackageRecorded(DOMAIN packages', q, packages'[q].dependencies)
    <3>1. CASE q = Top.package
      <4>1. PackageRecorded(DOMAIN packages, q, Top.dependencies)
        BY <2>0, <3>1 DEF FramesRecorded, FrameRecorded, PackageRecorded
      <4>2. QED BY <2>4, <3>1, <4>1
    <3>2. CASE q # Top.package
      <4>1. PackageRecorded(DOMAIN packages, q, packages[q].dependencies)
        BY <2>0, <2>6, <3>2 DEF PackagesRecorded
      <4>2. QED BY <2>4, <3>2, <4>1
    <3>3. QED BY <3>1, <3>2
  <2>9. PackagesRecorded'
    BY <2>0, <2>4, <2>6 DEF PackagesRecorded
  <2>7. RootsRecorded' /\ NothingElse'
    BY <2>0, <2>4, WantedStays DEF RootsRecorded, Built, RootsOf, NothingElse
  <2>8. QED BY <1>a, <2>0, <2>5, <2>7, <2>9
<1>5. CASE Finish
  <2>1. /\ UNCHANGED <<manifest, enabled, at, roots, direct, packages, stack>>
        /\ stack = <<>> /\ roots = {} /\ at = 3
    BY <1>5 DEF Finish, Order
  <2>2. FramesRecorded' /\ PackagesRecorded' /\ RootsRecorded' /\ NothingElse'
    BY <2>1, WalkStays
  <2>3. QED BY <1>a, <2>1, <2>2
<1>6. QED BY <1>0, <1>1, <1>2, <1>3, <1>4, <1>5 DEF Next

LEMMA ResolvedWithin ==
  ASSUME NEW edges, NEW map, \A e \in edges : resolve_package_version(e) \subseteq map
  PROVE  Resolved(edges) \subseteq map
  BY DEF Resolved

\* What is known when a group has been built and the stack is empty.
LEMMA MapClosed ==
  ASSUME ClosedInv, stack = <<>>
  PROVE  \A r \in DOMAIN packages :
           /\ r \in Releases
           /\ PackageRecorded(DOMAIN packages, r, packages[r].dependencies)
           /\ AllEdges[r] \subseteq DOMAIN packages
<1>1. \A r \in DOMAIN packages :
        PackageRecorded(DOMAIN packages, r, packages[r].dependencies)
  BY EmptyElements DEF ClosedInv, PackagesRecorded
<1>2. \A r \in DOMAIN packages : r \in Releases
  BY DEF ClosedInv, TypeOK
<1>3. \A r \in DOMAIN packages : Resolved(dependencies(r)) \subseteq DOMAIN packages
  BY <1>1, ResolvedWithin DEF PackageRecorded, Recorded
<1>4. QED BY <1>1, <1>2, <1>3 DEF AllEdges

LEMMA RootsInMap ==
  ASSUME ClosedInv, NEW i \in 1..3, roots = {}, i \in 1..at
  PROVE  /\ Resolved(RootsOf(Order[i])) \subseteq DOMAIN packages
         /\ \A e \in RootsOf(Order[i]) : \E q \in DOMAIN packages : direct[Order[i]][e.name] = {q}
<1>1. at \in 1..3
  BY DEF ClosedInv, TypeOK
<1>2. Built(i) = RootsOf(Order[i])
  BY <1>1 DEF Built
<1>3. \A e \in RootsOf(Order[i]) :
        /\ resolve_package_version(e) \subseteq DOMAIN packages
        /\ \E q \in DOMAIN packages : direct[Order[i]][e.name] = {q}
  <2>1. \A e \in Built(i) :
          /\ resolve_package_version(e) \subseteq DOMAIN packages
          /\ \E q \in DOMAIN packages : direct[Order[i]][e.name] = {q}
    BY DEF ClosedInv, RootsRecorded
  <2>2. QED BY <1>2, <2>1
<1> DEFINE wanted == RootsOf(Order[i])
<1>4. \A e \in wanted : resolve_package_version(e) \subseteq DOMAIN packages
  BY <1>3
<1> HIDE DEF wanted
<1>5. Resolved(wanted) \subseteq DOMAIN packages
  BY <1>4, ResolvedWithin
<1>6. QED BY <1>3, <1>5 DEF wanted

LEMMA ClosedImplies == ClosedInv => LockfileIsClosed
<1> SUFFICES ASSUME ClosedInv, outcome = "ok" PROVE LockfileIsClosed
  BY DEF LockfileIsClosed
<1>1. stack = <<>> /\ roots = {} /\ at = 3
  BY DEF ClosedInv
<1>2. \A g \in Groups : \E i \in 1..3 : g = Order[i]
  BY DEF Groups, Order
<1>3. \A g \in Groups :
        /\ Resolved(RootsOf(g)) \subseteq DOMAIN packages
        /\ \A e \in RootsOf(g) : \E q \in DOMAIN packages : direct[g][e.name] = {q}
  <2> SUFFICES ASSUME NEW i \in 1..3
               PROVE  /\ Resolved(RootsOf(Order[i])) \subseteq DOMAIN packages
                      /\ \A e \in RootsOf(Order[i]) :
                           \E q \in DOMAIN packages : direct[Order[i]][e.name] = {q}
    BY <1>2
  <2>1. QED BY <1>1, RootsInMap
<1>4. DOMAIN packages \in SUBSET Releases
  BY DEF ClosedInv, TypeOK
<1>5. Reachable(Wanted(Groups), AllEdges) \subseteq DOMAIN packages
  <2>1. Wanted(Groups) \subseteq DOMAIN packages
    BY <1>3 DEF Wanted
  <2>2. \A q \in DOMAIN packages : AllEdges[q] \subseteq DOMAIN packages
    BY <1>1, MapClosed
  <2>3. QED BY <1>4, <2>1, <2>2 DEF Reachable
<1>6. DOMAIN packages \subseteq Reachable(Wanted(Groups), AllEdges)
  BY <1>4, WithinReachable DEF ClosedInv, NothingElse
<1>7. DOMAIN packages = Reachable(UNION {Resolved(RootsOf(g)) : g \in Groups}, AllEdges)
  BY <1>5, <1>6 DEF Wanted
<1>8. \A r \in DOMAIN packages : \A e \in dependencies(r) :
        \E q \in DOMAIN packages :
          /\ packages[r].dependencies[e.name] = {q}
          /\ q \in Resolved({x \in dependencies(r) : x.name = e.name})
  BY <1>1, MapClosed DEF PackageRecorded, Recorded
<1>9. QED BY <1>3, <1>7, <1>8 DEF LockfileIsClosed

\* The packages map of the generated lockfile is exactly what the direct
\* dependencies reach, and each snapshot names the release each dependency got.
THEOREM LockfileClosed == Spec => []LockfileIsClosed
<1>1. Spec => []ClosedInv
  BY ClosedInit, ClosedStep, PTL DEF Spec
<1>2. QED BY <1>1, ClosedImplies, PTL

-----------------------------------------------------------------------------
(***************************************************************************)
(* DevMeansOnlyDev.  prod and optional are built before dev.  As long as    *)
(* they are, no flag is set; then the packages without the flag are closed  *)
(* under every edge, and no call with dev = TRUE can add one to them.       *)
(***************************************************************************)
NotDev == {r \in DOMAIN packages : ~packages[r].dev}

DevInv ==
  /\ \A f \in Elements(stack) : f.dev <=> at = 3
  /\ at \in 1..2 => NotDev = DOMAIN packages
  /\ at = 3 =>
       /\ Wanted({"prod", "optional"}) \subseteq NotDev
       /\ \A r \in NotDev : AllEdges[r] \subseteq NotDev
  /\ Within(NotDev, Wanted({"prod", "optional"}), AllEdges)

LEMMA DevInit == Init => DevInv
  BY EmptyElements DEF Init, DevInv, NotDev, Within

LEMMA NotDevEntered ==
  ASSUME NEW r, NEW dev, NEW optional, NEW callers, Entered(r, dev, optional, callers)
  PROVE  /\ dev => NotDev' = NotDev
         /\ ~dev => NotDev' = NotDev \cup {r}
<1>1. \A q \in DOMAIN packages' : q \in NotDev' <=> (q \in NotDev \/ (q = r /\ ~dev))
  BY DEF Entered, NotDev
<1>2. DOMAIN packages' = DOMAIN packages \cup {r}
  BY DEF Entered
<1>3. QED BY <1>1, <1>2 DEF NotDev

LEMMA DevStep == ClosedInv /\ DevInv /\ [Next]_vars => DevInv'
<1> SUFFICES ASSUME ClosedInv, DevInv, [Next]_vars PROVE DevInv'
  OBVIOUS
<1>a. stack \in Seq(Frames) /\ at \in 1..3
  BY DEF ClosedInv, TypeOK
<1>w. ASSUME UNCHANGED <<manifest, enabled>>
      PROVE  Wanted({"prod", "optional"})' = Wanted({"prod", "optional"})
  BY <1>w, WantedStays
<1>0. ASSUME UNCHANGED <<manifest, enabled, at, packages, stack>>
      PROVE  DevInv'
  BY <1>0, <1>w DEF DevInv, NotDev, Elements
<1>1. CASE BuildRoot /\ ~Failed
  <2>0. Elements(stack) = {}
    BY <1>1, RootStep DEF ClosedInv
  <2>1. PICK e \in roots, r \in Releases, dev \in BOOLEAN, optional \in BOOLEAN :
          /\ e \in Deps /\ r \in resolve_package_version(e)
          /\ dev <=> Order[at] = "dev"
          /\ Entered(r, dev, optional, <<>>)
          /\ UNCHANGED <<manifest, enabled, at, outcome>>
    BY <1>1, RootStep DEF ClosedInv
  <2>2. dev <=> at = 3
    BY <1>a, <2>1 DEF Order
  <2>3. \A f \in Elements(stack') : f.dev <=> at = 3
    BY <2>1, <2>2, EmptyElements DEF Entered
  <2>4. DOMAIN packages' = DOMAIN packages \cup {r}
    BY <2>1 DEF Entered
  <2>5. CASE at = 3
    <3>1. NotDev' = NotDev
      BY <2>1, <2>2, <2>5, NotDevEntered
    <3>2. QED BY <1>w, <2>1, <2>3, <2>5, <3>1 DEF DevInv
  <2>6. CASE at \in 1..2
    <3>1. NotDev' = NotDev \cup {r}
      BY <2>1, <2>2, <2>6, NotDevEntered
    <3>2. Order[at] \in {"prod", "optional"} /\ e \in RootsOf(Order[at])
      BY <2>6 DEF Order, ClosedInv, RootsRecorded
    <3>3. r \in Wanted({"prod", "optional"})
      BY <2>1, <3>2 DEF Wanted, Resolved
    <3>4. Within(NotDev', Wanted({"prod", "optional"}), AllEdges)
      BY <3>1, <3>3, WithinGrows DEF DevInv
    <3>5. QED BY <1>w, <2>1, <2>3, <2>4, <2>6, <3>1, <3>4 DEF DevInv
  <2>7. QED BY <1>a, <2>5, <2>6
<1>2. CASE NextGroup
  <2>1. /\ at \in 1..2 /\ at' = at + 1 /\ stack = <<>> /\ roots = {}
        /\ UNCHANGED <<manifest, enabled, packages, stack>>
    BY <1>2, <1>a DEF NextGroup, Order
  <2>2. NotDev' = NotDev /\ NotDev = DOMAIN packages
    BY <2>1 DEF DevInv, NotDev
  <2>3. Elements(stack') = {}
    BY <2>1, EmptyElements
  <2>4. ASSUME at = 2
        PROVE  /\ Wanted({"prod", "optional"}) \subseteq NotDev
               /\ \A r \in NotDev : AllEdges[r] \subseteq NotDev
    <3>1. /\ Resolved(RootsOf(Order[1])) \subseteq DOMAIN packages
          /\ Resolved(RootsOf(Order[2])) \subseteq DOMAIN packages
      BY <2>1, <2>4, RootsInMap
    <3>2. Order[1] = "prod" /\ Order[2] = "optional"
      BY DEF Order
    <3>3. Wanted({"prod", "optional"}) \subseteq DOMAIN packages
      BY <3>1, <3>2 DEF Wanted
    <3>4. QED BY <2>1, <2>2, <3>3, MapClosed
  <2>5. QED BY <1>w, <2>1, <2>2, <2>3, <2>4 DEF DevInv
<1>3. CASE BuildChild /\ ~Failed
  <2>0. Top \in Frames /\ Elements(stack) = Elements(Callers) \cup {Top}
    BY <1>3, <1>a, ChildStep, StackSplit DEF ClosedInv
  <2>1. PICK e \in Top.todo, r \in Releases, callers \in Seq(Frames), optional \in BOOLEAN :
          /\ e \in Deps /\ r \in resolve_package_version(e)
          /\ Elements(callers) = Elements(Callers) \cup {Walked(e, r)}
          /\ Entered(r, Top.dev, optional, callers)
          /\ UNCHANGED <<manifest, enabled, at, roots, direct, outcome>>
    BY <1>3, ChildStep DEF ClosedInv
  <2>2. (Walked(e, r).dev <=> Top.dev) /\ (Top.dev <=> at = 3)
    BY <2>0 DEF Walked, Frames, DevInv
  <2>3. \A f \in Elements(stack') : f.dev <=> at = 3
    BY <2>0, <2>1, <2>2 DEF Entered, DevInv
  <2>4. DOMAIN packages' = DOMAIN packages \cup {r}
    BY <2>1 DEF Entered
  <2>5. CASE at = 3
    <3>1. NotDev' = NotDev
      BY <2>1, <2>2, <2>5, NotDevEntered
    <3>2. QED BY <1>w, <2>1, <2>3, <2>5, <3>1 DEF DevInv
  <2>6. CASE at \in 1..2
    <3>1. NotDev' = NotDev \cup {r}
      BY <2>1, <2>2, <2>6, NotDevEntered
    <3>2. Top.package \in DOMAIN packages /\ Top.package \in Releases
      BY <2>0 DEF ClosedInv, TypeOK, Elements, Frames
    <3>3. e \in dependencies(Top.package)
      BY <2>0, <2>1 DEF ClosedInv, FramesRecorded, FrameRecorded
    <3>4. r \in AllEdges[Top.package] /\ Top.package \in NotDev
      BY <2>1, <2>6, <3>2, <3>3 DEF AllEdges, Resolved, DevInv
    <3>5. Within(NotDev', Wanted({"prod", "optional"}), AllEdges)
      BY <3>1, <3>4, WithinGrows DEF DevInv
    <3>6. QED BY <1>w, <2>1, <2>3, <2>4, <2>6, <3>1, <3>5 DEF DevInv
  <2>7. QED BY <1>a, <2>5, <2>6
<1>4. CASE Return
  <2>0. /\ Top \in Frames /\ Elements(stack) = Elements(Callers) \cup {Top}
        /\ stack' = Callers /\ UNCHANGED <<manifest, enabled, at>>
    BY <1>4, <1>a, StackSplit DEF Return
  <2>1. /\ Top.package \in DOMAIN packages
        /\ packages[Top.package] \in Snapshots
    BY <2>0 DEF ClosedInv, TypeOK, Elements
  <2>2. Top.dev <=> at = 3
    BY <2>0 DEF DevInv
  <2>3. /\ DOMAIN packages' = DOMAIN packages
        /\ \A q \in DOMAIN packages :
             packages'[q].dev <=> packages[q].dev /\ (q = Top.package => Top.dev)
    BY <1>4, <2>1 DEF Return, merge_package_flags, Snapshots
  <2>4. NotDev' = NotDev
    BY <1>a, <2>1, <2>2, <2>3 DEF NotDev, DevInv
  <2>5. QED BY <1>w, <2>0, <2>3, <2>4 DEF DevInv
<1>5. CASE Finish
  BY <1>0, <1>5 DEF Finish
<1>6. CASE UNCHANGED vars
  BY <1>0, <1>6 DEF vars
<1>7. CASE Failed
  BY <1>0, <1>7 DEF Failed
<1>8. QED BY <1>1, <1>2, <1>3, <1>4, <1>5, <1>6, <1>7 DEF Next

\* The flag dev is set on exactly the packages that neither dependencies nor
\* optionalDependencies reach.
THEOREM DevOnlyDev == Spec => []DevMeansOnlyDev
<1>1. Spec => [](ClosedInv /\ DevInv)
  BY ClosedInit, ClosedStep, DevInit, DevStep, PTL DEF Spec
<1>2. ClosedInv /\ DevInv => DevMeansOnlyDev
  <2> SUFFICES ASSUME ClosedInv, DevInv, outcome = "ok" PROVE DevMeansOnlyDev
    BY DEF DevMeansOnlyDev
  <2>1. at = 3 /\ NotDev \in SUBSET Releases
    BY DEF ClosedInv, TypeOK, NotDev
  <2>2. NotDev \subseteq Reachable(Wanted({"prod", "optional"}), AllEdges)
    BY <2>1, WithinReachable DEF DevInv
  <2>3. Reachable(Wanted({"prod", "optional"}), AllEdges) \subseteq NotDev
    BY <2>1 DEF DevInv, Reachable
  <2>4. Wanted({"prod", "optional"}) = Resolved(RootsOf("prod")) \cup Resolved(RootsOf("optional"))
    BY DEF Wanted
  <2>5. \A r \in DOMAIN packages : packages[r].dev \in BOOLEAN
    BY DEF ClosedInv, TypeOK, Snapshots
  <2>6. QED BY <2>2, <2>3, <2>4, <2>5 DEF DevMeansOnlyDev, NotDev
<1>3. QED BY <1>1, <1>2, PTL

-----------------------------------------------------------------------------
(***************************************************************************)
(* RequiredIsJustified.  Both the packages whose optional flag is unset and *)
(* the frames that would unset it are reached by required edges.            *)
(***************************************************************************)
Needed ==
  {r \in DOMAIN packages : ~packages[r].optional} \cup
  {f.package : f \in {g \in Elements(stack) : ~g.optional}}

RequiredInv == Within(Needed, Wanted({"prod", "dev"}), RequiredEdges)

LEMMA RequiredInit == Init => RequiredInv
<1> SUFFICES ASSUME Init PROVE RequiredInv
  OBVIOUS
<1>1. Elements(stack) = {} /\ DOMAIN packages = {}
  BY EmptyElements DEF Init
<1>2. QED BY <1>1 DEF RequiredInv, Needed, Within

LEMMA NeededEntered ==
  ASSUME NEW r, NEW dev, NEW optional, NEW callers, Entered(r, dev, optional, callers),
         \A f \in Elements(callers) : ~f.optional => f.package \in Needed
  PROVE  Needed' \subseteq IF optional THEN Needed ELSE Needed \cup {r}
<1>1. ASSUME NEW q \in DOMAIN packages', ~packages'[q].optional
      PROVE  q \in Needed \/ (q = r /\ ~optional)
  BY <1>1 DEF Entered, Needed
<1>2. ASSUME NEW f \in Elements(stack'), ~f.optional
      PROVE  f.package \in Needed \/ (f.package = r /\ ~optional)
  BY <1>2 DEF Entered
<1>3. \A q \in Needed' :
        \/ q \in DOMAIN packages' /\ ~packages'[q].optional
        \/ \E f \in Elements(stack') : ~f.optional /\ q = f.package
  BY DEF Needed
<1>4. QED BY <1>1, <1>2, <1>3

LEMMA RequiredStep == ClosedInv /\ RequiredInv /\ [Next]_vars => RequiredInv'
<1> SUFFICES ASSUME ClosedInv, RequiredInv, [Next]_vars PROVE RequiredInv'
  OBVIOUS
<1>a. stack \in Seq(Frames) /\ at \in 1..3
  BY DEF ClosedInv, TypeOK
<1>w. ASSUME UNCHANGED <<manifest, enabled>>, Needed' \subseteq Needed
      PROVE  RequiredInv'
  BY <1>w, WantedStays, WithinLess DEF RequiredInv
<1>x. ASSUME UNCHANGED <<manifest, enabled>>, NEW r, Needed' \subseteq Needed \cup {r},
             r \in Wanted({"prod", "dev"}) \/ \E q \in Needed : r \in RequiredEdges[q]
      PROVE  RequiredInv'
  <2>1. Within(Needed \cup {r}, Wanted({"prod", "dev"}), RequiredEdges)
    BY <1>x, WithinGrows DEF RequiredInv
  <2>2. Within(Needed', Wanted({"prod", "dev"}), RequiredEdges)
    BY <1>x, <2>1, WithinLess
  <2>3. QED BY <1>x, <2>2, WantedStays DEF RequiredInv
<1>0. ASSUME UNCHANGED <<manifest, enabled, packages, stack>>
      PROVE  RequiredInv'
  BY <1>0, <1>w DEF Needed, Elements
<1>1. CASE BuildRoot /\ ~Failed
  <2>1. PICK e \in roots, r \in Releases, dev \in BOOLEAN, optional \in BOOLEAN :
          /\ e \in Deps /\ r \in resolve_package_version(e)
          /\ optional <=> Order[at] = "optional"
          /\ Entered(r, dev, optional, <<>>)
          /\ UNCHANGED <<manifest, enabled, at, outcome>>
    BY <1>1, RootStep DEF ClosedInv
  <2>2. Needed' \subseteq IF optional THEN Needed ELSE Needed \cup {r}
    BY <2>1, EmptyElements, NeededEntered
  <2>3. CASE optional
    BY <1>w, <2>1, <2>2, <2>3
  <2>4. CASE ~optional
    <3>1. Order[at] \in {"prod", "dev"} /\ e \in RootsOf(Order[at])
      BY <1>a, <2>1, <2>4 DEF Order, ClosedInv, RootsRecorded
    <3>2. r \in Wanted({"prod", "dev"})
      BY <2>1, <3>1 DEF Wanted, Resolved
    <3>3. QED BY <1>x, <2>1, <2>2, <2>4, <3>2
  <2>5. QED BY <2>3, <2>4
<1>2. CASE NextGroup
  BY <1>0, <1>2 DEF NextGroup
<1>3. CASE BuildChild /\ ~Failed
  <2>0. Top \in Frames /\ Elements(stack) = Elements(Callers) \cup {Top}
    BY <1>3, <1>a, ChildStep, StackSplit DEF ClosedInv
  <2>1. PICK e \in Top.todo, r \in Releases, callers \in Seq(Frames), optional \in BOOLEAN :
          /\ e \in Deps /\ r \in resolve_package_version(e)
          /\ Elements(callers) = Elements(Callers) \cup {Walked(e, r)}
          /\ optional <=> child_optional(Top, e)
          /\ Entered(r, Top.dev, optional, callers)
          /\ UNCHANGED <<manifest, enabled, at, roots, direct, outcome>>
    BY <1>3, ChildStep DEF ClosedInv
  <2>2. (Walked(e, r).optional <=> Top.optional) /\ Walked(e, r).package = Top.package
    BY <2>0 DEF Walked, Frames
  <2>3. \A f \in Elements(stack) : ~f.optional => f.package \in Needed
    BY DEF Needed
  <2>4. \A f \in Elements(callers) : ~f.optional => f.package \in Needed
    BY <2>0, <2>1, <2>2, <2>3
  <2>5. Needed' \subseteq IF optional THEN Needed ELSE Needed \cup {r}
    BY <2>1, <2>4, NeededEntered
  <2>6. CASE optional
    BY <1>w, <2>1, <2>5, <2>6
  <2>7. CASE ~optional
    <3>1. /\ ~Top.optional /\ Top.package \in Releases
          /\ e.name \notin OptionalNames(Top.package)
      BY <2>0, <2>1, <2>7 DEF child_optional, OptionalNames, Frames
    <3>2. e \in dependencies(Top.package)
      BY <2>0, <2>1 DEF ClosedInv, FramesRecorded, FrameRecorded
    <3>3. r \in RequiredEdges[Top.package]
      BY <2>1, <3>1, <3>2 DEF RequiredEdges, Resolved
    <3>4. Top.package \in Needed
      BY <2>0, <2>3, <3>1
    <3>5. QED BY <1>x, <2>1, <2>5, <2>7, <3>3, <3>4
  <2>8. QED BY <2>6, <2>7
<1>4. CASE Return
  <2>0. /\ Top \in Frames /\ Elements(stack) = Elements(Callers) \cup {Top}
        /\ stack' = Callers /\ UNCHANGED <<manifest, enabled, at>>
    BY <1>4, <1>a, StackSplit DEF Return
  <2>1. /\ Top.package \in DOMAIN packages
        /\ packages[Top.package] \in Snapshots
    BY <2>0 DEF ClosedInv, TypeOK, Elements
  <2>2. /\ DOMAIN packages' = DOMAIN packages
        /\ \A q \in DOMAIN packages :
             packages'[q].optional <=> packages[q].optional /\ (q = Top.package => Top.optional)
    BY <1>4, <2>1 DEF Return, merge_package_flags, Snapshots
  <2>3. Needed' \subseteq Needed
    BY <2>0, <2>2 DEF Needed
  <2>4. QED BY <1>w, <2>0, <2>3
<1>5. CASE Finish
  BY <1>0, <1>5 DEF Finish
<1>6. CASE UNCHANGED vars
  BY <1>0, <1>6 DEF vars
<1>7. CASE Failed
  BY <1>0, <1>7 DEF Failed
<1>8. QED BY <1>1, <1>2, <1>3, <1>4, <1>5, <1>6, <1>7 DEF Next

\* The flag optional is unset only on packages the project cannot do without.
THEOREM RequiredJustified == Spec => []RequiredIsJustified
<1>1. Spec => [](ClosedInv /\ RequiredInv)
  BY ClosedInit, ClosedStep, RequiredInit, RequiredStep, PTL DEF Spec
<1>2. ClosedInv /\ RequiredInv => RequiredIsJustified
  <2> SUFFICES ASSUME ClosedInv, RequiredInv, outcome = "ok",
                      NEW r \in DOMAIN packages, ~packages[r].optional
               PROVE  r \in Required
    BY DEF RequiredIsJustified
  <2>1. r \in Needed /\ r \in Releases
    BY DEF Needed, ClosedInv, TypeOK
  <2>2. Within({r}, Wanted({"prod", "dev"}), RequiredEdges)
    BY <2>1, WithinLess DEF RequiredInv
  <2>3. r \in Reachable(Wanted({"prod", "dev"}), RequiredEdges)
    BY <2>1, <2>2, WithinReachable
  <2>4. Wanted({"prod", "dev"}) = Resolved(RootsOf("prod")) \cup Resolved(RootsOf("dev"))
    BY DEF Wanted
  <2>5. QED BY <2>3, <2>4 DEF Required
<1>3. QED BY <1>1, <1>2, PTL

-----------------------------------------------------------------------------
(* What is written is what an installer expects: GeneratedInstalls, of       *)
(* StoreAddProofs, asks no more of the lockfiles of a project.               *)

\* Links under a name lead to one package of that name in the map.
Named(map, links) ==
  \A n \in Names : /\ \A q \in links[n] : q \in map /\ q.name = n
                   /\ \A q, r \in links[n] : q = r

NamedInv ==
  /\ \A g \in Groups : Named(DOMAIN packages, direct[g])
  /\ \A r \in DOMAIN packages : Named(DOMAIN packages, packages[r].dependencies)
  /\ \A f \in Elements(stack) : Named(DOMAIN packages, f.dependencies)

LEMMA NoLinksNamed == \A map : Named(map, NoLinks)
  BY DEF Named, NoLinks

LEMMA NamedStays ==
  ASSUME NEW map, NEW larger, map \subseteq larger, NEW links, Named(map, links)
  PROVE  Named(larger, links)
  BY DEF Named

\* A dependency is recorded under the name it has asked for.
LEMMA NamedRecord ==
  ASSUME NEW map, NEW links \in Links, Named(map, links),
         NEW e \in Deps, NEW r \in resolve_package_version(e), r \in map
  PROVE  Named(map, [links EXCEPT ![e.name] = {r}])
<1> DEFINE new == [links EXCEPT ![e.name] = {r}]
<1>1. r.name = e.name
  BY DEF resolve_package_version
<1>2. \A n \in Names : new[n] = IF n = e.name THEN {r} ELSE links[n]
  BY DEF Links
<1> HIDE DEF new
<1>3. ASSUME NEW n \in Names
      PROVE  (\A q \in new[n] : q \in map /\ q.name = n) /\ (\A q, p \in new[n] : q = p)
  <2>1. CASE n = e.name
    BY <1>1, <1>2, <2>1
  <2>2. CASE n # e.name
    <3>1. new[n] = links[n]
      BY <1>2, <2>2
    <3>2. QED BY <3>1 DEF Named
  <2>3. QED BY <2>1, <2>2
<1>4. Named(map, new)
  BY <1>3 DEF Named
<1>5. QED BY <1>4 DEF new

LEMMA NamedEntered ==
  ASSUME NamedInv, NEW r, NEW dev, NEW optional, NEW callers,
         Entered(r, dev, optional, callers),
         \A f \in Elements(callers) : Named(DOMAIN packages', f.dependencies)
  PROVE  /\ \A q \in DOMAIN packages' : Named(DOMAIN packages', packages'[q].dependencies)
         /\ \A f \in Elements(stack') : Named(DOMAIN packages', f.dependencies)
<1>1. DOMAIN packages' = DOMAIN packages \cup {r}
  BY DEF Entered
<1>2. ASSUME NEW q \in DOMAIN packages' PROVE Named(DOMAIN packages', packages'[q].dependencies)
  <2>1. CASE q \in DOMAIN packages
    <3>1. packages'[q].dependencies = packages[q].dependencies
      BY <2>1 DEF Entered
    <3>2. Named(DOMAIN packages, packages[q].dependencies)
      BY <2>1 DEF NamedInv
    <3>3. QED BY <1>1, <3>1, <3>2, NamedStays
  <2>2. CASE q \notin DOMAIN packages
    <3>1. q = r /\ packages'[r].dependencies = NoLinks
      BY <1>1, <1>2, <2>2 DEF Entered
    <3>2. QED BY <3>1, NoLinksNamed
  <2>3. QED BY <2>1, <2>2
<1>3. ASSUME NEW f \in Elements(stack') PROVE Named(DOMAIN packages', f.dependencies)
  <2>1. f \in Elements(callers) \/ f.dependencies = NoLinks
    BY <1>3 DEF Entered
  <2>2. QED BY <2>1, NoLinksNamed
<1>4. QED BY <1>2, <1>3

LEMMA NamedInit == Init => NamedInv
<1> SUFFICES ASSUME Init PROVE NamedInv
  OBVIOUS
<1>1. Elements(stack) = {} /\ DOMAIN packages = {} /\ \A g \in Groups : direct[g] = NoLinks
  BY EmptyElements DEF Init
<1>2. QED BY <1>1, NoLinksNamed DEF NamedInv

LEMMA NamedStep == TypeOK /\ NamedInv /\ [Next]_vars => NamedInv'
<1> SUFFICES ASSUME TypeOK, NamedInv, [Next]_vars PROVE NamedInv'
  OBVIOUS
<1>0. ASSUME UNCHANGED <<direct, packages, stack>> PROVE NamedInv'
  BY <1>0 DEF NamedInv, Elements
<1>1. CASE BuildRoot /\ ~Failed
  <2>1. PICK e \in roots, r \in Releases, dev \in BOOLEAN, optional \in BOOLEAN :
          /\ e \in Deps /\ r \in resolve_package_version(e)
          /\ direct' = [direct EXCEPT ![Order[at]][e.name] = {r}]
          /\ Entered(r, dev, optional, <<>>)
    BY <1>1, RootStep
  <2>2. DOMAIN packages' = DOMAIN packages \cup {r}
    BY <2>1 DEF Entered
  <2>3. ASSUME NEW g \in Groups PROVE Named(DOMAIN packages', direct'[g])
    <3>1. direct[g] \in Links /\ Named(DOMAIN packages', direct[g])
      BY <2>2, NamedStays DEF TypeOK, NamedInv
    <3>2. direct'[g] = direct[g] \/ direct'[g] = [direct[g] EXCEPT ![e.name] = {r}]
      BY <2>1 DEF TypeOK
    <3>3. QED BY <2>1, <2>2, <3>1, <3>2, NamedRecord
  <2>4. QED BY <2>1, <2>3, EmptyElements, NamedEntered DEF NamedInv
<1>2. CASE NextGroup
  BY <1>0, <1>2 DEF NextGroup
<1>3. CASE BuildChild /\ ~Failed
  <2>0. Top \in Frames /\ Elements(stack) = Elements(Callers) \cup {Top}
    BY <1>3, ChildStep, StackSplit DEF TypeOK
  <2>1. PICK e \in Top.todo, r \in Releases, callers \in Seq(Frames), optional \in BOOLEAN :
          /\ e \in Deps /\ r \in resolve_package_version(e)
          /\ Elements(callers) = Elements(Callers) \cup {Walked(e, r)}
          /\ Entered(r, Top.dev, optional, callers)
          /\ UNCHANGED direct
    BY <1>3, ChildStep
  <2>2. DOMAIN packages' = DOMAIN packages \cup {r}
    BY <2>1 DEF Entered
  <2>3. \A f \in Elements(stack) : Named(DOMAIN packages', f.dependencies)
    BY <2>2, NamedStays DEF NamedInv
  <2>4. Named(DOMAIN packages', Walked(e, r).dependencies)
    <3>1. Walked(e, r).dependencies = [Top.dependencies EXCEPT ![e.name] = {r}]
      BY <2>0 DEF Walked, Frames
    <3>2. Top.dependencies \in Links /\ Named(DOMAIN packages', Top.dependencies)
      BY <2>0, <2>3 DEF Frames
    <3>3. QED BY <2>1, <2>2, <3>1, <3>2, NamedRecord
  <2>5. \A f \in Elements(callers) : Named(DOMAIN packages', f.dependencies)
    BY <2>0, <2>1, <2>3, <2>4
  <2>6. \A g \in Groups : Named(DOMAIN packages', direct'[g])
    BY <2>1, <2>2, NamedStays DEF NamedInv
  <2>7. QED BY <2>1, <2>5, <2>6, NamedEntered DEF NamedInv
<1>4. CASE Return
  <2>0. /\ Top \in Frames /\ Elements(stack) = Elements(Callers) \cup {Top}
        /\ stack' = Callers /\ UNCHANGED direct
    BY <1>4, StackSplit DEF TypeOK, Return
  <2>1. Top.package \in DOMAIN packages /\ packages[Top.package] \in Snapshots
    BY <2>0 DEF TypeOK, Elements
  <2>2. /\ DOMAIN packages' = DOMAIN packages
        /\ \A q \in DOMAIN packages : packages'[q].dependencies =
             IF q = Top.package THEN Top.dependencies ELSE packages[q].dependencies
    BY <1>4, <2>1 DEF Return, merge_package_flags, Snapshots
  <2>3. QED BY <2>0, <2>2 DEF NamedInv
<1>5. CASE Finish
  BY <1>0, <1>5 DEF Finish
<1>6. CASE UNCHANGED vars
  BY <1>0, <1>6 DEF vars
<1>7. CASE Failed
  BY <1>0, <1>7 DEF Failed
<1>8. QED BY <1>1, <1>2, <1>3, <1>4, <1>5, <1>6, <1>7 DEF Next

\* The versions recorded under names, as references: each is a path of the map.
LEMMA VersionedIs ==
  ASSUME NEW links, Named(DOMAIN packages, links), DOMAIN packages \subseteq Releases,
         Default \in Registries, "" \in Peers
  PROVE  /\ Versioned(links) \subseteq References
         /\ \A d \in Versioned(links) :
              /\ d.kind = "version" /\ d.to.name = d.name
              /\ \E q \in DOMAIN packages : d.to = dependency_path(q)
         /\ \A d, e \in Versioned(links) : d.name = e.name => d = e
<1>1. ASSUME NEW d \in Versioned(links)
      PROVE  \E n \in Names : \E q \in links[n] :
               d = [name |-> n, kind |-> "version", to |-> dependency_path(q)] /\ q.name = n
                   /\ q \in DOMAIN packages
  <2>1. PICK n \in Names : \E q \in links[n] :
          d = [name |-> n, kind |-> "version", to |-> dependency_path([name |-> n, version |-> q.version])]
    BY DEF Versioned
  <2>2. PICK q \in links[n] :
          d = [name |-> n, kind |-> "version", to |-> dependency_path([name |-> n, version |-> q.version])]
    BY <2>1
  <2>3. q \in DOMAIN packages /\ q.name = n
    BY DEF Named
  <2>4. dependency_path([name |-> n, version |-> q.version]) = dependency_path(q)
    BY <2>3 DEF dependency_path
  <2>5. QED BY <2>2, <2>3, <2>4
<1>2. ASSUME NEW q \in DOMAIN packages
      PROVE  dependency_path(q) \in DependencyPaths /\ dependency_path(q).name = q.name
  BY RegistryAssumption DEF dependency_path, DependencyPaths
<1>3. ASSUME NEW d \in Versioned(links)
      PROVE  /\ d \in References /\ d.kind = "version" /\ d.to.name = d.name
             /\ \E q \in DOMAIN packages : d.to = dependency_path(q)
  <2>1. PICK n \in Names : \E q \in links[n] :
               d = [name |-> n, kind |-> "version", to |-> dependency_path(q)] /\ q.name = n
                   /\ q \in DOMAIN packages
    BY <1>1
  <2>2. PICK q \in links[n] :
               d = [name |-> n, kind |-> "version", to |-> dependency_path(q)] /\ q.name = n
                   /\ q \in DOMAIN packages
    BY <2>1
  <2>3. dependency_path(q) \in DependencyPaths /\ dependency_path(q).name = n
    BY <1>2, <2>2
  <2>4. QED BY <2>2, <2>3 DEF References
<1>4. ASSUME NEW d \in Versioned(links), NEW e \in Versioned(links), d.name = e.name PROVE d = e
  <2>1. PICK n \in Names : \E q \in links[n] :
               d = [name |-> n, kind |-> "version", to |-> dependency_path(q)]
    BY <1>1
  <2>2. PICK q \in links[n] : d = [name |-> n, kind |-> "version", to |-> dependency_path(q)]
    BY <2>1
  <2>3. PICK m \in Names : \E r \in links[m] :
               e = [name |-> m, kind |-> "version", to |-> dependency_path(r)]
    BY <1>1
  <2>4. PICK r \in links[m] : e = [name |-> m, kind |-> "version", to |-> dependency_path(r)]
    BY <2>3
  <2>5. d.name = n /\ e.name = m
    BY <2>2, <2>4
  <2>6. n = m
    BY <1>4, <2>5
  <2>7. q = r
    BY <2>6 DEF Named
  <2>8. QED BY <2>2, <2>4, <2>6, <2>7
<1>5. QED BY <1>3, <1>4

LEMMA PathIs ==
  ASSUME NEW r
  PROVE  dependency_path(r).registry = Default /\ dependency_path(r).peers = ""
  BY DEF dependency_path

LEMMA SnapshotTyped ==
  ASSUME NEW r \in Releases, NEW kind \in {"registry", "tarball"}, NEW tarball \in [Releases -> Urls],
         NEW integrity \in [Releases -> SUBSET Integrities],
         Versioned(packages[r].dependencies) \subseteq References
  PROVE  PackageSnapshot(r, kind, tarball, integrity) \in Snapshot
<1>1. tarball[r] \in Urls /\ integrity[r] \in SUBSET Integrities
  OBVIOUS
<1>2. QED BY <1>1 DEF PackageSnapshot, Snapshot

LEMMA WrittenIs ==
  ASSUME TypeOK, NamedInv, NEW kind \in {"registry", "tarball"}, NEW tarball \in [Releases -> Urls],
         NEW integrity \in [Releases -> SUBSET Integrities], \A r \in Releases : integrity[r] # {},
         Default \in Registries, "" \in Peers,
         NEW l, l = Written(kind, tarball, integrity)
  PROVE  WellFormed(l) /\ Generated(l, tarball, integrity)
<1>0. ASSUME NEW r \in Releases
      PROVE  /\ PackageSnapshot(r, kind, tarball, integrity).resolution = kind
             /\ PackageSnapshot(r, kind, tarball, integrity).tarball = tarball[r]
             /\ PackageSnapshot(r, kind, tarball, integrity).integrity = integrity[r]
             /\ PackageSnapshot(r, kind, tarball, integrity).dependencies = Versioned(packages[r].dependencies)
             /\ PackageSnapshot(r, kind, tarball, integrity).optional = {}
  BY DEF PackageSnapshot
<1>1. DOMAIN packages \subseteq Releases /\ DOMAIN l.packages = {dependency_path(r) : r \in DOMAIN packages}
  BY DEF TypeOK, Written
<1>2. ASSUME NEW p \in DOMAIN l.packages
      PROVE  \E r \in DOMAIN packages :
               /\ r = [name |-> p.name, version |-> p.version] /\ r \in Releases
               /\ p = dependency_path(r) /\ p \in DependencyPaths
               /\ l.packages[p] = PackageSnapshot(r, kind, tarball, integrity)
  <2>1. PICK r \in DOMAIN packages : p = dependency_path(r)
    BY <1>1
  <2>2. r \in Releases /\ r.name \in Names /\ r.version \in Versions /\ r = [name |-> r.name, version |-> r.version]
    BY <1>1, RegistryAssumption
  <2>3. r = [name |-> p.name, version |-> p.version] /\ p \in DependencyPaths
    BY <2>1, <2>2 DEF dependency_path, DependencyPaths
  <2>4. l.packages[p] =
          PackageSnapshot([name |-> p.name, version |-> p.version], kind, tarball, integrity)
    BY <1>1 DEF Written
  <2>5. QED BY <2>1, <2>2, <2>3, <2>4
<1>3. l = [packages |-> l.packages, projects |-> l.projects, single |-> l.single] /\ l.single \in BOOLEAN
  BY DEF Written
<1>4. l.projects = {[g \in Groups |-> {to_virtual_store_name(ref.to) : ref \in Versioned(direct[g])}]}
  BY DEF Written
<1>5. ASSUME NEW p \in DOMAIN l.packages
      PROVE  /\ l.packages[p].dependencies \subseteq References
             /\ \A d \in l.packages[p].dependencies :
                  d.kind = "version" /\ d.to \in DOMAIN l.packages /\ d.to.name = d.name
             /\ \A d, e \in l.packages[p].dependencies : d.name = e.name => d = e
  <2>0. PICK r \in DOMAIN packages :
          r \in Releases /\ l.packages[p] = PackageSnapshot(r, kind, tarball, integrity)
    BY <1>2
  <2>1. l.packages[p].dependencies = Versioned(packages[r].dependencies)
    BY <2>0, <1>0
  <2>2. Named(DOMAIN packages, packages[r].dependencies)
    BY DEF NamedInv
  <2>3. /\ Versioned(packages[r].dependencies) \subseteq References
        /\ \A d \in Versioned(packages[r].dependencies) :
             /\ d.kind = "version" /\ d.to.name = d.name
             /\ \E q \in DOMAIN packages : d.to = dependency_path(q)
        /\ \A d, e \in Versioned(packages[r].dependencies) : d.name = e.name => d = e
    BY <1>1, <2>2, VersionedIs
  <2>4. QED BY <1>1, <2>1, <2>3
<1>6. ASSUME NEW p \in DOMAIN l.packages PROVE l.packages[p] \in Snapshot
  <2>1. PICK r \in DOMAIN packages :
          r \in Releases /\ l.packages[p] = PackageSnapshot(r, kind, tarball, integrity)
    BY <1>2
  <2>2. Versioned(packages[r].dependencies) \subseteq References
    <3>1. l.packages[p].dependencies = Versioned(packages[r].dependencies)
      BY <1>0, <2>1
    <3>2. l.packages[p].dependencies \subseteq References
      BY <1>5
    <3>3. QED BY <3>1, <3>2
  <2>3. QED BY <2>1, <2>2, SnapshotTyped
<1>7. ASSUME NEW project \in l.projects, NEW g \in Groups
      PROVE  project[g] \subseteq {to_virtual_store_name(p) : p \in DOMAIN l.packages}
  <2>1. project[g] = {to_virtual_store_name(ref.to) : ref \in Versioned(direct[g])}
    BY <1>4, <1>7
  <2>2. Named(DOMAIN packages, direct[g])
    BY DEF NamedInv
  <2>3. \A ref \in Versioned(direct[g]) : \E q \in DOMAIN packages : ref.to = dependency_path(q)
    BY <1>1, <2>2, VersionedIs
  <2>4. QED BY <1>1, <2>1, <2>3
<1>8. l.projects \subseteq Projects
  <2>1. \A p \in DOMAIN l.packages : to_virtual_store_name(p) \in Specifier
    BY <1>2 DEF to_virtual_store_name, Specifier, DependencyPaths
  <2>2. ASSUME NEW project \in l.projects PROVE project \in Projects
    <3>1. project = [g \in Groups |-> {to_virtual_store_name(ref.to) : ref \in Versioned(direct[g])}]
      BY <1>4, <2>2
    <3>2. ASSUME NEW g \in Groups PROVE project[g] \subseteq Specifier
      <4>1. project[g] \subseteq {to_virtual_store_name(p) : p \in DOMAIN l.packages}
        BY <1>7, <2>2
      <4>2. QED BY <2>1, <4>1
    <3>3. QED BY <3>1, <3>2 DEF Projects
  <2>3. QED BY <2>2
<1>9. WellFormed(l)
  <2>1. DOMAIN l.packages \subseteq DependencyPaths
    BY <1>2
  <2>2. \A p \in DOMAIN l.packages :
          \A d, e \in l.packages[p].dependencies : d.name = e.name => d = e
    BY <1>5
  <2>3. QED BY <1>3, <1>6, <1>8, <2>1, <2>2 DEF WellFormed
<1>10. ASSUME NEW p \in DOMAIN l.packages
       PROVE  LET r == [name |-> p.name, version |-> p.version]
                  s == l.packages[p]
              IN  /\ p.registry = Default /\ p.peers = "" /\ r \in Releases
                  /\ s.resolution = kind /\ s.tarball = tarball[r]
                  /\ s.integrity = integrity[r] /\ s.integrity # {}
                  /\ s.optional = {}
  <2>1. PICK r \in DOMAIN packages :
          /\ r = [name |-> p.name, version |-> p.version] /\ r \in Releases
          /\ p = dependency_path(r)
          /\ l.packages[p] = PackageSnapshot(r, kind, tarball, integrity)
    BY <1>2
  <2>2. p.registry = Default /\ p.peers = ""
    BY <2>1, PathIs
  <2>3. integrity[r] # {}
    BY <2>1
  <2>4. /\ l.packages[p].resolution = kind /\ l.packages[p].tarball = tarball[r]
        /\ l.packages[p].integrity = integrity[r] /\ l.packages[p].optional = {}
    BY <2>1, <1>0
  <2>5. QED BY <2>1, <2>2, <2>3, <2>4
<1>11. Generated(l, tarball, integrity)
  <2>1. \A p \in DOMAIN l.packages : \A d \in l.packages[p].dependencies :
          d.kind = "version" /\ d.to \in DOMAIN l.packages /\ d.to.name = d.name
    BY <1>5
  <2>2. \A project \in l.projects : \A g \in Groups :
          project[g] \subseteq {to_virtual_store_name(p) : p \in DOMAIN l.packages}
    BY <1>7
  <2>3. QED BY <1>10, <2>1, <2>2 DEF Generated
<1>12. QED BY <1>9, <1>11

\* "Resolve a [`PackageManifest`] into a pnpm-compatible lockfile": what is returned has the
\* form of a lockfile, and is Generated, from any registry, with cycles and optional and
\* peer dependencies: every version in it, direct or not, is a package of its map.
THEOREM WritesWhatInstalls ==
  ASSUME NEW kind \in {"registry", "tarball"}, NEW tarball \in [Releases -> Urls],
         NEW integrity \in [Releases -> SUBSET Integrities], \A r \in Releases : integrity[r] # {},
         Default \in Registries, "" \in Peers
  PROVE  Spec => [](LET l == Written(kind, tarball, integrity)
                    IN  outcome = "ok" => WellFormed(l) /\ Generated(l, tarball, integrity))
<1>1. Spec => [](TypeOK /\ NamedInv)
  BY TypeInit, TypeStep, NamedInit, NamedStep, PTL DEF Spec
<1>2. TypeOK /\ NamedInv =>
        LET l == Written(kind, tarball, integrity)
        IN  outcome = "ok" => WellFormed(l) /\ Generated(l, tarball, integrity)
  BY WrittenIs
<1>3. QED BY <1>1, <1>2, PTL
=============================================================================
