------------------------------ MODULE StoreAdd ------------------------------
(***************************************************************************)
(* `pacquet store add`: StoreAdd, on the metadata cache of                  *)
(* fetch_package_metadata, beside the commands of LockfileInstall that      *)
(* install from the store it fills.                                         *)
(*                                                                          *)
(* The metadata that a loop needs are requested together, one OnceCell per  *)
(* name: the first request asks the registry, the others wait, and when it  *)
(* fails the next asks again.  What they resolve to is stored one package   *)
(* after the other, depth first, and the first error ends the command.      *)
(***************************************************************************)
EXTENDS LockfileInstall, Sequences

CONSTANTS
  Answers,      \* Answers[n]: the metadata the registry may answer with, {} if none
  IntegrityOf,  \* IntegrityOf[r]: the integrity in the metadata of a release, in a set
  Arguments     \* the sets of packages users add

Specs == [name: Names, spec: Specifiers]

Declared(r) == {[name |-> d.name, spec |-> d.spec] : d \in dependencies(r)}

Asked == (UNION Arguments) \cup (UNION {Declared(r) : r \in Releases})

ASSUME AddAssumption ==
  /\ Answers \in [Names -> SUBSET AllMetadata]
  /\ \A n \in Names : Answers[n] \subseteq Metadata(n)
  /\ IntegrityOf \in [Releases -> SUBSET Integrities]
  /\ Arguments \subseteq SUBSET Specs

VARIABLES
  adding,    \* "no", "metadata", "next", "tarball", or "ok" when it has ended well
  arguments, \* what the command was given
  request,   \* request[e]: where the future for a package and specifier is
  cell,      \* cell[n]: the OnceCell of RegistryMetadataCache, {} before it is set
  stack,     \* what the `for` loops of the recursion have left
  current,   \* the package whose tarball or dependencies are awaited, in a set
  resolved   \* ResolvedPackages

loops == <<stack, current, resolved>>
addVars == <<adding, arguments, request, cell, loops>>
allVars == <<vars, addVars>>

AddEnded == adding \in {"no", "ok"}

AddInit ==
  /\ Init
  /\ adding = "no" /\ arguments = {}
  /\ request = [e \in Asked |-> "none"]
  /\ cell = [n \in Names |-> {}]
  /\ stack = <<>> /\ current = {} /\ resolved = {}

-----------------------------------------------------------------------------
Requests(specs) == request' = [e \in Asked |-> IF e \in specs THEN "new" ELSE "none"]

NewMemory == cell' = [n \in Names |-> {}] /\ stack' = <<>> /\ current' = {} /\ resolved' = {}

\* Err, panic or kill.
AddStops == adding' = "no" /\ arguments' = {} /\ Requests({}) /\ NewMemory

StartAdd ==
  /\ Ended /\ AddEnded
  /\ Stop
  /\ arguments' \in Arguments
  /\ adding' = "metadata" /\ Requests(arguments') /\ NewMemory
  /\ UNCHANGED disk

\* version_by_specifier of the metadata that the future awaited, which are in the cell
\* then; it panics on what it cannot parse.
Resolve(e, m) ==
  IF e.spec.kind = "unparsable" THEN AddStops
  ELSE /\ request' = [request EXCEPT ![e] =
            IF version_by_specifier(m, e.spec) = {} THEN "failed" ELSE "found"]
       /\ cell' = [cell EXCEPT ![e.name] = {m}]
       /\ UNCHANGED <<adding, arguments, loops>>

SeededAskAgain(e) ==
  /\ adding = "metadata" /\ request[e] = "new"
  /\ request' = [request EXCEPT ![e] = "fetching"]
  /\ UNCHANGED <<vars, adding, arguments, cell, loops>>

SeededAskOnce(e) ==
  /\ adding = "metadata" /\ request[e] = "new"
  /\ cell[e.name] = {}
  /\ \A other \in Asked : request[other] \in {"fetching", "failed"} => other.name # e.name
  /\ request' = [request EXCEPT ![e] = "fetching"]
  /\ UNCHANGED <<vars, adding, arguments, cell, loops>>

\* get_or_try_init by the first, or by the next after it failed.
Ask(e) ==
  /\ adding = "metadata" /\ request[e] = "new"
  /\ cell[e.name] = {}
  /\ \A other \in Asked : request[other] = "fetching" => other.name # e.name
  /\ request' = [request EXCEPT ![e] = "fetching"]
  /\ UNCHANGED <<vars, adding, arguments, cell, loops>>

\* It is there already, or another has set it.
Cached(e) ==
  /\ adding = "metadata" /\ request[e] = "new"
  /\ \E m \in cell[e.name] : Resolve(e, m)
  /\ UNCHANGED vars

Answered(e) ==
  /\ adding = "metadata" /\ request[e] = "fetching"
  /\ \E m \in Answers[e.name] : Resolve(e, m)
  /\ UNCHANGED vars

Unanswered(e) ==
  /\ adding = "metadata" /\ request[e] = "fetching"
  /\ Faults \/ Answers[e.name] = {}
  /\ request' = [request EXCEPT ![e] = "failed"]
  /\ UNCHANGED <<vars, adding, arguments, cell, loops>>

\* The release that a package and specifier stand for in this command, in a set.
Release(e) ==
  {[name |-> e.name, version |-> v] : v \in UNION {version_by_specifier(m, e.spec) : m \in cell[e.name]}}

\* After the join_all: the first error, or another loop.
Gathered ==
  /\ adding = "metadata"
  /\ \A e \in Asked : request[e] \in {"none", "found", "failed"}
  /\ IF \E e \in Asked : request[e] = "failed" THEN AddStops
     ELSE /\ adding' = "next" /\ current' = {} /\ Requests({})
          /\ stack' = <<UNION {Release(e) : e \in {d \in Asked : request[d] = "found"}}>> \o stack
          /\ UNCHANGED <<arguments, cell, resolved>>
  /\ UNCHANGED vars

-----------------------------------------------------------------------------
\* store_package_and_dependencies up to its first await.
Store(r) ==
  IF r \in resolved THEN UNCHANGED <<adding, current, resolved>>
  ELSE /\ resolved' = resolved \cup {r}
       /\ adding' = "tarball" /\ current' = {r}

\* A turn of the innermost loop, or its end.
NextPackage ==
  /\ adding = "next" /\ stack # <<>>
  /\ \/ /\ Head(stack) = {}
        /\ stack' = Tail(stack)
        /\ UNCHANGED <<adding, current, resolved>>
     \/ \E r \in Head(stack) :
          /\ stack' = [stack EXCEPT ![1] = @ \ {r}]
          /\ Store(r)
  /\ UNCHANGED <<vars, arguments, request, cell>>

AddDone ==
  /\ adding = "next" /\ stack = <<>>
  /\ adding' = "ok"
  /\ UNCHANGED <<vars, arguments, request, cell, loops>>

\* run_with_mem_cache, from the index file in the store or from the registry; `expect`
\* panics without integrity.
Tarball(r) ==
  /\ adding = "tarball" /\ r \in current
  /\ IF IntegrityOf[r] = {} THEN AddStops /\ UNCHANGED store
     ELSE /\ store' = store \cup IntegrityOf[r]
          /\ adding' = "metadata" /\ Requests(Declared(r))
          /\ UNCHANGED <<arguments, cell, loops>>
  /\ UNCHANGED <<virtual, content, link, run, phase, walk, pc, memory>>

TarballFails(r) ==
  /\ Faults
  /\ adding = "tarball" /\ r \in current /\ ~(IntegrityOf[r] \subseteq store)
  /\ AddStops
  /\ UNCHANGED vars

\* SIGKILL.
KillAdd ==
  /\ Faults /\ ~AddEnded
  /\ AddStops
  /\ UNCHANGED vars

-----------------------------------------------------------------------------
AddStep ==
  \/ \E e \in Asked : Ask(e) \/ Cached(e) \/ Answered(e) \/ Unanswered(e)
  \/ Gathered \/ NextPackage \/ AddDone
  \/ \E r \in Releases : Tarball(r) \/ TarballFails(r)

\* Another command starts when `store add` has ended.
OtherCommand ==
  /\ AddEnded /\ Next
  /\ adding' = "no" /\ arguments' = {} /\ Requests({}) /\ NewMemory

AddNext == StartAdd \/ AddStep \/ KillAdd \/ OtherCommand

AddFairness == Fairness /\ WF_allVars(AddStep)

AddSpec == AddInit /\ [][AddNext]_allVars
FairAddSpec == AddSpec /\ AddFairness

-----------------------------------------------------------------------------
AddTypeOK ==
  /\ TypeOK
  /\ adding \in {"no", "metadata", "next", "tarball", "ok"}
  /\ arguments \in {{}} \cup Arguments
  /\ request \in [Asked -> {"none", "new", "fetching", "found", "failed"}]
  /\ cell \in [Names -> SUBSET AllMetadata]
  /\ stack \in Seq(SUBSET Releases)
  /\ current \in SUBSET Releases /\ resolved \in SUBSET Releases

\* What the command has asked for.
Wanted == arguments \cup UNION {Declared(r) : r \in resolved}

\* "Populate the store with packages and their transitive dependencies": when the
\* command succeeds the arguments, and the dependencies of each release it resolved, are
\* resolved by one answer of the registry per name, nothing else is, and every release
\* is in the store, through cycles, diamonds and requests that failed.
AddedIsStored ==
  adding = "ok" =>
    /\ \A e \in Wanted : Release(e) # {}
    /\ resolved = UNION {Release(e) : e \in Wanted}
    /\ \A r \in resolved : IntegrityOf[r] # {} /\ IntegrityOf[r] \subseteq store

\* Every command ends: no metadata request waits for a name that nobody asks for, and
\* CommandEnds.
EveryCommandEnds == CommandEnds /\ (~AddEnded ~> AddEnded)

\* The releases that an answer of the registry may make of a package and specifier.
Candidates ==
  [e \in Asked |-> {[name |-> e.name, version |-> v] :
     v \in UNION {version_by_specifier(m, e.spec) : m \in Answers[e.name]}}]

Closure == INSTANCE DependencyClosure WITH
  Edges <- Asked, Needs <- [r \in Releases |-> Declared(r)], Goals <- Arguments,
  status <- IF adding = "no" THEN "off" ELSE IF adding = "ok" THEN "ok" ELSE "on",
  wanted <- arguments, chosen <- [e \in Asked |-> Release(e)]

\* Every behaviour of `store add`, requests that fail and are asked again included, is one
\* of a DependencyClosure: two edges of a name are settled by one answer, which no later
\* one replaces, and a release is taken only when something needs it.
ImplementsDependencyClosure == Closure!Spec
=============================================================================
