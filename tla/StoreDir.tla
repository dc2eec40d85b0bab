------------------------------ MODULE StoreDir ------------------------------
(***************************************************************************)
(* The content-addressable store (`crates/store-dir`, with `ensure_file` of *)
(* `crates/fs` and the extraction half of `crates/tarball`) as several      *)
(* workers see it at once.  A worker is anything that executes store code   *)
(* on its own: an extraction task spawned on the tokio pool, or another     *)
(* `pacquet` process (install, fetch, store add, store prune, store         *)
(* status) that was given the same store directory.                         *)
(*                                                                          *)
(* Nothing in the code locks the store, so every file-system call is a step *)
(* of its own: the existence check of `ensure_file`, its open, its write,   *)
(* each index file `prune` reads and each file it removes.                  *)
(*                                                                          *)
(* Operators named Seeded... are defects that a change to the code could    *)
(* introduce; no specification uses them.  Each is there to show that a     *)
(* property would notice (PROJECT.json, "mutants").                         *)
(***************************************************************************)
EXTENDS Naturals, Sequences

CONSTANTS
  Workers,      \* tasks and processes sharing the store
  Hex,          \* digests, of tarballs and of file contents alike
  Tarballs,     \* the tarball integrities, a subset of Hex
  Names,        \* paths of entries inside a tarball
  Entries,      \* Entries[t]: the tar entries of t, in archive order
  Pruners,      \* the workers that may run `store prune`
  Checkers,     \* the workers that may run `store status`
  Downloaders,  \* the workers that may store a tarball
  PruneAlone,   \* TRUE: nobody prunes while a download runs, a rule for those who
                \* run the commands; the code does not enforce it
  Faults        \* TRUE: a worker may be killed, or its I/O fail, at any step

(***************************************************************************)
(* A mode is the set of its executable bits.                                *)
(***************************************************************************)
ExecBits == {"u", "g", "o"}

Suffixes == {"", "-exec", "-index.json"}

\* Files of $STORE/v3/files: `file_path_by_hex_str(hex, suffix)`.
Paths == [hex: Hex, suffix: Suffixes]

TarEntries == [name: Names, hash: Hex, mode: SUBSET ExecBits]

ASSUME StoreAssumption ==
  /\ Tarballs \subseteq Hex /\ Tarballs # {}
  /\ Entries \in [Tarballs -> Seq(TarEntries)]
  /\ Pruners \subseteq Workers /\ Checkers \subseteq Workers
  /\ Downloaders \subseteq Workers
  /\ PruneAlone \in BOOLEAN /\ Faults \in BOOLEAN

VARIABLES
  disk,     \* disk[p]: "absent", "empty" (created, content not there), "full"
  pc,       \* where each worker is
  tarball,  \* the tarball a downloading worker stores
  entry,    \* position of its extraction loop; Len + 1 is the index file
  linked,   \* TRUE while its open file is still reachable under its path
  todo,     \* prune and status: paths the current loop has still to visit
  seen,     \* prune: referenced_files; status: unique_files
  victim,   \* prune: the path between `is_file` and `remove_file`
  held,     \* the CAS paths the download returned to its caller
  known,    \* history: the tarballs indexed when prune or status of w started
  pruned,   \* history: the files prunes removed while status of w runs
  torn      \* history: the files left without content by a worker killed or failing

vars == <<disk, pc, tarball, entry, linked, todo, seen, victim, held, known, pruned, torn>>

\* known, pruned and torn are read by no action: they let a property speak of earlier steps.
loopVars == <<todo, seen, victim, known, pruned>>

DownloadPCs == {"load", "fetch", "exists", "open", "write", "link"}
PrunePCs    == {"prune_read", "prune_visit", "prune_remove"}
StatusPCs   == {"status_read", "status_check"}

-----------------------------------------------------------------------------
(* Paths.                                                                   *)

is_all_exec(mode) == ExecBits \subseteq mode

cas_file_path(hash, executable) ==
  [hex |-> hash, suffix |-> IF executable THEN "-exec" ELSE ""]

index_file_path(integrity) == [hex |-> integrity, suffix |-> "-index.json"]

IsIndex(p) == p.suffix = "-index.json"

EntryPath(e) == cas_file_path(e.hash, is_all_exec(e.mode))

\* The entries the index of t keeps: a later entry of the same name ejects
\* an earlier one (`pkg_files_idx.files.insert`).
IndexEntries(t) ==
  {Entries[t][i] : i \in {k \in 1..Len(Entries[t]) :
     \A j \in (k + 1)..Len(Entries[t]) : Entries[t][j].name # Entries[t][k].name}}

\* What load_from_store computes from the index of t.
ReferencedBy(t) == {EntryPath(e) : e \in IndexEntries(t)}

\* What prune and status compute from it, with a mode test of their own.
SeededAnyExecBit(t) == {cas_file_path(e.hash, e.mode \cap ExecBits # {}) : e \in IndexEntries(t)}

StoreFilesOf(t) ==
  {cas_file_path(e.hash, e.mode \cap ExecBits = ExecBits) : e \in IndexEntries(t)}

Existing(p) == disk[p] # "absent"

IndexPaths == {p \in Paths : IsIndex(p) /\ Existing(p)}

CasFiles == {p \in Paths : Existing(p) /\ ~IsIndex(p)}

Indexed == {t \in Tarballs : Existing(index_file_path(t))}

\* The file the extraction loop of w is about to ensure: entries, then the index.
SeededIndexFirst(w) ==
  IF entry[w] = 1
  THEN index_file_path(tarball[w])
  ELSE EntryPath(Entries[tarball[w]][entry[w] - 1])

Target(w) ==
  IF entry[w] <= Len(Entries[tarball[w]])
  THEN EntryPath(Entries[tarball[w]][entry[w]])
  ELSE index_file_path(tarball[w])

\* w has p open.
WrittenBy(w, p) == pc[w] = "write" /\ linked[w] /\ Target(w) = p

-----------------------------------------------------------------------------
\* Locals of a worker that is not in the store code have no meaning: one value.
NoTarball == CHOOSE t \in Tarballs : TRUE
NoPath == index_file_path(NoTarball)

Init ==
  /\ disk = [p \in Paths |-> "absent"]
  /\ pc = [w \in Workers |-> "idle"]
  /\ tarball = [w \in Workers |-> NoTarball]
  /\ entry = [w \in Workers |-> 1]
  /\ linked = [w \in Workers |-> FALSE]
  /\ todo = [w \in Workers |-> {}]
  /\ seen = [w \in Workers |-> {}]
  /\ victim = [w \in Workers |-> NoPath]
  /\ held = [w \in Workers |-> {}]
  /\ known = [w \in Workers |-> {}]
  /\ pruned = [w \in Workers |-> {}]
  /\ torn = {}

Goto(w, l) == pc' = [pc EXCEPT ![w] = l]

\* The worker leaves the store code, with a result or with an error.
Return(w) ==
  /\ Goto(w, "idle")
  /\ todo' = [todo EXCEPT ![w] = {}]
  /\ seen' = [seen EXCEPT ![w] = {}]
  /\ held' = [held EXCEPT ![w] = {}]
  /\ tarball' = [tarball EXCEPT ![w] = NoTarball]
  /\ entry' = [entry EXCEPT ![w] = 1]
  /\ linked' = [linked EXCEPT ![w] = FALSE]
  /\ victim' = [victim EXCEPT ![w] = NoPath]
  /\ known' = [known EXCEPT ![w] = {}]
  /\ pruned' = [pruned EXCEPT ![w] = {}]

-----------------------------------------------------------------------------
(* DownloadTarballToStore.                                                  *)

StartDownload(w) ==
  /\ w \in Downloaders
  /\ pc[w] = "idle"
  /\ PruneAlone => \A v \in Workers : pc[v] \notin PrunePCs
  /\ Goto(w, "load")
  /\ \E t \in Tarballs : tarball' = [tarball EXCEPT ![w] = t]
  /\ UNCHANGED <<disk, torn, entry, linked, loopVars, held>>

\* load_from_store finds an index: its CAS paths are returned unverified.
ReuseIndex(w) ==
  /\ pc[w] = "load"
  /\ disk[index_file_path(tarball[w])] = "full"
  /\ held' = [held EXCEPT ![w] = ReferencedBy(tarball[w])]
  /\ Goto(w, "link")
  /\ UNCHANGED <<disk, torn, tarball, entry, linked, loopVars>>

\* The index exists without its content: serde_json fails, and so does the call.
RejectIndex(w) ==
  /\ pc[w] = "load"
  /\ disk[index_file_path(tarball[w])] = "empty"
  /\ Return(w)
  /\ UNCHANGED <<disk, torn>>

MissIndex(w) ==
  /\ pc[w] = "load"
  /\ ~Existing(index_file_path(tarball[w]))
  /\ Goto(w, "fetch")
  /\ UNCHANGED <<disk, torn, tarball, entry, linked, loopVars, held>>

\* Body received, integrity checked, archive decoded: the loop starts.
FetchOk(w) ==
  /\ pc[w] = "fetch"
  /\ entry' = [entry EXCEPT ![w] = 1]
  /\ Goto(w, "exists")
  /\ UNCHANGED <<disk, torn, tarball, linked, loopVars, held>>

\* Offline cache miss, network error, checksum mismatch, undecodable archive.
FetchFails(w) ==
  /\ pc[w] = "fetch"
  /\ Return(w)
  /\ UNCHANGED <<disk, torn>>

\* ensure_file returned Ok: next entry, then the index file, then the caller.
NextEntry(w) ==
  IF entry[w] <= Len(Entries[tarball[w]])
  THEN /\ entry' = [entry EXCEPT ![w] = @ + 1]
       /\ Goto(w, "exists")
       /\ UNCHANGED held
  ELSE /\ held' = [held EXCEPT ![w] = ReferencedBy(tarball[w])]
       /\ Goto(w, "link")
       /\ UNCHANGED entry

SeededWaitForContent(w) ==
  /\ pc[w] = "exists"
  /\ disk[Target(w)] # "empty"
  /\ IF Existing(Target(w))
     THEN NextEntry(w)
     ELSE Goto(w, "open") /\ UNCHANGED <<entry, held>>
  /\ UNCHANGED <<disk, torn, tarball, linked, loopVars>>

\* ensure_file, `if file_path.exists()`.
EnsureExists(w) ==
  /\ pc[w] = "exists"
  /\ IF Existing(Target(w))
     THEN NextEntry(w)
     ELSE Goto(w, "open") /\ UNCHANGED <<entry, held>>
  /\ UNCHANGED <<disk, torn, tarball, linked, loopVars>>

\* ensure_file, open with write + create: no truncation, no create_new.
EnsureOpen(w) ==
  /\ pc[w] = "open"
  /\ disk' = [disk EXCEPT ![Target(w)] = IF @ = "absent" THEN "empty" ELSE @]
  /\ linked' = [linked EXCEPT ![w] = TRUE]
  /\ Goto(w, "write")
  /\ UNCHANGED <<torn, tarball, entry, loopVars, held>>

SeededUnflushedWrite(w) ==
  /\ pc[w] = "write"
  /\ linked' = [linked EXCEPT ![w] = FALSE]
  /\ NextEntry(w)
  /\ UNCHANGED <<disk, torn, tarball, loopVars>>

\* ensure_file, write_all.  A file unlinked since the open is lost.
EnsureWrite(w) ==
  /\ pc[w] = "write"
  /\ IF linked[w]
     THEN disk' = [disk EXCEPT ![Target(w)] = "full"] /\ torn' = torn \ {Target(w)}
     ELSE UNCHANGED <<disk, torn>>
  /\ linked' = [linked EXCEPT ![w] = FALSE]
  /\ NextEntry(w)
  /\ UNCHANGED <<tarball, loopVars>>

\* The caller links the returned files into the virtual store and is done.
LinkHeld(w) ==
  /\ pc[w] = "link"
  /\ Return(w)
  /\ UNCHANGED <<disk, torn>>

\* SIGKILL, panic, power loss, or `?` on a full disk, between any two calls.
Abort(w) ==
  /\ Faults
  /\ pc[w] # "idle"
  /\ torn' = torn \cup {p \in Paths : WrittenBy(w, p) /\ disk[p] = "empty"}
  /\ Return(w)
  /\ UNCHANGED disk

-----------------------------------------------------------------------------
(* StoreDir::prune.                                                         *)

\* prune_index_file_paths.
StartPrune(w) ==
  /\ w \in Pruners
  /\ pc[w] = "idle"
  /\ PruneAlone => \A v \in Workers : pc[v] \notin DownloadPCs
  /\ todo' = [todo EXCEPT ![w] = IndexPaths]
  /\ known' = [known EXCEPT ![w] = Indexed]
  /\ Goto(w, "prune_read")
  /\ UNCHANGED <<disk, torn, tarball, entry, linked, seen, victim, held, pruned>>

SeededSkipUnparsable(w) ==
  \E t \in Tarballs :
    /\ index_file_path(t) \in todo[w]
    /\ todo' = [todo EXCEPT ![w] = @ \ {index_file_path(t)}]
    /\ seen' = [seen EXCEPT ![w] =
         IF disk[index_file_path(t)] = "full" THEN @ \cup StoreFilesOf(t) ELSE @]
    /\ UNCHANGED <<pc, tarball, entry, linked, victim, held, known, pruned>>

\* One turn of the loops of referenced_store_files and of status: read an
\* index, fail if it does not parse, add what it references.
ReadIndex(w) ==
  \E t \in Tarballs :
    /\ index_file_path(t) \in todo[w]
    /\ IF disk[index_file_path(t)] = "full"
       THEN /\ todo' = [todo EXCEPT ![w] = @ \ {index_file_path(t)}]
            /\ seen' = [seen EXCEPT ![w] = @ \cup StoreFilesOf(t)]
            /\ UNCHANGED <<pc, tarball, entry, linked, victim, held, known, pruned>>
       ELSE Return(w)

PruneRead(w) ==
  /\ pc[w] = "prune_read"
  /\ ReadIndex(w)
  /\ UNCHANGED <<disk, torn>>

\* remove_orphan_cas_files starts to list the directories only now.
PruneList(w) ==
  /\ pc[w] = "prune_read"
  /\ todo[w] = {}
  /\ todo' = [todo EXCEPT ![w] = CasFiles]
  /\ Goto(w, "prune_visit")
  /\ UNCHANGED <<disk, torn, tarball, entry, linked, seen, victim, held, known, pruned>>

SeededKeepEmptyFiles(w, p) == disk[p] # "full" \/ p \in seen[w]

\* `!path.is_file() || .. || referenced_files.contains(&path)`.
PruneSkips(w, p) == ~Existing(p) \/ p \in seen[w]

\* What is there when the walk begins is visited; of what comes later, the files
\* that readdir still returns.
PruneVisit(w) ==
  /\ pc[w] = "prune_visit"
  /\ \E p \in todo[w] \cup CasFiles :
       /\ todo' = [todo EXCEPT ![w] = @ \ {p}]
       /\ IF PruneSkips(w, p)
          THEN UNCHANGED <<pc, victim>>
          ELSE Goto(w, "prune_remove") /\ victim' = [victim EXCEPT ![w] = p]
  /\ UNCHANGED <<disk, torn, tarball, entry, linked, seen, held, known, pruned>>

\* fs::remove_file; it fails if another prune was faster.
PruneRemove(w) ==
  /\ pc[w] = "prune_remove"
  /\ IF Existing(victim[w])
     THEN /\ disk' = [disk EXCEPT ![victim[w]] = "absent"]
          /\ torn' = torn \ {victim[w]}
          /\ linked' = [v \in Workers |->
               linked[v] /\ ~(pc[v] = "write" /\ Target(v) = victim[w])]
          /\ Goto(w, "prune_visit")
          /\ victim' = [victim EXCEPT ![w] = NoPath]
          /\ pruned' = [v \in Workers |->
               IF pc[v] \in StatusPCs THEN pruned[v] \cup {victim[w]} ELSE pruned[v]]
          /\ UNCHANGED <<tarball, entry, todo, seen, held, known>>
     ELSE Return(w) /\ UNCHANGED <<disk, torn>>

\* clear_tmp_dir finds nothing: no code writes to $STORE/v3/tmp.
PruneFinish(w) ==
  /\ pc[w] = "prune_visit"
  /\ todo[w] = {}
  /\ Return(w)
  /\ UNCHANGED <<disk, torn>>

-----------------------------------------------------------------------------
(* StoreDir::status.                                                        *)

StartStatus(w) ==
  /\ w \in Checkers
  /\ pc[w] = "idle"
  /\ todo' = [todo EXCEPT ![w] = IndexPaths]
  /\ known' = [known EXCEPT ![w] = Indexed]
  /\ Goto(w, "status_read")
  /\ UNCHANGED <<disk, torn, tarball, entry, linked, seen, victim, held, pruned>>

StatusRead(w) ==
  /\ pc[w] = "status_read"
  /\ ReadIndex(w)
  /\ UNCHANGED <<disk, torn>>

StatusVerify(w) ==
  /\ pc[w] = "status_read"
  /\ todo[w] = {}
  /\ todo' = [todo EXCEPT ![w] = seen[w]]
  /\ Goto(w, "status_check")
  /\ UNCHANGED <<disk, torn, tarball, entry, linked, seen, victim, held, known, pruned>>

SeededExistenceOnly(p) == Existing(p)

\* fs::read and integrity.check: ReadStoreFile if absent, VerifyStoreFile if empty.
Verifies(p) == disk[p] = "full"

\* One turn of unique_files.par_iter().try_for_each.
StatusCheck(w) ==
  /\ pc[w] = "status_check"
  /\ \E p \in todo[w] :
       IF Verifies(p)
       THEN /\ todo' = [todo EXCEPT ![w] = @ \ {p}]
            /\ UNCHANGED <<pc, tarball, entry, linked, seen, victim, held, known, pruned>>
       ELSE Return(w)
  /\ UNCHANGED <<disk, torn>>

\* Ok(StoreStatus { .. })
StatusFinish(w) ==
  /\ pc[w] = "status_check"
  /\ todo[w] = {}
  /\ Return(w)
  /\ UNCHANGED <<disk, torn>>

-----------------------------------------------------------------------------
\* The steps of a command already started: what the scheduler owes w.
Step(w) ==
  \/ ReuseIndex(w) \/ RejectIndex(w) \/ MissIndex(w)
  \/ FetchOk(w) \/ FetchFails(w)
  \/ EnsureExists(w) \/ EnsureOpen(w) \/ EnsureWrite(w) \/ LinkHeld(w)
  \/ PruneRead(w) \/ PruneList(w) \/ PruneVisit(w) \/ PruneRemove(w) \/ PruneFinish(w)
  \/ StatusRead(w) \/ StatusVerify(w) \/ StatusCheck(w) \/ StatusFinish(w)

Next ==
  \E w \in Workers :
    \/ StartDownload(w) \/ StartPrune(w) \/ StartStatus(w)
    \/ Step(w)
    \/ Abort(w)

\* Threads and processes are scheduled preemptively and file-system calls return.
Fairness == \A w \in Workers : WF_vars(Step(w))

Spec == Init /\ [][Next]_vars

FairSpec == Spec /\ Fairness

-----------------------------------------------------------------------------
(* Properties.                                                              *)

TypeOK ==
  /\ disk \in [Paths -> {"absent", "empty", "full"}]
  /\ pc \in [Workers -> {"idle"} \cup DownloadPCs \cup PrunePCs \cup StatusPCs]
  /\ tarball \in [Workers -> Tarballs]
  /\ entry \in [Workers -> Nat \ {0}]
  /\ linked \in [Workers -> BOOLEAN]
  /\ todo \in [Workers -> SUBSET Paths]
  /\ seen \in [Workers -> SUBSET Paths]
  /\ victim \in [Workers -> Paths]
  /\ held \in [Workers -> SUBSET Paths]
  /\ known \in [Workers -> SUBSET Tarballs]
  /\ pruned \in [Workers -> SUBSET Paths]
  /\ torn \in SUBSET Paths

\* A live worker has p open and will give it its content.
BeingWritten(p) == \E w \in Workers : WrittenBy(w, p)

Backed(p) == disk[p] = "full" \/ (disk[p] = "empty" /\ (BeingWritten(p) \/ p \in torn))

\* Whatever an index file on disk references, and whatever a download handed to
\* its caller, is in the store with its content, or is just being given it by a
\* worker that is alive, or is without it only because the worker that created it
\* was killed or failed before the write: the index is written last, and no store
\* code undoes a CAS file another worker counted on.
IndexedFilesBacked ==
  /\ \A t \in Tarballs :
       Existing(index_file_path(t)) => \A p \in ReferencedBy(t) : Backed(p)
  /\ \A w \in Workers : \A p \in held[w] : Backed(p)

\* A prune removes no index, and no file that an index references which was on disk
\* when it listed them, whatever is downloaded, pruned, killed or failing meanwhile: it
\* reads every index of that list, in any order, before it removes anything.
PruneKeepsKnown ==
  [][\A w \in Workers : PruneRemove(w) =>
       \A p \in Paths : Existing(p) /\ disk'[p] = "absent" =>
         ~IsIndex(p) /\ \A t \in known[w] : p \notin ReferencedBy(t)]_vars

\* `prune` is documented to "Remove store files that are not referenced by any
\* tarball index": a file it removes is referenced by no index at that moment.
PruneKeepsReferenced ==
  [][\A w \in Workers : PruneRemove(w) =>
       \A p \in Paths : Existing(p) /\ disk'[p] = "absent" =>
         \A t \in Tarballs :
           disk[index_file_path(t)] = "full" => p \notin ReferencedBy(t)]_vars

\* When `prune` returns Ok, every CAS file that is left is referenced by an index
\* (with nobody downloading meanwhile): files ejected by a duplicate entry and
\* the leavings of killed downloads are gone.
PruneLeavesNoOrphan ==
  [][\A w \in Workers : PruneFinish(w) =>
       \A p \in Paths : Existing(p) /\ ~IsIndex(p) =>
         \E t \in Tarballs :
           disk[index_file_path(t)] = "full" /\ p \in ReferencedBy(t)]_vars

\* When `status` returns Ok, every file referenced by an index that existed when
\* it started has its content at that moment, but for those a prune removed while
\* it ran, although it reads the indexes and the files one at a time while others
\* download, prune, fail and are killed.
StatusOkMeansIntact ==
  [][\A w \in Workers : StatusFinish(w) =>
       \A t \in known[w] : \A p \in ReferencedBy(t) :
         disk[p] = "full" \/ p \in pruned[w]]_vars

\* Every command comes back: no loop over the store revisits what it has seen.
EveryCommandReturns == \A w \in Workers : pc[w] # "idle" ~> pc[w] = "idle"

\* "This subroutine downloads and extracts a tarball to the store directory. It
\* returns a CAS map of files in the tarball": the files of the map it returns
\* are there, with their content, when it returns.
ReturnedFilesComplete ==
  \A w \in Workers : \A p \in held[w] : disk[p] = "full"

\* With every worker at rest, a file on disk has its content, so that the next
\* `ensure_file` may take "it already exists" for "it is stored"; but not one whose
\* worker was killed or failed between the open and the write.
RestingStoreComplete ==
  (\A w \in Workers : pc[w] = "idle") => \A p \in Paths : disk[p] = "empty" => p \in torn

-----------------------------------------------------------------------------
(* The store is a PackageStore as long as nobody prunes during a download.  *)

Promise == INSTANCE PackageStore WITH
  Users <- Workers, Files <- {p \in Paths : ~IsIndex(p)}, Packages <- Tarballs,
  FilesOf <- [t \in Tarballs |-> ReferencedBy(t)],
  files <- CasFiles, packages <- Indexed, given <- held

\* Every behaviour of the store, kills at any step included, is one of a PackageStore:
\* the index is written after the files, a download hands out only what is there, and
\* no prune takes it away again.
ImplementsPackageStore == Promise!Spec
=============================================================================
