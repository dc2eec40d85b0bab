--------------------------- MODULE StoreDirProofs ---------------------------
(***************************************************************************)
(* Theorems about StoreDir for any number of workers, tarballs and entries. *)
(***************************************************************************)
EXTENDS StoreDir, TLAPS

\* The hex string of a tarball names its index, and only an index is named so.
LEMMA IndexPathFacts ==
  ASSUME NEW t \in Tarballs
  PROVE  index_file_path(t) \in Paths /\ IsIndex(index_file_path(t))
  BY StoreAssumption, Zenon DEF index_file_path, Paths, Suffixes, IsIndex

\* Two tarballs have two index files.
LEMMA IndexPathInjective ==
  ASSUME NEW t \in Tarballs, NEW u \in Tarballs, index_file_path(t) = index_file_path(u)
  PROVE  t = u
<1>1. index_file_path(t).hex = t /\ index_file_path(u).hex = u
  BY DEF index_file_path
<1>2. QED BY <1>1

\* The file of an entry is a file of the store, and never an index.
LEMMA TarEntryFacts ==
  ASSUME NEW e \in TarEntries
  PROVE  EntryPath(e) \in Paths /\ ~IsIndex(EntryPath(e))
<1>1. PICK s \in {"", "-exec"} : EntryPath(e) = [hex |-> e.hash, suffix |-> s]
  <2>1. CASE is_all_exec(e.mode)
    BY <2>1 DEF EntryPath, cas_file_path
  <2>2. CASE ~is_all_exec(e.mode)
    BY <2>2 DEF EntryPath, cas_file_path
  <2>3. QED BY <2>1, <2>2
<1>2. e.hash \in Hex
  BY DEF TarEntries
<1> DEFINE p == EntryPath(e)
<1>3. p = [hex |-> e.hash, suffix |-> s]
  BY <1>1
<1> HIDE DEF p
<1>4. p \in Paths /\ p.suffix = s
  BY <1>2, <1>3 DEF Paths, Suffixes
<1>5. ~IsIndex(p)
  BY <1>4 DEF IsIndex
<1>6. QED BY <1>4, <1>5 DEF p

LEMMA EntryPathFacts ==
  ASSUME NEW t \in Tarballs, NEW i \in 1..Len(Entries[t])
  PROVE  EntryPath(Entries[t][i]) \in Paths /\ ~IsIndex(EntryPath(Entries[t][i]))
<1>1. Entries[t] \in Seq(TarEntries)
  BY StoreAssumption
<1>2. Entries[t][i] \in TarEntries
  BY <1>1
<1>3. QED BY <1>2, TarEntryFacts

\* An index references entries of its tarball, hence files of the store.
LEMMA ReferencedFacts ==
  ASSUME NEW t \in Tarballs, NEW p \in ReferencedBy(t)
  PROVE  /\ \E i \in 1..Len(Entries[t]) : p = EntryPath(Entries[t][i])
         /\ p \in Paths
         /\ ~IsIndex(p)
<1>1. \E i \in 1..Len(Entries[t]) : p = EntryPath(Entries[t][i])
  BY DEF ReferencedBy, IndexEntries
<1>2. QED BY <1>1, EntryPathFacts

\* prune and status test the mode of an entry in their own words; they mean what
\* the code that stored the entry meant.
LEMMA SameReferences ==
  ASSUME NEW t \in Tarballs
  PROVE  StoreFilesOf(t) = ReferencedBy(t)
<1>1. ASSUME NEW e \in IndexEntries(t)
      PROVE  (e.mode \cap ExecBits = ExecBits) = is_all_exec(e.mode)
  BY DEF is_all_exec
<1>2. ASSUME NEW e \in IndexEntries(t)
      PROVE  cas_file_path(e.hash, e.mode \cap ExecBits = ExecBits) = EntryPath(e)
  BY <1>1 DEF EntryPath
<1>3. QED BY <1>2, Zenon DEF StoreFilesOf, ReferencedBy

\* What the extraction loop ensures is a file of the store.
LEMMA TargetIsPath ==
  ASSUME TypeOK, NEW w \in Workers,
         entry[w] <= Len(Entries[tarball[w]]) + 1
  PROVE  Target(w) \in Paths
<1>1. tarball[w] \in Tarballs /\ entry[w] \in Nat \ {0}
  BY DEF TypeOK
<1>2. CASE entry[w] <= Len(Entries[tarball[w]])
  <2>1. entry[w] \in 1..Len(Entries[tarball[w]])
    BY <1>1, <1>2, StoreAssumption
  <2>2. QED BY <1>1, <1>2, <2>1, EntryPathFacts DEF Target
<1>3. CASE ~(entry[w] <= Len(Entries[tarball[w]]))
  BY <1>1, <1>3, IndexPathFacts DEF Target
<1>4. QED BY <1>2, <1>3
-----------------------------------------------------------------------------
LEMMA NoJobFacts == NoTarball \in Tarballs /\ NoPath \in Paths
<1>1. NoTarball \in Tarballs
  BY StoreAssumption DEF NoTarball
<1>2. QED BY <1>1, IndexPathFacts DEF NoPath

\* Leaving the store code resets a worker to well-typed values.
LEMMA ReturnTypeOK ==
  ASSUME TypeOK, NEW w \in Workers, Return(w), UNCHANGED disk, torn' \in SUBSET Paths
  PROVE  TypeOK'
  BY NoJobFacts DEF TypeOK, Return, Goto

\* One turn of the extraction loop keeps the types.
LEMMA NextEntryTypeOK ==
  ASSUME TypeOK, NEW w \in Workers, NextEntry(w)
  PROVE  /\ entry' \in [Workers -> Nat \ {0}]
         /\ pc' \in [Workers -> {"idle"} \cup DownloadPCs \cup PrunePCs \cup StatusPCs]
         /\ held' \in [Workers -> SUBSET Paths]
<1>1. CASE entry[w] <= Len(Entries[tarball[w]])
  <2>1. /\ entry' = [entry EXCEPT ![w] = @ + 1]
        /\ pc' = [pc EXCEPT ![w] = "exists"]
        /\ held' = held
    BY <1>1 DEF NextEntry, Goto
  <2>2. entry[w] + 1 \in Nat \ {0}
    BY DEF TypeOK
  <2>3. QED BY <2>1, <2>2 DEF TypeOK, DownloadPCs
<1>2. CASE ~(entry[w] <= Len(Entries[tarball[w]]))
  <2>1. tarball[w] \in Tarballs
    BY DEF TypeOK
  <2>2. ReferencedBy(tarball[w]) \in SUBSET Paths
    BY <2>1, ReferencedFacts
  <2>3. QED BY <1>2, <2>2 DEF TypeOK, NextEntry, Goto, DownloadPCs
<1>3. QED BY <1>1, <1>2

\* Reading an index adds files of the store to what a loop has seen.
LEMMA ReadIndexTypeOK ==
  ASSUME TypeOK, NEW w \in Workers, ReadIndex(w), UNCHANGED <<disk, torn>>
  PROVE  TypeOK'
<1>1. PICK t \in Tarballs :
        /\ index_file_path(t) \in todo[w]
        /\ IF disk[index_file_path(t)] = "full"
           THEN /\ todo' = [todo EXCEPT ![w] = @ \ {index_file_path(t)}]
                /\ seen' = [seen EXCEPT ![w] = @ \cup StoreFilesOf(t)]
                /\ UNCHANGED <<pc, tarball, entry, linked, victim, held, known, pruned>>
           ELSE Return(w)
  BY DEF ReadIndex
<1>2. CASE disk[index_file_path(t)] = "full"
  <2>1. StoreFilesOf(t) \in SUBSET Paths
    BY SameReferences, ReferencedFacts
  <2>2. /\ todo' = [todo EXCEPT ![w] = @ \ {index_file_path(t)}]
        /\ seen' = [seen EXCEPT ![w] = @ \cup StoreFilesOf(t)]
        /\ UNCHANGED <<pc, tarball, entry, linked, victim, held, known, pruned>>
    BY <1>1, <1>2
  <2>3. /\ todo' \in [Workers -> SUBSET Paths]
        /\ seen' \in [Workers -> SUBSET Paths]
    BY <2>1, <2>2 DEF TypeOK
  <2>4. QED BY <2>2, <2>3 DEF TypeOK
<1>3. CASE disk[index_file_path(t)] # "full"
  BY <1>1, <1>3, ReturnTypeOK DEF TypeOK
<1>4. QED BY <1>2, <1>3

LEMMA TypeStep == TypeOK /\ [Next]_vars => TypeOK'
<1> SUFFICES ASSUME TypeOK, [Next]_vars PROVE TypeOK'
  OBVIOUS
<1>1. ASSUME NEW w \in Workers,
             StartDownload(w) \/ StartPrune(w) \/ StartStatus(w)
      PROVE  TypeOK'
  BY <1>1 DEF TypeOK, StartDownload, StartPrune, StartStatus, Goto, loopVars,
              DownloadPCs, PrunePCs, StatusPCs, IndexPaths, Indexed
<1>2. ASSUME NEW w \in Workers, ReuseIndex(w)
      PROVE  TypeOK'
  <2>1. tarball[w] \in Tarballs
    BY DEF TypeOK
  <2>2. ReferencedBy(tarball[w]) \in SUBSET Paths
    BY <2>1, ReferencedFacts
  <2>3. QED BY <1>2, <2>2 DEF TypeOK, ReuseIndex, Goto, loopVars, DownloadPCs
<1>3. ASSUME NEW w \in Workers,
             \/ RejectIndex(w) \/ FetchFails(w) \/ LinkHeld(w) \/ Abort(w)
             \/ PruneFinish(w) \/ StatusFinish(w)
      PROVE  TypeOK'
  BY <1>3, ReturnTypeOK
     DEF TypeOK, RejectIndex, FetchFails, LinkHeld, Abort, PruneFinish, StatusFinish
<1>4. ASSUME NEW w \in Workers, MissIndex(w) \/ FetchOk(w)
      PROVE  TypeOK'
  BY <1>4 DEF TypeOK, MissIndex, FetchOk, Goto, loopVars, DownloadPCs
<1>5. ASSUME NEW w \in Workers, EnsureExists(w)
      PROVE  TypeOK'
  <2>1. CASE Existing(Target(w))
    BY <1>5, <2>1, NextEntryTypeOK DEF TypeOK, EnsureExists, loopVars
  <2>2. CASE ~Existing(Target(w))
    BY <1>5, <2>2 DEF TypeOK, EnsureExists, Goto, loopVars, DownloadPCs
  <2>3. QED BY <2>1, <2>2
<1>6. ASSUME NEW w \in Workers, EnsureOpen(w)
      PROVE  TypeOK'
  BY <1>6 DEF TypeOK, EnsureOpen, Goto, loopVars, DownloadPCs
<1>7. ASSUME NEW w \in Workers, EnsureWrite(w)
      PROVE  TypeOK'
  <2>1. disk' \in [Paths -> {"absent", "empty", "full"}] /\ torn' \in SUBSET Paths
    BY <1>7 DEF TypeOK, EnsureWrite
  <2>2. QED BY <1>7, <2>1, NextEntryTypeOK DEF TypeOK, EnsureWrite, loopVars
<1>8. ASSUME NEW w \in Workers, PruneRead(w) \/ StatusRead(w)
      PROVE  TypeOK'
  BY <1>8, ReadIndexTypeOK DEF PruneRead, StatusRead
<1>9. ASSUME NEW w \in Workers, PruneList(w) \/ StatusVerify(w)
      PROVE  TypeOK'
  BY <1>9 DEF TypeOK, PruneList, StatusVerify, Goto, PrunePCs, StatusPCs, CasFiles
<1>10. ASSUME NEW w \in Workers, PruneVisit(w)
       PROVE  TypeOK'
  BY <1>10 DEF TypeOK, PruneVisit, Goto, PrunePCs, CasFiles
<1>11. ASSUME NEW w \in Workers, PruneRemove(w)
       PROVE  TypeOK'
  <2>1. CASE Existing(victim[w])
    <3>1. /\ disk' = [disk EXCEPT ![victim[w]] = "absent"]
          /\ torn' = torn \ {victim[w]}
          /\ linked' \in [Workers -> BOOLEAN]
          /\ Goto(w, "prune_visit")
          /\ victim' = [victim EXCEPT ![w] = NoPath]
          /\ pruned' = [v \in Workers |->
               IF pc[v] \in StatusPCs THEN pruned[v] \cup {victim[w]} ELSE pruned[v]]
          /\ UNCHANGED <<tarball, entry, todo, seen, held, known>>
      BY <1>11, <2>1 DEF TypeOK, PruneRemove
    <3>2. pruned' \in [Workers -> SUBSET Paths]
      BY <3>1 DEF TypeOK
    <3>3. QED BY <3>1, <3>2, NoJobFacts DEF TypeOK, Goto, PrunePCs
  <2>2. CASE ~Existing(victim[w])
    BY <1>11, <2>2, ReturnTypeOK DEF TypeOK, PruneRemove
  <2>3. QED BY <2>1, <2>2
<1>12. ASSUME NEW w \in Workers, StatusCheck(w)
       PROVE  TypeOK'
  BY <1>12, ReturnTypeOK DEF TypeOK, StatusCheck
<1>13. CASE UNCHANGED vars
  BY <1>13 DEF TypeOK, vars
<1>14. QED
  BY <1>1, <1>2, <1>3, <1>4, <1>5, <1>6, <1>7, <1>8, <1>9, <1>10, <1>11, <1>12, <1>13
     DEF Next, Step

\* The store's state and every worker's stay within their types.
THEOREM TypeCorrect == Spec => []TypeOK
<1>1. Init => TypeOK
  BY NoJobFacts DEF Init, TypeOK
<1>2. QED BY <1>1, TypeStep, PTL DEF Spec
-----------------------------------------------------------------------------
(***************************************************************************)
(* What a step may touch.                                                   *)
(***************************************************************************)
\* A step of w leaves the locals of the other workers alone.
Frame(w) ==
  \A v \in Workers : v # w =>
    /\ pc'[v] = pc[v] /\ tarball'[v] = tarball[v] /\ entry'[v] = entry[v]
    /\ linked'[v] = linked[v] /\ todo'[v] = todo[v] /\ seen'[v] = seen[v]
    /\ victim'[v] = victim[v] /\ held'[v] = held[v]
    /\ known'[v] = known[v] /\ pruned'[v] = pruned[v]

Acts(w) == StartDownload(w) \/ StartPrune(w) \/ StartStatus(w) \/ Step(w) \/ Abort(w)

\* Every step is local, but for a prune that unlinks a file somebody has open.
LEMMA StepsAreLocal ==
  ASSUME TypeOK, NEW w \in Workers, Acts(w), ~PruneRemove(w)
  PROVE  Frame(w)
<1>1. CASE Return(w)
  BY <1>1 DEF Return, Goto, Frame, TypeOK
<1>2. CASE StartDownload(w) \/ StartPrune(w) \/ StartStatus(w)
  BY <1>2 DEF StartDownload, StartPrune, StartStatus, Goto, Frame, TypeOK, loopVars
<1>3. CASE ReuseIndex(w) \/ MissIndex(w) \/ FetchOk(w) \/ EnsureOpen(w)
  BY <1>3 DEF ReuseIndex, MissIndex, FetchOk, EnsureOpen, Goto, Frame, TypeOK, loopVars
<1>4. CASE EnsureExists(w) \/ EnsureWrite(w)
  BY <1>4 DEF EnsureExists, EnsureWrite, NextEntry, Goto, Frame, TypeOK, loopVars
<1>5. CASE (PruneRead(w) \/ StatusRead(w)) /\ ~Return(w)
  <2>1. PICK t \in Tarballs :
          /\ todo' = [todo EXCEPT ![w] = @ \ {index_file_path(t)}]
          /\ seen' = [seen EXCEPT ![w] = @ \cup StoreFilesOf(t)]
          /\ UNCHANGED <<pc, tarball, entry, linked, victim, held, known, pruned>>
    BY <1>5 DEF PruneRead, StatusRead, ReadIndex
  <2>2. \A v \in Workers : v # w => todo'[v] = todo[v] /\ seen'[v] = seen[v]
    BY <2>1 DEF TypeOK
  <2>3. QED BY <2>1, <2>2 DEF Frame
<1>6. CASE PruneList(w) \/ PruneVisit(w) \/ StatusVerify(w)
  BY <1>6 DEF PruneList, PruneVisit, StatusVerify, Goto, Frame, TypeOK
<1>7. CASE StatusCheck(w) /\ ~Return(w)
  BY <1>7 DEF StatusCheck, Frame, TypeOK
<1>8. QED
  BY <1>1, <1>2, <1>3, <1>4, <1>5, <1>6, <1>7
     DEF Acts, Step, Abort, RejectIndex, FetchFails, LinkHeld, PruneFinish, StatusFinish

\* Three calls change the disk: open, write and remove_file.
LEMMA DiskChanges ==
  ASSUME NEW w \in Workers, Acts(w), ~EnsureOpen(w), ~EnsureWrite(w), ~PruneRemove(w)
  PROVE  UNCHANGED disk
  BY DEF Acts, Step, Abort, StartDownload, StartPrune, StartStatus, ReuseIndex, RejectIndex,
         MissIndex, FetchOk, FetchFails, EnsureExists, LinkHeld, PruneRead, PruneList,
         PruneVisit, PruneFinish, StatusRead, StatusVerify, StatusCheck, StatusFinish

\* What they change it to.
LEMMA DiskSteps ==
  ASSUME TypeOK, NEW w \in Workers, NEW p \in Paths
  PROVE  /\ EnsureOpen(w) =>
              disk'[p] = IF p = Target(w) /\ disk[p] = "absent" THEN "empty" ELSE disk[p]
         /\ EnsureWrite(w) => disk'[p] = IF p = Target(w) /\ linked[w] THEN "full" ELSE disk[p]
         /\ PruneRemove(w) => disk'[p] = IF p = victim[w] THEN "absent" ELSE disk[p]
<1>1. EnsureOpen(w) =>
        disk'[p] = IF p = Target(w) /\ disk[p] = "absent" THEN "empty" ELSE disk[p]
  BY DEF EnsureOpen, TypeOK
<1>2. EnsureWrite(w) => disk'[p] = IF p = Target(w) /\ linked[w] THEN "full" ELSE disk[p]
  BY DEF EnsureWrite, TypeOK
<1>3. PruneRemove(w) => disk'[p] = IF p = victim[w] THEN "absent" ELSE disk[p]
  BY DEF PruneRemove, Existing, TypeOK
<1>4. QED BY <1>1, <1>2, <1>3

-----------------------------------------------------------------------------
\* A file without content is being given it, or its worker was killed or failed.
EmptyFilesWritten ==
  \A p \in Paths : disk[p] = "empty" => BeingWritten(p) \/ p \in torn

\* What was left without content stays on record while it is without.
LEMMA TornStays ==
  ASSUME TypeOK, NEW w \in Workers, Acts(w), NEW p \in torn, disk'[p] = "empty"
  PROVE  p \in torn'
<1>1. CASE EnsureWrite(w)
  <2>1. p \in Paths /\ ~(p = Target(w) /\ linked[w])
    BY <1>1, DiskSteps DEF TypeOK
  <2>2. QED BY <1>1, <2>1 DEF EnsureWrite
<1>2. CASE PruneRemove(w)
  <2>1. p \in Paths /\ p # victim[w]
    BY <1>2, DiskSteps DEF TypeOK
  <2>2. QED BY <1>2, <2>1 DEF PruneRemove
<1>3. CASE Abort(w)
  BY <1>3 DEF Abort
<1>4. CASE ~EnsureWrite(w) /\ ~PruneRemove(w) /\ ~Abort(w)
  BY <1>4 DEF Acts, Step, StartDownload, StartPrune, StartStatus, ReuseIndex, RejectIndex,
         MissIndex, FetchOk, FetchFails, EnsureExists, EnsureOpen, LinkHeld, PruneRead, PruneList,
         PruneVisit, PruneFinish, StatusRead, StatusVerify, StatusCheck, StatusFinish
<1>5. QED BY <1>1, <1>2, <1>3, <1>4

\* A live writer of p is one still, unless it is the one that stepped or p went.
LEMMA WriterStays ==
  ASSUME TypeOK, NEW w \in Workers, Acts(w), NEW p \in Paths, disk'[p] # "absent",
         NEW v \in Workers, pc[v] = "write", linked[v], Target(v) = p,
         v # w \/ PruneRemove(w)
  PROVE  BeingWritten(p)'
<1>1. CASE ~PruneRemove(w)
  <2>1. Target(v)' = Target(v) /\ pc'[v] = pc[v] /\ linked'[v] = linked[v]
    BY <1>1, StepsAreLocal DEF Frame, Target
  <2>2. QED BY <2>1 DEF BeingWritten, WrittenBy
<1>2. CASE PruneRemove(w)
  <2>1. v # w /\ p # victim[w]
    BY <1>2, DiskSteps DEF PruneRemove
  <2>2. /\ pc'[v] = pc[v] /\ linked'[v] = linked[v]
        /\ tarball'[v] = tarball[v] /\ entry'[v] = entry[v]
    <3>1. CASE Existing(victim[w])
      <4>1. /\ linked' = [x \in Workers |->
                 linked[x] /\ ~(pc[x] = "write" /\ Target(x) = victim[w])]
            /\ Goto(w, "prune_visit")
            /\ UNCHANGED <<tarball, entry>>
        BY <1>2, <3>1 DEF PruneRemove
      <4>2. linked'[v] = (linked[v] /\ ~(pc[v] = "write" /\ Target(v) = victim[w]))
        BY <4>1
      <4>3. linked[v] = TRUE /\ linked'[v] = TRUE
        BY <2>1, <4>2 DEF TypeOK
      <4>4. QED BY <2>1, <4>1, <4>3 DEF Goto, TypeOK
    <3>2. CASE ~Existing(victim[w])
      BY <1>2, <2>1, <3>2 DEF PruneRemove, Return, Goto, TypeOK
    <3>3. QED BY <3>1, <3>2
  <2>3. Target(v)' = Target(v)
    BY <2>2 DEF Target
  <2>4. QED BY <2>2, <2>3 DEF BeingWritten, WrittenBy
<1>3. QED BY <1>1, <1>2

LEMMA EmptyFilesStep == TypeOK /\ EmptyFilesWritten /\ [Next]_vars => EmptyFilesWritten'
<1> SUFFICES ASSUME TypeOK, EmptyFilesWritten, [Next]_vars,
                    NEW p \in Paths, disk'[p] = "empty"
             PROVE  BeingWritten(p)' \/ p \in torn'
  BY DEF EmptyFilesWritten
<1>1. CASE UNCHANGED vars
  BY <1>1 DEF vars, EmptyFilesWritten, BeingWritten, WrittenBy, Target
<1>2. ASSUME NEW w \in Workers, Acts(w) PROVE BeingWritten(p)' \/ p \in torn'
  <2>1. CASE EnsureOpen(w) /\ p = Target(w)
    <3>1. pc'[w] = "write" /\ linked'[w] /\ Target(w)' = Target(w)
      BY <2>1 DEF EnsureOpen, Goto, TypeOK, Target
    <3>2. QED BY <2>1, <3>1 DEF BeingWritten, WrittenBy
  <2>2. CASE ~(EnsureOpen(w) /\ p = Target(w))
    <3>1. disk[p] = "empty"
      BY <1>2, <2>2, DiskChanges, DiskSteps
    <3>2. CASE p \in torn
      BY <1>2, <3>2, TornStays
    <3>3. CASE \E v \in Workers : WrittenBy(v, p)
      <4>1. PICK v \in Workers : pc[v] = "write" /\ linked[v] /\ Target(v) = p
        BY <3>3 DEF WrittenBy
      <4>2. v = w => EnsureWrite(w) \/ Abort(w)
        BY <1>2, <4>1 DEF Acts, Step, StartDownload, StartPrune, StartStatus, ReuseIndex,
           RejectIndex, MissIndex, FetchOk, FetchFails, EnsureExists, EnsureOpen, LinkHeld,
           PruneRead, PruneList, PruneVisit, PruneRemove, PruneFinish, StatusRead, StatusVerify,
           StatusCheck, StatusFinish
      <4>3. ~(v = w /\ EnsureWrite(w))
        BY <4>1, DiskSteps
      <4>4. v = w /\ Abort(w) => p \in torn'
        BY <3>1, <4>1 DEF Abort, WrittenBy
      <4>5. v # w => BeingWritten(p)'
        BY <1>2, <4>1, WriterStays
      <4>6. QED BY <4>2, <4>3, <4>4, <4>5
    <3>4. QED BY <3>1, <3>2, <3>3 DEF EmptyFilesWritten, BeingWritten
  <2>3. QED BY <2>1, <2>2
<1>3. QED BY <1>1, <1>2 DEF Next, Acts

\* Every file has its content once all are at rest, but for those whose worker was killed
\* or failed before the write, also if prunes and downloads run at once: but for these,
\* the existence test of ensure_file may be trusted.
THEOREM RestingStoreIsComplete == Spec => []RestingStoreComplete
<1>1. Init => EmptyFilesWritten
  BY DEF Init, EmptyFilesWritten
<1>2. EmptyFilesWritten => RestingStoreComplete
  BY DEF EmptyFilesWritten, RestingStoreComplete, BeingWritten, WrittenBy
<1>3. QED BY <1>1, <1>2, EmptyFilesStep, TypeCorrect, PTL DEF Spec
-----------------------------------------------------------------------------
(***************************************************************************)
(* What prune and status know, whoever downloads, prunes or dies meanwhile: *)
(* of the indexes that were there when they started, each is still to be    *)
(* read or all it references is in what they have seen.                     *)
(***************************************************************************)
KnownRead(w) ==
  /\ pc[w] \in {"prune_read", "status_read"} => \A t \in known[w] :
       index_file_path(t) \in todo[w] \/ ReferencedBy(t) \subseteq seen[w]
  /\ pc[w] \in {"prune_visit", "prune_remove", "status_check"} => \A t \in known[w] :
       ReferencedBy(t) \subseteq seen[w]

\* A prune is about to remove what it has not seen referenced, and no index.
UnseenRemoved(w) ==
  /\ pc[w] \in {"prune_visit", "prune_remove"} => \A p \in todo[w] : ~IsIndex(p)
  /\ pc[w] = "prune_remove" => victim[w] \notin seen[w] /\ ~IsIndex(victim[w])

\* What status has checked is intact, unless a prune removed it since.
CheckedIntact(w) ==
  pc[w] = "status_check" =>
    \A p \in seen[w] \ todo[w] : disk[p] = "full" \/ p \in pruned[w]

LoopInv(w) == KnownRead(w) /\ UnseenRemoved(w) /\ CheckedIntact(w)

LoopsInv == \A w \in Workers : LoopInv(w)

\* A worker that runs no loop, or is not that far, has nothing to show.
LEMMA NoLoop ==
  ASSUME NEW w \in Workers,
         pc[w]' \notin {"prune_read", "prune_visit", "prune_remove",
                        "status_read", "status_check"}
  PROVE  LoopInv(w)'
  BY DEF LoopInv, KnownRead, UnseenRemoved, CheckedIntact

\* A file that has its content keeps it, unless a prune removes it.
LEMMA FullStays ==
  ASSUME TypeOK, NEW w \in Workers, Acts(w), NEW p \in Paths, disk[p] = "full",
         ~(PruneRemove(w) /\ p = victim[w])
  PROVE  disk'[p] = "full"
  BY DiskChanges, DiskSteps

\* A prune's removal is noted by whoever checks the store.
LEMMA RemovalNoted ==
  ASSUME TypeOK, NEW w \in Workers, PruneRemove(w), NEW v \in Workers, v # w
  PROVE  /\ pc'[v] = pc[v] /\ todo'[v] = todo[v] /\ seen'[v] = seen[v]
         /\ victim'[v] = victim[v] /\ known'[v] = known[v]
         /\ pruned[v] \subseteq pruned'[v]
         /\ pc[v] = "status_check" /\ Existing(victim[w]) => victim[w] \in pruned'[v]
<1>1. CASE Existing(victim[w])
  <2>1. /\ Goto(w, "prune_visit")
        /\ victim' = [victim EXCEPT ![w] = NoPath]
        /\ pruned' = [x \in Workers |->
             IF pc[x] \in StatusPCs THEN pruned[x] \cup {victim[w]} ELSE pruned[x]]
        /\ UNCHANGED <<todo, seen, known>>
    BY <1>1 DEF PruneRemove
  <2>2. pruned'[v] = IF pc[v] \in StatusPCs THEN pruned[v] \cup {victim[w]} ELSE pruned[v]
    BY <2>1
  <2>3. QED BY <2>1, <2>2 DEF Goto, TypeOK, StatusPCs
<1>2. CASE ~Existing(victim[w])
  BY <1>2 DEF PruneRemove, Return, Goto, TypeOK
<1>3. QED BY <1>1, <1>2

LEMMA OthersKeepLoop ==
  ASSUME TypeOK, LoopsInv, NEW w \in Workers, Acts(w), NEW v \in Workers, v # w
  PROVE  LoopInv(v)'
<1>1. /\ pc'[v] = pc[v] /\ todo'[v] = todo[v] /\ seen'[v] = seen[v]
      /\ victim'[v] = victim[v] /\ known'[v] = known[v]
      /\ pruned[v] \subseteq pruned'[v]
  <2>1. CASE PruneRemove(w)
    BY <2>1, RemovalNoted
  <2>2. CASE ~PruneRemove(w)
    BY <2>2, StepsAreLocal DEF Frame
  <2>3. QED BY <2>1, <2>2
<1>2. LoopInv(v)
  BY DEF LoopsInv
<1>3. KnownRead(v)' /\ UnseenRemoved(v)'
  BY <1>1, <1>2 DEF LoopInv, KnownRead, UnseenRemoved
<1>4. ASSUME pc[v] = "status_check", NEW p \in seen[v] \ todo[v]
      PROVE  disk'[p] = "full" \/ p \in pruned'[v]
  <2>1. p \in Paths /\ (disk[p] = "full" \/ p \in pruned[v])
    BY <1>2, <1>4 DEF LoopInv, CheckedIntact, TypeOK
  <2>2. CASE p \in pruned[v]
    BY <1>1, <2>2
  <2>3. CASE disk[p] = "full" /\ PruneRemove(w) /\ p = victim[w]
    BY <1>4, <2>3, RemovalNoted DEF Existing
  <2>4. CASE disk[p] = "full" /\ ~(PruneRemove(w) /\ p = victim[w])
    BY <2>1, <2>4, FullStays
  <2>5. QED BY <2>1, <2>2, <2>3, <2>4
<1>5. CheckedIntact(v)'
  BY <1>1, <1>4 DEF CheckedIntact
<1>6. QED BY <1>3, <1>5 DEF LoopInv

LEMMA StartLoop ==
  ASSUME TypeOK, NEW w \in Workers, StartPrune(w) \/ StartStatus(w)
  PROVE  LoopInv(w)'
<1>1. /\ pc'[w] \in {"prune_read", "status_read"}
      /\ todo'[w] = IndexPaths /\ known'[w] = Indexed
  BY DEF StartPrune, StartStatus, Goto, TypeOK
<1>2. \A t \in Indexed : index_file_path(t) \in IndexPaths
  BY IndexPathFacts DEF Indexed, IndexPaths
<1>3. QED BY <1>1, <1>2 DEF LoopInv, KnownRead, UnseenRemoved, CheckedIntact

LEMMA ReadLoop ==
  ASSUME TypeOK, NEW w \in Workers, LoopInv(w), PruneRead(w) \/ StatusRead(w), ~Return(w)
  PROVE  LoopInv(w)'
<1>1. pc[w] \in {"prune_read", "status_read"} /\ ReadIndex(w)
  BY DEF PruneRead, StatusRead
<1>2. PICK t \in Tarballs :
        /\ todo' = [todo EXCEPT ![w] = @ \ {index_file_path(t)}]
        /\ seen' = [seen EXCEPT ![w] = @ \cup StoreFilesOf(t)]
        /\ UNCHANGED <<pc, known>>
  BY <1>1 DEF ReadIndex
<1>3. /\ todo'[w] = todo[w] \ {index_file_path(t)}
      /\ seen'[w] = seen[w] \cup ReferencedBy(t)
      /\ pc'[w] = pc[w] /\ known'[w] = known[w]
  BY <1>2, SameReferences DEF TypeOK
<1>4. ASSUME NEW u \in known[w]
      PROVE  index_file_path(u) \in todo'[w] \/ ReferencedBy(u) \subseteq seen'[w]
  <2>1. u \in Tarballs
    BY DEF TypeOK
  <2>2. index_file_path(u) \in todo[w] \/ ReferencedBy(u) \subseteq seen[w]
    BY <1>1 DEF LoopInv, KnownRead
  <2>3. CASE index_file_path(u) = index_file_path(t)
    BY <1>3, <2>1, <2>3, IndexPathInjective
  <2>4. CASE index_file_path(u) # index_file_path(t)
    BY <1>3, <2>2, <2>4
  <2>5. QED BY <2>3, <2>4
<1>5. QED BY <1>1, <1>3, <1>4 DEF LoopInv, KnownRead, UnseenRemoved, CheckedIntact

LEMMA ListLoop ==
  ASSUME TypeOK, NEW w \in Workers, LoopInv(w), PruneList(w) \/ StatusVerify(w)
  PROVE  LoopInv(w)'
<1>1. /\ pc[w] \in {"prune_read", "status_read"} /\ todo[w] = {}
      /\ seen' = seen /\ known' = known
  BY DEF PruneList, StatusVerify
<1>2. \A t \in known[w] : ReferencedBy(t) \subseteq seen[w]
  BY <1>1 DEF LoopInv, KnownRead
<1>3. CASE PruneList(w)
  <2>1. pc'[w] = "prune_visit" /\ todo'[w] = CasFiles
    BY <1>3 DEF PruneList, Goto, TypeOK
  <2>2. \A p \in todo'[w] : ~IsIndex(p)
    BY <2>1 DEF CasFiles
  <2>3. QED BY <1>1, <1>2, <2>1, <2>2 DEF LoopInv, KnownRead, UnseenRemoved, CheckedIntact
<1>4. CASE StatusVerify(w)
  <2>1. pc'[w] = "status_check" /\ todo'[w] = seen[w]
    BY <1>4 DEF StatusVerify, Goto, TypeOK
  <2>2. QED BY <1>1, <1>2, <2>1 DEF LoopInv, KnownRead, UnseenRemoved, CheckedIntact
<1>5. QED BY <1>3, <1>4

LEMMA VisitLoop ==
  ASSUME TypeOK, NEW w \in Workers, LoopInv(w), PruneVisit(w)
  PROVE  LoopInv(w)'
<1>1. pc[w] = "prune_visit" /\ seen' = seen /\ known' = known
  BY DEF PruneVisit
<1>2. PICK p \in todo[w] \cup CasFiles :
        /\ todo' = [todo EXCEPT ![w] = @ \ {p}]
        /\ IF PruneSkips(w, p)
           THEN UNCHANGED <<pc, victim>>
           ELSE Goto(w, "prune_remove") /\ victim' = [victim EXCEPT ![w] = p]
  BY DEF PruneVisit
<1>3. ~IsIndex(p) /\ todo'[w] = todo[w] \ {p} /\ \A q \in todo[w] : ~IsIndex(q)
  BY <1>1, <1>2 DEF LoopInv, UnseenRemoved, CasFiles, TypeOK
<1>4. \/ pc'[w] = "prune_visit"
      \/ pc'[w] = "prune_remove" /\ victim'[w] = p /\ p \notin seen[w]
  BY <1>1, <1>2 DEF Goto, PruneSkips, TypeOK
<1>5. \A t \in known[w] : ReferencedBy(t) \subseteq seen[w]
  BY <1>1 DEF LoopInv, KnownRead
<1>6. QED BY <1>1, <1>3, <1>4, <1>5 DEF LoopInv, KnownRead, UnseenRemoved, CheckedIntact

LEMMA RemoveLoop ==
  ASSUME TypeOK, NEW w \in Workers, LoopInv(w), PruneRemove(w), ~Return(w)
  PROVE  LoopInv(w)'
<1>1. /\ pc[w] = "prune_remove" /\ Goto(w, "prune_visit")
      /\ UNCHANGED <<todo, seen, known>>
  BY DEF PruneRemove
<1>2. pc'[w] = "prune_visit"
  BY <1>1 DEF Goto, TypeOK
<1>3. QED BY <1>1, <1>2 DEF LoopInv, KnownRead, UnseenRemoved, CheckedIntact

LEMMA CheckLoop ==
  ASSUME TypeOK, NEW w \in Workers, LoopInv(w), StatusCheck(w), ~Return(w)
  PROVE  LoopInv(w)'
<1>1. PICK p \in todo[w] :
        /\ Verifies(p)
        /\ todo' = [todo EXCEPT ![w] = @ \ {p}]
        /\ UNCHANGED <<pc, seen, known, pruned>>
  BY DEF StatusCheck
<1>2. /\ pc[w] = "status_check" /\ UNCHANGED disk
      /\ todo'[w] = todo[w] \ {p} /\ disk[p] = "full"
  BY <1>1 DEF StatusCheck, Verifies, TypeOK
<1>3. QED BY <1>1, <1>2 DEF LoopInv, KnownRead, UnseenRemoved, CheckedIntact

\* The steps that leave no loop behind.
LEMMA LoopOver ==
  ASSUME TypeOK, NEW w \in Workers,
         \/ Return(w) \/ StartDownload(w) \/ ReuseIndex(w) \/ MissIndex(w) \/ FetchOk(w)
         \/ EnsureExists(w) \/ EnsureOpen(w) \/ EnsureWrite(w)
  PROVE  LoopInv(w)'
<1>1. pc'[w] \in {"idle", "load", "link", "fetch", "exists", "open", "write"}
  BY DEF Return, StartDownload, ReuseIndex, MissIndex, FetchOk, EnsureExists, EnsureOpen,
         EnsureWrite, NextEntry, Goto, TypeOK
<1>2. QED BY <1>1, NoLoop

LEMMA LoopsStep == TypeOK /\ LoopsInv /\ [Next]_vars => LoopsInv'
<1> SUFFICES ASSUME TypeOK, LoopsInv, [Next]_vars PROVE LoopsInv'
  OBVIOUS
<1>1. CASE UNCHANGED vars
  BY <1>1 DEF vars, LoopsInv, LoopInv, KnownRead, UnseenRemoved, CheckedIntact
<1>2. ASSUME NEW w \in Workers, Acts(w) PROVE LoopsInv'
  <2>1. LoopInv(w)
    BY DEF LoopsInv
  <2>2. LoopInv(w)'
    BY <1>2, <2>1, LoopOver, StartLoop, ReadLoop, ListLoop, VisitLoop, RemoveLoop, CheckLoop
       DEF Acts, Step, Abort, RejectIndex, FetchFails, LinkHeld, PruneFinish, StatusFinish
  <2>3. QED BY <1>2, <2>2, OthersKeepLoop DEF LoopsInv
<1>3. QED BY <1>1, <1>2 DEF Next, Acts

LEMMA LoopsInit == Init => LoopsInv
  BY DEF Init, LoopsInv, LoopInv, KnownRead, UnseenRemoved, CheckedIntact

\* A prune removes no index, and nothing that an index referenced which was there when
\* it started, whatever is downloaded, pruned, failing or killed meanwhile.
THEOREM PruneRespectsIndexes == Spec => PruneKeepsKnown
<1>1. TypeOK /\ LoopsInv /\ [Next]_vars =>
        [\A w \in Workers : PruneRemove(w) =>
           \A p \in Paths : Existing(p) /\ disk'[p] = "absent" =>
             ~IsIndex(p) /\ \A t \in known[w] : p \notin ReferencedBy(t)]_vars
  <2> SUFFICES ASSUME TypeOK, LoopsInv, NEW w \in Workers, PruneRemove(w),
                      NEW p \in Paths, Existing(p), disk'[p] = "absent"
               PROVE  ~IsIndex(p) /\ \A t \in known[w] : p \notin ReferencedBy(t)
    OBVIOUS
  <2>1. p = victim[w]
    BY DiskSteps DEF Existing
  <2>2. pc[w] = "prune_remove" /\ LoopInv(w)
    BY DEF PruneRemove, LoopsInv
  <2>3. QED BY <2>1, <2>2 DEF LoopInv, KnownRead, UnseenRemoved
<1>2. QED BY <1>1, TypeCorrect, LoopsInit, LoopsStep, PTL DEF Spec, PruneKeepsKnown

\* When status returns Ok, every file of every index that was there when it started is
\* intact at that moment, or was removed by a prune while status ran.
THEOREM StatusIsTruthful == Spec => StatusOkMeansIntact
<1>1. TypeOK /\ LoopsInv /\ [Next]_vars =>
        [\A w \in Workers : StatusFinish(w) =>
           \A t \in known[w] : \A p \in ReferencedBy(t) :
             disk[p] = "full" \/ p \in pruned[w]]_vars
  <2> SUFFICES ASSUME TypeOK, LoopsInv, NEW w \in Workers, StatusFinish(w),
                      NEW t \in known[w], NEW p \in ReferencedBy(t)
               PROVE  disk[p] = "full" \/ p \in pruned[w]
    OBVIOUS
  <2>1. pc[w] = "status_check" /\ todo[w] = {} /\ LoopInv(w)
    BY DEF StatusFinish, LoopsInv
  <2>2. p \in seen[w]
    BY <2>1 DEF LoopInv, KnownRead
  <2>3. QED BY <2>1, <2>2 DEF LoopInv, CheckedIntact
<1>2. QED BY <1>1, TypeCorrect, LoopsInit, LoopsStep, PTL DEF Spec, StatusOkMeansIntact
-----------------------------------------------------------------------------
(***************************************************************************)
(* The inductive invariant behind IndexedFilesBacked, PruneLeavesNoOrphan   *)
(* and the refinement, for a store where nobody prunes during a download.   *)
(***************************************************************************)
Downloading(w) == pc[w] \in DownloadPCs
Pruning(w) == pc[w] \in PrunePCs

\* Downloads and prunes exclude each other.
Exclusive == \A v, w \in Workers : ~(Pruning(v) /\ Downloading(w))

OnDisk == {p \in Paths : disk[p] # "absent"}

\* An index on disk references files on disk.
IndexesSatisfied ==
  \A t \in Tarballs : index_file_path(t) \in OnDisk => ReferencedBy(t) \subseteq OnDisk

\* The files of the first n - 1 entries of t.
EntriesBefore(t, n) ==
  {EntryPath(Entries[t][i]) : i \in {k \in 1..Len(Entries[t]) : k < n}}

\* An open file is still where it was created.
OpenFileLinked(w) == pc[w] = "write" => linked[w] /\ Target(w) \in OnDisk

\* The loop has ensured every entry before the current one.
EntriesEnsured(w) ==
  pc[w] \in {"exists", "open", "write"} =>
    /\ entry[w] <= Len(Entries[tarball[w]]) + 1
    /\ EntriesBefore(tarball[w], entry[w]) \subseteq OnDisk

\* What a download returned is on disk.
HeldSatisfied(w) ==
  held[w] # {} => pc[w] = "link" /\ held[w] \subseteq OnDisk

\* A prune knows what the indexes it has read reference, and what all of them
\* reference once it removes files.
PruneInformed(w) ==
  /\ pc[w] = "prune_read" => \A t \in Tarballs :
       index_file_path(t) \in OnDisk \ todo[w] => ReferencedBy(t) \subseteq seen[w]
  /\ pc[w] \in {"prune_visit", "prune_remove"} =>
       /\ \A t \in Tarballs : index_file_path(t) \in OnDisk => ReferencedBy(t) \subseteq seen[w]
       /\ \A p \in todo[w] : ~IsIndex(p)
  /\ pc[w] = "prune_remove" => victim[w] \notin seen[w] /\ ~IsIndex(victim[w])

WorkerInv(w) ==
  /\ OpenFileLinked(w)
  /\ EntriesEnsured(w)
  /\ HeldSatisfied(w)
  /\ PruneInformed(w)

StoreInv ==
  /\ TypeOK
  /\ Exclusive
  /\ IndexesSatisfied
  /\ \A w \in Workers : WorkerInv(w)

-----------------------------------------------------------------------------
\* A step of w enters a download or a prune only when the other kind is at rest.
Admitted(w) ==
  /\ Pruning(w)' => Pruning(w) \/ \A v \in Workers : ~Downloading(v)
  /\ Downloading(w)' => Downloading(w) \/ \A v \in Workers : ~Pruning(v)

LEMMA AdmittedKeepsExclusive ==
  ASSUME Exclusive, NEW w \in Workers, Frame(w), Admitted(w)
  PROVE  Exclusive'
<1> SUFFICES ASSUME NEW u \in Workers, NEW v \in Workers
             PROVE  ~(Pruning(u)' /\ Downloading(v)')
  BY DEF Exclusive
<1>1. \A x \in Workers : x # w => pc'[x] = pc[x]
  BY DEF Frame
<1>2. \A x \in Workers : x # w => Pruning(x)' = Pruning(x) /\ Downloading(x)' = Downloading(x)
  BY <1>1 DEF Pruning, Downloading
<1>3. ~(Pruning(w)' /\ Downloading(w)')
  BY DEF Pruning, Downloading, PrunePCs, DownloadPCs
<1>4. QED BY <1>2, <1>3 DEF Exclusive, Admitted

\* The other workers' invariant survives a step that removes nothing, unless they
\* prune and the set of indexes grows.
LEMMA OthersKeepInv ==
  ASSUME StoreInv, NEW w \in Workers, Frame(w),
         OnDisk \subseteq OnDisk',
         OnDisk' = OnDisk \/ \A v \in Workers : ~Pruning(v),
         NEW v \in Workers, v # w
  PROVE  WorkerInv(v)'
<1>1. /\ pc'[v] = pc[v] /\ tarball'[v] = tarball[v] /\ entry'[v] = entry[v]
      /\ linked'[v] = linked[v] /\ todo'[v] = todo[v] /\ seen'[v] = seen[v]
      /\ victim'[v] = victim[v] /\ held'[v] = held[v]
  BY DEF Frame
<1>2. WorkerInv(v)
  BY DEF StoreInv
<1>3. Target(v)' = Target(v)
  BY <1>1 DEF Target
<1>4. OpenFileLinked(v)'
  BY <1>1, <1>2, <1>3 DEF WorkerInv, OpenFileLinked
<1>5. EntriesEnsured(v)'
  <2>1. EntriesBefore(tarball'[v], entry'[v]) = EntriesBefore(tarball[v], entry[v])
    BY <1>1
  <2>2. QED BY <1>1, <1>2, <2>1 DEF WorkerInv, EntriesEnsured
<1>6. HeldSatisfied(v)'
  BY <1>1, <1>2 DEF WorkerInv, HeldSatisfied
<1>7. PruneInformed(v)'
  <2>1. CASE OnDisk' = OnDisk
    BY <1>1, <1>2, <2>1 DEF WorkerInv, PruneInformed
  <2>2. CASE ~Pruning(v)
    BY <1>1, <2>2 DEF PruneInformed, Pruning, PrunePCs
  <2>3. QED BY <2>1, <2>2
<1>8. QED BY <1>4, <1>5, <1>6, <1>7 DEF WorkerInv

\* A step of w that touches no file keeps the invariant if it keeps w's part.
LEMMA QuietStepKeepsInv ==
  ASSUME StoreInv, TypeOK', NEW w \in Workers, Frame(w), UNCHANGED disk,
         Admitted(w), WorkerInv(w)'
  PROVE  StoreInv'
<1>1. OnDisk' = OnDisk
  BY DEF OnDisk
<1>2. \A v \in Workers : WorkerInv(v)'
  BY <1>1, OthersKeepInv
<1>3. IndexesSatisfied'
  BY <1>1 DEF StoreInv, IndexesSatisfied
<1>4. QED BY <1>2, <1>3, AdmittedKeepsExclusive DEF StoreInv

LEMMA ReturnKeepsInv ==
  ASSUME StoreInv, TypeOK', NEW w \in Workers, Return(w), UNCHANGED disk
  PROVE  StoreInv'
<1>1. pc'[w] = "idle" /\ held'[w] = {}
  BY DEF Return, Goto, StoreInv, TypeOK
<1>2. Frame(w)
  BY DEF Return, Goto, Frame, StoreInv, TypeOK
<1>3. Admitted(w)
  BY <1>1 DEF Admitted, Pruning, Downloading, PrunePCs, DownloadPCs
<1>4. WorkerInv(w)'
  BY <1>1 DEF WorkerInv, OpenFileLinked, EntriesEnsured, HeldSatisfied, PruneInformed
<1>5. QED BY <1>2, <1>3, <1>4, QuietStepKeepsInv

LEMMA StartKeepsInv ==
  ASSUME StoreInv, TypeOK', PruneAlone, NEW w \in Workers,
         StartDownload(w) \/ StartPrune(w) \/ StartStatus(w)
  PROVE  StoreInv'
<1>1. /\ UNCHANGED <<disk, held>>
      /\ pc[w] = "idle"
      /\ held[w] = {}
  BY DEF StartDownload, StartPrune, StartStatus, StoreInv, WorkerInv, HeldSatisfied
<1>2. Frame(w)
  BY DEF StartDownload, StartPrune, StartStatus, Goto, Frame, StoreInv, TypeOK, loopVars
<1>3. CASE StartDownload(w)
  <2>1. pc'[w] = "load" /\ \A v \in Workers : ~Pruning(v)
    BY <1>3 DEF StartDownload, Goto, StoreInv, TypeOK, Pruning
  <2>2. Admitted(w)
    BY <2>1 DEF Admitted, Pruning, Downloading, PrunePCs
  <2>3. WorkerInv(w)'
    BY <1>1, <2>1 DEF WorkerInv, OpenFileLinked, EntriesEnsured, HeldSatisfied, PruneInformed
  <2>4. QED BY <1>1, <1>2, <2>2, <2>3, QuietStepKeepsInv
<1>4. CASE StartPrune(w)
  <2>1. /\ pc'[w] = "prune_read"
        /\ todo'[w] = IndexPaths
        /\ \A v \in Workers : ~Downloading(v)
    BY <1>4 DEF StartPrune, Goto, StoreInv, TypeOK, Downloading
  <2>2. Admitted(w)
    BY <2>1 DEF Admitted, Pruning, Downloading, DownloadPCs
  <2>3. \A t \in Tarballs : index_file_path(t) \in OnDisk => index_file_path(t) \in todo'[w]
    BY <2>1, IndexPathFacts DEF OnDisk, IndexPaths, Existing
  <2>4. OnDisk' = OnDisk
    BY <1>1 DEF OnDisk
  <2>5. WorkerInv(w)'
    BY <1>1, <2>1, <2>3, <2>4
       DEF WorkerInv, OpenFileLinked, EntriesEnsured, HeldSatisfied, PruneInformed
  <2>6. QED BY <1>1, <1>2, <2>2, <2>5, QuietStepKeepsInv
<1>5. CASE StartStatus(w)
  <2>1. pc'[w] = "status_read"
    BY <1>5 DEF StartStatus, Goto, StoreInv, TypeOK
  <2>2. Admitted(w)
    BY <2>1 DEF Admitted, Pruning, Downloading, DownloadPCs, PrunePCs
  <2>3. WorkerInv(w)'
    BY <1>1, <2>1 DEF WorkerInv, OpenFileLinked, EntriesEnsured, HeldSatisfied, PruneInformed
  <2>4. QED BY <1>1, <1>2, <2>2, <2>3, QuietStepKeepsInv
<1>6. QED BY <1>3, <1>4, <1>5

\* load_from_store and the fetch.
LEMMA LoadKeepsInv ==
  ASSUME StoreInv, TypeOK', NEW w \in Workers,
         ReuseIndex(w) \/ MissIndex(w) \/ FetchOk(w)
  PROVE  StoreInv'
<1>1. /\ UNCHANGED disk
      /\ pc[w] \in {"load", "fetch"}
      /\ Frame(w)
  BY DEF ReuseIndex, MissIndex, FetchOk, Goto, Frame, StoreInv, TypeOK, loopVars
<1>2. OnDisk' = OnDisk
  BY <1>1 DEF OnDisk
<1>3. held[w] = {}
  BY <1>1 DEF StoreInv, WorkerInv, HeldSatisfied
<1>4. pc'[w] \in {"link", "fetch", "exists"}
  BY DEF ReuseIndex, MissIndex, FetchOk, Goto, StoreInv, TypeOK
<1>5. Admitted(w)
  BY <1>1, <1>4 DEF Admitted, Pruning, Downloading, DownloadPCs, PrunePCs
<1>6. WorkerInv(w)'
  <2>1. CASE ReuseIndex(w)
    <3>1. pc'[w] = "link" /\ held'[w] = ReferencedBy(tarball[w])
      BY <2>1 DEF ReuseIndex, Goto, StoreInv, TypeOK
    <3>2. tarball[w] \in Tarballs
      BY DEF StoreInv, TypeOK
    <3>3. index_file_path(tarball[w]) \in OnDisk
      BY <2>1, <3>2, IndexPathFacts DEF ReuseIndex, OnDisk
    <3>4. held'[w] \subseteq OnDisk
      BY <3>1, <3>2, <3>3 DEF StoreInv, IndexesSatisfied
    <3>5. QED BY <1>2, <3>1, <3>4
          DEF WorkerInv, OpenFileLinked, EntriesEnsured, HeldSatisfied, PruneInformed
  <2>2. CASE MissIndex(w)
    <3>1. pc'[w] = "fetch" /\ held' = held
      BY <2>2 DEF MissIndex, Goto, StoreInv, TypeOK
    <3>2. QED BY <1>3, <3>1
          DEF WorkerInv, OpenFileLinked, EntriesEnsured, HeldSatisfied, PruneInformed
  <2>3. CASE FetchOk(w)
    <3>1. pc'[w] = "exists" /\ held' = held /\ entry'[w] = 1 /\ tarball' = tarball
      BY <2>3 DEF FetchOk, Goto, StoreInv, TypeOK
    <3>2. EntriesBefore(tarball'[w], 1) = {}
      BY DEF EntriesBefore
    <3>3. Entries[tarball'[w]] \in Seq(TarEntries)
      BY StoreAssumption DEF TypeOK
    <3>4. 1 <= Len(Entries[tarball'[w]]) + 1
      BY <3>3
    <3>5. EntriesEnsured(w)'
      BY <3>1, <3>2, <3>4 DEF EntriesEnsured
    <3>6. QED BY <1>3, <3>1, <3>5
          DEF WorkerInv, OpenFileLinked, HeldSatisfied, PruneInformed
  <2>4. QED BY <2>1, <2>2, <2>3
<1>7. QED BY <1>1, <1>5, <1>6, QuietStepKeepsInv

\* The loop has ensured one file more, and after the last entry all that the
\* index references.
LEMMA EntriesBeforeNext ==
  ASSUME NEW t \in Tarballs, NEW n \in Nat \ {0}, n <= Len(Entries[t])
  PROVE  EntriesBefore(t, n + 1) = EntriesBefore(t, n) \cup {EntryPath(Entries[t][n])}
<1>1. Entries[t] \in Seq(TarEntries)
  BY StoreAssumption
<1>2. {k \in 1..Len(Entries[t]) : k < n + 1} = {k \in 1..Len(Entries[t]) : k < n} \cup {n}
  BY <1>1
<1>3. QED BY <1>2, Zenon DEF EntriesBefore

LEMMA EntriesBeforeAll ==
  ASSUME NEW t \in Tarballs
  PROVE  ReferencedBy(t) \subseteq EntriesBefore(t, Len(Entries[t]) + 1)
<1>1. Entries[t] \in Seq(TarEntries)
  BY StoreAssumption
<1>2. {k \in 1..Len(Entries[t]) : k < Len(Entries[t]) + 1} = 1..Len(Entries[t])
  BY <1>1
<1>3. QED BY <1>2, ReferencedFacts DEF EntriesBefore

LEMMA NextEntryKeepsWorkerInv ==
  ASSUME StoreInv, NEW w \in Workers, pc[w] \in {"exists", "write"}, NextEntry(w),
         tarball' = tarball, OnDisk \subseteq OnDisk', Target(w) \in OnDisk'
  PROVE  WorkerInv(w)' /\ pc'[w] \in {"exists", "link"}
<1> DEFINE t == tarball[w]  n == entry[w]
<1>1. /\ t \in Tarballs /\ n \in Nat \ {0}
      /\ n <= Len(Entries[t]) + 1
      /\ EntriesBefore(t, n) \subseteq OnDisk
      /\ held[w] = {}
  BY DEF StoreInv, TypeOK, WorkerInv, EntriesEnsured, HeldSatisfied
<1>2. Entries[t] \in Seq(TarEntries)
  BY <1>1, StoreAssumption
<1>3. CASE n <= Len(Entries[t])
  <2>1. pc'[w] = "exists" /\ entry'[w] = n + 1 /\ held'[w] = {}
    BY <1>1, <1>3 DEF NextEntry, Goto, StoreInv, TypeOK
  <2>2. Target(w) = EntryPath(Entries[t][n])
    BY <1>3 DEF Target
  <2>3. EntriesBefore(t, n + 1) \subseteq OnDisk'
    BY <1>1, <1>3, <2>2, EntriesBeforeNext
  <2>4. tarball'[w] = t /\ n + 1 <= Len(Entries[t]) + 1
    BY <1>1, <1>2, <1>3
  <2>5. EntriesEnsured(w)'
    BY <2>1, <2>3, <2>4 DEF EntriesEnsured
  <2>6. QED BY <2>1, <2>5 DEF WorkerInv, OpenFileLinked, HeldSatisfied, PruneInformed
<1>4. CASE ~(n <= Len(Entries[t]))
  <2>1. pc'[w] = "link" /\ held'[w] = ReferencedBy(t)
    BY <1>4 DEF NextEntry, Goto, StoreInv, TypeOK
  <2>2. n = Len(Entries[t]) + 1
    BY <1>1, <1>2, <1>4
  <2>3. ReferencedBy(t) \subseteq OnDisk'
    BY <1>1, <2>2, EntriesBeforeAll
  <2>4. QED BY <2>1, <2>3
        DEF WorkerInv, OpenFileLinked, EntriesEnsured, HeldSatisfied, PruneInformed
<1>5. QED BY <1>3, <1>4

LEMMA EnsureExistsKeepsInv ==
  ASSUME StoreInv, TypeOK', NEW w \in Workers, EnsureExists(w)
  PROVE  StoreInv'
<1>1. UNCHANGED <<disk, tarball, linked, todo, seen, victim, known, pruned>> /\ pc[w] = "exists"
  BY DEF EnsureExists, loopVars
<1>2. OnDisk' = OnDisk
  BY <1>1 DEF OnDisk
<1>3. entry[w] <= Len(Entries[tarball[w]]) + 1 /\ held[w] = {}
  BY <1>1 DEF StoreInv, WorkerInv, EntriesEnsured, HeldSatisfied
<1>4. Target(w) \in Paths
  BY <1>3, TargetIsPath DEF StoreInv
<1>5. Frame(w)
  BY <1>1 DEF EnsureExists, NextEntry, Goto, Frame, StoreInv, TypeOK
<1>6. WorkerInv(w)' /\ pc'[w] \in {"exists", "open", "link"}
  <2>1. CASE Existing(Target(w))
    <3>1. Target(w) \in OnDisk' /\ NextEntry(w)
      BY <1>2, <1>4, <2>1 DEF Existing, OnDisk, EnsureExists
    <3>2. QED BY <1>1, <1>2, <3>1, NextEntryKeepsWorkerInv
  <2>2. CASE ~Existing(Target(w))
    <3>1. pc'[w] = "open" /\ UNCHANGED <<entry, held>>
      BY <2>2 DEF EnsureExists, Goto, StoreInv, TypeOK
    <3>2. EntriesEnsured(w)'
      BY <1>1, <1>2, <3>1 DEF EntriesEnsured, StoreInv, WorkerInv
    <3>3. QED BY <1>3, <3>1, <3>2 DEF WorkerInv, OpenFileLinked, HeldSatisfied, PruneInformed
  <2>3. QED BY <2>1, <2>2
<1>7. Admitted(w)
  BY <1>1, <1>6 DEF Admitted, Pruning, Downloading, PrunePCs, DownloadPCs
<1>8. QED BY <1>1, <1>5, <1>6, <1>7, QuietStepKeepsInv

\* Opening a file is where an index comes into being: all it references is there.
LEMMA EnsureOpenKeepsInv ==
  ASSUME StoreInv, TypeOK', NEW w \in Workers, EnsureOpen(w)
  PROVE  StoreInv'
<1> DEFINE q == Target(w)  t == tarball[w]
<1>1. /\ pc[w] = "open" /\ pc'[w] = "write" /\ linked'[w]
      /\ UNCHANGED <<tarball, entry, todo, seen, victim, held, known, pruned>>
      /\ disk' = [disk EXCEPT ![q] = IF @ = "absent" THEN "empty" ELSE @]
  BY DEF EnsureOpen, Goto, StoreInv, TypeOK, loopVars
<1>2. /\ t \in Tarballs /\ entry[w] \in Nat \ {0}
      /\ entry[w] <= Len(Entries[t]) + 1
      /\ EntriesBefore(t, entry[w]) \subseteq OnDisk
      /\ held[w] = {}
  BY <1>1 DEF StoreInv, TypeOK, WorkerInv, EntriesEnsured, HeldSatisfied
<1>3. q \in Paths
  BY <1>2, TargetIsPath DEF StoreInv
<1>4. /\ \A p \in Paths : p # q => disk'[p] = disk[p]
      /\ disk'[q] = IF disk[q] = "absent" THEN "empty" ELSE disk[q]
  BY <1>1, <1>3 DEF StoreInv, TypeOK
<1>5. OnDisk' = OnDisk \cup {q}
  BY <1>3, <1>4 DEF OnDisk
<1>6. Frame(w)
  BY <1>1 DEF EnsureOpen, Goto, Frame, StoreInv, TypeOK
<1>7. \A v \in Workers : ~Pruning(v)
  BY <1>1 DEF StoreInv, Exclusive, Downloading, DownloadPCs
<1>8. \A v \in Workers : v # w => WorkerInv(v)'
  BY <1>5, <1>6, <1>7, OthersKeepInv
<1>9. Target(w)' = q
  BY <1>1 DEF Target
<1>10. WorkerInv(w)'
  <2>1. EntriesEnsured(w)'
    BY <1>1, <1>2, <1>5 DEF EntriesEnsured
  <2>2. OpenFileLinked(w)'
    BY <1>1, <1>5, <1>9 DEF OpenFileLinked
  <2>3. QED BY <1>1, <1>2, <2>1, <2>2 DEF WorkerInv, HeldSatisfied, PruneInformed
<1>11. IndexesSatisfied'
  <2> SUFFICES ASSUME NEW u \in Tarballs, index_file_path(u) \in OnDisk'
               PROVE  ReferencedBy(u) \subseteq OnDisk'
    BY DEF IndexesSatisfied
  <2>1. CASE index_file_path(u) \in OnDisk
    BY <1>5, <2>1 DEF StoreInv, IndexesSatisfied
  <2>2. CASE index_file_path(u) = q
    <3>1. Entries[t] \in Seq(TarEntries)
      BY <1>2, StoreAssumption
    <3>2. ~(entry[w] <= Len(Entries[t]))
      <4> SUFFICES ASSUME entry[w] <= Len(Entries[t]) PROVE FALSE
        OBVIOUS
      <4>1. entry[w] \in 1..Len(Entries[t])
        BY <1>2, <3>1
      <4>2. q = EntryPath(Entries[t][entry[w]])
        BY DEF Target
      <4>3. ~IsIndex(q)
        BY <1>2, <4>1, <4>2, EntryPathFacts
      <4>4. QED BY <2>2, <4>3, IndexPathFacts
    <3>3. q = index_file_path(t) /\ entry[w] = Len(Entries[t]) + 1
      BY <1>2, <3>1, <3>2 DEF Target
    <3>4. u = t
      BY <1>2, <2>2, <3>3, IndexPathInjective
    <3>5. QED BY <1>2, <1>5, <3>3, <3>4, EntriesBeforeAll
  <2>3. QED BY <1>5, <2>1, <2>2
<1>12. Admitted(w)
  BY <1>1 DEF Admitted, Pruning, Downloading, PrunePCs, DownloadPCs
<1>13. QED BY <1>6, <1>8, <1>10, <1>11, <1>12, AdmittedKeepsExclusive DEF StoreInv

LEMMA EnsureWriteKeepsInv ==
  ASSUME StoreInv, TypeOK', NEW w \in Workers, EnsureWrite(w)
  PROVE  StoreInv'
<1> DEFINE q == Target(w)
<1>1. /\ pc[w] = "write"
      /\ UNCHANGED <<tarball, todo, seen, victim, known, pruned>>
      /\ NextEntry(w)
  BY DEF EnsureWrite, loopVars
<1>2. linked[w] /\ q \in OnDisk
  BY <1>1 DEF StoreInv, WorkerInv, OpenFileLinked
<1>3. disk' = [disk EXCEPT ![q] = "full"] /\ q \in Paths
  BY <1>2 DEF EnsureWrite, OnDisk
<1>4. /\ \A p \in Paths : p # q => disk'[p] = disk[p]
      /\ disk'[q] = "full"
  BY <1>3 DEF StoreInv, TypeOK
<1>5. OnDisk' = OnDisk
  BY <1>2, <1>4 DEF OnDisk
<1>6. Frame(w)
  BY <1>1 DEF EnsureWrite, NextEntry, Goto, Frame, StoreInv, TypeOK
<1>7. \A v \in Workers : v # w => WorkerInv(v)'
  BY <1>5, <1>6, OthersKeepInv
<1>8. WorkerInv(w)' /\ pc'[w] \in {"exists", "link"}
  BY <1>1, <1>2, <1>5, NextEntryKeepsWorkerInv
<1>9. IndexesSatisfied'
  BY <1>5 DEF StoreInv, IndexesSatisfied
<1>10. Admitted(w)
  BY <1>1, <1>8 DEF Admitted, Pruning, Downloading, PrunePCs, DownloadPCs
<1>11. QED BY <1>6, <1>7, <1>8, <1>9, <1>10, AdmittedKeepsExclusive DEF StoreInv

\* A status step touches nothing but its own loop.
LEMMA StatusKeepsInv ==
  ASSUME StoreInv, TypeOK', NEW w \in Workers,
         StatusRead(w) \/ StatusVerify(w) \/ StatusCheck(w)
  PROVE  StoreInv'
<1>1. /\ UNCHANGED disk
      /\ pc[w] \in StatusPCs
      /\ held[w] = {}
  BY DEF StatusRead, StatusVerify, StatusCheck, StatusPCs, StoreInv, WorkerInv, HeldSatisfied
<1>2. CASE Return(w)
  BY <1>1, <1>2, ReturnKeepsInv
<1>3. CASE ~Return(w)
  <2>1. Frame(w) /\ pc'[w] \in StatusPCs /\ held'[w] = {}
    <3>1. CASE StatusRead(w)
      <4>1. UNCHANGED <<pc, tarball, entry, linked, victim, held, known, pruned>>
        BY <1>3, <3>1 DEF StatusRead, ReadIndex
      <4>2. /\ \A v \in Workers : v # w => todo'[v] = todo[v] /\ seen'[v] = seen[v]
        BY <1>3, <3>1 DEF StatusRead, ReadIndex, StoreInv, TypeOK
      <4>3. QED BY <1>1, <4>1, <4>2 DEF Frame
    <3>2. CASE StatusVerify(w)
      BY <1>1, <3>2 DEF StatusVerify, Goto, Frame, StoreInv, TypeOK, StatusPCs
    <3>3. CASE StatusCheck(w)
      <4>1. UNCHANGED <<pc, tarball, entry, linked, seen, victim, held, known, pruned>>
        BY <1>3, <3>3 DEF StatusCheck
      <4>2. \A v \in Workers : v # w => todo'[v] = todo[v]
        BY <1>3, <3>3 DEF StatusCheck, StoreInv, TypeOK
      <4>3. QED BY <1>1, <4>1, <4>2 DEF Frame
    <3>4. QED BY <3>1, <3>2, <3>3
  <2>2. Admitted(w)
    BY <2>1 DEF Admitted, Pruning, Downloading, PrunePCs, DownloadPCs, StatusPCs
  <2>3. WorkerInv(w)'
    BY <2>1 DEF WorkerInv, OpenFileLinked, EntriesEnsured, HeldSatisfied, PruneInformed,
                StatusPCs
  <2>4. QED BY <1>1, <2>1, <2>2, <2>3, QuietStepKeepsInv
<1>4. QED BY <1>2, <1>3

\* The reading half of a prune.
LEMMA PruneReadKeepsInv ==
  ASSUME StoreInv, TypeOK', NEW w \in Workers, PruneRead(w)
  PROVE  StoreInv'
<1>1. /\ UNCHANGED disk /\ pc[w] = "prune_read" /\ held[w] = {}
  BY DEF PruneRead, StoreInv, WorkerInv, HeldSatisfied
<1>2. OnDisk' = OnDisk
  BY <1>1 DEF OnDisk
<1>3. CASE Return(w)
  BY <1>1, <1>3, ReturnKeepsInv
<1>4. CASE ~Return(w)
  <2>1. PICK t \in Tarballs :
          /\ todo' = [todo EXCEPT ![w] = @ \ {index_file_path(t)}]
          /\ seen' = [seen EXCEPT ![w] = @ \cup StoreFilesOf(t)]
          /\ UNCHANGED <<pc, tarball, entry, linked, victim, held, known, pruned>>
    BY <1>4 DEF PruneRead, ReadIndex
  <2>2. /\ todo'[w] = todo[w] \ {index_file_path(t)}
        /\ seen'[w] = seen[w] \cup ReferencedBy(t)
        /\ \A v \in Workers : v # w => todo'[v] = todo[v] /\ seen'[v] = seen[v]
    BY <2>1, SameReferences DEF StoreInv, TypeOK
  <2>3. Frame(w)
    BY <2>1, <2>2 DEF Frame
  <2>4. ASSUME NEW u \in Tarballs, index_file_path(u) \in OnDisk \ todo'[w]
        PROVE  ReferencedBy(u) \subseteq seen'[w]
    <3>1. CASE index_file_path(u) \in OnDisk \ todo[w]
      BY <1>1, <2>2, <3>1 DEF StoreInv, WorkerInv, PruneInformed
    <3>2. CASE index_file_path(u) = index_file_path(t)
      BY <2>2, <3>2, IndexPathInjective
    <3>3. QED BY <2>2, <2>4, <3>1, <3>2
  <2>5. PruneInformed(w)'
    BY <1>1, <1>2, <2>1, <2>4 DEF PruneInformed
  <2>6. WorkerInv(w)'
    BY <1>1, <2>1, <2>5 DEF WorkerInv, OpenFileLinked, EntriesEnsured, HeldSatisfied
  <2>7. Admitted(w)
    BY <1>1, <2>1 DEF Admitted, Pruning, Downloading, PrunePCs, DownloadPCs
  <2>8. QED BY <1>1, <2>3, <2>6, <2>7, QuietStepKeepsInv
<1>5. QED BY <1>3, <1>4

LEMMA PruneListKeepsInv ==
  ASSUME StoreInv, TypeOK', NEW w \in Workers, PruneList(w)
  PROVE  StoreInv'
<1>1. /\ UNCHANGED disk /\ pc[w] = "prune_read" /\ held[w] = {}
  BY DEF PruneList, StoreInv, WorkerInv, HeldSatisfied
<1>2. OnDisk' = OnDisk
  BY <1>1 DEF OnDisk
<1>3. /\ pc'[w] = "prune_visit" /\ seen' = seen /\ held' = held /\ victim' = victim
      /\ todo'[w] = {p \in Paths : Existing(p) /\ ~IsIndex(p)}
      /\ Frame(w)
  BY DEF PruneList, Goto, Frame, StoreInv, TypeOK, CasFiles
<1>4. \A t \in Tarballs : index_file_path(t) \in OnDisk => ReferencedBy(t) \subseteq seen[w]
  BY <1>1 DEF PruneList, StoreInv, WorkerInv, PruneInformed
<1>5. WorkerInv(w)'
  BY <1>1, <1>2, <1>3, <1>4
     DEF WorkerInv, OpenFileLinked, EntriesEnsured, HeldSatisfied, PruneInformed
<1>6. Admitted(w)
  BY <1>1, <1>3 DEF Admitted, Pruning, Downloading, PrunePCs, DownloadPCs
<1>7. QED BY <1>1, <1>3, <1>5, <1>6, QuietStepKeepsInv

LEMMA PruneVisitKeepsInv ==
  ASSUME StoreInv, TypeOK', NEW w \in Workers, PruneVisit(w)
  PROVE  StoreInv'
<1>1. /\ UNCHANGED <<disk, held, seen>> /\ pc[w] = "prune_visit" /\ held[w] = {}
  BY DEF PruneVisit, StoreInv, WorkerInv, HeldSatisfied
<1>2. OnDisk' = OnDisk
  BY <1>1 DEF OnDisk
<1>3. PICK p \in todo[w] \cup CasFiles :
        /\ todo' = [todo EXCEPT ![w] = @ \ {p}]
        /\ IF PruneSkips(w, p)
           THEN UNCHANGED <<pc, victim>>
           ELSE Goto(w, "prune_remove") /\ victim' = [victim EXCEPT ![w] = p]
  BY DEF PruneVisit
<1>4. Frame(w)
  BY <1>3 DEF PruneVisit, Goto, Frame, StoreInv, TypeOK
<1>5. /\ \A t \in Tarballs : index_file_path(t) \in OnDisk => ReferencedBy(t) \subseteq seen[w]
      /\ \A x \in todo[w] : ~IsIndex(x)
  BY <1>1 DEF StoreInv, WorkerInv, PruneInformed
<1>6. \A x \in todo'[w] : ~IsIndex(x)
  BY <1>3, <1>5 DEF StoreInv, TypeOK
<1>7. PruneInformed(w)' /\ pc'[w] \in {"prune_visit", "prune_remove"}
  <2>1. CASE PruneSkips(w, p)
    BY <1>1, <1>2, <1>3, <1>5, <1>6, <2>1 DEF PruneInformed
  <2>2. CASE ~PruneSkips(w, p)
    <3>1. pc'[w] = "prune_remove" /\ victim'[w] = p /\ p \notin seen[w]
      BY <1>3, <2>2 DEF Goto, PruneSkips, StoreInv, TypeOK
    <3>2. ~IsIndex(p)
      BY <1>5 DEF CasFiles
    <3>3. QED BY <1>1, <1>2, <1>5, <1>6, <3>1, <3>2 DEF PruneInformed
  <2>3. QED BY <2>1, <2>2
<1>8. WorkerInv(w)'
  BY <1>1, <1>7 DEF WorkerInv, OpenFileLinked, EntriesEnsured, HeldSatisfied
<1>9. Admitted(w)
  BY <1>1, <1>7 DEF Admitted, Pruning, Downloading, PrunePCs, DownloadPCs
<1>10. QED BY <1>1, <1>4, <1>8, <1>9, QuietStepKeepsInv

\* The removing half: no download runs, and what is removed is referenced by no
\* index.
LEMMA PruneRemoveFacts ==
  ASSUME StoreInv, NEW w \in Workers, PruneRemove(w), Existing(victim[w])
  PROVE  /\ \A v \in Workers : ~Downloading(v)
         /\ victim[w] \in Paths /\ ~IsIndex(victim[w])
         /\ \A t \in Tarballs :
              index_file_path(t) \in OnDisk => victim[w] \notin ReferencedBy(t)
         /\ \A p \in Paths : p # victim[w] => disk'[p] = disk[p]
         /\ disk'[victim[w]] = "absent"
<1>1. pc[w] = "prune_remove" /\ disk' = [disk EXCEPT ![victim[w]] = "absent"]
  BY DEF PruneRemove
<1>2. Pruning(w) /\ WorkerInv(w)
  BY <1>1 DEF Pruning, PrunePCs, StoreInv
<1>3. victim[w] \in Paths
  BY DEF StoreInv, TypeOK
<1>4. /\ \A t \in Tarballs : index_file_path(t) \in OnDisk => ReferencedBy(t) \subseteq seen[w]
      /\ victim[w] \notin seen[w] /\ ~IsIndex(victim[w])
  BY <1>1, <1>2 DEF WorkerInv, PruneInformed
<1>5. QED BY <1>1, <1>2, <1>3, <1>4 DEF StoreInv, Exclusive, TypeOK

LEMMA PruneRemoveKeepsInv ==
  ASSUME StoreInv, TypeOK', NEW w \in Workers, PruneRemove(w)
  PROVE  StoreInv'
<1>1. pc[w] = "prune_remove" /\ held[w] = {} /\ WorkerInv(w)
  BY DEF PruneRemove, StoreInv, WorkerInv, HeldSatisfied
<1>2. CASE ~Existing(victim[w])
  <2>1. Return(w) /\ UNCHANGED disk
    BY <1>2 DEF PruneRemove
  <2>2. QED BY <1>1, <2>1, ReturnKeepsInv
<1>3. CASE Existing(victim[w])
  <2>1. /\ \A v \in Workers : ~Downloading(v)
        /\ victim[w] \in Paths /\ ~IsIndex(victim[w])
        /\ \A t \in Tarballs :
             index_file_path(t) \in OnDisk => victim[w] \notin ReferencedBy(t)
        /\ \A p \in Paths : p # victim[w] => disk'[p] = disk[p]
        /\ disk'[victim[w]] = "absent"
    BY <1>3, PruneRemoveFacts
  <2>2. OnDisk' = OnDisk \ {victim[w]}
    BY <2>1 DEF OnDisk
  <2>3. \A t \in Tarballs : index_file_path(t) \in OnDisk' <=> index_file_path(t) \in OnDisk
    BY <2>1, <2>2, IndexPathFacts
  <2>4. /\ Goto(w, "prune_visit")
        /\ UNCHANGED <<tarball, entry, todo, seen, held>>
    BY <1>3 DEF PruneRemove
  <2>5. pc'[w] = "prune_visit" /\ \A v \in Workers : v # w => pc'[v] = pc[v]
    BY <2>4 DEF Goto, StoreInv, TypeOK
  <2>6. \A v \in Workers : ~Downloading(v)'
    BY <2>1, <2>5 DEF Downloading, DownloadPCs
  <2>7. Exclusive'
    BY <2>6 DEF Exclusive
  <2>8. IndexesSatisfied'
    BY <2>1, <2>2, <2>3 DEF StoreInv, IndexesSatisfied
  <2>9. ASSUME NEW v \in Workers PROVE WorkerInv(v)'
    <3>1. pc'[v] \notin DownloadPCs /\ held'[v] = {}
      <4>1. held[v] = {}
        BY <2>1 DEF StoreInv, WorkerInv, HeldSatisfied, Downloading, DownloadPCs
      <4>2. QED BY <2>4, <2>6, <4>1 DEF Downloading
    <3>2. PruneInformed(v)'
      <4>1. CASE v = w
        BY <1>1, <2>3, <2>4, <2>5, <4>1 DEF WorkerInv, PruneInformed
      <4>2. CASE v # w
        <5>1. PruneInformed(v) /\ pc'[v] = pc[v] /\ victim'[v] = victim[v]
          BY <1>3, <2>5, <4>2 DEF StoreInv, WorkerInv, PruneRemove, TypeOK
        <5>2. QED BY <2>3, <2>4, <5>1 DEF PruneInformed
      <4>3. QED BY <4>1, <4>2
    <3>3. QED BY <3>1, <3>2
          DEF WorkerInv, OpenFileLinked, EntriesEnsured, HeldSatisfied, DownloadPCs
  <2>10. QED BY <2>7, <2>8, <2>9 DEF StoreInv
<1>4. QED BY <1>2, <1>3

-----------------------------------------------------------------------------
LEMMA StoreInvInit == Init => StoreInv
<1> SUFFICES ASSUME Init PROVE StoreInv
  OBVIOUS
<1>1. TypeOK
  BY NoJobFacts DEF Init, TypeOK
<1>2. OnDisk = {}
  BY DEF Init, OnDisk
<1>3. Exclusive
  BY DEF Init, Exclusive, Pruning, PrunePCs
<1>4. IndexesSatisfied
  BY <1>2 DEF IndexesSatisfied
<1>5. \A w \in Workers : WorkerInv(w)
  BY DEF Init, WorkerInv, OpenFileLinked, EntriesEnsured, HeldSatisfied, PruneInformed
<1>6. QED BY <1>1, <1>3, <1>4, <1>5 DEF StoreInv

LEMMA StoreInvStep ==
  ASSUME PruneAlone PROVE StoreInv /\ [Next]_vars => StoreInv'
<1> SUFFICES ASSUME StoreInv, [Next]_vars PROVE StoreInv'
  OBVIOUS
<1>1. TypeOK'
  BY TypeStep DEF StoreInv
<1>2. ASSUME NEW w \in Workers,
             \/ RejectIndex(w) \/ FetchFails(w) \/ LinkHeld(w) \/ Abort(w)
             \/ PruneFinish(w) \/ StatusFinish(w)
      PROVE  StoreInv'
  <2>1. Return(w) /\ UNCHANGED disk
    BY <1>2 DEF RejectIndex, FetchFails, LinkHeld, Abort, PruneFinish, StatusFinish
  <2>2. QED BY <1>1, <2>1, ReturnKeepsInv
<1>3. CASE UNCHANGED vars
  <2>1. OnDisk' = OnDisk
    BY <1>3 DEF OnDisk, vars
  <2>2. ASSUME NEW w \in Workers PROVE WorkerInv(w)'
    <3>1. WorkerInv(w)
      BY DEF StoreInv
    <3>2. EntriesBefore(tarball'[w], entry'[w]) = EntriesBefore(tarball[w], entry[w])
      BY <1>3 DEF vars
    <3>3. Target(w)' = Target(w)
      BY <1>3 DEF vars, Target
    <3>4. QED BY <1>3, <2>1, <3>1, <3>2, <3>3
          DEF vars, WorkerInv, OpenFileLinked, EntriesEnsured, HeldSatisfied, PruneInformed
  <2>3. Exclusive' /\ IndexesSatisfied'
    BY <1>3, <2>1 DEF vars, StoreInv, Exclusive, IndexesSatisfied, Pruning, Downloading
  <2>4. QED BY <1>1, <2>2, <2>3 DEF StoreInv
<1>4. QED
  BY <1>1, <1>2, <1>3, StartKeepsInv, LoadKeepsInv, EnsureExistsKeepsInv, EnsureOpenKeepsInv,
     EnsureWriteKeepsInv, StatusKeepsInv, PruneReadKeepsInv, PruneListKeepsInv,
     PruneVisitKeepsInv, PruneRemoveKeepsInv
     DEF Next, Step

\* Whatever an index on disk references, and whatever a download returned, is in
\* the store or is being put there by a live worker, or lacks only the content that a
\* worker killed or failing did not write: for any number of workers and any tarballs,
\* when no prune runs during a download.
THEOREM IndexedFilesAreBacked ==
  ASSUME PruneAlone PROVE Spec => []IndexedFilesBacked
<1>1. StoreInv /\ EmptyFilesWritten => IndexedFilesBacked
  <2> SUFFICES ASSUME StoreInv, EmptyFilesWritten PROVE IndexedFilesBacked
    OBVIOUS
  <2>1. \A p \in OnDisk : Backed(p)
    BY DEF StoreInv, TypeOK, EmptyFilesWritten, OnDisk, Backed
  <2>2. ASSUME NEW t \in Tarballs, Existing(index_file_path(t))
        PROVE  ReferencedBy(t) \subseteq OnDisk
    BY <2>2, IndexPathFacts DEF StoreInv, IndexesSatisfied, OnDisk, Existing
  <2>3. ASSUME NEW w \in Workers PROVE held[w] \subseteq OnDisk
    BY DEF StoreInv, WorkerInv, HeldSatisfied
  <2>4. QED BY <2>1, <2>2, <2>3 DEF IndexedFilesBacked
<1>2. Init => EmptyFilesWritten
  BY DEF Init, EmptyFilesWritten
<1>3. StoreInv => TypeOK
  BY DEF StoreInv
<1>4. QED BY <1>1, <1>2, <1>3, StoreInvInit, StoreInvStep, EmptyFilesStep, PTL DEF Spec
-----------------------------------------------------------------------------
(***************************************************************************)
(* The loops of prune and status: what they have read of the indexes stays  *)
(* true until they return, since indexes never go and only grow.            *)
(***************************************************************************)
Referenced(p) ==
  \E t \in Tarballs : disk[index_file_path(t)] = "full" /\ p \in ReferencedBy(t)

\* What w has read is referenced, and a prune has still to visit every file it does
\* not keep.
Scanned(w) ==
  /\ \A p \in seen[w] : Referenced(p)
  /\ pc[w] = "prune_visit" => CasFiles \subseteq todo[w] \cup seen[w]
  /\ pc[w] = "prune_remove" => CasFiles \subseteq todo[w] \cup seen[w] \cup {victim[w]}

ScanInv == \A w \in Workers : Scanned(w)

LEMMA ReferencedIsPath ==
  ASSUME NEW p, Referenced(p) PROVE p \in Paths /\ ~IsIndex(p)
  BY ReferencedFacts DEF Referenced

\* What no step undoes.
LEMMA ReferencesStay ==
  ASSUME StoreInv, NEW w \in Workers, Acts(w)
  PROVE  /\ \A t \in Tarballs :
              disk[index_file_path(t)] = "full" => disk'[index_file_path(t)] = "full"
         /\ \A p : Referenced(p) => Referenced(p)'
         /\ \A v \in Workers : Pruning(v) => CasFiles' \subseteq CasFiles
<1>0. TypeOK
  BY DEF StoreInv
<1>1. ASSUME NEW p \in Paths, disk[p] = "full", ~(PruneRemove(w) /\ p = victim[w])
      PROVE  disk'[p] = "full"
  BY <1>0, <1>1, DiskChanges, DiskSteps
<1>2. ASSUME NEW t \in Tarballs, disk[index_file_path(t)] = "full"
      PROVE  disk'[index_file_path(t)] = "full"
  <2>1. PruneRemove(w) => ~IsIndex(victim[w])
    BY DEF PruneRemove, StoreInv, WorkerInv, PruneInformed
  <2>2. QED BY <1>1, <1>2, <2>1, IndexPathFacts
<1>3. \A p : Referenced(p) => Referenced(p)'
  BY <1>2 DEF Referenced
<1>5. ASSUME NEW v \in Workers, Pruning(v)
      PROVE  CasFiles' \subseteq CasFiles
  <2>1. ~Downloading(w)
    BY <1>5 DEF StoreInv, Exclusive
  <2>2. ~EnsureOpen(w) /\ ~EnsureWrite(w)
    BY <2>1 DEF EnsureOpen, EnsureWrite, Downloading, DownloadPCs
  <2>3. \A p \in Paths : disk'[p] = disk[p] \/ disk'[p] = "absent"
    BY <1>0, <2>2, DiskChanges, DiskSteps
  <2>4. QED BY <2>3 DEF CasFiles, Existing
<1>6. QED BY <1>2, <1>3, <1>5

\* The scans of the workers that did not step.
LEMMA OthersScan ==
  ASSUME StoreInv, ScanInv, NEW w \in Workers, Acts(w), NEW v \in Workers,
         pc'[v] = pc[v], todo'[v] = todo[v], seen'[v] = seen[v], victim'[v] = victim[v]
  PROVE  Scanned(v)'
<1>1. Scanned(v)
  BY DEF ScanInv
<1>2. \A p \in seen'[v] : Referenced(p)'
  BY <1>1, ReferencesStay DEF Scanned
<1>4. Pruning(v) => CasFiles' \subseteq CasFiles
  BY ReferencesStay
<1>5. /\ pc'[v] = "prune_visit" => CasFiles' \subseteq todo'[v] \cup seen'[v]
      /\ pc'[v] = "prune_remove" => CasFiles' \subseteq todo'[v] \cup seen'[v] \cup {victim'[v]}
  BY <1>1, <1>4 DEF Scanned, Pruning, PrunePCs
<1>6. QED BY <1>2, <1>5 DEF Scanned

\* A worker that scans nothing.
LEMMA NoScan ==
  ASSUME NEW v \in Workers, \A p \in seen'[v] : Referenced(p)',
         pc'[v] \notin {"prune_visit", "prune_remove"}
  PROVE  Scanned(v)'
  BY DEF Scanned

LEMMA ReturnScan ==
  ASSUME TypeOK, NEW w \in Workers, Return(w) PROVE Scanned(w)'
<1>1. seen'[w] = {} /\ pc'[w] = "idle"
  BY DEF Return, Goto, TypeOK
<1>2. QED BY <1>1, NoScan

\* Reading an index that parses.
LEMMA ReadScan ==
  ASSUME StoreInv, ScanInv, NEW w \in Workers, PruneRead(w) \/ StatusRead(w), ~Return(w)
  PROVE  Scanned(w)'
<1>1. pc[w] \in {"prune_read", "status_read"} /\ UNCHANGED disk /\ ReadIndex(w)
  BY DEF PruneRead, StatusRead
<1>2. PICK t \in Tarballs :
        /\ disk[index_file_path(t)] = "full"
        /\ seen' = [seen EXCEPT ![w] = @ \cup StoreFilesOf(t)]
        /\ UNCHANGED pc
  BY <1>1 DEF ReadIndex
<1>3. seen'[w] = seen[w] \cup ReferencedBy(t)
  BY <1>2, SameReferences DEF StoreInv, TypeOK
<1>4. \A p \in seen'[w] : Referenced(p)
  BY <1>2, <1>3 DEF ScanInv, Scanned, Referenced
<1>5. \A p : Referenced(p)' = Referenced(p)
  BY <1>1 DEF Referenced
<1>6. QED BY <1>1, <1>2, <1>4, <1>5, NoScan

LEMMA PruneScan ==
  ASSUME StoreInv, ScanInv, NEW w \in Workers, PruneList(w) \/ PruneVisit(w) \/ PruneRemove(w)
  PROVE  Scanned(w)'
<1>0. TypeOK /\ Scanned(w)
  BY DEF StoreInv, ScanInv
<1>1. \A p : Referenced(p) => Referenced(p)'
  BY ReferencesStay DEF Acts, Step
<1>2. CasFiles' \subseteq CasFiles
  BY ReferencesStay DEF Acts, Step, PruneList, PruneVisit, PruneRemove, Pruning, PrunePCs
<1>3. CASE PruneList(w)
  <2>1. seen'[w] = seen[w] /\ pc'[w] = "prune_visit" /\ todo'[w] = CasFiles
    BY <1>0, <1>3 DEF PruneList, Goto, TypeOK, CasFiles
  <2>2. QED BY <1>0, <1>1, <1>2, <2>1 DEF Scanned
<1>4. CASE PruneVisit(w)
  <2>1. PICK p \in todo[w] \cup CasFiles :
          /\ todo' = [todo EXCEPT ![w] = @ \ {p}]
          /\ IF PruneSkips(w, p)
             THEN UNCHANGED <<pc, victim>>
             ELSE Goto(w, "prune_remove") /\ victim' = [victim EXCEPT ![w] = p]
    BY <1>4 DEF PruneVisit
  <2>2. seen' = seen /\ pc[w] = "prune_visit" /\ todo'[w] = todo[w] \ {p}
    BY <1>0, <1>4, <2>1 DEF PruneVisit, TypeOK
  <2>3. CASE PruneSkips(w, p)
    <3>1. p \notin CasFiles \/ p \in seen[w]
      BY <2>3 DEF PruneSkips, CasFiles
    <3>2. QED BY <1>0, <1>1, <1>2, <2>1, <2>2, <2>3, <3>1 DEF Scanned
  <2>4. CASE ~PruneSkips(w, p)
    <3>1. pc'[w] = "prune_remove" /\ victim'[w] = p
      BY <1>0, <2>1, <2>4 DEF Goto, TypeOK
    <3>2. QED BY <1>0, <1>1, <1>2, <2>2, <3>1 DEF Scanned
  <2>5. QED BY <2>3, <2>4
<1>5. CASE PruneRemove(w) /\ ~Return(w)
  <2>1. /\ Goto(w, "prune_visit") /\ UNCHANGED <<todo, seen>>
        /\ pc[w] = "prune_remove"
    BY <1>5 DEF PruneRemove
  <2>2. pc'[w] = "prune_visit"
    BY <1>0, <2>1 DEF Goto, TypeOK
  <2>3. victim[w] \notin CasFiles'
    BY <1>0, <1>5, DiskSteps DEF CasFiles, Existing, TypeOK
  <2>4. QED BY <1>0, <1>1, <1>2, <2>1, <2>2, <2>3 DEF Scanned
<1>6. QED BY <1>0, <1>3, <1>4, <1>5, ReturnScan

LEMMA StatusScan ==
  ASSUME StoreInv, ScanInv, NEW w \in Workers, StatusVerify(w) \/ StatusCheck(w)
  PROVE  Scanned(w)'
<1>0. TypeOK /\ Scanned(w) /\ UNCHANGED disk
  BY DEF StoreInv, ScanInv, StatusVerify, StatusCheck
<1>1. \A p : Referenced(p)' = Referenced(p)
  BY <1>0 DEF Referenced
<1>2. CASE ~Return(w)
  <2>1. seen' = seen /\ pc'[w] = "status_check"
    BY <1>0, <1>2 DEF StatusVerify, StatusCheck, Goto, TypeOK
  <2>2. \A p \in seen'[w] : Referenced(p)'
    BY <1>0, <1>1, <2>1 DEF Scanned
  <2>3. QED BY <2>1, <2>2, NoScan
<1>3. QED BY <1>0, <1>2, ReturnScan

LEMMA ScanStep ==
  ASSUME StoreInv, ScanInv, [Next]_vars PROVE ScanInv'
<1>0. TypeOK
  BY DEF StoreInv
<1>1. CASE UNCHANGED vars
  <2>1. \A p : Referenced(p)' = Referenced(p)
    BY <1>1 DEF vars, Referenced
  <2>2. CasFiles' = CasFiles
    BY <1>1 DEF vars, CasFiles, Existing
  <2>3. QED BY <1>1, <2>1, <2>2 DEF vars, ScanInv, Scanned
<1>2. ASSUME NEW w \in Workers, Acts(w) PROVE ScanInv'
  <2> SUFFICES ASSUME NEW v \in Workers PROVE Scanned(v)'
    BY DEF ScanInv
  <2>1. CASE v # w
    <3>1. /\ pc'[v] = pc[v] /\ todo'[v] = todo[v] /\ seen'[v] = seen[v]
          /\ victim'[v] = victim[v]
      <4>1. CASE PruneRemove(w)
        BY <1>0, <2>1, <4>1 DEF PruneRemove, Return, Goto, TypeOK
      <4>2. CASE ~PruneRemove(w)
        BY <1>0, <1>2, <2>1, <4>2, StepsAreLocal DEF Frame
      <4>3. QED BY <4>1, <4>2
    <3>2. QED BY <1>2, <3>1, OthersScan
  <2>2. CASE v = w
    <3>1. CASE \/ StartDownload(w) \/ StartPrune(w) \/ StartStatus(w)
               \/ ReuseIndex(w) \/ MissIndex(w) \/ FetchOk(w)
               \/ EnsureExists(w) \/ EnsureOpen(w) \/ EnsureWrite(w)
      <4>1. seen' = seen
        BY <3>1 DEF StartDownload, StartPrune, StartStatus, ReuseIndex, MissIndex, FetchOk,
                    EnsureExists, EnsureOpen, EnsureWrite, loopVars
      <4>2. pc'[w] \notin {"prune_visit", "prune_remove"}
        BY <1>0, <3>1 DEF StartDownload, StartPrune, StartStatus, ReuseIndex, MissIndex,
             FetchOk, EnsureExists, EnsureOpen, EnsureWrite, NextEntry, Goto, TypeOK
      <4>3. \A p \in seen'[w] : Referenced(p)'
        BY <1>2, <4>1, ReferencesStay DEF ScanInv, Scanned
      <4>4. QED BY <2>2, <4>2, <4>3, NoScan
    <3>2. CASE PruneRead(w) \/ StatusRead(w)
      BY <1>0, <2>2, <3>2, ReadScan, ReturnScan
    <3>3. CASE PruneList(w) \/ PruneVisit(w) \/ PruneRemove(w)
      BY <2>2, <3>3, PruneScan
    <3>4. CASE StatusVerify(w) \/ StatusCheck(w)
      BY <2>2, <3>4, StatusScan
    <3>5. CASE Return(w)
      BY <1>0, <2>2, <3>5, ReturnScan
    <3>6. QED
      BY <1>2, <3>1, <3>2, <3>3, <3>4, <3>5
         DEF Acts, Step, Abort, RejectIndex, FetchFails, LinkHeld, PruneFinish, StatusFinish
  <2>3. QED BY <2>1, <2>2
<1>3. QED BY <1>1, <1>2 DEF Next, Acts

LEMMA ScanInit == Init => ScanInv
  BY DEF Init, ScanInv, Scanned

\* When a prune returns Ok, no file is left that no index references: also with
\* several prunes at once and workers killed at any step, as long as nobody prunes
\* during a download.
THEOREM PruneLeavesOnlyReferenced ==
  ASSUME PruneAlone PROVE Spec => PruneLeavesNoOrphan
<1>1. StoreInv /\ ScanInv /\ [Next]_vars =>
        [\A w \in Workers : PruneFinish(w) =>
           \A p \in Paths : Existing(p) /\ ~IsIndex(p) =>
             \E t \in Tarballs :
               disk[index_file_path(t)] = "full" /\ p \in ReferencedBy(t)]_vars
  <2> SUFFICES ASSUME StoreInv, ScanInv, NEW w \in Workers, PruneFinish(w),
                      NEW p \in Paths, Existing(p), ~IsIndex(p)
               PROVE  Referenced(p)
    BY DEF Referenced
  <2>1. p \in CasFiles /\ CasFiles \subseteq todo[w] \cup seen[w] /\ todo[w] = {}
    BY DEF PruneFinish, ScanInv, Scanned, CasFiles
  <2>2. QED BY <2>1 DEF ScanInv, Scanned
<1>2. QED
  BY <1>1, StoreInvInit, StoreInvStep, ScanInit, ScanStep, PTL DEF Spec, PruneLeavesNoOrphan
-----------------------------------------------------------------------------
(***************************************************************************)
(* The store implements a PackageStore.                                     *)
(***************************************************************************)
LEMMA HandOut ==
  ASSUME StoreInv, NEW w \in Workers, NextEntry(w), pc[w] \in {"exists", "write"},
         Existing(Target(w)), Target(w) \in Paths
  PROVE  UNCHANGED held \/ \E t \in Indexed :
           held[w] = {} /\ held' = [held EXCEPT ![w] = ReferencedBy(t)]
<1> DEFINE t == tarball[w]  n == entry[w]
<1>1. t \in Tarballs /\ held[w] = {} /\ n <= Len(Entries[t]) + 1
  BY DEF StoreInv, TypeOK, WorkerInv, EntriesEnsured, HeldSatisfied
<1>2. CASE n <= Len(Entries[t])
  BY <1>2 DEF NextEntry
<1>3. CASE ~(n <= Len(Entries[t]))
  <2>1. held' = [held EXCEPT ![w] = ReferencedBy(t)] /\ Target(w) = index_file_path(t)
    BY <1>3 DEF NextEntry, Target
  <2>2. t \in Indexed
    BY <1>1, <2>1 DEF Indexed
  <2>3. QED BY <1>1, <2>1, <2>2
<1>4. QED BY <1>2, <1>3

\* A step that leaves the disk alone and hands nothing out, or hands out a package.
LEMMA QuietPromise ==
  ASSUME UNCHANGED disk, NEW w \in Workers,
         \/ UNCHANGED held
         \/ held' = [held EXCEPT ![w] = {}]
         \/ \E t \in Indexed : held[w] = {} /\ held' = [held EXCEPT ![w] = ReferencedBy(t)]
  PROVE  [Promise!Next]_(Promise!vars)
<1>1. UNCHANGED <<CasFiles, Indexed>>
  BY DEF CasFiles, Indexed, Existing
<1>2. CASE UNCHANGED held
  BY <1>1, <1>2 DEF Promise!vars
<1>3. CASE held' = [held EXCEPT ![w] = {}]
  BY <1>1, <1>3 DEF Promise!Next, Promise!TakeBack
<1>4. CASE \E t \in Indexed : held[w] = {} /\ held' = [held EXCEPT ![w] = ReferencedBy(t)]
  <2>1. PICK t \in Indexed : held[w] = {} /\ held' = [held EXCEPT ![w] = ReferencedBy(t)]
    BY <1>4
  <2>2. t \in Tarballs
    BY DEF Indexed
  <2>3. Promise!Give(w, t)
    BY <1>1, <2>1, <2>2 DEF Promise!Give
  <2>4. QED BY <2>2, <2>3 DEF Promise!Next
<1>5. QED BY <1>2, <1>3, <1>4

\* Opening a file adds a file, or a package whose files are there.
LEMMA OpenPromise ==
  ASSUME StoreInv, NEW w \in Workers, EnsureOpen(w)
  PROVE  [Promise!Next]_(Promise!vars)
<1> DEFINE q == Target(w)
<1>1. /\ UNCHANGED held /\ pc[w] = "open"
      /\ entry[w] <= Len(Entries[tarball[w]]) + 1 /\ TypeOK
      /\ EntriesBefore(tarball[w], entry[w]) \subseteq OnDisk
  BY DEF EnsureOpen, StoreInv, WorkerInv, EntriesEnsured
<1>2. q \in Paths
  BY <1>1, TargetIsPath
<1>3. \A p \in Paths : Existing(p)' <=> Existing(p) \/ p = q
  BY <1>1, DiskSteps DEF Existing
<1>4. CASE ~IsIndex(q)
  <2>1. CasFiles' = CasFiles \cup {q}
    BY <1>2, <1>3, <1>4 DEF CasFiles
  <2>2. Indexed' = Indexed
    BY <1>3, <1>4, IndexPathFacts DEF Indexed
  <2>3. Promise!AddFile(q)
    BY <1>1, <2>1, <2>2 DEF Promise!AddFile
  <2>4. QED BY <1>2, <1>4, <2>3 DEF Promise!Next
<1>5. CASE IsIndex(q)
  <2>1. CasFiles' = CasFiles
    BY <1>3, <1>5 DEF CasFiles
  <2>2. tarball[w] \in Tarballs /\ entry[w] \in Nat \ {0}
    BY <1>1 DEF TypeOK
  <2>3. Entries[tarball[w]] \in Seq(TarEntries)
    BY <2>2, StoreAssumption
  <2>4. ~(entry[w] <= Len(Entries[tarball[w]]))
    <3> SUFFICES ASSUME entry[w] <= Len(Entries[tarball[w]]) PROVE FALSE
      OBVIOUS
    <3>1. entry[w] \in 1..Len(Entries[tarball[w]])
      BY <2>2, <2>3
    <3>2. QED BY <1>5, <2>2, <3>1, EntryPathFacts DEF Target
  <2>5. q = index_file_path(tarball[w]) /\ entry[w] = Len(Entries[tarball[w]]) + 1
    BY <1>1, <2>2, <2>3, <2>4 DEF Target
  <2>6. Indexed' = Indexed \cup {tarball[w]}
    BY <1>3, <2>2, <2>5, IndexPathFacts, IndexPathInjective DEF Indexed
  <2>7. ReferencedBy(tarball[w]) \subseteq OnDisk
    BY <1>1, <2>2, <2>5, EntriesBeforeAll
  <2>8. ReferencedBy(tarball[w]) \subseteq CasFiles
    BY <2>2, <2>7, ReferencedFacts DEF CasFiles, OnDisk, Existing
  <2>9. Promise!AddPackage(tarball[w])
    BY <1>1, <2>1, <2>2, <2>6, <2>8 DEF Promise!AddPackage
  <2>10. QED BY <2>2, <2>9 DEF Promise!Next
<1>6. QED BY <1>4, <1>5

\* Writing changes what a file holds, not which files there are; the last write of a
\* download hands the package out.
LEMMA WritePromise ==
  ASSUME StoreInv, NEW w \in Workers, EnsureWrite(w)
  PROVE  [Promise!Next]_(Promise!vars)
<1>1. TypeOK /\ NextEntry(w) /\ pc[w] = "write" /\ Target(w) \in OnDisk
  BY DEF EnsureWrite, StoreInv, WorkerInv, OpenFileLinked
<1>2. Target(w) \in Paths /\ Existing(Target(w))
  BY <1>1 DEF OnDisk, Existing
<1>3. \A p \in Paths : Existing(p)' = Existing(p)
  BY <1>1, <1>2, DiskSteps DEF Existing
<1>4. UNCHANGED <<CasFiles, Indexed>>
  BY <1>3, IndexPathFacts DEF CasFiles, Indexed
<1>5. CASE UNCHANGED held
  BY <1>4, <1>5 DEF Promise!vars
<1>6. CASE ~UNCHANGED held
  <2>1. PICK t \in Indexed : held[w] = {} /\ held' = [held EXCEPT ![w] = ReferencedBy(t)]
    BY <1>1, <1>2, <1>6, HandOut
  <2>2. t \in Tarballs
    BY DEF Indexed
  <2>3. Promise!Give(w, t)
    BY <1>4, <2>1, <2>2 DEF Promise!Give
  <2>4. QED BY <2>2, <2>3 DEF Promise!Next
<1>7. QED BY <1>5, <1>6

\* What a prune removes, nobody counts on.
LEMMA RemovePromise ==
  ASSUME StoreInv, NEW w \in Workers, PruneRemove(w), Existing(victim[w])
  PROVE  [Promise!Next]_(Promise!vars)
<1> DEFINE q == victim[w]
<1>1. /\ \A v \in Workers : ~Downloading(v)
      /\ q \in Paths /\ ~IsIndex(q)
      /\ \A t \in Tarballs : index_file_path(t) \in OnDisk => q \notin ReferencedBy(t)
      /\ \A p \in Paths : p # q => disk'[p] = disk[p]
      /\ disk'[q] = "absent"
  BY PruneRemoveFacts
<1>2. UNCHANGED held
  BY DEF PruneRemove
<1>3. CasFiles' = CasFiles \ {q}
  BY <1>1 DEF CasFiles, Existing
<1>4. Indexed' = Indexed
  BY <1>1, IndexPathFacts DEF Indexed, Existing
<1>5. \A v \in Workers : held[v] = {}
  BY <1>1 DEF StoreInv, WorkerInv, HeldSatisfied, Downloading, DownloadPCs
<1>6. \A t \in Indexed : t \in Tarballs /\ q \notin ReferencedBy(t)
  BY <1>1, IndexPathFacts DEF Indexed, Existing, OnDisk
<1>7. Promise!Collect(q)
  BY <1>2, <1>3, <1>4, <1>5, <1>6 DEF Promise!Collect
<1>8. QED BY <1>1, <1>7 DEF Promise!Next

LEMMA PackageStoreStep ==
  ASSUME StoreInv, [Next]_vars PROVE [Promise!Next]_(Promise!vars)
<1>1. CASE UNCHANGED vars
  BY <1>1 DEF vars, Promise!vars, CasFiles, Indexed, Existing
<1>2. ASSUME NEW w \in Workers, Acts(w) PROVE [Promise!Next]_(Promise!vars)
  <2>1. CASE EnsureOpen(w)
    BY <2>1, OpenPromise
  <2>2. CASE EnsureWrite(w)
    BY <2>2, WritePromise
  <2>3. CASE PruneRemove(w) /\ Existing(victim[w])
    BY <2>3, RemovePromise
  <2>4. CASE Return(w) /\ UNCHANGED disk
    BY <2>4, QuietPromise DEF Return
  <2>5. CASE ReuseIndex(w)
    <3>1. tarball[w] \in Indexed /\ held[w] = {} /\ UNCHANGED disk
      BY <2>5, IndexPathFacts
         DEF ReuseIndex, Indexed, Existing, StoreInv, TypeOK, WorkerInv, HeldSatisfied
    <3>2. QED BY <2>5, <3>1, QuietPromise DEF ReuseIndex
  <2>6. CASE EnsureExists(w)
    <3>1. UNCHANGED disk /\ pc[w] = "exists" /\ TypeOK
          /\ entry[w] <= Len(Entries[tarball[w]]) + 1
      BY <2>6 DEF EnsureExists, StoreInv, WorkerInv, EntriesEnsured
    <3>2. CASE Existing(Target(w))
      <4>1. NextEntry(w)
        BY <2>6, <3>2 DEF EnsureExists
      <4>2. QED BY <3>1, <3>2, <4>1, TargetIsPath, HandOut, QuietPromise
    <3>3. CASE ~Existing(Target(w))
      BY <2>6, <3>1, <3>3, QuietPromise DEF EnsureExists
    <3>4. QED BY <3>2, <3>3
  <2>7. CASE \/ StartDownload(w) \/ StartPrune(w) \/ StartStatus(w)
             \/ MissIndex(w) \/ FetchOk(w) \/ PruneList(w) \/ PruneVisit(w) \/ StatusVerify(w)
    <3>1. UNCHANGED <<disk, held>>
      BY <2>7 DEF StartDownload, StartPrune, StartStatus, MissIndex, FetchOk, PruneList,
                  PruneVisit, StatusVerify
    <3>2. QED BY <3>1, QuietPromise
  <2>8. CASE PruneRead(w) \/ StatusRead(w) \/ StatusCheck(w)
    <3>1. UNCHANGED disk /\ (UNCHANGED held \/ Return(w))
      BY <2>8 DEF PruneRead, StatusRead, ReadIndex, StatusCheck
    <3>2. QED BY <2>4, <3>1, QuietPromise
  <2>9. QED
    BY <1>2, <2>1, <2>2, <2>3, <2>4, <2>5, <2>6, <2>7, <2>8
       DEF Acts, Step, Abort, RejectIndex, FetchFails, LinkHeld, PruneRemove, PruneFinish,
           StatusFinish
<1>3. QED BY <1>1, <1>2 DEF Next, Acts

LEMMA PackageStoreInit == Init => Promise!Init
  BY IndexPathFacts DEF Init, Promise!Init, CasFiles, Indexed, Existing

\* Whatever downloads, prunes, checks and kills do, those who use the store see files
\* before packages, whole packages, and nothing taken away that they count on, as long
\* as nobody prunes during a download.
THEOREM StoreIsPackageStore == ASSUME PruneAlone PROVE Spec => ImplementsPackageStore
  BY PackageStoreInit, PackageStoreStep, StoreInvInit, StoreInvStep, PTL
     DEF Spec, ImplementsPackageStore, Promise!Spec
=============================================================================
