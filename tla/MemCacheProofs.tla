--------------------------- MODULE MemCacheProofs ---------------------------
(***************************************************************************)
(* Theorems about MemCache for any number of calls, urls and shards.        *)
(***************************************************************************)
EXTENDS MemCache, TLAPS

\* Every step of the cache keeps the types.
LEMMA TypeStep == TypeOK /\ [Next]_vars => TypeOK'
<1> SUFFICES ASSUME TypeOK, [Next]_vars PROVE TypeOK'
  OBVIOUS
<1> USE CacheAssumption DEF TypeOK, Suspend, ReturnOk, ReturnErr, Waiting, Owning, Returned
<1>1. ASSUME NEW c \in Calls, GetOccupied(c) \/ InsertBlocks(c)
      PROVE  TypeOK'
  BY <1>1 DEF GetOccupied, InsertBlocks
<1>2. ASSUME NEW c \in Calls, InsertAndLoad(c)
      PROVE  TypeOK'
  BY <1>2 DEF InsertAndLoad
<1>3. ASSUME NEW c \in Calls, ExternalDone(c) \/ Downloaded(c) \/ DownloadFails(c)
      PROVE  TypeOK'
  BY <1>3 DEF ExternalDone, Downloaded, DownloadFails
<1>4. ASSUME NEW c \in Calls, Publish(c)
      PROVE  TypeOK'
  BY <1>4 DEF Publish, WakeAll
<1>5. ASSUME NEW c \in Calls, ReadAvailable(c) \/ ReadInProgress(c)
      PROVE  TypeOK'
  BY <1>5 DEF ReadAvailable, ReadInProgress
<1>6. ASSUME NEW c \in Calls, Wake(c)
      PROVE  TypeOK'
  BY <1>6 DEF Wake
<1>7. CASE UNCHANGED vars
  BY <1>7 DEF vars
<1>8. QED
  BY <1>1, <1>2, <1>3, <1>4, <1>5, <1>6, <1>7 DEF Next, Start, Step, Finished

\* The cache and every future stay within their types.
THEOREM TypeCorrect == Spec => []TypeOK
<1>1. Init => TypeOK
  BY DEF Init, TypeOK
<1>2. QED BY <1>1, TypeStep, PTL DEF Spec

-----------------------------------------------------------------------------
(***************************************************************************)
(* The inductive invariant: who may be suspended where, given the entry of  *)
(* its url.  The last part is what a caller that unwraps adds.              *)
(***************************************************************************)
SuspendedWhereAllowed ==
  \A c \in Calls :
    /\ pc[c] \in Owning => cache[UrlOf[c]] = "in_progress"
    /\ pc[c] \in Waiting => cache[UrlOf[c]] # "vacant"
    /\ pc[c] = "notified" => cache[UrlOf[c]] = "in_progress"
    /\ pc[c] = "woken" => cache[UrlOf[c]] = "available"
    /\ pc[c] = "ok" => cache[UrlOf[c]] = "available" /\ result[c] = saved[UrlOf[c]]

OneOwner ==
  \A c, d \in Calls :
    pc[c] \in Owning /\ pc[d] \in Owning /\ UrlOf[c] = UrlOf[d] => c = d

EntryOwned ==
  ~Collects /\ ~panicked =>
    \A u \in Urls : cache[u] = "in_progress" =>
      \E c \in Calls : UrlOf[c] = u /\ pc[c] \in Owning

CacheInv ==
  /\ TypeOK
  /\ SuspendedWhereAllowed
  /\ OneOwner
  /\ EntryOwned

LEMMA CacheInvInit == Init => CacheInv
  BY CacheAssumption
     DEF Init, CacheInv, TypeOK, SuspendedWhereAllowed, OneOwner, EntryOwned, Owning, Waiting,
         Returned

LEMMA CacheInvStep == CacheInv /\ [Next]_vars => CacheInv'
<1> SUFFICES ASSUME CacheInv, [Next]_vars PROVE CacheInv'
  OBVIOUS
<1>1. TypeOK'
  BY TypeStep DEF CacheInv
<1> DEFINE Safe == SuspendedWhereAllowed' /\ OneOwner' /\ EntryOwned'
<1> USE CacheAssumption
    DEF CacheInv, TypeOK, SuspendedWhereAllowed, OneOwner, EntryOwned, Owning, Waiting
<1>2. ASSUME NEW c \in Calls, GetOccupied(c) \/ InsertBlocks(c)
      PROVE  Safe
  BY <1>2 DEF GetOccupied, InsertBlocks, Vacant, Suspend
<1>3. ASSUME NEW c \in Calls, InsertAndLoad(c)
      PROVE  Safe
  <2>1. /\ pc[c] = "new" /\ cache[UrlOf[c]] = "vacant"
        /\ cache' = [cache EXCEPT ![UrlOf[c]] = "in_progress"]
        /\ UNCHANGED <<saved, result>>
        /\ UrlOf[c] \in Urls
    BY <1>3 DEF InsertAndLoad, Vacant, ReturnErr
  <2>2. CASE ReturnErr(c)
    <3>1. pc' = [pc EXCEPT ![c] = "err"]
      BY <2>2 DEF ReturnErr, Suspend
    <3>2. Collects \/ panicked'
      BY <2>2 DEF ReturnErr
    <3>3. SuspendedWhereAllowed' /\ OneOwner'
      BY <2>1, <3>1
    <3>4. EntryOwned'
      BY <3>2 DEF EntryOwned
    <3>5. QED BY <3>3, <3>4
  <2>3. CASE (Suspend(c, "store") \/ Suspend(c, "send")) /\ UNCHANGED panicked
    BY <2>1, <2>3 DEF Suspend
  <2>4. QED BY <1>3, <2>2, <2>3 DEF InsertAndLoad
<1>4. ASSUME NEW c \in Calls, ExternalDone(c) \/ Downloaded(c)
      PROVE  Safe
  BY <1>4 DEF ExternalDone, Downloaded, Suspend
<1>5. ASSUME NEW c \in Calls, DownloadFails(c)
      PROVE  Safe
  <2>1. /\ pc[c] = "arrived" /\ pc' = [pc EXCEPT ![c] = "err"]
        /\ panicked' = ~Collects
        /\ UNCHANGED <<cache, saved, result>>
    BY <1>5 DEF DownloadFails, ReturnErr, Suspend
  <2>2. /\ pc'[c] = "err"
        /\ \A d \in Calls : d # c => pc'[d] = pc[d]
    BY <2>1
  <2>3. SuspendedWhereAllowed'
    BY <2>1, <2>2
  <2>4. OneOwner'
    BY <2>1, <2>2
  <2>5. Collects \/ panicked'
    BY <2>1
  <2>6. EntryOwned'
    BY <2>5 DEF EntryOwned
  <2>7. QED BY <2>3, <2>4, <2>6
<1>6. ASSUME NEW c \in Calls, Publish(c)
      PROVE  Safe
  <2>1. /\ pc[c] = "store" /\ UrlOf[c] \in Urls
        /\ cache' = [cache EXCEPT ![UrlOf[c]] = "available"]
        /\ saved' = [saved EXCEPT ![UrlOf[c]] = {c}]
        /\ result' = [result EXCEPT ![c] = {c}]
        /\ panicked' = panicked
    BY <1>6 DEF Publish
  <2>2. /\ pc'[c] = "ok"
        /\ \A d \in Calls : d # c => pc'[d] =
             IF UrlOf[d] = UrlOf[c] /\ pc[d] = "notified" THEN "woken" ELSE pc[d]
    BY <1>6 DEF Publish, WakeAll, Waiters
  <2>3. \A d \in Calls : pc[d] = "ok" => UrlOf[d] # UrlOf[c]
    BY <2>1
  <2>4. \A d \in Calls : d # c /\ pc'[d] \in Owning => pc[d] \in Owning /\ UrlOf[d] # UrlOf[c]
    BY <2>1, <2>2
  <2>5. SuspendedWhereAllowed'
    BY <2>1, <2>2, <2>3, <2>4
  <2>6. OneOwner'
    BY <2>1, <2>2, <2>4
  <2>7. EntryOwned'
    BY <2>1, <2>2, <2>4
  <2>8. QED BY <2>5, <2>6, <2>7
<1>7. ASSUME NEW c \in Calls, ReadAvailable(c) \/ ReadInProgress(c) \/ Wake(c)
      PROVE  Safe
  BY <1>7 DEF ReadAvailable, ReadInProgress, Wake, ReturnOk, Suspend
<1>8. CASE UNCHANGED vars
  BY <1>8 DEF vars
<1>9. QED
  BY <1>1, <1>2, <1>3, <1>4, <1>5, <1>6, <1>7, <1>8 DEF Next, Start, Step, Finished

THEOREM CacheInvariant == Spec => []CacheInv
  BY CacheInvInit, CacheInvStep, PTL DEF Spec

-----------------------------------------------------------------------------
\* What the invariant says of the properties that the runs check.

\* Callers that unwrap: while the program runs, every InProgress entry has exactly
\* one future that will replace it.
THEOREM InProgressEntriesAreProcessed ==
  ASSUME ~Collects PROVE Spec => []InProgressIsProcessed
<1>1. CacheInv => InProgressIsProcessed
  <2> SUFFICES ASSUME CacheInv, ~panicked, NEW u \in Urls, cache[u] = "in_progress"
               PROVE  \E c \in Calls : Owners(u) = {c}
    BY DEF InProgressIsProcessed
  <2>1. PICK c \in Calls : UrlOf[c] = u /\ pc[c] \in Owning
    BY DEF CacheInv, EntryOwned
  <2>2. Owners(u) = {c}
    BY <2>1 DEF CacheInv, OneOwner, Owners
  <2>3. QED BY <2>2
<1>2. QED BY <1>1, CacheInvariant, PTL

\* No waiter sleeps on a finished entry, none is woken for an unfinished one, in
\* any build of callers: the unreachable!() of run_with_mem_cache is unreachable.
THEOREM WakeupsAreNotLost == Spec => []NoLostWakeup
<1>1. CacheInv => NoLostWakeup
  BY DEF CacheInv, SuspendedWhereAllowed, NoLostWakeup
<1>2. QED BY <1>1, CacheInvariant, PTL

\* One download per url, shared by every call that succeeds.
THEOREM DownloadsAreShared == Spec => []OneDownloadPerUrl
<1>1. CacheInv => OneDownloadPerUrl
  <2> SUFFICES ASSUME CacheInv PROVE OneDownloadPerUrl
    OBVIOUS
  <2>1. \A u \in Urls : \A c, d \in Owners(u) : c = d
    BY DEF CacheInv, OneOwner, Owners
  <2>2. \A c, d \in Calls :
          UrlOf[c] = UrlOf[d] /\ pc[c] = "ok" /\ pc[d] = "ok" => result[c] = result[d]
    BY DEF CacheInv, SuspendedWhereAllowed
  <2>3. QED BY <2>1, <2>2 DEF OneDownloadPerUrl
<1>2. QED BY <1>1, CacheInvariant, PTL

-----------------------------------------------------------------------------
(***************************************************************************)
(* With callers that unwrap, the cache implements SingleFlight, step by     *)
(* step.                                                                    *)
(***************************************************************************)
LEMMA PromiseInit == Init => Promise!Init
  BY CacheAssumption DEF Init, Promise!Init, Flight, Progress

LEMMA PromiseStep ==
  ASSUME ~Collects
  PROVE  CacheInv /\ [Next]_vars => [Promise!Next]_(Promise!vars)
<1> SUFFICES ASSUME CacheInv, [Next]_vars PROVE [Promise!Next]_(Promise!vars)
  OBVIOUS
<1> USE CacheAssumption DEF CacheInv, TypeOK, Owning, Waiting, Returned
<1>1. ASSUME NEW c \in Calls, GetOccupied(c)
      PROVE  Promise!Join(c)
  BY <1>1 DEF GetOccupied, Polled, Vacant, Suspend, Promise!Join, Flight, Progress
<1>2. ASSUME NEW c \in Calls, InsertBlocks(c) \/ ExternalDone(c) \/ Downloaded(c) \/ ReadInProgress(c)
      PROVE  UNCHANGED Promise!vars
  BY <1>2 DEF InsertBlocks, ExternalDone, Downloaded, ReadInProgress, Suspend,
              Promise!vars, Flight, Progress
<1>3. ASSUME NEW c \in Calls, InsertAndLoad(c)
      PROVE  Promise!TakeOff(c)
  <2>1. /\ ~panicked /\ pc[c] = "new" /\ cache[UrlOf[c]] = "vacant"
        /\ cache' = [cache EXCEPT ![UrlOf[c]] = "in_progress"]
        /\ UNCHANGED <<saved, result>>
        /\ UrlOf[c] \in Urls
    BY <1>3 DEF InsertAndLoad, Polled, Vacant, ReturnErr
  <2>2. panicked' \in BOOLEAN
    BY TypeStep
  <2>3. PICK l \in {"store", "send", "err"} : pc' = [pc EXCEPT ![c] = l]
    BY <1>3 DEF InsertAndLoad, Suspend, ReturnErr
  <2>4. Progress' = [Progress EXCEPT ![c] = "joined"]
    BY <2>1, <2>3 DEF Progress
  <2>5. Flight' = [Flight EXCEPT ![UrlOf[c]] = "flying"]
    BY <2>1 DEF Flight
  <2>6. Progress[c] = "idle" /\ Flight[UrlOf[c]] = "none"
    BY <2>1 DEF Progress, Flight
  <2>7. QED BY <2>1, <2>2, <2>4, <2>5, <2>6 DEF Promise!TakeOff
<1>4. ASSUME NEW c \in Calls, DownloadFails(c)
      PROVE  Promise!Crash(c)
  <2>1. /\ ~panicked /\ pc[c] = "arrived" /\ pc' = [pc EXCEPT ![c] = "err"]
        /\ UNCHANGED <<cache, saved, result>>
    BY <1>4 DEF DownloadFails, Polled, ReturnErr, Suspend
  <2>2. panicked'
    BY <1>4 DEF DownloadFails, ReturnErr
  <2>3. cache[UrlOf[c]] = "in_progress" /\ UrlOf[c] \in Urls
    BY <2>1 DEF SuspendedWhereAllowed
  <2>4. UNCHANGED <<Flight, Progress>>
    BY <2>1 DEF Flight, Progress
  <2>5. Progress[c] = "joined" /\ Flight[UrlOf[c]] = "flying"
    BY <2>1, <2>3 DEF Flight, Progress
  <2>6. panicked' = TRUE
    BY <2>2, TypeStep
  <2>7. QED BY <2>1, <2>4, <2>5, <2>6 DEF Promise!Crash
<1>5. ASSUME NEW c \in Calls, Publish(c)
      PROVE  Promise!Land(c)
  <2>1. /\ ~panicked /\ pc[c] = "store" /\ panicked' = panicked
        /\ cache' = [cache EXCEPT ![UrlOf[c]] = "available"]
        /\ saved' = [saved EXCEPT ![UrlOf[c]] = {c}]
        /\ result' = [result EXCEPT ![c] = {c}]
        /\ pc' = [WakeAll(UrlOf[c]) EXCEPT ![c] = "ok"]
    BY <1>5 DEF Publish, Polled
  <2>2. cache[UrlOf[c]] = "in_progress" /\ UrlOf[c] \in Urls
    BY <2>1 DEF SuspendedWhereAllowed
  <2>3. Flight[UrlOf[c]] = "flying" /\ Progress[c] = "joined"
    BY <2>1, <2>2 DEF Flight, Progress
  <2>4. Flight' = [Flight EXCEPT ![UrlOf[c]] = "landed"]
    BY <2>1, <2>2 DEF Flight
  <2>5. Progress' = [Progress EXCEPT ![c] = "served"]
    BY <2>1 DEF Progress, WakeAll
  <2>6. QED BY <2>1, <2>3, <2>4, <2>5 DEF Promise!Land
<1>6. ASSUME NEW c \in Calls, ReadAvailable(c) \/ Wake(c)
      PROVE  Promise!Serve(c)
  <2>1. /\ ~panicked /\ pc[c] \in {"lock", "woken"} /\ cache[UrlOf[c]] = "available"
        /\ pc' = [pc EXCEPT ![c] = "ok"]
        /\ result' = [result EXCEPT ![c] = saved[UrlOf[c]]]
        /\ UNCHANGED <<cache, saved, panicked>>
    BY <1>6 DEF ReadAvailable, Wake, Polled, ReturnOk, Suspend, SuspendedWhereAllowed
  <2>2. Progress' = [Progress EXCEPT ![c] = "served"]
    BY <2>1 DEF Progress
  <2>3. Flight[UrlOf[c]] = "landed" /\ Progress[c] = "joined" /\ UNCHANGED Flight
    BY <2>1 DEF Flight, Progress
  <2>4. QED BY <2>1, <2>2, <2>3 DEF Promise!Serve
<1>7. CASE UNCHANGED vars
  BY <1>7 DEF vars, Promise!vars, Flight, Progress
<1>8. QED
  BY <1>1, <1>2, <1>3, <1>4, <1>5, <1>6, <1>7
     DEF Next, Start, Step, Finished, Promise!Next

\* Callers that unwrap see a SingleFlight: calls share one computation per url, all
\* get its value, and a failure ends the program.
THEOREM CacheIsSingleFlight == ASSUME ~Collects PROVE Spec => ImplementsSingleFlight
  BY PromiseInit, PromiseStep, CacheInvariant, PTL
     DEF Spec, ImplementsSingleFlight, Promise!Spec
=============================================================================
