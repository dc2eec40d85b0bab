------------------------------ MODULE MemCache ------------------------------
(***************************************************************************)
(* `DownloadTarballToStore::run_with_mem_cache` of `crates/tarball`: the    *)
(* in-memory cache that lets the futures of one install share a tarball.    *)
(*                                                                          *)
(* Every future of an install is polled by the one task that awaits the     *)
(* `join_all` over them, so an action is the code between two awaits and    *)
(* nothing interleaves inside it.  Three things make this hard all the      *)
(* same: the DashMap `Ref` of a waiter locks a shard across its awaits, and *)
(* an insert into a locked shard blocks the task's thread; the notification *)
(* of the waiters is separate from the state they then read; and an error   *)
(* leaves the function by `?` before either.                                *)
(*                                                                          *)
(* Operators named Seeded... are defects to try the properties on; no       *)
(* specification uses them.                                                 *)
(***************************************************************************)
CONSTANTS
  Calls,     \* the calls of run_with_mem_cache, one future each
  Urls,
  UrlOf,     \* UrlOf[c]: package_url of call c
  Shards,
  ShardOf,   \* ShardOf[u]: the DashMap shard of url u
  MayFail,   \* TRUE: reading the store, the network or the extraction may fail
  Collects   \* TRUE: the caller keeps the Err until its join_all is over
             \* (Fetch::run); FALSE: it unwraps it at once (CreateVirtualStore,
             \* InstallWithoutLockfile), and the panic ends the program

ASSUME CacheAssumption ==
  /\ UrlOf \in [Calls -> Urls]
  /\ ShardOf \in [Urls -> Shards]
  /\ MayFail \in BOOLEAN /\ Collects \in BOOLEAN

VARIABLES
  cache,     \* cache[u]: "vacant", "in_progress", "available"
  saved,     \* saved[u]: the call whose cas_paths Available holds, in a set
  pc,        \* pc[c]: the await the future is suspended at
  result,    \* result[c]: whose cas_paths c returned, in a set
  offline,   \* network_mode = NetworkMode::Offline (--offline), for the whole run
  panicked   \* the program has panicked

vars == <<cache, saved, pc, result, offline, panicked>>

\* Futures that hold the Ref returned by mem_cache.get: all a waiter's awaits do.
Waiting == {"lock", "notified", "woken"}

\* Futures that owe the cache a value.
Owning == {"send", "arrived", "store"}

Returned == {"ok", "err"}

Waiters(u) == {c \in Calls : UrlOf[c] = u /\ pc[c] \in Waiting}
Owners(u)  == {c \in Calls : UrlOf[c] = u /\ pc[c] \in Owning}

ShardReaders(s) == {c \in Calls : ShardOf[UrlOf[c]] = s /\ pc[c] \in Waiting}

\* A future is polled only by a thread that is neither blocked nor unwinding.
Polled == ~panicked /\ \A c \in Calls : pc[c] # "blocked"

-----------------------------------------------------------------------------
Init ==
  /\ cache = [u \in Urls |-> "vacant"]
  /\ saved = [u \in Urls |-> {}]
  /\ pc = [c \in Calls |-> "new"]
  /\ result = [c \in Calls |-> {}]
  /\ offline \in BOOLEAN
  /\ panicked = FALSE

Suspend(c, l) == pc' = [pc EXCEPT ![c] = l]

ReturnOk(c, v) ==
  /\ Suspend(c, "ok")
  /\ result' = [result EXCEPT ![c] = v]

SeededErrIgnored(c) ==
  /\ Suspend(c, "err")
  /\ UNCHANGED <<saved, result, offline, panicked>>

\* `?`: the entry is left as it is, and nobody is notified.
ReturnErr(c) ==
  /\ Suspend(c, "err")
  /\ panicked' = ~Collects
  /\ UNCHANGED <<saved, result, offline>>

SeededMissUntilAvailable(u) == cache[u] # "available"

\* mem_cache.get returns None.
Vacant(u) == cache[u] = "vacant"

\* The insert of the owner branch finds its shard unlocked.
MayInsert(c) == ShardReaders(ShardOf[UrlOf[c]]) = {}

-----------------------------------------------------------------------------
(* First poll.                                                              *)

\* mem_cache.get finds an entry; the Ref stays locked until the call returns.
GetOccupied(c) ==
  /\ Polled
  /\ pc[c] = "new"
  /\ ~Vacant(UrlOf[c])
  /\ Suspend(c, "lock")
  /\ UNCHANGED <<cache, saved, result, offline, panicked>>

\* No entry, but another url's waiter has the shard locked: DashMap blocks the
\* thread, and the futures that could unlock it are polled by that very thread.
InsertBlocks(c) ==
  /\ Polled
  /\ pc[c] = "new"
  /\ Vacant(UrlOf[c])
  /\ ~MayInsert(c)
  /\ Suspend(c, "blocked")
  /\ UNCHANGED <<cache, saved, result, offline, panicked>>

\* Insert InProgress, then load_from_store in the same poll: the index is there,
\* it is not and the tarball is requested, or the call fails (an unreadable
\* index, or a miss with --offline).
InsertAndLoad(c) ==
  /\ Polled
  /\ pc[c] = "new"
  /\ Vacant(UrlOf[c])
  /\ MayInsert(c)
  /\ cache' = [cache EXCEPT ![UrlOf[c]] = "in_progress"]
  /\ \/ Suspend(c, "store") /\ UNCHANGED <<saved, result, offline, panicked>>
     \/ ~offline /\ Suspend(c, "send") /\ UNCHANGED <<saved, result, offline, panicked>>
     \/ MayFail /\ ReturnErr(c)

\* The response or the spawned extraction is ready: other threads see to that,
\* whatever happens to this one.
ExternalDone(c) ==
  /\ pc[c] = "send"
  /\ Suspend(c, "arrived")
  /\ UNCHANGED <<cache, saved, result, offline, panicked>>

\* run_without_mem_cache returns Ok ..
Downloaded(c) ==
  /\ Polled
  /\ pc[c] = "arrived"
  /\ Suspend(c, "store")
  /\ UNCHANGED <<cache, saved, result, offline, panicked>>

\* .. or Err: network, checksum, archive or store.
DownloadFails(c) ==
  /\ Polled
  /\ MayFail
  /\ pc[c] = "arrived"
  /\ ReturnErr(c)
  /\ UNCHANGED cache

SeededWakeOne(u) ==
  LET sleeping == {c \in Waiters(u) : pc[c] = "notified"}
  IN  [c \in Calls |-> IF sleeping # {} /\ c = CHOOSE w \in sleeping : TRUE
                       THEN "woken" ELSE pc[c]]

\* Notify::notify_waiters: every future already inside notified().await.
WakeAll(u) ==
  [c \in Calls |-> IF c \in Waiters(u) /\ pc[c] = "notified" THEN "woken" ELSE pc[c]]

\* cache_lock.write().await, Available, notify_waiters, return.
Publish(c) ==
  /\ Polled
  /\ pc[c] = "store"
  /\ cache' = [cache EXCEPT ![UrlOf[c]] = "available"]
  /\ saved' = [saved EXCEPT ![UrlOf[c]] = {c}]
  /\ pc' = [WakeAll(UrlOf[c]) EXCEPT ![c] = "ok"]
  /\ result' = [result EXCEPT ![c] = {c}]
  /\ UNCHANGED <<offline, panicked>>

-----------------------------------------------------------------------------
(* The waiters.                                                             *)

\* cache_lock.write().await is over (it may have yielded to the task's budget).
ReadAvailable(c) ==
  /\ Polled
  /\ pc[c] = "lock"
  /\ cache[UrlOf[c]] = "available"
  /\ ReturnOk(c, saved[UrlOf[c]])
  /\ UNCHANGED <<cache, saved, offline, panicked>>

\* InProgress: register with notify before the next await.
ReadInProgress(c) ==
  /\ Polled
  /\ pc[c] = "lock"
  /\ cache[UrlOf[c]] = "in_progress"
  /\ Suspend(c, "notified")
  /\ UNCHANGED <<cache, saved, result, offline, panicked>>

\* Woken: Available, or else unreachable!().
Wake(c) ==
  /\ Polled
  /\ pc[c] = "woken"
  /\ IF cache[UrlOf[c]] = "available"
     THEN ReturnOk(c, saved[UrlOf[c]]) /\ UNCHANGED panicked
     ELSE Suspend(c, "err") /\ panicked' = TRUE /\ UNCHANGED result
  /\ UNCHANGED <<cache, saved, offline>>

-----------------------------------------------------------------------------
\* What the runtime owes a future that was polled once.
Step(c) ==
  \/ ExternalDone(c) \/ Downloaded(c) \/ DownloadFails(c) \/ Publish(c)
  \/ ReadAvailable(c) \/ ReadInProgress(c) \/ Wake(c)

Start(c) == GetOccupied(c) \/ InsertBlocks(c) \/ InsertAndLoad(c)

\* The program ends when every future has returned, or by a panic.
Finished ==
  /\ panicked \/ \A c \in Calls : pc[c] \in Returned
  /\ UNCHANGED vars

Next == (\E c \in Calls : Start(c) \/ Step(c)) \/ Finished

\* tokio polls a task it has been woken for, and requests and blocking tasks end.
Fairness == \A c \in Calls : WF_vars(Step(c))

Spec == Init /\ [][Next]_vars
FairSpec == Spec /\ Fairness

-----------------------------------------------------------------------------
(* Properties.                                                              *)

TypeOK ==
  /\ cache \in [Urls -> {"vacant", "in_progress", "available"}]
  /\ saved \in [Urls -> SUBSET Calls]
  /\ pc \in [Calls -> {"new", "blocked"} \cup Waiting \cup Owning \cup Returned]
  /\ result \in [Calls -> SUBSET Calls]
  /\ offline \in BOOLEAN
  /\ panicked \in BOOLEAN

\* `CacheValue::InProgress`: "The package is being processed."  While the program
\* runs, an InProgress entry has exactly one future that will replace it.
InProgressIsProcessed ==
  ~panicked => \A u \in Urls : cache[u] = "in_progress" =>
    \E c \in Calls : Owners(u) = {c}

\* Nobody sleeps on an entry that is already there, and whoever is woken finds it
\* there: `unreachable!("Failed to get or compute tarball data")` is unreachable.
NoLostWakeup ==
  \A c \in Calls :
    /\ pc[c] = "notified" => cache[UrlOf[c]] = "in_progress"
    /\ pc[c] = "woken" => cache[UrlOf[c]] = "available"

\* Two calls for one url never both fill the entry (the "Race condition detected"
\* warning), and all that succeed return the cas_paths of the same download.
OneDownloadPerUrl ==
  /\ \A u \in Urls : \A c, d \in Owners(u) : c = d
  /\ \A c, d \in Calls :
       UrlOf[c] = UrlOf[d] /\ pc[c] = "ok" /\ pc[d] = "ok" => result[c] = result[d]

\* A call that began comes back, or the program ends: "It returns a CAS map of
\* files in the tarball."
EveryCallReturns ==
  \A c \in Calls : pc[c] # "new" ~> pc[c] \in Returned \/ panicked

\* Nothing but a locked shard keeps it from doing so: no lost notification, no
\* entry without an owner, no waiter that blocks its own download.
CallsReturnUnlessBlocked ==
  \A c \in Calls :
    pc[c] # "new" ~> pc[c] \in Returned \/ panicked \/ \E d \in Calls : pc[d] = "blocked"

-----------------------------------------------------------------------------
(* The cache is a SingleFlight as long as errors are unwrapped at once.     *)

Flight ==
  [u \in Urls |-> CASE cache[u] = "vacant"      -> "none"
                    [] cache[u] = "in_progress" -> "flying"
                    [] cache[u] = "available"   -> "landed"]

Progress ==
  [c \in Calls |-> CASE pc[c] \in {"new", "blocked"} -> "idle"
                     [] pc[c] = "ok"                 -> "served"
                     [] OTHER                        -> "joined"]

Promise == INSTANCE SingleFlight WITH
  Keys <- Urls, KeyOf <- UrlOf, flight <- Flight, value <- saved,
  call <- Progress, got <- result, over <- panicked

\* Every behaviour of the cache is one of a SingleFlight: `CacheValue::Available`,
\* "The package is saved.", is decided once and handed to every other call.
ImplementsSingleFlight == Promise!Spec
=============================================================================
