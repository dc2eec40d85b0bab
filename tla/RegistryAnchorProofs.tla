------------------------ MODULE RegistryAnchorProofs ------------------------
(***************************************************************************)
(* Proofs about RegistryAnchor, for any tests, servers and kills: types and *)
(* the file lock, and ServedWhileUsed.                                      *)
(*                                                                          *)
(* ServedWhileUsed is not inductive: that the last test to leave stops a    *)
(* server nobody counts on follows from the count in the anchor, which is   *)
(* right because a server is written into the anchor by one test only       *)
(* (Sole) and because `just registry-mock` and the tests never share one    *)
(* (Apart).                                                                 *)
(***************************************************************************)
EXTENDS RegistryAnchor, FiniteSetTheorems, TLAPS

\* Where a test relies on the server in its info.
Relying == {"init", "using", "drop", "leave"}

\* Such a test, and one that stops a server, knows exactly one.
Bound ==
  \A u \in Users : pc[u] \in Relying \cup {"stop", "delete"} => \E s \in Servers : info[u] = {s}

\* It is not one of those that `just registry-mock` launches and ends.
Apart ==
  /\ \A u \in Users : pc[u] \in Relying => info[u] \cap (prepared \cup launched) = {}
  /\ \A a \in anchor : a.server \cap (prepared \cup launched) = {}

\* A test that has spawned a server is the only one that knows it.
Sole == \A u, v \in Users : pc[u] = "init" /\ v # u => info[v] # info[u]

\* It runs, unless the process that stopped it has left the anchor; and so does the one
\* in the anchor, but while a test deletes it.
Serving ==
  /\ \A u \in Users : pc[u] \in Relying => info[u] \subseteq alive \cup cut
  /\ \A a \in Loaded : \/ a.server \subseteq alive \cup cut
                       \/ \E u \in Users : pc[u] = "delete" /\ info[u] = a.server

\* A test that stops a server has left an anchor that counts nobody.
Stopping ==
  \A u \in Users : pc[u] = "stop" => \E a \in anchor : a.server = info[u] /\ a.ref_count = 0

\* The anchor counts all tests that use its server.
Counting == \A a \in Loaded : Cardinality(UsersOf(a)) <= a.ref_count

AnchorInv == TypeOK /\ Bound /\ Apart /\ Sole /\ Serving /\ Stopping /\ Counting

-----------------------------------------------------------------------------
LEMMA PcAfter ==
  ASSUME TypeOK, NEW u \in Users, NEW l \in States, Go(u, l)
  PROVE  /\ pc' \in [Users -> States] /\ pc'[u] = l
         /\ \A v \in Users : v # u => pc'[v] = pc[v]
BY DEF TypeOK, Go

LEMMA OverFacts ==
  ASSUME TypeOK, NEW u \in Users, Over(u)
  PROVE  /\ pc' \in [Users -> States] /\ pc'[u] = "idle"
         /\ \A v \in Users : v # u => pc'[v] = pc[v]
         /\ info' \in [Users -> SUBSET Servers] /\ info'[u] = {}
         /\ \A v \in Users : v # u => info'[v] = info[v]
         /\ lock' = {v \in Users : pc'[v] \in Holding} /\ \A v, w \in lock' : v = w
<1>1. "idle" \in States
  BY DEF States
<1>2. Go(u, "idle") /\ info' = [info EXCEPT ![u] = {}] /\ lock' = lock \ {u}
  BY DEF Over
<1>3. /\ pc' \in [Users -> States] /\ pc'[u] = "idle"
      /\ \A v \in Users : v # u => pc'[v] = pc[v]
  BY <1>1, <1>2, PcAfter
<1>4. /\ info' \in [Users -> SUBSET Servers] /\ info'[u] = {}
      /\ \A v \in Users : v # u => info'[v] = info[v]
  BY <1>2 DEF TypeOK
<1>5. lock' = {v \in Users : pc'[v] \in Holding} /\ \A v, w \in lock' : v = w
  BY <1>2, <1>3 DEF TypeOK, Holding
<1>6. QED BY <1>3, <1>4, <1>5

\* Who holds the lock.
LEMMA Holders ==
  ASSUME TypeOK, NEW u \in Users, NEW v \in Users, pc[u] \in Holding, pc[v] \in Holding
  PROVE  u = v
BY DEF TypeOK

LEMMA NobodyHolds ==
  ASSUME TypeOK, lock = {}, NEW u \in Users
  PROVE  pc[u] \notin Holding
BY DEF TypeOK

-----------------------------------------------------------------------------
\* The anchors the actions write.
LEMMA CountedType == ASSUME NEW a \in Anchor PROVE Counted(a) \in Anchor
BY DEF Counted, Anchor

LEMMA FreshServer ==
  ASSUME NEW s \in Fresh
  PROVE  /\ s \in Servers /\ s \notin prepared \cup launched
         /\ \A u \in Users : s \notin info[u]
         /\ \A a \in anchor : s \notin a.server
BY DEF Fresh, Free

LEMMA TypeStep == ASSUME TypeOK, Bound, [Next]_vars PROVE TypeOK'
<1>1. /\ MaxKills \in Nat
      /\ {"idle", "prepared", "try_lock", "spawn", "init", "lock", "join", "using", "drop",
          "leave", "stop", "delete"} \subseteq States
  BY AnchorAssumption DEF States
<1>2. CASE UNCHANGED vars
  BY <1>2 DEF vars, TypeOK
<1>3. CASE Command
  <2>1. UNCHANGED <<lock, anchor, pc, info, kills>>
    BY <1>3 DEF Command, Launch, LaunchFails, Save, End, DeletePrepared, files, history
  <2>2. /\ alive' \subseteq Servers /\ cut' \subseteq Servers
        /\ prepared' \subseteq Servers /\ launched' \subseteq Servers
        /\ cli' \in {"idle", "save", "delete"}
    BY <1>3, FreshServer
    DEF TypeOK, Command, Launch, LaunchFails, Save, End, DeletePrepared, Started, files, history
  <2>3. QED BY <2>1, <2>2 DEF TypeOK
<1>4. ASSUME NEW u \in Users, Step(u) \/ Kill(u) PROVE TypeOK'
  <2>1. UNCHANGED <<prepared, cli, launched>>
    BY <1>4 DEF Step, Kill, Load, TryLock, Spawn, SpawnFails, Initialize, Lock, Join, EndTest,
                Leave, StopServer, Delete, files, command
  <2>2. kills' \in Nat
    BY <1>4 DEF TypeOK, Step, Kill, Load, TryLock, Spawn, SpawnFails, Initialize, Lock, Join,
                EndTest, Leave, StopServer, Delete, history
  <2>3. alive' \subseteq Servers /\ cut' \subseteq Servers
    <3>1. info[u] \subseteq Servers
      BY DEF TypeOK
    <3>2. QED
      BY <1>4, <3>1, FreshServer
      DEF TypeOK, Step, Kill, Load, TryLock, Spawn, SpawnFails, Initialize, Lock, Join,
          EndTest, Leave, StopServer, Delete, Started, history
  <2>4. CASE Over(u) /\ anchor' \subseteq Anchor /\ \A a, b \in anchor' : a = b
    <3>1. /\ pc' \in [Users -> States] /\ info' \in [Users -> SUBSET Servers]
          /\ lock' = {v \in Users : pc'[v] \in Holding} /\ \A v, w \in lock' : v = w
      BY <2>4, OverFacts
    <3>2. QED BY <2>1, <2>2, <2>3, <2>4, <3>1 DEF TypeOK
  <2>5. Torn \in Anchor /\ anchor \subseteq Anchor /\ \A a, b \in anchor : a = b
    BY DEF Torn, Anchor, TypeOK
  <2>6. CASE Kill(u) \/ SpawnFails(u) \/ Delete(u)
    <3>1. Over(u) /\ (anchor' = anchor \/ anchor' = {Torn} \/ anchor' = {})
      BY <2>6 DEF Kill, SpawnFails, Delete, files
    <3>2. QED BY <2>4, <2>5, <3>1
  <2>7. CASE Load(u) \/ TryLock(u) \/ Spawn(u) \/ Lock(u) \/ StopServer(u)
    <3>1. anchor' = anchor
      BY <2>7 DEF Load, TryLock, Spawn, Lock, StopServer, files
    <3>2. info' \in [Users -> SUBSET Servers]
      BY <2>7, FreshServer DEF TypeOK, Load, TryLock, Spawn, Lock, StopServer
    <3>3. pc' \in [Users -> States]
      BY <1>1, <2>7, PcAfter DEF Load, TryLock, Spawn, Lock, StopServer
    <3>4. lock' = {v \in Users : pc'[v] \in Holding} /\ \A v, w \in lock' : v = w
      BY <1>1, <2>7 DEF TypeOK, Load, TryLock, Spawn, Lock, StopServer, Go, Holding
    <3>5. QED BY <2>1, <2>2, <2>3, <3>1, <3>2, <3>3, <3>4 DEF TypeOK
  <2>8. CASE Initialize(u)
    <3>1. pc[u] = "init" /\ Go(u, "using") /\ lock' = {} /\ UNCHANGED info
      BY <2>8 DEF Initialize
    <3>2. anchor' = {[ref_count |-> 1, server |-> info[u]]}
      BY <2>8 DEF Initialize
    <3>3. [ref_count |-> 1, server |-> info[u]] \in Anchor
      <4>1. PICK s \in Servers : info[u] = {s}
        BY <3>1 DEF Bound, Relying
      <4>2. QED BY <4>1 DEF Anchor
    <3>4. pc' \in [Users -> States] /\ lock' = {v \in Users : pc'[v] \in Holding}
      BY <1>1, <3>1, PcAfter DEF TypeOK, Holding
    <3>5. QED BY <2>1, <2>2, <2>3, <3>1, <3>2, <3>3, <3>4 DEF TypeOK
  <2>9. CASE Join(u)
    <3>1. CASE Loaded = {} /\ Over(u) /\ UNCHANGED anchor
      BY <2>4, <2>5, <3>1
    <3>2. ASSUME NEW a \in Loaded, pc[u] = "join", Go(u, "using"), lock' = {},
                 anchor' = {Counted(a)}, info' = [info EXCEPT ![u] = a.server]
          PROVE  TypeOK'
      <4>1. anchor' \subseteq Anchor /\ \A b, c \in anchor' : b = c
        BY <2>5, <3>2, CountedType DEF Loaded
      <4>2. pc' \in [Users -> States] /\ lock' = {v \in Users : pc'[v] \in Holding}
        BY <1>1, <3>2, PcAfter DEF TypeOK, Holding
      <4>3. info' \in [Users -> SUBSET Servers]
        BY <2>5, <3>2 DEF Loaded, Anchor, TypeOK
      <4>4. QED BY <2>1, <2>2, <2>3, <3>2, <4>1, <4>2, <4>3 DEF TypeOK
    <3>3. QED BY <2>9, <3>1, <3>2 DEF Join
  <2>10. CASE EndTest(u)
    <3>1. anchor' = anchor
      BY <2>10 DEF EndTest, files
    <3>2. CASE Over(u)
      BY <2>4, <2>5, <3>1, <3>2
    <3>3. CASE pc[u] = "using" /\ Go(u, "drop") /\ UNCHANGED <<info, lock>>
      <4>1. pc' \in [Users -> States] /\ lock' = {v \in Users : pc'[v] \in Holding}
        BY <1>1, <3>3, PcAfter DEF TypeOK, Holding
      <4>2. QED BY <2>1, <2>2, <2>3, <3>1, <3>3, <4>1 DEF TypeOK
    <3>4. QED BY <2>10, <3>2, <3>3 DEF EndTest
  <2>11. CASE Leave(u)
    <3>1. CASE Over(u) /\ UNCHANGED anchor
      BY <2>4, <2>5, <3>1
    <3>2. ASSUME NEW a \in Loaded, a.ref_count > 1, Over(u),
                 anchor' = {[a EXCEPT !.ref_count = @ - 1]}
          PROVE  TypeOK'
      <4>1. [a EXCEPT !.ref_count = @ - 1] \in Anchor
        BY <2>5, <3>2 DEF Loaded, Anchor
      <4>2. QED BY <2>4, <3>2, <4>1
    <3>3. ASSUME NEW a \in Loaded, pc[u] = "leave", Go(u, "stop"), UNCHANGED <<info, lock>>,
                 anchor' = {[a EXCEPT !.ref_count = 0]}
          PROVE  TypeOK'
      <4>1. anchor' \subseteq Anchor /\ \A b, c \in anchor' : b = c
        BY <2>5, <3>3 DEF Loaded, Anchor
      <4>2. pc' \in [Users -> States] /\ lock' = {v \in Users : pc'[v] \in Holding}
        BY <1>1, <3>3, PcAfter DEF TypeOK, Holding
      <4>3. QED BY <2>1, <2>2, <2>3, <3>3, <4>1, <4>2 DEF TypeOK
    <3>4. QED BY <2>11, <3>1, <3>2, <3>3 DEF Leave
  <2>12. QED BY <1>4, <2>6, <2>7, <2>8, <2>9, <2>10, <2>11 DEF Step
<1>5. QED BY <1>2, <1>3, <1>4 DEF Next

-----------------------------------------------------------------------------
Others == Bound /\ Apart /\ Sole /\ Serving /\ Stopping /\ Counting

\* An anchor that loses users, or gains none, still counts them.
LEMMA StillCounts ==
  ASSUME TypeOK, Counting,
         \A a \in Loaded' : a \in Loaded /\ UsersOf(a)' \subseteq UsersOf(a)
  PROVE  Counting'
<1> SUFFICES ASSUME NEW a \in Loaded' PROVE Cardinality(UsersOf(a)') <= a.ref_count
  BY DEF Counting
<1>1. IsFiniteSet(UsersOf(a))
  BY AnchorAssumption, FS_Subset DEF UsersOf
<1>2. /\ Cardinality(UsersOf(a)') \in Nat /\ Cardinality(UsersOf(a)) \in Nat
      /\ Cardinality(UsersOf(a)') <= Cardinality(UsersOf(a))
  BY <1>1, FS_Subset, FS_CardinalityType
<1>3. a.ref_count \in Nat /\ Cardinality(UsersOf(a)) <= a.ref_count
  BY DEF Counting, TypeOK, Anchor, Loaded
<1>4. QED BY <1>2, <1>3

LEMMA CommandKeeps == ASSUME AnchorInv, Command PROVE Others'
<1>1. UNCHANGED <<lock, anchor, pc, info, kills>>
  BY DEF Command, Launch, LaunchFails, Save, End, DeletePrepared, files, history
<1>2. Loaded' = Loaded /\ \A a : UsersOf(a)' = UsersOf(a)
  BY <1>1 DEF Loaded, UsersOf
<1>3. Bound' /\ Sole' /\ Stopping'
  BY <1>1 DEF AnchorInv, Bound, Sole, Stopping
<1>4. Counting'
  BY <1>1, <1>2 DEF AnchorInv, Counting
<1>5. Apart'
  <2>1. CASE Launch
    <3>1. PICK s \in Fresh : launched' = {s}
      BY <2>1 DEF Launch
    <3>2. prepared' = prepared
      BY <2>1 DEF Launch, files
    <3>3. QED BY <1>1, <3>1, <3>2, FreshServer DEF AnchorInv, Apart
  <2>2. CASE ~Launch
    <3>1. prepared' \cup launched' \subseteq prepared \cup launched
      BY <2>2 DEF Command, LaunchFails, Save, End, DeletePrepared, files
    <3>2. QED BY <1>1, <3>1 DEF AnchorInv, Apart
  <2>3. QED BY <2>1, <2>2
<1>6. Serving'
  <2>1. (alive \cup cut) \ prepared \subseteq alive' \cup cut'
    BY DEF Command, Launch, LaunchFails, Save, End, DeletePrepared, Started, files, history
  <2>2. ASSUME NEW u \in Users, pc[u] \in Relying PROVE info[u] \subseteq alive' \cup cut'
    BY <2>1, <2>2 DEF AnchorInv, Apart, Serving
  <2>3. ASSUME NEW a \in Loaded
        PROVE  \/ a.server \subseteq alive' \cup cut'
               \/ \E u \in Users : pc[u] = "delete" /\ info[u] = a.server
    BY <2>1 DEF AnchorInv, Apart, Serving, Loaded
  <2>4. QED BY <1>1, <1>2, <2>2, <2>3 DEF Serving
<1>7. QED BY <1>3, <1>4, <1>5, <1>6 DEF Others

\* A test that ends, by whatever step, having left the anchor alone or torn.
LEMMA OverKeeps ==
  ASSUME AnchorInv, NEW u \in Users, Over(u), anchor' \in {anchor, {Torn}},
         anchor' # anchor => pc[u] \in Holding,
         UNCHANGED <<alive, prepared, launched>>, cut \subseteq cut',
         pc[u] = "delete" => info[u] \subseteq cut'
  PROVE  Others'
<1>1. /\ pc'[u] = "idle" /\ \A v \in Users : v # u => pc'[v] = pc[v]
      /\ info'[u] = {} /\ \A v \in Users : v # u => info'[v] = info[v]
  BY OverFacts DEF AnchorInv
<1>2. /\ "idle" \notin Relying \cup {"stop", "delete", "init"}
      /\ \A a \in Loaded' : a \in Loaded
  BY DEF Relying, Loaded, Torn
<1>3. Bound' /\ Sole'
  BY <1>1, <1>2 DEF AnchorInv, Bound, Sole, Relying
<1>4. Apart'
  <2>1. Torn.server = {}
    BY DEF Torn
  <2>2. QED BY <1>1, <1>2, <2>1 DEF AnchorInv, Apart
<1>5. Serving'
  BY <1>1, <1>2 DEF AnchorInv, Serving
<1>6. Stopping'
  <2> SUFFICES ASSUME NEW v \in Users, pc'[v] = "stop"
               PROVE  \E a \in anchor' : a.server = info'[v] /\ a.ref_count = 0
    BY DEF Stopping
  <2>1. v # u /\ pc[v] = "stop" /\ info'[v] = info[v]
    BY <1>1
  <2>2. anchor' = anchor
    BY <2>1, Holders DEF AnchorInv, Holding
  <2>3. QED BY <2>1, <2>2 DEF AnchorInv, Stopping
<1>7. Counting'
  <2>1. \A a \in Loaded' : UsersOf(a)' \subseteq UsersOf(a)
    BY <1>1 DEF UsersOf
  <2>2. QED BY <1>2, <2>1, StillCounts DEF AnchorInv
<1>8. QED BY <1>3, <1>4, <1>5, <1>6, <1>7 DEF Others

\* A test that goes on, the anchor and the servers as they were.
LEMMA GoKeeps ==
  ASSUME AnchorInv, NEW u \in Users, NEW l \in States, Go(u, l),
         UNCHANGED <<alive, anchor, prepared, launched, cut, info>>,
         l \in Relying => pc[u] \in Relying /\ l # "init",
         l \notin {"stop", "delete"}, pc[u] # "delete",
         l = "leave" => pc[u] = "drop", l = "drop" => pc[u] = "using", l # "using"
  PROVE  Others'
<1>1. pc'[u] = l /\ \A v \in Users : v # u => pc'[v] = pc[v]
  BY PcAfter DEF AnchorInv
<1>2. Bound' /\ Sole' /\ Apart' /\ Stopping'
  BY <1>1 DEF AnchorInv, Bound, Sole, Apart, Stopping, Relying
<1>3. Loaded' = Loaded
  BY DEF Loaded
<1>4. Serving'
  BY <1>1, <1>3 DEF AnchorInv, Serving
<1>5. Counting'
  <2>1. \A a \in Loaded' : UsersOf(a)' \subseteq UsersOf(a)
    BY <1>1 DEF UsersOf
  <2>2. QED BY <1>3, <2>1, StillCounts DEF AnchorInv
<1>6. QED BY <1>2, <1>4, <1>5 DEF Others

LEMMA LoadKeeps == ASSUME AnchorInv, NEW u \in Users, Load(u) PROVE Others'
<1>1. /\ pc[u] = "idle" /\ {"prepared", "try_lock"} \subseteq States
      /\ UNCHANGED <<alive, lock, anchor, prepared, launched, cut>>
  BY DEF Load, States, files, command, history
<1>2. CASE Go(u, "try_lock") /\ UNCHANGED info
  BY <1>1, <1>2, GoKeeps DEF Relying
<1>3. CASE Go(u, "prepared") /\ info' = [info EXCEPT ![u] = prepared]
  <2>1. /\ pc'[u] = "prepared" /\ \A v \in Users : v # u => pc'[v] = pc[v]
        /\ info'[u] = prepared /\ \A v \in Users : v # u => info'[v] = info[v]
    BY <1>1, <1>3, PcAfter DEF AnchorInv, TypeOK
  <2>2. Bound' /\ Apart' /\ Stopping'
    BY <1>1, <2>1 DEF AnchorInv, Bound, Apart, Stopping, Relying
  <2>3. Sole'
    <3>1. ASSUME NEW v \in Users, v # u, pc[v] = "init" PROVE prepared # info[v]
      <4>1. info[v] \cap prepared = {} /\ info[v] # {}
        BY <3>1 DEF AnchorInv, Apart, Bound, Relying
      <4>2. QED BY <4>1
    <3>2. QED BY <2>1, <3>1 DEF AnchorInv, Sole
  <2>4. Loaded' = Loaded
    BY <1>1 DEF Loaded
  <2>5. Serving'
    BY <1>1, <2>1, <2>4 DEF AnchorInv, Serving, Relying
  <2>6. Counting'
    <3>1. \A a \in Loaded' : UsersOf(a)' \subseteq UsersOf(a)
      BY <2>1 DEF UsersOf
    <3>2. QED BY <2>4, <3>1, StillCounts DEF AnchorInv
  <2>7. QED BY <2>2, <2>3, <2>5, <2>6 DEF Others
<1>4. QED BY <1>2, <1>3 DEF Load

LEMMA SpawnKeeps == ASSUME AnchorInv, NEW u \in Users, Spawn(u) PROVE Others'
<1>1. PICK s \in Fresh : Started(s) /\ info' = [info EXCEPT ![u] = {s}]
  BY DEF Spawn
<1>2. /\ s \in Servers /\ s \notin prepared \cup launched
      /\ \A v \in Users : s \notin info[v]
      /\ \A a \in anchor : s \notin a.server
  BY FreshServer
<1>3. /\ pc[u] = "spawn" /\ Go(u, "init") /\ UNCHANGED <<anchor, prepared, launched>>
      /\ alive \cup cut \subseteq alive' \cup cut' /\ s \in alive'
  BY <1>1 DEF Spawn, Started, files, command
<1>4. /\ pc'[u] = "init" /\ \A v \in Users : v # u => pc'[v] = pc[v]
      /\ info'[u] = {s} /\ \A v \in Users : v # u => info'[v] = info[v]
  BY <1>1, <1>3, PcAfter DEF AnchorInv, TypeOK, States
<1>5. Bound' /\ Apart' /\ Stopping'
  BY <1>2, <1>3, <1>4 DEF AnchorInv, Bound, Apart, Stopping, Relying
<1>6. Sole'
  <2>1. \A v \in Users : v # u => pc[v] # "init"
    BY <1>3, Holders DEF AnchorInv, Holding
  <2>2. QED BY <1>2, <1>4, <2>1 DEF Sole
<1>7. Loaded' = Loaded
  BY <1>3 DEF Loaded
<1>8. Serving'
  BY <1>3, <1>4, <1>7 DEF AnchorInv, Serving, Relying
<1>9. Counting'
  <2>1. \A a \in Loaded' : UsersOf(a)' \subseteq UsersOf(a)
    BY <1>4 DEF UsersOf
  <2>2. QED BY <1>7, <2>1, StillCounts DEF AnchorInv
<1>10. QED BY <1>5, <1>6, <1>8, <1>9 DEF Others

LEMMA InitializeKeeps == ASSUME AnchorInv, NEW u \in Users, Initialize(u) PROVE Others'
<1>1. /\ pc[u] = "init" /\ Go(u, "using")
      /\ UNCHANGED <<alive, prepared, info, launched, cut>>
  BY DEF Initialize, command, history
<1>2. pc'[u] = "using" /\ \A v \in Users : v # u => pc'[v] = pc[v]
  BY <1>1, PcAfter DEF AnchorInv, States
<1>3. anchor' = {[ref_count |-> 1, server |-> info[u]]}
  BY DEF Initialize
<1>4. \A v \in Users : v # u => info[v] # info[u] /\ pc[v] # "stop"
  BY <1>1, Holders DEF AnchorInv, Sole, Holding
<1>5. Bound' /\ Sole'
  BY <1>1, <1>2 DEF AnchorInv, Bound, Sole, Relying
<1>6. Apart' /\ Serving'
  <2>1. info[u] \cap (prepared \cup launched) = {} /\ info[u] \subseteq alive \cup cut
    BY <1>1 DEF AnchorInv, Apart, Serving, Relying
  <2>2. Apart'
    BY <1>1, <1>2, <1>3, <2>1 DEF AnchorInv, Apart, Relying
  <2>3. \A a \in Loaded' : a.server = info[u]
    BY <1>3 DEF Loaded
  <2>4. Serving'
    BY <1>1, <1>2, <2>1, <2>3 DEF AnchorInv, Serving, Relying
  <2>5. QED BY <2>2, <2>4
<1>7. Stopping'
  BY <1>2, <1>4 DEF Stopping
<1>8. Counting'
  <2> SUFFICES ASSUME NEW a \in Loaded' PROVE Cardinality(UsersOf(a)') <= a.ref_count
    BY DEF Counting
  <2>1. a.ref_count = 1 /\ a.server = info[u]
    BY <1>3 DEF Loaded
  <2>2. UsersOf(a)' = {u}
    BY <1>1, <1>2, <1>4, <2>1 DEF UsersOf
  <2>3. Cardinality({u}) = 1
    BY FS_Singleton
  <2>4. QED BY <2>1, <2>2, <2>3
<1>9. QED BY <1>5, <1>6, <1>7, <1>8 DEF Others

LEMMA JoinKeeps == ASSUME AnchorInv, NEW u \in Users, Join(u) PROVE Others'
<1>1. pc[u] = "join" /\ UNCHANGED <<alive, prepared, launched, cut>>
  BY DEF Join, command, history
<1>2. CASE Over(u) /\ UNCHANGED anchor
  BY <1>1, <1>2, OverKeeps DEF Torn
<1>3. ASSUME NEW a \in Loaded, anchor' = {Counted(a)}, info' = [info EXCEPT ![u] = a.server],
             Go(u, "using")
      PROVE  Others'
  <2>1. /\ pc'[u] = "using" /\ \A v \in Users : v # u => pc'[v] = pc[v]
        /\ info'[u] = a.server /\ \A v \in Users : v # u => info'[v] = info[v]
    <3>1. a.server \in SUBSET Servers
      BY DEF AnchorInv, TypeOK, Loaded, Anchor
    <3>2. QED BY <1>3, <3>1, PcAfter DEF AnchorInv, TypeOK, States
  <2>2. \A v \in Users : v # u => pc[v] \notin {"init", "stop", "delete"}
    BY <1>1, Holders DEF AnchorInv, Holding
  <2>3. /\ a \in anchor /\ a \in Anchor /\ a.server # {}
        /\ Counted(a).server = a.server /\ Counted(a).ref_count = a.ref_count + 1
    BY DEF AnchorInv, TypeOK, Loaded, Anchor, Counted
  <2>4. a.server \subseteq alive \cup cut /\ a.server \cap (prepared \cup launched) = {}
    BY <1>1, <2>2, <2>3 DEF AnchorInv, Serving, Apart
  <2>5. Bound'
    <3>1. \E s \in Servers : a.server = {s}
      BY <2>3 DEF Anchor
    <3>2. QED BY <2>1, <3>1 DEF AnchorInv, Bound
  <2>6. Apart'
    BY <1>1, <1>3, <2>1, <2>3, <2>4 DEF AnchorInv, Apart
  <2>7. Sole' /\ Stopping'
    BY <1>1, <2>1, <2>2 DEF Sole, Stopping
  <2>8. Serving'
    <3>1. \A b \in Loaded' : b.server = a.server
      BY <1>3, <2>3 DEF Loaded
    <3>2. QED BY <1>1, <2>1, <2>4, <3>1 DEF AnchorInv, Serving
  <2>9. Counting'
    <3> SUFFICES ASSUME NEW b \in Loaded' PROVE Cardinality(UsersOf(b)') <= b.ref_count
      BY DEF Counting
    <3>1. b.server = a.server /\ b.ref_count = a.ref_count + 1
      BY <1>3, <2>3 DEF Loaded
    <3>2. UsersOf(b)' \subseteq UsersOf(a) \cup {u}
      BY <2>1, <3>1 DEF UsersOf
    <3>3. IsFiniteSet(UsersOf(a)) /\ IsFiniteSet(UsersOf(a) \cup {u})
      BY AnchorAssumption, FS_Subset, FS_AddElement DEF UsersOf
    <3>4. /\ Cardinality(UsersOf(a) \cup {u}) <= Cardinality(UsersOf(a)) + 1
          /\ Cardinality(UsersOf(a)) \in Nat
      BY <3>3, FS_AddElement, FS_CardinalityType
    <3>5. /\ Cardinality(UsersOf(b)') \in Nat /\ Cardinality(UsersOf(a) \cup {u}) \in Nat
          /\ Cardinality(UsersOf(b)') <= Cardinality(UsersOf(a) \cup {u})
      BY <3>2, <3>3, FS_Subset, FS_CardinalityType
    <3>6. Cardinality(UsersOf(a)) <= a.ref_count /\ a.ref_count \in Nat
      BY <2>3 DEF AnchorInv, Counting, Anchor
    <3>7. QED BY <3>1, <3>4, <3>5, <3>6
  <2>10. QED BY <2>5, <2>6, <2>7, <2>8, <2>9 DEF Others
<1>4. QED BY <1>2, <1>3 DEF Join

LEMMA LeaveKeeps == ASSUME AnchorInv, NEW u \in Users, Leave(u) PROVE Others'
<1>1. pc[u] = "leave" /\ UNCHANGED <<alive, prepared, launched, cut>>
  BY DEF Leave, command, history
<1>2. CASE Over(u) /\ UNCHANGED anchor
  BY <1>1, <1>2, OverKeeps DEF Torn
<1>3. ASSUME NEW a \in Loaded, a.server = info[u], NEW n \in Nat,
             anchor' = {[a EXCEPT !.ref_count = n]},
             IF a.ref_count > 1 THEN n = a.ref_count - 1 /\ Over(u)
             ELSE n = 0 /\ Go(u, "stop") /\ UNCHANGED info
      PROVE  Others'
  <2>1. /\ pc'[u] \in {"idle", "stop"} /\ \A v \in Users : v # u => pc'[v] = pc[v]
        /\ info'[u] \in {{}, info[u]} /\ \A v \in Users : v # u => info'[v] = info[v]
        /\ pc'[u] = "stop" => info'[u] = info[u] /\ n = 0
    BY <1>3, OverFacts, PcAfter DEF AnchorInv, States
  <2>2. \A v \in Users : v # u => pc[v] \notin {"init", "stop", "delete"}
    BY <1>1, Holders DEF AnchorInv, Holding
  <2>3. a \in anchor /\ a \in Anchor /\ a.server # {}
    BY DEF AnchorInv, TypeOK, Loaded
  <2>4. \A b \in anchor' : b.server = a.server /\ b.ref_count = n
    BY <1>3, <2>3 DEF Anchor
  <2>5. Bound'
    BY <1>1, <2>1 DEF AnchorInv, Bound, Relying
  <2>6. Apart'
    BY <1>1, <2>1, <2>3, <2>4 DEF AnchorInv, Apart, Relying
  <2>7. Sole'
    BY <2>1, <2>2 DEF Sole
  <2>8. Stopping'
    BY <1>3, <2>1, <2>2, <2>4 DEF Stopping
  <2>9. Serving'
    <3>1. a.server \subseteq alive \cup cut
      BY <1>1, <1>3 DEF AnchorInv, Serving, Relying
    <3>2. \A b \in Loaded' : b.server = a.server
      BY <2>4 DEF Loaded
    <3>3. QED BY <1>1, <2>1, <3>1, <3>2 DEF AnchorInv, Serving, Relying
  <2>10. Counting'
    <3> SUFFICES ASSUME NEW b \in Loaded' PROVE Cardinality(UsersOf(b)') <= b.ref_count
      BY DEF Counting
    <3>1. b.server = a.server /\ b.ref_count = n
      BY <2>4 DEF Loaded
    <3>2. UsersOf(b)' \subseteq UsersOf(a) \ {u}
      BY <2>1, <3>1 DEF UsersOf
    <3>3. u \in UsersOf(a)
      BY <1>1, <1>3 DEF UsersOf
    <3>4. IsFiniteSet(UsersOf(a)) /\ IsFiniteSet(UsersOf(a) \ {u})
      BY AnchorAssumption, FS_Subset, FS_RemoveElement DEF UsersOf
    <3>5. /\ Cardinality(UsersOf(a) \ {u}) = Cardinality(UsersOf(a)) - 1
          /\ Cardinality(UsersOf(a)) \in Nat
      BY <3>3, <3>4, FS_RemoveElement, FS_CardinalityType
    <3>6. /\ Cardinality(UsersOf(b)') \in Nat
          /\ Cardinality(UsersOf(b)') <= Cardinality(UsersOf(a) \ {u})
      BY <3>2, <3>4, FS_Subset, FS_CardinalityType
    <3>7. Cardinality(UsersOf(a)) <= a.ref_count /\ a.ref_count \in Nat
      BY <2>3 DEF AnchorInv, Counting, Anchor
    <3>8. QED BY <1>3, <3>1, <3>5, <3>6, <3>7
  <2>11. QED BY <2>5, <2>6, <2>7, <2>8, <2>9, <2>10 DEF Others
<1>4. ASSUME NEW a \in Loaded, a.server = info[u],
             IF a.ref_count > 1
             THEN anchor' = {[a EXCEPT !.ref_count = @ - 1]} /\ Over(u)
             ELSE anchor' = {[a EXCEPT !.ref_count = 0]} /\ Go(u, "stop") /\ UNCHANGED info
      PROVE  Others'
  <2>1. a.ref_count \in Nat
    BY DEF AnchorInv, TypeOK, Loaded, Anchor
  <2>2. CASE a.ref_count > 1
    <3>1. a.ref_count - 1 \in Nat /\ anchor' = {[a EXCEPT !.ref_count = a.ref_count - 1]}
      BY <1>4, <2>1, <2>2
    <3>2. QED BY <1>3, <1>4, <2>2, <3>1
  <2>3. CASE ~(a.ref_count > 1)
    BY <1>3, <1>4, <2>3
  <2>4. QED BY <2>2, <2>3
<1>5. QED BY <1>2, <1>4 DEF Leave

LEMMA StopServerKeeps == ASSUME AnchorInv, NEW u \in Users, StopServer(u) PROVE Others'
<1>1. /\ pc[u] = "stop" /\ Go(u, "delete") /\ alive' = alive \ info[u]
      /\ UNCHANGED <<anchor, prepared, info, launched, cut>>
  BY DEF StopServer, files, command, history
<1>2. pc'[u] = "delete" /\ \A v \in Users : v # u => pc'[v] = pc[v]
  BY <1>1, PcAfter DEF AnchorInv, States
<1>3. PICK a \in anchor : a.server = info[u] /\ a.ref_count = 0
  BY <1>1 DEF AnchorInv, Stopping
<1>4. PICK s \in Servers : info[u] = {s}
  BY <1>1 DEF AnchorInv, Bound
<1>5. a \in Loaded
  BY <1>3, <1>4 DEF Loaded
<1>6. UsersOf(a) = {}
  <2>1. IsFiniteSet(UsersOf(a))
    BY AnchorAssumption, FS_Subset DEF UsersOf
  <2>2. Cardinality(UsersOf(a)) \in Nat /\ Cardinality(UsersOf(a)) <= 0
    BY <1>3, <1>5, <2>1, FS_CardinalityType DEF AnchorInv, Counting
  <2>3. QED BY <2>1, <2>2, FS_EmptySet
<1>7. \A v \in Users : pc[v] \in Relying => s \notin info[v]
  <2>1. ASSUME NEW v \in Users, pc[v] \in Relying, s \in info[v] PROVE FALSE
    <3>1. info[v] = info[u]
      BY <1>4, <2>1 DEF AnchorInv, Bound
    <3>2. pc[v] # "init"
      BY <1>1, <2>1, Holders DEF AnchorInv, Holding
    <3>3. v \in UsersOf(a)
      BY <1>3, <2>1, <3>1, <3>2 DEF UsersOf, Relying
    <3>4. QED BY <1>6, <3>3
  <2>2. QED BY <2>1
<1>8. Bound' /\ Apart' /\ Sole' /\ Stopping'
  BY <1>1, <1>2 DEF AnchorInv, Bound, Apart, Sole, Stopping, Relying
<1>9. Loaded' = Loaded
  BY <1>1 DEF Loaded
<1>10. Serving'
  <2>1. \A v \in Users : pc'[v] \in Relying => info'[v] \subseteq alive' \cup cut'
    BY <1>1, <1>2, <1>4, <1>7 DEF AnchorInv, Serving, Relying
  <2>2. \A b \in Loaded : b.server = info[u]
    BY <1>3 DEF AnchorInv, TypeOK, Loaded
  <2>3. QED BY <1>1, <1>2, <1>9, <2>1, <2>2 DEF Serving
<1>11. Counting'
  <2>1. \A b \in Loaded' : UsersOf(b)' \subseteq UsersOf(b)
    BY <1>1, <1>2 DEF UsersOf
  <2>2. QED BY <1>9, <2>1, StillCounts DEF AnchorInv
<1>12. QED BY <1>8, <1>10, <1>11 DEF Others

\* Whether the anchor is deleted or, with a warning, stays.
LEMMA DeleteKeeps == ASSUME AnchorInv, NEW u \in Users, Delete(u) PROVE Others'
<1>1. /\ pc[u] = "delete" /\ Over(u) /\ UNCHANGED <<alive, prepared, launched>>
      /\ \/ anchor' = {} /\ cut' = cut
         \/ anchor' = anchor /\ cut' = cut \cup info[u]
  BY DEF Delete, command
<1>2. CASE anchor' = {} /\ cut' = cut
  <2>1. /\ pc'[u] = "idle" /\ \A v \in Users : v # u => pc'[v] = pc[v]
        /\ info'[u] = {} /\ \A v \in Users : v # u => info'[v] = info[v]
    BY <1>1, OverFacts DEF AnchorInv
  <2>2. \A v \in Users : v # u => pc[v] \notin {"init", "stop"}
    BY <1>1, Holders DEF AnchorInv, Holding
  <2>3. Bound' /\ Sole' /\ Apart' /\ Stopping'
    BY <1>1, <1>2, <2>1, <2>2 DEF AnchorInv, Bound, Sole, Apart, Stopping, Relying
  <2>4. Loaded' = {}
    BY <1>2 DEF Loaded
  <2>5. Serving' /\ Counting'
    BY <1>1, <1>2, <2>1, <2>4 DEF AnchorInv, Serving, Counting, Relying
  <2>6. QED BY <2>3, <2>5 DEF Others
<1>3. CASE anchor' = anchor /\ cut' = cut \cup info[u]
  BY <1>1, <1>3, OverKeeps
<1>4. QED BY <1>1, <1>2, <1>3

-----------------------------------------------------------------------------
LEMMA InitAnchorInv == Init => AnchorInv
<1> SUFFICES ASSUME Init PROVE AnchorInv
  OBVIOUS
<1>1. TypeOK
  BY AnchorAssumption DEF Init, TypeOK, States, Holding
<1>2. Loaded = {}
  BY DEF Init, Loaded
<1>3. QED
  BY <1>1, <1>2
  DEF Init, AnchorInv, Bound, Apart, Sole, Serving, Stopping, Counting, Relying

LEMMA AnchorInvStep == AnchorInv /\ [Next]_vars => AnchorInv'
<1> SUFFICES ASSUME AnchorInv, [Next]_vars PROVE AnchorInv'
  OBVIOUS
<1>1. TypeOK'
  BY TypeStep DEF AnchorInv
<1>2. CASE UNCHANGED vars
  <2>1. Loaded' = Loaded /\ \A a : UsersOf(a)' = UsersOf(a)
    BY <1>2 DEF vars, Loaded, UsersOf
  <2>2. QED
    BY <1>1, <1>2, <2>1
    DEF vars, AnchorInv, Bound, Apart, Sole, Serving, Stopping, Counting
<1>3. ASSUME NEW u \in Users, Kill(u) PROVE Others'
  <2>1. /\ Over(u) /\ UNCHANGED <<alive, prepared, launched>>
        /\ anchor' = anchor \/ (anchor' = {Torn} /\ pc[u] \in {"init", "join", "leave"})
        /\ cut' = IF pc[u] = "delete" THEN cut \cup info[u] ELSE cut
    BY <1>3 DEF Kill, command
  <2>2. QED BY <2>1, OverKeeps DEF Holding
<1>4. ASSUME NEW u \in Users, SpawnFails(u) PROVE Others'
  BY <1>4, OverKeeps DEF SpawnFails, files, command, history
<1>5. ASSUME NEW u \in Users, EndTest(u) PROVE Others'
  <2>1. UNCHANGED <<alive, anchor, prepared, launched, cut>>
    BY <1>5 DEF EndTest, files, command, history
  <2>2. CASE pc[u] = "prepared" /\ Over(u)
    BY <2>1, <2>2, OverKeeps
  <2>3. CASE pc[u] = "using" /\ Go(u, "drop") /\ UNCHANGED info
    BY <2>1, <2>3, GoKeeps DEF Relying, States
  <2>4. QED BY <1>5, <2>2, <2>3 DEF EndTest
<1>6. ASSUME NEW u \in Users, TryLock(u) PROVE Others'
  <2>1. /\ pc[u] = "try_lock" /\ (Go(u, "spawn") \/ Go(u, "lock"))
        /\ UNCHANGED <<alive, anchor, prepared, launched, cut, info>>
    BY <1>6 DEF TryLock, files, command, history
  <2>2. CASE Go(u, "spawn")
    BY <2>1, <2>2, GoKeeps DEF Relying, States
  <2>3. CASE Go(u, "lock")
    BY <2>1, <2>3, GoKeeps DEF Relying, States
  <2>4. QED BY <2>1, <2>2, <2>3
<1>7. ASSUME NEW u \in Users, Lock(u) PROVE Others'
  <2>1. /\ \/ pc[u] = "lock" /\ Go(u, "join")
           \/ pc[u] = "drop" /\ Go(u, "leave")
        /\ UNCHANGED <<alive, anchor, prepared, launched, cut, info>>
    BY <1>7 DEF Lock, files, command, history
  <2>2. CASE pc[u] = "lock" /\ Go(u, "join")
    BY <2>1, <2>2, GoKeeps DEF Relying, States
  <2>3. CASE pc[u] = "drop" /\ Go(u, "leave")
    BY <2>1, <2>3, GoKeeps DEF Relying, States
  <2>4. QED BY <2>1, <2>2, <2>3
<1>8. Others' => AnchorInv'
  BY <1>1 DEF Others, AnchorInv
<1>9. QED
  BY <1>2, <1>3, <1>4, <1>5, <1>6, <1>7, <1>8, CommandKeeps, LoadKeeps, SpawnKeeps,
     InitializeKeeps, JoinKeeps, LeaveKeeps, StopServerKeeps, DeleteKeeps
  DEF Next, Step

LEMMA AnchorInvHolds == Spec => []AnchorInv
<1>1. QED BY InitAnchorInv, AnchorInvStep, PTL DEF Spec

\* The types of the anchor, and the file lock: at most one process is where the code
\* holds it, and it is free when none is.
THEOREM AnchorTypeCorrect == Spec => []TypeOK
<1>1. AnchorInv => TypeOK
  BY DEF AnchorInv
<1>2. QED BY <1>1, AnchorInvHolds, PTL

\* Reference counting by any number of test processes that join, leave, fail or are
\* killed: no server is stopped under a test that counts on it.  The exception is the
\* server of an anchor that was left behind, by a kill or a failed remove_file.
THEOREM NobodyLosesItsServer == Spec => []ServedWhileUsed
<1>1. AnchorInv => ServedWhileUsed
  <2> SUFFICES ASSUME AnchorInv, NEW u \in Users, pc[u] \in {"using", "drop"}
               PROVE  info[u] # {} /\ info[u] \subseteq alive \cup cut
    BY DEF AnchorInv, Counting, ServedWhileUsed
  <2>1. pc[u] \in Relying
    BY DEF Relying
  <2>2. QED BY <2>1 DEF AnchorInv, Bound, Serving
<1>2. QED BY <1>1, AnchorInvHolds, PTL
=============================================================================
