--------------------------- MODULE RegistryAnchor ---------------------------
(***************************************************************************)
(* The mocked registry that the tests of pacquet share                      *)
(* (`tasks/registry-mock`).  Every test is a process.  One that finds the   *)
(* server that `just registry-mock launch` prepared uses it; the others     *)
(* count themselves in the anchor, a file under a file lock that names the  *)
(* running server, and the last to leave stops it.                          *)
(*                                                                          *)
(* What makes it hard: a process that gets the lock at once takes itself    *)
(* for the first, spawns a server and writes the anchor anew, whatever it   *)
(* says; one that had to wait may find that the last user has deleted it;   *)
(* and a process may fail or be killed at any step, its lock released by    *)
(* the kernel.                                                              *)
(*                                                                          *)
(* Operators named Seeded... are defects to try the properties on.          *)
(***************************************************************************)
EXTENDS Naturals, FiniteSets

CONSTANTS
  Users,    \* tests that run at a time; one that has ended is another test
  Servers,  \* numbers for `RegistryInfo`s; what nothing refers to is free for another one
  MaxKills  \* bound on the processes that are killed

ASSUME AnchorAssumption == IsFiniteSet(Users) /\ Servers \subseteq Nat /\ MaxKills \in Nat

VARIABLES
  alive,     \* the servers that run
  lock,      \* the process that holds the file lock, in a set
  anchor,    \* the anchor in the file: {} absent, a torn one has no server
  prepared,  \* the server in PreparedRegistryInfo's file, in a set
  pc,        \* pc[u]: what test u does next
  info,      \* info[u]: the server of its AutoMockInstance, in a set
  cli,       \* the process of `just registry-mock`: what it does next ..
  launched,  \* .. and the server it has spawned or is ending, in a set
  kills,     \* how many processes have been killed
  cut        \* history: servers stopped by one that then left the anchor where it was

vars == <<alive, lock, anchor, prepared, pc, info, cli, launched, kills, cut>>

files == <<anchor, prepared>>
command == <<cli, launched>>
history == <<kills, cut>>

Torn == [ref_count |-> 0, server |-> {}]

Anchor == [ref_count: Nat, server: {{}} \cup {{s} : s \in Servers}]

\* The anchor that can be loaded, in a set; load panics on the others.
Loaded == {a \in anchor : a.server # {}}

\* The numbers for the next server: one that runs on with nothing left that refers to
\* it is never looked at again.
Free ==
  {s \in Servers : /\ s \notin prepared \cup launched \cup UNION {info[u] : u \in Users}
                   /\ \A a \in anchor : s \notin a.server}

Fresh == {s \in Free : \A t \in Free : s <= t}

Init ==
  /\ alive = {} /\ lock = {} /\ anchor = {} /\ prepared = {}
  /\ pc = [u \in Users |-> "idle"] /\ info = [u \in Users |-> {}]
  /\ cli = "idle" /\ launched = {}
  /\ kills = 0 /\ cut = {}

-----------------------------------------------------------------------------
Go(u, l) == pc' = [pc EXCEPT ![u] = l]

SeededLeaveLocked(u) == Go(u, "idle") /\ info' = [info EXCEPT ![u] = {}] /\ UNCHANGED lock

\* The end of a test, a panic included: the guard is dropped when it is held.
Over(u) ==
  /\ Go(u, "idle")
  /\ info' = [info EXCEPT ![u] = {}]
  /\ lock' = lock \ {u}

\* AutoMockInstance::load_or_init.
Load(u) ==
  /\ pc[u] = "idle"
  /\ IF prepared # {} THEN Go(u, "prepared") /\ info' = [info EXCEPT ![u] = prepared]
     ELSE Go(u, "try_lock") /\ UNCHANGED info
  /\ UNCHANGED <<alive, lock, files, command, history>>

\* RegistryAnchor::load_or_init: the first branch or the second.
TryLock(u) ==
  /\ pc[u] = "try_lock"
  /\ IF lock = {} THEN lock' = {u} /\ Go(u, "spawn") ELSE Go(u, "lock") /\ UNCHANGED lock
  /\ UNCHANGED <<alive, files, info, command, history>>

Started(s) == alive' = alive \cup {s} /\ cut' = cut \ {s}

Spawn(u) ==
  /\ pc[u] = "spawn"
  /\ \E s \in Fresh : Started(s) /\ info' = [info EXCEPT ![u] = {s}]
  /\ Go(u, "init")
  /\ UNCHANGED <<lock, files, command, kills>>

\* `prepare` fails, or the server does not answer after max_retries: nothing stops it.
SpawnFails(u) ==
  /\ pc[u] \in {"spawn", "init"}
  /\ Over(u)
  /\ UNCHANGED <<alive, files, command, history>>

\* The server answers.
Initialize(u) ==
  /\ pc[u] = "init"
  /\ anchor' = {[ref_count |-> 1, server |-> info[u]]}
  /\ lock' = {}
  /\ Go(u, "using")
  /\ UNCHANGED <<alive, prepared, info, command, history>>

SeededLockShared(u) ==
  /\ \/ pc[u] = "lock" /\ Go(u, "join")
     \/ pc[u] = "drop" /\ Go(u, "leave")
  /\ lock' = {u}
  /\ UNCHANGED <<alive, files, info, command, history>>

Lock(u) ==
  /\ \/ pc[u] = "lock" /\ Go(u, "join")
     \/ pc[u] = "drop" /\ Go(u, "leave")
  /\ lock = {} /\ lock' = {u}
  /\ UNCHANGED <<alive, files, info, command, history>>

SeededForgetToCount(a) == a

Counted(a) == [a EXCEPT !.ref_count = @ + 1]

\* The second branch.
Join(u) ==
  /\ pc[u] = "join"
  /\ \/ Loaded = {} /\ Over(u) /\ UNCHANGED anchor
     \/ \E a \in Loaded :
          /\ anchor' = {Counted(a)}
          /\ info' = [info EXCEPT ![u] = a.server]
          /\ lock' = {}
          /\ Go(u, "using")
  /\ UNCHANGED <<alive, prepared, command, history>>

-----------------------------------------------------------------------------
(* The end of a test.  A prepared server is not dropped.                     *)

EndTest(u) ==
  /\ \/ pc[u] = "prepared" /\ Over(u)
     \/ pc[u] = "using" /\ Go(u, "drop") /\ UNCHANGED <<info, lock>>
  /\ UNCHANGED <<alive, files, command, history>>

\* Drop, up to the decision: the anchor is gone, or another server's, or others use it.
Leave(u) ==
  /\ pc[u] = "leave"
  /\ \/ /\ \A a \in Loaded : a.server # info[u]
        /\ Over(u) /\ UNCHANGED anchor
     \/ \E a \in Loaded :
          /\ a.server = info[u]
          /\ IF a.ref_count > 1
             THEN anchor' = {[a EXCEPT !.ref_count = @ - 1]} /\ Over(u)
             ELSE anchor' = {[a EXCEPT !.ref_count = 0]} /\ Go(u, "stop") /\ UNCHANGED <<info, lock>>
  /\ UNCHANGED <<alive, prepared, command, history>>

\* kill_all_verdaccio_children.
StopServer(u) ==
  /\ pc[u] = "stop"
  /\ alive' = alive \ info[u]
  /\ Go(u, "delete")
  /\ UNCHANGED <<lock, files, info, command, history>>

\* A failing remove_file is only a warning: the anchor goes on to name the server.
Delete(u) ==
  /\ pc[u] = "delete"
  /\ \/ anchor' = {} /\ UNCHANGED cut
     \/ cut' = cut \cup info[u] /\ UNCHANGED anchor
  /\ Over(u)
  /\ UNCHANGED <<alive, prepared, command, kills>>

-----------------------------------------------------------------------------
(* `just registry-mock launch` and `end`.                                    *)

\* PreparedRegistryInfo::launch.
Launch ==
  /\ cli = "idle" /\ prepared = {}
  /\ \E s \in Fresh : Started(s) /\ launched' = {s}
  /\ cli' = "save"
  /\ UNCHANGED <<lock, files, pc, info, kills>>

LaunchFails ==
  /\ cli = "save"
  /\ cli' = "idle" /\ launched' = {}
  /\ UNCHANGED <<alive, lock, files, pc, info, history>>

Save ==
  /\ cli = "save"
  /\ prepared' = launched
  /\ cli' = "idle" /\ launched' = {}
  /\ UNCHANGED <<alive, lock, anchor, pc, info, history>>

\* PreparedRegistryInfo::end.
End ==
  /\ cli = "idle" /\ prepared # {}
  /\ alive' = alive \ prepared
  /\ cli' = "delete" /\ launched' = prepared
  /\ UNCHANGED <<lock, files, pc, info, history>>

\* Here a failing remove_file is a panic.
DeletePrepared ==
  /\ cli = "delete"
  /\ prepared' \in {{}, prepared}
  /\ cli' = "idle" /\ launched' = {}
  /\ UNCHANGED <<alive, lock, anchor, pc, info, history>>

-----------------------------------------------------------------------------
\* A test is killed; fs::write may have truncated the anchor.
Kill(u) ==
  /\ kills < MaxKills /\ kills' = kills + 1
  /\ pc[u] # "idle"
  /\ Over(u)
  /\ \/ UNCHANGED anchor
     \/ pc[u] \in {"init", "join", "leave"} /\ anchor' = {Torn}
  /\ cut' = IF pc[u] = "delete" THEN cut \cup info[u] ELSE cut
  /\ UNCHANGED <<alive, prepared, command>>

Step(u) ==
  \/ Load(u) \/ TryLock(u) \/ Spawn(u) \/ SpawnFails(u) \/ Initialize(u) \/ Lock(u)
  \/ Join(u) \/ EndTest(u) \/ Leave(u) \/ StopServer(u) \/ Delete(u)

Command == Launch \/ LaunchFails \/ Save \/ End \/ DeletePrepared

Next == Command \/ \E u \in Users : Step(u) \/ Kill(u)

\* A process that is not blocked goes on, and the kernel gives the lock to those that
\* wait for it.
Fairness == \A u \in Users : WF_vars(Step(u)) /\ SF_vars(Lock(u))

Spec == Init /\ [][Next]_vars
FairSpec == Spec /\ Fairness

-----------------------------------------------------------------------------
States ==
  {"idle", "prepared", "try_lock", "spawn", "init", "lock", "join", "using", "drop", "leave",
   "stop", "delete"}

Holding == {"spawn", "init", "join", "leave", "stop", "delete"}

\* Types, and the lock is held by the process that is where the code holds it.
TypeOK ==
  /\ alive \subseteq Servers
  /\ lock = {u \in Users : pc[u] \in Holding} /\ \A u, v \in lock : u = v
  /\ anchor \subseteq Anchor /\ \A a, b \in anchor : a = b
  /\ prepared \subseteq Servers /\ launched \subseteq Servers
  /\ pc \in [Users -> States]
  /\ info \in [Users -> SUBSET Servers]
  /\ cli \in {"idle", "save", "delete"}
  /\ kills \in Nat
  /\ cut \subseteq Servers

\* The tests that an anchor counts.
UsersOf(a) == {u \in Users : pc[u] \in {"using", "drop", "leave"} /\ info[u] = a.server}

\* "Count references": nobody stops a server under a test that counts on it: the anchor
\* never counts fewer tests than use its server, whoever spawns another server, fails or
\* is killed, and a counted test has a server that runs, unless the process that stopped
\* it has left the anchor behind: it was killed, or the file could not be deleted.
ServedWhileUsed ==
  /\ \A a \in Loaded : Cardinality(UsersOf(a)) <= a.ref_count
  /\ \A u \in Users : pc[u] \in {"using", "drop"} => info[u] # {} /\ info[u] \subseteq alive \cup cut

\* Every test ends: whatever becomes of those that hold the lock, it is released.
EveryTestEnds == \A u \in Users : pc[u] # "idle" ~> pc[u] = "idle"
=============================================================================
