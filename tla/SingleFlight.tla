---------------------------- MODULE SingleFlight ----------------------------
(***************************************************************************)
(* What a cache of shared computations promises its callers, whatever the   *)
(* locks and notifications behind it: calls for one key share one           *)
(* computation, everybody gets its value, and a computation that fails ends *)
(* the whole program rather than leaving its companions behind.             *)
(***************************************************************************)
CONSTANTS
  Calls,   \* the calls ever made
  Keys,    \* what they ask for
  KeyOf    \* KeyOf \in [Calls -> Keys]: the key of call c

VARIABLES
  flight,  \* flight[k]: "none", "flying", "landed"
  value,   \* value[k]: the call that landed k's flight, in a set; {} before
  call,    \* call[c]: "idle", "joined", "served"
  got,     \* got[c]: the value c was served, {} before
  over     \* the program has been ended by a failed flight

vars == <<flight, value, call, got, over>>

Init ==
  /\ flight = [k \in Keys |-> "none"]
  /\ value = [k \in Keys |-> {}]
  /\ call = [c \in Calls |-> "idle"]
  /\ got = [c \in Calls |-> {}]
  /\ over = FALSE

\* The first call for a key takes off; it may fail before anybody else can join.
TakeOff(c) ==
  /\ ~over
  /\ call[c] = "idle"
  /\ flight[KeyOf[c]] = "none"
  /\ call' = [call EXCEPT ![c] = "joined"]
  /\ flight' = [flight EXCEPT ![KeyOf[c]] = "flying"]
  /\ over' \in BOOLEAN
  /\ UNCHANGED <<value, got>>

\* A later call joins what it finds.
Join(c) ==
  /\ ~over
  /\ call[c] = "idle"
  /\ flight[KeyOf[c]] # "none"
  /\ call' = [call EXCEPT ![c] = "joined"]
  /\ UNCHANGED <<flight, value, got, over>>

\* A call of the flight completes the computation and is served.
Land(c) ==
  /\ ~over
  /\ call[c] = "joined"
  /\ flight[KeyOf[c]] = "flying"
  /\ flight' = [flight EXCEPT ![KeyOf[c]] = "landed"]
  /\ value' = [value EXCEPT ![KeyOf[c]] = {c}]
  /\ call' = [call EXCEPT ![c] = "served"]
  /\ got' = [got EXCEPT ![c] = {c}]
  /\ UNCHANGED over

\* Another call takes the value.
Serve(c) ==
  /\ ~over
  /\ call[c] = "joined"
  /\ flight[KeyOf[c]] = "landed"
  /\ call' = [call EXCEPT ![c] = "served"]
  /\ got' = [got EXCEPT ![c] = value[KeyOf[c]]]
  /\ UNCHANGED <<flight, value, over>>

\* The computation fails, and the program with it.
Crash(c) ==
  /\ ~over
  /\ call[c] = "joined"
  /\ flight[KeyOf[c]] = "flying"
  /\ over' = TRUE
  /\ UNCHANGED <<flight, value, call, got>>

Next == \E c \in Calls : TakeOff(c) \/ Join(c) \/ Land(c) \/ Serve(c) \/ Crash(c)

Spec == Init /\ [][Next]_vars
=============================================================================
