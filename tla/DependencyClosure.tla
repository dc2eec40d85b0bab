-------------------------- MODULE DependencyClosure --------------------------
(***************************************************************************)
(* What a command that resolves dependencies promises, whatever requests,   *)
(* caches and loops are behind it: it learns which release each edge stands *)
(* for, once; it takes a release only when something it was asked for, or a *)
(* release it has taken, needs it; and it ends well only with all that is   *)
(* needed.                                                                  *)
(***************************************************************************)
CONSTANTS
  Edges,       \* what may be needed: a name and a specifier
  Releases,
  Needs,       \* Needs[r]: the edges of release r
  Candidates,  \* Candidates[e]: the releases an edge may turn out to stand for
  Goals        \* the sets of edges a command may be asked for

VARIABLES
  status,      \* "off", "on", or "ok" when it has ended well
  wanted,      \* what the command was asked for
  chosen,      \* chosen[e]: the release that e stands for, {} before it is known
  resolved     \* the releases it has taken

vars == <<status, wanted, chosen, resolved>>

Nothing == chosen = [e \in Edges |-> {}] /\ resolved = {}

Init == status = "off" /\ wanted = {} /\ Nothing

Begin ==
  /\ status # "on"
  /\ status' = "on"
  /\ wanted' \in Goals
  /\ Nothing'

\* One answer may settle several edges; none is settled twice.
Learn ==
  /\ status = "on"
  /\ chosen' \in [Edges -> SUBSET Releases]
  /\ \A e \in Edges :
       \/ chosen'[e] = chosen[e]
       \/ chosen[e] = {} /\ \E r \in Candidates[e] : chosen'[e] = {r}
  /\ UNCHANGED <<status, wanted, resolved>>

Needed == wanted \cup UNION {Needs[r] : r \in resolved}

Take(r) ==
  /\ status = "on"
  /\ \E e \in Needed : chosen[e] = {r}
  /\ resolved' = resolved \cup {r}
  /\ UNCHANGED <<status, wanted, chosen>>

Finish ==
  /\ status = "on"
  /\ \A e \in Needed : chosen[e] # {} /\ chosen[e] \subseteq resolved
  /\ status' = "ok"
  /\ UNCHANGED <<wanted, chosen, resolved>>

\* It fails or is killed, or what it did is over.
Stop == status' = "off" /\ wanted' = {} /\ Nothing'

Next == Begin \/ Learn \/ Finish \/ Stop \/ \E r \in Releases : Take(r)

Spec == Init /\ [][Next]_vars
=============================================================================
