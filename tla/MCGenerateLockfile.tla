------------------------- MODULE MCGenerateLockfile -------------------------
(* TLC instance: a cycle m <-> k, an optional and a required way to m, a     *)
(* package that is a dependency and a peer in two versions, and one with a   *)
(* dependency that the registry does not have.                               *)
EXTENDS GenerateLockfile, TLC

CONSTANTS x, y, m, k, z

R(n, v) == [name |-> n, version |-> v]
Edge(n, q, s, kind) == [name |-> n, spec |-> [kind |-> q, set |-> s], kind |-> kind]
Dep(n, s) == Edge(n, "range", s, "dependencies")

MCReleases == {R(x, 1), R(y, 1), R(m, 1), R(k, 1), R(k, 2), R(z, 1)}

MCDependencies ==
  (R(x, 1) :> {Edge(m, "latest", {}, "optional"), Edge(k, "version", {2}, "peer")}) @@
  (R(y, 1) :> {Dep(m, {1})}) @@
  (R(m, 1) :> {Dep(k, {1, 2}), Edge(k, "version", {1}, "peer")}) @@
  (R(k, 1) :> {Dep(m, {1, 2})}) @@
  (R(k, 2) :> {}) @@
  (R(z, 1) :> {Edge(y, "unparsable", {}, "dependencies")})

MCServed ==
  [n \in Names |-> [versions |-> VersionsOf(n),
                    latest   |-> {v \in VersionsOf(n) : \A w \in VersionsOf(n) : w <= v}]]

\* Two direct dependencies, of which x reaches m optionally and y does not.
MCTwoWays == {[prod |-> {Dep(x, {1}), Dep(y, {1})}, optional |-> {}, dev |-> {}]}

MCManifests ==
  [prod: SUBSET {Dep(x, {1}), Dep(y, {1})}, optional: SUBSET {Dep(m, {1}), Dep(x, {1})},
   dev: {{}, {Dep(k, {1})}, {Dep(y, {1, 2}), Dep(k, {2})}, {Dep(z, {1}), Dep(x, {1})}}]
=============================================================================
