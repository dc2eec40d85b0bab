---------------------- MODULE MCInstallWithoutLockfile ----------------------
(* TLC instance: a cycle a <-> b with an optional edge, a release b@2 that  *)
(* appears meanwhile and has c as a peer, and two manifests, the second of  *)
(* which drops a and lets b be newer.                                       *)
EXTENDS InstallWithoutLockfile, TLC

CONSTANTS a, b, c

R(n, v) == [name |-> n, version |-> v]
Edge(n, k, s, kind) == [name |-> n, spec |-> [kind |-> k, set |-> s], kind |-> kind]

MCReleases == {R(a, 1), R(b, 1), R(b, 2), R(c, 1)}

MCDependencies ==
  (R(a, 1) :> {Edge(b, "range", {1, 2}, "dependencies")}) @@
  (R(b, 1) :> {Edge(a, "version", {1}, "optional")}) @@
  (R(b, 2) :> {Edge(c, "latest", {}, "peer")}) @@
  (R(c, 1) :> {})

MCLater == {R(b, 2)}

MCManifests ==
  { {Edge(a, "range", {1}, "dependencies"), Edge(b, "version", {1}, "dependencies")},
    {Edge(b, "range", {1, 2}, "dependencies")} }
=============================================================================
