----------------------------- MODULE MCStoreAdd -----------------------------
(* TLC instance: two lockfiles of one project, the second with a newer b from *)
(* another registry and a cycle; b in two variants of one tarball; a          *)
(* workspace with a directory; lockfiles that lack what they refer to.  The   *)
(* registry publishes b@2 at any moment; b@2 and a@1 depend on each other.    *)
EXTENDS StoreAdd, TLC

CONSTANTS a, b, npm, own

P(r, n, v, s) == [registry |-> r, name |-> n, version |-> v, peers |-> s]
S(n, v, s) == [name |-> n, version |-> v, peers |-> s]
U(n, v) == [registry |-> npm, name |-> n, version |-> v]

A1 == P(npm, a, 1, "")
B1 == P(npm, b, 1, "")
B1p == P(npm, b, 1, "(a)")
B2 == P(own, b, 2, "")

Hash(p) == IF p.name = a THEN "a1" ELSE IF p.version = 1 THEN "b1" ELSE "b2"

R(n, v) == [name |-> n, version |-> v]

MCReleases == {R(a, 1), R(a, 2), R(b, 1), R(b, 2)}

Spec_(n, kind, set) == [name |-> n, spec |-> [kind |-> kind, set |-> set]]

Dep(n, set) == [name |-> n, spec |-> [kind |-> "range", set |-> set], kind |-> "dependencies"]

MCDependencies ==
  [r \in MCReleases |-> CASE r = R(a, 1) -> {Dep(b, {1, 2})}
                          [] r = R(b, 2) -> {Dep(a, {1}), Dep(b, {1})}
                          [] OTHER       -> {}]

MCAnswers ==
  [n \in Names |-> IF n = a THEN {[versions |-> {1, 2}, latest |-> {1}]}
                   ELSE {[versions |-> {1}, latest |-> {1}], [versions |-> {1, 2}, latest |-> {2}]}]

MCIntegrityOf == [r \in MCReleases |-> IF r = R(a, 2) THEN {} ELSE {Hash(r)}]

MCArguments ==
  {{Spec_(a, "latest", {})}, {Spec_(a, "version", {1}), Spec_(b, "latest", {})},
   {Spec_(a, "version", {2}), Spec_(a, "version", {1})}, {Spec_(b, "unparsable", {})}}

MCServed ==
  [u \in Urls |-> IF u.registry = npm /\ (u.version = 1 \/ u.name = b) THEN {Hash(u)} ELSE {}]

Version(p) == [name |-> p.name, kind |-> "version", to |-> p]
Path(p) == [name |-> p.name, kind |-> "path", to |-> p]

Pkg(p, deps, opt) ==
  [resolution |-> IF p.registry = npm THEN "registry" ELSE "tarball", tarball |-> U(p.name, p.version),
   integrity |-> {Hash(p)}, dependencies |-> deps, optional |-> opt]

Project(prod, dev, optional) ==
  [g \in Groups |-> CASE g = "prod" -> prod [] g = "dev" -> dev [] g = "optional" -> optional]

Lock(projects, packages) ==
  [packages |-> packages, projects |-> projects, single |-> \E q \in projects : projects = {q}]

Old ==
  Lock({Project({S(a, 1, "")}, {S(b, 1, "(a)")}, {})},
       (A1 :> Pkg(A1, {Version(B1)}, {})) @@ (B1 :> Pkg(B1, {}, {})) @@ (B1p :> Pkg(B1p, {}, {})))

New ==
  Lock({Project({S(a, 1, "")}, {}, {S(b, 2, "")})},
       (A1 :> Pkg(A1, {Path(B2)}, {})) @@ (B2 :> Pkg(B2, {}, {Version([A1 EXCEPT !.registry = own])})))

Workspace ==
  Lock({Project({S(a, 1, "")}, {}, {}), Project({S(b, 1, "")}, {}, {})},
       (A1 :> [Pkg(A1, {Version(B1)}, {}) EXCEPT !.resolution = "directory"]) @@ (B1 :> Pkg(B1, {}, {})))

Broken ==
  Lock({Project({S(a, 1, "")}, {S(b, 2, "")}, {S(b, 1, "")})},
       (A1 :> Pkg(A1, {}, {[Path(B2) EXCEPT !.kind = "unparsable"]})) @@
       (B1 :> [Pkg(B1, {Path(B2)}, {}) EXCEPT !.resolution = "tarball", !.integrity = {}]))

Empty == Lock({Project({}, {}, {})}, [p \in {} |-> {}])

MCLockfiles == {Old, New, Workspace, Broken, Empty}

Install(prod, dev, no_optional, offline) ==
  [command |-> "install", prod |-> prod, dev |-> dev, no_optional |-> no_optional, offline |-> offline]

Fetch(prod) ==
  [command |-> "fetch", prod |-> prod, dev |-> FALSE, no_optional |-> FALSE, offline |-> FALSE]

MCCommandLines ==
  {Install(FALSE, FALSE, FALSE, FALSE), Install(TRUE, FALSE, FALSE, TRUE),
   Install(FALSE, TRUE, TRUE, FALSE), Fetch(FALSE), Fetch(TRUE)}

ASSUME LockfilesAgree == Consistent
=============================================================================
