----------------------------- MODULE MCProject -----------------------------
(* TLC instance: two packages, a release of the first that appears later, and *)
(* the commands that differ in the way Install::run takes or in what they edit.*)
EXTENDS Project, TLC

MCNames == {1, 2}
R(n, v) == [name |-> n, version |-> v]
MCReleases == {R(1, 1), R(1, 2), R(2, 1)}
MCDependencies == [r \in MCReleases |-> {}]
MCLater == {R(1, 2)}
MCCaret == (1 :> {1}) @@ (2 :> {2})
MCProvides == (R(1, 1) :> {"x"}) @@ (R(1, 2) :> {}) @@ (R(2, 1) :> {"x"})

Range(vs) == [kind |-> "range", set |-> vs]
Entry(g, n, s) == [group |-> g, name |-> n, spec |-> s]

MCManifests ==
  { {Entry("prod", 1, Range({1, 2}))},
    {Entry("prod", 2, Range({1})), Entry("dev", 1, Range({2}))} }

Command(cmd, groups, flags, packages) ==
  [cmd |-> cmd, groups |-> groups, flags |-> flags, packages |-> packages]

All == update_groups(FALSE, FALSE, FALSE)
Plain == current({}, {})
Locking == current({[lockfile |-> "other"]}, {[lockfile |-> "true"]})
Regenerating == current({[lockfile |-> "true", prefer_frozen_lockfile |-> "false"]}, {})
Bare(n) == [name |-> n, spec |-> {}]

MCCommands ==
  { Command("install", All, Plain, {}),
    Command("install", All, Locking, {}),
    Command("install", update_groups(TRUE, FALSE, FALSE), Regenerating, {}),
    Command("install", All, Locking \cup {"frozen_lockfile"}, {}),
    Command("install", All, Plain \cup {"frozen_lockfile"}, {}),
    Command("install", All, Plain \cup {"offline"}, {}),
    Command("install", All, Plain \cup {"offline", "frozen_lockfile"}, {}),
    Command("install", All, Plain \cup {"prefer_offline"}, {}),
    Command("install", All, Locking \cup {"lockfile_only"}, {}),
    Command("install", All, Plain \cup {"resolution_only"}, {}),
    Command("install", All, Plain \cup {"lockfile_only", "offline"}, {}),
    Command("add", add_groups({"peer"}), Locking \cup {"save_exact"}, {Bare(1)}),
    Command("remove", remove_groups({"prod"}), Locking, {Bare(1)}),
    Command("update", update_groups(FALSE, TRUE, TRUE), Locking \cup {"latest"}, {}),
    Command("update", update_groups(TRUE, FALSE, TRUE), Plain,
            {[name |-> 1, spec |-> {Range({1, 2})}]}),
    Command("fetch", All, Plain, {}) }
=============================================================================
