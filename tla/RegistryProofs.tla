--------------------------- MODULE RegistryProofs ---------------------------
(***************************************************************************)
(* What the selection of a release returns, for any published metadata.     *)
(***************************************************************************)
EXTENDS Registry, TLAPS

\* version_by_specifier returns a published version.
LEMMA SelectsPublished ==
  ASSUME NEW m, NEW s \in Specifiers
  PROVE  version_by_specifier(m, s) \subseteq m.versions
<1>1. s.kind \in {"latest", "version", "range", "unparsable"}
  BY DEF Specifiers
<1>2. QED BY <1>1 DEF version_by_specifier, version_by_tag, pinned_version

\* version_by_specifier never has a choice: it is the tagged version, the named one,
\* or the greatest that satisfies the range.
THEOREM SelectsOne ==
  ASSUME NEW n \in Names, NEW m \in Metadata(n), NEW s \in Specifiers,
         NEW v \in version_by_specifier(m, s), NEW w \in version_by_specifier(m, s)
  PROVE  v = w
<1>1. s.kind \in {"latest", "version", "range", "unparsable"}
  BY DEF Specifiers
<1>2. CASE s.kind = "latest"
  <2>1. m.latest \in {{}} \cup {{x} : x \in Versions}
    BY DEF Metadata
  <2>2. v \in m.latest /\ w \in m.latest
    BY <1>2 DEF version_by_specifier, version_by_tag
  <2>3. QED BY <2>1, <2>2
<1>3. CASE s.kind = "version"
  <2>1. \E x \in Versions : s.set = {x}
    BY <1>3 DEF Specifiers
  <2>2. v \in s.set /\ w \in s.set
    BY <1>3 DEF version_by_specifier, version_by_tag
  <2>3. QED BY <2>1, <2>2
<1>4. CASE s.kind = "range"
  <2>1. m.versions \subseteq Nat
    BY RegistryAssumption DEF Metadata, VersionsOf
  <2>2. /\ v \in m.versions /\ w \in m.versions
        /\ v <= w /\ w <= v
    BY <1>4 DEF version_by_specifier, pinned_version
  <2>3. v \in Nat /\ w \in Nat
    BY <2>1, <2>2
  <2>4. QED BY <2>2, <2>3
<1>5. CASE s.kind = "unparsable"
  BY <1>5 DEF version_by_specifier
<1>6. QED BY <1>1, <1>2, <1>3, <1>4, <1>5
=============================================================================
