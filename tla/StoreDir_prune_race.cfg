SPECIFICATION Spec
CONSTANTS
  w1 = w1
  w2 = w2
  w3 = w3
  t1 = t1
  t2 = t2
  h1 = h1
  h2 = h2
  Names = {"a", "b"}
  Tarballs = {t1, t2}
  Hex <- MCHex
  Entries <- MCEntries
  Workers = {w1, w2}
  Downloaders = {w1}
  Pruners = {w2}
  Checkers = {}
  PruneAlone = FALSE
  Faults = FALSE
PROPERTIES PruneKeepsReferenced
