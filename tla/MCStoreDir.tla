----------------------------- MODULE MCStoreDir -----------------------------
(* TLC instances of StoreDir: two tarballs that share a file.               *)
EXTENDS StoreDir, TLC

CONSTANTS w1, w2, w3, t1, t2, h1, h2

Exec644 == {}
Exec755 == ExecBits
Exec744 == {"u"}

MCHex == {t1, t2, h1, h2}

\* t1 has a duplicate entry (the first "a" is ejected) and a file that only its
\* owner may execute; t2 shares its content with t1's ejected entry, executable.
MCEntries ==
  (t1 :> << [name |-> "a", hash |-> h1, mode |-> Exec755],
            [name |-> "a", hash |-> h2, mode |-> Exec744] >>) @@
  (t2 :> << [name |-> "a", hash |-> h2, mode |-> Exec644],
            [name |-> "b", hash |-> h1, mode |-> Exec755] >>)
=============================================================================
