---------------------------- MODULE PackageStore ----------------------------
(***************************************************************************)
(* What a store of shared files promises those who use packages from it,    *)
(* whatever loops and file-system calls are behind it: files come first,    *)
(* a package comes only when all its files are there, whoever is given a    *)
(* package is given all of them, and a file goes only when no package and   *)
(* nobody who was given one still counts on it.                             *)
(***************************************************************************)
CONSTANTS
  Users,     \* those who may be given a package
  Files,     \* the files there may be, of a package or not
  Packages,
  FilesOf    \* FilesOf[p]: the files of package p

VARIABLES
  files,     \* the files of the store
  packages,  \* the packages of the store
  given      \* given[u]: the files u was given and still counts on

vars == <<files, packages, given>>

Init ==
  /\ files = {}
  /\ packages = {}
  /\ given = [u \in Users |-> {}]

AddFile(f) ==
  /\ files' = files \cup {f}
  /\ UNCHANGED <<packages, given>>

\* A package is in the store at once, with every file it has.
AddPackage(p) ==
  /\ FilesOf[p] \subseteq files
  /\ packages' = packages \cup {p}
  /\ UNCHANGED <<files, given>>

Give(u, p) ==
  /\ p \in packages
  /\ given[u] = {}
  /\ given' = [given EXCEPT ![u] = FilesOf[p]]
  /\ UNCHANGED <<files, packages>>

\* The user is done, or dead.
TakeBack(u) ==
  /\ given' = [given EXCEPT ![u] = {}]
  /\ UNCHANGED <<files, packages>>

\* Nobody counts on f: it may go.
Collect(f) ==
  /\ \A p \in packages : f \notin FilesOf[p]
  /\ \A u \in Users : f \notin given[u]
  /\ files' = files \ {f}
  /\ UNCHANGED <<packages, given>>

Next ==
  \/ \E f \in Files : AddFile(f) \/ Collect(f)
  \/ \E p \in Packages : AddPackage(p)
  \/ \E u \in Users : TakeBack(u) \/ \E p \in Packages : Give(u, p)

Spec == Init /\ [][Next]_vars
=============================================================================
