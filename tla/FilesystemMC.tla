----------------------------- MODULE FilesystemMC -----------------------------
(* Values of the constants for checking the file system on small instances. *)
EXTENDS Readdir, TLC

CONSTANTS a, b, c

\* The key of c is one that a tree refuses.
SomeKeys == (a :> 1) @@ (b :> 2) @@ (c :> 0)
SomeWidths == (a :> 2) @@ (b :> 1) @@ (c :> 1)
AnyInode == Permutations(Inodes)
=============================================================================
