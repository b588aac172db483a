--------------------------- MODULE MCArchiveStorage ---------------------------
(* Small instances of ArchiveStorage: "root" is a path at the root of a       *)
(* folder, "nested" one inside the collection "d".                            *)
EXTENDS ArchiveStorage, TLC

CONSTANTS root, nested, d

MCParent == (root :> None) @@ (nested :> d)
OneParent == (nested :> d)
Symmetry == Permutations(Folders) \cup Permutations(Requests)
===============================================================================
