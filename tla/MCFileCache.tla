---------------------------- MODULE MCFileCache ----------------------------
(* Small instances of FileCache for TLC. *)
EXTENDS FileCache, TLC

CONSTANTS p1, p2, v, w

Symmetry == Permutations({p1, p2}) \union Permutations({v, w})
=============================================================================
