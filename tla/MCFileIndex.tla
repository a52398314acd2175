----------------------------- MODULE MCFileIndex -----------------------------
(* Instances of FileIndex for TLC. *)
EXTENDS FileIndex, TLC

CONSTANTS k1, k2, v1, v2

Symmetry == Permutations({k1, k2}) \cup Permutations({v1, v2})

====
