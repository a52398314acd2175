----------------------------- MODULE MCHashIndex -----------------------------
(* Instances of HashIndex for TLC. *)
EXTENDS HashIndex, TLC

CONSTANTS k1, k2, k3, k4, l1, l2

Symmetry == Permutations({k1, k2, k3, k4}) \cup Permutations({l1, l2})

====
