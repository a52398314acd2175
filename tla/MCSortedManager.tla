---------------------------- MODULE MCSortedManager ----------------------------
(* Instances of SortedManager for TLC. *)
EXTENDS SortedManager, TLC

CONSTANTS n1, n2, c1, c2, c3, s1, s2

Symmetry == Permutations({n1, n2}) \cup Permutations({c1, c2, c3}) \cup Permutations({s1, s2})

====
