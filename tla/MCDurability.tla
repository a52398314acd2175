----------------------------- MODULE MCDurability -----------------------------
(* Instances of Durability for TLC. *)
EXTENDS Durability, TLC

CONSTANTS k1, k2, k3, v1, v2, bg, user

Symmetry == Permutations({k1, k2, k3}) \cup Permutations({v1, v2})

====
