------------------------------- MODULE KVStore -------------------------------
(***************************************************************************)
(* What the DB engine (internal/bitcask) promises its callers, with no     *)
(* mention of segments, indexes or compaction: a map from keys to values,  *)
(* changed one key at a time, that a restart leaves as it was.             *)
(*                                                                         *)
(* The engine does not keep the last promise for every key.  `weak' is the *)
(* set of keys it has stopped promising anything about across a restart:   *)
(* a running store may weaken a key without changing what it reads, and a  *)
(* stop may change the value of a weak key and of no other.  Module        *)
(* Bitcask says when the code weakens a key and is checked against this    *)
(* module.                                                                 *)
(***************************************************************************)

CONSTANTS Key,      \* the keys callers use
          Val,      \* the values they store
          Absent,   \* what reading a key that is not there gives
          Missing   \* what reading a key gives when the read itself fails

VARIABLES kv,       \* what a read of each key returns
          weak,     \* keys whose value a stop may change
          up        \* whether the store serves calls

vars == <<kv, weak, up>>

TypeOK ==
    /\ kv \in [Key -> Val \cup {Absent, Missing}]
    /\ weak \subseteq Key
    /\ up \in BOOLEAN

\* A store may be made over a file that was there before.
Init ==
    /\ kv \in [Key -> Val \cup {Absent}]
    /\ weak = {}
    /\ up = FALSE

\* A write: one key changes, and the writer may find it has weakened that key, or
\* made it firm again.
Write(k, v) ==
    /\ up /\ up'
    /\ kv' = [kv EXCEPT ![k] = v]
    /\ weak' \in {weak, weak \cup {k}, weak \ {k}}

\* Maintenance: nothing a caller can read changes.
Weaken ==
    /\ UNCHANGED <<up, kv>>
    /\ weak \subseteq weak'
    /\ weak' \subseteq Key

\* The store goes away, by a close or by a crash.
Stop ==
    /\ up /\ up' = FALSE
    /\ UNCHANGED weak
    /\ kv' \in [Key -> Val \cup {Absent, Missing}]
    /\ \A k \in Key \ weak : kv'[k] = kv[k]

\* A stopped store: a Compact call that outlives Close may still remove the
\* snapshot, after which recovery is a full scan.
Drift ==
    /\ ~up /\ UNCHANGED up
    /\ weak \subseteq weak'
    /\ weak' \subseteq Key
    /\ kv' \in [Key -> Val \cup {Absent, Missing}]
    /\ \A k \in Key \ weak' : kv'[k] = kv[k]

\* The store comes back and serves exactly what it held while it was down.
Start ==
    /\ ~up /\ up' = TRUE
    /\ weak' \subseteq weak
    /\ UNCHANGED kv

Next ==
    \/ Weaken
    \/ \E k \in Key, v \in Val \cup {Absent} : Write(k, v)
    \/ Stop
    \/ Drift
    \/ Start

Spec == Init /\ [][Next]_vars

=============================================================================
