------------------------------ MODULE HashIndex ------------------------------
(***************************************************************************)
(* The in-memory index (internal/bitcask/index.go): an open-addressing     *)
(* table with linear probing, tombstones, and a rehash that drops the      *)
(* tombstones and doubles the table when it is half full of live entries.  *)
(*                                                                         *)
(* The table is a value, so that put can look at what maybeRehash made of  *)
(* it.  A probe is a distance from the key's home slot; a loop over probes *)
(* is the least distance at which it ends.  The hash function is drawn at  *)
(* random when the index is made (maphash.MakeSeed), so a run covers every *)
(* one.  A slot names its key: where the arena keeps the bytes is left out.*)
(***************************************************************************)
EXTENDS Integers, FiniteSetsExt

CONSTANTS Key, Loc, NoKey, NoLoc,
          HashValue,        \* the values of the hash function
          InitialSlots,     \* initialSlotCapacity
          LoadNum, LoadDen, \* maxLoadFactor, as a fraction
          MaxSlots          \* bound: the largest table

ASSUME KeyAssumption == NoKey \notin Key /\ NoLoc \notin Loc /\ Key # {}
ASSUME HashAssumption == HashValue \subseteq Nat
\* A table below its load factor has two slots to spare at the least: the code has
\* 1024 slots and 0.65.
ASSUME SizeAssumption ==
    /\ InitialSlots \in Nat \ {0} /\ MaxSlots \in Nat /\ InitialSlots <= MaxSlots
    /\ LoadNum \in Nat \ {0} /\ LoadDen \in Nat /\ LoadNum < LoadDen
    /\ LoadDen <= InitialSlots * (LoadDen - LoadNum)

VARIABLES hash,     \* idx.hash
          table,    \* slots, their number cap, and the counters count and tomb
          prev,     \* what the last put or delete returned
          map,      \* ghost: what a map would hold, the idx of module Bitcask
          peak      \* ghost: the most entries the table ever held

vars == <<hash, table, prev, map, peak>>

EmptySlot == [state |-> "empty", key |-> NoKey, loc |-> NoLoc]
LiveSlot(k, l) == [state |-> "live", key |-> k, loc |-> l]
NewTable(n) == [cap |-> n, slots |-> [i \in 0 .. n - 1 |-> EmptySlot], count |-> 0, tomb |-> 0]

TypeOK ==
    /\ hash \in [Key -> HashValue]
    /\ table.cap \in InitialSlots .. MaxSlots
    /\ table.slots \in [0 .. table.cap - 1 ->
                          [state : {"empty", "live", "tomb"},
                           key : Key \cup {NoKey}, loc : Loc \cup {NoLoc}]]
    /\ table.count \in 0 .. table.cap /\ table.tomb \in 0 .. table.cap
    /\ prev \in Loc \cup {NoLoc} /\ map \in [Key -> Loc \cup {NoLoc}]
    /\ peak \in Nat

Init ==
    /\ hash \in [Key -> HashValue]
    /\ table = NewTable(InitialSlots)
    /\ prev = NoLoc /\ map = [k \in Key |-> NoLoc] /\ peak = 0

-----------------------------------------------------------------------------
(* Probing. *)

\* The slot at distance d from k's home.
Probe(T, k, d) == (hash[k] + d) % T.cap
SlotAt(T, k, d) == T.slots[Probe(T, k, d)]
Holds(s, k) == s.state = "live" /\ s.key = k

\* Mutant of Ends: a tombstone ends the search.
EndsAtTombstone(T, k) ==
    { d \in 0 .. T.cap - 1 :
        LET s == SlotAt(T, k, d) IN s.state # "live" \/ Holds(s, k) }
\* Distances at which looking for k ends.
Ends(T, k) ==
    { d \in 0 .. T.cap - 1 :
        LET s == SlotAt(T, k, d) IN s.state = "empty" \/ Holds(s, k) }

\* get: an empty slot's location is NoLoc.
Lookup(T, k) ==
    LET ends == Ends(T, k) IN IF ends = {} THEN NoLoc ELSE SlotAt(T, k, Min(ends)).loc

-----------------------------------------------------------------------------
(* Rehashing. *)

Reinsert(T, s) ==
    LET free == { d \in 0 .. T.cap - 1 : SlotAt(T, s.key, d).state = "empty" }
    IN  [T EXCEPT !.slots[Probe(T, s.key, Min(free))] = s, !.count = @ + 1]

\* The live slots of T in slot order, put into a table of n slots.
Rehash(T, n) ==
    LET upTo[i \in 0 .. T.cap] ==
          IF i = 0 THEN NewTable(n)
          ELSE IF T.slots[i - 1].state = "live" THEN Reinsert(upTo[i - 1], T.slots[i - 1])
          ELSE upTo[i - 1]
    IN  upTo[T.cap]

\* Mutant of GrowTarget: tombstones count as entries.
GrowTargetOccupied(T) == IF (T.count + T.tomb) * 2 >= T.cap THEN 2 * T.cap ELSE T.cap
GrowTarget(T) == IF T.count * 2 >= T.cap THEN 2 * T.cap ELSE T.cap

\* Mutant of Crowded: tombstones are not in the way.
CrowdedWithLive(T) == T.count * LoadDen >= LoadNum * T.cap
Crowded(T) == (T.count + T.tomb) * LoadDen >= LoadNum * T.cap
MaybeRehash(T) == IF Crowded(T) THEN Rehash(T, GrowTarget(T)) ELSE T

\* The table the probe loop of put runs on.  The loop finding neither k nor an
\* empty slot forces a rehash, and put starts again.
TableForPut(T, k) ==
    LET R == MaybeRehash(T)
    IN  IF Ends(R, k) # {} THEN R ELSE MaybeRehash(Rehash(R, GrowTarget(R)))

-----------------------------------------------------------------------------
(* The operations. *)

\* Tombstones passed before the loop for k ends.
Passed(T, k) == { d \in 0 .. Min(Ends(T, k)) - 1 : SlotAt(T, k, d).state = "tomb" }

\* Mutants of Insert: the first tombstone ends the search; it is reused but
\* still counted; the entry that reuses it is not counted.
InsertAtTombstone(T, k, l) ==
    LET end == Min(Ends(T, k)) IN
    IF Passed(T, k) # {}
    THEN [T EXCEPT !.slots[Probe(T, k, Min(Passed(T, k)))] = LiveSlot(k, l), !.count = @ + 1, !.tomb = @ - 1]
    ELSE IF Holds(SlotAt(T, k, end), k)
    THEN [T EXCEPT !.slots[Probe(T, k, end)].loc = l]
    ELSE [T EXCEPT !.slots[Probe(T, k, end)] = LiveSlot(k, l), !.count = @ + 1]
InsertCountingTombstone(T, k, l) ==
    LET end == Min(Ends(T, k))
        at == IF Passed(T, k) = {} THEN end ELSE Min(Passed(T, k))
    IN  IF Holds(SlotAt(T, k, end), k)
        THEN [T EXCEPT !.slots[Probe(T, k, end)].loc = l]
        ELSE [T EXCEPT !.slots[Probe(T, k, at)] = LiveSlot(k, l), !.count = @ + 1]

InsertUncounted(T, k, l) ==
    LET end == Min(Ends(T, k))
        reuse == Passed(T, k)
    IN  IF Holds(SlotAt(T, k, end), k)
        THEN [T EXCEPT !.slots[Probe(T, k, end)].loc = l]
        ELSE IF reuse = {}
        THEN [T EXCEPT !.slots[Probe(T, k, end)] = LiveSlot(k, l), !.count = @ + 1]
        ELSE [T EXCEPT !.slots[Probe(T, k, Min(reuse))] = LiveSlot(k, l), !.tomb = @ - 1]

\* An overwrite in place, or a new entry in the first tombstone passed or, if
\* none was, in the empty slot.
Insert(T, k, l) ==
    LET end == Min(Ends(T, k))
        reuse == Passed(T, k)
    IN  IF Holds(SlotAt(T, k, end), k)
        THEN [T EXCEPT !.slots[Probe(T, k, end)].loc = l]
        ELSE IF reuse = {}
        THEN [T EXCEPT !.slots[Probe(T, k, end)] = LiveSlot(k, l), !.count = @ + 1]
        ELSE [T EXCEPT !.slots[Probe(T, k, Min(reuse))] = LiveSlot(k, l),
                       !.count = @ + 1, !.tomb = @ - 1]

Put(k, l) ==
    LET T == TableForPut(table, k) IN
    /\ T.cap <= MaxSlots
    /\ table' = Insert(T, k, l)
    /\ prev' = Lookup(T, k)
    /\ map' = [map EXCEPT ![k] = l]
    /\ peak' = Max({peak, table'.count})
    /\ UNCHANGED hash

\* Mutant of Removed: the slot is emptied.
RemovedToEmpty(T, i) == [T EXCEPT !.slots[i] = EmptySlot, !.count = @ - 1]
Removed(T, i) == [T EXCEPT !.slots[i].state = "tomb", !.count = @ - 1, !.tomb = @ + 1]

Delete(k) ==
    LET end == Min(Ends(table, k)) IN
    /\ table' = IF Ends(table, k) # {} /\ Holds(SlotAt(table, k, end), k)
                THEN Removed(table, Probe(table, k, end)) ELSE table
    /\ prev' = Lookup(table, k)
    /\ map' = [map EXCEPT ![k] = NoLoc]
    /\ UNCHANGED <<hash, peak>>

Next ==
    \/ \E k \in Key, l \in Loc : Put(k, l)
    \/ \E k \in Key : Delete(k)

Spec == Init /\ [][Next]_vars

-----------------------------------------------------------------------------
(* Properties. *)

SlotsIn(T, st) == { i \in 0 .. T.cap - 1 : T.slots[i].state = st }

\* The counters that len, Stats and the snapshot's header report and that decide
\* about rehashing are exact (index.go: "catching any accounting drift").
CountsExact ==
    /\ table.count = Cardinality(SlotsIn(table, "live"))
    /\ table.tomb = Cardinality(SlotsIn(table, "tomb"))

\* Some slot is empty, before and after any rehash: every probe loop ends, the
\* unbounded one of reinsert among them, and put never has to force a rehash.
AlwaysRoom ==
    /\ SlotsIn(table, "empty") # {}
    /\ Crowded(table) => SlotsIn(Rehash(table, GrowTarget(table)), "empty") # {}

\* A key has at most one live slot, so forEach (snapshots, iterators) sees every
\* key once.
KeysOnce ==
    \A i, j \in SlotsIn(table, "live") : table.slots[i].key = table.slots[j].key => i = j

\* Churn does not grow the table: past its first size, it stays within four times
\* the entries it ever held at once (index.go growTargetCapacity).
ChurnDoesNotGrow == table.cap <= InitialSlots \/ table.cap <= 4 * peak

\* What get answers.
Contents == [k \in Key |-> Lookup(table, k)]

\* The table is a map, whatever the hash function, the collisions, the tombstones and
\* the rehashes: get finds what the map holds after every put and delete, and these
\* return what it held before, which db.go charges to the garbage of a segment.
ActsAsMap ==
    /\ [](Contents = map)
    /\ [][\A k \in Key : map'[k] # map[k] => prev' = map[k]]_vars

=============================================================================
