--------------------------- MODULE HashIndexProofs ---------------------------
(***************************************************************************)
(* Proofs about module HashIndex, for every hash function, every number of  *)
(* keys and every size: the table is a map, its counters are exact, a key   *)
(* has one slot, every probe loop ends and churn does not grow the table.   *)
(*                                                                         *)
(* A table is sane when no empty slot lies between a live slot and its      *)
(* key's home.  Filling a slot that a probe for the key reaches, and        *)
(* turning a live slot into a tombstone, keep it so; a rehash does nothing  *)
(* but fill slots.                                                          *)
(***************************************************************************)
EXTENDS HashIndex, Extrema, FiniteSetTheorems

-----------------------------------------------------------------------------
(* Arithmetic. *)

LEMMA ModRange ==
    ASSUME NEW a \in Nat, NEW c \in Nat \ {0}
    PROVE  a % c \in 0 .. c - 1
  OBVIOUS

LEMMA Division ==
    ASSUME NEW a \in Nat, NEW c \in Nat \ {0}
    PROVE  \E q \in Nat : a = q * c + (a % c)
  OBVIOUS

LEMMA Remainder ==
    ASSUME NEW q \in Nat, NEW c \in Nat \ {0}, NEW j \in 0 .. c - 1
    PROVE  (q * c + j) % c = j
  OBVIOUS

\* From any home, some distance leads to each slot.
LEMMA Wraps ==
    ASSUME NEW h \in Nat, NEW c \in Nat \ {0}, NEW j \in 0 .. c - 1
    PROVE  \E d \in 0 .. c - 1 : (h + d) % c = j
<1>1. PICK q \in Nat : h = q * c + (h % c)
  BY Division
<1>2. h % c \in 0 .. c - 1
  BY ModRange
<1> DEFINE r == h % c
<1>3. r \in 0 .. c - 1 /\ h = q * c + r /\ q * c \in Nat
  BY <1>1, <1>2
<1> HIDE DEF r
<1>4. CASE r <= j
  <2>1. j - r \in 0 .. c - 1 /\ h + (j - r) = q * c + j
    BY <1>3, <1>4
  <2>2. (q * c + j) % c = j
    BY Remainder
  <2> QED
    BY <2>1, <2>2
<1>5. CASE r > j
  <2>1. c + j - r \in 0 .. c - 1 /\ h + (c + j - r) = q * c + c + j
    BY <1>3, <1>5
  <2>2. (q + 1) * c = q * c + c
    OBVIOUS
  <2>3. ((q + 1) * c + j) % c = j
    BY Remainder
  <2> QED
    BY <2>1, <2>2, <2>3
<1> QED
  BY <1>3, <1>4, <1>5

LEMMA MinIs ==
    ASSUME NEW S \in SUBSET Nat, S # {}
    PROVE  Min(S) \in S /\ \A d \in S : Min(S) <= d
  BY MinExists DEF Min

LEMMA MaxOfTwo ==
    ASSUME NEW a \in Nat, NEW b \in Nat
    PROVE  Max({a, b}) \in Nat /\ a <= Max({a, b}) /\ b <= Max({a, b})
<1>1. \E x \in {a, b} : \A y \in {a, b} : x >= y
  OBVIOUS
<1>2. Max({a, b}) \in {a, b} /\ \A y \in {a, b} : Max({a, b}) >= y
  BY <1>1 DEF Max
<1> QED
  BY <1>2

-----------------------------------------------------------------------------
(* Tables. *)

Slot == [state : {"empty", "live", "tomb"}, key : Key \cup {NoKey}, loc : Loc \cup {NoLoc}]
SlotIds(T) == 0 .. T.cap - 1

Shaped(T) ==
    /\ T.cap \in Nat \ {0}
    /\ T.slots \in [SlotIds(T) -> Slot]
    /\ T.count \in Nat /\ T.tomb \in Nat
    /\ T = [cap |-> T.cap, slots |-> T.slots, count |-> T.count, tomb |-> T.tomb]

SlotsSane(T) ==
    \A i \in SlotIds(T) :
        /\ T.slots[i].state = "live" => T.slots[i].key \in Key /\ T.slots[i].loc \in Loc
        /\ T.slots[i].state = "empty" => T.slots[i].loc = NoLoc

\* A probe for the key of a live slot meets no empty slot before it.
Reachable(T) ==
    \A i \in SlotIds(T) : T.slots[i].state = "live" =>
        \E d \in SlotIds(T) :
            /\ Probe(T, T.slots[i].key, d) = i
            /\ \A e \in 0 .. d - 1 : SlotAt(T, T.slots[i].key, e).state # "empty"

Once(T) ==
    \A i, j \in SlotIds(T) :
        (T.slots[i].state = "live" /\ T.slots[j].state = "live" /\ T.slots[i].key = T.slots[j].key)
            => i = j

Counted(T) ==
    T.count = Cardinality(SlotsIn(T, "live")) /\ T.tomb = Cardinality(SlotsIn(T, "tomb"))

Sane(T) == Shaped(T) /\ SlotsSane(T) /\ Reachable(T) /\ Once(T) /\ Counted(T)

Room(T) == T.count + T.tomb < T.cap

\* T holds l for k.
Has(T, k, l) ==
    \E i \in SlotIds(T) : T.slots[i].state = "live" /\ T.slots[i].key = k /\ T.slots[i].loc = l

Hashed == hash \in [Key -> HashValue]

LEMMA Probes ==
    ASSUME Hashed, NEW T, Shaped(T), NEW k \in Key
    PROVE  /\ \A d \in Nat : Probe(T, k, d) \in SlotIds(T)
           /\ \A i \in SlotIds(T) : \E d \in SlotIds(T) : Probe(T, k, d) = i
<1>1. hash[k] \in Nat /\ T.cap \in Nat \ {0}
  BY HashAssumption DEF Hashed, Shaped
<1>2. ASSUME NEW d \in Nat
      PROVE  (hash[k] + d) % T.cap \in 0 .. T.cap - 1
  <2> DEFINE a == hash[k] + d
             c == T.cap
  <2>1. a \in Nat /\ c \in Nat \ {0}
    BY <1>1
  <2> HIDE DEF a, c
  <2>2. a % c \in 0 .. c - 1
    BY <2>1, ModRange
  <2> QED
    BY <2>2 DEF a, c
<1>3. \A i \in 0 .. T.cap - 1 : \E d \in 0 .. T.cap - 1 : (hash[k] + d) % T.cap = i
  BY <1>1, Wraps
<1>4. \A d \in Nat : Probe(T, k, d) \in SlotIds(T)
  BY <1>2 DEF Probe, SlotIds
<1>5. \A i \in SlotIds(T) : \E d \in SlotIds(T) : Probe(T, k, d) = i
  BY <1>3 DEF Probe, SlotIds
<1> QED
  BY <1>4, <1>5

LEMMA SlotSetsFinite ==
    ASSUME NEW T, Shaped(T), NEW st
    PROVE  /\ IsFiniteSet(SlotIds(T)) /\ Cardinality(SlotIds(T)) = T.cap
           /\ SlotsIn(T, st) \subseteq SlotIds(T) /\ IsFiniteSet(SlotsIn(T, st))
           /\ Cardinality(SlotsIn(T, st)) \in Nat
<1>1. T.cap \in Nat /\ T.cap # 0
  BY DEF Shaped
<1>2. IsFiniteSet(SlotIds(T)) /\ Cardinality(SlotIds(T)) = T.cap
  <2> DEFINE b == T.cap - 1
  <2>1. 0 \in Int /\ b \in Int /\ ~(0 > b) /\ b - 0 + 1 = T.cap
    BY <1>1
  <2> HIDE DEF b
  <2>2. IsFiniteSet(0 .. b) /\ Cardinality(0 .. b) = b - 0 + 1
    BY <2>1, FS_Interval
  <2> QED
    BY <2>1, <2>2 DEF SlotIds, b
<1>3. SlotsIn(T, st) \subseteq SlotIds(T)
  BY DEF SlotsIn, SlotIds
<1>4. IsFiniteSet(SlotsIn(T, st))
  BY <1>2, <1>3, FS_Subset
<1> QED
  BY <1>2, <1>3, <1>4, FS_CardinalityType

LEMMA RoomIsEmptySlot ==
    ASSUME NEW T, Sane(T), Room(T)
    PROVE  SlotsIn(T, "empty") # {}
<1> DEFINE L == SlotsIn(T, "live")
           M == SlotsIn(T, "tomb")
<1>1. /\ Shaped(T) /\ Counted(T)
  BY DEF Sane
<1>2. /\ IsFiniteSet(L) /\ IsFiniteSet(M) /\ Cardinality(SlotIds(T)) = T.cap
      /\ T.count = Cardinality(L) /\ T.tomb = Cardinality(M)
  BY <1>1, SlotSetsFinite DEF Counted
<1>3. Cardinality(L \cup M) = Cardinality(L) + Cardinality(M) - Cardinality(L \cap M)
  BY <1>2, FS_Union
<1>4. L \cap M = {}
  BY DEF SlotsIn
<1>5. Cardinality(L \cup M) = T.count + T.tomb
  <2>1. Cardinality(L \cap M) = 0
    BY <1>4, FS_EmptySet
  <2> QED
    BY <1>1, <1>2, <1>3, <2>1 DEF Shaped
<1>6. L \cup M # SlotIds(T)
  BY <1>1, <1>2, <1>5 DEF Room, Shaped
<1>7. \A i \in SlotIds(T) : T.slots[i].state \in {"empty", "live", "tomb"}
  BY <1>1 DEF Shaped, Slot
<1> QED
  BY <1>6, <1>7 DEF SlotsIn, SlotIds

\* A table with room ends every search.
LEMMA SearchEnds ==
    ASSUME Hashed, NEW T, Sane(T), Room(T), NEW k \in Key
    PROVE  /\ Ends(T, k) # {}
           /\ Min(Ends(T, k)) \in Ends(T, k)
           /\ \A d \in Ends(T, k) : Min(Ends(T, k)) <= d
<1>1. PICK i \in SlotsIn(T, "empty") : TRUE
  BY RoomIsEmptySlot
<1>2. Shaped(T) /\ i \in SlotIds(T) /\ T.slots[i].state = "empty"
  BY <1>1 DEF Sane, SlotsIn, SlotIds
<1>3. PICK d \in SlotIds(T) : Probe(T, k, d) = i
  BY <1>2, Probes
<1>4. d \in Ends(T, k)
  BY <1>2, <1>3 DEF Ends, SlotAt, SlotIds
<1>5. Ends(T, k) \in SUBSET Nat
  BY <1>2 DEF Ends, Shaped
<1> QED
  BY <1>4, <1>5, MinIs

\* A search that ends finds the key's slot if it has one.
LEMMA SearchFinds ==
    ASSUME Hashed, NEW T, Sane(T), NEW k \in Key, NEW m \in Ends(T, k),
           \A d \in Ends(T, k) : m <= d
    PROVE  /\ m \in SlotIds(T) /\ m \in Nat /\ Probe(T, k, m) \in SlotIds(T)
           /\ \/ Holds(SlotAt(T, k, m), k)
              \/ SlotAt(T, k, m).state = "empty" /\ \A i \in SlotIds(T) : ~Holds(T.slots[i], k)
           /\ \A e \in 0 .. m - 1 : SlotAt(T, k, e).state # "empty"
<1>1. /\ Shaped(T) /\ Reachable(T) /\ T.cap \in Nat
      /\ m \in SlotIds(T) /\ m \in Nat /\ Ends(T, k) \subseteq Nat
  BY DEF Sane, Shaped, Ends, SlotIds
<1>2. Probe(T, k, m) \in SlotIds(T)
  BY <1>1, Probes
<1>3. ASSUME NEW e \in 0 .. m - 1
      PROVE  e \notin Ends(T, k) /\ SlotAt(T, k, e).state # "empty" /\ ~Holds(SlotAt(T, k, e), k)
  <2>1. e \notin Ends(T, k)
    BY <1>1, <1>3
  <2>2. e \in 0 .. T.cap - 1
    BY <1>1, <1>3 DEF SlotIds
  <2> QED
    BY <2>1, <2>2 DEF Ends
<1>4. ASSUME SlotAt(T, k, m).state = "empty", NEW i \in SlotIds(T), Holds(T.slots[i], k)
      PROVE  FALSE
  <2>1. T.slots[i].state = "live" /\ T.slots[i].key = k
    BY <1>4 DEF Holds
  <2>2. PICK d \in SlotIds(T) :
          Probe(T, k, d) = i /\ \A e \in 0 .. d - 1 : SlotAt(T, k, e).state # "empty"
    BY <1>1, <2>1 DEF Reachable
  <2>3. d \in Ends(T, k)
    BY <1>4, <2>2 DEF Ends, SlotAt, SlotIds
  <2>4. d \in Int /\ m <= d /\ ~(m \in 0 .. d - 1)
    BY <1>4, <2>2, <2>3 DEF SlotIds
  <2>5. m = d
    BY <1>1, <2>4
  <2> QED
    BY <1>4, <2>1, <2>2, <2>5 DEF SlotAt
<1>5. Holds(SlotAt(T, k, m), k) \/ SlotAt(T, k, m).state = "empty"
  BY DEF Ends
<1> QED
  BY <1>1, <1>2, <1>3, <1>4, <1>5

\* get finds the location that the table holds for a key, and nothing if none.
LEMMA LookupFinds ==
    ASSUME Hashed, NEW T, Sane(T), Room(T), NEW k \in Key
    PROVE  /\ \A l \in Loc : Has(T, k, l) <=> Lookup(T, k) = l
           /\ Lookup(T, k) \in Loc \cup {NoLoc}
<1> DEFINE m == Min(Ends(T, k))
           s == SlotAt(T, k, m)
<1>1. m \in Ends(T, k) /\ (\A d \in Ends(T, k) : m <= d) /\ Lookup(T, k) = s.loc
  BY SearchEnds DEF Lookup
<1> HIDE DEF m
<1>2. /\ Probe(T, k, m) \in SlotIds(T) /\ s = T.slots[Probe(T, k, m)]
      /\ \/ Holds(s, k)
         \/ s.state = "empty" /\ \A i \in SlotIds(T) : ~Holds(T.slots[i], k)
  BY <1>1, SearchFinds DEF SlotAt
<1>3. SlotsSane(T) /\ Once(T) /\ NoLoc \notin Loc
  BY KeyAssumption DEF Sane
<1> HIDE DEF s
<1>4. CASE Holds(s, k)
  <2>1. s.state = "live" /\ s.key = k /\ s.loc \in Loc
    BY <1>2, <1>3, <1>4 DEF Holds, SlotsSane
  <2>2. \A i \in SlotIds(T) : T.slots[i].state = "live" /\ T.slots[i].key = k => T.slots[i] = s
    BY <1>2, <1>3, <2>1 DEF Once
  <2> QED
    BY <1>1, <1>2, <2>1, <2>2 DEF Has
<1>5. CASE s.state = "empty" /\ \A i \in SlotIds(T) : ~Holds(T.slots[i], k)
  <2>1. s.loc = NoLoc
    BY <1>2, <1>3, <1>5 DEF SlotsSane
  <2> QED
    BY <1>1, <1>3, <1>5, <2>1 DEF Has, Holds
<1> QED
  BY <1>2, <1>4, <1>5

-----------------------------------------------------------------------------
(* The ways a table changes. *)

\* U is T with slot i filled by k's entry.
Filled(T, U, i, k, l) ==
    /\ Shaped(U) /\ U.cap = T.cap
    /\ U.slots = [T.slots EXCEPT ![i] = LiveSlot(k, l)]
    /\ U.count = T.count + 1
    /\ U.tomb = IF T.slots[i].state = "tomb" THEN T.tomb - 1 ELSE T.tomb

\* Counting the slots in state st after slot i has changed.
LEMMA CountMoves ==
    ASSUME NEW T, Shaped(T), NEW U, Shaped(U), U.cap = T.cap, NEW i \in SlotIds(T), NEW s \in Slot,
           U.slots = [T.slots EXCEPT ![i] = s], NEW st
    PROVE  Cardinality(SlotsIn(U, st)) =
             IF T.slots[i].state = st
             THEN IF s.state = st THEN Cardinality(SlotsIn(T, st)) ELSE Cardinality(SlotsIn(T, st)) - 1
             ELSE IF s.state = st THEN Cardinality(SlotsIn(T, st)) + 1 ELSE Cardinality(SlotsIn(T, st))
<1> DEFINE A == SlotsIn(T, st)
           B == SlotsIn(U, st)
<1>1. IsFiniteSet(A) /\ T.slots \in [SlotIds(T) -> Slot]
  BY SlotSetsFinite DEF Shaped
<1>2. U.slots[i] = s /\ \A j \in SlotIds(T) \ {i} : U.slots[j] = T.slots[j]
  BY <1>1
<1>3. \A j : j \in A <=> j \in SlotIds(T) /\ T.slots[j].state = st
  BY DEF SlotsIn, SlotIds
<1>4. \A j : j \in B <=> j \in SlotIds(T) /\ U.slots[j].state = st
  BY DEF SlotsIn, SlotIds
<1> HIDE DEF A, B
<1>5. CASE T.slots[i].state = st /\ s.state # st
  <2>1. B = A \ {i} /\ i \in A
    BY <1>2, <1>3, <1>4, <1>5
  <2> QED
    BY <1>1, <1>5, <2>1, FS_RemoveElement DEF A, B
<1>6. CASE T.slots[i].state # st /\ s.state = st
  <2>1. B = A \cup {i} /\ i \notin A
    BY <1>2, <1>3, <1>4, <1>6
  <2>2. Cardinality(A \cup {i}) = Cardinality(A) + 1
    BY <1>1, <2>1, FS_AddElement
  <2> QED
    BY <1>6, <2>1, <2>2 DEF A, B
<1>7. CASE T.slots[i].state = st <=> s.state = st
  <2>1. \A j \in SlotIds(T) : T.slots[j].state = st <=> U.slots[j].state = st
    BY <1>2, <1>7
  <2>2. B = A
    BY <1>3, <1>4, <2>1
  <2> QED
    BY <1>7, <2>2 DEF A, B
<1> QED
  BY <1>5, <1>6, <1>7

LEMMA FillKeeps ==
    ASSUME Hashed, NEW T, Sane(T), NEW k \in Key, NEW l \in Loc, NEW d \in SlotIds(T),
           \A e \in 0 .. d - 1 : SlotAt(T, k, e).state # "empty",
           NEW i, i = Probe(T, k, d), T.slots[i].state # "live",
           \A j \in SlotIds(T) : ~Holds(T.slots[j], k),
           NEW U, Filled(T, U, i, k, l)
    PROVE  /\ Sane(U)
           /\ \A h \in Key, m \in Loc : Has(U, h, m) <=> Has(T, h, m) \/ (h = k /\ m = l)
<1>1. /\ Shaped(T) /\ SlotsSane(T) /\ Reachable(T) /\ Once(T) /\ Counted(T)
      /\ Shaped(U) /\ U.cap = T.cap /\ SlotIds(U) = SlotIds(T)
  BY DEF Sane, Filled, SlotIds
<1>2. /\ i \in SlotIds(T) /\ T.cap \in Nat /\ d \in Nat
  <2>1. T.cap \in Nat /\ d \in Nat
    BY <1>1 DEF Shaped, SlotIds
  <2> QED
    BY <1>1, <2>1, Probes
<1> DEFINE s == LiveSlot(k, l)
<1>3. s \in Slot /\ s.state = "live" /\ s.key = k /\ s.loc = l
  BY DEF LiveSlot, Slot
<1> HIDE DEF s
<1>4. /\ U.slots[i] = s /\ \A j \in SlotIds(T) \ {i} : U.slots[j] = T.slots[j]
  BY <1>1, <1>2 DEF Filled, Shaped, s
<1>5. SlotsSane(U)
  BY <1>1, <1>3, <1>4 DEF SlotsSane
\* No slot has become empty.
<1>6. \A h, e : Probe(U, h, e) = Probe(T, h, e)
  BY <1>1 DEF Probe
<1>7. ASSUME NEW h \in Key, NEW e \in Nat, SlotAt(T, h, e).state # "empty"
      PROVE  SlotAt(U, h, e).state # "empty"
  <2>1. Probe(T, h, e) \in SlotIds(T)
    BY <1>1, Probes
  <2> QED
    BY <1>3, <1>4, <1>6, <1>7, <2>1 DEF SlotAt
<1>8. Reachable(U)
  <2> SUFFICES ASSUME NEW j \in SlotIds(T), U.slots[j].state = "live"
               PROVE  \E g \in SlotIds(T) :
                        /\ Probe(U, U.slots[j].key, g) = j
                        /\ \A e \in 0 .. g - 1 : SlotAt(U, U.slots[j].key, e).state # "empty"
    BY <1>1 DEF Reachable
  <2>1. CASE j = i
    <3>1. \A e \in 0 .. d - 1 : SlotAt(U, k, e).state # "empty"
      BY <1>2, <1>7
    <3> QED
      BY <1>3, <1>4, <1>6, <2>1, <3>1
  <2>2. CASE j # i
    <3>1. U.slots[j] = T.slots[j] /\ T.slots[j].key \in Key
      BY <1>1, <1>4, <2>2 DEF SlotsSane
    <3>2. PICK g \in SlotIds(T) :
            /\ Probe(T, T.slots[j].key, g) = j
            /\ \A e \in 0 .. g - 1 : SlotAt(T, T.slots[j].key, e).state # "empty"
      BY <1>1, <3>1 DEF Reachable
    <3>3. \A e \in 0 .. g - 1 : e \in Nat
      OBVIOUS
    <3> QED
      BY <1>6, <1>7, <3>1, <3>2, <3>3
  <2> QED
    BY <2>1, <2>2
<1>9. Once(U)
  BY <1>1, <1>3, <1>4 DEF Once, Holds
<1>10. Counted(U)
  <2>1. U.slots = [T.slots EXCEPT ![i] = s]
    BY DEF Filled, s
  <2>2. \A st : Cardinality(SlotsIn(U, st)) =
             IF T.slots[i].state = st
             THEN IF s.state = st THEN Cardinality(SlotsIn(T, st)) ELSE Cardinality(SlotsIn(T, st)) - 1
             ELSE IF s.state = st THEN Cardinality(SlotsIn(T, st)) + 1 ELSE Cardinality(SlotsIn(T, st))
    <3>1. /\ Shaped(T) /\ Shaped(U) /\ U.cap = T.cap /\ i \in SlotIds(T) /\ s \in Slot
          /\ U.slots = [T.slots EXCEPT ![i] = s]
      BY <1>1, <1>2, <1>3, <2>1
    <3> QED
      BY ONLY <3>1, CountMoves
  <2>3. /\ Cardinality(SlotsIn(U, "live")) = Cardinality(SlotsIn(T, "live")) + 1
        /\ Cardinality(SlotsIn(U, "tomb")) =
             IF T.slots[i].state = "tomb" THEN Cardinality(SlotsIn(T, "tomb")) - 1
             ELSE Cardinality(SlotsIn(T, "tomb"))
    BY <1>3, <2>2
  <2> QED
    BY <1>1, <2>3 DEF Counted, Filled
<1>11. ASSUME NEW h \in Key, NEW m \in Loc
       PROVE  Has(U, h, m) <=> Has(T, h, m) \/ (h = k /\ m = l)
  <2>1. ASSUME Has(U, h, m)
        PROVE  Has(T, h, m) \/ (h = k /\ m = l)
    BY <1>1, <1>3, <1>4, <2>1 DEF Has
  <2>2. ASSUME Has(T, h, m)
        PROVE  Has(U, h, m)
    BY <1>1, <1>4, <2>2 DEF Has
  <2>3. h = k /\ m = l => Has(U, h, m)
    BY <1>1, <1>2, <1>3, <1>4 DEF Has
  <2> QED
    BY <2>1, <2>2, <2>3
<1> QED
  BY <1>1, <1>5, <1>8, <1>9, <1>10, <1>11 DEF Sane

\* A slot keeps its key, and is given another location or made a tombstone.
Touched(T, U, i, s) ==
    /\ Shaped(U) /\ U.cap = T.cap /\ s \in Slot
    /\ U.slots = [T.slots EXCEPT ![i] = s]
    /\ s.key = T.slots[i].key
    /\ \/ s.state = "live" /\ s.loc \in Loc /\ U.count = T.count /\ U.tomb = T.tomb
       \/ s.state = "tomb" /\ U.count = T.count - 1 /\ U.tomb = T.tomb + 1

LEMMA TouchKeeps ==
    ASSUME Hashed, NEW T, Sane(T), NEW i \in SlotIds(T), T.slots[i].state = "live",
           NEW s, NEW U, Touched(T, U, i, s)
    PROVE  /\ Sane(U)
           /\ \A h \in Key, m \in Loc :
                Has(U, h, m) <=> IF h = T.slots[i].key THEN s.state = "live" /\ s.loc = m
                                 ELSE Has(T, h, m)
<1>1. /\ Shaped(T) /\ SlotsSane(T) /\ Reachable(T) /\ Once(T) /\ Counted(T)
      /\ Shaped(U) /\ U.cap = T.cap /\ SlotIds(U) = SlotIds(T)
      /\ s.state \in {"live", "tomb"} /\ s.key = T.slots[i].key /\ s \in Slot
      /\ s.state = "live" => s.loc \in Loc
  BY DEF Sane, Touched, SlotIds
<1>2. T.slots[i].key \in Key
  BY <1>1 DEF SlotsSane
<1>3. /\ U.slots[i] = s /\ \A j \in SlotIds(T) \ {i} : U.slots[j] = T.slots[j]
  BY <1>1 DEF Touched, Shaped
<1>4. SlotsSane(U)
  BY <1>1, <1>2, <1>3 DEF SlotsSane
<1>5. \A h, e : Probe(U, h, e) = Probe(T, h, e)
  BY <1>1 DEF Probe
<1>6. ASSUME NEW h \in Key, NEW e \in Nat, SlotAt(T, h, e).state # "empty"
      PROVE  SlotAt(U, h, e).state # "empty"
  <2>1. Probe(T, h, e) \in SlotIds(T)
    BY <1>1, Probes
  <2> QED
    BY <1>1, <1>3, <1>5, <1>6, <2>1 DEF SlotAt
<1>7. Reachable(U)
  <2> SUFFICES ASSUME NEW j \in SlotIds(T), U.slots[j].state = "live"
               PROVE  \E g \in SlotIds(T) :
                        /\ Probe(U, U.slots[j].key, g) = j
                        /\ \A e \in 0 .. g - 1 : SlotAt(U, U.slots[j].key, e).state # "empty"
    BY <1>1 DEF Reachable
  <2>1. U.slots[j].key = T.slots[j].key /\ T.slots[j].state = "live"
    BY <1>1, <1>3
  <2>2. T.slots[j].key \in Key
    BY <1>1, <2>1 DEF SlotsSane
  <2>3. PICK g \in SlotIds(T) :
          /\ Probe(T, T.slots[j].key, g) = j
          /\ \A e \in 0 .. g - 1 : SlotAt(T, T.slots[j].key, e).state # "empty"
    BY <1>1, <2>1 DEF Reachable
  <2>4. \A e \in 0 .. g - 1 : e \in Nat
    OBVIOUS
  <2> QED
    BY <1>5, <1>6, <2>1, <2>2, <2>3, <2>4
<1>8. Once(U)
  BY <1>1, <1>3 DEF Once
<1>9. Counted(U)
  <2>1. U.slots = [T.slots EXCEPT ![i] = s]
    BY DEF Touched
  <2>2. Cardinality(SlotsIn(U, "live")) =
          IF s.state = "live" THEN Cardinality(SlotsIn(T, "live"))
          ELSE Cardinality(SlotsIn(T, "live")) - 1
    BY <1>1, <2>1, CountMoves
  <2>3. Cardinality(SlotsIn(U, "tomb")) =
          IF s.state = "tomb" THEN Cardinality(SlotsIn(T, "tomb")) + 1
          ELSE Cardinality(SlotsIn(T, "tomb"))
    <3>1. T.slots[i].state # "tomb"
      OBVIOUS
    <3> QED
      BY <1>1, <2>1, <3>1, CountMoves
  <2> QED
    BY <1>1, <2>2, <2>3 DEF Counted, Touched
<1>10. ASSUME NEW h \in Key, NEW m \in Loc
       PROVE  Has(U, h, m) <=> IF h = T.slots[i].key THEN s.state = "live" /\ s.loc = m
                               ELSE Has(T, h, m)
  <2>1. CASE h = T.slots[i].key
    <3>1. \A j \in SlotIds(T) : U.slots[j].state = "live" /\ U.slots[j].key = h => j = i
      BY <1>1, <1>3, <2>1 DEF Once
    <3> QED
      BY <1>1, <1>3, <2>1, <3>1 DEF Has
  <2>2. CASE h # T.slots[i].key
    BY <1>1, <1>3, <2>2 DEF Has
  <2> QED
    BY <2>1, <2>2
<1> QED
  BY <1>1, <1>4, <1>7, <1>8, <1>9, <1>10 DEF Sane

-----------------------------------------------------------------------------
(* Rehashing. *)

LEMMA ReinsertKeeps ==
    ASSUME Hashed, NEW U, Sane(U), Room(U), NEW k \in Key, NEW l \in Loc,
           NEW s, s = LiveSlot(k, l), \A j \in SlotIds(U) : ~Holds(U.slots[j], k)
    PROVE  /\ Sane(Reinsert(U, s))
           /\ Reinsert(U, s).cap = U.cap /\ Reinsert(U, s).tomb = U.tomb
           /\ Reinsert(U, s).count = U.count + 1
           /\ \A h \in Key, m \in Loc : Has(Reinsert(U, s), h, m) <=> Has(U, h, m) \/ (h = k /\ m = l)
<1> DEFINE free == { d \in 0 .. U.cap - 1 : SlotAt(U, k, d).state = "empty" }
           d == Min(free)
           i == Probe(U, k, d)
           R == Reinsert(U, s)
<1>1. Shaped(U) /\ U.cap \in Nat /\ SlotIds(U) = 0 .. U.cap - 1
  BY DEF Sane, Shaped, SlotIds
<1>2. d \in free /\ \A e \in free : d <= e
  <2>1. PICK j \in SlotsIn(U, "empty") : TRUE
    BY RoomIsEmptySlot
  <2>2. j \in SlotIds(U) /\ U.slots[j].state = "empty"
    BY <2>1 DEF SlotsIn, SlotIds
  <2>3. PICK e \in SlotIds(U) : Probe(U, k, e) = j
    BY <1>1, <2>2, Probes
  <2>4. e \in free
    BY <1>1, <2>2, <2>3 DEF SlotAt
  <2>5. free \in SUBSET Nat
    BY <1>1
  <2> HIDE DEF free
  <2> QED
    BY <2>4, <2>5, MinIs
<1>3. s.key = k
  BY DEF LiveSlot
<1>4. R = [U EXCEPT !.slots[i] = s, !.count = @ + 1]
  BY <1>3 DEF Reinsert
<1> HIDE DEF d
<1>5. /\ d \in SlotIds(U) /\ d \in Nat /\ SlotAt(U, k, d).state = "empty"
      /\ \A e \in 0 .. d - 1 : SlotAt(U, k, e).state # "empty"
  <2>1. d \in 0 .. U.cap - 1 /\ SlotAt(U, k, d).state = "empty"
    BY <1>2
  <2>2. ASSUME NEW e \in 0 .. d - 1
        PROVE  SlotAt(U, k, e).state # "empty"
    <3>1. e \in 0 .. U.cap - 1 /\ ~(d <= e)
      BY <1>1, <2>1, <2>2
    <3> QED
      BY <1>2, <3>1
  <2> QED
    BY <1>1, <2>1, <2>2
<1>6. i \in SlotIds(U) /\ U.slots[i].state = "empty"
  BY <1>1, <1>5, Probes DEF SlotAt
<1> HIDE DEF i, R
<1>7. s \in Slot
  BY DEF LiveSlot, Slot
<1>8. Filled(U, R, i, k, l)
  <2>1. /\ U.slots \in [SlotIds(U) -> Slot] /\ U.count \in Nat /\ U.tomb \in Nat /\ U.cap \in Nat \ {0}
        /\ U = [cap |-> U.cap, slots |-> U.slots, count |-> U.count, tomb |-> U.tomb]
    BY <1>1 DEF Shaped
  <2>2. R = [cap |-> U.cap, slots |-> [U.slots EXCEPT ![i] = s], count |-> U.count + 1, tomb |-> U.tomb]
    BY <1>4, <2>1
  <2>3. [U.slots EXCEPT ![i] = s] \in [SlotIds(U) -> Slot]
    BY <1>7, <2>1
  <2>4. Shaped(R)
    BY <2>1, <2>2, <2>3 DEF Shaped, SlotIds
  <2> QED
    BY <1>6, <2>2, <2>4 DEF Filled
<1>9. i = Probe(U, k, d) /\ U.slots[i].state # "live"
  BY <1>6 DEF i
<1>10. /\ Sane(R)
       /\ \A h \in Key, m \in Loc : Has(R, h, m) <=> Has(U, h, m) \/ (h = k /\ m = l)
  BY <1>5, <1>8, <1>9, FillKeeps
<1>11. R.cap = U.cap /\ R.tomb = U.tomb /\ R.count = U.count + 1
  BY <1>6, <1>8 DEF Filled
<1> QED
  BY <1>10, <1>11 DEF R

\* One iteration of the loop over the slots of T.
Copied(T, U, i) == IF T.slots[i - 1].state = "live" THEN Reinsert(U, T.slots[i - 1]) ELSE U

Copying(f, T, n, m) == f = [i \in 0 .. m |-> IF i = 0 THEN NewTable(n) ELSE Copied(T, f[i - 1], i)]

\* The recursion that defines Rehash has a solution.
LEMMA CopyingExists ==
    ASSUME NEW T, NEW n
    PROVE  \A m \in Nat : \E f : Copying(f, T, n, m)
<1> DEFINE Bad == { m \in Nat : ~ \E f : Copying(f, T, n, m) }
<1>1. SUFFICES ASSUME Bad # {} PROVE FALSE
  OBVIOUS
<1>2. PICK m \in Bad : \A x \in Bad : m <= x
  <2>1. Bad \in SUBSET Nat
    OBVIOUS
  <2> HIDE DEF Bad
  <2> QED
    BY <1>1, <2>1, MinExists
<1>3. m \in Nat /\ ~ \E f : Copying(f, T, n, m)
  BY <1>2
<1>4. CASE m = 0
  <2> DEFINE f == [i \in 0 .. m |-> NewTable(n)]
  <2>1. f = [i \in 0 .. m |-> IF i = 0 THEN NewTable(n) ELSE Copied(T, f[i - 1], i)]
    BY <1>4
  <2> QED
    BY <1>3, <2>1 DEF Copying
<1>5. CASE m # 0
  <2>1. m - 1 \in Nat /\ m - 1 \notin Bad
    BY <1>2, <1>3, <1>5
  <2>2. PICK g : Copying(g, T, n, m - 1)
    BY <2>1
  <2>3. g = [i \in 0 .. m - 1 |-> IF i = 0 THEN NewTable(n) ELSE Copied(T, g[i - 1], i)]
    BY <2>2 DEF Copying
  <2> DEFINE f == [i \in 0 .. m |-> IF i = m THEN Copied(T, g[m - 1], m) ELSE g[i]]
  <2>4. \A i \in 0 .. m - 1 : f[i] = g[i]
    BY <1>3
  <2>5. ASSUME NEW i \in 0 .. m
        PROVE  f[i] = IF i = 0 THEN NewTable(n) ELSE Copied(T, f[i - 1], i)
    <3>1. CASE i = 0
      BY <1>3, <1>5, <2>3, <2>4, <3>1
    <3>2. CASE i # 0 /\ i # m
      <4>1. i \in 0 .. m - 1 /\ i - 1 \in 0 .. m - 1
        BY <1>3, <3>2
      <4>2. g[i] = Copied(T, g[i - 1], i)
        BY <2>3, <3>2, <4>1
      <4> QED
        BY <2>4, <3>2, <4>1, <4>2
    <3>3. CASE i = m
      <4>1. m - 1 \in 0 .. m - 1 /\ m \in 0 .. m
        BY <1>3, <1>5
      <4> QED
        BY <1>5, <2>4, <3>3, <4>1
    <3> QED
      BY <3>1, <3>2, <3>3
  <2>6. f = [i \in 0 .. m |-> f[i]]
    OBVIOUS
  <2> HIDE DEF f
  <2>7. f = [i \in 0 .. m |-> IF i = 0 THEN NewTable(n) ELSE Copied(T, f[i - 1], i)]
    BY <2>5, <2>6
  <2> QED
    BY <1>3, <2>7 DEF Copying
<1> QED
  BY <1>4, <1>5

LEMMA RehashCopies ==
    ASSUME NEW T, T.cap \in Nat, NEW n
    PROVE  \E f : Copying(f, T, n, T.cap) /\ Rehash(T, n) = f[T.cap]
<1> DEFINE f == CHOOSE upTo : upTo = [i \in 0 .. T.cap |->
                  IF i = 0 THEN NewTable(n)
                  ELSE IF T.slots[i - 1].state = "live" THEN Reinsert(upTo[i - 1], T.slots[i - 1])
                  ELSE upTo[i - 1]]
<1>1. Rehash(T, n) = f[T.cap]
  BY DEF Rehash
<1>2. \E g : Copying(g, T, n, T.cap)
  BY CopyingExists
<1>3. \E g : g = [i \in 0 .. T.cap |->
                  IF i = 0 THEN NewTable(n)
                  ELSE IF T.slots[i - 1].state = "live" THEN Reinsert(g[i - 1], T.slots[i - 1])
                  ELSE g[i - 1]]
  BY <1>2 DEF Copying, Copied
<1>4. f = [i \in 0 .. T.cap |->
                  IF i = 0 THEN NewTable(n)
                  ELSE IF T.slots[i - 1].state = "live" THEN Reinsert(f[i - 1], T.slots[i - 1])
                  ELSE f[i - 1]]
  BY <1>3
<1> HIDE DEF f
<1>5. Copying(f, T, n, T.cap)
  BY <1>4 DEF Copying, Copied
<1> QED
  BY <1>1, <1>5

LiveBelow(T, i) == { j \in 0 .. i - 1 : T.slots[j].state = "live" }

\* U is what the loop over T has made of a new table of n slots when i slots are done.
CopiedUpTo(T, n, U, i) ==
    /\ Sane(U) /\ U.cap = n /\ U.tomb = 0 /\ U.count = Cardinality(LiveBelow(T, i))
    /\ \A h \in Key, m \in Loc :
         Has(U, h, m) <=> \E j \in LiveBelow(T, i) : T.slots[j].key = h /\ T.slots[j].loc = m

LEMMA NewTableIsCopy ==
    ASSUME NEW T, NEW n \in Nat \ {0}
    PROVE  CopiedUpTo(T, n, NewTable(n), 0)
<1> DEFINE N == NewTable(n)
<1>1. /\ N.cap = n /\ N.count = 0 /\ N.tomb = 0 /\ SlotIds(N) = 0 .. n - 1
      /\ N.slots = [i \in 0 .. n - 1 |-> EmptySlot]
      /\ N = [cap |-> N.cap, slots |-> N.slots, count |-> N.count, tomb |-> N.tomb]
  BY DEF NewTable, SlotIds
<1> HIDE DEF N
<1>2. EmptySlot \in Slot /\ EmptySlot.state = "empty" /\ EmptySlot.loc = NoLoc
  BY DEF EmptySlot, Slot
<1>3. \A i \in SlotIds(N) : N.slots[i] = EmptySlot
  BY <1>1
<1>4. Shaped(N)
  BY <1>1, <1>2 DEF Shaped
<1>5. SlotsSane(N) /\ Reachable(N) /\ Once(N)
  BY <1>2, <1>3 DEF SlotsSane, Reachable, Once
<1>6. SlotsIn(N, "live") = {} /\ SlotsIn(N, "tomb") = {}
  BY <1>2, <1>3 DEF SlotsIn, SlotIds
<1>7. Counted(N)
  BY <1>1, <1>6, FS_EmptySet DEF Counted
<1>8. LiveBelow(T, 0) = {}
  BY DEF LiveBelow
<1>9. \A h, m : ~Has(N, h, m)
  BY <1>2, <1>3 DEF Has
<1> QED
  BY <1>1, <1>4, <1>5, <1>7, <1>8, <1>9, FS_EmptySet DEF Sane, CopiedUpTo, N

LEMMA CopyStep ==
    ASSUME Hashed, NEW T, Sane(T), NEW n \in Nat \ {0}, T.count < n, NEW i \in 1 .. T.cap,
           NEW U, CopiedUpTo(T, n, U, i - 1)
    PROVE  CopiedUpTo(T, n, Copied(T, U, i), i)
<1> DEFINE s == T.slots[i - 1]
           L == LiveBelow(T, i - 1)
<1>1. /\ Shaped(T) /\ SlotsSane(T) /\ Once(T) /\ Counted(T) /\ T.cap \in Nat
      /\ i - 1 \in SlotIds(T) /\ i \in Nat /\ SlotIds(T) = 0 .. T.cap - 1
      /\ T.slots \in [SlotIds(T) -> Slot]
  BY DEF Sane, Shaped, SlotIds
<1>2. /\ Sane(U) /\ U.cap = n /\ U.tomb = 0 /\ U.count = Cardinality(L)
      /\ \A h \in Key, m \in Loc :
           Has(U, h, m) <=> \E j \in L : T.slots[j].key = h /\ T.slots[j].loc = m
  BY DEF CopiedUpTo
<1>3. CASE s.state # "live"
  <2>1. LiveBelow(T, i) = L
    BY <1>1, <1>3 DEF LiveBelow
  <2>2. Copied(T, U, i) = U
    BY <1>3 DEF Copied
  <2> HIDE DEF L
  <2> QED
    BY <1>2, <2>1, <2>2 DEF CopiedUpTo
<1>4. CASE s.state = "live"
  <2>1. s.key \in Key /\ s.loc \in Loc /\ s \in Slot
    BY <1>1, <1>4 DEF SlotsSane
  <2>2. s = LiveSlot(s.key, s.loc)
    BY <1>4, <2>1 DEF Slot, LiveSlot
  <2>3. /\ LiveBelow(T, i) = L \cup {i - 1} /\ i - 1 \notin L
        /\ L \subseteq SlotsIn(T, "live") /\ i - 1 \in SlotsIn(T, "live")
    BY <1>1, <1>4 DEF LiveBelow, SlotsIn
  <2>4. /\ IsFiniteSet(L) /\ Cardinality(LiveBelow(T, i)) = Cardinality(L) + 1
        /\ Cardinality(LiveBelow(T, i)) <= T.count
    <3>1. IsFiniteSet(SlotsIn(T, "live")) /\ T.count = Cardinality(SlotsIn(T, "live"))
      BY <1>1, SlotSetsFinite DEF Counted
    <3>2. IsFiniteSet(L) /\ LiveBelow(T, i) \subseteq SlotsIn(T, "live")
      BY <2>3, <3>1, FS_Subset
    <3>3. Cardinality(L \cup {i - 1}) = Cardinality(L) + 1
      BY <2>3, <3>2, FS_AddElement
    <3>4. Cardinality(LiveBelow(T, i)) <= Cardinality(SlotsIn(T, "live"))
      BY <3>1, <3>2, FS_Subset
    <3> QED
      BY <2>3, <3>1, <3>2, <3>3, <3>4
  <2>5. Room(U)
    <3>1. Cardinality(L) \in Nat /\ T.count \in Nat
      BY <1>1, <2>4, FS_CardinalityType DEF Shaped
    <3> HIDE DEF L
    <3> QED
      BY <1>2, <2>4, <3>1 DEF Room
  <2>6. \A j \in SlotIds(U) : ~Holds(U.slots[j], s.key)
    <3> SUFFICES ASSUME NEW j \in SlotIds(U), Holds(U.slots[j], s.key) PROVE FALSE
      OBVIOUS
    <3>1. U.slots[j].state = "live" /\ U.slots[j].key = s.key
      BY DEF Holds
    <3>2. U.slots[j].loc \in Loc
      BY <1>2, <3>1 DEF Sane, SlotsSane
    <3>3. Has(U, s.key, U.slots[j].loc)
      BY <3>1 DEF Has
    <3>4. PICK g \in L : T.slots[g].key = s.key
      BY <1>2, <2>1, <3>2, <3>3
    <3>5. g \in SlotIds(T) /\ T.slots[g].state = "live"
      BY <1>1, <2>3, <3>4 DEF SlotsIn, LiveBelow
    <3>6. g = i - 1
      BY <1>1, <1>4, <3>4, <3>5 DEF Once
    <3> QED
      BY <2>3, <3>4, <3>6
  <2>7. Copied(T, U, i) = Reinsert(U, s)
    BY <1>4 DEF Copied
  <2> DEFINE R == Reinsert(U, s)
             k == s.key
             l == s.loc
  <2>8. /\ Sane(R) /\ R.cap = U.cap /\ R.tomb = U.tomb /\ R.count = U.count + 1
        /\ \A h \in Key, m \in Loc : Has(R, h, m) <=> Has(U, h, m) \/ (h = k /\ m = l)
    <3>1. Sane(U) /\ Room(U) /\ k \in Key /\ l \in Loc /\ s = LiveSlot(k, l)
          /\ \A j \in SlotIds(U) : ~Holds(U.slots[j], k)
      BY <1>2, <2>1, <2>2, <2>5, <2>6
    <3> HIDE DEF k, l, s
    <3> QED
      BY <3>1, ReinsertKeeps
  <2>9. ASSUME NEW h \in Key, NEW m \in Loc
        PROVE  Has(R, h, m) <=> \E j \in LiveBelow(T, i) : T.slots[j].key = h /\ T.slots[j].loc = m
    <3>1. Has(U, h, m) <=> \E j \in L : T.slots[j].key = h /\ T.slots[j].loc = m
      BY <1>2
    <3>2. Has(R, h, m) <=> Has(U, h, m) \/ (h = k /\ m = l)
      BY <2>8
    <3> HIDE DEF L, R
    <3> QED
      BY <2>3, <3>1, <3>2
  <2>10. R.cap = n /\ R.tomb = 0 /\ R.count = Cardinality(LiveBelow(T, i))
    BY <1>2, <2>4, <2>8
  <2> HIDE DEF R
  <2> QED
    BY <2>7, <2>8, <2>9, <2>10 DEF CopiedUpTo, R
<1> QED
  BY <1>3, <1>4

\* A rehash keeps the entries and drops the tombstones.
LEMMA RehashKeeps ==
    ASSUME Hashed, NEW T, Sane(T), NEW n \in Nat \ {0}, T.count < n
    PROVE  /\ Sane(Rehash(T, n)) /\ Rehash(T, n).cap = n
           /\ Rehash(T, n).count = T.count /\ Rehash(T, n).tomb = 0
           /\ \A h \in Key, m \in Loc : Has(Rehash(T, n), h, m) <=> Has(T, h, m)
<1>1. T.cap \in Nat /\ Counted(T)
  BY DEF Sane, Shaped
<1>2. PICK f : Copying(f, T, n, T.cap) /\ Rehash(T, n) = f[T.cap]
  BY <1>1, RehashCopies
<1>3. \A i \in 0 .. T.cap : f[i] = IF i = 0 THEN NewTable(n) ELSE Copied(T, f[i - 1], i)
  BY <1>2 DEF Copying
<1> DEFINE Bad == { i \in 0 .. T.cap : ~CopiedUpTo(T, n, f[i], i) }
<1>4. Bad = {}
  <2> SUFFICES ASSUME Bad # {} PROVE FALSE
    OBVIOUS
  <2>1. PICK m \in Bad : \A x \in Bad : m <= x
    <3>1. Bad \in SUBSET Nat
      BY <1>1
    <3> HIDE DEF Bad
    <3> QED
      BY <3>1, MinExists
  <2>2. m \in 0 .. T.cap /\ ~CopiedUpTo(T, n, f[m], m)
    BY <2>1
  <2>3. m # 0
    <3>1. 0 \in 0 .. T.cap
      BY <1>1
    <3>2. f[0] = NewTable(n)
      BY <1>3, <3>1
    <3>3. CopiedUpTo(T, n, f[0], 0)
      BY <3>2, NewTableIsCopy
    <3> QED
      BY <2>2, <3>3
  <2>4. m - 1 \in 0 .. T.cap /\ m - 1 \notin Bad /\ m \in 1 .. T.cap
    BY <1>1, <2>1, <2>2, <2>3
  <2>5. CopiedUpTo(T, n, f[m - 1], m - 1)
    BY <2>4
  <2> HIDE DEF Bad
  <2>6. CopiedUpTo(T, n, Copied(T, f[m - 1], m), m)
    BY <2>4, <2>5, CopyStep
  <2> QED
    BY <1>3, <2>2, <2>3, <2>6
<1>5. CopiedUpTo(T, n, Rehash(T, n), T.cap)
  <2>1. T.cap \in 0 .. T.cap
    BY <1>1
  <2> QED
    BY <1>2, <1>4, <2>1
<1>6. LiveBelow(T, T.cap) = SlotsIn(T, "live")
  BY DEF LiveBelow, SlotsIn
<1>7. \A h, m : Has(T, h, m) <=> \E j \in SlotsIn(T, "live") : T.slots[j].key = h /\ T.slots[j].loc = m
  BY DEF Has, SlotsIn, SlotIds
<1> QED
  BY <1>1, <1>5, <1>6, <1>7 DEF CopiedUpTo, Counted

LEMMA ProductOrder ==
    ASSUME NEW a \in Nat, NEW b \in Nat, NEW c \in Nat, a <= b
    PROVE  a * c <= b * c
<1>1. PICK e \in Nat : b = a + e
  <2>1. b - a \in Nat /\ b = a + (b - a)
    OBVIOUS
  <2> QED
    BY <2>1
<1>2. b * c = a * c + e * c /\ e * c \in Nat /\ a * c \in Nat
  BY <1>1
<1> QED
  BY <1>2

\* Below its load factor, a table has two slots to spare.
LEMMA LoadFactorLeavesRoom ==
    ASSUME NEW a \in Nat, NEW n \in Nat, InitialSlots <= n
    PROVE  /\ InitialSlots >= 2
           /\ a * LoadDen < LoadNum * n => a + 1 < n
<1>1. /\ InitialSlots \in Nat \ {0} /\ LoadNum \in Nat \ {0} /\ LoadDen \in Nat /\ LoadNum < LoadDen
      /\ LoadDen <= InitialSlots * (LoadDen - LoadNum)
  BY SizeAssumption
<1> DEFINE F == LoadDen - LoadNum
<1>2. F \in Nat /\ LoadDen = LoadNum + F /\ LoadDen <= InitialSlots * F
  BY <1>1
<1> HIDE DEF F
<1>3. InitialSlots # 1
  BY <1>1, <1>2
<1>4. InitialSlots * F <= n * F
  BY <1>1, <1>2, ProductOrder
<1>5. ASSUME a * LoadDen < LoadNum * n
      PROVE  a + 1 < n
  <2>1. n * LoadDen = LoadNum * n + n * F
    BY <1>1, <1>2
  <2>2. (a + 1) * LoadDen = a * LoadDen + LoadDen
    BY <1>1
  <2>3. /\ n * LoadDen \in Nat /\ LoadNum * n \in Nat /\ n * F \in Nat /\ InitialSlots * F \in Nat
        /\ a * LoadDen \in Nat /\ (a + 1) * LoadDen \in Nat
    BY <1>1, <1>2
  <2>4. (a + 1) * LoadDen < n * LoadDen
    BY <1>1, <1>2, <1>4, <1>5, <2>1, <2>2, <2>3
  <2>5. n <= a + 1 => n * LoadDen <= (a + 1) * LoadDen
    BY <1>1, ProductOrder
  <2> QED
    BY <2>3, <2>4, <2>5
<1> QED
  BY <1>1, <1>3, <1>5

LEMMA GrowTargetFits ==
    ASSUME NEW T, Sane(T), Room(T), InitialSlots <= T.cap
    PROVE  /\ GrowTarget(T) \in Nat \ {0} /\ T.count + 1 < GrowTarget(T)
           /\ GrowTarget(T) = T.cap \/ (GrowTarget(T) = 2 * T.cap /\ T.cap <= 2 * T.count)
<1>1. T.cap \in Nat /\ T.count \in Nat /\ T.tomb \in Nat /\ T.count + T.tomb < T.cap
  BY DEF Sane, Shaped, Room
<1>2. InitialSlots >= 2 /\ InitialSlots \in Nat
  BY <1>1, LoadFactorLeavesRoom, SizeAssumption
<1>3. CASE T.count * 2 >= T.cap
  <2>1. GrowTarget(T) = 2 * T.cap
    BY <1>3 DEF GrowTarget
  <2> QED
    BY <1>1, <1>2, <1>3, <2>1
<1>4. CASE ~(T.count * 2 >= T.cap)
  <2>1. GrowTarget(T) = T.cap
    BY <1>4 DEF GrowTarget
  <2> DEFINE c == T.count
             n == T.cap
  <2>2. c \in Nat /\ n \in Nat /\ n >= 2 /\ c * 2 < n
    BY <1>1, <1>2, <1>4
  <2> HIDE DEF c, n
  <2>3. n \in Nat \ {0} /\ c + 1 < n
    BY <2>2
  <2> QED
    BY <2>1, <2>3 DEF c, n
<1> QED
  BY <1>3, <1>4

\* What put starts from: the same entries, a free slot to fill and one more.
LEMMA MaybeRehashKeeps ==
    ASSUME Hashed, NEW T, Sane(T), Room(T), InitialSlots <= T.cap,
           NEW R, R = MaybeRehash(T)
    PROVE  /\ Sane(R) /\ R.count = T.count /\ R.count + R.tomb + 1 < R.cap
           /\ R.cap = T.cap \/ (R.cap = 2 * T.cap /\ T.cap <= 2 * T.count)
           /\ \A h \in Key, m \in Loc : Has(R, h, m) <=> Has(T, h, m)
<1>1. T.cap \in Nat /\ T.count \in Nat /\ T.tomb \in Nat
  BY DEF Sane, Shaped
<1>2. CASE Crowded(T)
  <2> DEFINE n == GrowTarget(T)
  <2>1. /\ n \in Nat \ {0} /\ T.count + 1 < n
        /\ n = T.cap \/ (n = 2 * T.cap /\ T.cap <= 2 * T.count)
    BY GrowTargetFits
  <2>2. R = Rehash(T, n)
    BY <1>2 DEF MaybeRehash
  <2> HIDE DEF n
  <2>3. T.count < n
    BY <1>1, <2>1
  <2>4. /\ Sane(R) /\ R.cap = n /\ R.count = T.count /\ R.tomb = 0
        /\ \A h \in Key, m \in Loc : Has(R, h, m) <=> Has(T, h, m)
    BY <2>1, <2>2, <2>3, RehashKeeps
  <2> QED
    BY <1>1, <2>1, <2>4
<1>3. CASE ~Crowded(T)
  <2>1. R = T
    BY <1>3 DEF MaybeRehash
  <2> DEFINE a == T.count + T.tomb
  <2>2. a \in Nat /\ a * LoadDen < LoadNum * T.cap
    BY <1>1, <1>3, SizeAssumption DEF Crowded
  <2> HIDE DEF a
  <2>3. a + 1 < T.cap
    BY <1>1, <2>2, LoadFactorLeavesRoom
  <2>4. T.count + T.tomb + 1 < T.cap
    BY <2>3 DEF a
  <2> QED
    BY <2>1, <2>4
<1> QED
  BY <1>2, <1>3

LEMMA TableForPutIs ==
    ASSUME Hashed, NEW T, Sane(T), Room(T), InitialSlots <= T.cap, NEW k \in Key
    PROVE  TableForPut(T, k) = MaybeRehash(T)
<1> DEFINE R == MaybeRehash(T)
<1>1. Sane(R) /\ R.count + R.tomb + 1 < R.cap
  BY MaybeRehashKeeps
<1> HIDE DEF R
<1>2. Room(R)
  BY <1>1 DEF Room, Sane, Shaped
<1>3. Ends(R, k) # {}
  BY <1>1, <1>2, SearchEnds
<1> QED
  BY <1>3 DEF TableForPut, R

-----------------------------------------------------------------------------
(* The operations. *)

\* A counter of a kind of slots that has a slot is not zero.
LEMMA CountIsPositive ==
    ASSUME NEW T, Shaped(T), NEW i \in SlotIds(T)
    PROVE  Cardinality(SlotsIn(T, T.slots[i].state)) # 0
<1> DEFINE A == SlotsIn(T, T.slots[i].state)
<1>1. i \in A
  BY DEF SlotsIn, SlotIds
<1>2. IsFiniteSet(A)
  BY SlotSetsFinite
<1> HIDE DEF A
<1>3. Cardinality(A) # 0
  BY <1>1, <1>2, FS_EmptySet
<1> QED
  BY <1>3 DEF A

LEMMA InsertKeeps ==
    ASSUME Hashed, NEW T, Sane(T), T.count + T.tomb + 1 < T.cap, NEW k \in Key, NEW l \in Loc,
           NEW U, U = Insert(T, k, l)
    PROVE  /\ Sane(U) /\ Room(U) /\ U.cap = T.cap
           /\ \A h \in Key, m \in Loc : Has(U, h, m) <=> IF h = k THEN m = l ELSE Has(T, h, m)
<1>1. /\ Shaped(T) /\ SlotsSane(T) /\ Once(T) /\ Counted(T)
      /\ T.cap \in Nat \ {0} /\ T.count \in Nat /\ T.tomb \in Nat /\ T.slots \in [SlotIds(T) -> Slot]
      /\ T = [cap |-> T.cap, slots |-> T.slots, count |-> T.count, tomb |-> T.tomb]
  BY DEF Sane, Shaped
<1>2. Room(T)
  BY <1>1 DEF Room
<1> DEFINE end == Min(Ends(T, k))
           i == Probe(T, k, end)
           reuse == Passed(T, k)
<1>3. end \in Ends(T, k) /\ \A d \in Ends(T, k) : end <= d
  BY <1>2, SearchEnds
<1>4. reuse = { d \in 0 .. end - 1 : SlotAt(T, k, d).state = "tomb" }
  BY DEF Passed
<1>5. U = IF Holds(SlotAt(T, k, end), k)
          THEN [T EXCEPT !.slots[i].loc = l]
          ELSE IF reuse = {}
          THEN [T EXCEPT !.slots[i] = LiveSlot(k, l), !.count = @ + 1]
          ELSE [T EXCEPT !.slots[Probe(T, k, Min(reuse))] = LiveSlot(k, l),
                         !.count = @ + 1, !.tomb = @ - 1]
  BY DEF Insert
<1> HIDE DEF end, reuse
<1>6. /\ end \in SlotIds(T) /\ end \in Nat /\ i \in SlotIds(T)
      /\ \/ Holds(SlotAt(T, k, end), k)
         \/ SlotAt(T, k, end).state = "empty" /\ \A j \in SlotIds(T) : ~Holds(T.slots[j], k)
      /\ \A e \in 0 .. end - 1 : SlotAt(T, k, e).state # "empty"
  BY <1>3, SearchFinds
<1>7. SlotAt(T, k, end) = T.slots[i] /\ LiveSlot(k, l) \in Slot
  BY DEF SlotAt, LiveSlot, Slot
<1>8. CASE Holds(T.slots[i], k)
  <2> HIDE DEF i
  <2> DEFINE s == [T.slots[i] EXCEPT !.loc = l]
  <2>1. T.slots[i].state = "live" /\ T.slots[i].key = k /\ T.slots[i] \in Slot
    BY <1>1, <1>6, <1>8 DEF Holds
  <2>2. s \in Slot /\ s.state = "live" /\ s.key = k /\ s.loc = l
    BY <2>1 DEF Slot
  <2>3. U = [T EXCEPT !.slots[i] = s]
    BY <1>5, <1>7, <1>8
  <2> HIDE DEF s
  <2>4. U = [cap |-> T.cap, slots |-> [T.slots EXCEPT ![i] = s], count |-> T.count, tomb |-> T.tomb]
    BY <1>1, <2>3
  <2>5. [T.slots EXCEPT ![i] = s] \in [SlotIds(T) -> Slot]
    BY <1>1, <2>2
  <2>6. Shaped(U)
    BY <1>1, <2>4, <2>5 DEF Shaped, SlotIds
  <2>7. Touched(T, U, i, s)
    BY <2>1, <2>2, <2>4, <2>6 DEF Touched
  <2>8. /\ Sane(U)
        /\ \A h \in Key, m \in Loc :
             Has(U, h, m) <=> IF h = T.slots[i].key THEN s.state = "live" /\ s.loc = m
                              ELSE Has(T, h, m)
    BY <1>6, <2>1, <2>7, TouchKeeps
  <2>9. Room(U) /\ U.cap = T.cap
    BY <1>2, <2>4 DEF Room
  <2> QED
    BY <2>1, <2>2, <2>8, <2>9
<1>9. CASE ~Holds(T.slots[i], k) /\ reuse = {}
  <2>1. T.slots[i].state = "empty" /\ \A j \in SlotIds(T) : ~Holds(T.slots[j], k)
    BY <1>6, <1>7, <1>9
  <2>2. U = [cap |-> T.cap, slots |-> [T.slots EXCEPT ![i] = LiveSlot(k, l)],
             count |-> T.count + 1, tomb |-> T.tomb]
    <3> HIDE DEF i
    <3> QED
      BY <1>1, <1>5, <1>7, <1>9
  <2>3. [T.slots EXCEPT ![i] = LiveSlot(k, l)] \in [SlotIds(T) -> Slot]
    <3> HIDE DEF i
    <3> QED
      BY <1>1, <1>7
  <2>4. Shaped(U)
    BY <1>1, <2>2, <2>3 DEF Shaped, SlotIds
  <2>5. Filled(T, U, i, k, l)
    BY <2>1, <2>2, <2>4 DEF Filled
  <2>6. T.slots[i].state # "live"
    BY <2>1
  <2>7. /\ Sane(U)
        /\ \A h \in Key, m \in Loc : Has(U, h, m) <=> Has(T, h, m) \/ (h = k /\ m = l)
    BY <1>6, <2>1, <2>5, <2>6, FillKeeps
  <2>8. \A m : ~Has(T, k, m)
    BY <2>1 DEF Has, Holds
  <2>9. Room(U) /\ U.cap = T.cap
    BY <1>1, <2>2 DEF Room
  <2> QED
    BY <2>7, <2>8, <2>9
<1>10. CASE ~Holds(T.slots[i], k) /\ reuse # {}
  <2> DEFINE d == Min(reuse)
             g == Probe(T, k, d)
  <2>1. d \in reuse
    <3>1. reuse \in SUBSET Nat
      BY <1>4, <1>6
    <3> QED
      BY <1>10, <3>1, MinIs
  <2> HIDE DEF d
  <2>2. d \in 0 .. end - 1 /\ SlotAt(T, k, d).state = "tomb"
    BY <1>4, <2>1
  <2>3. d \in SlotIds(T) /\ d \in Nat /\ \A e \in 0 .. d - 1 : SlotAt(T, k, e).state # "empty"
    <3>1. end \in 0 .. T.cap - 1
      BY <1>6 DEF SlotIds
    <3>2. d \in 0 .. T.cap - 1 /\ d \in Nat /\ \A e \in 0 .. d - 1 : e \in 0 .. end - 1
      BY <1>1, <1>6, <2>2, <3>1
    <3> QED
      BY <1>6, <3>2 DEF SlotIds
  <2>4. g \in SlotIds(T) /\ T.slots[g].state = "tomb"
    BY <1>1, <2>2, <2>3, Probes DEF SlotAt
  <2>5. U = [T EXCEPT !.slots[g] = LiveSlot(k, l), !.count = @ + 1, !.tomb = @ - 1]
    BY <1>5, <1>7, <1>10 DEF d
  <2>6. T.tomb - 1 \in Nat
    <3>1. Cardinality(SlotsIn(T, "tomb")) # 0
      BY <1>1, <2>4, CountIsPositive
    <3> QED
      BY <1>1, <3>1 DEF Counted
  <2>7. U = [cap |-> T.cap, slots |-> [T.slots EXCEPT ![g] = LiveSlot(k, l)],
             count |-> T.count + 1, tomb |-> T.tomb - 1]
    <3> HIDE DEF g
    <3> QED
      BY <1>1, <2>5
  <2>8. [T.slots EXCEPT ![g] = LiveSlot(k, l)] \in [SlotIds(T) -> Slot]
    <3> HIDE DEF g
    <3> QED
      BY <1>1, <1>7
  <2>9. Shaped(U)
    BY <1>1, <2>6, <2>7, <2>8 DEF Shaped, SlotIds
  <2>10. Filled(T, U, g, k, l)
    BY <2>4, <2>7, <2>9 DEF Filled
  <2>11. T.slots[g].state # "live" /\ \A j \in SlotIds(T) : ~Holds(T.slots[j], k)
    BY <1>6, <1>7, <1>10, <2>4
  <2>12. /\ Sane(U)
         /\ \A h \in Key, m \in Loc : Has(U, h, m) <=> Has(T, h, m) \/ (h = k /\ m = l)
    BY <2>3, <2>10, <2>11, FillKeeps
  <2>13. \A m : ~Has(T, k, m)
    BY <2>11 DEF Has, Holds
  <2>14. Room(U) /\ U.cap = T.cap
    BY <1>1, <1>2, <2>7 DEF Room
  <2> QED
    BY <2>12, <2>13, <2>14
<1> QED
  BY <1>8, <1>9, <1>10

LEMMA RemovedKeeps ==
    ASSUME Hashed, NEW T, Sane(T), Room(T), NEW k \in Key,
           NEW i \in SlotIds(T), Holds(T.slots[i], k), NEW U, U = Removed(T, i)
    PROVE  /\ Sane(U) /\ Room(U) /\ U.cap = T.cap /\ U.count <= T.count
           /\ \A h \in Key, m \in Loc : Has(U, h, m) <=> h # k /\ Has(T, h, m)
<1>1. /\ Shaped(T) /\ Counted(T)
      /\ T.cap \in Nat \ {0} /\ T.count \in Nat /\ T.tomb \in Nat /\ T.slots \in [SlotIds(T) -> Slot]
      /\ T = [cap |-> T.cap, slots |-> T.slots, count |-> T.count, tomb |-> T.tomb]
      /\ T.slots[i].state = "live" /\ T.slots[i].key = k /\ T.slots[i] \in Slot
  BY DEF Sane, Shaped, Holds
<1> DEFINE s == [T.slots[i] EXCEPT !.state = "tomb"]
<1>2. s \in Slot /\ s.state = "tomb" /\ s.key = k
  BY <1>1 DEF Slot
<1>3. U = [T EXCEPT !.slots[i] = s, !.count = @ - 1, !.tomb = @ + 1]
  BY <1>1 DEF Removed
<1> HIDE DEF s
<1>4. U = [cap |-> T.cap, slots |-> [T.slots EXCEPT ![i] = s], count |-> T.count - 1, tomb |-> T.tomb + 1]
  BY <1>1, <1>3
<1>5. [T.slots EXCEPT ![i] = s] \in [SlotIds(T) -> Slot]
  BY <1>1, <1>2
<1>6. T.count - 1 \in Nat
  <2>1. Cardinality(SlotsIn(T, "live")) # 0
    BY <1>1, CountIsPositive
  <2> QED
    BY <1>1, <2>1 DEF Counted
<1>7. Shaped(U)
  BY <1>1, <1>4, <1>5, <1>6 DEF Shaped, SlotIds
<1>8. Touched(T, U, i, s)
  BY <1>1, <1>2, <1>4, <1>7 DEF Touched
<1>9. /\ Sane(U)
      /\ \A h \in Key, m \in Loc :
           Has(U, h, m) <=> IF h = T.slots[i].key THEN s.state = "live" /\ s.loc = m
                            ELSE Has(T, h, m)
  BY <1>1, <1>8, TouchKeeps
<1>10. Room(U) /\ U.cap = T.cap /\ U.count <= T.count
  BY <1>1, <1>4 DEF Room
<1> QED
  BY <1>1, <1>2, <1>9, <1>10

-----------------------------------------------------------------------------
(* The invariant. *)

\* The table and the map agree.
Agrees == \A k \in Key, l \in Loc : Has(table, k, l) <=> map[k] = l

IInv ==
    /\ Hashed
    /\ Sane(table)
    /\ Room(table)
    /\ table.cap \in InitialSlots .. MaxSlots
    /\ map \in [Key -> Loc \cup {NoLoc}]
    /\ prev \in Loc \cup {NoLoc}
    /\ peak \in Nat /\ table.count <= peak
    /\ ChurnDoesNotGrow
    /\ Agrees

\* What get answers is what the map holds.
LEMMA AnswersAgree ==
    ASSUME IInv, NEW k \in Key
    PROVE  Lookup(table, k) = map[k]
<1>1. /\ \A l \in Loc : Has(table, k, l) <=> Lookup(table, k) = l
      /\ Lookup(table, k) \in Loc \cup {NoLoc}
  BY LookupFinds DEF IInv
<1>2. \A l \in Loc : Has(table, k, l) <=> map[k] = l
  BY DEF IInv, Agrees
<1>3. map[k] \in Loc \cup {NoLoc} /\ NoLoc \notin Loc
  BY KeyAssumption DEF IInv
<1> QED
  BY <1>1, <1>2, <1>3

LEMMA InitInv == Init => IInv
<1> SUFFICES ASSUME Init PROVE IInv
  OBVIOUS
<1>1. /\ Hashed /\ table = NewTable(InitialSlots)
      /\ prev = NoLoc /\ map = [k \in Key |-> NoLoc] /\ peak = 0
  BY DEF Init, Hashed
<1>2. InitialSlots \in Nat \ {0} /\ InitialSlots \in InitialSlots .. MaxSlots
  BY SizeAssumption
<1> DEFINE E == NewTable(InitialSlots)
<1>3. CopiedUpTo(E, InitialSlots, E, 0)
  BY <1>2, NewTableIsCopy
<1>4. E.cap = InitialSlots /\ E.count = 0 /\ E.tomb = 0
  BY DEF NewTable
<1>5. LiveBelow(E, 0) = {}
  BY DEF LiveBelow
<1>6. Sane(table) /\ \A h \in Key, m \in Loc : ~Has(table, h, m)
  BY <1>1, <1>3, <1>5 DEF CopiedUpTo
<1>7. table.cap = InitialSlots /\ table.count = 0 /\ table.tomb = 0
  BY <1>1, <1>4
<1>8. Room(table)
  BY <1>2, <1>7 DEF Room
<1>9. Agrees
  BY <1>1, <1>6, KeyAssumption DEF Agrees
<1>10. ChurnDoesNotGrow
  BY <1>2, <1>7 DEF ChurnDoesNotGrow
<1> QED
  BY <1>1, <1>2, <1>6, <1>7, <1>8, <1>9, <1>10 DEF IInv

\* The hash function stays, so a new table is in the next state what it was made.
LEMMA Carries ==
    ASSUME hash' = hash, NEW U, table' = U
    PROVE  /\ Hashed => Hashed'
           /\ Sane(U) => Sane(table)'
           /\ Room(U) => Room(table)'
           /\ \A h, m : Has(table, h, m)' <=> Has(U, h, m)
<1>1. Hashed => Hashed'
  BY DEF Hashed
<1>2. Sane(U) => Sane(table)'
  <2>1. Shaped(U) => Shaped(table)'
    BY DEF Shaped, SlotIds
  <2>2. SlotsSane(U) => SlotsSane(table)'
    BY DEF SlotsSane, SlotIds
  <2>3. Reachable(U) => Reachable(table)'
    BY DEF Reachable, SlotIds, SlotAt, Probe
  <2>4. Once(U) => Once(table)'
    BY DEF Once, SlotIds
  <2>5. Counted(U) => Counted(table)'
    BY DEF Counted, SlotsIn, SlotIds
  <2> QED
    BY <2>1, <2>2, <2>3, <2>4, <2>5 DEF Sane
<1>3. Room(U) => Room(table)'
  BY DEF Room
<1>4. \A h, m : Has(table, h, m)' <=> Has(U, h, m)
  BY DEF Has, SlotIds
<1> QED
  BY <1>1, <1>2, <1>3, <1>4

LEMMA PutKeepsInv ==
    ASSUME IInv, NEW k \in Key, NEW l \in Loc, Put(k, l)
    PROVE  IInv' /\ prev' = map[k]
<1> DEFINE R == MaybeRehash(table)
           U == Insert(R, k, l)
<1>1. /\ Hashed /\ Sane(table) /\ Room(table) /\ table.cap \in InitialSlots .. MaxSlots
      /\ map \in [Key -> Loc \cup {NoLoc}] /\ peak \in Nat /\ table.count <= peak
      /\ ChurnDoesNotGrow /\ Agrees
  BY DEF IInv
<1>2. InitialSlots \in Nat /\ MaxSlots \in Nat /\ InitialSlots <= table.cap
      /\ table.count \in Nat /\ table.tomb \in Nat /\ table.cap \in Nat
  BY <1>1, SizeAssumption DEF Sane, Shaped
<1>3. TableForPut(table, k) = R
  BY <1>1, <1>2, TableForPutIs
<1>4. /\ R.cap <= MaxSlots /\ table' = U /\ prev' = Lookup(R, k)
      /\ map' = [map EXCEPT ![k] = l] /\ peak' = Max({peak, table'.count}) /\ hash' = hash
  BY <1>3 DEF Put
<1>5. /\ Sane(R) /\ R.count = table.count /\ R.count + R.tomb + 1 < R.cap
      /\ R.cap = table.cap \/ (R.cap = 2 * table.cap /\ table.cap <= 2 * table.count)
      /\ \A h \in Key, m \in Loc : Has(R, h, m) <=> Has(table, h, m)
  BY <1>1, <1>2, MaybeRehashKeeps
<1> HIDE DEF R
<1>6. /\ Sane(U) /\ Room(U) /\ U.cap = R.cap
      /\ \A h \in Key, m \in Loc : Has(U, h, m) <=> IF h = k THEN m = l ELSE Has(R, h, m)
  BY <1>1, <1>5, InsertKeeps
<1>7. Room(R) /\ R.cap \in Nat
  BY <1>5 DEF Room, Sane, Shaped
<1>8. prev' = map[k]
  <2>1. /\ \A m \in Loc : Has(R, k, m) <=> Lookup(R, k) = m
        /\ Lookup(R, k) \in Loc \cup {NoLoc}
    BY <1>1, <1>5, <1>7, LookupFinds
  <2>2. \A m \in Loc : Has(R, k, m) <=> map[k] = m
    BY <1>1, <1>5 DEF Agrees
  <2>3. map[k] \in Loc \cup {NoLoc} /\ NoLoc \notin Loc
    BY <1>1, KeyAssumption
  <2> QED
    BY <1>4, <2>1, <2>2, <2>3
<1> HIDE DEF U
<1>9. /\ Hashed' /\ Sane(table)' /\ Room(table)'
      /\ \A h, m : Has(table, h, m)' <=> Has(U, h, m)
  BY <1>1, <1>4, <1>6, Carries
<1>10. Agrees'
  <2> SUFFICES ASSUME NEW h \in Key, NEW m \in Loc
               PROVE  Has(table, h, m)' <=> map'[h] = m
    BY DEF Agrees
  <2>1. Has(table, h, m) <=> map[h] = m
    BY <1>1 DEF Agrees
  <2>2. Has(table, h, m)' <=> IF h = k THEN m = l ELSE map[h] = m
    BY <1>5, <1>6, <1>9, <2>1
  <2>3. map'[h] = IF h = k THEN l ELSE map[h]
    BY <1>1, <1>4
  <2> QED
    BY <2>2, <2>3
<1>11. /\ U.count \in Nat /\ table'.count = U.count /\ table'.cap = R.cap
       /\ R.cap \in InitialSlots .. MaxSlots
  BY <1>2, <1>4, <1>5, <1>6, <1>7 DEF Sane, Shaped
<1>12. peak' \in Nat /\ peak <= peak' /\ table'.count <= peak'
  BY <1>1, <1>4, <1>11, MaxOfTwo
<1>13. ChurnDoesNotGrow'
  <2>1. table.cap <= InitialSlots \/ table.cap <= 4 * peak
    BY <1>1 DEF ChurnDoesNotGrow
  <2>2. R.cap <= InitialSlots \/ R.cap <= 4 * peak'
    <3>1. CASE R.cap = table.cap
      BY <1>1, <1>2, <1>12, <2>1, <3>1
    <3>2. CASE R.cap = 2 * table.cap /\ table.cap <= 2 * table.count
      BY <1>1, <1>2, <1>12, <3>2
    <3> QED
      BY <1>5, <3>1, <3>2
  <2> QED
    BY <1>11, <2>2 DEF ChurnDoesNotGrow
<1>14. map' \in [Key -> Loc \cup {NoLoc}] /\ prev' \in Loc \cup {NoLoc}
  BY <1>1, <1>4, <1>8
<1> QED
  BY <1>8, <1>9, <1>10, <1>11, <1>12, <1>13, <1>14 DEF IInv

LEMMA DeleteKeepsInv ==
    ASSUME IInv, NEW k \in Key, Delete(k)
    PROVE  IInv' /\ prev' = map[k]
<1> DEFINE end == Min(Ends(table, k))
           i == Probe(table, k, end)
           U == IF Ends(table, k) # {} /\ Holds(SlotAt(table, k, end), k)
                THEN Removed(table, i) ELSE table
<1>1. /\ Hashed /\ Sane(table) /\ Room(table) /\ table.cap \in InitialSlots .. MaxSlots
      /\ map \in [Key -> Loc \cup {NoLoc}] /\ peak \in Nat /\ table.count <= peak
      /\ ChurnDoesNotGrow /\ Agrees
  BY DEF IInv
<1>2. /\ table' = U /\ prev' = Lookup(table, k)
      /\ map' = [map EXCEPT ![k] = NoLoc] /\ peak' = peak /\ hash' = hash
  BY DEF Delete
<1>3. prev' = map[k]
  BY <1>2, AnswersAgree
<1>4. /\ Ends(table, k) # {} /\ end \in Ends(table, k) /\ \A d \in Ends(table, k) : end <= d
  BY <1>1, SearchEnds
<1> HIDE DEF end
<1>5. /\ i \in SlotIds(table) /\ SlotAt(table, k, end) = table.slots[i]
      /\ \/ Holds(table.slots[i], k)
         \/ \A j \in SlotIds(table) : ~Holds(table.slots[j], k)
  BY <1>1, <1>4, SearchFinds DEF SlotAt
<1>6. U = IF Holds(table.slots[i], k) THEN Removed(table, i) ELSE table
  BY <1>4, <1>5
<1> HIDE DEF U, i
<1>7. /\ Sane(U) /\ Room(U) /\ U.cap = table.cap /\ U.count <= table.count
      /\ \A h \in Key, m \in Loc : Has(U, h, m) <=> h # k /\ Has(table, h, m)
  <2>1. CASE Holds(table.slots[i], k)
    <3>1. U = Removed(table, i)
      BY <1>6, <2>1
    <3> QED
      BY <1>1, <1>5, <2>1, <3>1, RemovedKeeps
  <2>2. CASE \A j \in SlotIds(table) : ~Holds(table.slots[j], k)
    <3>1. U = table
      BY <1>5, <1>6, <2>2
    <3>2. \A m : ~Has(table, k, m)
      BY <2>2 DEF Has, Holds
    <3>3. table.count <= table.count
      BY <1>1 DEF Sane, Shaped
    <3> QED
      BY <1>1, <3>1, <3>2, <3>3
  <2> QED
    BY <1>5, <2>1, <2>2
<1>8. /\ Hashed' /\ Sane(table)' /\ Room(table)'
      /\ \A h, m : Has(table, h, m)' <=> Has(U, h, m)
  BY <1>1, <1>2, <1>7, Carries
<1>9. Agrees'
  <2> SUFFICES ASSUME NEW h \in Key, NEW m \in Loc
               PROVE  Has(table, h, m)' <=> map'[h] = m
    BY DEF Agrees
  <2>1. Has(table, h, m) <=> map[h] = m
    BY <1>1 DEF Agrees
  <2>2. Has(table, h, m)' <=> h # k /\ map[h] = m
    BY <1>7, <1>8, <2>1
  <2>3. map'[h] = IF h = k THEN NoLoc ELSE map[h]
    BY <1>1, <1>2
  <2> QED
    BY <2>2, <2>3, KeyAssumption
<1>10. table'.cap = table.cap /\ table'.count <= peak'
  BY <1>1, <1>2, <1>7 DEF Sane, Shaped
<1>11. ChurnDoesNotGrow'
  BY <1>1, <1>2, <1>10 DEF ChurnDoesNotGrow
<1>12. map' \in [Key -> Loc \cup {NoLoc}] /\ prev' \in Loc \cup {NoLoc} /\ peak' \in Nat
  BY <1>1, <1>2, <1>3
<1> QED
  BY <1>1, <1>3, <1>8, <1>9, <1>10, <1>11, <1>12 DEF IInv

LEMMA StutterKeepsInv ==
    ASSUME IInv, UNCHANGED vars
    PROVE  IInv'
<1>1. hash' = hash /\ table' = table /\ prev' = prev /\ map' = map /\ peak' = peak
  BY DEF vars
<1>2. /\ Hashed' /\ Sane(table)' /\ Room(table)'
      /\ \A h, m : Has(table, h, m)' <=> Has(table, h, m)
  BY <1>1, Carries DEF IInv
<1>3. Agrees' /\ ChurnDoesNotGrow'
  BY <1>1, <1>2 DEF IInv, Agrees, ChurnDoesNotGrow
<1> QED
  BY <1>1, <1>2, <1>3 DEF IInv

LEMMA StepKeepsInv == IInv /\ [Next]_vars => IInv'
  BY PutKeepsInv, DeleteKeepsInv, StutterKeepsInv DEF Next

-----------------------------------------------------------------------------
(* The results. *)

\* The inductive invariant: the table is sane and has room, and it holds what the map
\* holds (index.go put, delete, rehash, reinsert).
THEOREM Invariance == Spec => []IInv
  BY InitInv, StepKeepsInv, PTL DEF Spec

\* The table and its counters keep their types, and the counters do not leave the
\* number of slots.
THEOREM TypeCorrect == Spec => []TypeOK
<1>1. IInv => TypeOK
  <2> SUFFICES ASSUME IInv PROVE TypeOK
    OBVIOUS
  <2>1. /\ table.cap \in Nat /\ table.count \in Nat /\ table.tomb \in Nat
        /\ table.count + table.tomb < table.cap
        /\ table.slots \in [0 .. table.cap - 1 ->
                              [state : {"empty", "live", "tomb"},
                               key : Key \cup {NoKey}, loc : Loc \cup {NoLoc}]]
    BY DEF IInv, Sane, Shaped, SlotIds, Slot, Room
  <2>2. table.count \in 0 .. table.cap /\ table.tomb \in 0 .. table.cap
    BY <2>1
  <2> QED
    BY <2>1, <2>2 DEF IInv, Hashed, TypeOK
<1> QED
  BY <1>1, Invariance, PTL

\* count and tomb are the numbers of live slots and of tombstones, after every put,
\* delete and rehash (index.go len, rehash: "catching any accounting drift").
THEOREM CountersAreExact == Spec => []CountsExact
<1>1. IInv => CountsExact
  BY DEF IInv, Sane, Counted, CountsExact
<1> QED
  BY <1>1, Invariance, PTL

\* A slot is empty at all times, in a rehashed table too, so the loops of get, put,
\* delete and reinsert, which stop at nothing else for an absent key, end
\* (index.go get, put, reinsert).
THEOREM RoomIsLeft == Spec => []AlwaysRoom
<1>1. IInv => AlwaysRoom
  <2> SUFFICES ASSUME IInv PROVE AlwaysRoom
    OBVIOUS
  <2>1. Hashed /\ Sane(table) /\ Room(table) /\ InitialSlots <= table.cap
    BY SizeAssumption DEF IInv
  <2>2. SlotsIn(table, "empty") # {}
    BY <2>1, RoomIsEmptySlot
  <2> DEFINE n == GrowTarget(table)
             R == Rehash(table, n)
  <2>3. n \in Nat \ {0} /\ table.count + 1 < n /\ table.count \in Nat
    BY <2>1, GrowTargetFits DEF Sane, Shaped
  <2>4. table.count < n
    BY <2>3
  <2> HIDE DEF n
  <2>5. Sane(R) /\ R.cap = n /\ R.count = table.count /\ R.tomb = 0
    BY <2>1, <2>3, <2>4, RehashKeeps
  <2>6. Room(R)
    BY <2>3, <2>4, <2>5 DEF Room
  <2>7. SlotsIn(R, "empty") # {}
    BY <2>5, <2>6, RoomIsEmptySlot
  <2> QED
    BY <2>2, <2>7 DEF AlwaysRoom, n
<1> QED
  BY <1>1, Invariance, PTL

\* No two slots hold the same key, although a put may fill a tombstone far before the
\* key's own slot (index.go put, forEach).
THEOREM KeysAreOnce == Spec => []KeysOnce
<1>1. IInv => KeysOnce
  BY DEF IInv, Sane, Once, KeysOnce, SlotsIn, SlotIds
<1> QED
  BY <1>1, Invariance, PTL

\* However often keys come and go, the table stays within four times the entries it
\* ever held (index.go maybeRehash, growTargetCapacity).
THEOREM ChurnStaysSmall == Spec => []ChurnDoesNotGrow
<1>1. IInv => ChurnDoesNotGrow
  BY DEF IInv
<1> QED
  BY <1>1, Invariance, PTL

\* get answers as a map would, and put and delete return what it held before
\* (index.go get, put, delete).
THEOREM TableIsMap == Spec => ActsAsMap
<1>1. IInv => Contents = map
  <2> SUFFICES ASSUME IInv PROVE Contents = map
    OBVIOUS
  <2>1. \A k \in Key : Lookup(table, k) = map[k]
    BY AnswersAgree
  <2>2. map = [k \in Key |-> map[k]]
    BY DEF IInv
  <2> QED
    BY <2>1, <2>2 DEF Contents
<1>2. IInv /\ [Next]_vars => [\A k \in Key : map'[k] # map[k] => prev' = map[k]]_vars
  <2> SUFFICES ASSUME IInv, Next, NEW k \in Key, map'[k] # map[k]
               PROVE  prev' = map[k]
    OBVIOUS
  <2>1. map \in [Key -> Loc \cup {NoLoc}]
    BY DEF IInv
  <2>2. ASSUME NEW h \in Key, NEW l \in Loc, Put(h, l)
        PROVE  prev' = map[k]
    <3>1. map' = [map EXCEPT ![h] = l]
      BY <2>2 DEF Put
    <3>2. h = k
      BY <2>1, <3>1
    <3> QED
      BY <2>2, <3>2, PutKeepsInv
  <2>3. ASSUME NEW h \in Key, Delete(h)
        PROVE  prev' = map[k]
    <3>1. map' = [map EXCEPT ![h] = NoLoc]
      BY <2>3 DEF Delete
    <3>2. h = k
      BY <2>1, <3>1
    <3> QED
      BY <2>3, <3>2, DeleteKeepsInv
  <2> QED
    BY <2>2, <2>3 DEF Next
<1> QED
  BY <1>1, <1>2, Invariance, PTL DEF Spec, ActsAsMap

=============================================================================
