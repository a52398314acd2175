----------------------------- MODULE PoolProofs -----------------------------
(***************************************************************************)
(* Proofs about module Pool, for any number of names and clients and any   *)
(* TTL: handles are counted exactly, a held resource is open, nothing is   *)
(* open after Close, and nothing is reaped early.                          *)
(*                                                                         *)
(* The invariant joins to these what the three actors rely on: a client    *)
(* past its second look at closed works on an entry that is registered;    *)
(* Close goes over entries only after the reaper has stopped, and what is  *)
(* open or being opened by then is among the entries left to it; and an    *)
(* entry that the sweep found idle is so for as long as nobody acquires it.*)
(*                                                                         *)
(* The second part is about module SortedManager, for any lists besides.   *)
(* Every step of the manager is a step of the pool or none, so that what   *)
(* the first part shows of the pool holds under it; and the list an index  *)
(* is opened from is never older than the call that opens.  Its invariant  *)
(* says where the latest list is while a call is under way: what is        *)
(* recorded for the name it asked for, and what an opening has copied,     *)
(* were recorded by it or after it.                                        *)
(***************************************************************************)
EXTENDS SortedManager, FiniteSetTheorems, TLAPS

Registered == \A c \in Client : call[c].pc \in {"want", "opening", "held", "dropping"} => call[c].on \in entries
HandlesLive == \A c \in Client : call[c].pc \in {"held", "dropping"} /\ ~closed => call[c].on \in live
CloserOrder ==
    /\ closed <=> closer # "no"
    /\ closer \in {"closing", "done"} => reaper = "done"
LeftToClose ==
    /\ closer = "closing" => live \subseteq left /\ \A n \in Name : Locked(n) => n \in left
    /\ closer = "done" => live = {} /\ \A n \in Name : ~Locked(n)
RipeIsIdle == \A n \in ripe : refs[n] = 0 => idle[n] = IdleTTL

IInv ==
    /\ TypeOK
    /\ RefsMatchHandles
    /\ Registered
    /\ HandlesLive
    /\ CloserOrder
    /\ LeftToClose
    /\ RipeIsIdle

-----------------------------------------------------------------------------
(* Counting handles. *)

LEMMA HoldersFinite == ASSUME NEW n \in Name PROVE IsFiniteSet(Holders(n))
<1>1. Holders(n) \subseteq Client
  BY DEF Holders
<1> QED
  BY <1>1, ClientAssumption, FS_Subset

\* A client that takes a handle adds one to its name's holders, and to no other's.
LEMMA TakeHandle ==
    ASSUME TypeOK, NEW c \in Client, call[c].pc \notin {"held", "dropping"},
           call' = [call EXCEPT ![c].pc = "held"],
           refs' = [refs EXCEPT ![call[c].on] = @ + 1],
           RefsMatchHandles
    PROVE  RefsMatchHandles'
<1> DEFINE m == call[c].on
<1>1. m \in Name /\ call'[c] = [pc |-> "held", on |-> m]
      /\ \A d \in Client \ {c} : call'[d] = call[d]
  BY DEF TypeOK
<1>2. ASSUME NEW n \in Name
      PROVE  refs'[n] = Cardinality(Holders(n)')
  <2>1. refs[n] = Cardinality(Holders(n)) /\ refs[n] \in Nat
    BY DEF RefsMatchHandles, TypeOK
  <2>2. CASE n = m
    <3>1. Holders(n)' = Holders(n) \cup {c}
      BY <1>1, <2>2 DEF Holders
    <3>2. c \notin Holders(n)
      BY DEF Holders
    <3>3. Cardinality(Holders(n)') = Cardinality(Holders(n)) + 1
      BY <3>1, <3>2, HoldersFinite, FS_AddElement
    <3>4. refs'[n] = refs[n] + 1
      BY <1>1, <2>2 DEF TypeOK
    <3> QED
      BY <2>1, <3>3, <3>4
  <2>3. CASE n # m
    <3>1. Holders(n)' = Holders(n)
      BY <1>1, <2>3 DEF Holders
    <3>2. refs'[n] = refs[n]
      BY <1>1, <2>3 DEF TypeOK
    <3> QED
      BY <2>1, <3>1, <3>2
  <2> QED
    BY <2>2, <2>3
<1> QED
  BY <1>2 DEF RefsMatchHandles

\* A client that drops its handle takes one off.
LEMMA DropHandle ==
    ASSUME TypeOK, NEW c \in Client, call[c].pc = "dropping",
           call' = [call EXCEPT ![c].pc = "idle"],
           refs' = [refs EXCEPT ![call[c].on] = @ - 1],
           RefsMatchHandles
    PROVE  /\ RefsMatchHandles'
           /\ refs[call[c].on] >= 1
<1> DEFINE m == call[c].on
<1>1. m \in Name /\ call'[c] = [pc |-> "idle", on |-> m]
      /\ \A d \in Client \ {c} : call'[d] = call[d]
  BY DEF TypeOK
<1>2. c \in Holders(m)
  BY DEF Holders
<1>3. Cardinality(Holders(m) \ {c}) = Cardinality(Holders(m)) - 1
      /\ IsFiniteSet(Holders(m) \ {c})
  BY <1>1, <1>2, HoldersFinite, FS_RemoveElement
<1>4. Cardinality(Holders(m) \ {c}) \in Nat
  BY <1>3, FS_CardinalityType
<1>5. refs[m] = Cardinality(Holders(m)) /\ refs[m] \in Nat
  BY <1>1 DEF RefsMatchHandles, TypeOK
<1>6. ASSUME NEW n \in Name
      PROVE  refs'[n] = Cardinality(Holders(n)')
  <2>1. refs[n] = Cardinality(Holders(n)) /\ refs[n] \in Nat
    BY DEF RefsMatchHandles, TypeOK
  <2>2. CASE n = m
    <3>1. Holders(n)' = Holders(n) \ {c}
      BY <1>1, <2>2 DEF Holders
    <3>2. refs'[n] = refs[n] - 1
      BY <1>1, <2>2 DEF TypeOK
    <3> QED
      BY <2>1, <2>2, <1>3, <3>1, <3>2
  <2>3. CASE n # m
    <3>1. Holders(n)' = Holders(n)
      BY <1>1, <2>3 DEF Holders
    <3>2. refs'[n] = refs[n]
      BY <1>1, <2>3 DEF TypeOK
    <3> QED
      BY <2>1, <3>1, <3>2
  <2> QED
    BY <2>2, <2>3
<1> QED
  BY <1>3, <1>4, <1>5, <1>6 DEF RefsMatchHandles

\* A client that neither takes nor drops a handle changes no count.
LEMMA SameHandles ==
    ASSUME \A c \in Client : call'[c] = call[c] \/
               {call[c].pc, call'[c].pc} \cap {"held", "dropping"} = {} \/
               (call[c].on = call'[c].on /\ call[c].pc = "held" /\ call'[c].pc = "dropping"),
           refs' = refs, RefsMatchHandles
    PROVE  RefsMatchHandles'
<1>1. ASSUME NEW n \in Name
      PROVE  Holders(n)' = Holders(n)
  BY DEF Holders
<1> QED
  BY <1>1 DEF RefsMatchHandles

\* Nobody holds a name with no references.
LEMMA NobodyHolds ==
    ASSUME TypeOK, RefsMatchHandles, NEW n \in Name, refs[n] = 0
    PROVE  \A c \in Client : call[c].pc \in {"held", "dropping"} => call[c].on # n
<1>1. Cardinality(Holders(n)) = 0
  BY DEF RefsMatchHandles
<1>2. Holders(n) = {}
  BY <1>1, HoldersFinite, FS_EmptySet
<1> QED
  BY <1>2 DEF Holders

-----------------------------------------------------------------------------
(* The initial state. *)

LEMMA InitIInv == Init => IInv
<1> SUFFICES ASSUME Init PROVE IInv
  OBVIOUS
<1> USE TTLAssumption
<1>1. TypeOK
  <2>1. 0 \in 0 .. IdleTTL
    OBVIOUS
  <2>2. idle \in [Name -> 0 .. IdleTTL] /\ refs \in [Name -> Nat]
    BY <2>1 DEF Init
  <2>3. call \in [Client -> [pc : {"idle", "checked", "want", "opening", "held", "dropping"}, on : Name]]
    BY DEF Init
  <2> QED
    BY <2>2, <2>3 DEF Init, TypeOK
<1>2. RefsMatchHandles
  <2>1. ASSUME NEW n \in Name PROVE Holders(n) = {}
    BY DEF Init, Holders
  <2> QED
    BY <2>1, FS_EmptySet DEF Init, RefsMatchHandles
<1>3. Registered /\ HandlesLive
  BY DEF Init, Registered, HandlesLive
<1>4. CloserOrder /\ LeftToClose /\ RipeIsIdle
  BY DEF Init, CloserOrder, LeftToClose, RipeIsIdle
<1> QED
  BY <1>1, <1>2, <1>3, <1>4 DEF IInv

-----------------------------------------------------------------------------
(* The clients' steps. *)

\* Where a client goes, and that no other one moves.
LEMMA Going ==
    ASSUME TypeOK, NEW c \in Client,
           NEW pc \in {"idle", "checked", "want", "opening", "held", "dropping"}, Goto(c, pc)
    PROVE  /\ call'[c] = [pc |-> pc, on |-> call[c].on]
           /\ \A d \in Client \ {c} : call'[d] = call[d]
           /\ call' \in [Client -> [pc : {"idle", "checked", "want", "opening", "held", "dropping"}, on : Name]]
BY DEF TypeOK, Goto

LEMMA CheckOpenKeeps ==
    ASSUME IInv, NEW c \in Client, NEW n \in Name, CheckOpen(c, n) PROVE IInv'
<1> USE DEF CheckOpen, entry, sweeping, closing
<1>0. TypeOK
  BY DEF IInv
<1>1. /\ call'[c] = [pc |-> "checked", on |-> n]
      /\ \A d \in Client \ {c} : call'[d] = call[d]
      /\ call' \in [Client -> [pc : {"idle", "checked", "want", "opening", "held", "dropping"}, on : Name]]
  BY <1>0 DEF TypeOK
<1>2. TypeOK'
  BY <1>0, <1>1 DEF TypeOK
<1>3. RefsMatchHandles'
  BY <1>1, SameHandles DEF IInv
<1>4. Registered' /\ HandlesLive'
  BY <1>1 DEF IInv, Registered, HandlesLive
<1>5. \A m \in Name : Locked(m)' <=> Locked(m)
  BY <1>1 DEF Locked
<1>6. CloserOrder' /\ LeftToClose' /\ RipeIsIdle'
  BY <1>5 DEF IInv, CloserOrder, LeftToClose, RipeIsIdle
<1> QED
  BY <1>2, <1>3, <1>4, <1>6 DEF IInv

LEMMA RegisterKeeps ==
    ASSUME IInv, NEW c \in Client, Register(c) PROVE IInv'
<1> USE DEF Register, entry, sweeping, closing
<1>0. TypeOK
  BY DEF IInv
<1>1. /\ call'[c] = [pc |-> "want", on |-> call[c].on]
      /\ \A d \in Client \ {c} : call'[d] = call[d]
      /\ call' \in [Client -> [pc : {"idle", "checked", "want", "opening", "held", "dropping"}, on : Name]]
  BY <1>0, Going
<1>2. call[c].on \in Name
  BY <1>0 DEF TypeOK
<1>3. TypeOK'
  BY <1>0, <1>1, <1>2 DEF TypeOK
<1>4. RefsMatchHandles'
  BY <1>1, SameHandles DEF IInv
<1>5. Registered' /\ HandlesLive'
  BY <1>1 DEF IInv, Registered, HandlesLive
<1>6. \A m \in Name : Locked(m)' <=> Locked(m)
  BY <1>1 DEF Locked
<1>7. CloserOrder' /\ LeftToClose' /\ RipeIsIdle'
  BY <1>6 DEF IInv, CloserOrder, LeftToClose, RipeIsIdle
<1> QED
  BY <1>3, <1>4, <1>5, <1>7 DEF IInv

\* A step that changes nothing but where a client is: it neither takes nor drops
\* a handle, begins no opening, and goes on only with what it was registered for.
LEMMA MovingKeeps ==
    ASSUME IInv, NEW c \in Client,
           NEW pc \in {"idle", "dropping"}, Goto(c, pc),
           pc = "dropping" => call[c].pc = "held",
           pc = "idle" => call[c].pc \notin {"held", "dropping"},
           UNCHANGED <<entry, sweeping, closing>>
    PROVE  IInv'
<1> USE DEF entry, sweeping, closing
<1>0. TypeOK
  BY DEF IInv
<1>1. /\ call'[c] = [pc |-> pc, on |-> call[c].on]
      /\ \A d \in Client \ {c} : call'[d] = call[d]
      /\ call' \in [Client -> [pc : {"idle", "checked", "want", "opening", "held", "dropping"}, on : Name]]
  BY <1>0, Going
<1>2. TypeOK'
  BY <1>0, <1>1 DEF TypeOK
<1>3. RefsMatchHandles'
  BY <1>1, SameHandles DEF IInv
<1>4. Registered' /\ HandlesLive'
  BY <1>1 DEF IInv, Registered, HandlesLive
<1>5. \A m \in Name : Locked(m)' => Locked(m)
  BY <1>1 DEF Locked
<1>6. CloserOrder' /\ LeftToClose' /\ RipeIsIdle'
  BY <1>5 DEF IInv, CloserOrder, LeftToClose, RipeIsIdle
<1> QED
  BY <1>2, <1>3, <1>4, <1>6 DEF IInv

LEMMA RejectedKeeps ==
    ASSUME IInv, NEW c \in Client, Rejected(c) PROVE IInv'
BY MovingKeeps DEF Rejected

LEMMA OpenFailsKeeps ==
    ASSUME IInv, NEW c \in Client, OpenFails(c) PROVE IInv'
BY MovingKeeps DEF OpenFails

LEMMA ReleaseKeeps ==
    ASSUME IInv, NEW c \in Client, Release(c) PROVE IInv'
BY MovingKeeps DEF Release

LEMMA AcquireLiveKeeps ==
    ASSUME IInv, NEW c \in Client, AcquireLive(c) PROVE IInv'
<1> USE DEF AcquireLive, Admitted, entry, sweeping, closing
<1>0. TypeOK
  BY DEF IInv
<1>1. /\ call'[c] = [pc |-> "held", on |-> call[c].on]
      /\ \A d \in Client \ {c} : call'[d] = call[d]
      /\ call' \in [Client -> [pc : {"idle", "checked", "want", "opening", "held", "dropping"}, on : Name]]
  BY <1>0, Going
<1>2. refs' \in [Name -> Nat] /\ \A n \in Name : refs'[n] = IF n = call[c].on THEN refs[n] + 1 ELSE refs[n]
  BY <1>0 DEF TypeOK
<1>3. TypeOK'
  BY <1>0, <1>1, <1>2 DEF TypeOK
<1>4. RefsMatchHandles'
  BY <1>0, TakeHandle DEF IInv, Goto
<1>5. Registered' /\ HandlesLive'
  BY <1>1 DEF IInv, Registered, HandlesLive
<1>6. \A m \in Name : Locked(m)' <=> Locked(m)
  BY <1>1 DEF Locked
<1>7. CloserOrder' /\ LeftToClose'
  BY <1>6 DEF IInv, CloserOrder, LeftToClose
<1>8. RipeIsIdle'
  BY <1>0, <1>2 DEF IInv, RipeIsIdle, TypeOK
<1> QED
  BY <1>3, <1>4, <1>5, <1>7, <1>8 DEF IInv

LEMMA BeginOpenKeeps ==
    ASSUME IInv, NEW c \in Client, BeginOpen(c) PROVE IInv'
<1> USE DEF BeginOpen, Admitted, entry, sweeping, closing
<1>0. TypeOK
  BY DEF IInv
<1>1. /\ call'[c] = [pc |-> "opening", on |-> call[c].on]
      /\ \A d \in Client \ {c} : call'[d] = call[d]
      /\ call' \in [Client -> [pc : {"idle", "checked", "want", "opening", "held", "dropping"}, on : Name]]
  BY <1>0, Going
<1>2. TypeOK'
  BY <1>0, <1>1 DEF TypeOK
<1>3. RefsMatchHandles'
  BY <1>1, SameHandles DEF IInv
<1>4. Registered' /\ HandlesLive'
  BY <1>1 DEF IInv, Registered, HandlesLive
<1>5. closer = "no"
  BY <1>0 DEF IInv, CloserOrder, TypeOK
<1>6. CloserOrder' /\ LeftToClose' /\ RipeIsIdle'
  BY <1>5 DEF IInv, CloserOrder, LeftToClose, RipeIsIdle
<1> QED
  BY <1>2, <1>3, <1>4, <1>6 DEF IInv

LEMMA OpenSucceedsKeeps ==
    ASSUME IInv, NEW c \in Client, OpenSucceeds(c) PROVE IInv'
<1> USE DEF OpenSucceeds, entry, sweeping, closing
<1> DEFINE m == call[c].on
<1>0. TypeOK
  BY DEF IInv
<1>1. /\ call'[c] = [pc |-> "held", on |-> m]
      /\ \A d \in Client \ {c} : call'[d] = call[d]
      /\ call' \in [Client -> [pc : {"idle", "checked", "want", "opening", "held", "dropping"}, on : Name]]
  BY <1>0, Going
<1>2. refs' \in [Name -> Nat] /\ \A n \in Name : refs'[n] = IF n = m THEN refs[n] + 1 ELSE refs[n]
  BY <1>0 DEF TypeOK
<1>3. m \in entries /\ m \in Name
  BY <1>0 DEF IInv, Registered, TypeOK
<1>4. TypeOK'
  BY <1>0, <1>1, <1>2, <1>3 DEF TypeOK
<1>5. RefsMatchHandles'
  BY <1>0, TakeHandle DEF IInv, Goto
<1>6. Registered' /\ HandlesLive'
  BY <1>1, <1>3 DEF IInv, Registered, HandlesLive
<1>7. \A n \in Name : Locked(n)' => Locked(n)
  BY <1>1 DEF Locked
<1>8. Locked(m)
  BY <1>0 DEF Locked, TypeOK
<1>9. LeftToClose'
  BY <1>3, <1>7, <1>8 DEF IInv, LeftToClose
<1>10. CloserOrder'
  BY DEF IInv, CloserOrder
<1>11. RipeIsIdle'
  BY <1>0, <1>2 DEF IInv, RipeIsIdle, TypeOK
<1> QED
  BY <1>4, <1>5, <1>6, <1>9, <1>10, <1>11 DEF IInv

LEMMA DropRefKeeps ==
    ASSUME IInv, NEW c \in Client, DropRef(c) PROVE IInv'
<1> USE DEF DropRef, entry, sweeping, closing
<1> DEFINE m == call[c].on
<1>0. TypeOK
  BY DEF IInv
<1>1. /\ call'[c] = [pc |-> "idle", on |-> m]
      /\ \A d \in Client \ {c} : call'[d] = call[d]
      /\ call' \in [Client -> [pc : {"idle", "checked", "want", "opening", "held", "dropping"}, on : Name]]
  BY <1>0, Going
<1>2. RefsMatchHandles' /\ refs[m] >= 1
  BY <1>0, DropHandle DEF IInv, Goto
<1>3. m \in Name /\ refs[m] \in Nat
  BY <1>0 DEF TypeOK
<1>4. refs[m] - 1 \in Nat
  BY <1>2, <1>3
<1>5. refs' \in [Name -> Nat] /\ \A n \in Name : refs'[n] = IF n = m THEN refs[n] - 1 ELSE refs[n]
  BY <1>0, <1>4 DEF TypeOK
<1>6. idle' \in [Name -> 0 .. IdleTTL] /\ ripe' \subseteq ripe
  BY <1>0, TTLAssumption DEF TypeOK
<1>7. TypeOK'
  BY <1>0, <1>1, <1>5, <1>6 DEF TypeOK
<1>8. Registered' /\ HandlesLive'
  BY <1>1 DEF IInv, Registered, HandlesLive
<1>9. \A n \in Name : Locked(n)' => Locked(n)
  BY <1>1 DEF Locked
<1>10. CloserOrder' /\ LeftToClose'
  BY <1>9 DEF IInv, CloserOrder, LeftToClose
<1>11. RipeIsIdle'
  <2>1. CASE refs[m] = 1
    BY <1>0, <1>5, <2>1 DEF IInv, RipeIsIdle, TypeOK
  <2>2. CASE refs[m] # 1
    BY <1>0, <1>3, <1>5, <2>2 DEF IInv, RipeIsIdle, TypeOK
  <2> QED
    BY <2>1, <2>2
<1> QED
  BY <1>2, <1>7, <1>8, <1>10, <1>11 DEF IInv

-----------------------------------------------------------------------------
(* The clock's, the reaper's and the closer's steps: no client moves. *)

\* Handles and locks depend on the clients only, and on the counts.
LEMMA ClientsStay ==
    ASSUME IInv, UNCHANGED <<call, refs>>
    PROVE  RefsMatchHandles' /\ \A n \in Name : Locked(n)' <=> Locked(n)
<1>1. RefsMatchHandles'
  BY SameHandles DEF IInv
<1> QED
  BY <1>1 DEF Locked

LEMMA PassKeeps == ASSUME IInv, Pass PROVE IInv'
<1> USE DEF Pass, entry, sweeping, closing
<1>0. TypeOK
  BY DEF IInv
<1>1. ASSUME NEW n \in Name
      PROVE  /\ idle'[n] \in 0 .. IdleTTL
             /\ idle[n] = IdleTTL => idle'[n] = IdleTTL
  BY <1>0, TTLAssumption DEF TypeOK
<1>2. TypeOK'
  BY <1>0, <1>1 DEF TypeOK
<1>3. RipeIsIdle'
  BY <1>0, <1>1 DEF IInv, RipeIsIdle, TypeOK
<1>4. Registered' /\ HandlesLive' /\ CloserOrder'
  BY DEF IInv, Registered, HandlesLive, CloserOrder
<1>5. LeftToClose'
  BY ClientsStay DEF IInv, LeftToClose
<1> QED
  BY <1>2, <1>3, <1>4, <1>5, ClientsStay DEF IInv

LEMMA FireKeeps == ASSUME IInv, Fire PROVE IInv'
<1> USE DEF Fire, entry, sweeping, closing
<1>0. TypeOK
  BY DEF IInv
<1>1. TypeOK'
  BY <1>0 DEF TypeOK
<1>2. RipeIsIdle'
  BY DEF RipeIsIdle
<1>3. Registered' /\ HandlesLive' /\ CloserOrder'
  BY DEF IInv, Registered, HandlesLive, CloserOrder
<1>4. LeftToClose'
  BY ClientsStay DEF IInv, LeftToClose
<1> QED
  BY <1>1, <1>2, <1>3, <1>4, ClientsStay DEF IInv

LEMMA SweepEntryKeeps ==
    ASSUME IInv, NEW n \in Name, SweepEntry(n) PROVE IInv'
<1> USE DEF SweepEntry, Reapable, entry, sweeping, closing
<1>0. TypeOK
  BY DEF IInv
<1>1. TypeOK'
  BY <1>0 DEF TypeOK
<1>2. HandlesLive'
  <2>1. CASE Reapable(n)
    BY <1>0, <2>1, NobodyHolds DEF IInv, HandlesLive
  <2>2. CASE ~Reapable(n)
    BY <2>2 DEF IInv, HandlesLive
  <2> QED
    BY <2>1, <2>2
<1>3. Registered' /\ CloserOrder' /\ RipeIsIdle'
  BY DEF IInv, Registered, CloserOrder, RipeIsIdle
<1>4. closer \notin {"closing", "done"}
  BY DEF IInv, CloserOrder
<1>5. LeftToClose'
  BY <1>4 DEF LeftToClose
<1> QED
  BY <1>1, <1>2, <1>3, <1>5, ClientsStay DEF IInv

LEMMA EndSweepKeeps == ASSUME IInv, EndSweep \/ ReaperStops PROVE IInv'
<1> USE DEF EndSweep, ReaperStops, entry, sweeping, closing
<1>1. TypeOK'
  BY DEF IInv, TypeOK
<1>2. Registered' /\ HandlesLive' /\ RipeIsIdle'
  BY DEF IInv, Registered, HandlesLive, RipeIsIdle
<1>3. closer \notin {"closing", "done"}
  BY DEF IInv, CloserOrder
<1>4. LeftToClose' /\ CloserOrder'
  BY <1>3 DEF IInv, LeftToClose, CloserOrder
<1> QED
  BY <1>1, <1>2, <1>4, ClientsStay DEF IInv

LEMMA BeginCloseKeeps == ASSUME IInv, BeginClose PROVE IInv'
<1> USE DEF BeginClose, entry, sweeping, closing
<1>1. TypeOK'
  BY DEF IInv, TypeOK
<1>2. Registered' /\ HandlesLive' /\ RipeIsIdle'
  BY DEF IInv, Registered, HandlesLive, RipeIsIdle
<1>3. LeftToClose' /\ CloserOrder'
  BY DEF IInv, LeftToClose, CloserOrder
<1> QED
  BY <1>1, <1>2, <1>3, ClientsStay DEF IInv

LEMMA CopyEntriesKeeps == ASSUME IInv, CopyEntries PROVE IInv'
<1> USE DEF CopyEntries, entry, sweeping, closing
<1>1. TypeOK'
  BY DEF IInv, TypeOK
<1>2. Registered' /\ HandlesLive' /\ RipeIsIdle'
  BY DEF IInv, Registered, HandlesLive, RipeIsIdle
<1>3. CloserOrder'
  BY DEF IInv, CloserOrder
<1>4. \A n \in Name : Locked(n) => n \in entries
  BY DEF IInv, Registered, Locked
<1>5. LeftToClose'
  BY <1>4, ClientsStay DEF IInv, TypeOK, LeftToClose
<1> QED
  BY <1>1, <1>2, <1>3, <1>5, ClientsStay DEF IInv

LEMMA CloseEntryKeeps ==
    ASSUME IInv, NEW n \in Name, CloseEntry(n) PROVE IInv'
<1> USE DEF CloseEntry, entry, sweeping, closing
<1>1. TypeOK'
  BY DEF IInv, TypeOK
<1>2. closed
  BY DEF IInv, CloserOrder
<1>3. Registered' /\ HandlesLive' /\ RipeIsIdle' /\ CloserOrder'
  BY <1>2 DEF IInv, Registered, HandlesLive, RipeIsIdle, CloserOrder
<1>4. LeftToClose'
  BY ClientsStay DEF IInv, LeftToClose
<1> QED
  BY <1>1, <1>3, <1>4, ClientsStay DEF IInv

LEMMA FinishCloseKeeps == ASSUME IInv, FinishClose PROVE IInv'
<1> USE DEF FinishClose, entry, sweeping, closing
<1>1. TypeOK'
  BY DEF IInv, TypeOK
<1>2. Registered' /\ HandlesLive' /\ RipeIsIdle' /\ CloserOrder'
  BY DEF IInv, Registered, HandlesLive, RipeIsIdle, CloserOrder
<1>3. LeftToClose'
  BY ClientsStay DEF IInv, LeftToClose
<1> QED
  BY <1>1, <1>2, <1>3, ClientsStay DEF IInv

LEMMA StutterKeeps == ASSUME IInv, UNCHANGED vars PROVE IInv'
<1> USE DEF vars, entry, sweeping, closing
<1>1. TypeOK' /\ Registered' /\ HandlesLive' /\ CloserOrder' /\ RipeIsIdle'
  BY DEF IInv, TypeOK, Registered, HandlesLive, CloserOrder, RipeIsIdle
<1>2. LeftToClose'
  BY ClientsStay DEF IInv, LeftToClose
<1> QED
  BY <1>1, <1>2, ClientsStay DEF IInv

-----------------------------------------------------------------------------
(* The theorems. *)

LEMMA NextIInv == IInv /\ [Next]_vars => IInv'
<1> SUFFICES ASSUME IInv, [Next]_vars PROVE IInv'
  OBVIOUS
<1>1. ASSUME NEW c \in Client, ClientStep(c) PROVE IInv'
  BY <1>1, CheckOpenKeeps, RegisterKeeps, RejectedKeeps, AcquireLiveKeeps, BeginOpenKeeps,
     OpenSucceedsKeeps, OpenFailsKeeps, ReleaseKeeps, DropRefKeeps DEF ClientStep
<1>2. CASE Pass
  BY <1>2, PassKeeps
<1>3. CASE ReaperStep
  BY <1>3, FireKeeps, SweepEntryKeeps, EndSweepKeeps DEF ReaperStep
<1>4. CASE BeginClose
  BY <1>4, BeginCloseKeeps
<1>5. CASE CloserStep
  BY <1>5, CopyEntriesKeeps, CloseEntryKeeps, FinishCloseKeeps DEF CloserStep
<1>6. CASE UNCHANGED vars
  BY <1>6, StutterKeeps
<1> QED
  BY <1>1, <1>2, <1>3, <1>4, <1>5, <1>6 DEF Next

\* The invariant of the pool: pool.go, Acquire, Release, Sweep and Close together.
THEOREM Invariance == Spec => []IInv
<1> QED
  BY InitIInv, NextIInv, PTL DEF Spec

\* The state keeps its types; in particular no count of handles goes below zero
\* (pool.go Entry.Release).
THEOREM TypeCorrect == Spec => []TypeOK
<1>1. IInv => TypeOK
  BY DEF IInv
<1> QED
  BY <1>1, Invariance, PTL

\* An entry's count is the number of handles out on it (pool.go Acquire, Release).
THEOREM RefsAreHandles == Spec => []RefsMatchHandles
<1>1. IInv => RefsMatchHandles
  BY DEF IInv
<1> QED
  BY <1>1, Invariance, PTL

\* Until Close, the reaper never closes what a client holds (pool.go Sweep).
THEOREM HeldStaysLive == Spec => []HeldIsLive
<1>1. IInv => HeldIsLive
  BY DEF IInv, HandlesLive, HeldIsLive
<1> QED
  BY <1>1, Invariance, PTL

\* When Close has returned nothing is open, nor being opened (pool.go Close and
\* the second look at closed in Acquire).
THEOREM NothingStaysOpen == Spec => []NothingOpenAfterClose
<1>1. IInv => NothingOpenAfterClose
  BY DEF IInv, LeftToClose, NothingOpenAfterClose
<1> QED
  BY <1>1, Invariance, PTL

\* Only a resource without handles for the whole TTL is closed before Close,
\* although the sweep took its list and its time before (pool.go Sweep).
THEOREM ReapedOnlyWhenDue == Spec => NotReapedEarly
<1> DEFINE Due == \A n \in live \ live' : ~closed => refs[n] = 0 /\ idle[n] = IdleTTL
<1>1. ASSUME IInv, [Next]_vars PROVE Due
  <2> USE DEF entry, sweeping, closing
  <2>1. ASSUME NEW c \in Client, ClientStep(c) PROVE live \subseteq live'
    BY <2>1 DEF ClientStep, CheckOpen, Register, Rejected, AcquireLive, BeginOpen,
       OpenSucceeds, OpenFails, Release, DropRef
  <2>2. ASSUME NEW n \in Name, SweepEntry(n) PROVE Due
    BY <1>1, <2>2 DEF SweepEntry, Reapable, IInv, RipeIsIdle
  <2>3. ASSUME Fire \/ EndSweep \/ ReaperStops \/ Pass \/ BeginClose \/ CopyEntries \/ FinishClose
        PROVE  live' = live
    BY <2>3 DEF Fire, EndSweep, ReaperStops, Pass, BeginClose, CopyEntries, FinishClose
  <2>4. ASSUME NEW n \in Name, CloseEntry(n) PROVE closed
    BY <1>1, <2>4 DEF CloseEntry, IInv, CloserOrder
  <2>5. CASE UNCHANGED vars
    BY <2>5 DEF vars
  <2> QED
    BY <1>1, <2>1, <2>2, <2>3, <2>4, <2>5 DEF Next, ReaperStep, CloserStep
<1>2. IInv /\ [Next]_vars => [Due]_vars
  BY <1>1
<1> QED
  BY <1>2, Invariance, PTL DEF Spec, NotReapedEarly

-----------------------------------------------------------------------------
(* The manager: where the latest list is. *)

AskedIsRecent ==
    \A c \in Client :
        /\ Asking(c) => sources[call[c].on] \in since[c]
        /\ grabbed[c] # NoSource => call[c].pc = "opening" /\ grabbed[c] \in since[c]

MInv == MTypeOK /\ AskedIsRecent

-----------------------------------------------------------------------------
(* The manager is a client of the pool. *)

LEMMA StepIsPools == [MNext]_mvars => [Next]_vars
<1> SUFFICES ASSUME [MNext]_mvars PROVE [Next]_vars
  OBVIOUS
<1>1. ASSUME NEW c \in Client, NEW n \in Name, NEW s \in Source, Ask(c, n, s) PROVE ClientStep(c)
  BY <1>1 DEF Ask, ClientStep
<1>2. ASSUME NEW c \in Client, NEW n \in Name, NEW s \in Source, AskRefused(c, n, s) PROVE UNCHANGED vars
  BY <1>2 DEF AskRefused
<1>3. ASSUME NEW c \in Client, Enter(c) PROVE ClientStep(c)
  BY <1>3 DEF Enter, ClientStep
<1>4. ASSUME NEW c \in Client, ReadSources(c) PROVE UNCHANGED vars
  BY <1>4 DEF ReadSources
<1>5. ASSUME NEW c \in Client, BuildSucceeds(c) \/ BuildFails(c) PROVE ClientStep(c)
  BY <1>5 DEF BuildSucceeds, BuildFails, ClientStep
<1>6. ASSUME NEW c \in Client, Leave(c) PROVE ClientStep(c)
  BY <1>6 DEF Leave, ClientStep
<1>7. CASE InBackground(Pass) \/ InBackground(ReaperStep) \/ InBackground(BeginClose)
             \/ InBackground(CloserStep)
  BY <1>7 DEF InBackground, Next
<1>8. CASE UNCHANGED mvars
  BY <1>8 DEF mvars
<1> QED
  BY <1>1, <1>2, <1>3, <1>4, <1>5, <1>6, <1>7, <1>8 DEF MNext, Next

\* Whatever the manager does is something the pool may do (sortedindex_manager.go
\* Acquire, pool.go Acquire): the lists of sources constrain it and add nothing.
THEOREM ManagerIsPool == MSpec => Spec
<1>1. MInit => Init
  BY DEF MInit
<1> QED
  BY <1>1, StepIsPools, PTL DEF MSpec, Spec

\* So the pool's guarantees hold under the manager: handles are counted, what is
\* held is open until Close, and nothing is open after it.
THEOREM ManagerKeepsHandles == MSpec => [](RefsMatchHandles /\ HeldIsLive /\ NothingOpenAfterClose)
BY ManagerIsPool, RefsAreHandles, HeldStaysLive, NothingStaysOpen, PTL

-----------------------------------------------------------------------------
(* The lists. *)

LEMMA MInitInv == MInit => MInv
<1> SUFFICES ASSUME MInit PROVE MInv
  OBVIOUS
<1>1. TypeOK
  BY InitIInv DEF MInit, IInv
<1>2. MTypeOK
  BY <1>1 DEF MTypeOK, MInit
<1>3. \A c \in Client : ~Asking(c)
  BY DEF MInit, Init, Asking
<1> QED
  BY <1>2, <1>3 DEF MInv, AskedIsRecent, MInit

\* A step that leaves the lists alone and lets nobody start to ask.
LEMMA ListsStay ==
    ASSUME MInv, TypeOK', UNCHANGED <<sources, grabbed>>,
           built' \in [Name -> Source \cup {NoSource}], since' \in [Client -> SUBSET Source],
           \A c \in Client :
               \/ call'[c] = call[c] /\ since'[c] = since[c]
               \/ Asking(c) /\ call'[c].on = call[c].on /\ since'[c] = since[c]
                    /\ grabbed[c] = NoSource
               \/ ~Asking(c)' /\ grabbed[c] = NoSource
    PROVE  MInv'
<1>1. MTypeOK'
  BY DEF MInv, MTypeOK
<1>2. AskedIsRecent'
  BY DEF MInv, AskedIsRecent, Asking
<1> QED
  BY <1>1, <1>2 DEF MInv

\* A step of client c alone that moves it and leaves the rest of the calls alone.
LEMMA Moved ==
    ASSUME TypeOK, NEW c \in Client, NEW pc, Goto(c, pc)
    PROVE  /\ call'[c].pc = pc /\ call'[c].on = call[c].on
           /\ \A d \in Client \ {c} : call'[d] = call[d]
BY DEF TypeOK, Goto

LEMMA AskKeeps ==
    ASSUME MInv, TypeOK', NEW c \in Client, NEW n \in Name, NEW s \in Source, Ask(c, n, s)
    PROVE  MInv'
<1> USE DEF MInv
<1>1. /\ call[c].pc = "idle" /\ call'[c] = [pc |-> "checked", on |-> n]
      /\ \A d \in Client \ {c} : call'[d] = call[d]
  BY DEF MTypeOK, TypeOK, Ask, CheckOpen
<1>2. /\ sources'[n] = s /\ \A o \in Name \ {n} : sources'[o] = sources[o]
      /\ since'[c] = {s}
      /\ \A d \in Client \ {c} : since[d] \subseteq since'[d]
      /\ \A d \in Client \ {c} : Asking(d) /\ call[d].on = n => s \in since'[d]
  BY DEF MTypeOK, Ask, Record
<1>3. MTypeOK'
  BY DEF MTypeOK, Ask, Record
<1>4. grabbed[c] = NoSource /\ UNCHANGED grabbed
  BY <1>1 DEF AskedIsRecent, Ask
<1>5. ASSUME NEW d \in Client \ {c}
      PROVE  /\ Asking(d)' => sources'[call'[d].on] \in since'[d]
             /\ grabbed'[d] # NoSource => call'[d].pc = "opening" /\ grabbed'[d] \in since'[d]
  <2>1. call[d].on \in Name
    BY DEF MTypeOK, TypeOK
  <2> QED
    BY <1>1, <1>2, <1>4, <2>1 DEF AskedIsRecent, Asking
<1> QED
  BY <1>1, <1>2, <1>3, <1>4, <1>5 DEF AskedIsRecent

LEMMA AskRefusedKeeps ==
    ASSUME MInv, NEW c \in Client, NEW n \in Name, NEW s \in Source, AskRefused(c, n, s)
    PROVE  MInv'
<1> USE DEF MInv
<1>1. UNCHANGED <<vars, call, grabbed>>
  BY DEF AskRefused, vars
<1>2. /\ sources'[n] = s /\ \A o \in Name \ {n} : sources'[o] = sources[o]
      /\ \A d \in Client : since[d] \subseteq since'[d]
      /\ \A d \in Client : Asking(d) /\ call[d].on = n => s \in since'[d]
  BY DEF MTypeOK, AskRefused
<1>3. MTypeOK'
  <2>1. TypeOK'
    BY <1>1 DEF MTypeOK, TypeOK, vars, entry, sweeping, closing
  <2> QED
    BY <2>1 DEF MTypeOK, AskRefused
<1>4. ASSUME NEW d \in Client
      PROVE  /\ Asking(d)' => sources'[call'[d].on] \in since'[d]
             /\ grabbed'[d] # NoSource => call'[d].pc = "opening" /\ grabbed'[d] \in since'[d]
  <2>1. call[d].on \in Name
    BY DEF MTypeOK, TypeOK
  <2> QED
    BY <1>1, <1>2, <2>1 DEF AskedIsRecent, Asking
<1> QED
  BY <1>3, <1>4 DEF AskedIsRecent

LEMMA ReadSourcesKeeps ==
    ASSUME MInv, NEW c \in Client, ReadSources(c)
    PROVE  MInv'
<1> USE DEF MInv
<1>1. UNCHANGED <<vars, call, sources, built, since>> /\ call[c].pc = "opening" /\ call[c].on \in Name
  BY DEF ReadSources, vars, MTypeOK, TypeOK
<1>2. sources[call[c].on] \in since[c]
  BY <1>1 DEF AskedIsRecent, Asking
<1>3. TypeOK'
  BY <1>1 DEF MTypeOK, TypeOK, vars, entry, sweeping, closing
<1>4. MTypeOK'
  BY <1>1, <1>3 DEF MTypeOK, ReadSources
<1>5. grabbed'[c] = sources[call[c].on] /\ \A d \in Client \ {c} : grabbed'[d] = grabbed[d]
  BY DEF MTypeOK, ReadSources
<1>6. AskedIsRecent'
  BY <1>1, <1>2, <1>5 DEF AskedIsRecent, Asking
<1> QED
  BY <1>4, <1>6

\* A build that ends, however it does, takes its client out of the opening.
LEMMA BuildKeeps ==
    ASSUME MInv, TypeOK', NEW c \in Client, BuildSucceeds(c) \/ BuildFails(c)
    PROVE  MInv'
<1> USE DEF MInv
<1>1. PICK pc \in {"held", "idle"} : Goto(c, pc)
  BY DEF BuildSucceeds, BuildFails, OpenSucceeds, OpenFails
<1>2. /\ call'[c].pc \notin {"checked", "want", "opening"}
      /\ \A d \in Client \ {c} : call'[d] = call[d]
  BY <1>1, Moved DEF MTypeOK
<1>3. /\ sources' = sources /\ grabbed' = [grabbed EXCEPT ![c] = NoSource]
      /\ since' = [since EXCEPT ![c] = {}]
  BY DEF BuildSucceeds, BuildFails, Settle
<1>4. built' \in [Name -> Source \cup {NoSource}]
  BY DEF BuildSucceeds, BuildFails, MTypeOK
<1>5. MTypeOK'
  BY <1>3, <1>4 DEF MTypeOK
<1>6. /\ grabbed'[c] = NoSource
      /\ \A d \in Client \ {c} : grabbed'[d] = grabbed[d] /\ since'[d] = since[d]
  BY <1>3 DEF MTypeOK
<1>7. AskedIsRecent'
  BY <1>2, <1>3, <1>6 DEF AskedIsRecent, Asking
<1> QED
  BY <1>5, <1>7

LEMMA EnterKeeps ==
    ASSUME MInv, TypeOK', NEW c \in Client, Enter(c)
    PROVE  MInv'
<1>1. TypeOK /\ MTypeOK /\ AskedIsRecent
  BY DEF MInv, MTypeOK
<1>2. call[c].pc \in {"checked", "want"}
  BY DEF Enter, Register, BeginOpen, Rejected, AcquireLive, Admitted
<1>3. grabbed[c] = NoSource /\ Asking(c)
  BY <1>1, <1>2 DEF AskedIsRecent, Asking
<1>4. UNCHANGED <<sources, grabbed, built>>
  BY DEF Enter, lists
<1>5. CASE (Register(c) \/ BeginOpen(c)) /\ UNCHANGED lists
  <2>1. PICK pc \in {"want", "opening"} : Goto(c, pc)
    BY <1>5 DEF Register, BeginOpen
  <2>2. since' = since /\ call'[c].on = call[c].on /\ \A d \in Client \ {c} : call'[d] = call[d]
    BY <1>1, <1>5, <2>1, Moved DEF lists
  <2> QED
    BY <1>1, <1>3, <1>4, <2>2, ListsStay DEF MTypeOK
<1>6. CASE (Rejected(c) \/ AcquireLive(c)) /\ Settle(c)
  <2>1. PICK pc \in {"idle", "held"} : Goto(c, pc)
    BY <1>6 DEF Rejected, AcquireLive
  <2>2. call'[c].pc \in {"idle", "held"} /\ \A d \in Client \ {c} : call'[d] = call[d]
    BY <1>1, <2>1, Moved
  <2>3. /\ since' \in [Client -> SUBSET Source]
        /\ \A d \in Client \ {c} : since'[d] = since[d]
    BY <1>1, <1>6 DEF Settle, MTypeOK
  <2>4. ~Asking(c)'
    BY <2>2 DEF Asking
  <2> QED
    BY <1>1, <1>3, <1>4, <2>2, <2>3, <2>4, ListsStay DEF MTypeOK
<1> QED
  BY <1>5, <1>6 DEF Enter

LEMMA LeaveKeeps ==
    ASSUME MInv, TypeOK', NEW c \in Client, Leave(c)
    PROVE  MInv'
<1>1. TypeOK /\ MTypeOK /\ AskedIsRecent
  BY DEF MInv, MTypeOK
<1>2. call[c].pc \in {"held", "dropping"} /\ UNCHANGED <<sources, grabbed, built, since>>
  BY DEF Leave, Release, DropRef, lists
<1>3. grabbed[c] = NoSource
  BY <1>1, <1>2 DEF AskedIsRecent
<1>4. PICK pc \in {"dropping", "idle"} : Goto(c, pc)
  BY DEF Leave, Release, DropRef
<1>5. call'[c].pc \in {"dropping", "idle"} /\ \A d \in Client \ {c} : call'[d] = call[d]
  BY <1>1, <1>4, Moved
<1>6. ~Asking(c)'
  BY <1>5 DEF Asking
<1> QED
  BY <1>1, <1>2, <1>3, <1>5, <1>6, ListsStay DEF MTypeOK

LEMMA BackgroundKeeps ==
    ASSUME MInv, TypeOK',
           \/ InBackground(Pass) \/ InBackground(ReaperStep)
           \/ InBackground(BeginClose) \/ InBackground(CloserStep)
    PROVE  MInv'
<1>1. call' = call
  BY DEF InBackground, Pass, ReaperStep, Fire, SweepEntry, EndSweep, ReaperStops, BeginClose,
         CloserStep, CopyEntries, CloseEntry, FinishClose
<1>2. /\ UNCHANGED <<sources, grabbed, since>>
      /\ built' = [n \in Name |-> IF n \in live' THEN built[n] ELSE NoSource]
  BY DEF InBackground
<1>3. built' \in [Name -> Source \cup {NoSource}] /\ since' \in [Client -> SUBSET Source]
  BY <1>2 DEF MInv, MTypeOK
<1> QED
  BY <1>1, <1>2, <1>3, ListsStay

LEMMA MNextInv == IInv /\ IInv' /\ MInv /\ [MNext]_mvars => MInv'
<1> SUFFICES ASSUME IInv, IInv', MInv, [MNext]_mvars PROVE MInv'
  OBVIOUS
<1>1. TypeOK'
  BY DEF IInv
<1>2. ASSUME NEW c \in Client, NEW n \in Name, NEW s \in Source, Ask(c, n, s) \/ AskRefused(c, n, s)
      PROVE  MInv'
  BY <1>1, <1>2, AskKeeps, AskRefusedKeeps
<1>3. ASSUME NEW c \in Client, Enter(c) \/ Leave(c) PROVE MInv'
  BY <1>1, <1>3, EnterKeeps, LeaveKeeps
<1>4. ASSUME NEW c \in Client, ReadSources(c) \/ BuildSucceeds(c) \/ BuildFails(c) PROVE MInv'
  BY <1>1, <1>4, ReadSourcesKeeps, BuildKeeps
<1>5. CASE \/ InBackground(Pass) \/ InBackground(ReaperStep)
           \/ InBackground(BeginClose) \/ InBackground(CloserStep)
  BY <1>1, <1>5, BackgroundKeeps
<1>6. CASE UNCHANGED mvars
  <2>1. UNCHANGED <<sources, grabbed, built, since, call>>
    BY <1>6 DEF mvars, lists, vars
  <2> QED
    BY <1>1, <2>1, ListsStay DEF MInv, MTypeOK
<1> QED
  BY <1>2, <1>3, <1>4, <1>5, <1>6 DEF MNext

-----------------------------------------------------------------------------

\* The inductive invariant, above that of the pool.
THEOREM ManagerInvariance == MSpec => []MInv
<1>1. MSpec => []IInv
  BY ManagerIsPool, Invariance, PTL
<1> QED
  BY <1>1, MInitInv, MNextInv, PTL DEF MSpec

\* The state of the manager and of its pool keeps its types.
THEOREM ManagerTypeCorrect == MSpec => []MTypeOK
<1>1. MInv => MTypeOK
  BY DEF MInv
<1> QED
  BY <1>1, ManagerInvariance, PTL

\* An index is opened from a list recorded for its name by the call that opens it or
\* after that, however the calls for the name interleave (sortedindex_manager.go
\* Acquire and its open callback).
THEOREM OpenedFromRecent == MSpec => OpenedFromRecentList
<1> DEFINE Recent == \A c \in Client : BuildSucceeds(c) => built'[call[c].on] \in since[c]
<1>1. ASSUME MInv, NEW c \in Client, BuildSucceeds(c) PROVE built'[call[c].on] \in since[c]
  <2>1. call[c].on \in Name
    BY <1>1 DEF MInv, MTypeOK, TypeOK
  <2>2. grabbed[c] \in since[c]
    BY <1>1 DEF MInv, AskedIsRecent, BuildSucceeds
  <2> QED
    BY <1>1, <2>1, <2>2 DEF BuildSucceeds, MInv, MTypeOK
<1>2. MInv => [Recent]_mvars
  BY <1>1
<1> QED
  BY <1>2, ManagerInvariance, PTL DEF MSpec, OpenedFromRecentList

=============================================================================
