-------------------------------- MODULE Pool --------------------------------
(***************************************************************************)
(* The resource pool (internal/pool) behind Manager, FileIndexManager and  *)
(* SortedIndexManager: named resources opened on first Acquire, counted    *)
(* while handles are out, closed by a reaper after IdleTTL without one,    *)
(* and all closed by Close.                                                *)
(*                                                                         *)
(* A critical section under Pool.mu or Entry.mu is one action, except that *)
(* opening a resource, which may take long and runs under Entry.mu, has a  *)
(* beginning and an end: Locked(n) while it runs.  The loads and stores of *)
(* the closed flag outside the locks are steps of their own.               *)
(***************************************************************************)
EXTENDS Integers, FiniteSets

CONSTANTS Name, Client,
          IdleTTL       \* in ticks of the clock; 0 for a pool that never reaps

ASSUME ClientAssumption == IsFiniteSet(Client)
ASSUME TTLAssumption == IdleTTL \in Nat

VARIABLES
    closed,     \* Pool.closed
    entries,    \* names that have an Entry
    live,       \* those whose resource is open
    refs,       \* Entry.refs
    idle,       \* how long ago idleSince is, as far as the TTL goes
    call,       \* what each client is doing, and with which name
    reaper,     \* "wait", "sweep", "done"
    todo,       \* entries the sweep still has to visit
    ripe,       \* those idle for the TTL when the sweep's tick came
    closer,     \* "no", "stopping" the reaper, "closing" entries, "done"
    left        \* entries Close still has to visit

entry == <<entries, live, refs, idle>>
sweeping == <<reaper, todo, ripe>>
closing == <<closed, closer, left>>
vars == <<entry, call, sweeping, closing>>

TypeOK ==
    /\ closed \in BOOLEAN
    /\ live \subseteq entries /\ entries \subseteq Name
    /\ refs \in [Name -> Nat]
    /\ idle \in [Name -> 0 .. IdleTTL]
    /\ call \in [Client -> [pc : {"idle", "checked", "want", "opening", "held", "dropping"},
                            on : Name]]
    /\ reaper \in {"wait", "sweep", "done"}
    /\ todo \subseteq entries /\ ripe \subseteq Name
    /\ closer \in {"no", "stopping", "closing", "done"}
    /\ left \subseteq entries

Init ==
    /\ closed = FALSE
    /\ entries = {} /\ live = {}
    /\ refs = [n \in Name |-> 0] /\ idle = [n \in Name |-> 0]
    /\ \E n \in Name : call = [c \in Client |-> [pc |-> "idle", on |-> n]]
    /\ reaper = (IF IdleTTL > 0 THEN "wait" ELSE "done")
    /\ todo = {} /\ ripe = {}
    /\ closer = "no" /\ left = {}

-----------------------------------------------------------------------------
(* Acquire and Release. *)

\* Mutant of Locked: Close forgets to unlock the entries it closes.
LockedByClose(n) ==
    \/ \E c \in Client : call[c] = [pc |-> "opening", on |-> n]
    \/ closer \in {"closing", "done"} /\ n \in entries \ left
Locked(n) == \E c \in Client : call[c] = [pc |-> "opening", on |-> n]
Goto(c, pc) == call' = [call EXCEPT ![c].pc = pc]

\* The first look at closed, with no lock held.
CheckOpen(c, n) ==
    /\ call[c].pc = "idle"
    /\ ~closed
    /\ call' = [call EXCEPT ![c] = [pc |-> "checked", on |-> n]]
    /\ UNCHANGED <<entry, sweeping, closing>>

\* Finding or making the entry, under Pool.mu.
Register(c) ==
    /\ call[c].pc = "checked"
    /\ entries' = entries \cup {call[c].on}
    /\ Goto(c, "want")
    /\ UNCHANGED <<live, refs, idle, sweeping, closing>>

\* Entry.mu is free, and the second look at closed lets the client in.
Admitted(c) == call[c].pc = "want" /\ ~Locked(call[c].on) /\ ~closed

Rejected(c) ==
    /\ call[c].pc = "want" /\ ~Locked(call[c].on) /\ closed
    /\ Goto(c, "idle")
    /\ UNCHANGED <<entry, sweeping, closing>>

\* Mutant of AcquireLive: no reference is taken on a resource that was open.
AcquireLiveUncounted(c) ==
    /\ Admitted(c)
    /\ call[c].on \in live
    /\ Goto(c, "held")
    /\ UNCHANGED <<entry, sweeping, closing>>
AcquireLive(c) ==
    /\ Admitted(c)
    /\ call[c].on \in live
    /\ refs' = [refs EXCEPT ![call[c].on] = @ + 1]
    /\ Goto(c, "held")
    /\ UNCHANGED <<entries, live, idle, sweeping, closing>>

\* Mutant of BeginOpen: there is no second look at closed.
BeginOpenUnchecked(c) ==
    /\ call[c].pc = "want" /\ ~Locked(call[c].on)
    /\ call[c].on \notin live
    /\ Goto(c, "opening")
    /\ UNCHANGED <<entry, sweeping, closing>>
BeginOpen(c) ==
    /\ Admitted(c)
    /\ call[c].on \notin live
    /\ Goto(c, "opening")
    /\ UNCHANGED <<entry, sweeping, closing>>

OpenSucceeds(c) ==
    /\ call[c].pc = "opening"
    /\ live' = live \cup {call[c].on}
    /\ refs' = [refs EXCEPT ![call[c].on] = @ + 1]
    /\ Goto(c, "held")
    /\ UNCHANGED <<entries, idle, sweeping, closing>>

OpenFails(c) ==
    /\ call[c].pc = "opening"
    /\ Goto(c, "idle")
    /\ UNCHANGED <<entry, sweeping, closing>>

\* Mutant of Release: a handle can be released again.
ReleaseAgain(c) ==
    /\ call[c].pc \in {"held", "idle"} /\ call[c].on \in entries
    /\ Goto(c, "dropping")
    /\ UNCHANGED <<entry, sweeping, closing>>
\* HandleRef.Release: the swap of released lets one call through.
Release(c) ==
    /\ call[c].pc = "held"
    /\ Goto(c, "dropping")
    /\ UNCHANGED <<entry, sweeping, closing>>

\* Mutant of DropRef: what the running sweep found idle stays so.
DropRefStillRipe(c) ==
    LET n == call[c].on IN
    /\ call[c].pc = "dropping" /\ ~Locked(n)
    /\ refs' = [refs EXCEPT ![n] = @ - 1]
    /\ idle' = IF refs[n] = 1 THEN [idle EXCEPT ![n] = 0] ELSE idle
    /\ Goto(c, "idle")
    /\ UNCHANGED <<entries, live, sweeping, closing>>
\* Entry.Release.  The last one starts the idle clock, later than any tick so far.
DropRef(c) ==
    LET n == call[c].on IN
    /\ call[c].pc = "dropping" /\ ~Locked(n)
    /\ refs' = [refs EXCEPT ![n] = @ - 1]
    /\ IF refs[n] = 1
       THEN idle' = [idle EXCEPT ![n] = 0] /\ ripe' = ripe \ {n}
       ELSE UNCHANGED <<idle, ripe>>
    /\ Goto(c, "idle")
    /\ UNCHANGED <<entries, live, reaper, todo, closing>>

ClientStep(c) ==
    \/ \E n \in Name : CheckOpen(c, n)
    \/ Register(c)
    \/ Rejected(c)
    \/ AcquireLive(c)
    \/ BeginOpen(c)
    \/ OpenSucceeds(c)
    \/ OpenFails(c)
    \/ Release(c)
    \/ DropRef(c)

-----------------------------------------------------------------------------
(* The reaper. *)

\* Time passes.
Pass ==
    /\ \E n \in live : idle[n] < IdleTTL
    /\ idle' = [n \in Name |-> IF n \in live /\ idle[n] < IdleTTL THEN idle[n] + 1 ELSE idle[n]]
    /\ UNCHANGED <<entries, live, refs, call, sweeping, closing>>

\* The ticker fires: `now' is read, and the entries are copied.
Fire ==
    /\ reaper = "wait"
    /\ reaper' = "sweep"
    /\ todo' = entries
    /\ ripe' = { n \in Name : idle[n] = IdleTTL }
    /\ UNCHANGED <<entry, call, closing>>

\* Mutant of Reapable: the references are not looked at again under the lock.
ReapableIfRipe(n) == n \in live /\ n \in ripe
Reapable(n) == n \in live /\ refs[n] = 0 /\ n \in ripe

\* A close that fails is kept for Stats, and the resource is closed all the same.
SweepEntry(n) ==
    /\ reaper = "sweep" /\ n \in todo /\ ~Locked(n)
    /\ todo' = todo \ {n}
    /\ live' = IF Reapable(n) THEN live \ {n} ELSE live
    /\ UNCHANGED <<entries, refs, idle, call, reaper, ripe, closing>>

\* Mutant of EndSweep: the ticker is not waited for again.
EndSweepForGood ==
    /\ reaper = "sweep" /\ todo = {}
    /\ reaper' = "done"
    /\ UNCHANGED <<entry, call, todo, ripe, closing>>
EndSweep ==
    /\ reaper = "sweep" /\ todo = {}
    /\ reaper' = "wait"
    /\ UNCHANGED <<entry, call, todo, ripe, closing>>

ReaperStops ==
    /\ reaper = "wait" /\ closer = "stopping"
    /\ reaper' = "done"
    /\ UNCHANGED <<entry, call, todo, ripe, closing>>

ReaperStep == Fire \/ (\E n \in Name : SweepEntry(n)) \/ EndSweep \/ ReaperStops

-----------------------------------------------------------------------------
(* Close. *)

\* The swap of closed: a second Close goes no further.
BeginClose ==
    /\ ~closed /\ closed' = TRUE
    /\ closer' = "stopping"
    /\ UNCHANGED <<entry, call, sweeping, left>>

\* The reaper has stopped, if there is one: the entries are copied.
CopyEntries ==
    /\ closer = "stopping" /\ reaper = "done"
    /\ closer' = "closing" /\ left' = entries
    /\ UNCHANGED <<entry, call, sweeping, closed>>

\* Mutant of CloseEntry: the handles are waited for.
CloseEntryUnheld(n) ==
    /\ closer = "closing" /\ n \in left /\ ~Locked(n)
    /\ refs[n] = 0
    /\ left' = left \ {n}
    /\ live' = live \ {n}
    /\ UNCHANGED <<entries, refs, idle, call, sweeping, closed, closer>>
\* An error of the resource's own Close is reported, and changes nothing.
CloseEntry(n) ==
    /\ closer = "closing" /\ n \in left /\ ~Locked(n)
    /\ left' = left \ {n}
    /\ live' = live \ {n}
    /\ UNCHANGED <<entries, refs, idle, call, sweeping, closed, closer>>

FinishClose ==
    /\ closer = "closing" /\ left = {}
    /\ closer' = "done"
    /\ UNCHANGED <<entry, call, sweeping, closed, left>>

CloserStep == CopyEntries \/ (\E n \in Name : CloseEntry(n)) \/ FinishClose

Next ==
    \/ \E c \in Client : ClientStep(c)
    \/ Pass
    \/ ReaperStep
    \/ BeginClose
    \/ CloserStep

Spec == Init /\ [][Next]_vars

-----------------------------------------------------------------------------
(* Properties. *)

Holders(n) == { c \in Client : call[c].on = n /\ call[c].pc \in {"held", "dropping"} }

\* An entry counts its handles, however many goroutines acquire and release them.
RefsMatchHandles == \A n \in Name : refs[n] = Cardinality(Holders(n))

\* The reaper never closes a resource under a handle (pool.go Sweep): until
\* Close is called, what a client holds is open.
HeldIsLive == \A c \in Client : call[c].pc = "held" /\ ~closed => call[c].on \in live

\* Nothing outlives Close, not even what an Acquire that overtook it opened
\* (pool.go Acquire: "we never open a resource that Close's sweep has already
\* passed over").
NothingOpenAfterClose == closer = "done" => live = {} /\ \A n \in Name : ~Locked(n)

\* A resource is reaped after a full TTL without handles, even when it was
\* acquired and released between the reaper's tick and its visit.
NotReapedEarly ==
    [][\A n \in live \ live' : ~closed => refs[n] = 0 /\ idle[n] = IdleTTL]_vars

\* Close returns, whatever is being opened, swept or released.
CloseReturns == closed ~> closer = "done"

\* A resource nobody holds is closed or acquired again.
IdleIsReaped ==
    \A n \in Name : (n \in live /\ refs[n] = 0) ~> (n \notin live \/ refs[n] > 0)

\* An Acquire under way returns, and so does a Release.
CallsReturn ==
    \A c \in Client : call[c].pc \in {"checked", "want", "opening", "dropping"}
                        ~> call[c].pc \in {"idle", "held"}

=============================================================================
