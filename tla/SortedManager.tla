---------------------------- MODULE SortedManager ----------------------------
(***************************************************************************)
(* The manager of sorted indexes (sortedindex_manager.go) over the pool:   *)
(* every Acquire brings the list of source files it wants the index built  *)
(* from, the manager keeps the last one per name, and whoever gets to open *)
(* the index reads it there.                                               *)
(*                                                                         *)
(* The list is kept under Manager.mu, the opening runs under Entry.mu, and *)
(* neither is held from the one to the other.  Acquire records and enters  *)
(* the pool in one step: closed is only ever set, so that it is read a     *)
(* moment later changes nothing.                                           *)
(***************************************************************************)
EXTENDS Pool

CONSTANTS Source,       \* lists of source files
          NoSource      \* the empty list, which Acquire does not take

ASSUME SourceAssumption == NoSource \notin Source

VARIABLES
    sources,    \* SortedIndexManager.sources
    grabbed,    \* the copy the client that opens has made of its name's list
    built,      \* what each name's index, if live, was built from
    since       \* ghost: the lists recorded for its name since a client asked

lists == <<sources, grabbed, built, since>>
mvars == <<vars, lists>>

MTypeOK ==
    /\ TypeOK
    /\ sources \in [Name -> Source \cup {NoSource}]
    /\ grabbed \in [Client -> Source \cup {NoSource}]
    /\ built \in [Name -> Source \cup {NoSource}]
    /\ since \in [Client -> SUBSET Source]

MInit ==
    /\ Init
    /\ sources = [n \in Name |-> NoSource]
    /\ grabbed = [c \in Client |-> NoSource]
    /\ built = [n \in Name |-> NoSource]
    /\ since = [c \in Client |-> {}]

-----------------------------------------------------------------------------

Asking(c) == call[c].pc \in {"checked", "want", "opening"}

\* Mutant of Record: the first list a name was asked with stays.
RecordFirst(c, n, s) ==
    /\ sources' = IF sources[n] = NoSource THEN [sources EXCEPT ![n] = s] ELSE sources
    /\ since' = [d \in Client |->
                    IF d = c THEN {s}
                    ELSE IF Asking(d) /\ call[d].on = n THEN since[d] \cup {s} ELSE since[d]]
\* m.sources[name] = sourcePaths.
Record(c, n, s) ==
    /\ sources' = [sources EXCEPT ![n] = s]
    /\ since' = [d \in Client |->
                    IF d = c THEN {s}
                    ELSE IF Asking(d) /\ call[d].on = n THEN since[d] \cup {s} ELSE since[d]]

Ask(c, n, s) ==
    /\ CheckOpen(c, n)
    /\ Record(c, n, s)
    /\ UNCHANGED <<grabbed, built>>

\* The pool is closed: the list is recorded all the same.
AskRefused(c, n, s) ==
    /\ call[c].pc = "idle" /\ closed
    /\ sources' = [sources EXCEPT ![n] = s]
    /\ since' = [d \in Client |->
                    IF Asking(d) /\ call[d].on = n THEN since[d] \cup {s} ELSE since[d]]
    /\ UNCHANGED <<vars, grabbed, built>>

\* The opening copies the list under Manager.mu.
ReadSources(c) ==
    /\ call[c].pc = "opening" /\ grabbed[c] = NoSource
    /\ grabbed' = [grabbed EXCEPT ![c] = sources[call[c].on]]
    /\ UNCHANGED <<vars, sources, built, since>>

Settle(c) == since' = [since EXCEPT ![c] = {}]

\* EnsureFresh returns an index of the list that was copied.
BuildSucceeds(c) ==
    /\ grabbed[c] # NoSource
    /\ OpenSucceeds(c)
    /\ built' = [built EXCEPT ![call[c].on] = grabbed[c]]
    /\ grabbed' = [grabbed EXCEPT ![c] = NoSource]
    /\ Settle(c)
    /\ UNCHANGED sources

\* A directory that cannot be made, a source that cannot be read.
BuildFails(c) ==
    /\ grabbed[c] # NoSource
    /\ OpenFails(c)
    /\ grabbed' = [grabbed EXCEPT ![c] = NoSource]
    /\ Settle(c)
    /\ UNCHANGED <<sources, built>>

Enter(c) ==
    \/ (Register(c) \/ BeginOpen(c)) /\ UNCHANGED lists
    \/ (Rejected(c) \/ AcquireLive(c)) /\ Settle(c) /\ UNCHANGED <<sources, grabbed, built>>

Leave(c) == (Release(c) \/ DropRef(c)) /\ UNCHANGED lists

\* What the reaper or Close closes is built from nothing.
InBackground(step) ==
    /\ step
    /\ built' = [n \in Name |-> IF n \in live' THEN built[n] ELSE NoSource]
    /\ UNCHANGED <<sources, grabbed, since>>

MNext ==
    \/ \E c \in Client :
          \/ \E n \in Name, s \in Source : Ask(c, n, s) \/ AskRefused(c, n, s)
          \/ Enter(c)
          \/ ReadSources(c)
          \/ BuildSucceeds(c)
          \/ BuildFails(c)
          \/ Leave(c)
    \/ InBackground(Pass)
    \/ InBackground(ReaperStep)
    \/ InBackground(BeginClose)
    \/ InBackground(CloserStep)

MSpec == MInit /\ [][MNext]_mvars

\* The clock and the ticker do not stop, and an opening ends.  A mutex is fair: who
\* waits for an Entry's gets it, however often others take it meanwhile.  The
\* reaper's select picks at random between a tick and the stop signal, so it does
\* not prefer the tick for ever.
Progress(c) ==
    \/ Enter(c) \/ ReadSources(c) \/ BuildSucceeds(c) \/ BuildFails(c)
    \/ (DropRef(c) /\ UNCHANGED lists)
MFairSpec ==
    /\ MSpec
    /\ \A c \in Client : SF_mvars(Progress(c))
    /\ WF_mvars(InBackground(Pass))
    /\ SF_mvars(InBackground(ReaperStep))
    /\ SF_mvars(InBackground(ReaperStops \/ CloserStep))

-----------------------------------------------------------------------------
(* Properties. *)

\* An index is opened from the list its Acquire brought, or one that was recorded
\* for the name after it, never from an older one: not from what a handle held so
\* far was built from, and not from what was there when the name was last reaped
\* (sortedindex_manager.go: sourcePaths "is what's used the next time this dataset
\* needs (re)building, including after an idle reap").
OpenedFromRecentList ==
    [][\A c \in Client : BuildSucceeds(c) => built'[call[c].on] \in since[c]]_mvars

=============================================================================
