----------------------------- MODULE Durability -----------------------------
(***************************************************************************)
(* Module Bitcask on a machine that can lose power.  A process that dies   *)
(* leaves the page cache behind; a machine that goes off leaves what was   *)
(* fsynced and, of the other records, whichever pages the kernel happened  *)
(* to have written back.  A record whose pages are missing fails its       *)
(* checksum: recovery and the compactor stop at it, and reads, which do    *)
(* not look at the checksum, return what lies there.                       *)
(*                                                                         *)
(* Every step of Bitcask is here with what it does to the durable part.    *)
(* Making, shrinking, renaming and unlinking a file are taken to be        *)
(* durable at once, a failed fsync is left out, and there is one loss of   *)
(* power: a second would bring back what the pages held before.            *)
(***************************************************************************)
EXTENDS Bitcask

CONSTANTS SyncOnWrite,      \* Options.SyncOnWrite
          Garbage,          \* what reading an unreadable record gives
          MaxSyncs          \* bound: calls of Sync

ASSUME DurabilityAssumption ==
    SyncOnWrite \in BOOLEAN /\ MaxSyncs \in Nat /\ Garbage \notin Val \cup {Absent, Missing}

VARIABLES
    flushed,    \* how many leading records of each segment an fsync has covered
    lost,       \* places of records that a loss of power made unreadable
    tail,       \* what each file holds beyond its used part, slot by slot
    acked,      \* ghost: keys whose last write a caller was told is durable, and which
                \* no reopen has taken for an older one since
    power,      \* "on", "cut", or "cut closing": between snapshot and fsyncs
    syncs       \* counter for the bound

dur == <<flushed, lost, tail, acked>>
dvars == <<vars, dur, power, syncs>>

Unreadable == [key |-> Absent, val |-> Absent]
Slot == [rec : Record \cup {Unreadable}, size : 1 .. SegmentSize]
IsReadable(slot) == slot.rec # Unreadable

DTypeOK ==
    /\ TypeOK
    /\ flushed \in [SegID -> Nat] /\ \A i \in SegID : flushed[i] <= Len(file[i].recs)
    /\ lost \subseteq [seg : SegID, pos : 1 .. SegmentSize]
    /\ tail \in [SegID -> Seq(Slot)]
    /\ acked \subseteq Key
    /\ power \in {"on", "cut", "cut closing"}
    /\ syncs \in 0 .. MaxSyncs

DInit ==
    /\ Init
    /\ flushed = [i \in SegID |-> 0] /\ lost = {} /\ tail = [i \in SegID |-> <<>>]
    /\ acked = {} /\ power = "on" /\ syncs = 0

-----------------------------------------------------------------------------
(* Recovery of damaged files. *)

IsLost(i, p) == [seg |-> i, pos |-> p] \in lost
\* How many records of segment i recovery does not look at: those the snapshot covers.
Skipped(i) ==
    IF ~UseSnapshot \/ i > snap.wm THEN 0
    ELSE IF i = snap.wm THEN snap.at ELSE Len(file[i].recs)

Unread(i) == { a.pos : a \in { b \in lost : b.seg = i /\ b.pos > Skipped(i) } }
\* Mutant of Kept: the scan goes on behind a record it cannot read.
KeptToTheEnd(i) == Len(file[i].recs)
\* Mutant of Kept: recovery ends at the first segment with a record it cannot read.
KeptUpToDamage(i) ==
    IF \E j \in dir : j < i /\ Unread(j) # {} THEN 0
    ELSE IF Unread(i) = {} THEN Len(file[i].recs) ELSE Min(Unread(i)) - 1
\* The used part ends at the first record that is scanned and cannot be read.
Kept(i) == IF Unread(i) = {} THEN Len(file[i].recs) ELSE Min(Unread(i)) - 1
\* When all of it can be read, the scan runs on into what lies behind.
Revived(i) ==
    IF Unread(i) # {} \/ (UseSnapshot /\ i < snap.wm) THEN <<>>
    ELSE LET bad == { n \in DOMAIN tail[i] : ~IsReadable(tail[i][n]) }
         IN  SubSeq(tail[i], 1, IF bad = {} THEN Len(tail[i]) ELSE Min(bad) - 1)

RecordsIn(slots) == [n \in DOMAIN slots |-> slots[n].rec]
Found(i) ==
    IF Kept(i) = Len(file[i].recs) /\ tail[i] = <<>> THEN file[i].recs
    ELSE SubSeq(file[i].recs, 1, Kept(i)) \o RecordsIn(Revived(i))

\* What is behind the place where a scan stopped, if any of it can be read.
SlotAt(i, p) ==
    [rec |-> IF IsLost(i, p) THEN Unreadable ELSE file[i].recs[p], size |-> SizeOf(file[i].recs[p])]
Behind(i) ==
    LET rest == [n \in 1 .. Len(file[i].recs) - Kept(i) |-> SlotAt(i, Kept(i) + n)]
                    \o SubSeq(tail[i], Len(Revived(i)) + 1, Len(tail[i]))
    IN  IF \E n \in DOMAIN rest : IsReadable(rest[n]) THEN rest ELSE <<>>

UsedSize(recs) == Total([p \in DOMAIN recs |-> SizeOf(recs[p])])

\* Where recovery finds key k, when found is what it reads of each segment.
PlacesIn(found, k) ==
    UNION { { [seg |-> i, pos |-> p] :
                p \in { q \in Skipped(i) + 1 .. Len(found[i]) : found[i][q].key = k } } : i \in dir }
LocIn(found, k) ==
    LET S == PlacesIn(found, k)
        a == LastOf(S)
    IN  IF S = {} THEN IF UseSnapshot THEN snap.idx[k] ELSE NoLoc
        ELSE IF IsTombstone(found[a.seg][a.pos]) THEN NoLoc ELSE a
FoundIndex == LET found == [i \in SegID |-> Found(i)] IN [k \in Key |-> LocIn(found, k)]
\* Keys with a record behind the place where a scan stops: it is cut off, and what a
\* snapshot says of them now a later scan without it need not find.
CutOff ==
    { k \in Key : \E i \in dir : \E p \in Kept(i) + 1 .. Len(file[i].recs) : file[i].recs[p].key = k }

\* A read of key k at a place, which looks at nothing but the place.
Astray(recs, k, a) == a \in lost \/ a.pos \notin DOMAIN recs[a.seg] \/ recs[a.seg][a.pos].key # k
ReadAt(open, recs, k, a) ==
    IF a = NoLoc THEN Absent
    ELSE IF a.seg \notin open THEN Missing
    ELSE IF Astray(recs, k, a) THEN Garbage
    ELSE recs[a.seg][a.pos].val

\* What reads return while the DB runs, and what they would if it were opened now.
DContent ==
    LET recs == [i \in SegID |-> file[i].recs] IN
    [k \in Key |-> ReadAt(segments, recs, k, idx[k])]
DRecovered ==
    LET found == [i \in SegID |-> Found(i)] IN
    [k \in Key |-> ReadAt(dir, found, k, LocIn(found, k))]
Seen == IF proc = "open" THEN DContent ELSE DRecovered

\* A scanned segment is used as far as it was read; all but the last are cut there.
Reopened(i) ==
    LET used == [recs |-> Found(i), size |-> UsedSize(Found(i)), cap |-> file[i].cap] IN
    IF i \notin dir \/ (UseSnapshot /\ i < snap.wm) THEN file[i]
    ELSE IF i = Max(dir) THEN used ELSE Finalized(used)

DOpen ==
    /\ proc \in {"down", "closed"}
    /\ \A c \in Compactor : job[c].pc = "idle"
    /\ proc' = "open"
    /\ dir' = IF dir = {} THEN {0} ELSE dir
    /\ file' = IF dir = {} THEN [file EXCEPT ![0] = NewFile] ELSE [i \in SegID |-> Reopened(i)]
    /\ idx' = IF dir = {} THEN [k \in Key |-> NoLoc] ELSE FoundIndex
    /\ tail' = [i \in SegID |-> IF dir # {} /\ i = Max(dir) THEN Behind(i) ELSE <<>>]
    /\ lost' = { a \in lost : a.pos <= Kept(a.seg) }
    /\ flushed' = [i \in SegID |-> Min({flushed[i], Len(Found(i))})]
    /\ segments' = dir' /\ mapped' = dir'
    /\ active' = Max(dir') /\ compactOut' = NoSeg /\ nextSegID' = Max(dir') + 1
    /\ deadBytes' = [i \in SegID |-> 0] /\ compactErr' = FALSE
    /\ weak' = IF UseSnapshot THEN weak \cup CutOff ELSE {}
    /\ acked' = acked \ (weak \ weak')
    /\ UNCHANGED <<snap, job, bounds, power, syncs>>

-----------------------------------------------------------------------------
(* Writing and syncing. *)

\* Mutant of Overwritten: a slot the record covers to its end is kept, with no bytes.
OverwrittenOffByOne(slots, bytes) ==
    LET End == Sums([n \in DOMAIN slots |-> slots[n].size])
        whole == Max({ m \in 0 .. Len(slots) : m = 0 \/ End[m] < bytes })
    IN  IF slots = <<>> THEN slots
        ELSE <<[rec |-> Unreadable, size |-> End[whole + 1] - bytes]>>
                 \o SubSeq(slots, whole + 2, Len(slots))
\* A record is written over what lay behind the used part.  What it
\* covers only in part cannot be read any more.
Overwritten(slots, bytes) ==
    LET End == Sums([n \in DOMAIN slots |-> slots[n].size])
        whole == Max({ m \in 0 .. Len(slots) : End[m] <= bytes })
        rest == SubSeq(slots, whole + 1, Len(slots))
    IN  IF End[whole] = bytes \/ rest = <<>> THEN rest
        ELSE <<[rec |-> Unreadable, size |-> End[whole + 1] - bytes]>> \o Tail(rest)

\* A rotation finalizes the segment it leaves, which cuts the file there.
OverwriteTail(k, v) ==
    tail' = IF active' # active THEN [tail EXCEPT ![active] = <<>>]
            ELSE [tail EXCEPT ![active] = Overwritten(@, SizeOf([key |-> k, val |-> v]))]

FsyncAll(S) == [i \in SegID |-> IF i \in S THEN Len(file[i].recs) ELSE flushed[i]]

Acknowledge(k) ==
    /\ flushed' = IF SyncOnWrite THEN [flushed EXCEPT ![active'] = Len(file'[active'].recs)] ELSE flushed
    /\ acked' = IF SyncOnWrite THEN acked \cup {k} ELSE acked \ {k}

DPut(k, v) ==
    /\ Put(k, v)
    /\ OverwriteTail(k, v) /\ Acknowledge(k)
    /\ UNCHANGED <<lost, power, syncs>>

DDelete(k) ==
    /\ Delete(k)
    /\ OverwriteTail(k, Absent) /\ Acknowledge(k)
    /\ UNCHANGED <<lost, power, syncs>>

\* Keys whose newest record is in one of the segments S.
LastWrittenIn(S) == { k \in Key : RecordsOf(k) # {} => LastOf(RecordsOf(k)).seg \in S }

\* Sync reaches the active segment, and what a caller may count on is what is there.
Sync ==
    /\ proc = "open" /\ power = "on"
    /\ syncs < MaxSyncs /\ syncs' = syncs + 1
    /\ flushed' = FsyncAll({active})
    /\ acked' = acked \cup LastWrittenIn({active})
    /\ UNCHANGED <<vars, lost, tail, power>>

DWriteFails == WriteFails /\ tail' = [tail EXCEPT ![active] = <<>>] /\ UNCHANGED <<flushed, lost, acked, power, syncs>>

-----------------------------------------------------------------------------
(* The compactors. *)

DSkipRecord(c) ==
    /\ SkipRecord(c) /\ At(c) \notin lost
    /\ UNCHANGED <<dur, power, syncs>>

\* The copy goes to the compaction output, which nobody syncs before a Close.
DRelocate(c) ==
    /\ Relocate(c) /\ At(c) \notin lost
    /\ acked' = acked \ {Scanned(c).key}
    /\ UNCHANGED <<flushed, lost, tail, power, syncs>>

DRelocateFails(c) ==
    /\ RelocateFails(c) /\ At(c) \notin lost
    /\ UNCHANGED <<dur, power, syncs>>

\* The scan ends at a record it cannot read as it does at the end of the file.
ScanStops(c) ==
    /\ Scanning(c) /\ At(c) \in lost
    /\ Goto(c, "drop")
    /\ UNCHANGED <<disk, proc, mem, mapped, weak, bounds, dur, power, syncs>>

DRemove(c) ==
    LET i == job[c].src IN
    /\ Remove(c)
    /\ flushed' = [flushed EXCEPT ![i] = 0]
    /\ lost' = { a \in lost : a.seg # i }
    /\ tail' = [tail EXCEPT ![i] = <<>>]
    /\ UNCHANGED <<acked, power, syncs>>

DCompactorStep(c) ==
    \/ DSkipRecord(c)
    \/ DRelocate(c)
    \/ DRelocateFails(c)
    \/ ScanStops(c)
    \/ DRemove(c)
    \/ /\ \/ StartPass(c) \/ Pick(c) \/ Check(c) \/ BeginScan(c) \/ ScanUnmapped(c)
          \/ Drop(c) \/ RemoveFails(c) \/ RemoveSnapshot(c)
       /\ UNCHANGED <<dur, power, syncs>>

-----------------------------------------------------------------------------
(* Close, and the ways to end without it. *)

\* Mutant of Flush: Close closes the segments and syncs none of them.
FlushNothing(S) ==
    /\ UNCHANGED flushed
    /\ acked' = acked \cup LastWrittenIn(S)
Flush(S) ==
    /\ flushed' = FsyncAll(S)
    /\ acked' = acked \cup LastWrittenIn(S)

DFinishClose == FinishClose /\ Flush(segments) /\ UNCHANGED <<lost, tail, power, syncs>>

DCloseCutShort ==
    /\ CloseCutShort
    /\ Flush(mapped \ mapped')
    /\ UNCHANGED <<lost, tail, power, syncs>>

Unflushed ==
    UNION { { [seg |-> i, pos |-> p] : p \in flushed[i] + 1 .. Len(file[i].recs) } : i \in dir }

\* Any of the records that no fsync covered may be gone.
LosePower ==
    /\ power = "on"
    /\ EndProcess
    /\ \E gone \in SUBSET Unflushed : lost' = lost \cup gone
    /\ flushed' = [i \in SegID |-> Len(file[i].recs)]
    /\ acked' = {}
    /\ UNCHANGED <<dir, file, weak, bounds, tail, syncs>>

PowerLoss == LosePower /\ power' = "cut" /\ UNCHANGED snap

\* Close has written the snapshot, and synced it, before it syncs the segments.
PowerLossInClose ==
    /\ Stopped /\ SnapshotOnClose
    /\ LosePower
    /\ power' = "cut closing" /\ snap' = SnapshotOfIndex

DNext ==
    \/ DOpen
    \/ \E k \in Key, v \in Val : DPut(k, v)
    \/ \E k \in Key : DDelete(k)
    \/ DWriteFails
    \/ Sync
    \/ \E c \in Compactor : DCompactorStep(c)
    \/ DFinishClose
    \/ DCloseCutShort
    \/ (BeginClose \/ SnapshotFails \/ Crash) /\ UNCHANGED <<dur, power, syncs>>
    \/ PowerLoss
    \/ PowerLossInClose

DSpec == DInit /\ [][DNext]_dvars

-----------------------------------------------------------------------------
(* Properties. *)

\* After a loss of power: a record of k cannot be read or lies behind one that
\* cannot, or the index or the snapshot leads k to no record of its own.
Damaged(k) ==
    LET recs == [i \in SegID |-> file[i].recs] IN
    /\ power # "on"
    /\ \/ \E b \in lost : \E p \in b.pos .. Len(recs[b.seg]) : recs[b.seg][p].key = k
       \/ \E i \in dir : \E n \in DOMAIN tail[i] : tail[i][n].rec.key = k
       \/ \E a \in {idx[k], snap.idx[k]} : a # NoLoc /\ (a.seg \notin dir \/ Astray(recs, k, a))

\* What a caller was told is durable is there after a loss of power, at whatever
\* moment, in a Close too: a write that SyncOnWrite or Sync covered (db.go:94) and
\* no compaction has moved since, and everything once Close has returned.
AckedSurvives ==
    [][power' # power => \A k \in acked \ weak : DRecovered'[k] = Seen[k]]_dvars

\* An unreadable record costs the keys that have a record in its segment from there
\* on, and no others: recovery, restarts and compaction leave what they read alone
\* (README: a checksum failure "truncates recovery of that segment at that point").
DamageStaysInSegment ==
    [][writes' = writes =>
         LET before == Seen  after == Seen' IN
         \A k \in Key \ (weak \cup weak') :
             after[k] = before[k] \/ Damaged(k) \/ Damaged(k)']_dvars

\* A read returns bytes that are no record's only if the power went while Close was
\* between the snapshot and the segments it names (kv.go getLocked reads without a
\* checksum, and recovery does not scan what the snapshot covers).
GarbageOnlyFromEarlySnapshot ==
    ioErrs = 0 /\ power # "cut closing" => \A k \in Key : Seen[k] # Garbage

\* options.go: SyncOnWrite "fsyncs the active segment after every Put/Delete.
\* Durable but slower".
SyncedWritesSurvive ==
    [][power' # power => \A k \in Key \ weak : DRecovered'[k] = Seen[k]]_dvars

\* recovery_test.go: "a checksum failure anywhere in a segment truncates recovery of
\* that segment at that point (everything from there on is untrusted)".
TruncatedStaysDropped == \A i \in dir : Revived(i) = <<>>

=============================================================================
