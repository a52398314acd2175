------------------------------- MODULE Bitcask -------------------------------
(***************************************************************************)
(* The DB engine (internal/bitcask): a segment log on disk, an index in    *)
(* memory, and compactors that rewrite segments under the writers' feet.   *)
(*                                                                         *)
(* Every critical section under db.mu is one action.  compactSegment is    *)
(* cut where the code drops the lock, so several compactors (the           *)
(* background goroutine Bg, and callers of Compact) interleave with the    *)
(* writers, with Close, with one another and with a crash at every one of  *)
(* those points.                                                           *)
(*                                                                         *)
(* A location counts records, not bytes; a record has a size all the same, *)
(* since rotation and the compaction ratio are about sizes.  A crash ends  *)
(* the process and keeps the page cache: a torn last record is cut off by  *)
(* its checksum (segment.forEach), so a torn append is no append.          *)
(***************************************************************************)
EXTENDS Integers, Sequences, FiniteSetsExt

CONSTANTS Key, Val,
          Absent,           \* a tombstone's value, and what reading no key gives
          Missing,          \* reading a key whose segment is gone: an error
          Compactor,        \* who may run compactNow
          Bg,               \* the one of them that is compactionLoop
          SegmentSize,      \* Options.SegmentSize
          ValSize,          \* size of a value record; a tombstone has size 1
          RatioNum, RatioDen, \* Options.CompactionRatio
          SnapshotOnClose,  \* Options.SnapshotOnClose
          MaxSegID,         \* bound: segment ids (uint32 in the code)
          MaxWrites,        \* bound: calls of Put and Delete
          MaxCrashes,       \* bound: crashes
          MaxIOErrors       \* bound: failing file operations

ASSUME OptionsAssumption ==
    /\ SegmentSize \in Nat /\ ValSize \in 1 .. SegmentSize
    /\ RatioNum \in 1 .. RatioDen /\ RatioDen \in Nat
    /\ SnapshotOnClose \in BOOLEAN
ASSUME ValueAssumption ==
    /\ Absent \notin Val /\ Missing \notin Val /\ Absent # Missing
ASSUME BgAssumption == Bg \in Compactor
ASSUME BoundAssumption ==
    MaxSegID \in Nat /\ MaxWrites \in Nat /\ MaxCrashes \in Nat /\ MaxIOErrors \in Nat

SegID == 0 .. MaxSegID
NoSeg == -1
NoLoc == [seg |-> NoSeg, pos |-> 0]
Location == [seg : SegID, pos : Nat \ {0}] \cup {NoLoc}
Record == [key : Key, val : Val \cup {Absent}]
IsTombstone(r) == r.val = Absent
SizeOf(r) == IF IsTombstone(r) THEN 1 ELSE ValSize

VARIABLES
    dir,        \* ids of the segment files on disk
    file,       \* their records, used size and capacity
    snap,       \* the index snapshot file: watermark segment and length, entries
    proc,       \* "down", "open", "closing" (db.closed set), "closed"
    idx,        \* db.idx
    segments,   \* keys of db.segments
    mapped,     \* ids whose mapping and descriptor are open
    active, compactOut, nextSegID, deadBytes, compactErr,
    job,        \* where each compactor is in compactNow
    weak,       \* ghost: keys whose records no longer replay in write order
    writes, crashes, ioErrs  \* counters for the bounds

disk == <<dir, file, snap>>
mem == <<idx, segments, active, compactOut, nextSegID, deadBytes, compactErr>>
bounds == <<writes, crashes, ioErrs>>
vars == <<disk, proc, mem, mapped, job, weak, bounds>>

NoFile == [recs |-> <<>>, size |-> 0, cap |-> 0]
NoSnap == [wm |-> NoSeg, at |-> 0, idx |-> [k \in Key |-> NoLoc]]
IdleJob == [pc |-> "idle", src |-> NoSeg, pos |-> 0]

TypeOK ==
    /\ dir \subseteq SegID
    /\ file \in [SegID -> [recs : Seq(Record), size : Nat, cap : Nat]]
    /\ snap \in [wm : SegID \cup {NoSeg}, at : Nat, idx : [Key -> Location]]
    /\ proc \in {"down", "open", "closing", "closed"}
    /\ idx \in [Key -> Location]
    /\ segments \subseteq SegID /\ mapped \subseteq SegID
    /\ active \in SegID \cup {NoSeg} /\ compactOut \in SegID \cup {NoSeg}
    /\ nextSegID \in 0 .. MaxSegID + 1
    /\ deadBytes \in [SegID -> Nat]
    /\ compactErr \in BOOLEAN
    /\ job \in [Compactor ->
                  [pc : {"idle", "pick", "check", "begin", "scan", "drop", "remove", "unsnap"},
                   src : SegID \cup {NoSeg}, pos : Nat]]
    /\ weak \subseteq Key
    /\ writes \in 0 .. MaxWrites /\ crashes \in 0 .. MaxCrashes /\ ioErrs \in 0 .. MaxIOErrors

Init ==
    /\ dir = {} /\ file = [i \in SegID |-> NoFile] /\ snap = NoSnap
    /\ proc = "down"
    /\ idx = [k \in Key |-> NoLoc] /\ segments = {} /\ mapped = {}
    /\ active = NoSeg /\ compactOut = NoSeg /\ nextSegID = 0
    /\ deadBytes = [i \in SegID |-> 0] /\ compactErr = FALSE
    /\ job = [c \in Compactor |-> IdleJob]
    /\ weak = {} /\ writes = 0 /\ crashes = 0 /\ ioErrs = 0

-----------------------------------------------------------------------------
(* The records on disk. *)

\* The sums of the first so many numbers of a sequence, and the sum of all of them:
\* a recursive function, of which proofs can speak.
Sums(s) == LET upTo[n \in 0 .. Len(s)] == IF n = 0 THEN 0 ELSE upTo[n - 1] + s[n] IN upTo
Total(s) == Sums(s)[Len(s)]

RecordAt(a) == file[a.seg].recs[a.pos]
RecordsOf(k) ==
    UNION { { [seg |-> i, pos |-> p] : p \in {q \in DOMAIN file[i].recs : file[i].recs[q].key = k} }
            : i \in dir }
Before(a, b) == a.seg < b.seg \/ (a.seg = b.seg /\ a.pos < b.pos)
\* Mutant of LastOf: the oldest record wins.
FirstOf(S) == CHOOSE a \in S : \A b \in S \ {a} : Before(a, b)
LastOf(S) == CHOOSE a \in S : \A b \in S \ {a} : Before(b, a)

\* The value a location stands for when only the segments in S are open.
ValueIn(S, a) ==
    IF a = NoLoc THEN Absent ELSE IF a.seg \in S THEN RecordAt(a).val ELSE Missing

\* What Get returns for each key while the DB runs.
Content == [k \in Key |-> ValueIn(segments, idx[k])]

-----------------------------------------------------------------------------
(* Recovery: what Open makes of the files. *)

UseSnapshot == snap.wm \in dir
\* Mutants of Replayed: what was appended to the watermark segment since is
\* missed; the watermark is not used.
ReplayedPastWatermark(k) == { a \in RecordsOf(k) : UseSnapshot => a.seg > snap.wm }
ReplayedFromStart(k) == RecordsOf(k)
\* recover scans the segments in id order, from the watermark on if it can.
Replayed(k) ==
    { a \in RecordsOf(k) :
        UseSnapshot => a.seg > snap.wm \/ (a.seg = snap.wm /\ a.pos > snap.at) }
RecoveredLoc(k) ==
    LET S == Replayed(k)
        a == LastOf(S)
    IN  IF S = {} THEN IF UseSnapshot THEN snap.idx[k] ELSE NoLoc
        ELSE IF IsTombstone(RecordAt(a)) THEN NoLoc ELSE a
\* What reads would return if the DB were opened on the files as they are.
Recovered == [k \in Key |-> LET a == RecoveredLoc(k) IN ValueIn(dir, a)]

Finalized(f) == [f EXCEPT !.cap = f.size]
NewFile == [NoFile EXCEPT !.cap = SegmentSize]

Open ==
    /\ proc \in {"down", "closed"}
    /\ \A c \in Compactor : job[c].pc = "idle"
    /\ proc' = "open"
    /\ idx' = [k \in Key |-> RecoveredLoc(k)]
    /\ \/ /\ dir = {}
          /\ dir' = {0}
          /\ file' = [file EXCEPT ![0] = NewFile]
       \/ /\ dir # {}
          /\ UNCHANGED dir
          /\ file' = [i \in SegID |->
                        IF i \in dir \ {Max(dir)} /\ ~(UseSnapshot /\ i < snap.wm)
                        THEN Finalized(file[i]) ELSE file[i]]
    /\ segments' = dir'
    /\ mapped' = dir'
    /\ active' = Max(dir')
    /\ compactOut' = NoSeg
    /\ nextSegID' = Max(dir') + 1
    /\ deadBytes' = [i \in SegID |-> 0]
    /\ compactErr' = FALSE
    /\ weak' = IF UseSnapshot THEN weak ELSE {}
    /\ UNCHANGED <<snap, job, bounds>>

-----------------------------------------------------------------------------
(* Appending: ensureCapacity and ensureCompactionCapacity, then append.    *)
(* cur is the segment appended to so far, active or compactOut.            *)

Fits(cur, n) == cur # NoSeg /\ file[cur].cap - file[cur].size >= n
Target(cur, r) == IF Fits(cur, SizeOf(r)) THEN cur ELSE nextSegID
CanAppend(cur, r) == Fits(cur, SizeOf(r)) \/ nextSegID \in SegID \ dir
FinalizedFiles(cur) == IF cur = NoSeg THEN file ELSE [file EXCEPT ![cur] = Finalized(@)]
Extended(f, r) == [f EXCEPT !.recs = Append(f.recs, r), !.size = f.size + SizeOf(r)]

\* A record of k in segment i is passed over by a replay: an older one comes after
\* it, or the snapshot is taken to cover it.
Passed(i, k) ==
    \/ \E a \in RecordsOf(k) : a.seg > i
    \/ UseSnapshot /\ i < snap.wm

AppendRecord(cur, r) ==
    /\ CanAppend(cur, r)
    /\ file' = IF Fits(cur, SizeOf(r))
               THEN [file EXCEPT ![cur] = Extended(@, r)]
               ELSE [FinalizedFiles(cur) EXCEPT ![nextSegID] = Extended(NewFile, r)]
    /\ dir' = dir \cup {Target(cur, r)}
    /\ segments' = segments \cup {Target(cur, r)}
    /\ mapped' = mapped \cup {Target(cur, r)}
    /\ nextSegID' = IF Fits(cur, SizeOf(r)) THEN nextSegID ELSE nextSegID + 1
    /\ weak' = IF Passed(Target(cur, r), r.key) THEN weak \cup {r.key} ELSE weak

\* Mutant of EndOf: the offset is taken one record early.
EndOfBeforeAppend(i) == [seg |-> i, pos |-> Len(file'[i].recs) - 1]
\* Where the record that was just appended to segment i is.
EndOf(i) == [seg |-> i, pos |-> Len(file'[i].recs)]

\* createSegment fails: an error of the file system, which may leave an empty
\* file behind, or such a file is in the way (O_EXCL).
CreateFails(cur) ==
    /\ file' = FinalizedFiles(cur)
    /\ \/ nextSegID \in dir /\ UNCHANGED <<dir, ioErrs>>
       \/ /\ nextSegID \in SegID \ dir
          /\ ioErrs < MaxIOErrors /\ ioErrs' = ioErrs + 1
          /\ dir' \in {dir, dir \cup {nextSegID}}

-----------------------------------------------------------------------------
(* The writers. *)

Write(k, v) ==
    LET r == [key |-> k, val |-> v] IN
    /\ proc = "open"
    /\ writes < MaxWrites /\ writes' = writes + 1
    /\ AppendRecord(active, r)
    /\ active' = Target(active, r)
    /\ UNCHANGED <<snap, proc, compactOut, compactErr, job, crashes, ioErrs>>

\* Mutants of WithSuperseded: the bytes are taken off; they are put down to the
\* segment written to.
WithSupersededTakenOff(dead, k) ==
    IF idx[k] = NoLoc THEN dead ELSE [dead EXCEPT ![idx[k].seg] = @ - ValSize]
WithSupersededInActive(dead, k) ==
    IF idx[k] = NoLoc THEN dead ELSE [dead EXCEPT ![active] = @ + ValSize]
\* addDeadBytes for the record k's index entry stopped pointing at.
WithSuperseded(dead, k) ==
    IF idx[k] = NoLoc THEN dead ELSE [dead EXCEPT ![idx[k].seg] = @ + ValSize]

Put(k, v) ==
    /\ Write(k, v)
    /\ idx' = [idx EXCEPT ![k] = EndOf(active')]
    /\ deadBytes' = WithSuperseded(deadBytes, k)

\* Mutant of Delete: the tombstone's own bytes are not counted.
DeleteUncounted(k) ==
    /\ Write(k, Absent)
    /\ idx' = [idx EXCEPT ![k] = NoLoc]
    /\ deadBytes' = WithSuperseded(deadBytes, k)

Delete(k) ==
    /\ Write(k, Absent)
    /\ idx' = [idx EXCEPT ![k] = NoLoc]
    /\ deadBytes' = WithSuperseded([deadBytes EXCEPT ![active'] = @ + 1], k)

\* A Put or Delete that has to rotate and cannot.
WriteFails ==
    /\ proc = "open"
    /\ \E r \in Record : ~Fits(active, SizeOf(r))
    /\ CreateFails(active)
    /\ UNCHANGED <<snap, proc, mem, mapped, job, weak, writes, crashes>>

-----------------------------------------------------------------------------
(* The compactors. *)

Goto(c, pc) == job' = [job EXCEPT ![c].pc = pc]
\* compactNow returns; its caller records the outcome.
EndPass(c, err) == job' = [job EXCEPT ![c] = IdleJob] /\ compactErr' = err

\* The ticker fires, or someone calls Compact and finds db.closed unset.
StartPass(c) ==
    /\ job[c].pc = "idle"
    /\ proc = "open" \/ (c = Bg /\ proc = "closing")
    /\ Goto(c, "pick")
    /\ UNCHANGED <<disk, proc, mem, mapped, weak, bounds>>

\* Mutants of Eligible: the compaction output, the active segment is a candidate too.
EligibleOrOutput ==
    { i \in segments \ {active} :
        file[i].cap # 0 /\ deadBytes[i] * RatioDen >= RatioNum * file[i].cap }
EligibleOrActive ==
    { i \in segments \ {compactOut} :
        file[i].cap # 0 /\ deadBytes[i] * RatioDen >= RatioNum * file[i].cap }
Eligible ==
    { i \in segments \ {active, compactOut} :
        file[i].cap # 0 /\ deadBytes[i] * RatioDen >= RatioNum * file[i].cap }

Pick(c) ==
    /\ job[c].pc = "pick"
    /\ \/ \E i \in Eligible : job' = [job EXCEPT ![c] = [pc |-> "check", src |-> i, pos |-> 0]]
                              /\ UNCHANGED compactErr
       \/ Eligible = {} /\ EndPass(c, FALSE)
    /\ UNCHANGED <<disk, proc, idx, segments, active, compactOut, nextSegID, deadBytes,
                   mapped, weak, bounds>>

\* Mutant of Check: a segment that is gone is waited for.
CheckAgain(c) ==
    /\ job[c].pc = "check"
    /\ Goto(c, IF job[c].src \in segments \ {active} THEN "begin" ELSE "check")
    /\ UNCHANGED <<disk, proc, mem, mapped, weak, bounds>>

\* The lookup of src under the lock, which is then released.
Check(c) ==
    /\ job[c].pc = "check"
    /\ Goto(c, IF job[c].src \in segments \ {active} THEN "begin" ELSE "pick")
    /\ UNCHANGED <<disk, proc, mem, mapped, weak, bounds>>

\* forEach takes the mapping, without the lock: none if another compactor or
\* Close has unmapped src meanwhile.
BeginScan(c) ==
    LET i == job[c].src IN
    /\ job[c].pc = "begin"
    /\ IF i \in mapped /\ file[i].recs # <<>>
       THEN job' = [job EXCEPT ![c].pc = "scan", ![c].pos = 1]
       ELSE Goto(c, "drop")
    /\ UNCHANGED <<disk, proc, mem, mapped, weak, bounds>>

ScanOn(c) ==
    IF job[c].pos < Len(file[job[c].src].recs)
    THEN job' = [job EXCEPT ![c].pos = @ + 1]
    ELSE Goto(c, "drop")

Scanning(c) == job[c].pc = "scan" /\ job[c].src \in mapped
At(c) == [seg |-> job[c].src, pos |-> job[c].pos]
Scanned(c) == RecordAt(At(c))
\* Mutant of IsLive: the record's offset is compared with the value's.
IsLiveOffByOne(c) == idx[Scanned(c).key] = [At(c) EXCEPT !.pos = @ + 1]
IsLive(c) == idx[Scanned(c).key] = At(c)

\* A tombstone (never carried forward) or a superseded record.
SkipRecord(c) ==
    /\ Scanning(c)
    /\ IsTombstone(Scanned(c)) \/ ~IsLive(c)
    /\ ScanOn(c)
    /\ UNCHANGED <<disk, proc, mem, mapped, weak, bounds>>

\* Mutant of Relocate: the index is repointed only for the records that go to a
\* segment already begun.
RelocateUnindexed(c) ==
    LET r == Scanned(c) IN
    /\ Scanning(c)
    /\ ~IsTombstone(r) /\ IsLive(c)
    /\ AppendRecord(compactOut, r)
    /\ compactOut' = Target(compactOut, r)
    /\ idx' = IF compactOut' = compactOut THEN [idx EXCEPT ![r.key] = EndOf(compactOut')] ELSE idx
    /\ ScanOn(c)
    /\ UNCHANGED <<snap, proc, active, deadBytes, compactErr, bounds>>

Relocate(c) ==
    LET r == Scanned(c) IN
    /\ Scanning(c)
    /\ ~IsTombstone(r) /\ IsLive(c)
    /\ AppendRecord(compactOut, r)
    /\ compactOut' = Target(compactOut, r)
    /\ idx' = [idx EXCEPT ![r.key] = EndOf(compactOut')]
    /\ ScanOn(c)
    /\ UNCHANGED <<snap, proc, active, deadBytes, compactErr, bounds>>

\* The output cannot be rotated.  The pass ends; records moved so far stay moved.
RelocateFails(c) ==
    /\ Scanning(c)
    /\ ~IsTombstone(Scanned(c)) /\ IsLive(c)
    /\ ~Fits(compactOut, SizeOf(Scanned(c)))
    /\ CreateFails(compactOut)
    /\ EndPass(c, TRUE)
    /\ UNCHANGED <<snap, proc, idx, segments, active, compactOut, nextSegID, deadBytes,
                   mapped, weak, writes, crashes>>

\* The process ends, and all that it holds in memory with it.
EndProcess ==
    /\ proc' = "down"
    /\ idx' = [k \in Key |-> NoLoc] /\ segments' = {} /\ mapped' = {}
    /\ active' = NoSeg /\ compactOut' = NoSeg /\ nextSegID' = 0
    /\ deadBytes' = [i \in SegID |-> 0] /\ compactErr' = FALSE
    /\ job' = [c \in Compactor |-> IdleJob]

\* The page cache outlives it.
Vanish == EndProcess /\ UNCHANGED <<disk, weak>>

\* The mapping went away under a scan: the process faults, or the address was
\* mapped again and the scan reads records that are not src's, all not live.
ScanUnmapped(c) ==
    /\ job[c].pc = "scan" /\ job[c].src \notin mapped
    /\ \/ Vanish
       \/ Goto(c, "drop") /\ UNCHANGED <<disk, proc, mem, mapped, weak>>
    /\ UNCHANGED bounds

Drop(c) ==
    LET i == job[c].src IN
    /\ job[c].pc = "drop"
    /\ deadBytes' = [deadBytes EXCEPT ![i] = 0]
    /\ segments' = segments \ {i}
    /\ Goto(c, "remove")
    /\ UNCHANGED <<disk, proc, idx, active, compactOut, nextSegID, compactErr, mapped, weak, bounds>>

\* Keys whose deletion is forgotten with segment i: its tombstone was the last
\* word, and another file or the snapshot still holds a value.
Undeleted(i) ==
    { k \in Key :
        /\ idx[k] = NoLoc
        /\ \E a \in RecordsOf(k) : a.seg = i /\ IsTombstone(RecordAt(a))
        /\ \/ \E a \in RecordsOf(k) : a.seg # i /\ ~IsTombstone(RecordAt(a))
           \/ snap.idx[k] # NoLoc }

\* segment.remove: close, then unlink.  Closing twice is an error.
Remove(c) ==
    LET i == job[c].src IN
    /\ job[c].pc = "remove"
    /\ i \in mapped
    /\ mapped' = mapped \ {i}
    /\ dir' = dir \ {i}
    /\ file' = [file EXCEPT ![i] = NoFile]
    /\ weak' = weak \cup Undeleted(i)
    /\ Goto(c, "unsnap")
    /\ UNCHANGED <<snap, proc, mem, bounds>>

RemoveFails(c) ==
    LET i == job[c].src IN
    /\ job[c].pc = "remove"
    /\ \/ i \notin mapped /\ UNCHANGED <<mapped, ioErrs>>
       \/ /\ i \in mapped /\ mapped' = mapped \ {i}
          /\ ioErrs < MaxIOErrors /\ ioErrs' = ioErrs + 1
    /\ EndPass(c, TRUE)
    /\ UNCHANGED <<disk, proc, idx, segments, active, compactOut, nextSegID, deadBytes,
                   weak, writes, crashes>>

\* The snapshot goes last, and an error in removing it is ignored.
RemoveSnapshot(c) ==
    /\ job[c].pc = "unsnap"
    /\ \/ snap' = NoSnap /\ UNCHANGED ioErrs
       \/ snap # NoSnap /\ ioErrs < MaxIOErrors /\ ioErrs' = ioErrs + 1 /\ UNCHANGED snap
    /\ job' = [job EXCEPT ![c] = [IdleJob EXCEPT !.pc = "pick"]]
    /\ UNCHANGED <<dir, file, proc, mem, mapped, weak, writes, crashes>>

CompactorStep(c) ==
    \/ Pick(c)
    \/ Check(c)
    \/ BeginScan(c)
    \/ SkipRecord(c)
    \/ Relocate(c)
    \/ RelocateFails(c)
    \/ ScanUnmapped(c)
    \/ Drop(c)
    \/ Remove(c)
    \/ RemoveFails(c)
    \/ RemoveSnapshot(c)

-----------------------------------------------------------------------------
(* Close and crash. *)

BeginClose ==
    /\ proc = "open"
    /\ proc' = "closing"
    /\ UNCHANGED <<disk, mem, mapped, job, weak, bounds>>

\* The compactor has stopped; only the background one is waited for.
Stopped == proc = "closing" /\ job[Bg].pc = "idle"

SnapshotOfIndex == [wm |-> active, at |-> Len(file[active].recs), idx |-> idx]

FinishClose ==
    /\ Stopped
    /\ proc' = "closed"
    /\ snap' = IF SnapshotOnClose THEN SnapshotOfIndex ELSE snap
    /\ mapped' = mapped \ segments
    /\ UNCHANGED <<dir, file, mem, job, weak, bounds>>

\* saveSnapshot fails: Close returns at once, every segment still open.
SnapshotFails ==
    /\ Stopped
    /\ SnapshotOnClose
    /\ ioErrs < MaxIOErrors /\ ioErrs' = ioErrs + 1
    /\ proc' = "closed"
    /\ UNCHANGED <<disk, mem, mapped, job, weak, writes, crashes>>

\* A segment cannot be synced or closed: the segments not reached yet, in the
\* map's order, stay open.
CloseCutShort ==
    /\ Stopped
    /\ ioErrs < MaxIOErrors /\ ioErrs' = ioErrs + 1
    /\ proc' = "closed"
    /\ snap' = IF SnapshotOnClose THEN SnapshotOfIndex ELSE snap
    /\ \E S \in SUBSET segments : mapped' = mapped \ S
    /\ UNCHANGED <<dir, file, mem, job, weak, writes, crashes>>

Crash ==
    /\ proc # "down"
    /\ crashes < MaxCrashes /\ crashes' = crashes + 1
    /\ Vanish
    /\ UNCHANGED <<writes, ioErrs>>

-----------------------------------------------------------------------------

Next ==
    \/ Open
    \/ \E k \in Key, v \in Val : Put(k, v)
    \/ \E k \in Key : Delete(k)
    \/ WriteFails
    \/ \E c \in Compactor : StartPass(c) \/ CompactorStep(c)
    \/ BeginClose
    \/ FinishClose
    \/ SnapshotFails
    \/ CloseCutShort
    \/ Crash

Spec == Init /\ [][Next]_vars

-----------------------------------------------------------------------------
(* Properties. *)

\* Following the index never leads astray (kv.go getLocked): an entry whose
\* segment is known names a record of that very key, a value, in a segment that
\* is on disk and, while calls are served, mapped.
IndexSound ==
    \A k \in Key :
        idx[k].seg \in segments =>
            /\ idx[k].seg \in dir
            /\ idx[k].pos \in DOMAIN file[idx[k].seg].recs
            /\ RecordAt(idx[k]).key = k /\ ~IsTombstone(RecordAt(idx[k]))
            /\ proc \in {"open", "closing"} => idx[k].seg \in mapped

\* Live keys whose segment is gone: Get reports an internal error for them.
Orphans == { k \in Key : idx[k] # NoLoc /\ idx[k].seg \notin segments }

\* No write and no compaction, whatever its interleaving, orphans a key
\* (compaction.go: relocate every live record, then drop the segment).
NoNewOrphans ==
    [][(proc \in {"open", "closing"} /\ proc' # "down") => Orphans' \subseteq Orphans]_vars

\* compactSegment unlinks a file only when no index entry needs it and nobody
\* appends to it.
UnlinkedFilesAreDead ==
    [][\A i \in dir \ dir' :
          i \notin {active, compactOut} /\ \A k \in Key : idx[k].seg # i]_vars

\* What reads return changes by a write only: a compactor's step, between any two
\* steps of the others, shows nothing (compaction.go: the live record is copied
\* and repointed before its segment goes).
CompactionInvisible ==
    [][(writes' = writes /\ proc = "open" /\ proc' = "open") => Content' = Content]_vars

\* At any moment a reopen brings back exactly what reads return now, except for
\* the weak keys (recovery.go: replay in segment order).
RecoverableUnlessWeak ==
    proc \in {"open", "closing"} => \A k \in Key \ weak : Recovered[k] = Content[k]

\* A snapshot written by Close restores every key, weak or not, as long as no
\* segment above the watermark is replayed on top of it (index_snapshot.go).
CleanCloseRestoresAll ==
    [][(/\ proc = "closing" /\ proc' = "closed" /\ ioErrs' = ioErrs
         /\ snap'.wm = active /\ active = Max(dir)) => Recovered' = Content]_vars

\* Bytes of segment i that no index entry points at.
InUse(i, p) == \E k \in Key : idx[k] = [seg |-> i, pos |-> p]
Dead(i) ==
    Total([p \in DOMAIN file[i].recs |-> IF InUse(i, p) THEN 0 ELSE SizeOf(file[i].recs[p])])

\* A segment is never taken for emptier than it is (db.go addDeadBytes): bytes
\* that count as dead are dead, so compaction is not triggered by live data.
DeadBytesNeverOvercount ==
    proc \in {"open", "closing"} => \A i \in segments : deadBytes[i] <= Dead(i)

\* A Put or a Delete counts exactly the bytes it made garbage, in the segment
\* that holds them (kv.go:42-45, 130-137).
WritesAccountForGarbage ==
    [][writes' # writes =>
         \A i \in segments' : deadBytes'[i] - deadBytes[i] = Dead(i)' - Dead(i)]_vars

\* The DB implements the store of module KVStore: reads and writes act on one
\* key atomically, compaction is invisible, and a restart changes no key but a
\* weak one.
Store == INSTANCE KVStore WITH
    kv <- IF proc = "open" THEN Content ELSE Recovered, up <- proc = "open"
ImplementsStore == Store!Spec

=============================================================================
