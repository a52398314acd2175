-------------------------- MODULE DurabilityProofs --------------------------
(***************************************************************************)
(* Proofs about module Durability.                                         *)
(*                                                                         *)
(* While the power is on, the machine is the one of module Bitcask: no     *)
(* record is lost and nothing lies behind the used parts, so its           *)
(* invariants hold, and what is acknowledged is either the last record of  *)
(* its key and flushed, or a deletion with no value left to come back.     *)
(* From that follows what a loss of power spares.                          *)
(*                                                                         *)
(* After it, whatever was lost, the state keeps its types; and if no file  *)
(* operation failed and the power did not go in the middle of a Close,     *)
(* nothing that the snapshot or the index lead to is among what was lost,  *)
(* so that no read returns garbage.                                        *)
(*                                                                         *)
(* With any failures, and in a Close too, what the index and the snapshot  *)
(* say of a key is its last record or leads to no record of its own; a     *)
(* compactor drops a segment before it has copied a key's last record only *)
(* when the scan stopped before that record at a lost one.  So damage does *)
(* not leave its segment.                                                  *)
(***************************************************************************)
EXTENDS Durability, BitcaskStoreProofs, SequenceTheorems

-----------------------------------------------------------------------------
(* The size of a file is that of its records. *)

SizedRight(f) ==
    /\ f.size = UsedSize(f.recs) /\ Len(f.recs) <= f.size
    /\ f.size <= SegmentSize /\ f.cap <= SegmentSize
SizesAddUp == \A i \in SegID : SizedRight(file[i])

LEMMA SizesFit == \A r \in Record : SizeOf(r) \in 1 .. SegmentSize
<1>1. ValSize \in 1 .. SegmentSize /\ SegmentSize \in Nat
  BY OptionsAssumption
<1>2. 1 \in 1 .. SegmentSize
  BY <1>1
<1> QED
  BY <1>1, <1>2 DEF SizeOf

LEMMA UsedSizes ==
    ASSUME NEW recs \in Seq(Record)
    PROVE  /\ UsedSize(recs) \in Nat
           /\ \A r \in Record : UsedSize(Append(recs, r)) = UsedSize(recs) + SizeOf(r)
<1> DEFINE S(q) == [p \in DOMAIN q |-> SizeOf(q[p])]
<1>1. ASSUME NEW q \in Seq(Record)
      PROVE  S(q) \in Seq(Nat) /\ Len(S(q)) = Len(q)
  <2>1. S(q) = [p \in DOMAIN q |-> S(q)[p]] /\ \A p \in DOMAIN q : S(q)[p] \in Nat
    BY SizeIsNat
  <2> HIDE DEF S
  <2> QED
    BY <2>1, SizesAreSeq
<1>2. \A q : UsedSize(q) = Total(S(q))
  BY DEF UsedSize
<1>3. ASSUME NEW r \in Record
      PROVE  UsedSize(Append(recs, r)) = UsedSize(recs) + SizeOf(r)
  <2> DEFINE q == Append(recs, r)
  <2>1. PICK n \in Nat : n = Len(recs)
    OBVIOUS
  <2>2. /\ q \in Seq(Record) /\ Len(q) = n + 1 /\ DOMAIN q = 1 .. n + 1 /\ DOMAIN recs = 1 .. n
        /\ q[n + 1] = r /\ \A p \in 1 .. n : q[p] = recs[p]
    BY <2>1
  <2> HIDE DEF q
  <2>3. /\ S(q)[n + 1] = SizeOf(r) /\ \A p \in 1 .. n : S(q)[p] = S(recs)[p]
    BY <2>1, <2>2
  <2>4. /\ S(q) \in Seq(Nat) /\ S(recs) \in Seq(Nat) /\ Len(S(q)) = n + 1 /\ Len(S(recs)) = n
    BY <1>1, <2>1, <2>2
  <2> HIDE DEF S
  <2>5. Total(S(q)) = Total(S(recs)) + S(q)[Len(S(q))]
    BY <2>3, <2>4, TotalOfAppend
  <2> QED
    BY <1>2, <2>3, <2>4, <2>5 DEF q
<1>4. UsedSize(recs) \in Nat
  <2> HIDE DEF S
  <2> QED
    BY <1>1, <1>2, SumsGrow
<1> QED
  BY <1>3, <1>4

LEMMA NothingUsed == UsedSize(<<>>) = 0
<1>1. [p \in DOMAIN <<>> |-> SizeOf(<<>>[p])] = <<>>
  OBVIOUS
<1> QED
  BY <1>1, TotalOfNothing DEF UsedSize

\* What a step makes of a file: cut off behind its records, emptied, or one record longer.
FileMoves(f, g) ==
    \/ g.recs = f.recs /\ g.size = f.size /\ g.cap \in {f.cap, f.size}
    \/ g.recs = <<>> /\ g.size = 0 /\ g.cap \in {0, SegmentSize}
    \/ \E r \in Record :
           /\ g.recs = Append(f.recs, r) /\ g.size = f.size + SizeOf(r)
           /\ g.cap = f.cap /\ g.size <= g.cap

LEMMA FinalizedMoves ==
    ASSUME file \in [SegID -> File], NEW cur \in SegID \cup {NoSeg}
    PROVE  \A i \in SegID : FileMoves(file[i], FinalizedFiles(cur)[i])
<1>1. \A f \in File : Finalized(f).recs = f.recs /\ Finalized(f).size = f.size /\ Finalized(f).cap = f.size
  BY DEF File, Finalized
<1> QED
  BY <1>1 DEF FinalizedFiles, FileMoves

LEMMA AppendMoves ==
    ASSUME TypeOK, GoneIsEmpty, NEW cur \in SegID \cup {NoSeg}, NEW r \in Record, AppendRecord(cur, r)
    PROVE  \A i \in SegID : FileMoves(file[i], file'[i]) \/ FileMoves(NewFile, file'[i])
<1>1. file \in [SegID -> File] /\ NoSeg \notin SegID
  BY DEF TypeOK, File, NoSeg, SegID
<1>2. ASSUME NEW f \in File, f.size + SizeOf(r) <= f.cap
      PROVE  FileMoves(f, Extended(f, r))
  <2>1. /\ Extended(f, r).recs = Append(f.recs, r) /\ Extended(f, r).size = f.size + SizeOf(r)
        /\ Extended(f, r).cap = f.cap
    BY DEF Extended, File
  <2> QED
    BY <1>2, <2>1 DEF FileMoves
<1>3. CASE Fits(cur, SizeOf(r))
  <2>1. /\ cur \in SegID /\ file' = [file EXCEPT ![cur] = Extended(file[cur], r)]
        /\ file[cur].cap - file[cur].size >= SizeOf(r)
    BY <1>3 DEF Fits, AppendRecord
  <2>2. file[cur] \in File /\ SizeOf(r) \in Nat
    BY <1>1, <2>1, SizeIsNat
  <2>3. file[cur].size + SizeOf(r) <= file[cur].cap
    BY <2>1, <2>2 DEF File
  <2>4. FileMoves(file[cur], Extended(file[cur], r))
    BY <1>2, <2>2, <2>3
  <2>5. \A i \in SegID : FileMoves(file[i], file[i])
    BY DEF FileMoves
  <2> QED
    BY <1>1, <2>1, <2>4, <2>5
<1>4. CASE ~Fits(cur, SizeOf(r))
  <2>1. /\ nextSegID \in SegID
        /\ file' = [FinalizedFiles(cur) EXCEPT ![nextSegID] = Extended(NewFile, r)]
    BY <1>4 DEF AppendRecord, CanAppend
  <2>2. FinalizedFiles(cur) \in [SegID -> File]
    BY <1>1, FinalizedKeeps
  <2>3. FileMoves(NewFile, Extended(NewFile, r))
    <3>1. NewFile.size = 0 /\ NewFile.cap = SegmentSize /\ NewFile \in File
      BY NewFileShape DEF NewFile, NoFile
    <3>2. 0 + SizeOf(r) <= SegmentSize
      BY SizesFit, OptionsAssumption
    <3> QED
      BY <1>2, <3>1, <3>2
  <2> QED
    BY <1>1, <2>1, <2>2, <2>3, FinalizedMoves
<1> QED
  BY <1>3, <1>4

LEMMA MovesKeepSize ==
    ASSUME NEW f \in File, NEW g, SizedRight(f), FileMoves(f, g)
    PROVE  SizedRight(g)
<1>1. /\ f.recs \in Seq(Record) /\ f.size \in Nat /\ f.cap \in Nat /\ Len(f.recs) \in Nat
      /\ SegmentSize \in Nat
  BY OptionsAssumption DEF File
<1>2. CASE g.recs = f.recs /\ g.size = f.size /\ g.cap \in {f.cap, f.size}
  BY <1>1, <1>2 DEF SizedRight
<1>3. CASE g.recs = <<>> /\ g.size = 0 /\ g.cap \in {0, SegmentSize}
  BY <1>1, <1>3, NothingUsed DEF SizedRight
<1>4. ASSUME NEW r \in Record,
             g.recs = Append(f.recs, r), g.size = f.size + SizeOf(r), g.cap = f.cap, g.size <= g.cap
      PROVE  SizedRight(g)
  <2>1. UsedSize(g.recs) = UsedSize(f.recs) + SizeOf(r)
    BY <1>1, <1>4, UsedSizes
  <2>2. Len(g.recs) = Len(f.recs) + 1
    BY <1>1, <1>4
  <2>3. SizeOf(r) \in 1 .. SegmentSize
    BY SizesFit
  <2>4. PICK n : n = SizeOf(r)
    OBVIOUS
  <2> QED
    BY <1>1, <1>4, <2>1, <2>2, <2>3, <2>4 DEF SizedRight
<1> QED
  BY <1>2, <1>3, <1>4 DEF FileMoves

\* Every step of module Bitcask keeps the sizes right.
LEMMA NextSizes ==
    ASSUME IInv, GoneIsEmpty, SizesAddUp, [Next]_vars
    PROVE  SizesAddUp'
<1>1. /\ TypeOK /\ file \in [SegID -> File] /\ \A c \in Compactor : JobSound(c)
      /\ {active, compactOut} \subseteq SegID \cup {NoSeg}
  <2>1. TypeOK /\ \A c \in Compactor : JobSound(c)
    BY DEF IInv
  <2> QED
    BY <2>1 DEF TypeOK, File
<1>2. NewFile \in File /\ SizedRight(NewFile)
  BY NewFileShape, NothingUsed, OptionsAssumption DEF NewFile, NoFile, SizedRight
<1>3. SUFFICES \A i \in SegID : FileMoves(file[i], file'[i]) \/ FileMoves(NewFile, file'[i])
  <2> SUFFICES ASSUME NEW i \in SegID PROVE SizedRight(file'[i])
    BY DEF SizesAddUp, SizedRight, UsedSize, SizeOf, IsTombstone
  <2>1. file[i] \in File /\ SizedRight(file[i])
    BY <1>1 DEF SizesAddUp
  <2> QED
    BY <1>2, <1>3, <2>1, MovesKeepSize
<1>4. ASSUME NEW cur \in {active, compactOut}, NEW r \in Record, AppendRecord(cur, r)
      PROVE  \A i \in SegID : FileMoves(file[i], file'[i]) \/ FileMoves(NewFile, file'[i])
  BY <1>1, <1>4, AppendMoves
<1>5. ASSUME NEW k \in Key, NEW v \in Val \cup {Absent}, Write(k, v)
      PROVE  \A i \in SegID : FileMoves(file[i], file'[i]) \/ FileMoves(NewFile, file'[i])
  <2>1. [key |-> k, val |-> v] \in Record
    BY DEF Record
  <2> QED
    BY <1>4, <1>5, <2>1 DEF Write
<1>6. ASSUME NEW c \in Compactor, Relocate(c)
      PROVE  \A i \in SegID : FileMoves(file[i], file'[i]) \/ FileMoves(NewFile, file'[i])
  <2>1. job[c].src \in SegID /\ job[c].pos \in DOMAIN file[job[c].src].recs
    BY <1>1, <1>6 DEF JobSound, Scanning, Relocate
  <2>2. file[job[c].src].recs \in Seq(Record)
    BY <1>1, <2>1 DEF File
  <2>3. Scanned(c) \in Record
    BY <2>1, <2>2 DEF Scanned, RecordAt, At
  <2> QED
    BY <1>4, <1>6, <2>3 DEF Relocate
<1>7. ASSUME NEW cur \in {active, compactOut}, CreateFails(cur)
      PROVE  \A i \in SegID : FileMoves(file[i], file'[i])
  BY <1>1, <1>7, FinalizedMoves DEF CreateFails
<1>8. CASE Open
  <2>1. \A f \in File : FileMoves(f, Finalized(f)) /\ FileMoves(f, f)
    BY DEF File, Finalized, FileMoves
  <2>2. FileMoves(NewFile, NewFile)
    BY DEF FileMoves
  <2> QED
    BY <1>1, <1>8, <2>1, <2>2 DEF Open
<1>9. ASSUME NEW c \in Compactor, Remove(c)
      PROVE  \A i \in SegID : FileMoves(file[i], file'[i])
  <2>1. file' = [file EXCEPT ![job[c].src] = NoFile]
    BY <1>9 DEF Remove
  <2> QED
    BY <1>1, <2>1 DEF NoFile, FileMoves
<1>10. ASSUME UNCHANGED file
       PROVE  \A i \in SegID : FileMoves(file[i], file'[i])
  BY <1>10 DEF FileMoves
<1>11. ASSUME NEW c \in Compactor, StartPass(c) \/ CompactorStep(c),
              ~Relocate(c), ~RelocateFails(c), ~Remove(c)
       PROVE  UNCHANGED file
  BY <1>11 DEF StartPass, CompactorStep, Pick, Check, BeginScan, SkipRecord,
               ScanUnmapped, Vanish, EndProcess, Drop, RemoveFails, RemoveSnapshot, mem, disk
<1>12. ASSUME NEW c \in Compactor, RelocateFails(c)
       PROVE  \A i \in SegID : FileMoves(file[i], file'[i])
  BY <1>7, <1>12 DEF RelocateFails
<1>13. CASE WriteFails
  BY <1>7, <1>13 DEF WriteFails
<1>14. CASE BeginClose \/ FinishClose \/ SnapshotFails \/ CloseCutShort \/ Crash \/ UNCHANGED vars
  BY <1>10, <1>14 DEF BeginClose, FinishClose, SnapshotFails, CloseCutShort, Crash, Vanish, vars, disk
<1> QED
  BY <1>5, <1>6, <1>8, <1>9, <1>10, <1>11, <1>12, <1>13, <1>14 DEF Next, Put, Delete

-----------------------------------------------------------------------------
(* While nothing is damaged. *)

NoTails == [i \in SegID |-> <<>>]
Whole == lost = {} /\ tail = NoTails

LEMMA WholeFound ==
    ASSUME Whole, NEW i \in SegID
    PROVE  /\ Unread(i) = {} /\ Kept(i) = Len(file[i].recs) /\ Found(i) = file[i].recs
           /\ Revived(i) = <<>>
<1>1. Unread(i) = {} /\ tail[i] = <<>>
  BY DEF Whole, NoTails, Unread
<1>2. Kept(i) = Len(file[i].recs)
  BY <1>1 DEF Kept
<1>3. Found(i) = file[i].recs
  BY <1>1, <1>2 DEF Found
<1>4. Revived(i) = <<>>
  <2>1. DOMAIN <<>> = {} /\ Len(<<>>) = 0
    OBVIOUS
  <2>2. { n \in DOMAIN tail[i] : ~IsReadable(tail[i][n]) } = {}
    BY <1>1, <2>1
  <2>3. SubSeq(<<>>, 1, 0) = <<>>
    OBVIOUS
  <2> QED
    BY <1>1, <2>1, <2>2, <2>3 DEF Revived
<1> QED
  BY <1>1, <1>2, <1>3, <1>4

\* Recovery that finds the first so many records of each file replays of them what
\* that of module Bitcask would.
LEMMA PlacesAre ==
    ASSUME TypeOK, NEW k \in Key, NEW found,
           \A i \in SegID :
               /\ found[i] \in Seq(Record) /\ Len(found[i]) <= Len(file[i].recs)
               /\ \A p \in 1 .. Len(found[i]) : found[i][p] = file[i].recs[p]
    PROVE  PlacesIn(found, k) = { a \in Replayed(k) : a.pos <= Len(found[a.seg]) }
<1>1. \A a : a \in RecordsOf(k) <=>
               /\ a \in Place /\ a.seg \in dir
               /\ a.pos \in DOMAIN file[a.seg].recs
               /\ file[a.seg].recs[a.pos].key = k
  BY RecordsAre
<1>2. /\ dir \subseteq SegID /\ snap.at \in Nat /\ (UseSnapshot => snap.wm \in SegID)
      /\ \A i \in SegID : file[i].recs \in Seq(Record)
  BY DEF TypeOK, UseSnapshot
<1>3. ASSUME NEW a
      PROVE  a \in PlacesIn(found, k) <=>
               \E i \in dir : \E p \in Skipped(i) + 1 .. Len(found[i]) :
                   found[i][p].key = k /\ a = [seg |-> i, pos |-> p]
  BY DEF PlacesIn
<1>4. ASSUME NEW i \in dir
      PROVE  /\ Len(file[i].recs) \in Nat /\ DOMAIN file[i].recs = 1 .. Len(file[i].recs)
             /\ Len(found[i]) \in Nat /\ Len(found[i]) <= Len(file[i].recs)
             /\ Skipped(i) \in Nat /\ i \in SegID
             /\ \A p \in 1 .. Len(file[i].recs) :
                  p > Skipped(i) <=> (UseSnapshot => i > snap.wm \/ (i = snap.wm /\ p > snap.at))
  <2>1. i \in SegID /\ file[i].recs \in Seq(Record) /\ found[i] \in Seq(Record)
    BY <1>2
  <2>2. /\ Len(file[i].recs) \in Nat /\ DOMAIN file[i].recs = 1 .. Len(file[i].recs)
        /\ Len(found[i]) \in Nat /\ Len(found[i]) <= Len(file[i].recs)
    BY <2>1
  <2> QED
    BY <1>2, <2>1, <2>2 DEF Skipped, SegID
<1>5. ASSUME NEW a \in PlacesIn(found, k)
      PROVE  a \in Replayed(k) /\ a.pos <= Len(found[a.seg])
  <2>1. PICK i \in dir : \E p \in Skipped(i) + 1 .. Len(found[i]) :
            found[i][p].key = k /\ a = [seg |-> i, pos |-> p]
    BY <1>3
  <2>2. PICK p \in Skipped(i) + 1 .. Len(found[i]) :
            found[i][p].key = k /\ a = [seg |-> i, pos |-> p]
    BY <2>1
  <2>3. /\ p \in 1 .. Len(file[i].recs) /\ p \in 1 .. Len(found[i]) /\ p > Skipped(i)
        /\ p \in Nat \ {0} /\ a.seg = i /\ a.pos = p
    BY <1>4, <2>2
  <2>4. file[i].recs[p].key = k
    BY <1>4, <2>2, <2>3
  <2>5. a \in RecordsOf(k)
    BY <1>1, <1>4, <2>2, <2>3, <2>4 DEF Place
  <2> QED
    BY <1>4, <2>3, <2>5 DEF Replayed
<1>6. ASSUME NEW a \in Replayed(k), a.pos <= Len(found[a.seg])
      PROVE  a \in PlacesIn(found, k)
  <2>1. a \in RecordsOf(k) /\ (UseSnapshot => a.seg > snap.wm \/ (a.seg = snap.wm /\ a.pos > snap.at))
    BY DEF Replayed
  <2>2. /\ a \in Place /\ a.seg \in dir /\ a.pos \in DOMAIN file[a.seg].recs
        /\ file[a.seg].recs[a.pos].key = k
    BY <1>1, <2>1
  <2>3. PICK i \in dir : i = a.seg
    BY <2>2
  <2>4. PICK p \in 1 .. Len(file[i].recs) : p = a.pos
    BY <1>4, <2>2, <2>3
  <2>5. p > Skipped(i) /\ a = [seg |-> i, pos |-> p]
    BY <1>4, <2>1, <2>2, <2>3, <2>4 DEF Place
  <2>6. p \in Skipped(i) + 1 .. Len(found[i]) /\ p \in 1 .. Len(found[i])
    BY <1>4, <1>6, <2>3, <2>4, <2>5
  <2>7. found[i][p].key = k
    BY <1>4, <2>2, <2>3, <2>4, <2>6
  <2> QED
    BY <1>3, <2>5, <2>6, <2>7
<1> QED
  BY <1>5, <1>6

\* With all that is on disk found, recovery is that of module Bitcask.
LEMMA LocIsRecovered ==
    ASSUME TypeOK, NEW k \in Key, NEW found, \A i \in SegID : found[i] = file[i].recs
    PROVE  LocIn(found, k) = RecoveredLoc(k)
<1>1. PlacesIn(found, k) = Replayed(k)
  <2>1. ASSUME NEW i \in SegID
        PROVE  /\ found[i] \in Seq(Record) /\ Len(found[i]) <= Len(file[i].recs)
               /\ \A p \in 1 .. Len(found[i]) : found[i][p] = file[i].recs[p]
    <3>1. found[i] = file[i].recs /\ file[i].recs \in Seq(Record)
      BY DEF TypeOK
    <3>2. Len(file[i].recs) \in Nat
      BY <3>1
    <3> QED
      BY <3>1, <3>2
  <2>2. PlacesIn(found, k) = { a \in Replayed(k) : a.pos <= Len(found[a.seg]) }
    BY <2>1, PlacesAre
  <2>3. ASSUME NEW a \in Replayed(k) PROVE a.pos <= Len(found[a.seg])
    <3>1. a.seg \in SegID /\ a.pos \in DOMAIN file[a.seg].recs
      BY RecordsAre DEF Replayed, Place
    <3>2. found[a.seg] = file[a.seg].recs /\ file[a.seg].recs \in Seq(Record)
      BY <3>1 DEF TypeOK
    <3> QED
      BY <3>1, <3>2
  <2> QED
    BY <2>2, <2>3
<1>2. ASSUME Replayed(k) # {}
      PROVE  found[LastOf(Replayed(k)).seg] = file[LastOf(Replayed(k)).seg].recs
  <2>1. Replayed(k) \in SUBSET RecordsOf(k)
    BY DEF Replayed
  <2>2. LastOf(Replayed(k)) \in RecordsOf(k)
    BY <1>2, <2>1, LastExists
  <2> QED
    BY <2>2, RecordsAre DEF Place
<1> QED
  BY <1>1, <1>2 DEF LocIn, RecoveredLoc, RecordAt

LEMMA WholeOpen ==
    ASSUME IInv, SizesAddUp, Whole, DOpen
    PROVE  /\ Open /\ lost' = {} /\ tail' = NoTails
           /\ \A i \in SegID : flushed[i] \in Nat /\ flushed[i] <= Len(file[i].recs)
                                => flushed'[i] = flushed[i]
<1>1. /\ TypeOK /\ LocsSound /\ IdsBelow /\ file \in [SegID -> File]
  BY DEF IInv, TypeOK, File
<1>2. \A i \in SegID : /\ Unread(i) = {} /\ Kept(i) = Len(file[i].recs)
                       /\ Found(i) = file[i].recs /\ Revived(i) = <<>>
  BY WholeFound
<1>21. ASSUME NEW i \in SegID, flushed[i] \in Nat, flushed[i] <= Len(file[i].recs)
      PROVE  flushed'[i] = flushed[i]
  <2>1. flushed'[i] = Min({flushed[i], Len(file[i].recs)})
    BY <1>2, <1>21 DEF DOpen
  <2>2. file[i].recs \in Seq(Record)
    BY <1>1 DEF File
  <2>3. Len(file[i].recs) \in Nat
    BY <2>2
  <2> QED
    BY <1>21, <2>1, <2>3 DEF Min
<1>22. lost' = {}
  BY DEF DOpen, Whole
<1>23. CutOff = {}
  <2>1. \A i \in dir : Kept(i) + 1 .. Len(file[i].recs) = {}
    <3> SUFFICES ASSUME NEW i \in dir PROVE Kept(i) + 1 .. Len(file[i].recs) = {}
      OBVIOUS
    <3>1. i \in SegID /\ Kept(i) = Len(file[i].recs) /\ file[i].recs \in Seq(Record)
      BY <1>1, <1>2 DEF TypeOK, File
    <3>2. Len(file[i].recs) \in Nat
      BY <3>1
    <3> QED
      BY <3>1, <3>2
  <2> QED
    BY <2>1 DEF CutOff
<1>3. CASE dir = {}
  <2>1. \A k \in Key : RecoveredLoc(k) = NoLoc
    BY <1>1, <1>3, RecoveredLocSound
  <2>2. idx' = [k \in Key |-> RecoveredLoc(k)]
    BY <1>3, <2>1 DEF DOpen
  <2>3. Open
    BY <1>3, <1>23, <2>2 DEF DOpen, Open
  <2>4. tail' = NoTails
    BY <1>3 DEF DOpen, NoTails
  <2> QED
    BY <1>21, <1>22, <2>3, <2>4
<1>4. CASE dir # {}
  <2> DEFINE found == [i \in SegID |-> Found(i)]
  <2>1. \A i \in SegID : found[i] = file[i].recs
    BY <1>2
  <2>2. FoundIndex = [k \in Key |-> RecoveredLoc(k)]
    <3>1. FoundIndex = [k \in Key |-> LocIn(found, k)]
      BY DEF FoundIndex
    <3> HIDE DEF found
    <3>2. \A k \in Key : LocIn(found, k) = RecoveredLoc(k)
      BY <1>1, <2>1, LocIsRecovered
    <3> QED
      BY <3>1, <3>2
  <2>3. ASSUME NEW i \in SegID
        PROVE  Reopened(i) = IF i \in dir \ {Max(dir)} /\ ~(UseSnapshot /\ i < snap.wm)
                             THEN Finalized(file[i]) ELSE file[i]
    <3>1. [recs |-> Found(i), size |-> UsedSize(Found(i)), cap |-> file[i].cap] = file[i]
      BY <1>1, <1>2 DEF File, SizesAddUp, SizedRight
    <3> QED
      BY <3>1 DEF Reopened
  <2>4. file' = [i \in SegID |->
                    IF i \in dir \ {Max(dir)} /\ ~(UseSnapshot /\ i < snap.wm)
                    THEN Finalized(file[i]) ELSE file[i]]
    BY <1>4, <2>3 DEF DOpen
  <2>5. Open
    BY <1>4, <1>23, <2>2, <2>4 DEF DOpen, Open
  <2>6. \A i \in SegID : Behind(i) = <<>>
    <3> SUFFICES ASSUME NEW i \in SegID PROVE Behind(i) = <<>>
      OBVIOUS
    <3>1. tail[i] = <<>> /\ Revived(i) = <<>> /\ Kept(i) = Len(file[i].recs)
      BY <1>2 DEF Whole, NoTails
    <3>2. file[i].recs \in Seq(Record)
      BY <1>1 DEF File
    <3>3. [n \in 1 .. Len(file[i].recs) - Kept(i) |-> SlotAt(i, Kept(i) + n)] = <<>>
      <4>1. 1 .. Len(file[i].recs) - Kept(i) = {}
        BY <3>1, <3>2
      <4> QED
        BY <4>1
    <3>4. SubSeq(tail[i], Len(Revived(i)) + 1, Len(tail[i])) = <<>>
      BY <3>1
    <3>5. <<>> \o <<>> = <<>> /\ DOMAIN <<>> = {}
      OBVIOUS
    <3> QED
      BY <3>3, <3>4, <3>5 DEF Behind
  <2>7. tail' = NoTails
    BY <1>4, <2>6 DEF DOpen, NoTails
  <2> QED
    BY <1>21, <1>22, <2>5, <2>7
<1> QED
  BY <1>3, <1>4

-----------------------------------------------------------------------------
(* What a caller was told is durable. *)

FlushedBound ==
    flushed \in [SegID -> Nat] /\ \A i \in SegID : flushed[i] <= Len(file[i].recs)

\* The last record of k is on the disk, or no record and no snapshot holds a value of k.
Firmly(k) ==
    LET b == LastOf(RecordsOf(k)) IN RecordsOf(k) # {} /\ b.pos <= flushed[b.seg]
NoValue(k) ==
    /\ \A a \in RecordsOf(k) : IsTombstone(RecordAt(a))
    /\ UseSnapshot => snap.idx[k] = NoLoc

AckSound == \A k \in acked \ weak : Firmly(k) \/ NoValue(k)

LEMMA WatermarkStaysGone ==
    ASSUME IInv, IInv', RInv, snap' = snap,
           \A i \in dir' \ dir : dir = {} \/ (proc # "down" /\ i = nextSegID)
    PROVE  UseSnapshot' => UseSnapshot
<1>1. /\ snap.wm # NoSeg => \E j \in dir : snap.wm <= j
      /\ proc # "down" => snap.wm < nextSegID
      /\ snap.wm \in SegID \cup {NoSeg} /\ nextSegID \in Int
  BY DEF IInv, RInv, WatermarkPassed, TypeOK
<1>2. NoSeg \notin dir'
  BY DEF IInv, TypeOK, NoSeg, SegID
<1>3. SUFFICES ASSUME snap.wm \in dir', snap.wm \notin dir PROVE FALSE
  BY DEF UseSnapshot
<1>4. snap.wm # NoSeg /\ (dir = {} \/ snap.wm < snap.wm)
  BY <1>1, <1>2, <1>3
<1> QED
  BY <1>1, <1>3, <1>4 DEF SegID

\* While nothing is written, what is durable stays so.
LEMMA AckStays ==
    ASSUME IInv, IInv', RInv, NEW k \in Key \ weak, Firmly(k) \/ NoValue(k),
           FlushedBound, FlushedBound',
           dir \subseteq dir', \A i \in SegID : file'[i].recs = file[i].recs,
           \A i \in dir' \ dir : dir = {} \/ (proc # "down" /\ i = nextSegID),
           snap' \in {snap, NoSnap} \/ (snap'.idx = idx /\ proc # "down"),
           \A i \in SegID : flushed'[i] >= flushed[i]
    PROVE  Firmly(k)' \/ NoValue(k)'
<1>1. TypeOK /\ TypeOK' /\ GoneIsEmpty /\ dir \subseteq SegID /\ dir' \subseteq SegID
  BY DEF IInv, RInv, TypeOK
<1>2. \A i \in dir' \ dir : file[i].recs = <<>>
  BY <1>1 DEF GoneIsEmpty
<1>3. RecordsOf(k)' = RecordsOf(k)
  BY <1>1, <1>2, SameRecords
<1>4. \A a \in RecordsOf(k) : a \in Place
  BY <1>1, RecordsAre
<1>5. \A a \in RecordsOf(k) : RecordAt(a)' = RecordAt(a)
  BY <1>4 DEF RecordAt, Place
<1>6. CASE Firmly(k)
  <2> DEFINE b == LastOf(RecordsOf(k))
  <2>1. b \in RecordsOf(k) /\ b.pos <= flushed[b.seg]
    BY <1>1, <1>6, LastExists DEF Firmly
  <2>2. b.seg \in SegID /\ b.pos \in Nat
    BY <1>4, <2>1 DEF Place
  <2>3. flushed[b.seg] \in Nat /\ flushed'[b.seg] \in Nat /\ flushed'[b.seg] >= flushed[b.seg]
    BY <2>2 DEF FlushedBound
  <2>4. b.pos <= flushed'[b.seg]
    BY <2>1, <2>2, <2>3
  <2> HIDE DEF b
  <2>5. LastOf(RecordsOf(k))' = b /\ RecordsOf(k)' # {}
    BY <1>3, <2>1 DEF b
  <2> QED
    BY <2>4, <2>5 DEF Firmly
<1>7. CASE NoValue(k)
  <2>1. \A a \in RecordsOf(k)' : IsTombstone(RecordAt(a))'
    BY <1>3, <1>5, <1>7 DEF NoValue, IsTombstone
  <2>2. ASSUME UseSnapshot' PROVE snap'.idx[k] = NoLoc
    <3>1. CASE snap' = snap
      BY <1>7, <2>2, <3>1, WatermarkStaysGone DEF NoValue
    <3>2. CASE snap' = NoSnap
      BY <2>2, <3>2, <1>1 DEF UseSnapshot, NoSnap, NoSeg, SegID
    <3>3. CASE snap'.idx = idx /\ proc # "down"
      <4>1. idx[k] = LatestLoc(k)
        BY <3>3 DEF RInv, IndexIsLatest
      <4>2. RecordsOf(k) = {} \/ LastOf(RecordsOf(k)) \in RecordsOf(k)
        BY <1>1, LastExists
      <4> QED
        BY <1>7, <3>3, <4>1, <4>2 DEF NoValue, LatestLoc
    <3> QED
      BY <3>1, <3>2, <3>3
  <2> QED
    BY <2>1, <2>2 DEF NoValue
<1> QED
  BY <1>6, <1>7

\* What is synced becomes durable.
LEMMA AckBegins ==
    ASSUME IInv, IInv', RInv, NEW S \in SUBSET SegID, NEW k \in LastWrittenIn(S) \ weak,
           FlushedBound, FlushedBound', flushed' = FsyncAll(S), UNCHANGED <<dir, file>>,
           snap' = snap \/ (snap'.idx = idx /\ proc # "down")
    PROVE  Firmly(k)' \/ NoValue(k)'
<1>1. TypeOK /\ TypeOK' /\ k \in Key \ weak
  BY DEF IInv, LastWrittenIn
<1>2. CASE RecordsOf(k) = {}
  <2>1. Replayed(k) = {} /\ LatestLoc(k) = NoLoc
    BY <1>2 DEF Replayed, LatestLoc
  <2>2. NoValue(k)
    BY <1>1, <1>2, <2>1 DEF NoValue, RInv, SnapshotIsLatest
  <2>3. \A i \in SegID : flushed'[i] >= flushed[i]
    BY DEF FlushedBound, FsyncAll
  <2> QED
    BY <1>1, <2>2, <2>3, AckStays
<1>3. CASE RecordsOf(k) # {}
  <2> DEFINE b == LastOf(RecordsOf(k))
  <2>1. RecordsOf(k)' = RecordsOf(k)
    BY DEF RecordsOf
  <2>2. b \in RecordsOf(k) /\ b.seg \in S
    BY <1>1, <1>3, LastExists DEF LastWrittenIn
  <2>3. b.seg \in SegID /\ b.pos \in DOMAIN file[b.seg].recs
    BY <1>1, <2>2, RecordsAre DEF Place
  <2>4. file[b.seg].recs \in Seq(Record)
    BY <1>1, <2>3 DEF TypeOK
  <2>5. b.pos <= Len(file[b.seg].recs)
    BY <2>3, <2>4
  <2>6. b.pos <= flushed'[b.seg]
    BY <2>2, <2>3, <2>5 DEF FsyncAll
  <2> HIDE DEF b
  <2>7. LastOf(RecordsOf(k))' = b
    BY <2>1 DEF b
  <2> QED
    BY <1>3, <2>1, <2>6, <2>7 DEF Firmly
<1> QED
  BY <1>2, <1>3

\* A record appended for another key changes nothing for k.
LEMMA AckStaysOnAppend ==
    ASSUME IInv, IInv', RInv, FlushedBound, FlushedBound', proc # "down",
           NEW cur \in {active, compactOut}, NEW r \in Record,
           AppendRecord(cur, r), snap' = snap, \A i \in SegID : flushed'[i] >= flushed[i],
           NEW k \in Key \ {r.key}, Firmly(k) \/ NoValue(k)
    PROVE  Firmly(k)' \/ NoValue(k)'
<1>1. PICK t : t = Target(cur, r)
  OBVIOUS
<1>2. GoneIsEmpty /\ TypeOK
  BY DEF RInv, IInv
<1>3. RecordsOf(k)' = RecordsOf(k) /\ \A a \in RecordsOf(k) : RecordAt(a)' = RecordAt(a)
  <2>1. RecordsOf(k)' = RecordsOf(k) \cup IF k = r.key THEN {EndOf(t)} ELSE {}
    BY <1>1, <1>2, AppendAdds DEF IInv
  <2>2. \A a \in RecordsOf(k) : RecordAt(a)' = RecordAt(a)
    BY <1>1, <1>2, AppendAdds DEF IInv
  <2> QED
    BY <2>1, <2>2
<1>4. CASE Firmly(k)
  <2> DEFINE b == LastOf(RecordsOf(k))
  <2>1. b \in RecordsOf(k) /\ b.pos <= flushed[b.seg]
    BY <1>2, <1>4, LastExists DEF Firmly
  <2>2. b.seg \in SegID /\ b.pos \in Nat
    BY <1>2, <2>1, RecordsAre DEF Place
  <2>3. flushed[b.seg] \in Nat /\ flushed'[b.seg] \in Nat /\ flushed'[b.seg] >= flushed[b.seg]
    BY <2>2 DEF FlushedBound
  <2>4. b.pos <= flushed'[b.seg]
    BY <2>1, <2>2, <2>3
  <2> HIDE DEF b
  <2>5. LastOf(RecordsOf(k))' = b /\ RecordsOf(k)' # {}
    BY <1>3, <2>1 DEF b
  <2> QED
    BY <2>4, <2>5 DEF Firmly
<1>5. CASE NoValue(k)
  <2>1. \A a \in RecordsOf(k)' : IsTombstone(RecordAt(a))'
    BY <1>3, <1>5 DEF NoValue, IsTombstone
  <2>2. \A i \in dir' \ dir : i = nextSegID
    BY DEF AppendRecord, Target, Fits, IInv, SegsOnDisk
  <2>3. UseSnapshot' => UseSnapshot
    BY <2>2, WatermarkStaysGone
  <2> QED
    BY <1>5, <2>1, <2>3 DEF NoValue
<1> QED
  BY <1>4, <1>5

\* A write that is synced at once is durable, unless it made its key weak.
LEMMA SyncedIsFirm ==
    ASSUME IInv, IInv', RInv, FlushedBound', NEW k \in Key, NEW v \in Val \cup {Absent}, Write(k, v),
           k \notin weak', flushed'[active'] = Len(file'[active'].recs)
    PROVE  Firmly(k)'
<1> DEFINE r == [key |-> k, val |-> v]
<1>1. /\ r \in Record /\ AppendRecord(active, r) /\ active' = Target(active, r) /\ r.key = k
      /\ GoneIsEmpty /\ TypeOK /\ TypeOK'
  BY DEF Write, Record, RInv, IInv
<1> HIDE DEF r
<1>2. PICK t : t = Target(active, r)
  OBVIOUS
<1>3. t \in SegID /\ t = active'
  BY <1>1, <1>2, AppendedRecords DEF IInv
<1>4. /\ RecordsOf(k)' = RecordsOf(k) \cup {EndOf(t)} /\ EndOf(t) \in Place
      /\ \A a \in RecordsOf(k) : a.seg <= t => Before(a, EndOf(t))
  <2>1. /\ RecordsOf(k)' = RecordsOf(k) \cup IF k = r.key THEN {EndOf(t)} ELSE {}
        /\ EndOf(t) \in Place
        /\ \A a \in RecordsOf(k) : a # EndOf(t) /\ (a.seg <= t => Before(a, EndOf(t)))
    BY <1>1, <1>2, AppendAdds DEF IInv
  <2> QED
    BY <1>1, <2>1
<1>5. \A a \in RecordsOf(k) : a.seg <= t
  <2>1. ~Passed(t, k)
    BY <1>1, <1>2 DEF AppendRecord
  <2>2. \A a \in RecordsOf(k) : a.seg \in SegID
    BY <1>1, RecordsAre DEF Place
  <2> QED
    BY <1>3, <2>1, <2>2 DEF Passed, SegID
<1>6. PICK e : e = EndOf(t)
  OBVIOUS
<1>7. /\ RecordsOf(k)' \in SUBSET Place /\ e \in RecordsOf(k)'
      /\ \A b \in RecordsOf(k)' \ {e} : Before(b, e)
  <2>1. RecordsOf(k) \subseteq Place
    BY <1>1, RecordsAre
  <2> QED
    BY <1>4, <1>5, <1>6, <2>1
<1>8. \A S \in SUBSET Place : \A a \in S : (\A b \in S \ {a} : Before(b, a)) => LastOf(S) = a
  BY LastIs
<1>9. LastOf(RecordsOf(k))' = e
  <2>1. PICK S \in SUBSET Place : S = RecordsOf(k)'
    BY <1>7
  <2>2. LastOf(S) = e
    BY <1>7, <1>8, <2>1
  <2>3. LastOf(RecordsOf(k))' = LastOf(S)
    BY <2>1 DEF LastOf, Before
  <2> QED
    BY <2>2, <2>3
<1>10. e.seg = t /\ e.pos = Len(file'[t].recs)
  BY <1>6 DEF EndOf
<1>11. e.pos <= flushed'[e.seg]
  <2>1. flushed'[t] \in Nat
    BY <1>3 DEF FlushedBound
  <2> QED
    BY <1>3, <1>10, <2>1
<1> QED
  BY <1>7, <1>9, <1>11 DEF Firmly

\* The records of k that a compactor unlinks are not missed.
LEMMA AckStaysOnRemove ==
    ASSUME IInv, IInv', RInv, FlushedBound, NEW c \in Compactor, Remove(c), proc # "down",
           flushed' = [flushed EXCEPT ![job[c].src] = 0],
           NEW k \in Key \ weak', Firmly(k) \/ NoValue(k)
    PROVE  Firmly(k)' \/ NoValue(k)'
<1>1. PICK i : i = job[c].src
  OBVIOUS
<1>2. /\ TypeOK /\ TypeOK' /\ i \in mapped \ segments /\ i \in SegID
      /\ dir' = dir \ {i} /\ file' = [file EXCEPT ![i] = NoFile] /\ snap' = snap
      /\ flushed' = [flushed EXCEPT ![i] = 0]
      /\ weak' = weak \cup Undeleted(i)
  <2>1. TypeOK /\ TypeOK' /\ JobSound(c) /\ job[c].pc = "remove"
    BY DEF IInv, Remove
  <2> QED
    BY <1>1, <2>1 DEF JobSound, Remove
<1>3. k \in Key /\ k \notin weak /\ k \notin Undeleted(i)
  BY <1>2
<1>4. \A a : a \in RecordsOf(k)' <=> a \in RecordsOf(k) /\ a.seg # i
  <2>1. \A a : a \in RecordsOf(k) <=>
                 /\ a \in Place /\ a.seg \in dir
                 /\ a.pos \in DOMAIN file[a.seg].recs
                 /\ file[a.seg].recs[a.pos].key = k
    BY <1>2, RecordsAre
  <2>2. \A a : a \in RecordsOf(k)' <=>
                 /\ a \in Place /\ a.seg \in dir'
                 /\ a.pos \in DOMAIN file'[a.seg].recs
                 /\ file'[a.seg].recs[a.pos].key = k
    BY <1>2, RecordsArePrimed
  <2>3. file \in [SegID -> File]
    BY <1>2 DEF TypeOK, File
  <2>4. \A j \in SegID \ {i} : file'[j] = file[j]
    BY <1>2, <2>3
  <2> QED
    BY <1>2, <2>1, <2>2, <2>4 DEF Place
<1>5. \A a \in RecordsOf(k) : a \in Place /\ (a.seg # i => RecordAt(a)' = RecordAt(a))
  <2>1. \A a \in RecordsOf(k) : a \in Place
    BY <1>2, RecordsAre
  <2>2. file \in [SegID -> File]
    BY <1>2 DEF TypeOK, File
  <2> QED
    BY <1>2, <2>1, <2>2 DEF RecordAt, Place
<1>6. UseSnapshot' => UseSnapshot
  BY <1>2 DEF UseSnapshot
<1>7. ASSUME \A a \in RecordsOf(k) : a.seg # i => IsTombstone(RecordAt(a)),
             UseSnapshot => snap.idx[k] = NoLoc
      PROVE  NoValue(k)'
  <2>1. \A a \in RecordsOf(k)' : IsTombstone(RecordAt(a))'
    BY <1>4, <1>5, <1>7 DEF IsTombstone
  <2> QED
    BY <1>2, <1>6, <1>7, <2>1 DEF NoValue
<1>8. CASE NoValue(k)
  BY <1>7, <1>8 DEF NoValue
<1>9. CASE Firmly(k)
  <2>1. PICK b : b = LastOf(RecordsOf(k))
    OBVIOUS
  <2>2. /\ b \in RecordsOf(k) /\ b.pos <= flushed[b.seg]
        /\ \A a \in RecordsOf(k) \ {b} : Before(a, b)
    BY <1>2, <1>3, <1>9, <2>1, LastExists DEF Firmly
  <2>3. CASE b.seg # i
    <3>1. /\ RecordsOf(k)' \in SUBSET Place /\ b \in RecordsOf(k)'
          /\ \A a \in RecordsOf(k)' \ {b} : Before(a, b)
      BY <1>4, <1>5, <2>2, <2>3
    <3>2. PICK S \in SUBSET Place : S = RecordsOf(k)'
      BY <3>1
    <3>3. LastOf(S) = b
      BY <3>1, <3>2, LastIs
    <3>4. LastOf(RecordsOf(k))' = LastOf(S)
      BY <3>2 DEF LastOf, Before
    <3>5. flushed'[b.seg] = flushed[b.seg]
      <4>1. b.seg \in SegID
        BY <1>5, <2>2 DEF Place
      <4> QED
        BY <1>2, <2>3, <4>1 DEF FlushedBound
    <3> QED
      BY <2>2, <3>1, <3>3, <3>4, <3>5 DEF Firmly
  <2>4. CASE b.seg = i
    <3>1. idx[k] = LatestLoc(k) /\ idx[k].seg # i
      BY <1>2, <1>3 DEF RInv, IndexIsLatest, IInv, DroppedUnused
    <3>2. IsTombstone(RecordAt(b)) /\ idx[k] = NoLoc
      BY <2>1, <2>2, <2>4, <3>1 DEF LatestLoc
    <3>3. /\ \A a \in RecordsOf(k) : a.seg # i => IsTombstone(RecordAt(a))
          /\ snap.idx[k] = NoLoc
      BY <1>3, <2>2, <2>4, <3>2 DEF Undeleted
    <3> QED
      BY <1>7, <3>3
  <2> QED
    BY <2>3, <2>4
<1> QED
  BY <1>8, <1>9

-----------------------------------------------------------------------------
(* While the power is on, the machine is the one of module Bitcask, and what is *)
(* acknowledged is durable.                                                   *)

OnInv ==
    /\ IInv /\ RInv
    /\ SizesAddUp
    /\ Whole
    /\ FlushedBound
    /\ acked \subseteq Key /\ AckSound

LEMMA OverwrittenNothing == \A bytes \in Nat : Overwritten(<<>>, bytes) = <<>>
<1> SUFFICES ASSUME NEW bytes \in Nat PROVE Overwritten(<<>>, bytes) = <<>>
  OBVIOUS
<1>1. /\ [n \in DOMAIN <<>> |-> <<>>[n].size] = <<>> /\ Len(<<>>) = 0 /\ 0 .. 0 = {0}
      /\ SubSeq(<<>>, 0 + 1, 0) = <<>>
  OBVIOUS
<1>2. Sums(<<>>)[0] = 0
  <2>1. <<>> \in Seq(Nat)
    OBVIOUS
  <2> QED
    BY <2>1, SumsGrow
<1>3. { m \in 0 .. Len(<<>>) : Sums(<<>>)[m] <= bytes } = {0}
  BY <1>1, <1>2
<1>4. Max({0}) = 0
  BY DEF Max
<1> QED
  BY <1>1, <1>3, <1>4 DEF Overwritten

\* Every step but the loss of power is one of module Bitcask.
LEMMA OnStep ==
    ASSUME OnInv, [DNext]_dvars, power = "on", power' = "on"
    PROVE  [Next]_vars /\ Whole'
<1>1. /\ IInv /\ SizesAddUp /\ Whole /\ TypeOK /\ lost = {} /\ tail = NoTails
  BY DEF OnInv, IInv, Whole
<1>2. CASE DOpen
  BY <1>1, <1>2, WholeOpen DEF Whole, Next
<1>3. ASSUME NEW k \in Key, NEW v \in Val \cup {Absent}, Write(k, v), OverwriteTail(k, v), lost' = lost
      PROVE  Whole'
  <2>1. SizeOf([key |-> k, val |-> v]) \in Nat
    BY SizeIsNat
  <2>2. Overwritten(<<>>, SizeOf([key |-> k, val |-> v])) = <<>>
    BY <2>1, OverwrittenNothing
  <2>3. tail' = NoTails
    <3>1. tail[active] = <<>> \/ active \notin SegID
      BY <1>1 DEF NoTails
    <3> QED
      BY <1>1, <1>3, <2>2, <3>1 DEF OverwriteTail, NoTails
  <2> QED
    BY <1>1, <1>3, <2>3 DEF Whole
<1>4. ASSUME NEW k \in Key, NEW v \in Val, DPut(k, v)
      PROVE  Next /\ Whole'
  BY <1>3, <1>4 DEF DPut, Put, Next
<1>5. ASSUME NEW k \in Key, DDelete(k)
      PROVE  Next /\ Whole'
  BY <1>3, <1>5 DEF DDelete, Delete, Next
<1>6. CASE DWriteFails
  <2>1. tail' = NoTails
    BY <1>1, <1>6 DEF DWriteFails, NoTails
  <2> QED
    BY <1>1, <1>6, <2>1 DEF DWriteFails, Next, Whole
<1>7. CASE Sync \/ UNCHANGED dvars
  BY <1>1, <1>7 DEF Sync, dvars, dur, vars, Whole
<1>8. ASSUME NEW c \in Compactor, DCompactorStep(c)
      PROVE  Next /\ Whole'
  <2>1. CASE DRemove(c)
    <3>1. CompactorStep(c) /\ lost' = {} /\ tail' = [tail EXCEPT ![job[c].src] = <<>>]
      BY <1>1, <2>1 DEF DRemove, CompactorStep
    <3>2. tail' = NoTails
      BY <1>1, <3>1 DEF NoTails
    <3> QED
      BY <3>1, <3>2 DEF Next, Whole
  <2>2. CASE ~DRemove(c)
    <3>1. (StartPass(c) \/ CompactorStep(c)) /\ UNCHANGED <<lost, tail>>
      BY <1>1, <1>8, <2>2 DEF DCompactorStep, DSkipRecord, DRelocate, DRelocateFails, ScanStops,
                              CompactorStep, dur
    <3> QED
      BY <1>1, <3>1 DEF Next, Whole
  <2> QED
    BY <2>1, <2>2
<1>9. CASE DFinishClose \/ DCloseCutShort \/ ((BeginClose \/ SnapshotFails \/ Crash) /\ UNCHANGED <<dur, power, syncs>>)
  BY <1>1, <1>9 DEF DFinishClose, DCloseCutShort, Next, Whole, dur
<1>10. ~PowerLoss /\ ~PowerLossInClose
  BY DEF PowerLoss, PowerLossInClose
<1> QED
  BY <1>2, <1>4, <1>5, <1>6, <1>7, <1>8, <1>9, <1>10 DEF DNext

\* The steps that change no record and sync nothing.
LEMMA QuietAck ==
    ASSUME OnInv, IInv', UNCHANGED flushed,
           acked' \subseteq acked, acked' \cap weak \subseteq weak',
           dir \subseteq dir', \A i \in SegID : file'[i].recs = file[i].recs,
           \A i \in dir' \ dir : dir = {} \/ (proc # "down" /\ i = nextSegID),
           snap' \in {snap, NoSnap}
    PROVE  FlushedBound' /\ AckSound' /\ acked' \subseteq Key
<1>1. IInv /\ RInv /\ FlushedBound /\ AckSound /\ acked \subseteq Key
  BY DEF OnInv
<1>2. FlushedBound'
  BY <1>1 DEF FlushedBound
<1>3. \A i \in SegID : flushed'[i] >= flushed[i]
  BY <1>1 DEF FlushedBound
<1>4. ASSUME NEW k \in acked' \ weak' PROVE Firmly(k)' \/ NoValue(k)'
  <2>1. k \in Key \ weak /\ (Firmly(k) \/ NoValue(k))
    BY <1>1, <1>4 DEF AckSound
  <2> QED
    BY <1>1, <1>2, <1>3, <2>1, AckStays
<1> QED
  BY <1>1, <1>2, <1>4 DEF AckSound

\* The steps that sync the segments S.
LEMMA FlushAck ==
    ASSUME OnInv, IInv', NEW S \in SUBSET SegID, Flush(S), UNCHANGED <<dir, file, weak>>,
           snap' = snap \/ (snap'.idx = idx /\ proc # "down")
    PROVE  FlushedBound' /\ AckSound' /\ acked' \subseteq Key
<1>1. IInv /\ RInv /\ FlushedBound /\ AckSound /\ acked \subseteq Key /\ TypeOK
  BY DEF OnInv, IInv
<1>2. FlushedBound'
  <2>1. \A i \in SegID : file[i].recs \in Seq(Record)
    BY <1>1 DEF TypeOK
  <2>2. \A i \in SegID : Len(file[i].recs) \in Nat
    BY <2>1
  <2> QED
    BY <1>1, <2>2 DEF FlushedBound, Flush, FsyncAll
<1>3. \A i \in SegID : flushed'[i] >= flushed[i]
  BY <1>1, <1>2 DEF FlushedBound, Flush, FsyncAll
<1>4. ASSUME NEW k \in acked' \ weak' PROVE Firmly(k)' \/ NoValue(k)'
  <2>1. CASE k \in acked
    <3>1. k \in Key \ weak /\ (Firmly(k) \/ NoValue(k))
      BY <1>1, <1>4, <2>1 DEF AckSound
    <3>2. snap' \in {snap, NoSnap} \/ (snap'.idx = idx /\ proc # "down")
      OBVIOUS
    <3>3. /\ dir \subseteq dir' /\ \A i \in SegID : file'[i].recs = file[i].recs
          /\ \A i \in dir' \ dir : dir = {} \/ (proc # "down" /\ i = nextSegID)
      OBVIOUS
    <3> QED
      BY <1>1, <1>2, <1>3, <3>1, <3>2, <3>3, AckStays
  <2>2. CASE k \in LastWrittenIn(S)
    BY <1>1, <1>2, <1>4, <2>2, AckBegins DEF Flush
  <2> QED
    BY <1>4, <2>1, <2>2 DEF Flush
<1>5. acked' \subseteq Key
  BY <1>1 DEF Flush, LastWrittenIn
<1> QED
  BY <1>2, <1>4, <1>5 DEF AckSound

\* What an append leaves flushed is there.
LEMMA AppendFlushed ==
    ASSUME IInv, GoneIsEmpty, FlushedBound, NEW cur \in {active, compactOut}, NEW r \in Record,
           AppendRecord(cur, r), NEW t, t = Target(cur, r),
           flushed' \in {flushed, [flushed EXCEPT ![t] = Len(file'[t].recs)]}
    PROVE  FlushedBound' /\ \A i \in SegID : flushed'[i] >= flushed[i]
<1>1. /\ t \in SegID /\ \A i \in SegID \ {t} : file'[i].recs = file[i].recs
      /\ file'[t].recs = Append(file[t].recs, r)
  BY AppendedRecords DEF IInv
<1>2. file[t].recs \in Seq(Record)
  BY <1>1 DEF IInv, TypeOK
<1>3. Len(file'[t].recs) = Len(file[t].recs) + 1 /\ Len(file[t].recs) \in Nat
  BY <1>1, <1>2
<1> QED
  BY <1>1, <1>3 DEF FlushedBound

LEMMA WriteAck ==
    ASSUME OnInv, IInv', NEW k \in Key, NEW v \in Val \cup {Absent}, Write(k, v), Acknowledge(k)
    PROVE  FlushedBound' /\ AckSound' /\ acked' \subseteq Key
<1> DEFINE r == [key |-> k, val |-> v]
<1>1. /\ IInv /\ RInv /\ FlushedBound /\ AckSound /\ acked \subseteq Key /\ GoneIsEmpty
  BY DEF OnInv, RInv
<1>2. /\ r \in Record /\ AppendRecord(active, r) /\ active' = Target(active, r) /\ r.key = k
      /\ proc # "down" /\ snap' = snap /\ weak \subseteq weak'
      /\ flushed' \in {flushed, [flushed EXCEPT ![active'] = Len(file'[active'].recs)]}
  BY DEF Write, Record, Acknowledge, AppendRecord
<1>3. FlushedBound' /\ \A i \in SegID : flushed'[i] >= flushed[i]
  <2>1. PICK t : t = Target(active, r)
    OBVIOUS
  <2>2. flushed' \in {flushed, [flushed EXCEPT ![t] = Len(file'[t].recs)]}
    BY <1>2, <2>1
  <2> HIDE DEF r
  <2>3. FlushedBound'
    BY <1>1, <1>2, <2>1, <2>2, AppendFlushed
  <2>4. \A i \in SegID : flushed'[i] >= flushed[i]
    BY <1>1, <1>2, <2>1, <2>2, AppendFlushed
  <2> QED
    BY <2>3, <2>4
<1> HIDE DEF r
<1>4. ASSUME NEW h \in acked' \ weak' PROVE Firmly(h)' \/ NoValue(h)'
  <2>1. CASE h # k
    <3>1. h \in Key \ {r.key} /\ (Firmly(h) \/ NoValue(h))
      BY <1>1, <1>2, <1>4, <2>1 DEF AckSound, Acknowledge
    <3> QED
      BY <1>1, <1>2, <1>3, <3>1, AckStaysOnAppend
  <2>2. CASE h = k
    <3>1. SyncOnWrite
      BY <1>4, <2>2 DEF Acknowledge
    <3>2. flushed'[active'] = Len(file'[active'].recs)
      <4>1. active' \in SegID
        BY <1>1, <1>2, AppendedRecords DEF IInv
      <4>2. flushed' = [flushed EXCEPT ![active'] = Len(file'[active'].recs)]
        BY <3>1 DEF Acknowledge
      <4> QED
        BY <1>1, <4>1, <4>2 DEF FlushedBound
    <3> QED
      BY <1>1, <1>3, <1>4, <2>2, <3>2, SyncedIsFirm
  <2> QED
    BY <2>1, <2>2
<1>5. acked' \subseteq Key
  BY <1>1 DEF Acknowledge
<1> QED
  BY <1>3, <1>4, <1>5 DEF AckSound

LEMMA RelocateAck ==
    ASSUME OnInv, IInv', NEW c \in Compactor, DRelocate(c)
    PROVE  FlushedBound' /\ AckSound' /\ acked' \subseteq Key
<1> DEFINE r == Scanned(c)
<1>1. /\ IInv /\ RInv /\ FlushedBound /\ AckSound /\ acked \subseteq Key /\ GoneIsEmpty
      /\ JobSound(c) /\ TypeOK
  BY DEF OnInv, RInv, IInv
<1>2. /\ AppendRecord(compactOut, r) /\ snap' = snap /\ weak \subseteq weak'
      /\ flushed' = flushed /\ acked' = acked \ {r.key} /\ Scanning(c)
  BY DEF DRelocate, Relocate, AppendRecord
<1>3. r \in Record /\ proc # "down"
  <2>1. job[c].src \in SegID /\ job[c].pos \in DOMAIN file[job[c].src].recs /\ proc # "down"
    BY <1>1, <1>2 DEF JobSound, Scanning
  <2>2. file[job[c].src].recs \in Seq(Record)
    BY <1>1, <2>1 DEF TypeOK
  <2> QED
    BY <2>1, <2>2 DEF Scanned, RecordAt, At
<1> HIDE DEF r
<1>4. FlushedBound' /\ \A i \in SegID : flushed'[i] >= flushed[i]
  <2>1. PICK t : t = Target(compactOut, r)
    OBVIOUS
  <2>2. flushed' \in {flushed, [flushed EXCEPT ![t] = Len(file'[t].recs)]}
    BY <1>2
  <2>3. FlushedBound'
    BY <1>1, <1>2, <1>3, <2>1, <2>2, AppendFlushed
  <2>4. \A i \in SegID : flushed'[i] >= flushed[i]
    BY <1>1, <1>2, <1>3, <2>1, <2>2, AppendFlushed
  <2> QED
    BY <2>3, <2>4
<1>5. ASSUME NEW h \in acked' \ weak' PROVE Firmly(h)' \/ NoValue(h)'
  <2>1. h \in Key \ {r.key} /\ (Firmly(h) \/ NoValue(h))
    BY <1>1, <1>2, <1>5 DEF AckSound
  <2> QED
    BY <1>1, <1>2, <1>3, <1>4, <2>1, AckStaysOnAppend
<1> QED
  BY <1>1, <1>2, <1>4, <1>5 DEF AckSound

LEMMA RemoveAck ==
    ASSUME OnInv, IInv', NEW c \in Compactor, DRemove(c)
    PROVE  FlushedBound' /\ AckSound' /\ acked' \subseteq Key
<1>1. /\ IInv /\ RInv /\ FlushedBound /\ AckSound /\ acked \subseteq Key /\ TypeOK
      /\ JobSound(c)
  BY DEF OnInv, IInv
<1>2. /\ Remove(c) /\ flushed' = [flushed EXCEPT ![job[c].src] = 0] /\ acked' = acked
      /\ file' = [file EXCEPT ![job[c].src] = NoFile] /\ weak \subseteq weak'
      /\ job[c].pc = "remove"
  BY DEF DRemove, Remove
<1>3. proc # "down" /\ job[c].src \in SegID
  BY <1>1, <1>2 DEF JobSound
<1>4. FlushedBound'
  <2>1. file \in [SegID -> File] /\ Len(NoFile.recs) = 0
    BY <1>1 DEF TypeOK, File, NoFile
  <2> QED
    BY <1>1, <1>2, <1>3, <2>1 DEF FlushedBound
<1>5. ASSUME NEW k \in acked' \ weak' PROVE Firmly(k)' \/ NoValue(k)'
  <2>1. k \in Key \ weak' /\ (Firmly(k) \/ NoValue(k))
    BY <1>1, <1>2, <1>5 DEF AckSound
  <2> QED
    BY <1>1, <1>2, <1>3, <2>1, AckStaysOnRemove
<1> QED
  BY <1>1, <1>2, <1>4, <1>5 DEF AckSound

\* While the power stays on, every step keeps OnInv.
LEMMA OnKeeps == OnInv /\ [DNext]_dvars /\ power = "on" /\ power' = "on" => OnInv'
<1> SUFFICES ASSUME OnInv, [DNext]_dvars, power = "on", power' = "on"
             PROVE  OnInv'
  OBVIOUS
<1>1. [Next]_vars /\ Whole'
  BY OnStep
<1>2. /\ IInv /\ RInv /\ SizesAddUp /\ FlushedBound /\ GoneIsEmpty /\ TypeOK
      /\ file \in [SegID -> File] /\ \A c \in Compactor : JobSound(c)
      /\ active \in SegID \cup {NoSeg} /\ compactOut \in SegID \cup {NoSeg}
  <2>1. IInv /\ RInv /\ SizesAddUp /\ FlushedBound /\ GoneIsEmpty /\ TypeOK
        /\ \A c \in Compactor : JobSound(c)
    BY DEF OnInv, RInv, IInv
  <2> QED
    BY <2>1 DEF TypeOK, File
<1>3. IInv' /\ RInv' /\ SizesAddUp'
  BY <1>1, <1>2, NextIInv, NextRInv, NextSizes
<1>4. SUFFICES FlushedBound' /\ AckSound' /\ acked' \subseteq Key
  BY <1>1, <1>3 DEF OnInv
<1>5. CASE DOpen
  <2>1. Open /\ UNCHANGED snap /\ acked' = acked \ (weak \ weak')
    BY <1>2, <1>5, WholeOpen DEF DOpen, OnInv
  <2>2. /\ dir \subseteq dir' /\ \A i \in SegID : file'[i].recs = file[i].recs
        /\ \A i \in dir' \ dir : dir = {}
    BY <1>2, <1>3, <2>1, OpenKeepsRecords
  <2>3. flushed' = flushed
    <3>1. \A i \in SegID : flushed'[i] = flushed[i]
      BY <1>2, <1>5, WholeOpen DEF OnInv, FlushedBound
    <3>2. flushed' = [i \in SegID |-> flushed'[i]]
      BY <1>5 DEF DOpen
    <3> QED
      BY <1>2, <3>1, <3>2 DEF FlushedBound
  <2> QED
    BY <1>3, <2>1, <2>2, <2>3, QuietAck
<1>6. ASSUME NEW k \in Key, (\E v \in Val : DPut(k, v)) \/ DDelete(k)
      PROVE  FlushedBound' /\ AckSound' /\ acked' \subseteq Key
  <2>1. PICK v \in Val \cup {Absent} : Write(k, v) /\ Acknowledge(k)
    BY <1>6 DEF DPut, DDelete, Put, Delete
  <2> QED
    BY <1>3, <2>1, WriteAck
<1>7. ASSUME NEW cur \in {active, compactOut}, CreateFails(cur), proc # "down",
             UNCHANGED <<snap, weak, flushed, acked>>
      PROVE  FlushedBound' /\ AckSound' /\ acked' \subseteq Key
  <2>1. \A i \in SegID : file'[i].recs = file[i].recs
    BY <1>2, <1>7, FinalizedKeeps DEF CreateFails
  <2>2. dir \subseteq dir' /\ \A i \in dir' \ dir : dir = {} \/ (proc # "down" /\ i = nextSegID)
    BY <1>7 DEF CreateFails
  <2> QED
    BY <1>3, <1>7, <2>1, <2>2, QuietAck
<1>8. CASE DWriteFails
  <2>1. CreateFails(active) /\ proc # "down" /\ UNCHANGED <<snap, weak, flushed, acked>>
    BY <1>8 DEF DWriteFails, WriteFails
  <2> QED
    BY <1>7, <2>1
<1>9. ASSUME NEW S \in SUBSET SegID, Flush(S), UNCHANGED <<dir, file, weak>>,
             snap' \in {snap, SnapshotOfIndex}, proc # "down"
      PROVE  FlushedBound' /\ AckSound' /\ acked' \subseteq Key
  <2>1. snap' = snap \/ (snap'.idx = idx /\ proc # "down")
    BY <1>9 DEF SnapshotOfIndex
  <2> QED
    BY <1>3, <1>9, <2>1, FlushAck
<1>10. CASE Sync
  <2>1. /\ Flush({active}) /\ UNCHANGED <<dir, file, weak, snap>> /\ proc # "down"
        /\ {active} \in SUBSET SegID
    BY <1>2, <1>10 DEF Sync, Flush, vars, disk, IInv, SegsOnDisk
  <2> QED
    BY <1>9, <2>1
<1>11. CASE DFinishClose \/ DCloseCutShort
  <2>1. \E S \in SUBSET SegID : Flush(S)
    BY <1>2, <1>11 DEF DFinishClose, DCloseCutShort, TypeOK
  <2>2. /\ UNCHANGED <<dir, file, weak>> /\ snap' \in {snap, SnapshotOfIndex} /\ proc # "down"
    BY <1>11 DEF DFinishClose, DCloseCutShort, FinishClose, CloseCutShort, Stopped
  <2> QED
    BY <1>9, <2>1, <2>2
<1>12. ASSUME UNCHANGED <<dir, file, weak, flushed, acked>>, snap' \in {snap, NoSnap}
       PROVE  FlushedBound' /\ AckSound' /\ acked' \subseteq Key
  BY <1>3, <1>12, QuietAck
<1>13. ASSUME NEW c \in Compactor, DCompactorStep(c)
       PROVE  FlushedBound' /\ AckSound' /\ acked' \subseteq Key
  <2>1. CASE DRelocate(c)
    BY <1>3, <2>1, RelocateAck
  <2>2. CASE DRemove(c)
    BY <1>3, <2>2, RemoveAck
  <2>3. CASE DRelocateFails(c)
    <3>1. /\ CreateFails(compactOut) /\ UNCHANGED <<snap, weak, flushed, acked>>
          /\ job[c].pc = "scan"
      BY <2>3 DEF DRelocateFails, RelocateFails, Scanning, dur
    <3>2. proc # "down"
      BY <1>2, <3>1 DEF JobSound
    <3> QED
      BY <1>7, <3>1, <3>2
  <2>4. CASE ~DRelocate(c) /\ ~DRemove(c) /\ ~DRelocateFails(c)
    <3>1. UNCHANGED <<dir, file, weak, flushed, acked>> /\ snap' \in {snap, NoSnap}
      BY <1>13, <2>4 DEF DCompactorStep, DSkipRecord, ScanStops, StartPass, Pick, Check, BeginScan,
         SkipRecord, ScanUnmapped, Vanish, Drop, RemoveFails, RemoveSnapshot, disk, dur
    <3> QED
      BY <1>12, <3>1
  <2> QED
    BY <2>1, <2>2, <2>3, <2>4
<1>14. CASE (BeginClose \/ SnapshotFails \/ Crash) /\ UNCHANGED <<dur, power, syncs>>
  <2>1. UNCHANGED <<dir, file, weak, flushed, acked, snap>>
    BY <1>14 DEF BeginClose, SnapshotFails, Crash, Vanish, disk, dur
  <2> QED
    BY <1>12, <2>1
<1>15. CASE UNCHANGED dvars
  <2>1. UNCHANGED <<dir, file, weak, flushed, acked, snap>>
    BY <1>15 DEF dvars, vars, disk, dur
  <2> QED
    BY <1>12, <2>1
<1>16. ~PowerLoss /\ ~PowerLossInClose
  BY DEF PowerLoss, PowerLossInClose
<1> QED
  BY <1>5, <1>6, <1>8, <1>10, <1>11, <1>13, <1>14, <1>15, <1>16 DEF DNext

-----------------------------------------------------------------------------
(* What recovery finds in damaged files. *)

LostPlaces == \A b \in lost : b \in Place /\ b.seg \in dir /\ b.pos \in DOMAIN file[b.seg].recs
TailsTyped == tail \in [SegID -> Seq(Slot)]

\* Recovery keeps the records before the first it cannot read.
LEMMA KeptIs ==
    ASSUME TypeOK, LostPlaces, NEW i \in SegID
    PROVE  /\ Kept(i) \in 0 .. Len(file[i].recs)
           /\ \A b \in lost : b.seg = i /\ b.pos > Skipped(i) => b.pos > Kept(i)
           /\ \A p \in 0 .. Len(file[i].recs) :
                (\A b \in lost : b.seg = i /\ b.pos > Skipped(i) => b.pos > p) => p <= Kept(i)
<1>1. file[i].recs \in Seq(Record)
  BY DEF TypeOK
<1>2. PICK n \in Nat : n = Len(file[i].recs) /\ DOMAIN file[i].recs = 1 .. n
  BY <1>1
<1>3. \A b \in lost : b.seg = i => b.pos \in 1 .. n
  BY <1>2 DEF LostPlaces
<1>4. \A p : p \in Unread(i) <=> \E b \in lost : b.seg = i /\ b.pos > Skipped(i) /\ p = b.pos
  BY DEF Unread
<1>5. CASE Unread(i) = {}
  <2>1. \A b \in lost : ~(b.seg = i /\ b.pos > Skipped(i))
    BY <1>4, <1>5
  <2>2. Kept(i) = n
    BY <1>2, <1>5 DEF Kept
  <2> QED
    BY <1>2, <2>1, <2>2
<1>6. CASE Unread(i) # {}
  <2> DEFINE m == Min(Unread(i))
  <2>1. Unread(i) \in SUBSET Nat
    BY <1>2, <1>3, <1>4
  <2>2. m \in Unread(i) /\ \A p \in Unread(i) : m <= p
    <3>1. \E x \in Unread(i) : \A p \in Unread(i) : x <= p
      BY <1>6, <2>1, MinExists
    <3> QED
      BY <3>1 DEF Min
  <2>3. Kept(i) = m - 1
    BY <1>6 DEF Kept
  <2> HIDE DEF m
  <2>4. m \in 1 .. n
    BY <1>3, <1>4, <2>2
  <2>5. \A b \in lost : b.seg = i /\ b.pos > Skipped(i) => b.pos >= m
    BY <1>3, <1>4, <2>2, <2>4
  <2>6. ASSUME NEW p \in 0 .. n, \A b \in lost : b.seg = i /\ b.pos > Skipped(i) => b.pos > p
        PROVE  p <= m - 1
    <3>1. m > p
      BY <1>4, <2>2, <2>6
    <3> QED
      BY <2>4, <3>1
  <2> QED
    BY <1>2, <1>3, <2>3, <2>4, <2>5, <2>6
<1> QED
  BY <1>5, <1>6

\* What comes back behind them can be read.
LEMMA RevivedIs ==
    ASSUME TailsTyped, NEW i \in SegID
    PROVE  /\ Revived(i) \in Seq(Slot) /\ Len(Revived(i)) <= Len(tail[i])
           /\ Revived(i) = SubSeq(tail[i], 1, Len(Revived(i)))
           /\ \A n \in 1 .. Len(Revived(i)) : Revived(i)[n] = tail[i][n] /\ Revived(i)[n].rec \in Record
           /\ Unread(i) # {} \/ (UseSnapshot /\ i < snap.wm) => Revived(i) = <<>>
<1>1. tail[i] \in Seq(Slot) /\ Len(tail[i]) \in Nat /\ DOMAIN tail[i] = 1 .. Len(tail[i])
  BY DEF TailsTyped
<1>2. ASSUME NEW m \in 0 .. Len(tail[i]), \A n \in 1 .. m : IsReadable(tail[i][n]),
             Revived(i) = SubSeq(tail[i], 1, m)
      PROVE  /\ Revived(i) \in Seq(Slot) /\ Len(Revived(i)) <= Len(tail[i])
             /\ Revived(i) = SubSeq(tail[i], 1, Len(Revived(i)))
             /\ \A n \in 1 .. Len(Revived(i)) : Revived(i)[n] = tail[i][n] /\ Revived(i)[n].rec \in Record
  <2>1. m \in Int /\ 1 \in Int /\ \A n \in 1 .. m : tail[i][n] \in Slot
    BY <1>1
  <2>2. /\ SubSeq(tail[i], 1, m) \in Seq(Slot)
        /\ Len(SubSeq(tail[i], 1, m)) = IF 1 <= m THEN m - 1 + 1 ELSE 0
        /\ \A n \in 1 .. m - 1 + 1 : SubSeq(tail[i], 1, m)[n] = tail[i][1 + n - 1]
    BY <2>1, SubSeqProperties
  <2>3. Revived(i) \in Seq(Slot) /\ Len(Revived(i)) = m
    BY <1>2, <2>1, <2>2
  <2>4. \A n \in 1 .. m : Revived(i)[n] = tail[i][n]
    BY <1>2, <2>1, <2>2
  <2>5. \A n \in 1 .. m : tail[i][n].rec \in Record
    BY <1>2, <2>1 DEF Slot, IsReadable
  <2> QED
    BY <1>2, <2>3, <2>4, <2>5
<1>3. CASE Unread(i) # {} \/ (UseSnapshot /\ i < snap.wm)
  <2>1. Revived(i) = <<>>
    BY <1>3 DEF Revived
  <2>2. SubSeq(tail[i], 1, 0) = <<>>
    BY SubSeqEmpty
  <2> QED
    BY <1>1, <1>2, <2>1, <2>2
<1>4. CASE ~(Unread(i) # {} \/ (UseSnapshot /\ i < snap.wm))
  <2> DEFINE bad == { n \in DOMAIN tail[i] : ~IsReadable(tail[i][n]) }
             m == IF bad = {} THEN Len(tail[i]) ELSE Min(bad) - 1
  <2>1. Revived(i) = SubSeq(tail[i], 1, m)
    BY <1>4 DEF Revived
  <2>2. m \in 0 .. Len(tail[i]) /\ \A n \in 1 .. m : IsReadable(tail[i][n])
    <3>1. CASE bad = {}
      BY <1>1, <3>1
    <3>2. CASE bad # {}
      <4>1. bad \in SUBSET Nat
        BY <1>1
      <4>2. \E x \in bad : \A p \in bad : x <= p
        <5> HIDE DEF bad
        <5> QED
          BY <3>2, <4>1, MinExists
      <4>3. Min(bad) \in bad /\ \A p \in bad : Min(bad) <= p
        BY <4>2 DEF Min
      <4>4. PICK x : x = Min(bad)
        OBVIOUS
      <4>5. x \in 1 .. Len(tail[i]) /\ m = x - 1 /\ \A p \in bad : x <= p
        BY <1>1, <3>2, <4>3, <4>4
      <4>6. ASSUME NEW n \in 1 .. x - 1 PROVE IsReadable(tail[i][n])
        <5>1. n \in DOMAIN tail[i] /\ ~(x <= n)
          BY <1>1, <4>5
        <5>2. n \notin bad
          BY <4>5, <5>1
        <5> QED
          BY <5>1, <5>2
      <4>7. m = x - 1 /\ x - 1 \in 0 .. Len(tail[i])
        BY <1>1, <4>5
      <4> QED
        BY <4>6, <4>7
    <3> QED
      BY <3>1, <3>2
  <2> HIDE DEF m
  <2> QED
    BY <1>2, <1>4, <2>1, <2>2
<1> QED
  BY <1>3, <1>4

LEMMA FoundIs ==
    ASSUME TypeOK, LostPlaces, TailsTyped, NEW i \in SegID
    PROVE  /\ Found(i) \in Seq(Record) /\ Len(Found(i)) = Kept(i) + Len(Revived(i))
           /\ Kept(i) \in Nat /\ Len(Revived(i)) \in Nat
           /\ \A p \in 1 .. Kept(i) : Found(i)[p] = file[i].recs[p]
           /\ \A n \in 1 .. Len(Revived(i)) : Found(i)[Kept(i) + n] = Revived(i)[n].rec
           /\ Unread(i) = {} => Kept(i) = Len(file[i].recs)
<1>1. /\ file[i].recs \in Seq(Record) /\ Len(file[i].recs) \in Nat
      /\ DOMAIN file[i].recs = 1 .. Len(file[i].recs)
  <2>1. file[i].recs \in Seq(Record)
    BY DEF TypeOK
  <2> QED
    BY <2>1
<1>2. Kept(i) \in 0 .. Len(file[i].recs) /\ (Unread(i) = {} => Kept(i) = Len(file[i].recs))
  BY KeptIs DEF Kept
<1>3. /\ Revived(i) \in Seq(Slot) /\ Len(Revived(i)) \in Nat
      /\ \A n \in 1 .. Len(Revived(i)) : Revived(i)[n].rec \in Record
      /\ tail[i] = <<>> => Len(Revived(i)) = 0
  <2>1. Revived(i) \in Seq(Slot) /\ Len(Revived(i)) <= Len(tail[i])
    BY RevivedIs
  <2>2. \A n \in 1 .. Len(Revived(i)) : Revived(i)[n].rec \in Record
    BY RevivedIs
  <2>3. tail[i] = <<>> => Len(tail[i]) = 0
    OBVIOUS
  <2> QED
    BY <2>1, <2>2, <2>3
<1>4. CASE Kept(i) = Len(file[i].recs) /\ tail[i] = <<>>
  BY <1>1, <1>2, <1>3, <1>4 DEF Found
<1>5. CASE ~(Kept(i) = Len(file[i].recs) /\ tail[i] = <<>>)
  <2> DEFINE s == SubSeq(file[i].recs, 1, Kept(i))
             t == RecordsIn(Revived(i))
  <2>1. Found(i) = s \o t
    BY <1>5 DEF Found
  <2>2. PICK m : m = Kept(i)
    OBVIOUS
  <2>3. /\ s \in Seq(Record) /\ Len(s) = m /\ \A p \in 1 .. m : s[p] = file[i].recs[p]
    <3>1. m \in Int /\ 1 \in Int /\ \A p \in 1 .. m : file[i].recs[p] \in Record
      BY <1>1, <1>2, <2>2
    <3>2. /\ SubSeq(file[i].recs, 1, m) \in Seq(Record)
          /\ Len(SubSeq(file[i].recs, 1, m)) = IF 1 <= m THEN m - 1 + 1 ELSE 0
          /\ \A p \in 1 .. m - 1 + 1 : SubSeq(file[i].recs, 1, m)[p] = file[i].recs[1 + p - 1]
      BY <3>1, SubSeqProperties
    <3> QED
      BY <1>2, <2>2, <3>1, <3>2
  <2>4. t \in Seq(Record) /\ Len(t) = Len(Revived(i))
    <3>1. PICK l \in Nat : l = Len(Revived(i)) /\ DOMAIN Revived(i) = 1 .. l
      BY <1>3
    <3>2. t = [n \in 1 .. l |-> Revived(i)[n].rec]
      BY <3>1 DEF RecordsIn
    <3>3. t \in [1 .. l -> Record]
      BY <1>3, <3>1, <3>2
    <3> QED
      BY <3>1, <3>3
  <2>5. \A n \in DOMAIN Revived(i) : t[n] = Revived(i)[n].rec
    BY DEF RecordsIn
  <2> HIDE DEF s, t
  <2>6. /\ s \o t \in Seq(Record) /\ Len(s \o t) = Len(s) + Len(t)
        /\ \A p \in 1 .. Len(s) + Len(t) : (s \o t)[p] = IF p <= Len(s) THEN s[p] ELSE t[p - Len(s)]
    BY <2>3, <2>4, ConcatProperties
  <2>7. \A p \in 1 .. m : p \in 1 .. Len(s) + Len(t)
    BY <1>2, <1>3, <2>2, <2>3, <2>4
  <2>8. ASSUME NEW n \in 1 .. Len(Revived(i))
        PROVE  Found(i)[Kept(i) + n] = Revived(i)[n].rec
    <3>1. PICK l \in Nat : l = Len(Revived(i))
      BY <1>3
    <3>2. n \in 1 .. l /\ m \in Nat /\ Len(s) = m /\ Len(t) = l
      BY <1>2, <2>2, <2>3, <2>4, <3>1
    <3>3. m + n \in 1 .. m + l /\ ~(m + n <= m) /\ m + n - m = n
      BY <3>2
    <3>4. (s \o t)[m + n] = t[n]
      BY <2>6, <3>2, <3>3
    <3>5. n \in DOMAIN Revived(i)
      BY <1>3
    <3> QED
      BY <2>1, <2>2, <2>5, <3>4, <3>5
  <2> QED
    BY <1>2, <1>3, <2>1, <2>2, <2>3, <2>4, <2>6, <2>7, <2>8
<1> QED
  BY <1>4, <1>5

-----------------------------------------------------------------------------
(* The loss of power. *)

\* While nothing is damaged, what is seen of a key is its last record.
LEMMA SeenIsLatest ==
    ASSUME OnInv, NEW k \in Key \ weak
    PROVE  Seen[k] = LatestValue(k)
<1>1. /\ TypeOK /\ IndexIsLatest /\ SnapshotIsLatest /\ EntriesKnown /\ Whole /\ SegsOnDisk
  BY DEF OnInv, IInv, RInv
<1>2. PICK l : l = LatestLoc(k)
  OBVIOUS
<1>3. ASSUME l # NoLoc
      PROVE  /\ l.seg \in dir /\ l.seg \in SegID /\ l.pos \in DOMAIN file[l.seg].recs
             /\ file[l.seg].recs[l.pos].key = k
  <2>1. RecordsOf(k) # {} /\ l = LastOf(RecordsOf(k))
    BY <1>2, <1>3 DEF LatestLoc
  <2>2. l \in RecordsOf(k)
    BY <1>1, <2>1, LastExists
  <2> QED
    BY <1>1, <2>2, RecordsAre DEF Place
<1>4. LatestValue(k) = IF l = NoLoc THEN Absent ELSE file[l.seg].recs[l.pos].val
  BY <1>2, <1>3 DEF LatestValue, ValueIn, RecordAt
<1>5. ASSUME NEW open, NEW recs, \A i \in SegID : recs[i] = file[i].recs,
             l # NoLoc => l.seg \in open
      PROVE  ReadAt(open, recs, k, l) = LatestValue(k)
  BY <1>1, <1>3, <1>4, <1>5 DEF ReadAt, Astray, Whole
<1>6. CASE proc = "open"
  <2>1. idx[k] = l /\ (l # NoLoc => l.seg \in segments)
    BY <1>1, <1>2, <1>3, <1>6 DEF IndexIsLatest, EntriesKnown
  <2> DEFINE recs == [i \in SegID |-> file[i].recs]
  <2>2. \A i \in SegID : recs[i] = file[i].recs
    OBVIOUS
  <2>3. DContent[k] = ReadAt(segments, recs, k, idx[k])
    BY DEF DContent
  <2> HIDE DEF recs
  <2>4. Seen[k] = ReadAt(segments, recs, k, l)
    BY <1>6, <2>1, <2>3 DEF Seen
  <2> QED
    BY <1>5, <2>1, <2>2, <2>4
<1>7. CASE proc # "open"
  <2> DEFINE found == [i \in SegID |-> Found(i)]
  <2>1. \A i \in SegID : found[i] = file[i].recs
    BY <1>1, WholeFound
  <2>2. DRecovered[k] = ReadAt(dir, found, k, LocIn(found, k))
    BY DEF DRecovered
  <2> HIDE DEF found
  <2>3. LocIn(found, k) = l
    BY <1>1, <1>2, <2>1, LocIsRecovered, FirmRecovers
  <2>4. Seen[k] = ReadAt(dir, found, k, l)
    BY <1>7, <2>2, <2>3 DEF Seen
  <2> QED
    BY <1>3, <1>5, <2>1, <2>4
<1> QED
  BY <1>6, <1>7

\* A key whose last record lies before all that was lost of its segment.
Spared(k) ==
    LET b == LastOf(RecordsOf(k)) IN
    /\ RecordsOf(k) # {}
    /\ \A a \in lost : a.seg = b.seg => a.pos > b.pos
    /\ UseSnapshot /\ Replayed(k) = {} => snap.idx[k] = LatestLoc(k)

LEMMA SparedIsRecovered ==
    ASSUME TypeOK, LostPlaces, TailsTyped, tail = NoTails, NEW k \in Key, Spared(k) \/ NoValue(k)
    PROVE  DRecovered[k] = LatestValue(k)
<1> DEFINE found == [i \in SegID |-> Found(i)]
<1>1. \A i \in SegID :
          /\ found[i] \in Seq(Record) /\ Len(found[i]) = Kept(i) /\ Kept(i) \in Nat
          /\ Len(found[i]) <= Len(file[i].recs)
          /\ \A p \in 1 .. Len(found[i]) : found[i][p] = file[i].recs[p]
  <2> SUFFICES ASSUME NEW i \in SegID
               PROVE  /\ found[i] \in Seq(Record) /\ Len(found[i]) = Kept(i) /\ Kept(i) \in Nat
                      /\ Len(found[i]) <= Len(file[i].recs)
                      /\ \A p \in 1 .. Len(found[i]) : found[i][p] = file[i].recs[p]
    OBVIOUS
  <2>1. found[i] = Found(i)
    OBVIOUS
  <2> HIDE DEF found
  <2>2. Len(Revived(i)) = 0
    <3>1. Len(Revived(i)) <= Len(tail[i])
      BY RevivedIs
    <3>2. Len(tail[i]) = 0
      BY DEF NoTails
    <3>3. Revived(i) \in Seq(Slot)
      BY RevivedIs
    <3> QED
      BY <3>1, <3>2, <3>3
  <2>3. /\ Found(i) \in Seq(Record) /\ Len(Found(i)) = Kept(i) + Len(Revived(i)) /\ Kept(i) \in Nat
        /\ \A p \in 1 .. Kept(i) : Found(i)[p] = file[i].recs[p]
    BY FoundIs
  <2>4. Kept(i) \in 0 .. Len(file[i].recs)
    BY KeptIs
  <2>5. file[i].recs \in Seq(Record)
    BY DEF TypeOK
  <2> QED
    BY <2>1, <2>2, <2>3, <2>4, <2>5
<1>2. DRecovered[k] = ReadAt(dir, found, k, LocIn(found, k))
  BY DEF DRecovered
<1> HIDE DEF found
<1>3. PlacesIn(found, k) = { a \in Replayed(k) : a.pos <= Len(found[a.seg]) }
  BY <1>1, PlacesAre
<1>4. Replayed(k) \in SUBSET RecordsOf(k)
  BY DEF Replayed
<1>5. \A a \in RecordsOf(k) :
          /\ a \in Place /\ a.seg \in SegID /\ a.seg \in dir /\ a.pos \in DOMAIN file[a.seg].recs
          /\ file[a.seg].recs[a.pos].key = k
  BY RecordsAre DEF Place
<1>6. CASE NoValue(k)
  <2>1. LatestValue(k) = Absent
    <3>1. LatestLoc(k) = NoLoc
      <4>1. RecordsOf(k) # {} => LastOf(RecordsOf(k)) \in RecordsOf(k)
        BY LastExists
      <4> QED
        BY <1>6, <4>1 DEF NoValue, LatestLoc
    <3> QED
      BY <3>1 DEF LatestValue, ValueIn
  <2>2. LocIn(found, k) = NoLoc
    <3>1. CASE PlacesIn(found, k) = {}
      BY <1>6, <3>1 DEF LocIn, NoValue
    <3>2. CASE PlacesIn(found, k) # {}
      <4>1. PICK a : a = LastOf(PlacesIn(found, k))
        OBVIOUS
      <4>2. PlacesIn(found, k) \in SUBSET RecordsOf(k)
        BY <1>3, <1>4
      <4>3. a \in PlacesIn(found, k)
        BY <3>2, <4>1, <4>2, LastExists
      <4>4. /\ a \in RecordsOf(k) /\ a.pos <= Len(found[a.seg]) /\ a.seg \in SegID
            /\ a.pos \in Nat \ {0}
        BY <1>3, <1>4, <1>5, <4>3 DEF Place
      <4>5. found[a.seg][a.pos] = RecordAt(a)
        <5>1. a.pos \in 1 .. Len(found[a.seg])
          BY <1>1, <4>4
        <5> QED
          BY <1>1, <4>4, <5>1 DEF RecordAt
      <4>6. IsTombstone(found[a.seg][a.pos])
        BY <1>6, <4>4, <4>5 DEF NoValue
      <4> QED
        BY <3>2, <4>1, <4>6 DEF LocIn
    <3> QED
      BY <3>1, <3>2
  <2> QED
    BY <1>2, <2>1, <2>2 DEF ReadAt
<1>7. CASE Spared(k)
  <2>1. PICK b : b = LastOf(RecordsOf(k))
    OBVIOUS
  <2>2. /\ b \in RecordsOf(k) /\ \A a \in RecordsOf(k) \ {b} : Before(a, b)
    BY <1>7, <2>1, LastExists DEF Spared
  <2>3. \A a \in lost : a.seg = b.seg => a.pos > b.pos
    BY <1>7, <2>1 DEF Spared
  <2>4. /\ b \in Place /\ b.seg \in SegID /\ b.seg \in dir /\ b.pos \in DOMAIN file[b.seg].recs
        /\ file[b.seg].recs[b.pos].key = k /\ b.pos \in Nat \ {0}
    BY <1>5, <2>2 DEF Place
  <2>5. b.pos <= Kept(b.seg)
    <3>1. file[b.seg].recs \in Seq(Record)
      BY <2>4 DEF TypeOK
    <3>2. b.pos \in 0 .. Len(file[b.seg].recs)
      BY <2>4, <3>1
    <3> QED
      BY <2>3, <2>4, <3>2, KeptIs
  <2>6. b.pos \in DOMAIN found[b.seg] /\ b.pos <= Len(found[b.seg]) /\ found[b.seg][b.pos] = RecordAt(b)
    <3>1. found[b.seg] \in Seq(Record) /\ b.pos \in 1 .. Len(found[b.seg])
      BY <1>1, <2>4, <2>5
    <3> QED
      BY <1>1, <2>4, <3>1 DEF RecordAt
  <2>7. LatestValue(k) = RecordAt(b).val
    <3>1. CASE IsTombstone(RecordAt(b))
      <4>1. LatestLoc(k) = NoLoc
        BY <2>1, <3>1 DEF LatestLoc
      <4> QED
        BY <3>1, <4>1 DEF LatestValue, ValueIn, IsTombstone
    <3>2. CASE ~IsTombstone(RecordAt(b))
      <4>1. LatestLoc(k) = b /\ b # NoLoc
        BY <2>1, <2>2, <2>4, <3>2 DEF LatestLoc, NoLoc, NoSeg, SegID
      <4> QED
        BY <2>4, <4>1 DEF LatestValue, ValueIn
    <3> QED
      BY <3>1, <3>2
  <2>8. LocIn(found, k) = LatestLoc(k)
    <3>1. CASE Replayed(k) # {}
      <4>1. LastOf(Replayed(k)) = b
        BY <2>1, <3>1, ReplayedLast
      <4>2. b \in Replayed(k)
        BY <1>4, <3>1, <4>1, LastExists
      <4>3. PlacesIn(found, k) \in SUBSET Place /\ b \in PlacesIn(found, k)
        BY <1>3, <1>4, <1>5, <2>6, <4>2
      <4>4. \A a \in PlacesIn(found, k) \ {b} : Before(a, b)
        BY <1>3, <1>4, <2>2
      <4>5. LastOf(PlacesIn(found, k)) = b
        BY <4>3, <4>4, LastIs
      <4> QED
        BY <2>1, <2>2, <2>6, <4>3, <4>5 DEF LocIn, LatestLoc
    <3>2. CASE Replayed(k) = {}
      <4>1. UseSnapshot
        BY <2>2, <3>2 DEF Replayed
      <4>2. PlacesIn(found, k) = {}
        BY <1>3, <3>2
      <4> QED
        BY <1>7, <3>2, <4>1, <4>2 DEF LocIn, Spared
    <3> QED
      BY <3>1, <3>2
  <2>9. LatestLoc(k) = NoLoc \/ LatestLoc(k) = b
    BY <2>1 DEF LatestLoc
  <2>10. CASE LatestLoc(k) = NoLoc
    <3>1. LatestValue(k) = Absent
      BY <2>10 DEF LatestValue, ValueIn
    <3> QED
      BY <1>2, <2>8, <2>10, <3>1 DEF ReadAt
  <2>11. CASE LatestLoc(k) = b /\ b # NoLoc
    <3>1. b \notin lost
      BY <2>3, <2>4
    <3>2. ~Astray(found, k, b)
      BY <2>4, <2>6, <3>1 DEF Astray, RecordAt
    <3> QED
      BY <1>2, <2>4, <2>6, <2>7, <2>8, <2>11, <3>2 DEF ReadAt
  <2> QED
    BY <2>9, <2>10, <2>11
<1> QED
  BY <1>6, <1>7

\* Records are gone, and nothing lies behind the used parts.
TornOnly == TypeOK /\ LostPlaces /\ TailsTyped /\ tail = NoTails
SparedRecovered == \A k \in Key : Spared(k) \/ NoValue(k) => DRecovered[k] = LatestValue(k)

LEMMA SparedAreRecovered == TornOnly => SparedRecovered
BY SparedIsRecovered DEF TornOnly, SparedRecovered

LEMMA SparedAreRecoveredPrimed == TornOnly' => SparedRecovered'
BY SparedAreRecovered, PTL

\* A loss of power leaves the files as they are but for what was not flushed.
LEMMA LossTears ==
    ASSUME OnInv, LosePower, snap' = snap \/ (Stopped /\ snap' = SnapshotOfIndex)
    PROVE  /\ TornOnly' /\ \A a \in lost' : a.seg \in SegID /\ a.pos > flushed[a.seg]
           /\ UNCHANGED <<dir, file, weak>>
<1>1. /\ TypeOK /\ FlushedBound /\ lost = {} /\ tail = NoTails /\ UNCHANGED <<dir, file, weak, bounds, tail>>
      /\ EndProcess
  BY DEF OnInv, IInv, Whole, LosePower
<1>2. PICK gone \in SUBSET Unflushed : lost' = gone
  BY <1>1 DEF LosePower
<1>3. \A a \in lost' : a \in Place /\ a.seg \in dir /\ a.pos \in DOMAIN file[a.seg].recs
                      /\ a.pos > flushed[a.seg]
  <2> SUFFICES ASSUME NEW a \in lost'
               PROVE  a \in Place /\ a.seg \in dir /\ a.pos \in DOMAIN file[a.seg].recs
                      /\ a.pos > flushed[a.seg]
    OBVIOUS
  <2>1. PICK i \in dir : \E p \in flushed[i] + 1 .. Len(file[i].recs) : a = [seg |-> i, pos |-> p]
    BY <1>2 DEF Unflushed
  <2>2. PICK p \in flushed[i] + 1 .. Len(file[i].recs) : a = [seg |-> i, pos |-> p]
    BY <2>1
  <2>3. /\ i \in SegID /\ flushed[i] \in Nat /\ file[i].recs \in Seq(Record)
        /\ flushed[i] <= Len(file[i].recs)
    BY <1>1 DEF TypeOK, FlushedBound
  <2>4. p \in Nat \ {0} /\ p \in 1 .. Len(file[i].recs) /\ p > flushed[i]
    BY <2>3
  <2> QED
    BY <2>2, <2>3, <2>4 DEF Place
<1>4. TypeOK'
  <2>1. snap' \in [wm : SegID \cup {NoSeg}, at : Nat, idx : [Key -> Location]]
    <3>1. CASE snap' = snap
      BY <1>1, <3>1 DEF TypeOK
    <3>2. CASE Stopped /\ snap' = SnapshotOfIndex
      <4>1. active \in SegID /\ idx \in [Key -> Location] /\ file[active].recs \in Seq(Record)
        BY <1>1, <3>2 DEF Stopped, OnInv, IInv, SegsOnDisk, TypeOK
      <4> QED
        BY <3>2, <4>1 DEF SnapshotOfIndex
    <3> QED
      BY <3>1, <3>2
  <2>2. IdleJob \in Job /\ NoLoc \in Location
    BY IdleIsJob DEF Location
  <2>3. idx' \in [Key -> Location] /\ deadBytes' \in [SegID -> Nat] /\ job' \in [Compactor -> Job]
    BY <1>1, <2>2 DEF EndProcess
  <2>4. /\ proc' = "down" /\ segments' = {} /\ mapped' = {} /\ active' = NoSeg /\ compactOut' = NoSeg
        /\ nextSegID' = 0 /\ compactErr' = FALSE /\ MaxSegID \in Nat
    BY <1>1, BoundAssumption DEF EndProcess
  <2>5. /\ dir' \subseteq SegID /\ file' \in [SegID -> [recs : Seq(Record), size : Nat, cap : Nat]]
        /\ weak' \subseteq Key
        /\ writes' \in 0 .. MaxWrites /\ crashes' \in 0 .. MaxCrashes /\ ioErrs' \in 0 .. MaxIOErrors
    BY <1>1 DEF TypeOK, bounds
  <2>6. /\ proc' \in {"down", "open", "closing", "closed"} /\ segments' \subseteq SegID
        /\ mapped' \subseteq SegID /\ active' \in SegID \cup {NoSeg}
        /\ compactOut' \in SegID \cup {NoSeg} /\ nextSegID' \in 0 .. MaxSegID + 1
    BY <2>4
  <2>7. compactErr' \in BOOLEAN
    BY <2>4
  <2> QED
    BY <2>1, <2>3, <2>5, <2>6, <2>7 DEF TypeOK, Job, PCs
<1>5. LostPlaces' /\ TailsTyped' /\ tail' = NoTails
  <2>1. <<>> \in Seq(Slot)
    OBVIOUS
  <2>2. NoTails \in [SegID -> Seq(Slot)]
    BY <2>1 DEF NoTails
  <2> QED
    BY <1>1, <1>3, <2>2 DEF LostPlaces, TailsTyped
<1>6. TornOnly'
  <2>1. NoTails' = NoTails
    BY DEF NoTails
  <2> QED
    BY <1>4, <1>5, <2>1 DEF TornOnly
<1> QED
  BY <1>1, <1>3, <1>6 DEF Place

LEMMA LossSpares ==
    ASSUME OnInv, LosePower, snap' = snap \/ (Stopped /\ snap' = SnapshotOfIndex),
           NEW k \in acked \ weak
    PROVE  DRecovered'[k] = Seen[k]
<1>1. /\ TornOnly' /\ \A a \in lost' : a.seg \in SegID /\ a.pos > flushed[a.seg]
      /\ UNCHANGED <<dir, file, weak>>
  BY LossTears
<1>2. /\ k \in Key \ weak /\ TypeOK /\ TypeOK' /\ (Firmly(k) \/ NoValue(k)) /\ FlushedBound
      /\ SnapshotIsLatest /\ IndexIsLatest
  BY <1>1 DEF OnInv, IInv, RInv, AckSound, TornOnly
<1>3. RecordsOf(k)' = RecordsOf(k) /\ LatestLoc(k)' = LatestLoc(k) /\ LatestValue(k)' = LatestValue(k)
  BY <1>1 DEF RecordsOf, LatestLoc, LatestValue, LastOf, Before, RecordAt, IsTombstone, ValueIn
<1>4. Seen[k] = LatestValue(k)
  BY <1>2, SeenIsLatest
<1>5. snap' = snap \/ (snap'.idx = idx /\ idx[k] = LatestLoc(k))
  BY <1>2 DEF Stopped, SnapshotOfIndex, IndexIsLatest
<1>6. CASE NoValue(k)
  <2>1. LatestLoc(k) = NoLoc
    <3>1. RecordsOf(k) # {} => LastOf(RecordsOf(k)) \in RecordsOf(k)
      BY <1>2, LastExists
    <3> QED
      BY <1>6, <3>1 DEF NoValue, LatestLoc
  <2>2. UseSnapshot' => snap'.idx[k] = NoLoc
    BY <1>1, <1>5, <1>6, <2>1 DEF NoValue, UseSnapshot
  <2>3. \A a \in RecordsOf(k)' : IsTombstone(RecordAt(a))'
    BY <1>1, <1>3, <1>6 DEF NoValue, IsTombstone, RecordAt
  <2>4. NoValue(k)'
    BY <2>2, <2>3 DEF NoValue
  <2> QED
    BY <1>1, <1>2, <1>3, <1>4, <2>4, SparedAreRecoveredPrimed DEF SparedRecovered
<1>7. CASE Firmly(k)
  <2>1. PICK b : b = LastOf(RecordsOf(k))
    OBVIOUS
  <2>2. b \in RecordsOf(k) /\ b.pos <= flushed[b.seg]
    BY <1>2, <1>7, <2>1, LastExists DEF Firmly
  <2>3. b.seg \in SegID /\ b.pos \in Nat /\ flushed[b.seg] \in Nat
    BY <1>2, <2>2, RecordsAre DEF Place, FlushedBound
  <2>4. \A a \in lost' : a.seg = b.seg => a.pos > b.pos
    <3>1. \A a \in lost' : a.pos \in Nat
      BY <1>1 DEF TornOnly, LostPlaces, Place
    <3> QED
      BY <1>1, <2>2, <2>3, <3>1
  <2>5. UseSnapshot' /\ Replayed(k)' = {} => snap'.idx[k] = LatestLoc(k)
    <3>1. CASE snap' = snap
      <4>1. UseSnapshot' = UseSnapshot /\ Replayed(k)' = Replayed(k)
        BY <1>1, <3>1 DEF UseSnapshot, Replayed, RecordsOf
      <4> QED
        BY <1>2, <3>1, <4>1 DEF SnapshotIsLatest
    <3> QED
      BY <1>5, <3>1
  <2>6. LastOf(RecordsOf(k))' = b /\ RecordsOf(k)' # {}
    BY <1>3, <2>1, <2>2 DEF LastOf, Before
  <2>7. Spared(k)'
    BY <1>3, <2>4, <2>5, <2>6 DEF Spared
  <2> QED
    BY <1>1, <1>2, <1>3, <1>4, <2>7, SparedAreRecoveredPrimed DEF SparedRecovered
<1> QED
  BY <1>2, <1>6, <1>7

LEMMA DInitOn == DInit => OnInv /\ power = "on"
<1> SUFFICES ASSUME DInit PROVE OnInv /\ power = "on"
  OBVIOUS
<1>1. IInv /\ RInv /\ Init
  BY InitIInv, InitRInv DEF DInit
<1>2. file = [i \in SegID |-> NoFile] /\ flushed = [i \in SegID |-> 0] /\ lost = {} /\ tail = NoTails
      /\ acked = {}
  BY DEF DInit, Init, NoTails
<1>3. SizesAddUp
  BY <1>2, NothingUsed, OptionsAssumption DEF SizesAddUp, SizedRight, NoFile
<1>4. FlushedBound
  BY <1>2 DEF FlushedBound, NoFile
<1> QED
  BY <1>1, <1>2, <1>3, <1>4 DEF OnInv, Whole, AckSound, DInit

\* The power does not come back.
LEMMA PowerStaysOff == [DNext]_dvars /\ power' = "on" => power = "on"
<1> SUFFICES ASSUME [DNext]_dvars, power' = "on" PROVE power = "on"
  OBVIOUS
<1>1. ASSUME NEW c \in Compactor, DCompactorStep(c) PROVE power' = power
  BY <1>1 DEF DCompactorStep, DSkipRecord, DRelocate, DRelocateFails, ScanStops, DRemove
<1> QED
  BY <1>1 DEF DNext, DOpen, DPut, DDelete, DWriteFails, Sync, DFinishClose, DCloseCutShort, PowerLoss,
              PowerLossInClose, dvars

\* As long as the power has not gone, the machine is the one of module Bitcask: the
\* engine's invariants hold, no record is damaged, and what is acknowledged is flushed.
THEOREM OnInvariance == DSpec => [](power = "on" => OnInv)
<1>1. DInit => (power = "on" => OnInv)
  BY DInitOn
<1>2. (power = "on" => OnInv) /\ [DNext]_dvars => (power = "on" => OnInv)'
  BY OnKeeps, PowerStaysOff
<1> QED
  BY <1>1, <1>2, PTL DEF DSpec

\* Only a loss switches the power off.
LEMMA LossOnly == [DNext]_dvars /\ power' # power => PowerLoss \/ PowerLossInClose
<1> SUFFICES ASSUME [DNext]_dvars, power' # power PROVE PowerLoss \/ PowerLossInClose
  OBVIOUS
<1>1. ASSUME NEW c \in Compactor, DCompactorStep(c) PROVE power' = power
  BY <1>1 DEF DCompactorStep, DSkipRecord, DRelocate, DRelocateFails, ScanStops, DRemove
<1> QED
  BY <1>1 DEF DNext, DOpen, DPut, DDelete, DWriteFails, Sync, DFinishClose, DCloseCutShort, dvars

\* What a caller was told is durable (SyncOnWrite, Sync, Close) is there after a loss
\* of power at any moment, for the keys that no compaction left to an older record.
THEOREM AckedAreDurable == DSpec => AckedSurvives
<1>1. (power = "on" => OnInv) /\ [DNext]_dvars =>
          [power' # power => \A k \in acked \ weak : DRecovered'[k] = Seen[k]]_dvars
  <2> SUFFICES ASSUME power = "on" => OnInv, [DNext]_dvars, power' # power, NEW k \in acked \ weak
               PROVE  DRecovered'[k] = Seen[k]
    OBVIOUS
  <2>1. PowerLoss \/ PowerLossInClose
    BY LossOnly
  <2>2. LosePower /\ (snap' = snap \/ (Stopped /\ snap' = SnapshotOfIndex))
    BY <2>1 DEF PowerLoss, PowerLossInClose
  <2>3. OnInv
    BY <2>2 DEF LosePower
  <2> QED
    BY <2>2, <2>3, LossSpares
<1> QED
  BY <1>1, OnInvariance, PTL DEF DSpec, AckedSurvives

-----------------------------------------------------------------------------
(* What lies behind the used part. *)

\* Writing over slots leaves slots: a covered slot is cut where the record ends.
LEMMA OverwrittenIs ==
    ASSUME NEW slots \in Seq(Slot), NEW bytes \in Nat
    PROVE  Overwritten(slots, bytes) \in Seq(Slot)
<1> DEFINE sz == [n \in DOMAIN slots |-> slots[n].size]
           End == Sums(sz)
           S == { m \in 0 .. Len(slots) : End[m] <= bytes }
           whole == Max(S)
           rest == SubSeq(slots, whole + 1, Len(slots))
<1>1. PICK n \in Nat : n = Len(slots) /\ DOMAIN slots = 1 .. n
  OBVIOUS
<1>2. \A p \in 1 .. n : slots[p] \in Slot /\ slots[p].size \in 1 .. SegmentSize
  <2>1. \A p \in 1 .. n : slots[p] \in Slot
    BY <1>1
  <2>2. \A slot \in Slot : slot.size \in 1 .. SegmentSize
    BY DEF Slot
  <2> QED
    BY <2>1, <2>2
<1>3. sz \in Seq(Nat) /\ Len(sz) = n /\ \A p \in 1 .. n : sz[p] = slots[p].size
  <2>1. SegmentSize \in Nat
    BY OptionsAssumption
  <2>2. \A p \in 1 .. n : slots[p].size \in Nat
    BY <1>2, <2>1
  <2>3. sz = [p \in 1 .. n |-> slots[p].size]
    BY <1>1
  <2>4. sz \in [1 .. n -> Nat]
    BY <2>2, <2>3
  <2> HIDE DEF sz
  <2>5. sz \in Seq(Nat) /\ Len(sz) = n
    BY <2>4
  <2> QED
    BY <2>3, <2>5
<1> HIDE DEF sz
<1>4. /\ End \in [0 .. n -> Nat] /\ End[0] = 0
      /\ \A p \in 1 .. n : End[p] = End[p - 1] + slots[p].size
  BY <1>3, SumsGrow
<1>5. Overwritten(slots, bytes) =
          IF End[whole] = bytes \/ rest = <<>> THEN rest
          ELSE <<[rec |-> Unreadable, size |-> End[whole + 1] - bytes]>> \o Tail(rest)
  BY DEF Overwritten, sz
<1> HIDE DEF End
<1>6. S \in SUBSET (0 .. n) /\ 0 \in S
  BY <1>1, <1>4
<1>7. PICK w \in S : w = whole /\ \A m \in S : m <= w
  <2>1. \E x \in S : \A y \in S : x >= y
    <3> HIDE DEF S
    <3> QED
      BY <1>1, <1>6, MaxExists
  <2>2. whole \in S /\ \A y \in S : whole >= y
    <3> HIDE DEF S
    <3> QED
      BY <2>1 DEF Max
  <2>3. PICK x : x = whole
    OBVIOUS
  <2>4. x \in S /\ x \in Int /\ \A y \in S : x >= y
    BY <1>6, <2>2, <2>3
  <2>5. \A y \in S : y <= x
    <3>1. \A y \in S : y \in Int
      BY <1>6
    <3> QED
      BY <2>4, <3>1
  <2> QED
    BY <2>3, <2>4, <2>5
<1> HIDE DEF whole
<1>8. /\ w \in 0 .. n /\ End[w] <= bytes
      /\ w < n => End[w + 1] > bytes
  <2>1. w \in 0 .. n /\ End[w] <= bytes
    BY <1>1, <1>7
  <2>2. ASSUME w < n PROVE End[w + 1] > bytes
    <3>1. w + 1 \in 0 .. n /\ End[w + 1] \in Nat /\ ~(w + 1 <= w)
      BY <1>4, <2>1, <2>2
    <3>2. w + 1 \notin S
      BY <1>7, <3>1
    <3> QED
      BY <1>1, <3>1, <3>2
  <2> QED
    BY <2>1, <2>2
<1> HIDE DEF S
<1>9. /\ rest \in Seq(Slot) /\ Len(rest) = n - w
  <2>1. w + 1 \in Int /\ n \in Int /\ \A p \in w + 1 .. n : slots[p] \in Slot
    BY <1>1, <1>2, <1>8
  <2>2. /\ SubSeq(slots, w + 1, n) \in Seq(Slot)
        /\ Len(SubSeq(slots, w + 1, n)) = IF w + 1 <= n THEN n - (w + 1) + 1 ELSE 0
    BY <2>1, SubSeqProperties
  <2> QED
    BY <1>1, <1>7, <1>8, <2>2
<1>10. CASE End[w] = bytes \/ rest = <<>>
  BY <1>5, <1>7, <1>9, <1>10
<1>11. CASE ~(End[w] = bytes \/ rest = <<>>)
  <2>1. w < n /\ End[w + 1] > bytes /\ End[w] < bytes
    <3>1. Len(rest) # 0
      <4> HIDE DEF rest
      <4> QED
        BY <1>9, <1>11
    <3> QED
      BY <1>4, <1>8, <1>9, <1>11, <3>1
  <2>2. End[w + 1] = End[w] + slots[w + 1].size /\ slots[w + 1].size \in 1 .. SegmentSize
        /\ End[w] \in Nat
    <3>1. w + 1 \in 1 .. n /\ (w + 1) - 1 = w /\ w \in 0 .. n
      BY <1>8, <2>1
    <3> QED
      BY <1>2, <1>4, <3>1
  <2>3. End[w + 1] - bytes \in 1 .. SegmentSize
    <3>1. PICK e \in Nat, z \in 1 .. SegmentSize :
              End[w] = e /\ slots[w + 1].size = z /\ End[w + 1] = e + z
      BY <2>2
    <3>2. SegmentSize \in Nat
      BY OptionsAssumption
    <3> QED
      BY <2>1, <3>1, <3>2
  <2>4. PICK e : e = [rec |-> Unreadable, size |-> End[w + 1] - bytes]
    OBVIOUS
  <2>5. e \in Slot
    BY <2>3, <2>4 DEF Slot
  <2>6. Tail(rest) \in Seq(Slot)
    <3> HIDE DEF rest
    <3> QED
      BY <1>9, <1>11
  <2>7. <<e>> \o Tail(rest) \in Seq(Slot)
    <3> HIDE DEF rest
    <3>1. <<e>> \in Seq(Slot)
      BY <2>5
    <3> QED
      BY <2>6, <3>1
  <2> QED
    BY <1>5, <1>7, <1>11, <2>4, <2>7
<1> QED
  BY <1>10, <1>11

\* A write or a rotation keeps the shape of what lies behind.
LEMMA WriteTails ==
    ASSUME TailsTyped, NEW k \in Key, NEW v \in Val \cup {Absent}, OverwriteTail(k, v)
    PROVE  TailsTyped'
<1>1. SizeOf([key |-> k, val |-> v]) \in Nat /\ <<>> \in Seq(Slot)
  BY SizeIsNat
<1>2. PICK n \in Nat : n = SizeOf([key |-> k, val |-> v])
  BY <1>1
<1>3. \A i \in SegID : Overwritten(tail[i], n) \in Seq(Slot)
  BY OverwrittenIs DEF TailsTyped
<1>4. tail' = [tail EXCEPT ![active] = <<>>] \/ tail' = [tail EXCEPT ![active] = Overwritten(tail[active], n)]
  BY <1>2 DEF OverwriteTail
<1> QED
  BY <1>1, <1>3, <1>4 DEF TailsTyped

\* What recovery does not look at, or cannot read, is made of slots, too.
LEMMA BehindIs ==
    ASSUME TypeOK, LostPlaces, TailsTyped, NEW i \in SegID
    PROVE  Behind(i) \in Seq(Slot)
<1> DEFINE s == [n \in 1 .. Len(file[i].recs) - Kept(i) |-> SlotAt(i, Kept(i) + n)]
           t == SubSeq(tail[i], Len(Revived(i)) + 1, Len(tail[i]))
<1>1. PICK m, l \in Nat : /\ l = Len(file[i].recs) /\ m = Kept(i) /\ m \in 0 .. l
                          /\ file[i].recs \in Seq(Record)
  <2>1. file[i].recs \in Seq(Record) /\ Kept(i) \in 0 .. Len(file[i].recs)
    BY KeptIs DEF TypeOK
  <2>2. Len(file[i].recs) \in Nat
    BY <2>1
  <2>3. Kept(i) \in Nat
    BY <2>1, <2>2
  <2> QED
    BY <2>1, <2>2, <2>3
<1>2. \A p \in 1 .. l : SlotAt(i, p) \in Slot
  <2> SUFFICES ASSUME NEW p \in 1 .. l PROVE SlotAt(i, p) \in Slot
    OBVIOUS
  <2>1. file[i].recs[p] \in Record /\ SizeOf(file[i].recs[p]) \in 1 .. SegmentSize
    BY <1>1, SizesFit
  <2> QED
    BY <2>1 DEF SlotAt, Slot
<1>3. s \in Seq(Slot)
  <2>1. \A n \in 1 .. l - m : m + n \in 1 .. l
    BY <1>1
  <2>2. \A n \in 1 .. l - m : SlotAt(i, m + n) \in Slot
    BY <1>2, <2>1
  <2>3. s = [n \in 1 .. l - m |-> SlotAt(i, m + n)]
    BY <1>1
  <2>4. s \in [1 .. l - m -> Slot] /\ l - m \in Nat
    BY <1>1, <2>2, <2>3
  <2> HIDE DEF s
  <2> QED
    BY <2>4
<1>4. t \in Seq(Slot)
  <2>1. tail[i] \in Seq(Slot) /\ Len(tail[i]) \in Nat
    BY DEF TailsTyped
  <2>2. Len(Revived(i)) \in Nat
    BY RevivedIs
  <2>3. PICK a, b \in Nat : a = Len(Revived(i)) /\ b = Len(tail[i])
    BY <2>1, <2>2
  <2>4. a + 1 \in Int /\ b \in Int /\ \A p \in a + 1 .. b : tail[i][p] \in Slot
    BY <2>1, <2>3
  <2> QED
    BY <2>3, <2>4, SubSeqProperties
<1> HIDE DEF s, t
<1>5. s \o t \in Seq(Slot) /\ <<>> \in Seq(Slot)
  BY <1>3, <1>4
<1>6. Behind(i) \in {s \o t, <<>>}
  BY DEF Behind, s, t
<1> QED
  BY <1>5, <1>6

-----------------------------------------------------------------------------
(* What holds of a running DB whatever was lost.  It is the part of IInv that *)
(* says nothing of where index entries lead.                                  *)

JobBased(c) ==
    /\ proc = "down" => job[c].pc = "idle"
    /\ job[c].pc \in {"check", "begin", "scan", "drop", "remove"} =>
        /\ job[c].src \in SegID /\ job[c].src < nextSegID
        /\ job[c].src \notin {active, compactOut}
    /\ job[c].pc = "remove" => job[c].src \notin segments
    /\ (job[c].pc = "scan" /\ job[c].src \in mapped) => job[c].pos \in DOMAIN file[job[c].src].recs

SegsBelow ==
    proc # "down" => active < nextSegID /\ compactOut < nextSegID /\ \A i \in segments : i < nextSegID

BaseInv == TypeOK /\ SegsOnDisk /\ SegsBelow /\ \A c \in Compactor : JobBased(c)

LEMMA IInvIsBased == IInv => BaseInv
BY DEF IInv, BaseInv, SegsBelow, IdsBelow, JobSound, JobBased

\* A step that changes one job only.
LEMMA JobMovesBase ==
    ASSUME BaseInv, NEW c \in Compactor, NEW j \in Job, job' = [job EXCEPT ![c] = j],
           JobBased(c)', compactErr' \in BOOLEAN,
           UNCHANGED <<disk, proc, idx, segments, active, compactOut, nextSegID, deadBytes,
                       weak, writes, crashes>>,
           mapped' \subseteq mapped, segments \cap mapped \subseteq mapped', ioErrs' \in 0 .. MaxIOErrors
    PROVE  BaseInv'
<1>1. job \in [Compactor -> Job] /\ job' \in [Compactor -> Job] /\ TypeOK
  BY DEF BaseInv, TypeOK, Job, PCs
<1>2. TypeOK'
  BY <1>1 DEF TypeOK, disk, Job, PCs
<1>3. SegsOnDisk' /\ SegsBelow'
  BY DEF BaseInv, SegsOnDisk, SegsBelow, disk
<1>4. ASSUME NEW d \in Compactor
      PROVE  JobBased(d)'
  <2>1. CASE d = c
    BY <2>1
  <2>2. CASE d # c
    <3>1. job'[d] = job[d] /\ JobBased(d)
      BY <1>1, <2>2 DEF BaseInv
    <3> QED
      BY <3>1 DEF JobBased, disk
  <2> QED
    BY <2>1, <2>2
<1> QED
  BY <1>2, <1>3, <1>4 DEF BaseInv

LEMMA StartPassBase ==
    ASSUME BaseInv, NEW c \in Compactor, StartPass(c)
    PROVE  BaseInv'
<1>1. PICK j \in Job : job' = [job EXCEPT ![c] = j] /\ job'[c] = j /\ j.pc = "pick"
  BY GotoJob DEF StartPass, BaseInv, PCs
<1>2. JobBased(c)'
  BY <1>1 DEF JobBased, StartPass
<1> QED
  BY <1>1, <1>2, JobMovesBase DEF StartPass, mem, bounds, BaseInv, TypeOK

LEMMA PickBase ==
    ASSUME BaseInv, NEW c \in Compactor, Pick(c)
    PROVE  BaseInv'
<1>1. TypeOK /\ JobBased(c) /\ job[c].pc = "pick" /\ UNCHANGED proc /\ SegsBelow
  BY DEF BaseInv, Pick
<1>2. CASE \E i \in Eligible : /\ job' = [job EXCEPT ![c] = [pc |-> "check", src |-> i, pos |-> 0]]
                               /\ UNCHANGED compactErr
  <2>1. PICK i \in Eligible : job' = [job EXCEPT ![c] = [pc |-> "check", src |-> i, pos |-> 0]]
    BY <1>2
  <2>2. i \in segments /\ i \in SegID /\ i \notin {active, compactOut}
    BY <1>1, <2>1 DEF Eligible, TypeOK
  <2>3. i < nextSegID
    BY <1>1, <2>2 DEF SegsBelow, JobBased
  <2> DEFINE j == [pc |-> "check", src |-> i, pos |-> 0]
  <2>4. j \in Job /\ job'[c] = j
    BY <1>1, <2>1, <2>2 DEF Job, PCs, TypeOK
  <2>5. JobBased(c)'
    BY <1>1, <2>2, <2>3, <2>4 DEF JobBased, Pick
  <2> QED
    BY <1>1, <1>2, <2>1, <2>4, <2>5, JobMovesBase DEF Pick, TypeOK, bounds
<1>3. CASE Eligible = {} /\ EndPass(c, FALSE)
  <2>1. job' = [job EXCEPT ![c] = IdleJob] /\ compactErr' = FALSE /\ job'[c] = IdleJob
    BY <1>1, <1>3 DEF EndPass, TypeOK
  <2>2. JobBased(c)'
    BY <2>1, IdleIsJob DEF JobBased
  <2>3. compactErr' \in BOOLEAN /\ ioErrs \in 0 .. MaxIOErrors
    BY <1>1, <2>1 DEF TypeOK
  <2> QED
    BY <2>1, <2>2, <2>3, IdleIsJob, JobMovesBase DEF Pick, bounds
<1> QED
  BY <1>2, <1>3 DEF Pick

LEMMA CheckBase ==
    ASSUME BaseInv, NEW c \in Compactor, Check(c)
    PROVE  BaseInv'
<1> DEFINE pc == IF job[c].src \in segments \ {active} THEN "begin" ELSE "pick"
<1>1. PICK j \in Job : /\ job' = [job EXCEPT ![c] = j] /\ job'[c] = j
                       /\ j.pc = pc /\ j.src = job[c].src
  BY GotoJob DEF Check, BaseInv, PCs
<1>2. JobBased(c)'
  BY <1>1 DEF JobBased, Check, BaseInv, mem
<1> QED
  BY <1>1, <1>2, JobMovesBase DEF Check, mem, bounds, BaseInv, TypeOK

LEMMA BeginScanBase ==
    ASSUME BaseInv, NEW c \in Compactor, BeginScan(c)
    PROVE  BaseInv'
<1> DEFINE i == job[c].src
<1>1. /\ TypeOK /\ JobBased(c) /\ job[c].pc = "begin"
      /\ i \in SegID /\ i < nextSegID /\ i \notin {active, compactOut} /\ proc # "down"
      /\ UNCHANGED <<disk, proc, mem, mapped, weak, bounds>> /\ ioErrs \in 0 .. MaxIOErrors
  BY DEF BaseInv, BeginScan, JobBased, TypeOK
<1>2. job[c] \in Job /\ file[i].recs \in Seq(Record) /\ job \in [Compactor -> Job]
  BY <1>1 DEF TypeOK, Job, PCs
<1>3. CASE i \in mapped /\ file[i].recs # <<>>
  <2> DEFINE j == [job[c] EXCEPT !.pc = "scan", !.pos = 1]
  <2>1. j \in Job /\ j.pc = "scan" /\ j.pos = 1 /\ j.src = i
    BY <1>2 DEF Job, PCs
  <2>2. job' = [job EXCEPT ![c] = j]
    BY <1>1, <1>3 DEF BeginScan, TypeOK
  <2>3. job'[c] = j
    BY <1>2, <2>2
  <2> HIDE DEF j
  <2>4. 1 \in DOMAIN file[i].recs
    BY <1>2, <1>3
  <2>5. JobBased(c)'
    BY <1>1, <2>1, <2>3, <2>4 DEF JobBased, mem, disk
  <2> QED
    BY <1>1, <2>1, <2>2, <2>5, JobMovesBase DEF mem, TypeOK, bounds
<1>4. CASE ~(i \in mapped /\ file[i].recs # <<>>)
  <2>1. PICK j \in Job : /\ job' = [job EXCEPT ![c] = j] /\ job'[c] = j
                         /\ j.pc = "drop" /\ j.src = i
    BY <1>1, <1>4, GotoJob DEF BeginScan, PCs
  <2>2. JobBased(c)'
    BY <1>1, <2>1 DEF JobBased, mem
  <2> QED
    BY <1>1, <2>1, <2>2, JobMovesBase DEF mem, TypeOK, bounds
<1> QED
  BY <1>3, <1>4

\* A scan goes on to the next record or to the end.
LEMMA ScanOnBase ==
    ASSUME BaseInv, NEW c \in Compactor, Scanning(c), ScanOn(c), UNCHANGED proc,
           nextSegID' \in Int, nextSegID <= nextSegID',
           job[c].src \notin {active', compactOut'},
           DOMAIN file[job[c].src].recs \subseteq DOMAIN file'[job[c].src].recs
    PROVE  \E j \in Job : job' = [job EXCEPT ![c] = j] /\ JobBased(c)'
<1> DEFINE i == job[c].src
           p == job[c].pos
<1>1. /\ TypeOK /\ JobBased(c) /\ job[c].pc = "scan"
      /\ i \in SegID /\ i < nextSegID /\ proc # "down" /\ i \in mapped
  BY DEF BaseInv, Scanning, JobBased
<1>2. job[c] \in Job /\ p \in Nat /\ file[i].recs \in Seq(Record) /\ job \in [Compactor -> Job]
  BY <1>1 DEF TypeOK, Job, PCs
<1>3. PICK n \in Nat : n = Len(file[i].recs) /\ DOMAIN file[i].recs = 1 .. n
  BY <1>2
<1>4. i < nextSegID'
  BY <1>1 DEF TypeOK, SegID
<1>5. CASE p < n
  <2> DEFINE j == [job[c] EXCEPT !.pos = p + 1]
  <2>1. job' = [job EXCEPT ![c] = j]
    BY <1>2, <1>3, <1>5 DEF ScanOn
  <2>2. j \in Job /\ j.pc = "scan" /\ j.pos = p + 1 /\ j.src = i
    BY <1>1, <1>2 DEF Job, PCs
  <2>3. job'[c] = j
    BY <1>2, <2>1
  <2> HIDE DEF j
  <2>4. p + 1 \in DOMAIN file'[i].recs
    BY <1>2, <1>3, <1>5
  <2>5. JobBased(c)'
    BY <1>1, <1>4, <2>2, <2>3, <2>4 DEF JobBased
  <2> QED
    BY <2>1, <2>2, <2>5
<1>6. CASE ~(p < n)
  <2>1. PICK j \in Job : /\ job' = [job EXCEPT ![c] = j] /\ job'[c] = j
                         /\ j.pc = "drop" /\ j.src = i
    BY <1>1, <1>3, <1>6, GotoJob DEF ScanOn, PCs
  <2>2. JobBased(c)'
    BY <1>1, <1>4, <2>1 DEF JobBased
  <2> QED
    BY <2>1, <2>2
<1> QED
  BY <1>5, <1>6

LEMMA SkipRecordBase ==
    ASSUME BaseInv, NEW c \in Compactor, SkipRecord(c)
    PROVE  BaseInv'
<1>1. /\ TypeOK /\ JobBased(c) /\ Scanning(c) /\ ScanOn(c)
      /\ UNCHANGED <<disk, proc, mem, mapped, weak, bounds>>
      /\ job[c].src \notin {active, compactOut}
  BY DEF BaseInv, SkipRecord, JobBased, Scanning
<1>2. nextSegID \in Int
  BY <1>1, BoundAssumption DEF TypeOK
<1>3. /\ proc' = proc /\ nextSegID' = nextSegID /\ nextSegID <= nextSegID' /\ file' = file
      /\ active' = active /\ compactOut' = compactOut
  BY <1>1, <1>2 DEF mem, disk
<1>4. \E j \in Job : job' = [job EXCEPT ![c] = j] /\ JobBased(c)'
  BY <1>1, <1>2, <1>3, ScanOnBase
<1>5. PICK j \in Job : job' = [job EXCEPT ![c] = j] /\ JobBased(c)'
  BY <1>4
<1> QED
  BY <1>1, <1>5, JobMovesBase DEF mem, bounds, TypeOK

\* A compactor that goes to drop its source.
LEMMA DropsBase ==
    ASSUME BaseInv, NEW c \in Compactor, job[c].pc = "scan", Goto(c, "drop"),
           UNCHANGED <<disk, proc, mem, mapped, weak, bounds>>
    PROVE  BaseInv'
<1>1. TypeOK /\ JobBased(c)
  BY DEF BaseInv
<1>2. PICK j \in Job : /\ job' = [job EXCEPT ![c] = j] /\ job'[c] = j
                       /\ j.pc = "drop" /\ j.src = job[c].src
  BY <1>1, GotoJob DEF PCs
<1>3. JobBased(c)'
  BY <1>1, <1>2 DEF JobBased, mem
<1> QED
  BY <1>1, <1>2, <1>3, JobMovesBase DEF mem, bounds, TypeOK

LEMMA DropBase ==
    ASSUME BaseInv, NEW c \in Compactor, Drop(c)
    PROVE  BaseInv'
<1> DEFINE i == job[c].src
<1>1. /\ TypeOK /\ SegsOnDisk /\ SegsBelow /\ JobBased(c)
      /\ job[c].pc = "drop" /\ segments' = segments \ {i}
      /\ deadBytes' = [deadBytes EXCEPT ![i] = 0]
      /\ UNCHANGED <<disk, proc, idx, active, compactOut, nextSegID, compactErr, mapped, weak, bounds>>
  BY DEF BaseInv, Drop
<1>2. PICK j \in Job : /\ job' = [job EXCEPT ![c] = j] /\ job'[c] = j
                       /\ j.pc = "remove" /\ j.src = i
  BY <1>1, GotoJob DEF Drop, PCs
<1>3. TypeOK'
  <2>1. job' \in [Compactor -> Job]
    BY <1>1, <1>2 DEF TypeOK, Job, PCs
  <2>2. deadBytes' \in [SegID -> Nat]
    BY <1>1 DEF TypeOK
  <2> QED
    BY <1>1, <2>1, <2>2 DEF TypeOK, disk, bounds, Job, PCs
<1>4. SegsOnDisk' /\ SegsBelow'
  BY <1>1 DEF SegsOnDisk, SegsBelow, JobBased, disk
<1>5. JobBased(c)'
  BY <1>1, <1>2 DEF JobBased
<1>6. ASSUME NEW d \in Compactor \ {c}
      PROVE  JobBased(d)'
  <2>1. job'[d] = job[d] /\ JobBased(d)
    BY <1>1, <1>2 DEF TypeOK, BaseInv
  <2> QED
    BY <1>1, <2>1 DEF JobBased, disk
<1> QED
  BY <1>3, <1>4, <1>5, <1>6 DEF BaseInv

LEMMA RemoveBase ==
    ASSUME BaseInv, NEW c \in Compactor, Remove(c)
    PROVE  BaseInv'
<1> DEFINE i == job[c].src
<1>1. /\ TypeOK /\ SegsOnDisk /\ SegsBelow /\ JobBased(c)
      /\ job[c].pc = "remove" /\ i \in mapped /\ proc # "down"
      /\ mapped' = mapped \ {i} /\ dir' = dir \ {i} /\ file' = [file EXCEPT ![i] = NoFile]
      /\ weak' = weak \cup Undeleted(i)
      /\ UNCHANGED <<snap, proc, mem, bounds>>
  BY DEF BaseInv, Remove, JobBased
<1>2. PICK j \in Job : /\ job' = [job EXCEPT ![c] = j] /\ job'[c] = j
                       /\ j.pc = "unsnap" /\ j.src = i
  BY <1>1, GotoJob DEF Remove, PCs
<1>3. i \notin segments /\ i \in SegID
  BY <1>1 DEF JobBased
<1>4. TypeOK'
  <2>1. job' \in [Compactor -> Job]
    BY <1>1, <1>2 DEF TypeOK, Job, PCs
  <2>2. NoFile \in File
    BY DEF NoFile, File
  <2>3. file' \in [SegID -> File]
    BY <1>1, <2>2 DEF TypeOK, File
  <2>4. weak' \subseteq Key
    BY <1>1 DEF TypeOK, Undeleted
  <2> QED
    BY <1>1, <2>1, <2>3, <2>4 DEF TypeOK, File, mem, bounds, Job, PCs
<1>5. SegsOnDisk' /\ SegsBelow'
  BY <1>1, <1>3 DEF SegsOnDisk, SegsBelow, mem
<1>6. JobBased(c)'
  BY <1>1, <1>2 DEF JobBased, mem
<1>7. ASSUME NEW d \in Compactor \ {c}
      PROVE  JobBased(d)'
  <2>1. job'[d] = job[d] /\ JobBased(d)
    BY <1>1, <1>2 DEF TypeOK, BaseInv
  <2>2. \A a \in SegID \ {i} : file'[a] = file[a]
    BY <1>1 DEF TypeOK
  <2> QED
    BY <1>1, <2>1, <2>2 DEF JobBased, mem
<1> QED
  BY <1>4, <1>5, <1>6, <1>7 DEF BaseInv

LEMMA RemoveFailsBase ==
    ASSUME BaseInv, NEW c \in Compactor, RemoveFails(c)
    PROVE  BaseInv'
<1>1. /\ TypeOK /\ JobBased(c) /\ EndPass(c, TRUE) /\ job[c].src \notin segments
      /\ mapped' = mapped \ {job[c].src}
      /\ UNCHANGED <<disk, proc, idx, segments, active, compactOut, nextSegID, deadBytes,
                     weak, writes, crashes>>
  BY DEF BaseInv, RemoveFails, JobBased
<1>2. /\ compactErr' \in BOOLEAN /\ job' = [job EXCEPT ![c] = IdleJob] /\ job'[c].pc = "idle"
  BY <1>1, EndPassJob
<1>3. ioErrs' \in 0 .. MaxIOErrors
  <2>1. ioErrs' = ioErrs \/ (ioErrs < MaxIOErrors /\ ioErrs' = ioErrs + 1)
    BY DEF RemoveFails
  <2>2. ioErrs \in 0 .. MaxIOErrors
    BY <1>1 DEF TypeOK
  <2> QED
    BY <2>1, <2>2, BoundAssumption
<1>4. JobBased(c)'
  BY <1>2 DEF JobBased
<1>5. mapped' \subseteq mapped /\ segments \cap mapped \subseteq mapped'
  BY <1>1
<1> QED
  BY <1>1, <1>2, <1>3, <1>4, <1>5, IdleIsJob, JobMovesBase

LEMMA RemoveSnapshotBase ==
    ASSUME BaseInv, NEW c \in Compactor, RemoveSnapshot(c)
    PROVE  BaseInv'
<1> DEFINE j == [IdleJob EXCEPT !.pc = "pick"]
<1>1. /\ TypeOK /\ proc # "down" /\ (snap' = NoSnap \/ snap' = snap)
      /\ UNCHANGED <<dir, file, proc, mem, mapped, weak, writes, crashes>>
  BY DEF BaseInv, RemoveSnapshot, JobBased
<1>2. j \in Job /\ j.pc = "pick"
  BY IdleIsJob DEF Job, PCs
<1>3. job' = [job EXCEPT ![c] = j] /\ job \in [Compactor -> Job]
  BY <1>1 DEF RemoveSnapshot, TypeOK, Job, PCs
<1> HIDE DEF j
<1>4. ioErrs' \in 0 .. MaxIOErrors
  <2>1. ioErrs' = ioErrs \/ (ioErrs < MaxIOErrors /\ ioErrs' = ioErrs + 1)
    BY DEF RemoveSnapshot
  <2>2. ioErrs \in 0 .. MaxIOErrors /\ MaxIOErrors \in Nat
    BY <1>1, BoundAssumption DEF TypeOK
  <2> QED
    BY <2>1, <2>2
<1>5. TypeOK'
  <2>1. job' \in [Compactor -> Job]
    BY <1>2, <1>3
  <2>2. snap' \in [wm : SegID \cup {NoSeg}, at : Nat, idx : [Key -> Location]]
    BY <1>1, NoSnapShape DEF TypeOK
  <2> QED
    BY <1>1, <1>4, <2>1, <2>2 DEF TypeOK, mem, Job, PCs
<1>6. SegsOnDisk' /\ SegsBelow'
  BY <1>1 DEF BaseInv, SegsOnDisk, SegsBelow, mem
<1>7. ASSUME NEW d \in Compactor
      PROVE  JobBased(d)'
  <2>1. CASE d = c
    BY <1>1, <1>2, <1>3, <2>1 DEF JobBased
  <2>2. CASE d # c
    <3>1. job'[d] = job[d] /\ JobBased(d)
      BY <1>3, <2>2 DEF BaseInv
    <3> QED
      BY <1>1, <3>1 DEF JobBased, mem
  <2> QED
    BY <2>1, <2>2
<1> QED
  BY <1>5, <1>6, <1>7 DEF BaseInv

\* An append to active or to compactOut.
LEMMA AppendBase ==
    ASSUME BaseInv, proc # "down", UNCHANGED <<snap, proc>>,
           NEW cur \in SegID \cup {NoSeg}, NEW r \in Record, AppendRecord(cur, r),
           NEW t, t = Target(cur, r),
           \/ cur = active /\ active' = t /\ compactOut' = compactOut
           \/ cur = compactOut /\ compactOut' = t /\ active' = active,
           NEW l, l = NoLoc \/ l = EndOf(t),
           idx' = [idx EXCEPT ![r.key] = l]
    PROVE  /\ dir' \subseteq SegID /\ file' \in [SegID -> File]
           /\ segments' \subseteq SegID /\ mapped' \subseteq SegID /\ weak' \subseteq Key
           /\ active' \in SegID \cup {NoSeg} /\ compactOut' \in SegID \cup {NoSeg}
           /\ nextSegID' \in 0 .. MaxSegID + 1 /\ idx' \in [Key -> Location] /\ t \in SegID
           /\ nextSegID <= nextSegID' /\ \A i \in dir : DOMAIN file[i].recs \subseteq DOMAIN file'[i].recs
           /\ SegsOnDisk' /\ SegsBelow'
           /\ \A d \in Compactor : job'[d] = job[d] => JobBased(d)'
<1>1. TypeOK /\ SegsOnDisk /\ SegsBelow
  BY DEF BaseInv
<1>2. /\ t \in SegID
      /\ \/ t = cur /\ nextSegID' = nextSegID
         \/ t = nextSegID /\ t \notin dir /\ nextSegID' = nextSegID + 1
      /\ nextSegID' \in 0 .. MaxSegID + 1 /\ file' \in [SegID -> File]
      /\ EndOf(t) \in Location
  BY <1>1, AppendRecordKeeps
<1>3. \A i \in dir : DOMAIN file[i].recs \subseteq DOMAIN file'[i].recs
  <2>1. \A i \in dir : \A p \in DOMAIN file[i].recs : p \in DOMAIN file'[i].recs
    BY <1>1, AppendRecordKeeps
  <2> QED
    BY <2>1
<1>4. dir' = dir \cup {t} /\ segments' = segments \cup {t} /\ mapped' = mapped \cup {t}
  BY DEF AppendRecord
<1>5. r.key \in Key /\ weak' \subseteq Key
  BY <1>1 DEF AppendRecord, Record, TypeOK
<1>6. NoLoc \in Location /\ NoSeg \notin SegID
  BY DEF NoLoc, Location, NoSeg, SegID
<1>7. idx' \in [Key -> Location]
  BY <1>1, <1>2, <1>5, <1>6 DEF TypeOK
<1>8. nextSegID \in Int /\ nextSegID' \in Int /\ nextSegID <= nextSegID' /\ t < nextSegID'
  <2>1. nextSegID \in Nat /\ nextSegID' \in Nat /\ t \in Nat
    BY <1>1, <1>2 DEF TypeOK, SegID
  <2>2. cur \in {active, compactOut} /\ cur < nextSegID
    BY <1>1 DEF SegsBelow
  <2> QED
    BY <1>2, <2>1, <2>2
<1>9. SegsOnDisk'
  BY <1>1, <1>2, <1>4, <1>6 DEF SegsOnDisk
<1>10. SegsBelow'
  <2>1. \A i \in SegID \cup {NoSeg} : i \in Int
    BY DEF SegID, NoSeg
  <2>2. active < nextSegID /\ compactOut < nextSegID /\ \A i \in segments : i < nextSegID
    BY <1>1 DEF SegsBelow
  <2>3. active \in Int /\ compactOut \in Int /\ \A i \in segments : i \in Int
    BY <1>1, <2>1 DEF TypeOK
  <2> QED
    BY <1>4, <1>8, <2>2, <2>3 DEF SegsBelow
<1>11. ASSUME NEW d \in Compactor, job'[d] = job[d]
       PROVE  JobBased(d)'
  <2>1. JobBased(d)
    BY DEF BaseInv
  <2>2. job[d].pc \in {"check", "begin", "scan", "drop", "remove"} =>
          /\ job[d].src \in SegID /\ job[d].src < nextSegID'
          /\ job[d].src \notin {active', compactOut', t}
    BY <1>1, <1>2, <1>8, <2>1 DEF JobBased, SegID
  <2>3. mapped \subseteq dir
    BY <1>1 DEF SegsOnDisk
  <2> QED
    BY <1>3, <1>4, <1>11, <2>1, <2>2, <2>3 DEF JobBased
<1>12. dir' \subseteq SegID /\ segments' \subseteq SegID /\ mapped' \subseteq SegID
  BY <1>1, <1>2, <1>4 DEF TypeOK
<1>13. active' \in SegID \cup {NoSeg} /\ compactOut' \in SegID \cup {NoSeg}
  BY <1>1, <1>2 DEF TypeOK
<1> QED
  BY <1>2, <1>3, <1>5, <1>7, <1>8, <1>9, <1>10, <1>11, <1>12, <1>13

LEMMA WriteBase ==
    ASSUME BaseInv, NEW k \in Key, NEW v \in Val \cup {Absent}, Write(k, v),
           NEW l, l = NoLoc \/ l = EndOf(active'),
           idx' = [idx EXCEPT ![k] = l],
           deadBytes' \in [SegID -> Nat]
    PROVE  BaseInv'
<1> DEFINE r == [key |-> k, val |-> v]
<1>1. r \in Record /\ r.key = k
  BY DEF Record
<1>2. /\ TypeOK /\ active \in SegID \cup {NoSeg} /\ proc = "open" /\ UNCHANGED <<snap, proc>>
      /\ AppendRecord(active, r) /\ active' = Target(active, r) /\ compactOut' = compactOut
      /\ writes' \in 0 .. MaxWrites
      /\ UNCHANGED <<compactErr, job, crashes, ioErrs>>
  <2>1. TypeOK
    BY DEF BaseInv
  <2>2. writes < MaxWrites /\ writes' = writes + 1 /\ writes \in 0 .. MaxWrites
    BY <2>1 DEF Write, TypeOK
  <2>3. writes' \in 0 .. MaxWrites
    BY <2>2, BoundAssumption
  <2> QED
    BY <2>1, <2>3 DEF Write, TypeOK
<1> HIDE DEF r
<1>3. /\ dir' \subseteq SegID /\ file' \in [SegID -> File]
      /\ segments' \subseteq SegID /\ mapped' \subseteq SegID /\ weak' \subseteq Key
      /\ active' \in SegID \cup {NoSeg} /\ compactOut' \in SegID \cup {NoSeg}
      /\ nextSegID' \in 0 .. MaxSegID + 1 /\ idx' \in [Key -> Location]
      /\ SegsOnDisk' /\ SegsBelow'
      /\ \A d \in Compactor : job'[d] = job[d] => JobBased(d)'
  BY <1>1, <1>2, AppendBase
<1>4. TypeOK'
  BY <1>2, <1>3 DEF TypeOK, File
<1> QED
  BY <1>2, <1>3, <1>4 DEF BaseInv

LEMMA PutBase ==
    ASSUME BaseInv, NEW k \in Key, NEW v \in Val, Put(k, v)
    PROVE  BaseInv'
<1>1. TypeOK /\ deadBytes \in [SegID -> Nat]
  BY DEF BaseInv, TypeOK
<1>2. deadBytes' \in [SegID -> Nat]
  BY <1>1, WithSupersededType DEF Put
<1> QED
  BY <1>2, WriteBase DEF Put

LEMMA DeleteBase ==
    ASSUME BaseInv, NEW k \in Key, Delete(k)
    PROVE  BaseInv'
<1>1. TypeOK /\ deadBytes \in [SegID -> Nat]
  BY DEF BaseInv, TypeOK
<1>2. [deadBytes EXCEPT ![active'] = @ + 1] \in [SegID -> Nat]
  <2>1. \A i \in SegID : deadBytes[i] + 1 \in Nat
    BY <1>1
  <2> QED
    BY <1>1, <2>1
<1>3. deadBytes' \in [SegID -> Nat]
  BY <1>1, <1>2, WithSupersededType DEF Delete
<1> QED
  BY <1>3, WriteBase DEF Delete

LEMMA RelocateBase ==
    ASSUME BaseInv, NEW c \in Compactor, Relocate(c)
    PROVE  BaseInv'
<1> DEFINE r == Scanned(c)
           i == job[c].src
           t == Target(compactOut, r)
<1>1. /\ TypeOK /\ SegsOnDisk /\ JobBased(c)
      /\ Scanning(c)
      /\ AppendRecord(compactOut, r) /\ compactOut' = t
      /\ idx' = [idx EXCEPT ![r.key] = EndOf(t)]
      /\ ScanOn(c)
      /\ UNCHANGED <<snap, proc, active, deadBytes, compactErr, bounds>>
  BY DEF BaseInv, Relocate
<1>2. /\ job[c].pc = "scan" /\ i \in mapped /\ i \in dir /\ i \in SegID /\ proc # "down"
      /\ i < nextSegID /\ i \notin {active, compactOut}
      /\ job[c] \in Job /\ file[i].recs \in Seq(Record) /\ compactOut \in SegID \cup {NoSeg}
  BY <1>1 DEF Scanning, JobBased, SegsOnDisk, TypeOK, Job, PCs
<1>3. r \in Record /\ r.key \in Key
  <2>1. job[c].pos \in DOMAIN file[i].recs
    BY <1>1, <1>2 DEF JobBased
  <2>2. r = file[i].recs[job[c].pos]
    BY DEF Scanned, RecordAt, At
  <2>3. r \in Record
    BY <1>2, <2>1, <2>2
  <2> QED
    BY <2>3 DEF Record
<1>0. t = Target(compactOut, r)
  OBVIOUS
<1> HIDE DEF r, t
<1>4. /\ dir' \subseteq SegID /\ file' \in [SegID -> File]
      /\ segments' \subseteq SegID /\ mapped' \subseteq SegID /\ weak' \subseteq Key
      /\ active' \in SegID \cup {NoSeg} /\ compactOut' \in SegID \cup {NoSeg}
      /\ nextSegID' \in 0 .. MaxSegID + 1 /\ idx' \in [Key -> Location]
      /\ SegsOnDisk' /\ SegsBelow'
      /\ \A d \in Compactor : job'[d] = job[d] => JobBased(d)'
  BY <1>0, <1>1, <1>2, <1>3, AppendBase
<1>5. /\ nextSegID <= nextSegID' /\ \A j \in dir : DOMAIN file[j].recs \subseteq DOMAIN file'[j].recs
      /\ t = compactOut \/ t = nextSegID
  <2>1. \A j \in dir : DOMAIN file[j].recs \subseteq DOMAIN file'[j].recs
    BY <1>0, <1>1, <1>2, <1>3, AppendBase
  <2>2. nextSegID <= nextSegID'
    BY <1>0, <1>1, <1>2, <1>3, AppendBase
  <2>3. t = compactOut \/ t = nextSegID
    BY <1>0 DEF Target
  <2> QED
    BY <2>1, <2>2, <2>3
<1>6. /\ nextSegID' \in Int /\ i \notin {active', compactOut'}
      /\ DOMAIN file[i].recs \subseteq DOMAIN file'[i].recs
  <2>1. nextSegID \in Int /\ nextSegID' \in Int
    BY <1>1, <1>4 DEF TypeOK
  <2>2. i # nextSegID
    BY <1>2, <2>1 DEF SegID
  <2> QED
    BY <1>1, <1>2, <1>5, <2>1, <2>2
<1>7. (\E j \in Job : job' = [job EXCEPT ![c] = j]) /\ JobBased(c)'
  BY <1>1, <1>5, <1>6, ScanOnBase
<1>8. job \in [Compactor -> Job] /\ job' \in [Compactor -> Job]
  <2>1. job \in [Compactor -> Job]
    BY <1>1 DEF TypeOK, Job, PCs
  <2> QED
    BY <1>7, <2>1
<1>9. \A d \in Compactor : JobBased(d)'
  <2>1. \A d \in Compactor \ {c} : job'[d] = job[d]
    BY <1>7, <1>8
  <2> QED
    BY <1>4, <1>7, <2>1
<1>10. TypeOK'
  BY <1>1, <1>4, <1>8 DEF TypeOK, File, Job, PCs, bounds
<1> QED
  BY <1>4, <1>9, <1>10 DEF BaseInv

-----------------------------------------------------------------------------
(* Failed rotations, and the end of a process. *)

LEMMA CreateFailsBase ==
    ASSUME BaseInv, NEW cur \in SegID \cup {NoSeg}, CreateFails(cur),
           UNCHANGED <<proc, segments, mapped, active, compactOut, nextSegID>>
    PROVE  /\ file' \in [SegID -> File] /\ dir' \subseteq SegID /\ ioErrs' \in 0 .. MaxIOErrors
           /\ dir \subseteq dir' /\ \A i \in SegID : file'[i].recs = file[i].recs
           /\ SegsOnDisk' /\ SegsBelow'
           /\ \A d \in Compactor : job'[d] = job[d] => JobBased(d)'
<1>1. TypeOK /\ SegsOnDisk /\ SegsBelow
  BY DEF BaseInv
<1>2. file' \in [SegID -> File] /\ \A i \in SegID : file'[i].recs = file[i].recs
  <2>1. file \in [SegID -> File]
    BY <1>1 DEF TypeOK, File
  <2> QED
    BY <2>1, FinalizedKeeps DEF CreateFails
<1>3. dir \subseteq dir' /\ dir' \subseteq SegID
  BY <1>1 DEF CreateFails, TypeOK
<1>4. ioErrs' \in 0 .. MaxIOErrors
  <2>1. ioErrs \in 0 .. MaxIOErrors
    BY <1>1 DEF TypeOK
  <2>2. ioErrs' = ioErrs \/ (ioErrs < MaxIOErrors /\ ioErrs' = ioErrs + 1)
    BY DEF CreateFails
  <2> QED
    BY <2>1, <2>2, BoundAssumption
<1>5. SegsOnDisk' /\ SegsBelow'
  BY <1>1, <1>3 DEF SegsOnDisk, SegsBelow
<1>6. ASSUME NEW d \in Compactor, job'[d] = job[d]
      PROVE  JobBased(d)'
  BY <1>1, <1>2, <1>6 DEF BaseInv, JobBased, TypeOK
<1> QED
  BY <1>2, <1>3, <1>4, <1>5, <1>6

LEMMA WriteFailsBase ==
    ASSUME BaseInv, WriteFails
    PROVE  BaseInv'
<1>1. /\ TypeOK /\ active \in SegID \cup {NoSeg} /\ CreateFails(active)
      /\ UNCHANGED <<snap, proc, mem, mapped, job, weak, writes, crashes>>
  BY DEF BaseInv, WriteFails, TypeOK
<1>2. /\ file' \in [SegID -> File] /\ dir' \subseteq SegID /\ ioErrs' \in 0 .. MaxIOErrors
      /\ SegsOnDisk' /\ SegsBelow'
      /\ \A d \in Compactor : job'[d] = job[d] => JobBased(d)'
  BY <1>1, CreateFailsBase DEF mem
<1>3. TypeOK'
  BY <1>1, <1>2 DEF TypeOK, File, mem
<1> QED
  BY <1>1, <1>2, <1>3 DEF BaseInv

LEMMA RelocateFailsBase ==
    ASSUME BaseInv, NEW c \in Compactor, RelocateFails(c)
    PROVE  BaseInv'
<1>1. /\ TypeOK /\ compactOut \in SegID \cup {NoSeg} /\ CreateFails(compactOut)
      /\ EndPass(c, TRUE)
      /\ UNCHANGED <<snap, proc, idx, segments, active, compactOut, nextSegID, deadBytes,
                     mapped, weak, writes, crashes>>
  BY DEF BaseInv, RelocateFails, TypeOK
<1>2. /\ file' \in [SegID -> File] /\ dir' \subseteq SegID /\ ioErrs' \in 0 .. MaxIOErrors
      /\ SegsOnDisk' /\ SegsBelow'
      /\ \A d \in Compactor : job'[d] = job[d] => JobBased(d)'
  BY <1>1, CreateFailsBase
<1>3. /\ job' \in [Compactor -> Job] /\ compactErr' \in BOOLEAN
      /\ \A d \in Compactor \ {c} : job'[d] = job[d]
      /\ job'[c].pc = "idle"
  BY <1>1, EndPassJob
<1>4. JobBased(c)'
  BY <1>3 DEF JobBased
<1>5. TypeOK'
  BY <1>1, <1>2, <1>3 DEF TypeOK, File, Job, PCs
<1> QED
  BY <1>2, <1>3, <1>4, <1>5 DEF BaseInv

\* The end of a process.  Which snapshot it leaves does not matter.
LEMMA EndProcessBase ==
    ASSUME BaseInv, EndProcess, snap' \in [wm : SegID \cup {NoSeg}, at : Nat, idx : [Key -> Location]],
           UNCHANGED <<dir, file, weak, writes, ioErrs>>, crashes' \in 0 .. MaxCrashes
    PROVE  BaseInv'
<1>1. TypeOK
  BY DEF BaseInv
<1>2. /\ NoLoc \in Location /\ 0 \in 0 .. MaxSegID + 1
  BY BoundAssumption DEF NoLoc, Location, NoSeg, SegID
<1>3. TypeOK'
  BY <1>1, <1>2, IdleIsJob DEF TypeOK, EndProcess, Job, PCs
<1>4. SegsOnDisk' /\ SegsBelow'
  BY <1>1 DEF SegsOnDisk, SegsBelow, EndProcess
<1>5. \A d \in Compactor : JobBased(d)'
  BY IdleIsJob DEF JobBased, EndProcess
<1> QED
  BY <1>3, <1>4, <1>5 DEF BaseInv

LEMMA CrashBase ==
    ASSUME BaseInv, Crash
    PROVE  BaseInv'
<1>1. TypeOK /\ EndProcess /\ UNCHANGED <<disk, weak, writes, ioErrs>>
  BY DEF BaseInv, Crash, Vanish
<1>2. crashes' \in 0 .. MaxCrashes
  BY <1>1, BoundAssumption DEF TypeOK, Crash
<1>3. snap' \in [wm : SegID \cup {NoSeg}, at : Nat, idx : [Key -> Location]]
  BY <1>1 DEF TypeOK, disk
<1> QED
  BY <1>1, <1>2, <1>3, EndProcessBase DEF disk

LEMMA ScanUnmappedBase ==
    ASSUME BaseInv, NEW c \in Compactor, ScanUnmapped(c)
    PROVE  BaseInv'
<1>1. TypeOK /\ job[c].pc = "scan" /\ UNCHANGED bounds
  BY DEF BaseInv, ScanUnmapped
<1>2. CASE Vanish
  <2>1. snap' \in [wm : SegID \cup {NoSeg}, at : Nat, idx : [Key -> Location]]
    BY <1>1, <1>2 DEF TypeOK, Vanish, disk
  <2>2. crashes' \in 0 .. MaxCrashes
    BY <1>1 DEF TypeOK, bounds
  <2> QED
    BY <1>1, <1>2, <2>1, <2>2, EndProcessBase DEF Vanish, disk, bounds
<1>3. CASE Goto(c, "drop") /\ UNCHANGED <<disk, proc, mem, mapped, weak>>
  BY <1>1, <1>3, DropsBase
<1> QED
  BY <1>2, <1>3 DEF ScanUnmapped

-----------------------------------------------------------------------------
(* Closing. *)

\* What Close writes is a snapshot.
LEMMA SnapshotShape ==
    ASSUME TypeOK, active \in SegID
    PROVE  SnapshotOfIndex \in [wm : SegID \cup {NoSeg}, at : Nat, idx : [Key -> Location]]
<1>1. file[active].recs \in Seq(Record) /\ idx \in [Key -> Location]
  BY DEF TypeOK
<1>2. Len(file[active].recs) \in Nat
  BY <1>1
<1> QED
  BY <1>1, <1>2 DEF SnapshotOfIndex

LEMMA ProcMovesBase ==
    ASSUME BaseInv, proc # "down", proc' \in {"closing", "closed"},
           mapped' \subseteq mapped,
           proc' = "closing" => proc = "open" /\ mapped' = mapped,
           ioErrs' \in 0 .. MaxIOErrors,
           snap' \in {snap, SnapshotOfIndex},
           UNCHANGED <<dir, file, mem, job, weak, writes, crashes>>
    PROVE  BaseInv'
<1>1. TypeOK /\ SegsOnDisk /\ SegsBelow
  BY DEF BaseInv
<1>2. active \in SegID
  BY <1>1 DEF SegsOnDisk, TypeOK
<1>3. TypeOK'
  <2>1. snap' \in [wm : SegID \cup {NoSeg}, at : Nat, idx : [Key -> Location]]
    BY <1>1, <1>2, SnapshotShape DEF TypeOK
  <2>2. mapped' \subseteq SegID /\ proc' \in {"down", "open", "closing", "closed"}
    BY <1>1 DEF TypeOK
  <2> QED
    BY <1>1, <2>1, <2>2 DEF TypeOK, mem
<1>4. SegsOnDisk' /\ SegsBelow'
  BY <1>1 DEF SegsOnDisk, SegsBelow, mem
<1>5. ASSUME NEW d \in Compactor
      PROVE  JobBased(d)'
  <2>1. JobBased(d)
    BY DEF BaseInv
  <2> QED
    BY <2>1 DEF JobBased, mem
<1> QED
  BY <1>3, <1>4, <1>5 DEF BaseInv

LEMMA CloseBase ==
    ASSUME BaseInv, BeginClose \/ FinishClose \/ SnapshotFails \/ CloseCutShort
    PROVE  BaseInv'
<1>1. TypeOK /\ ioErrs \in 0 .. MaxIOErrors /\ MaxIOErrors \in Nat
  BY BoundAssumption DEF BaseInv, TypeOK
<1>2. CASE BeginClose
  BY <1>1, <1>2, ProcMovesBase DEF BeginClose, disk, bounds
<1>3. CASE FinishClose
  BY <1>1, <1>3, ProcMovesBase DEF FinishClose, Stopped, bounds
<1>4. ASSUME ioErrs < MaxIOErrors, ioErrs' = ioErrs + 1
      PROVE  ioErrs' \in 0 .. MaxIOErrors
  BY <1>1, <1>4
<1>5. CASE SnapshotFails
  BY <1>4, <1>5, ProcMovesBase DEF SnapshotFails, Stopped, disk
<1>6. CASE CloseCutShort
  <2>1. mapped' \subseteq mapped
    BY <1>6 DEF CloseCutShort
  <2> QED
    BY <1>4, <1>6, <2>1, ProcMovesBase DEF CloseCutShort, Stopped
<1> QED
  BY <1>2, <1>3, <1>5, <1>6

-----------------------------------------------------------------------------
(* What recovery makes of damaged files. *)

\* A location that recovery finds is that of a value of the key, or the snapshot's.
LEMMA LocInIs ==
    ASSUME TypeOK, LostPlaces, TailsTyped, NEW k \in Key,
           NEW found, found = [i \in SegID |-> Found(i)], NEW a, a = LocIn(found, k)
    PROVE  /\ a \in Location
           /\ \/ a = NoLoc
              \/ UseSnapshot /\ a = snap.idx[k] /\ PlacesIn(found, k) = {}
              \/ /\ a \in Place /\ a \in PlacesIn(found, k) /\ a.seg \in dir
                 /\ a.pos > Skipped(a.seg) /\ a.pos \in 1 .. Len(Found(a.seg))
                 /\ Found(a.seg)[a.pos].key = k /\ ~IsTombstone(Found(a.seg)[a.pos])
<1> DEFINE S == PlacesIn(found, k)
           b == LastOf(S)
<1>1. /\ dir \subseteq SegID /\ snap.at \in Nat /\ snap.idx[k] \in Location /\ NoLoc \in Location
      /\ \A i \in SegID : Len(found[i]) \in Nat /\ found[i] = Found(i) /\ Skipped(i) \in Nat
  <2>1. /\ dir \subseteq SegID /\ snap.at \in Nat /\ snap.idx[k] \in Location
        /\ \A i \in SegID : file[i].recs \in Seq(Record)
    BY DEF TypeOK
  <2>2. \A i \in SegID : Found(i) \in Seq(Record)
    BY FoundIs
  <2>3. \A i \in SegID : Len(file[i].recs) \in Nat /\ Len(Found(i)) \in Nat
    BY <2>1, <2>2
  <2> QED
    BY <2>1, <2>3 DEF Skipped, Location
<1>2. ASSUME NEW c \in S
      PROVE  /\ c \in Place /\ c.seg \in dir /\ c.pos <= Len(found[c.seg])
             /\ c.pos > Skipped(c.seg) /\ c.pos \in 1 .. Len(found[c.seg]) /\ found[c.seg][c.pos].key = k
  <2>1. PICK i \in dir : \E p \in Skipped(i) + 1 .. Len(found[i]) :
                             found[i][p].key = k /\ c = [seg |-> i, pos |-> p]
    BY DEF PlacesIn
  <2>2. PICK p \in Skipped(i) + 1 .. Len(found[i]) : found[i][p].key = k /\ c = [seg |-> i, pos |-> p]
    BY <2>1
  <2>3. /\ i \in SegID /\ p \in Nat \ {0} /\ p <= Len(found[i]) /\ p > Skipped(i)
        /\ p \in 1 .. Len(found[i])
    BY <1>1
  <2> QED
    BY <2>2, <2>3 DEF Place
<1>3. S # {} => b \in S
  <2> DEFINE len == [i \in SegID |-> Len(found[i])]
  <2>1. \A i \in SegID : len[i] \in Nat
    BY <1>1
  <2>2. \A c \in S : c \in [seg : SegID, pos : Nat \ {0}] /\ c.pos <= len[c.seg]
    BY <1>1, <1>2 DEF Place
  <2> HIDE DEF len, S
  <2> QED
    BY <2>1, <2>2, LastOfPlaces
<1>4. a = IF S = {} THEN IF UseSnapshot THEN snap.idx[k] ELSE NoLoc
          ELSE IF IsTombstone(found[b.seg][b.pos]) THEN NoLoc ELSE b
  BY DEF LocIn
<1>5. CASE S = {}
  BY <1>1, <1>4, <1>5
<1>6. CASE S # {}
  <2>1. b \in Place /\ b.seg \in SegID /\ b \in Location /\ found[b.seg] = Found(b.seg)
    BY <1>1, <1>2, <1>3, <1>6 DEF Place, Location
  <2> HIDE DEF S, b
  <2> QED
    BY <1>1, <1>2, <1>3, <1>4, <1>6, <2>1 DEF S
<1> QED
  BY <1>5, <1>6

\* What becomes of a file is a file.
LEMMA ReopenedIs ==
    ASSUME TypeOK, LostPlaces, TailsTyped, NEW i \in SegID
    PROVE  /\ Reopened(i) \in File
           /\ IF i \notin dir \/ (UseSnapshot /\ i < snap.wm)
              THEN Reopened(i) = file[i] ELSE Reopened(i).recs = Found(i)
<1>1. /\ file[i] \in File /\ Found(i) \in Seq(Record) /\ UsedSize(Found(i)) \in Nat /\ file[i].cap \in Nat
  <2>1. file[i] \in File /\ Found(i) \in Seq(Record)
    BY FoundIs DEF TypeOK, File
  <2> QED
    BY <2>1, UsedSizes DEF File
<1> DEFINE used == [recs |-> Found(i), size |-> UsedSize(Found(i)), cap |-> file[i].cap]
<1>2. /\ used \in File /\ used.recs = Found(i)
      /\ Finalized(used) \in File /\ Finalized(used).recs = Found(i)
  <2>1. \A f \in File : Finalized(f) \in File /\ Finalized(f).recs = f.recs
    BY DEF File, Finalized
  <2>2. used \in File /\ used.recs = Found(i)
    BY <1>1 DEF File
  <2> HIDE DEF used
  <2> QED
    BY <2>1, <2>2
<1>3. Reopened(i) = IF i \notin dir \/ (UseSnapshot /\ i < snap.wm) THEN file[i]
                    ELSE IF i = Max(dir) THEN used ELSE Finalized(used)
  BY DEF Reopened
<1> HIDE DEF used
<1> QED
  BY <1>1, <1>2, <1>3

-----------------------------------------------------------------------------
(* The types, whatever was lost. *)

LostFits == \A b \in lost : b.pos <= SegmentSize

CutBase ==
    BaseInv /\ LostPlaces /\ LostFits /\ TailsTyped /\ FlushedBound /\ GoneIsEmpty /\ acked \subseteq Key

\* What Open finds on disk, and how it goes on from there.
LEMMA OpenFiles ==
    ASSUME TypeOK, LostPlaces, TailsTyped, DOpen
    PROVE  /\ dir' # {} /\ dir' \subseteq SegID /\ dir \subseteq dir' /\ (dir # {} => dir' = dir)
           /\ file' \in [SegID -> File]
           /\ active' \in dir' /\ active' \in SegID /\ active' \in Int /\ \A i \in dir' : i <= active'
           /\ nextSegID' = active' + 1 /\ nextSegID' \in 0 .. MaxSegID + 1
<1>1. dir \subseteq SegID /\ 0 \in SegID /\ file \in [SegID -> File] /\ NewFile \in File
  <2>1. 0 \in SegID
    BY BoundAssumption DEF SegID
  <2> QED
    BY <2>1, NewFileShape DEF TypeOK, File
<1>2. /\ dir' = (IF dir = {} THEN {0} ELSE dir)
      /\ file' = (IF dir = {} THEN [file EXCEPT ![0] = NewFile] ELSE [i \in SegID |-> Reopened(i)])
      /\ active' = Max(dir') /\ nextSegID' = Max(dir') + 1
  BY DEF DOpen
<1>3. dir' # {} /\ dir' \in SUBSET SegID /\ dir \subseteq dir' /\ (dir # {} => dir' = dir)
  BY <1>1, <1>2
<1>4. file' \in [SegID -> File]
  <2>1. \A i \in SegID : Reopened(i) \in File
    BY ReopenedIs
  <2>2. CASE dir = {}
    BY <1>1, <1>2, <2>2
  <2>3. CASE dir # {}
    <3>1. file' = [i \in SegID |-> Reopened(i)]
      BY <1>2, <2>3
    <3> QED
      BY <2>1, <3>1
  <2> QED
    BY <2>2, <2>3
<1>5. active' \in dir' /\ \A i \in dir' : i <= active'
  BY <1>2, <1>3, MaxSeg
<1>6. active' \in SegID /\ nextSegID' = active' + 1
  BY <1>2, <1>3, <1>5
<1>7. active' \in Int /\ nextSegID' \in 0 .. MaxSegID + 1
  <2>1. PICK m \in SegID : m = active'
    BY <1>6
  <2>2. m \in Int /\ m + 1 \in 0 .. MaxSegID + 1
    BY BoundAssumption DEF SegID
  <2> QED
    BY <1>6, <2>1, <2>2
<1> QED
  BY <1>3, <1>4, <1>5, <1>6, <1>7

LEMMA OpenBase ==
    ASSUME BaseInv, LostPlaces, TailsTyped, DOpen
    PROVE  BaseInv'
<1>1. /\ TypeOK /\ \A c \in Compactor : job[c].pc = "idle"
      /\ proc' = "open" /\ segments' = dir' /\ mapped' = dir' /\ compactOut' = NoSeg
      /\ deadBytes' = [i \in SegID |-> 0] /\ compactErr' = FALSE /\ weak' \in {weak \cup CutOff, {}}
      /\ UNCHANGED <<snap, job, bounds>>
  BY DEF BaseInv, DOpen
<1>2. /\ dir' # {} /\ dir' \subseteq SegID /\ file' \in [SegID -> File]
      /\ active' \in dir' /\ active' \in SegID /\ active' \in Int
      /\ nextSegID' = active' + 1 /\ nextSegID' \in 0 .. MaxSegID + 1
  BY <1>1, OpenFiles
<1>3. \A i \in dir' : i <= active'
  BY <1>1, OpenFiles
<1>4. idx' \in [Key -> Location]
  <2> DEFINE found == [i \in SegID |-> Found(i)]
  <2>1. idx' = IF dir = {} THEN [k \in Key |-> NoLoc] ELSE [k \in Key |-> LocIn(found, k)]
    BY DEF DOpen, FoundIndex
  <2>2. found = [i \in SegID |-> Found(i)]
    OBVIOUS
  <2> HIDE DEF found
  <2>3. \A k \in Key : LocIn(found, k) \in Location
    BY <1>1, <2>2, LocInIs
  <2>4. NoLoc \in Location
    BY DEF Location
  <2> QED
    BY <2>1, <2>3, <2>4
<1>5. TypeOK'
  <2>1. compactErr' \in BOOLEAN
    BY <1>1
  <2>2. /\ dir' \subseteq SegID /\ file' \in [SegID -> [recs : Seq(Record), size : Nat, cap : Nat]]
        /\ proc' \in {"down", "open", "closing", "closed"} /\ idx' \in [Key -> Location]
        /\ segments' \subseteq SegID /\ mapped' \subseteq SegID
        /\ active' \in SegID \cup {NoSeg} /\ compactOut' \in SegID \cup {NoSeg}
        /\ nextSegID' \in 0 .. MaxSegID + 1 /\ deadBytes' \in [SegID -> Nat]
    BY <1>1, <1>2, <1>4 DEF File
  <2>3. snap' \in [wm : SegID \cup {NoSeg}, at : Nat, idx : [Key -> Location]] /\ weak' \subseteq Key
    BY <1>1 DEF TypeOK, CutOff
  <2>4. job' \in [Compactor -> Job]
    BY <1>1 DEF TypeOK, Job, PCs
  <2>5. writes' \in 0 .. MaxWrites /\ crashes' \in 0 .. MaxCrashes /\ ioErrs' \in 0 .. MaxIOErrors
    BY <1>1 DEF TypeOK, bounds
  <2> QED
    BY <2>1, <2>2, <2>3, <2>4, <2>5 DEF TypeOK, Job, PCs
<1>6. SegsOnDisk'
  BY <1>1, <1>2 DEF SegsOnDisk, NoSeg, SegID
<1>7. SegsBelow'
  <2>1. PICK m \in SegID : m = active' /\ nextSegID' = m + 1
    BY <1>2
  <2>2. \A i \in dir' : i \in SegID /\ i <= m
    BY <1>2, <1>3, <2>1
  <2>3. m < m + 1 /\ NoSeg < m + 1 /\ \A i \in SegID : i <= m => i < m + 1
    BY DEF NoSeg, SegID
  <2> QED
    BY <1>1, <2>1, <2>2, <2>3 DEF SegsBelow
<1>8. ASSUME NEW c \in Compactor PROVE JobBased(c)'
  BY <1>1 DEF JobBased
<1> QED
  BY <1>5, <1>6, <1>7, <1>8 DEF BaseInv

\* How many records each file has after Open, against what was there before.
LEMMA OpenLengths ==
    ASSUME TypeOK, LostPlaces, TailsTyped, GoneIsEmpty, DOpen, NEW i \in SegID
    PROVE  /\ file'[i].recs \in Seq(Record) /\ Len(file'[i].recs) \in Nat
           /\ Len(Found(i)) \in Nat /\ Len(file[i].recs) \in Nat /\ Kept(i) \in 0 .. Len(file[i].recs)
           /\ Len(file'[i].recs) >= Kept(i)
           /\ Len(file'[i].recs) = Len(file[i].recs) \/ Len(file'[i].recs) = Len(Found(i))
           /\ i \notin dir => file'[i].recs = <<>>
<1>1. /\ file[i].recs \in Seq(Record) /\ file \in [SegID -> File] /\ Found(i) \in Seq(Record)
      /\ Len(Found(i)) = Kept(i) + Len(Revived(i)) /\ Kept(i) \in Nat /\ Len(Revived(i)) \in Nat
  BY FoundIs DEF TypeOK, File
<1>2. file' = IF dir = {} THEN [file EXCEPT ![0] = NewFile] ELSE [j \in SegID |-> Reopened(j)]
  BY DEF DOpen
<1>3. Kept(i) \in 0 .. Len(file[i].recs) /\ Len(file[i].recs) \in Nat /\ Len(Found(i)) \in Nat
  BY <1>1, KeptIs
<1>4. CASE dir = {}
  <2>1. file[i].recs = <<>> /\ NewFile.recs = <<>>
    BY <1>4, NewFileShape DEF GoneIsEmpty
  <2>2. file'[i].recs = <<>>
    BY <1>1, <1>2, <1>4, <2>1
  <2>3. Len(<<>>) = 0
    OBVIOUS
  <2> QED
    BY <1>1, <1>3, <1>4, <2>1, <2>2, <2>3
<1>5. CASE dir # {}
  <2>1. file'[i] = Reopened(i)
    BY <1>2, <1>5
  <2>2. file'[i].recs = Found(i) \/ file'[i].recs = file[i].recs
    BY <2>1, ReopenedIs
  <2>3. i \notin dir => file'[i].recs = <<>>
    BY <2>1, ReopenedIs DEF GoneIsEmpty
  <2> QED
    BY <1>1, <1>3, <2>2, <2>3
<1> QED
  BY <1>4, <1>5

LEMMA OpenCut ==
    ASSUME CutBase, DOpen
    PROVE  CutBase'
<1>1. /\ TypeOK /\ BaseInv /\ LostPlaces /\ LostFits /\ TailsTyped /\ FlushedBound /\ GoneIsEmpty
      /\ acked \subseteq Key
  BY DEF CutBase, BaseInv
<1>2. BaseInv'
  BY <1>1, OpenBase
<1>3. dir' # {} /\ dir' \subseteq SegID /\ dir \subseteq dir'
  BY <1>1, OpenFiles
<1>4. LostPlaces' /\ LostFits'
  <2>1. lost' = { a \in lost : a.pos <= Kept(a.seg) }
    BY DEF DOpen
  <2>2. ASSUME NEW b \in lost'
        PROVE  b \in Place /\ b.seg \in dir' /\ b.pos \in DOMAIN file'[b.seg].recs /\ b.pos <= SegmentSize
    <3>1. b \in lost /\ b \in Place /\ b.seg \in dir /\ b.pos <= Kept(b.seg) /\ b.pos <= SegmentSize
      BY <1>1, <2>1, <2>2 DEF LostPlaces, LostFits
    <3>2. PICK i \in SegID : i = b.seg
      BY <3>1 DEF Place
    <3>3. /\ file'[i].recs \in Seq(Record) /\ Len(file'[i].recs) \in Nat
          /\ Len(file'[i].recs) >= Kept(i) /\ Len(file[i].recs) \in Nat /\ Kept(i) \in 0 .. Len(file[i].recs)
      BY <1>1, OpenLengths
    <3>4. b.pos \in 1 .. Len(file'[i].recs)
      BY <3>1, <3>2, <3>3 DEF Place
    <3> QED
      BY <1>3, <3>1, <3>2, <3>3, <3>4
  <2> QED
    BY <2>2 DEF LostPlaces, LostFits
<1>5. TailsTyped'
  <2>1. \A i \in SegID : Behind(i) \in Seq(Slot)
    BY <1>1, BehindIs
  <2>2. <<>> \in Seq(Slot)
    OBVIOUS
  <2>3. tail' = [i \in SegID |-> IF dir # {} /\ i = Max(dir) THEN Behind(i) ELSE <<>>]
    BY DEF DOpen
  <2>4. \A i \in SegID : (IF dir # {} /\ i = Max(dir) THEN Behind(i) ELSE <<>>) \in Seq(Slot)
    BY <2>1, <2>2
  <2> QED
    BY <2>3, <2>4 DEF TailsTyped
<1>6. FlushedBound'
  <2>1. ASSUME NEW i \in SegID
        PROVE  /\ Min({flushed[i], Len(Found(i))}) \in Nat
               /\ Min({flushed[i], Len(Found(i))}) <= Len(file'[i].recs)
    <3>1. /\ Len(Found(i)) \in Nat /\ Len(file'[i].recs) \in Nat /\ Len(file[i].recs) \in Nat
          /\ Len(file'[i].recs) = Len(file[i].recs) \/ Len(file'[i].recs) = Len(Found(i))
      BY <1>1, OpenLengths
    <3>2. flushed[i] \in Nat /\ flushed[i] <= Len(file[i].recs)
      BY <1>1 DEF FlushedBound
    <3>3. PICK a, b \in Nat : a = flushed[i] /\ b = Len(Found(i))
      BY <3>1, <3>2
    <3>4. Min({a, b}) = IF a <= b THEN a ELSE b
      BY <3>3 DEF Min
    <3> QED
      BY <3>1, <3>2, <3>3, <3>4
  <2>2. flushed' = [i \in SegID |-> Min({flushed[i], Len(Found(i))})]
    BY DEF DOpen
  <2> QED
    BY <2>1, <2>2 DEF FlushedBound
<1>7. GoneIsEmpty'
  BY <1>1, <1>3, OpenLengths DEF GoneIsEmpty
<1>8. acked' \subseteq Key
  BY <1>1 DEF DOpen
<1> QED
  BY <1>2, <1>4, <1>5, <1>6, <1>7, <1>8 DEF CutBase

\* The steps that change no record.
LEMMA QuietCut ==
    ASSUME CutBase, BaseInv', dir \subseteq dir', \A i \in SegID : file'[i].recs = file[i].recs,
           lost' = lost, tail' \in {tail} \/ TailsTyped', flushed' = flushed, acked' \subseteq Key
    PROVE  CutBase'
<1>1. LostPlaces /\ LostFits /\ TailsTyped /\ FlushedBound /\ GoneIsEmpty /\ TypeOK'
  BY DEF CutBase, BaseInv
<1>2. LostPlaces' /\ LostFits'
  BY <1>1 DEF LostPlaces, LostFits, Place
<1>3. TailsTyped' /\ FlushedBound'
  BY <1>1 DEF TailsTyped, FlushedBound
<1>4. GoneIsEmpty'
  BY <1>1 DEF GoneIsEmpty
<1> QED
  BY <1>2, <1>3, <1>4 DEF CutBase

\* The steps that append a record.
LEMMA AppendCut ==
    ASSUME CutBase, BaseInv', NEW cur \in SegID \cup {NoSeg}, NEW r \in Record, AppendRecord(cur, r),
           NEW t, t = Target(cur, r),
           lost' = lost, TailsTyped', acked' \subseteq Key,
           flushed' \in {flushed, [flushed EXCEPT ![t] = Len(file'[t].recs)]}
    PROVE  CutBase'
<1>1. TypeOK /\ LostPlaces /\ LostFits /\ TailsTyped /\ FlushedBound /\ GoneIsEmpty
  BY DEF CutBase, BaseInv
<1>2. t \in SegID /\ file' \in [SegID -> File] /\ \A i \in SegID \ {t} : file'[i].recs = file[i].recs
  BY <1>1, AppendRecordKeeps
<1>3. \A i \in dir : DOMAIN file[i].recs \subseteq DOMAIN file'[i].recs
  <2>1. \A i \in dir : \A p \in DOMAIN file[i].recs : p \in DOMAIN file'[i].recs
    BY <1>1, AppendRecordKeeps
  <2> QED
    BY <2>1
<1>4. dir' = dir \cup {t}
  BY DEF AppendRecord
<1>5. LostPlaces' /\ LostFits'
  BY <1>1, <1>3, <1>4 DEF LostPlaces, LostFits
<1>6. /\ \A i \in SegID : Len(file[i].recs) \in Nat /\ Len(file'[i].recs) \in Nat
      /\ Len(file[t].recs) <= Len(file'[t].recs)
  <2>1. \A i \in SegID : file[i].recs \in Seq(Record) /\ file'[i].recs \in Seq(Record)
    BY <1>1, <1>2 DEF TypeOK, File
  <2>2. \A i \in SegID : Len(file[i].recs) \in Nat /\ Len(file'[i].recs) \in Nat
    BY <2>1
  <2>3. PICK p, q \in Seq(Record) : p = file[t].recs /\ q = file'[t].recs
    BY <1>2, <2>1
  <2>4. Len(p) \in Nat /\ Len(q) \in Nat /\ DOMAIN p = 1 .. Len(p) /\ DOMAIN q = 1 .. Len(q)
    OBVIOUS
  <2>5. CASE t \in dir
    <3>1. DOMAIN p \subseteq DOMAIN q
      BY <1>3, <2>3, <2>5
    <3>2. Len(p) = 0 \/ Len(p) \in 1 .. Len(p)
      BY <2>4
    <3>3. Len(p) = 0 \/ Len(p) \in 1 .. Len(q)
      BY <2>4, <3>1, <3>2
    <3> QED
      BY <2>2, <2>3, <2>4, <3>3
  <2>6. CASE t \notin dir
    <3>1. p = <<>>
      BY <1>1, <1>2, <2>3, <2>6 DEF GoneIsEmpty
    <3>2. Len(p) = 0
      BY <3>1
    <3> QED
      BY <2>2, <2>3, <2>4, <3>2
  <2> QED
    BY <2>2, <2>5, <2>6
<1>7. FlushedBound'
  <2>1. flushed \in [SegID -> Nat] /\ \A i \in SegID : flushed[i] <= Len(file[i].recs)
    BY <1>1 DEF FlushedBound
  <2>2. flushed' \in [SegID -> Nat]
    BY <1>2, <1>6, <2>1
  <2>3. \A i \in SegID \ {t} : flushed'[i] = flushed[i] /\ file'[i].recs = file[i].recs
    BY <1>2, <2>1
  <2>4. flushed'[t] = flushed[t] \/ flushed'[t] = Len(file'[t].recs)
    BY <1>2, <2>1
  <2>5. flushed'[t] <= Len(file'[t].recs)
    BY <1>2, <1>6, <2>1, <2>4
  <2> QED
    BY <2>1, <2>2, <2>3, <2>5 DEF FlushedBound
<1>8. GoneIsEmpty'
  BY <1>1, <1>2, <1>4 DEF GoneIsEmpty
<1> QED
  BY <1>1, <1>5, <1>7, <1>8 DEF CutBase

LEMMA WriteCut ==
    ASSUME CutBase, BaseInv', NEW k \in Key, NEW v \in Val \cup {Absent}, Write(k, v),
           OverwriteTail(k, v), Acknowledge(k), lost' = lost
    PROVE  CutBase'
<1> DEFINE r == [key |-> k, val |-> v]
<1>1. /\ TypeOK /\ TailsTyped /\ active \in SegID \cup {NoSeg} /\ acked \subseteq Key
  BY DEF CutBase, BaseInv, TypeOK
<1>2. /\ r \in Record /\ AppendRecord(active, r) /\ active' = Target(active, r)
      /\ flushed' \in {flushed, [flushed EXCEPT ![active'] = Len(file'[active'].recs)]}
      /\ acked' \subseteq Key
  BY <1>1 DEF Write, Record, Acknowledge
<1>3. TailsTyped'
  BY <1>1, WriteTails
<1> HIDE DEF r
<1>4. PICK t : t = active' /\ t = Target(active, r)
  BY <1>2
<1>5. flushed' \in {flushed, [flushed EXCEPT ![t] = Len(file'[t].recs)]}
  BY <1>2, <1>4
<1> QED
  BY <1>1, <1>2, <1>3, <1>4, <1>5, AppendCut

LEMMA RelocateCut ==
    ASSUME CutBase, NEW c \in Compactor, DRelocate(c)
    PROVE  CutBase'
<1>1. /\ TypeOK /\ BaseInv /\ TailsTyped /\ compactOut \in SegID \cup {NoSeg} /\ acked \subseteq Key
      /\ Relocate(c) /\ UNCHANGED <<flushed, lost, tail>> /\ acked' \subseteq acked
      /\ JobBased(c) /\ Scanning(c) /\ AppendRecord(compactOut, Scanned(c))
  BY DEF CutBase, BaseInv, TypeOK, DRelocate, Relocate
<1>2. BaseInv'
  BY <1>1, RelocateBase
<1>3. Scanned(c) \in Record
  <2>1. job[c].src \in SegID /\ job[c].pos \in DOMAIN file[job[c].src].recs
    BY <1>1 DEF JobBased, Scanning
  <2>2. file[job[c].src].recs \in Seq(Record)
    BY <1>1, <2>1 DEF TypeOK
  <2> QED
    BY <2>1, <2>2 DEF Scanned, RecordAt, At
<1>4. TailsTyped'
  BY <1>1 DEF TailsTyped
<1> QED
  BY <1>1, <1>2, <1>3, <1>4, AppendCut

LEMMA RemoveCut ==
    ASSUME CutBase, NEW c \in Compactor, DRemove(c)
    PROVE  CutBase'
<1> DEFINE i == job[c].src
<1>1. /\ TypeOK /\ BaseInv /\ LostPlaces /\ LostFits /\ TailsTyped /\ FlushedBound /\ GoneIsEmpty
      /\ Remove(c) /\ acked' = acked /\ acked \subseteq Key
      /\ dir' = dir \ {i} /\ file' = [file EXCEPT ![i] = NoFile]
      /\ flushed' = [flushed EXCEPT ![i] = 0] /\ lost' = { a \in lost : a.seg # i }
      /\ tail' = [tail EXCEPT ![i] = <<>>] /\ JobBased(c) /\ job[c].pc = "remove"
  BY DEF CutBase, BaseInv, DRemove, Remove
<1>2. BaseInv'
  BY <1>1, RemoveBase
<1>3. i \in SegID
  BY <1>1 DEF JobBased
<1> HIDE DEF i
<1>4. file \in [SegID -> File] /\ file'[i] = NoFile /\ \A j \in SegID \ {i} : file'[j] = file[j]
  BY <1>1, <1>3 DEF TypeOK, File
<1>5. LostPlaces' /\ LostFits'
  BY <1>1, <1>4 DEF LostPlaces, LostFits, Place
<1>6. TailsTyped'
  <2>1. <<>> \in Seq(Slot)
    OBVIOUS
  <2> QED
    BY <1>1, <2>1 DEF TailsTyped
<1>7. FlushedBound'
  <2>1. Len(file'[i].recs) = 0
    BY <1>4 DEF NoFile
  <2>2. flushed' \in [SegID -> Nat] /\ flushed'[i] = 0 /\ \A j \in SegID \ {i} : flushed'[j] = flushed[j]
    BY <1>1, <1>3 DEF FlushedBound
  <2> QED
    BY <1>1, <1>4, <2>1, <2>2 DEF FlushedBound
<1>8. GoneIsEmpty'
  <2>1. NoFile.recs = <<>>
    BY DEF NoFile
  <2> QED
    BY <1>1, <1>4, <2>1 DEF GoneIsEmpty
<1> QED
  BY <1>1, <1>2, <1>5, <1>6, <1>7, <1>8 DEF CutBase

\* Syncing takes in what is there.
LEMMA FlushCut ==
    ASSUME CutBase, BaseInv', UNCHANGED <<dir, file, lost, tail>>, NEW S, flushed' = FsyncAll(S),
           acked' \subseteq Key
    PROVE  CutBase'
<1>1. LostPlaces /\ LostFits /\ TailsTyped /\ FlushedBound /\ GoneIsEmpty /\ TypeOK
  BY DEF CutBase, BaseInv
<1>2. FlushedBound'
  <2>1. \A i \in SegID : file[i].recs \in Seq(Record)
    BY <1>1 DEF TypeOK
  <2>2. \A i \in SegID : Len(file[i].recs) \in Nat
    BY <2>1
  <2> QED
    BY <1>1, <2>2 DEF FlushedBound, FsyncAll
<1>3. LostPlaces' /\ LostFits' /\ TailsTyped' /\ GoneIsEmpty'
  BY <1>1 DEF LostPlaces, LostFits, TailsTyped, GoneIsEmpty
<1> QED
  BY <1>2, <1>3 DEF CutBase

\* Every step that is not a loss of power.
LEMMA CutStep ==
    ASSUME CutBase, [DNext]_dvars, ~PowerLoss, ~PowerLossInClose
    PROVE  CutBase'
<1>1. TypeOK /\ BaseInv /\ TailsTyped /\ acked \subseteq Key
  BY DEF CutBase, BaseInv
<1>2. CASE DOpen
  BY <1>2, OpenCut
<1>3. ASSUME NEW k \in Key, NEW v \in Val, DPut(k, v)
      PROVE  CutBase'
  <2>1. BaseInv'
    BY <1>1, <1>3, PutBase DEF DPut
  <2> QED
    BY <1>3, <2>1, WriteCut DEF DPut, Put
<1>4. ASSUME NEW k \in Key, DDelete(k)
      PROVE  CutBase'
  <2>1. BaseInv'
    BY <1>1, <1>4, DeleteBase DEF DDelete
  <2> QED
    BY <1>4, <2>1, WriteCut DEF DDelete, Delete
<1>5. CASE DWriteFails
  <2>1. BaseInv' /\ WriteFails /\ lost' = lost /\ flushed' = flushed /\ acked' = acked
    BY <1>1, <1>5, WriteFailsBase DEF DWriteFails
  <2>2. dir \subseteq dir' /\ \A i \in SegID : file'[i].recs = file[i].recs
    <3>1. active \in SegID \cup {NoSeg} /\ CreateFails(active)
          /\ UNCHANGED <<proc, segments, mapped, active, compactOut, nextSegID>>
      BY <1>1, <2>1 DEF WriteFails, TypeOK, mem
    <3> QED
      BY <1>1, <3>1, CreateFailsBase
  <2>3. TailsTyped'
    <3>1. <<>> \in Seq(Slot)
      OBVIOUS
    <3> QED
      BY <1>1, <1>5, <3>1 DEF DWriteFails, TailsTyped
  <2> QED
    BY <1>1, <2>1, <2>2, <2>3, QuietCut
<1>6. ASSUME UNCHANGED vars
      PROVE  BaseInv' /\ dir' = dir /\ file' = file
  <2>1. UNCHANGED <<dir, file, snap, proc, idx, segments, active, compactOut, nextSegID, deadBytes,
                    compactErr, mapped, job, weak, writes, crashes, ioErrs>>
    BY <1>6 DEF vars, disk, mem, bounds
  <2>2. TypeOK' /\ SegsOnDisk' /\ SegsBelow'
    BY <1>1, <2>1 DEF BaseInv, TypeOK, SegsOnDisk, SegsBelow
  <2>3. \A c \in Compactor : JobBased(c)'
    BY <1>1, <2>1 DEF BaseInv, JobBased
  <2> QED
    BY <2>1, <2>2, <2>3 DEF BaseInv
<1>7. CASE Sync
  <2>1. UNCHANGED <<vars, lost, tail>> /\ flushed' = FsyncAll({active}) /\ acked' \subseteq Key
    BY <1>1, <1>7 DEF Sync, LastWrittenIn
  <2> QED
    BY <1>6, <2>1, FlushCut
<1>8. CASE UNCHANGED dvars
  <2>1. UNCHANGED <<vars, flushed, lost, tail, acked>>
    BY <1>8 DEF dvars, dur
  <2> QED
    BY <1>1, <1>6, <2>1, QuietCut
<1>9. ASSUME NEW c \in Compactor, DCompactorStep(c)
      PROVE  CutBase'
  <2>1. CASE DRelocate(c)
    BY <2>1, RelocateCut
  <2>2. CASE DRemove(c)
    BY <2>2, RemoveCut
  <2>3. CASE DRelocateFails(c)
    <3>1. BaseInv' /\ RelocateFails(c) /\ UNCHANGED dur
      BY <1>1, <2>3, RelocateFailsBase DEF DRelocateFails
    <3>2. compactOut \in SegID \cup {NoSeg} /\ CreateFails(compactOut)
          /\ UNCHANGED <<proc, segments, mapped, active, compactOut, nextSegID>>
      BY <1>1, <3>1 DEF RelocateFails, TypeOK
    <3>3. dir \subseteq dir' /\ \A i \in SegID : file'[i].recs = file[i].recs
      BY <1>1, <3>2, CreateFailsBase
    <3> QED
      BY <1>1, <3>1, <3>3, QuietCut DEF dur
  <2>4. ASSUME BaseInv', UNCHANGED <<dir, file>>, UNCHANGED dur
        PROVE  CutBase'
    BY <1>1, <2>4, QuietCut DEF dur
  <2>5. CASE DSkipRecord(c)
    <3>1. BaseInv'
      BY <1>1, <2>5, SkipRecordBase DEF DSkipRecord
    <3> QED
      BY <2>4, <2>5, <3>1 DEF DSkipRecord, SkipRecord, disk
  <2>6. CASE ScanStops(c)
    <3>1. BaseInv'
      BY <1>1, <2>6, DropsBase DEF ScanStops, Scanning
    <3> QED
      BY <2>4, <2>6, <3>1 DEF ScanStops, disk
  <2>7. CASE /\ StartPass(c) \/ Pick(c) \/ Check(c) \/ BeginScan(c) \/ ScanUnmapped(c)
                  \/ Drop(c) \/ RemoveFails(c) \/ RemoveSnapshot(c)
             /\ UNCHANGED <<dur, power, syncs>>
    <3>1. BaseInv'
      BY <1>1, <2>7, StartPassBase, PickBase, CheckBase, BeginScanBase, ScanUnmappedBase, DropBase,
         RemoveFailsBase, RemoveSnapshotBase
    <3>2. UNCHANGED <<dir, file>>
      BY <2>7 DEF StartPass, Pick, Check, BeginScan, ScanUnmapped, Vanish, Drop, RemoveFails,
                  RemoveSnapshot, disk
    <3> QED
      BY <2>4, <2>7, <3>1, <3>2
  <2> QED
    BY <1>9, <2>1, <2>2, <2>3, <2>5, <2>6, <2>7 DEF DCompactorStep
<1>10. CASE DFinishClose \/ DCloseCutShort
  <2>1. PICK S : Flush(S) /\ UNCHANGED <<lost, tail>> /\ (FinishClose \/ CloseCutShort)
    BY <1>10 DEF DFinishClose, DCloseCutShort
  <2>2. BaseInv' /\ UNCHANGED <<dir, file>>
    BY <1>1, <2>1, CloseBase DEF FinishClose, CloseCutShort
  <2>3. flushed' = FsyncAll(S) /\ acked' \subseteq Key
    BY <1>1, <2>1 DEF Flush, LastWrittenIn
  <2> QED
    BY <2>1, <2>2, <2>3, FlushCut
<1>11. CASE (BeginClose \/ SnapshotFails \/ Crash) /\ UNCHANGED <<dur, power, syncs>>
  <2>1. BaseInv'
    BY <1>1, <1>11, CloseBase, CrashBase
  <2>2. UNCHANGED <<dir, file>>
    BY <1>11 DEF BeginClose, SnapshotFails, Crash, Vanish, disk
  <2> QED
    BY <1>1, <1>11, <2>1, <2>2, QuietCut DEF dur
<1> QED
  BY <1>2, <1>3, <1>4, <1>5, <1>7, <1>8, <1>9, <1>10, <1>11 DEF DNext

\* What goes with the power was on the disk, and all that is left has its shape.
LEMMA LossCut ==
    ASSUME OnInv, PowerLoss \/ PowerLossInClose
    PROVE  CutBase'
<1>1. /\ OnInv /\ LosePower /\ (snap' = snap \/ (Stopped /\ snap' = SnapshotOfIndex))
      /\ IInv /\ BaseInv /\ FlushedBound /\ GoneIsEmpty
  BY IInvIsBased DEF PowerLoss, PowerLossInClose, OnInv, RInv
<1>2. /\ TornOnly' /\ UNCHANGED <<dir, file, weak>>
      /\ EndProcess /\ acked' = {} /\ UNCHANGED bounds /\ flushed' = [i \in SegID |-> Len(file[i].recs)]
  BY <1>1, LossTears DEF LosePower
<1>3. TypeOK' /\ LostPlaces' /\ TailsTyped'
  BY <1>2 DEF TornOnly
<1>4. BaseInv'
  <2>1. SegsOnDisk' /\ SegsBelow'
    BY <1>2 DEF SegsOnDisk, SegsBelow, EndProcess
  <2>2. \A c \in Compactor : JobBased(c)'
    BY <1>2, IdleIsJob DEF JobBased, EndProcess
  <2> QED
    BY <1>3, <2>1, <2>2 DEF BaseInv
<1>5. \A i \in SegID : /\ file[i].recs \in Seq(Record) /\ Len(file[i].recs) \in Nat
                       /\ DOMAIN file[i].recs = 1 .. Len(file[i].recs)
                       /\ Len(file[i].recs) <= SegmentSize
  <2>1. \A i \in SegID : file[i].recs \in Seq(Record) /\ SizedRight(file[i]) /\ file[i].size \in Nat
    BY <1>1 DEF OnInv, SizesAddUp, BaseInv, TypeOK
  <2>2. \A i \in SegID : Len(file[i].recs) \in Nat /\ DOMAIN file[i].recs = 1 .. Len(file[i].recs)
    BY <2>1
  <2>3. \A i \in SegID : Len(file[i].recs) <= file[i].size /\ file[i].size <= SegmentSize
    BY <2>1 DEF SizedRight
  <2> QED
    BY <2>1, <2>2, <2>3, OptionsAssumption
<1>6. LostFits'
  <2> SUFFICES ASSUME NEW b \in lost' PROVE b.pos <= SegmentSize
    BY DEF LostFits
  <2>1. b \in Place /\ b.seg \in SegID /\ b.pos \in DOMAIN file[b.seg].recs
    BY <1>2, <1>3 DEF LostPlaces, Place
  <2>2. b.pos \in 1 .. Len(file[b.seg].recs)
    BY <1>5, <2>1
  <2> QED
    BY <1>5, <2>1, <2>2, OptionsAssumption
<1>7. FlushedBound'
  BY <1>2, <1>5 DEF FlushedBound
<1>8. GoneIsEmpty'
  BY <1>1, <1>2 DEF GoneIsEmpty
<1> QED
  BY <1>2, <1>3, <1>4, <1>6, <1>7, <1>8 DEF CutBase

LEMMA OnIsCut == OnInv => CutBase
<1> SUFFICES ASSUME OnInv PROVE CutBase
  OBVIOUS
<1>1. BaseInv /\ FlushedBound /\ GoneIsEmpty /\ acked \subseteq Key /\ lost = {} /\ tail = NoTails
  BY IInvIsBased DEF OnInv, RInv, Whole
<1>2. <<>> \in Seq(Slot)
  OBVIOUS
<1>3. TailsTyped
  BY <1>1, <1>2 DEF TailsTyped, NoTails
<1> QED
  BY <1>1, <1>3 DEF CutBase, LostPlaces, LostFits

LossInv == (power = "on" => OnInv) /\ CutBase

LEMMA LossInvStep == LossInv /\ [DNext]_dvars => LossInv'
<1> SUFFICES ASSUME LossInv, [DNext]_dvars PROVE LossInv'
  OBVIOUS
<1>1. (power = "on" => OnInv)'
  BY OnKeeps, PowerStaysOff DEF LossInv
<1>2. CASE ~PowerLoss /\ ~PowerLossInClose
  BY <1>1, <1>2, CutStep DEF LossInv
<1>3. CASE PowerLoss \/ PowerLossInClose
  <2>1. OnInv
    BY <1>3 DEF PowerLoss, PowerLossInClose, LosePower, LossInv
  <2> QED
    BY <1>1, <1>3, <2>1, LossCut DEF LossInv
<1> QED
  BY <1>2, <1>3

\* The state of the power, and the bound on the calls of Sync.
PowerTyped == power \in {"on", "cut", "cut closing"} /\ syncs \in 0 .. MaxSyncs

LEMMA PowerStep == PowerTyped /\ [DNext]_dvars => PowerTyped'
<1> SUFFICES ASSUME PowerTyped, [DNext]_dvars PROVE PowerTyped'
  OBVIOUS
<1>1. ASSUME NEW c \in Compactor, DCompactorStep(c) PROVE UNCHANGED <<power, syncs>>
  BY <1>1 DEF DCompactorStep, DSkipRecord, DRelocate, DRelocateFails, ScanStops, DRemove
<1>2. CASE Sync
  <2>1. syncs \in 0 .. MaxSyncs /\ syncs < MaxSyncs /\ syncs' = syncs + 1 /\ power' = power
    BY <1>2 DEF Sync, PowerTyped
  <2>2. syncs' \in 0 .. MaxSyncs
    BY <2>1, DurabilityAssumption
  <2> QED
    BY <2>1, <2>2 DEF PowerTyped
<1>3. CASE PowerLoss \/ PowerLossInClose
  BY <1>3 DEF PowerLoss, PowerLossInClose, LosePower, PowerTyped
<1>4. ASSUME UNCHANGED <<power, syncs>> PROVE PowerTyped'
  BY <1>4 DEF PowerTyped
<1> QED
  BY <1>1, <1>2, <1>3, <1>4 DEF DNext, DOpen, DPut, DDelete, DWriteFails, DFinishClose,
                                DCloseCutShort, dvars

\* The invariant gives the type invariant.
LEMMA LossTypes == LossInv /\ PowerTyped => DTypeOK
<1> SUFFICES ASSUME LossInv, PowerTyped PROVE DTypeOK
  OBVIOUS
<1>1. TypeOK /\ LostPlaces /\ LostFits /\ TailsTyped /\ FlushedBound /\ acked \subseteq Key
  BY DEF LossInv, CutBase, BaseInv
<1>2. lost \subseteq [seg : SegID, pos : 1 .. SegmentSize]
  <2>1. ASSUME NEW b \in lost PROVE b \in [seg : SegID, pos : 1 .. SegmentSize]
    <3>1. b \in Place /\ b.pos <= SegmentSize /\ SegmentSize \in Nat
      BY <1>1, OptionsAssumption DEF LostPlaces, LostFits
    <3> QED
      BY <3>1 DEF Place
  <2> QED
    BY <2>1
<1>3. acked \subseteq Key /\ power \in {"on", "cut", "cut closing"} /\ syncs \in 0 .. MaxSyncs
  BY <1>1 DEF PowerTyped
<1>4. /\ tail \in [SegID -> Seq(Slot)]
      /\ flushed \in [SegID -> Nat] /\ \A i \in SegID : flushed[i] <= Len(file[i].recs)
  BY <1>1 DEF TailsTyped, FlushedBound
<1> QED
  BY <1>1, <1>2, <1>3, <1>4 DEF DTypeOK

\* Recovery, restarts, writes and compactions after a loss of power, whatever was
\* lost, find files, jobs and counters as they expect them.
THEOREM LossInvariance == DSpec => []LossInv
<1>1. DInit => LossInv
  BY DInitOn, OnIsCut DEF LossInv
<1>2. LossInv /\ [DNext]_dvars => LossInv'
  BY LossInvStep
<1> QED
  BY <1>1, <1>2, PTL DEF DSpec

\* The variables keep their types: the segments and their damage, what lies behind the
\* used parts, what is flushed and what is acknowledged, before and after the loss.
THEOREM DurableTypeCorrect == DSpec => []DTypeOK
<1>1. DInit => PowerTyped
  BY DurabilityAssumption DEF DInit, PowerTyped
<1>2. PowerTyped /\ [DNext]_dvars => PowerTyped'
  BY PowerStep
<1>3. LossInv /\ PowerTyped => DTypeOK
  BY LossTypes
<1> QED
  BY <1>1, <1>2, <1>3, LossInvariance, PTL DEF DSpec

-----------------------------------------------------------------------------
(* Reads return no garbage. *)

\* What was lost is needed by nobody: the snapshot leads before it, what recovery
\* skips and the index lead past its segment, and no record is added behind it.
Covered(a) == UseSnapshot /\ (a.seg < snap.wm \/ (a.seg = snap.wm /\ a.pos <= snap.at))
LostUnused ==
    \A a \in lost :
        /\ \A k \in Key : snap.idx[k].seg = a.seg => snap.idx[k].pos < a.pos
        /\ Covered(a) => a.seg < snap.wm /\ \A k \in Key : snap.idx[k].seg # a.seg
        /\ proc # "down" => a.seg \notin {active, compactOut} /\ \A k \in Key : idx[k].seg # a.seg

\* A segment that is created is never the one the snapshot speaks of.
WatermarkBelow ==
    /\ snap.wm # NoSeg => \E j \in dir : snap.wm <= j
    /\ proc # "down" => snap.wm < nextSegID

CutInv == IInv /\ WatermarkBelow /\ LostPlaces /\ TailsTyped /\ LostUnused

\* A record that is not lost and before all that is lost of its segment is found.
LEMMA BeforeLostFound ==
    ASSUME TypeOK, LostPlaces, TailsTyped, NEW i \in SegID, NEW p \in 1 .. Len(file[i].recs),
           \A b \in lost : b.seg = i => b.pos > p
    PROVE  p <= Kept(i) /\ p \in DOMAIN Found(i) /\ Found(i)[p] = file[i].recs[p]
<1>1. /\ file[i].recs \in Seq(Record) /\ Found(i) \in Seq(Record)
      /\ Len(Found(i)) = Kept(i) + Len(Revived(i)) /\ Kept(i) \in Nat /\ Len(Revived(i)) \in Nat
      /\ \A q \in 1 .. Kept(i) : Found(i)[q] = file[i].recs[q]
  BY FoundIs DEF TypeOK
<1>2. Len(file[i].recs) \in Nat /\ DOMAIN Found(i) = 1 .. Len(Found(i))
  BY <1>1
<1>3. \A q \in 0 .. Len(file[i].recs) :
          (\A b \in lost : b.seg = i /\ b.pos > Skipped(i) => b.pos > q) => q <= Kept(i)
  BY KeptIs
<1>4. p \in 0 .. Len(file[i].recs) /\ \A b \in lost : b.seg = i /\ b.pos > Skipped(i) => b.pos > p
  BY <1>2
<1>5. p <= Kept(i)
  BY <1>3, <1>4
<1> QED
  BY <1>1, <1>2, <1>5

\* What recovery finds is not lost.
LEMMA PlacesNotLost ==
    ASSUME TypeOK, LostPlaces, TailsTyped, NEW a \in Place, a.pos > Skipped(a.seg),
           a.pos \in 1 .. Len(Found(a.seg))
    PROVE  a \notin lost
<1> SUFFICES ASSUME a \in lost PROVE FALSE
  OBVIOUS
<1>1. PICK i \in SegID : i = a.seg
  BY DEF Place
<1>2. a.pos \in Unread(i)
  BY <1>1 DEF Unread
<1>3. Revived(i) = <<>>
  BY <1>2, RevivedIs
<1>4. Len(Found(i)) = Kept(i) + Len(Revived(i)) /\ Kept(i) \in Nat
  BY FoundIs
<1>5. a.pos > Kept(i)
  BY <1>1, KeptIs
<1>6. Len(<<>>) = 0
  OBVIOUS
<1>7. a.pos \in Nat
  BY DEF Place
<1> QED
  BY <1>1, <1>3, <1>4, <1>5, <1>6, <1>7

\* Where nothing below the watermark is scanned, nothing is found there.
LEMMA NoneBelowWatermark ==
    ASSUME TypeOK, LostPlaces, TailsTyped, NEW i \in SegID, UseSnapshot, i < snap.wm
    PROVE  /\ Skipped(i) = Len(file[i].recs) /\ Len(Found(i)) = Len(file[i].recs)
           /\ Found(i) = file[i].recs
<1>1. /\ file[i].recs \in Seq(Record) /\ Found(i) \in Seq(Record)
      /\ Len(Found(i)) = Kept(i) + Len(Revived(i)) /\ Kept(i) \in Nat
      /\ \A q \in 1 .. Kept(i) : Found(i)[q] = file[i].recs[q]
      /\ Unread(i) = {} => Kept(i) = Len(file[i].recs)
  BY FoundIs DEF TypeOK
<1>2. Len(file[i].recs) \in Nat /\ DOMAIN file[i].recs = 1 .. Len(file[i].recs)
  BY <1>1
<1>3. Skipped(i) = Len(file[i].recs)
  <2>1. PICK w \in SegID : w = snap.wm
    BY DEF UseSnapshot, TypeOK
  <2>2. ~(i > w) /\ i # w
    BY <2>1 DEF SegID
  <2> QED
    BY <2>1, <2>2 DEF Skipped
<1>4. Unread(i) = {}
  <2>1. ASSUME NEW b \in lost, b.seg = i, b.pos > Skipped(i) PROVE FALSE
    <3>1. b.pos \in 1 .. Len(file[i].recs)
      BY <1>2, <2>1 DEF LostPlaces
    <3> QED
      BY <1>2, <1>3, <2>1, <3>1
  <2> QED
    BY <2>1 DEF Unread
<1>5. Revived(i) = <<>>
  BY RevivedIs
<1>6. Len(<<>>) = 0
  OBVIOUS
<1>7. Len(Found(i)) = Len(file[i].recs) /\ Kept(i) = Len(file[i].recs)
  BY <1>1, <1>2, <1>4, <1>5, <1>6
<1>8. Found(i) = file[i].recs
  <2>1. \A q \in 1 .. Len(Found(i)) : Found(i)[q] = file[i].recs[q]
    BY <1>1, <1>7
  <2> QED
    BY <1>1, <1>7, <2>1, SeqEqual
<1> QED
  BY <1>3, <1>7, <1>8

\* Following what recovery finds for k does not lead astray.
LEMMA FoundIsSound ==
    ASSUME CutInv, NEW k \in Key, NEW found, found = [i \in SegID |-> Found(i)],
           NEW a, a = LocIn(found, k), a.seg \in dir
    PROVE  a \notin lost /\ a.pos \in DOMAIN Found(a.seg) /\ Found(a.seg)[a.pos] \in Record
           /\ Found(a.seg)[a.pos].key = k /\ ~IsTombstone(Found(a.seg)[a.pos])
<1>1. TypeOK /\ LostPlaces /\ TailsTyped /\ LocsSound /\ LostUnused
  BY DEF CutInv, IInv
<1>2. a.seg \in SegID /\ Found(a.seg) \in Seq(Record) /\ DOMAIN Found(a.seg) = 1 .. Len(Found(a.seg))
  <2>1. a.seg \in SegID
    BY <1>1 DEF TypeOK
  <2>2. Found(a.seg) \in Seq(Record)
    BY <1>1, <2>1, FoundIs
  <2> QED
    BY <2>1, <2>2
<1>3. CASE a = NoLoc
  BY <1>2, <1>3 DEF NoLoc, NoSeg, SegID
<1>4. CASE a = snap.idx[k]
  <2>1. a.pos \in DOMAIN file[a.seg].recs /\ file[a.seg].recs[a.pos].key = k
        /\ ~IsTombstone(file[a.seg].recs[a.pos])
    BY <1>1, <1>4 DEF LocsSound, Sound
  <2>2. a.pos \in 1 .. Len(file[a.seg].recs) /\ a.pos \in Int
    <3>1. file[a.seg].recs \in Seq(Record)
      BY <1>1, <1>2 DEF TypeOK
    <3> QED
      BY <2>1, <3>1
  <2>3. \A b \in lost : b.seg = a.seg => b.pos > a.pos
    <3>1. \A b \in lost : b.pos \in Int
      BY <1>1 DEF LostPlaces, Place
    <3> QED
      BY <1>1, <1>4, <2>2, <3>1 DEF LostUnused
  <2>4. a \notin lost
    BY <2>2, <2>3
  <2> QED
    BY <1>1, <1>2, <2>1, <2>2, <2>3, <2>4, BeforeLostFound
<1>5. CASE /\ a \in Place /\ a.pos > Skipped(a.seg) /\ a.pos \in 1 .. Len(Found(a.seg))
           /\ Found(a.seg)[a.pos].key = k /\ ~IsTombstone(Found(a.seg)[a.pos])
  BY <1>1, <1>2, <1>5, PlacesNotLost
<1> QED
  BY <1>1, <1>3, <1>4, <1>5, LocInIs

\* What Open makes of a file is what it finds in it.
LEMMA OpenedIsFound ==
    ASSUME TypeOK, LostPlaces, TailsTyped, DOpen, NEW i \in dir
    PROVE  file'[i].recs = Found(i)
<1>1. i \in SegID /\ file' = [j \in SegID |-> Reopened(j)]
  BY DEF TypeOK, DOpen
<1>2. CASE UseSnapshot /\ i < snap.wm
  <2>1. Found(i) = file[i].recs
    BY <1>1, <1>2, NoneBelowWatermark
  <2> QED
    BY <1>1, <1>2, <2>1, ReopenedIs
<1>3. CASE ~(UseSnapshot /\ i < snap.wm)
  BY <1>1, <1>3, ReopenedIs
<1> QED
  BY <1>2, <1>3

\* Open on damaged files keeps what holds of the index.
LEMMA OpenSound ==
    ASSUME CutInv, DOpen
    PROVE  LocsSound'
<1>1. /\ TypeOK /\ LostPlaces /\ TailsTyped /\ LocsSound /\ LostUnused /\ IdsBelow
      /\ BaseInv
  BY IInvIsBased DEF CutInv, IInv
<1>2. BaseInv' /\ dir \subseteq dir' /\ (dir # {} => dir' = dir) /\ snap' = snap /\ dir' \subseteq SegID
  BY <1>1, OpenBase, OpenFiles DEF DOpen
<1>3. \A i \in dir : file'[i].recs = Found(i)
  BY <1>1, OpenedIsFound
<1>4. NoLoc.seg \notin SegID /\ NoLoc \in Location
  BY DEF NoLoc, NoSeg, SegID, Location
<1>5. ASSUME NEW k \in Key
      PROVE  Sound(k, snap.idx[k])'
  <2>1. PICK a \in Location : a = snap.idx[k]
    BY <1>1 DEF TypeOK
  <2>2. CASE a.seg \in dir
    <3>1. a.pos \in DOMAIN file[a.seg].recs /\ file[a.seg].recs[a.pos].key = k
          /\ ~IsTombstone(file[a.seg].recs[a.pos])
      BY <1>1, <2>1, <2>2 DEF LocsSound, Sound
    <3>2. a.pos \in 1 .. Len(file[a.seg].recs) /\ a.pos \in Int /\ a.seg \in SegID
      <4>1. a.seg \in SegID /\ file[a.seg].recs \in Seq(Record)
        BY <1>1, <2>2 DEF TypeOK
      <4> QED
        BY <3>1, <4>1
    <3>3. \A b \in lost : b.seg = a.seg => b.pos > a.pos
      <4>1. \A b \in lost : b.pos \in Int
        BY <1>1 DEF LostPlaces, Place
      <4> QED
        BY <1>1, <2>1, <3>2, <4>1 DEF LostUnused
    <3>4. a.pos \in DOMAIN Found(a.seg) /\ Found(a.seg)[a.pos] = file[a.seg].recs[a.pos]
      BY <1>1, <3>2, <3>3, BeforeLostFound
    <3> QED
      BY <1>2, <1>3, <2>1, <2>2, <3>1, <3>4 DEF Sound, IsTombstone
  <2>3. CASE a.seg \notin dir
    <3>1. a.seg \notin dir'
      <4>1. a = NoLoc \/ (a.seg \in SegID /\ dir # {})
        BY <1>1, <2>1 DEF IdsBelow, Location
      <4> QED
        BY <1>2, <1>4, <2>3, <4>1
    <3> QED
      BY <1>2, <2>1, <3>1 DEF Sound
  <2> QED
    BY <2>2, <2>3
<1>6. ASSUME NEW k \in Key
      PROVE  Sound(k, idx[k])'
  <2>1. CASE dir = {}
    <3>1. idx'[k] = NoLoc
      BY <2>1 DEF DOpen
    <3> QED
      BY <1>2, <1>4, <3>1 DEF Sound
  <2>2. CASE dir # {}
    <3> DEFINE found == [i \in SegID |-> Found(i)]
    <3>1. idx'[k] = LocIn(found, k)
      BY <2>2 DEF DOpen, FoundIndex
    <3>2. PICK f : f = [i \in SegID |-> Found(i)] /\ f = found
      OBVIOUS
    <3> HIDE DEF found
    <3>3. PICK a : a = LocIn(f, k) /\ a = idx'[k]
      BY <3>1, <3>2
    <3>4. CASE a.seg \in dir
      <4>1. /\ a.pos \in DOMAIN Found(a.seg) /\ Found(a.seg)[a.pos].key = k
            /\ ~IsTombstone(Found(a.seg)[a.pos])
        BY <3>2, <3>3, <3>4, FoundIsSound
      <4> QED
        BY <1>2, <1>3, <3>3, <3>4, <4>1 DEF Sound, IsTombstone
    <3>5. CASE a.seg \notin dir
      <4>1. a.seg \notin dir'
        BY <1>2, <2>2, <3>5
      <4> QED
        BY <3>3, <4>1 DEF Sound
    <3> QED
      BY <3>4, <3>5
  <2> QED
    BY <2>1, <2>2
<1> QED
  BY <1>5, <1>6 DEF LocsSound

\* Nothing points above the highest file.
LEMMA OpenIds ==
    ASSUME TypeOK, TypeOK', LostPlaces, TailsTyped, IdsBelow, DOpen
    PROVE  IdsBelow'
<1>1. segments' = dir' /\ snap' = snap /\ compactOut' = NoSeg
  BY DEF DOpen
<1>2. /\ dir \subseteq dir' /\ (dir # {} => dir' = dir) /\ dir' \subseteq SegID
      /\ active' \in dir' /\ active' \in SegID /\ nextSegID' = active' + 1
  BY OpenFiles
<1>3. \A i \in dir' : i <= active'
  BY OpenFiles
<1>4. PICK m \in SegID : m = active' /\ nextSegID' = m + 1 /\ m \in dir'
  BY <1>2
<1>5. \A i \in dir' : i \in Int /\ i <= m
  BY <1>2, <1>3, <1>4 DEF SegID
<1>6. m \in Int /\ nextSegID' - 1 = m /\ m < m + 1 /\ NoSeg < m + 1
  <2>1. m \in Int /\ m >= 0
    BY DEF SegID
  <2>2. m < m + 1 /\ NoSeg < m + 1 /\ (m + 1) - 1 = m
    BY <2>1 DEF NoSeg
  <2>3. nextSegID' - 1 = (m + 1) - 1
    BY <1>4
  <2> QED
    BY <2>1, <2>2, <2>3
<1>7. \A k \in Key : snap.idx[k] = NoLoc \/ \E j \in dir : snap.idx[k].seg <= j
  BY DEF IdsBelow, TypeOK, Location
<1>8. ASSUME NEW k \in Key, idx'[k] # NoLoc
      PROVE  \E j \in dir' : idx'[k].seg <= j
  <2> DEFINE found == [i \in SegID |-> Found(i)]
  <2>1. dir # {} /\ idx'[k] = LocIn(found, k)
    BY <1>8 DEF DOpen, FoundIndex
  <2>2. PICK f : f = [i \in SegID |-> Found(i)] /\ f = found
    OBVIOUS
  <2> HIDE DEF found
  <2>3. PICK a : a = LocIn(f, k) /\ a = idx'[k]
    BY <2>1, <2>2
  <2>4. a = snap.idx[k] \/ a.seg \in dir
    BY <1>8, <2>2, <2>3, LocInIs
  <2>5. \A j \in dir : j <= j
    BY <1>2, <1>5
  <2> QED
    BY <1>2, <1>7, <1>8, <2>3, <2>4, <2>5
<1>9. \A k \in Key : idx'[k] \in Location /\ snap'.idx[k] \in Location
  BY DEF TypeOK
<1>10. \A a \in Location : (a = NoLoc \/ \E j \in dir' : a.seg <= j) => a.seg < m + 1
  BY <1>5, <1>6 DEF Location, NoLoc, SegID, NoSeg
<1>11. \A k \in Key : idx'[k].seg < m + 1 /\ snap'.idx[k].seg < m + 1
  BY <1>1, <1>2, <1>7, <1>8, <1>9, <1>10
<1>12. \A i \in segments' : i < m + 1
  BY <1>1, <1>5, <1>6
<1>13. \A k \in Key : snap'.idx[k].seg \in SegID => \E j \in dir' : snap'.idx[k].seg <= j
  BY <1>1, <1>2 DEF IdsBelow
<1> QED
  BY <1>1, <1>4, <1>6, <1>11, <1>12, <1>13 DEF IdsBelow

LEMMA OpenInv ==
    ASSUME CutInv, DOpen
    PROVE  IInv'
<1>1. TypeOK /\ LostPlaces /\ TailsTyped /\ BaseInv /\ IdsBelow
  BY IInvIsBased DEF CutInv, IInv
<1>2. BaseInv' /\ LocsSound'
  BY <1>1, OpenBase, OpenSound
<1>3. segments' = dir' /\ mapped' = dir' /\ job' = job /\ \A c \in Compactor : job[c].pc = "idle"
  BY DEF DOpen
<1>4. TypeOK' /\ SegsOnDisk'
  BY <1>2 DEF BaseInv
<1>5. IdsBelow'
  BY <1>1, <1>4, OpenIds
<1>6. DroppedUnused' /\ \A c \in Compactor : JobSound(c)'
  BY <1>3, <1>4 DEF DroppedUnused, JobSound, DOpen
<1> QED
  BY <1>2, <1>4, <1>5, <1>6 DEF IInv

\* What Open leaves lost lies below the watermark, where nothing leads.
LEMMA OpenLost ==
    ASSUME CutInv, DOpen, CutBase'
    PROVE  WatermarkBelow' /\ LostUnused'
<1>1. /\ TypeOK /\ LostPlaces /\ TailsTyped /\ LostUnused /\ WatermarkBelow
  BY DEF CutInv, IInv
<1>2. /\ dir \subseteq dir' /\ (dir # {} => dir' = dir) /\ dir' \subseteq SegID
      /\ active' \in dir' /\ active' \in SegID /\ nextSegID' = active' + 1
      /\ snap' = snap /\ compactOut' = NoSeg
  BY <1>1, OpenFiles DEF DOpen
<1>3. \A i \in dir' : i <= active'
  BY <1>1, OpenFiles
<1>4. PICK m \in SegID : m = active' /\ nextSegID' = m + 1 /\ m \in Int
  <2>1. SegID \subseteq Int
    BY DEF SegID
  <2> QED
    BY <1>2, <2>1
<1>5. WatermarkBelow'
  <2>1. snap.wm # NoSeg => \E j \in dir : snap.wm <= j
    BY <1>1 DEF WatermarkBelow
  <2>2. snap.wm \in SegID \cup {NoSeg}
    BY <1>1 DEF TypeOK
  <2>3. snap.wm < m + 1
    <3>1. CASE snap.wm = NoSeg
      BY <3>1 DEF NoSeg, SegID
    <3>2. CASE snap.wm # NoSeg
      <4>1. PICK j \in dir : snap.wm <= j
        BY <2>1, <3>2
      <4>2. PICK w \in SegID : w = snap.wm
        BY <2>2, <3>2
      <4>3. j \in SegID /\ j <= m
        BY <1>2, <1>3, <1>4
      <4>4. w <= m /\ w < m + 1
        BY <1>4, <4>1, <4>2, <4>3 DEF SegID
      <4> QED
        BY <4>2, <4>4
    <3> QED
      BY <3>1, <3>2
  <2> QED
    BY <1>2, <1>4, <2>1, <2>3 DEF WatermarkBelow
<1>6. ASSUME NEW a \in lost'
      PROVE  /\ \A k \in Key : snap'.idx[k].seg = a.seg => snap'.idx[k].pos < a.pos
             /\ Covered(a)' => a.seg < snap'.wm /\ \A k \in Key : snap'.idx[k].seg # a.seg
             /\ a.seg \notin {active', compactOut'} /\ \A k \in Key : idx'[k].seg # a.seg
  <2>1. a \in lost /\ a.pos <= Kept(a.seg) /\ a \in Place /\ a.seg \in dir
    BY <1>1, <1>6 DEF DOpen, LostPlaces
  <2>2. dir' = dir
    BY <1>2, <2>1
  <2>3. PICK i \in SegID : i = a.seg
    BY <2>1 DEF Place
  <2>4. a.pos \in Nat \ {0} /\ Skipped(i) \in Nat
    <3>1. /\ snap.at \in Nat /\ \A j \in SegID : file[j].recs \in Seq(Record)
      BY <1>1 DEF TypeOK
    <3>2. Len(file[i].recs) \in Nat
      BY <3>1
    <3> QED
      BY <2>1, <3>1, <3>2 DEF Place, Skipped
  <2>5. a.pos <= Skipped(i)
    <3>1. \A b \in lost : b.seg = i /\ b.pos > Skipped(i) => b.pos > Kept(i)
      BY <1>1, KeptIs
    <3>2. Kept(i) \in Nat
      BY <1>1, FoundIs
    <3> QED
      BY <2>1, <2>3, <2>4, <3>1, <3>2
  <2>6. UseSnapshot /\ snap.wm \in SegID /\ (i < snap.wm \/ (i = snap.wm /\ a.pos <= snap.at))
    <3>1. Skipped(i) # 0
      BY <2>4, <2>5
    <3>2. UseSnapshot /\ ~(i > snap.wm) /\ (i = snap.wm => Skipped(i) = snap.at)
      BY <3>1 DEF Skipped
    <3>3. PICK w \in SegID : w = snap.wm
      BY <1>1, <3>2 DEF UseSnapshot, TypeOK
    <3>4. i < w \/ i = w
      BY <3>2, <3>3 DEF SegID
    <3> QED
      BY <2>5, <3>2, <3>3, <3>4
  <2>7. i < snap.wm /\ \A k \in Key : snap.idx[k].seg # i
    BY <1>1, <2>1, <2>3, <2>6 DEF LostUnused, Covered
  <2>8. i # m
    <3>1. PICK w \in SegID : w = snap.wm
      BY <2>6
    <3>2. w <= m
      BY <1>2, <1>3, <1>4, <2>6, <3>1 DEF UseSnapshot
    <3> QED
      BY <1>4, <2>7, <3>1, <3>2 DEF SegID
  <2>9. ASSUME NEW k \in Key PROVE idx'[k].seg # i
    <3> DEFINE found == [j \in SegID |-> Found(j)]
    <3>1. idx'[k] = LocIn(found, k)
      BY <2>1 DEF DOpen, FoundIndex
    <3>2. PICK f : f = [j \in SegID |-> Found(j)] /\ f = found
      OBVIOUS
    <3> HIDE DEF found
    <3>3. PICK b : b = LocIn(f, k) /\ b = idx'[k]
      BY <3>1, <3>2
    <3>4. \/ b = NoLoc
          \/ b = snap.idx[k]
          \/ /\ b.pos > Skipped(b.seg) /\ b.pos \in 1 .. Len(Found(b.seg))
      BY <1>1, <3>2, <3>3, LocInIs
    <3>5. CASE b.pos > Skipped(b.seg) /\ b.pos \in 1 .. Len(Found(b.seg)) /\ b.seg = i
      <4>1. Skipped(i) = Len(file[i].recs) /\ Len(Found(i)) = Len(file[i].recs)
        BY <1>1, <2>6, <2>7, NoneBelowWatermark
      <4>2. b.pos > Len(Found(i)) /\ b.pos \in 1 .. Len(Found(i)) /\ Len(Found(i)) \in Nat
        BY <2>4, <3>5, <4>1
      <4> QED
        BY <4>2
    <3>6. NoLoc.seg # i
      BY DEF NoLoc, NoSeg, SegID
    <3> QED
      BY <2>7, <3>3, <3>4, <3>5, <3>6
  <2>10. a.seg \notin {active', compactOut'}
    BY <1>2, <1>4, <2>3, <2>8 DEF NoSeg, SegID
  <2>11. \A k \in Key : snap'.idx[k].seg = a.seg => snap'.idx[k].pos < a.pos
    BY <1>2, <2>3, <2>7
  <2>12. a.seg < snap'.wm /\ \A k \in Key : snap'.idx[k].seg # a.seg
    BY <1>2, <2>3, <2>7
  <2> QED
    BY <2>3, <2>9, <2>10, <2>11, <2>12
<1> QED
  BY <1>5, <1>6 DEF LostUnused

\* The steps that leave the snapshot alone.
LEMMA LostStays ==
    ASSUME CutInv, IInv', LostPlaces', TailsTyped', lost' \subseteq lost, snap' = snap,
           UseSnapshot' => UseSnapshot, nextSegID <= nextSegID' \/ proc' = "down",
           dir \subseteq dir' \/ proc' # "down",
           proc' # "down" => /\ proc # "down"
                             /\ \A a \in lost' : /\ a.seg \notin {active', compactOut'}
                                                 /\ \A k \in Key : idx'[k].seg # a.seg
    PROVE  CutInv'
<1>1. /\ TypeOK /\ TypeOK' /\ LostUnused /\ WatermarkBelow /\ IdsBelow'
  BY DEF CutInv, IInv
<1>2. LostUnused'
  <2> SUFFICES ASSUME NEW a \in lost'
               PROVE  /\ \A k \in Key : snap'.idx[k].seg = a.seg => snap'.idx[k].pos < a.pos
                      /\ Covered(a)' => a.seg < snap'.wm /\ \A k \in Key : snap'.idx[k].seg # a.seg
                      /\ proc' # "down" => /\ a.seg \notin {active', compactOut'}
                                           /\ \A k \in Key : idx'[k].seg # a.seg
    BY DEF LostUnused
  <2>1. a \in lost /\ (Covered(a)' => Covered(a))
    BY DEF Covered
  <2> QED
    BY <1>1, <2>1 DEF LostUnused
<1>3. WatermarkBelow'
  <2>1. CASE proc' # "down"
    <3>1. snap.wm < nextSegID /\ nextSegID <= nextSegID' /\ nextSegID \in Int /\ nextSegID' \in Int
          /\ snap.wm \in Int /\ nextSegID' - 1 \in dir'
      BY <1>1, <2>1 DEF WatermarkBelow, TypeOK, IdsBelow, SegID, NoSeg
    <3>2. snap.wm < nextSegID' /\ snap.wm <= nextSegID' - 1
      BY <3>1
    <3> QED
      BY <3>1, <3>2 DEF WatermarkBelow
  <2>2. CASE proc' = "down"
    BY <1>1, <2>2 DEF WatermarkBelow
  <2> QED
    BY <2>1, <2>2
<1> QED
  BY <1>2, <1>3 DEF CutInv

\* A segment that is appended to is neither new and the watermark, nor one with losses.
LEMMA AppendPlace ==
    ASSUME IInv, WatermarkBelow, proc # "down", NEW cur \in {active, compactOut}, NEW r \in Record,
           AppendRecord(cur, r), snap' = snap, NEW t, t = Target(cur, r)
    PROVE  /\ t \in SegID /\ (t \in dir => t = cur) /\ (t \notin dir => t = nextSegID /\ snap.wm < t)
           /\ dir' = dir \cup {t} /\ nextSegID <= nextSegID' /\ (UseSnapshot' => UseSnapshot)
<1>1. /\ TypeOK /\ SegsOnDisk /\ cur \in SegID \cup {NoSeg} /\ snap.wm < nextSegID
      /\ cur \in segments \cup {NoSeg} /\ segments \subseteq dir
  BY DEF IInv, TypeOK, SegsOnDisk, WatermarkBelow
<1>2. t \in SegID /\ nextSegID' \in 0 .. MaxSegID + 1
  BY <1>1, AppendRecordKeeps
<1>3. \/ t = cur /\ nextSegID' = nextSegID
      \/ t = nextSegID /\ t \notin dir /\ nextSegID' = nextSegID + 1
  BY <1>1, AppendRecordKeeps
<1>4. t \in dir => t = cur
  BY <1>3
<1>5. t \notin dir => t = nextSegID /\ snap.wm < t
  <2>1. t = cur => t \in dir
    BY <1>1, <1>2 DEF NoSeg, SegID
  <2> QED
    BY <1>1, <1>3, <2>1
<1>6. dir' = dir \cup {t}
  BY DEF AppendRecord
<1>7. nextSegID <= nextSegID'
  <2>1. nextSegID \in Int
    BY <1>1 DEF TypeOK
  <2> QED
    BY <1>3, <2>1
<1>8. UseSnapshot' => UseSnapshot
  <2>1. snap.wm = t /\ t \notin dir => FALSE
    <3>1. PICK w \in SegID : w = t
      BY <1>2
    <3>2. ~(w < w)
      BY DEF SegID
    <3> QED
      BY <1>5, <3>1, <3>2
  <2> QED
    BY <1>6, <2>1 DEF UseSnapshot
<1> QED
  BY <1>2, <1>4, <1>5, <1>6, <1>7, <1>8

LEMMA AppendLost ==
    ASSUME CutInv, IInv', LostPlaces', TailsTyped', proc # "down", proc' # "down",
           NEW cur \in {active, compactOut}, NEW r \in Record, AppendRecord(cur, r),
           NEW t, t = Target(cur, r), snap' = snap, lost' = lost,
           {active', compactOut'} \subseteq {active, compactOut, t},
           \A k \in Key : idx'[k].seg \in {idx[k].seg, t, NoSeg}
    PROVE  CutInv'
<1>1. IInv /\ WatermarkBelow /\ LostUnused /\ LostPlaces
  BY DEF CutInv
<1>2. /\ t \in SegID /\ (t \in dir => t = cur)
      /\ dir' = dir \cup {t} /\ nextSegID <= nextSegID' /\ (UseSnapshot' => UseSnapshot)
  BY <1>1, AppendPlace
<1>3. ASSUME NEW a \in lost'
      PROVE  a.seg \notin {active', compactOut'} /\ \A k \in Key : idx'[k].seg # a.seg
  <2>1. a \in lost /\ a.seg \in dir /\ a.seg \in SegID
    BY <1>1, <1>3 DEF LostPlaces, Place
  <2>2. a.seg \notin {active, compactOut} /\ \A k \in Key : idx[k].seg # a.seg
    BY <1>1, <2>1 DEF LostUnused
  <2>3. a.seg # t /\ a.seg # NoSeg
    BY <1>2, <2>1, <2>2 DEF NoSeg, SegID
  <2> QED
    BY <2>2, <2>3
<1>4. dir \subseteq dir' /\ lost' \subseteq lost
  BY <1>2
<1> QED
  BY <1>2, <1>3, <1>4, LostStays

LEMMA WriteLost ==
    ASSUME CutInv, CutBase', NEW k \in Key, DDelete(k) \/ \E v \in Val : DPut(k, v)
    PROVE  CutInv'
<1>1. PICK v \in Val \cup {Absent} :
          /\ Write(k, v) /\ lost' = lost
          /\ idx' \in {[idx EXCEPT ![k] = EndOf(active')], [idx EXCEPT ![k] = NoLoc]}
  BY DEF DDelete, DPut, Put, Delete
<1> DEFINE r == [key |-> k, val |-> v]
<1>2. /\ IInv /\ LostPlaces' /\ TailsTyped' /\ lost' = lost /\ Write(k, v)
      /\ idx' \in {[idx EXCEPT ![k] = EndOf(active')], [idx EXCEPT ![k] = NoLoc]}
  BY <1>1 DEF CutInv, CutBase
<1>3. IInv'
  BY <1>2, PutKeeps, DeleteKeeps DEF DDelete, DPut
<1>4. /\ r \in Record /\ AppendRecord(active, r) /\ active' = Target(active, r)
      /\ proc # "down" /\ proc' # "down" /\ snap' = snap /\ compactOut' = compactOut
  BY <1>2 DEF Write, Record
<1> HIDE DEF r
<1>5. PICK t : t = Target(active, r) /\ t = active'
  BY <1>4
<1>6. \A h \in Key : idx'[h].seg \in {idx[h].seg, t, NoSeg}
  <2>1. EndOf(t).seg = t /\ NoLoc.seg = NoSeg /\ idx \in [Key -> Location]
    BY <1>2 DEF EndOf, NoLoc, IInv, TypeOK
  <2> QED
    BY <1>2, <1>5, <2>1
<1> QED
  BY <1>2, <1>3, <1>4, <1>5, <1>6, AppendLost

LEMMA RelocateLost ==
    ASSUME CutInv, CutBase', NEW c \in Compactor, DRelocate(c)
    PROVE  CutInv'
<1> DEFINE r == Scanned(c)
<1>1. /\ IInv /\ JobSound(c) /\ TypeOK /\ LostPlaces' /\ TailsTyped' /\ lost' = lost /\ Relocate(c)
      /\ Scanning(c) /\ AppendRecord(compactOut, r) /\ compactOut' = Target(compactOut, r)
      /\ idx' = [idx EXCEPT ![r.key] = EndOf(compactOut')]
      /\ UNCHANGED <<snap, proc, active>>
  BY DEF CutInv, CutBase, IInv, DRelocate, Relocate
<1>2. IInv'
  BY <1>1, RelocateKeeps
<1>3. r \in Record /\ proc # "down"
  <2>1. job[c].src \in SegID /\ job[c].pos \in DOMAIN file[job[c].src].recs /\ proc # "down"
    BY <1>1 DEF JobSound, Scanning
  <2>2. file[job[c].src].recs \in Seq(Record)
    BY <1>1, <2>1 DEF TypeOK
  <2> QED
    BY <2>1, <2>2 DEF Scanned, RecordAt, At
<1> HIDE DEF r
<1>4. PICK t : t = Target(compactOut, r) /\ t = compactOut'
  BY <1>1
<1>5. \A h \in Key : idx'[h].seg \in {idx[h].seg, t, NoSeg}
  <2>1. EndOf(t).seg = t /\ idx \in [Key -> Location]
    BY <1>1 DEF EndOf, TypeOK
  <2> QED
    BY <1>1, <1>4, <2>1
<1>6. proc' # "down" /\ {active', compactOut'} \subseteq {active, compactOut, t}
  BY <1>1, <1>3, <1>4
<1> QED
  BY <1>1, <1>2, <1>3, <1>4, <1>5, <1>6, AppendLost

LEMMA RemoveLost ==
    ASSUME CutInv, CutBase', NEW c \in Compactor, DRemove(c)
    PROVE  CutInv'
<1>1. /\ IInv /\ JobSound(c) /\ LostPlaces' /\ TailsTyped' /\ lost' \subseteq lost /\ Remove(c) /\ LostUnused
      /\ UNCHANGED <<snap, proc, idx, active, compactOut, nextSegID>> /\ dir' \subseteq dir
      /\ job[c].pc = "remove"
  BY DEF CutInv, CutBase, IInv, DRemove, Remove, mem
<1>2. IInv' /\ proc # "down" /\ proc' # "down"
  BY <1>1, RemoveKeeps DEF JobSound
<1>3. UseSnapshot' => UseSnapshot
  BY <1>1 DEF UseSnapshot
<1>4. nextSegID <= nextSegID'
  <2>1. nextSegID \in Int
    BY <1>1 DEF IInv, TypeOK
  <2> QED
    BY <1>1, <2>1
<1>5. \A a \in lost' : a.seg \notin {active', compactOut'} /\ \A k \in Key : idx'[k].seg # a.seg
  BY <1>1, <1>2 DEF LostUnused
<1> QED
  BY <1>1, <1>2, <1>3, <1>4, <1>5, LostStays

\* The steps that change neither the files that exist nor where the index leads.
LEMMA QuietLost ==
    ASSUME CutInv, CutBase', IInv', UNCHANGED <<dir, lost, snap>>,
           proc' # "down" => proc # "down" /\ UNCHANGED <<idx, active, compactOut, nextSegID>>
    PROVE  CutInv'
<1>1. IInv /\ LostPlaces' /\ TailsTyped' /\ LostUnused
  BY DEF CutInv, CutBase
<1>2. (UseSnapshot' => UseSnapshot) /\ dir \subseteq dir' /\ lost' \subseteq lost
  BY DEF UseSnapshot
<1>3. nextSegID <= nextSegID' \/ proc' = "down"
  <2>1. nextSegID \in Int
    BY <1>1 DEF IInv, TypeOK
  <2> QED
    BY <2>1
<1>4. proc' # "down" =>
        /\ proc # "down"
        /\ \A a \in lost' : a.seg \notin {active', compactOut'} /\ \A k \in Key : idx'[k].seg # a.seg
  BY <1>1 DEF LostUnused
<1> QED
  BY <1>1, <1>2, <1>3, <1>4, LostStays

\* The steps that replace the snapshot.
LEMMA SnapshotLost ==
    ASSUME CutInv, CutBase', IInv', UNCHANGED <<dir, lost, idx, active, compactOut, nextSegID>>,
           proc # "down", snap' \in {NoSnap, SnapshotOfIndex}
    PROVE  CutInv'
<1>1. /\ IInv /\ LostPlaces' /\ TailsTyped' /\ LostUnused /\ SegsOnDisk /\ IdsBelow /\ TypeOK
      /\ TypeOK' /\ LostPlaces
  BY DEF CutInv, CutBase, IInv
<1>2. CASE snap' = NoSnap
  <2>1. snap'.wm = NoSeg /\ (\A k \in Key : snap'.idx[k].seg = NoSeg) /\ NoSeg \notin SegID
    BY <1>2 DEF NoSnap, NoLoc, NoSeg, SegID
  <2>2. ~UseSnapshot'
    BY <1>1, <2>1 DEF UseSnapshot, TypeOK
  <2>3. LostUnused'
    BY <1>1, <2>1, <2>2 DEF LostUnused, LostPlaces, Place, Covered
  <2>4. NoSeg < nextSegID'
    BY <1>1 DEF TypeOK, NoSeg
  <2>5. WatermarkBelow'
    BY <2>1, <2>4 DEF WatermarkBelow
  <2> QED
    BY <1>1, <2>3, <2>5 DEF CutInv
<1>3. CASE snap' = SnapshotOfIndex
  <2>1. snap'.wm = active /\ snap'.idx = idx /\ active \in SegID /\ active \in dir /\ active < nextSegID
    BY <1>1, <1>3 DEF SnapshotOfIndex, SegsOnDisk, IdsBelow, TypeOK
  <2>2. LostUnused'
    <3> SUFFICES ASSUME NEW a \in lost'
                 PROVE  /\ \A k \in Key : snap'.idx[k].seg = a.seg => snap'.idx[k].pos < a.pos
                        /\ Covered(a)' => a.seg < snap'.wm /\ \A k \in Key : snap'.idx[k].seg # a.seg
                        /\ proc' # "down" => /\ a.seg \notin {active', compactOut'}
                                             /\ \A k \in Key : idx'[k].seg # a.seg
      BY DEF LostUnused
    <3>1. a.seg \notin {active, compactOut} /\ \A k \in Key : idx[k].seg # a.seg
      BY <1>1 DEF LostUnused
    <3>2. Covered(a)' => a.seg < snap'.wm
      BY <2>1, <3>1 DEF Covered
    <3> QED
      BY <2>1, <3>1, <3>2
  <2>3. WatermarkBelow'
    <3>1. active <= active
      BY <2>1 DEF SegID
    <3> QED
      BY <2>1, <3>1 DEF WatermarkBelow
  <2> QED
    BY <1>1, <2>2, <2>3 DEF CutInv
<1> QED
  BY <1>2, <1>3

LEMMA CutInvStep ==
    ASSUME CutInv, CutBase', [DNext]_dvars, ~PowerLoss, ~PowerLossInClose, ioErrs' = 0
    PROVE  CutInv'
<1>1. /\ IInv /\ TypeOK /\ LostPlaces' /\ TailsTyped'
      /\ \A c \in Compactor : JobSound(c)
  BY DEF CutInv, CutBase, IInv
<1>2. ioErrs' # ioErrs + 1
  <2>1. ioErrs \in 0 .. MaxIOErrors
    BY <1>1 DEF TypeOK
  <2> QED
    BY <2>1
<1>3. CASE DOpen
  BY <1>1, <1>3, OpenInv, OpenLost DEF CutInv
<1>4. ASSUME NEW k \in Key, DDelete(k) \/ \E v \in Val : DPut(k, v)
      PROVE  CutInv'
  BY <1>4, WriteLost
<1>5. CASE DWriteFails
  <2>1. IInv' /\ UNCHANGED <<dir, lost, snap, proc, idx, active, compactOut, nextSegID>>
    BY <1>1, <1>2, <1>5, WriteFailsKeeps DEF DWriteFails, WriteFails, CreateFails, mem
  <2> QED
    BY <2>1, QuietLost
<1>6. CASE Sync \/ UNCHANGED dvars
  <2>1. UNCHANGED vars /\ lost' = lost
    BY <1>6 DEF Sync, dvars, dur
  <2>2. IInv' /\ UNCHANGED <<dir, lost, snap, proc, idx, active, compactOut, nextSegID>>
    BY <1>1, <2>1, NextIInv DEF vars, disk, mem
  <2> QED
    BY <2>2, QuietLost
<1>7. ASSUME NEW c \in Compactor, DCompactorStep(c)
      PROVE  CutInv'
  <2>1. CASE DRelocate(c)
    BY <2>1, RelocateLost
  <2>2. CASE DRemove(c)
    BY <2>2, RemoveLost
  <2>3. CASE DRelocateFails(c)
    <3>1. IInv' /\ UNCHANGED <<dir, lost, snap, proc, idx, active, compactOut, nextSegID>>
      BY <1>1, <1>2, <2>3, RelocateFailsKeeps DEF DRelocateFails, RelocateFails, CreateFails, dur
    <3> QED
      BY <3>1, QuietLost
  <2>4. CASE DSkipRecord(c)
    <3>1. IInv' /\ UNCHANGED <<dir, lost, snap, proc, idx, active, compactOut, nextSegID>>
      BY <1>1, <2>4, SkipRecordKeeps DEF DSkipRecord, SkipRecord, disk, mem, dur
    <3> QED
      BY <3>1, QuietLost
  <2>5. CASE ScanStops(c)
    <3>1. UNCHANGED <<disk, proc, mem, mapped, weak, bounds>> /\ lost' = lost /\ Goto(c, "drop")
          /\ job[c].pc = "scan" /\ job[c].src \in mapped /\ At(c) \in lost
      BY <2>5 DEF ScanStops, Scanning, dur
    <3>2. PICK j \in Job : /\ job' = [job EXCEPT ![c] = j] /\ job'[c] = j
                           /\ j.pc = "drop" /\ j.src = job[c].src /\ j.pos = job[c].pos
      BY <1>1, <3>1, GotoJob DEF PCs
    <3>3. proc # "down" /\ job[c].src \in SegID /\ job[c].src < nextSegID
          /\ job[c].src \notin {active, compactOut}
      BY <1>1, <3>1 DEF JobSound
    <3>4. \A k \in Key : idx[k].seg # job[c].src
      <4>1. At(c).seg = job[c].src
        BY DEF At
      <4> QED
        BY <3>1, <3>3, <4>1 DEF CutInv, LostUnused
    <3>5. JobSound(c)'
      BY <3>1, <3>2, <3>3, <3>4 DEF JobSound, mem
    <3>6. IInv'
      <4>1. UNCHANGED <<disk, proc, idx, segments, active, compactOut, nextSegID, deadBytes,
                        mapped, weak, bounds>>
        BY <3>1 DEF mem
      <4>2. compactErr' \in BOOLEAN
        BY <1>1, <3>1 DEF TypeOK, mem
      <4> QED
        BY <1>1, <3>2, <3>5, <4>1, <4>2, JobMoves
    <3> QED
      BY <3>1, <3>6, QuietLost DEF disk, mem
  <2>6. CASE /\ StartPass(c) \/ Pick(c) \/ Check(c) \/ BeginScan(c) \/ ScanUnmapped(c)
                  \/ Drop(c) \/ RemoveFails(c)
             /\ UNCHANGED <<dur, power, syncs>>
    <3>1. IInv'
      BY <1>1, <2>6, StartPassKeeps, PickKeeps, CheckKeeps, BeginScanKeeps, ScanUnmappedKeeps, DropKeeps,
         RemoveFailsKeeps
    <3>2. /\ UNCHANGED <<dir, lost, snap>>
          /\ proc' # "down" => proc # "down" /\ UNCHANGED <<idx, active, compactOut, nextSegID>>
      BY <1>1, <2>6 DEF StartPass, Pick, Check, BeginScan, ScanUnmapped, Vanish, EndProcess, Drop,
                  RemoveFails, disk, mem, dur
    <3> QED
      BY <3>1, <3>2, QuietLost
  <2>7. CASE RemoveSnapshot(c) /\ UNCHANGED <<dur, power, syncs>>
    <3>1. IInv' /\ UNCHANGED <<dir, lost, proc, idx, active, compactOut, nextSegID>>
          /\ snap' = NoSnap
      BY <1>1, <1>2, <2>7, RemoveSnapshotKeeps DEF RemoveSnapshot, mem, dur
    <3>2. CASE proc # "down"
      BY <3>1, <3>2, SnapshotLost
    <3>3. CASE proc = "down"
      BY <1>1, <2>7, <3>3 DEF RemoveSnapshot, JobSound
    <3> QED
      BY <3>2, <3>3
  <2> QED
    BY <1>7, <2>1, <2>2, <2>3, <2>4, <2>5, <2>6, <2>7 DEF DCompactorStep
<1>8. CASE DFinishClose
  <2>1. IInv' /\ UNCHANGED <<dir, lost, idx, active, compactOut, nextSegID>>
        /\ snap' \in {snap, SnapshotOfIndex} /\ proc # "down"
    BY <1>1, <1>8, FinishCloseKeeps DEF DFinishClose, FinishClose, Stopped, mem
  <2> QED
    BY <2>1, QuietLost, SnapshotLost
<1>9. CASE DCloseCutShort
  BY <1>2, <1>9 DEF DCloseCutShort, CloseCutShort
<1>10. CASE (BeginClose \/ SnapshotFails \/ Crash) /\ UNCHANGED <<dur, power, syncs>>
  <2>1. IInv'
    BY <1>1, <1>10, BeginCloseKeeps, SnapshotFailsKeeps, CrashKeeps
  <2>2. /\ UNCHANGED <<dir, lost, snap>>
        /\ proc' # "down" => proc # "down" /\ UNCHANGED <<idx, active, compactOut, nextSegID>>
    BY <1>2, <1>10 DEF BeginClose, SnapshotFails, Crash, Vanish, EndProcess, disk, mem, dur
  <2> QED
    BY <2>1, <2>2, QuietLost
<1> QED
  BY <1>3, <1>4, <1>5, <1>6, <1>7, <1>8, <1>9, <1>10 DEF DNext

\* Where nothing leads astray, no read returns garbage.
LEMMA NoGarbage ==
    ASSUME CutInv, NEW k \in Key
    PROVE  Seen[k] # Garbage
<1>1. /\ TypeOK /\ LocsSound /\ LostUnused /\ SegsOnDisk /\ LostPlaces /\ TailsTyped
  BY DEF CutInv, IInv
<1>2. Garbage # Absent /\ Garbage # Missing /\ \A r \in Record : r.val # Garbage
  BY DurabilityAssumption DEF Record
<1>3. CASE proc = "open"
  <2> DEFINE recs == [i \in SegID |-> file[i].recs]
  <2>1. Seen[k] = ReadAt(segments, recs, k, idx[k])
    BY <1>3 DEF Seen, DContent
  <2>2. PICK a : a = idx[k]
    OBVIOUS
  <2>3. CASE a = NoLoc \/ a.seg \notin segments
    BY <1>2, <2>1, <2>2, <2>3 DEF ReadAt
  <2>4. CASE a # NoLoc /\ a.seg \in segments
    <3>1. a.seg \in dir /\ a.seg \in SegID /\ recs[a.seg] = file[a.seg].recs
          /\ file[a.seg].recs \in Seq(Record)
      BY <1>1, <2>4 DEF SegsOnDisk, TypeOK
    <3>2. a.pos \in DOMAIN file[a.seg].recs /\ file[a.seg].recs[a.pos].key = k
      BY <1>1, <2>2, <3>1 DEF LocsSound, Sound
    <3>3. a \notin lost
      BY <1>1, <1>3, <2>2 DEF LostUnused
    <3>4. file[a.seg].recs[a.pos] \in Record
      BY <3>1, <3>2
    <3> HIDE DEF recs
    <3>5. ~Astray(recs, k, a) /\ recs[a.seg][a.pos] \in Record
      BY <3>1, <3>2, <3>3, <3>4 DEF Astray
    <3> QED
      BY <1>2, <2>1, <2>2, <2>4, <3>5 DEF ReadAt
  <2> QED
    BY <2>3, <2>4
<1>4. CASE proc # "open"
  <2>1. PICK found : found = [i \in SegID |-> Found(i)]
    OBVIOUS
  <2>2. Seen[k] = ReadAt(dir, found, k, LocIn(found, k))
    BY <1>4, <2>1 DEF Seen, DRecovered
  <2>3. PICK a : a = LocIn(found, k)
    OBVIOUS
  <2>4. CASE a = NoLoc \/ a.seg \notin dir
    BY <1>2, <2>2, <2>3, <2>4 DEF ReadAt
  <2>5. CASE a # NoLoc /\ a.seg \in dir
    <3>1. a \notin lost /\ a.pos \in DOMAIN Found(a.seg) /\ Found(a.seg)[a.pos] \in Record
          /\ Found(a.seg)[a.pos].key = k
      BY <2>1, <2>3, <2>5, FoundIsSound
    <3>2. found[a.seg] = Found(a.seg)
      BY <1>1, <2>1, <2>5 DEF TypeOK
    <3>3. ~Astray(found, k, a) /\ found[a.seg][a.pos] \in Record
      BY <3>1, <3>2 DEF Astray
    <3> QED
      BY <1>2, <2>2, <2>3, <2>5, <3>3 DEF ReadAt
  <2> QED
    BY <2>4, <2>5
<1> QED
  BY <1>3, <1>4

\* While the power is on and no file operation has failed: what the snapshot speaks
\* of was flushed before it, and nothing is appended below its watermark.
SnapFlushed ==
    /\ \A k \in Key : snap.idx[k].seg \in dir => snap.idx[k].pos <= flushed[snap.idx[k].seg]
    /\ UseSnapshot =>
        /\ snap.at <= flushed[snap.wm]
        /\ \A i \in dir : i < snap.wm =>
              flushed[i] = Len(file[i].recs) \/ \A k \in Key : snap.idx[k].seg # i
AppendsAbove ==
    /\ UseSnapshot /\ proc \in {"open", "closing"} =>
          snap.wm <= active /\ (compactOut = NoSeg \/ snap.wm < compactOut)
    /\ proc = "closed" => mapped \cap segments = {}

SnapInv == SnapFlushed /\ AppendsAbove

LEMMA SnapPosition == TypeOK => \A k \in Key : snap.idx[k] \in Location /\ snap.idx[k].pos \in Nat
<1>1. \A a \in Location : a.pos \in Nat
  BY DEF Location, NoLoc
<1> QED
  BY <1>1 DEF TypeOK

\* Nothing that the snapshot covers is lost with the power.
LEMMA FlushedNotLost ==
    ASSUME OnInv, SnapFlushed, PowerLoss
    PROVE  CutInv'
<1>1. /\ LosePower /\ snap' = snap /\ IInv /\ TypeOK /\ WatermarkPassed /\ FlushedBound
  BY DEF PowerLoss, OnInv, IInv, RInv
<1>2. /\ TornOnly' /\ UNCHANGED <<dir, file, weak, bounds>> /\ EndProcess
      /\ \A a \in lost' : a.seg \in SegID /\ a.pos > flushed[a.seg]
  BY <1>1, LossTears DEF LosePower
<1>3. LostPlaces' /\ TailsTyped'
  BY <1>2 DEF TornOnly
<1>4. IInv'
  <2>1. Vanish
    BY <1>1, <1>2 DEF Vanish, disk
  <2>2. writes' \in 0 .. MaxWrites /\ crashes' \in 0 .. MaxCrashes /\ ioErrs' \in 0 .. MaxIOErrors
    BY <1>1, <1>2 DEF TypeOK, bounds
  <2> QED
    BY <1>1, <2>1, <2>2, VanishKeeps
<1>5. WatermarkBelow'
  BY <1>1, <1>2 DEF WatermarkPassed, WatermarkBelow, EndProcess
<1>6. ASSUME NEW a \in lost'
      PROVE  /\ \A k \in Key : snap'.idx[k].seg = a.seg => snap'.idx[k].pos < a.pos
             /\ Covered(a)' => a.seg < snap'.wm /\ \A k \in Key : snap'.idx[k].seg # a.seg
  <2>1. PICK i \in SegID, p \in Nat \ {0} : i = a.seg /\ p = a.pos /\ i \in dir
    BY <1>2, <1>3, <1>6 DEF LostPlaces, Place
  <2>2. p > flushed[i] /\ flushed[i] \in Nat /\ p \in 1 .. Len(file[i].recs)
    <3>1. p > flushed[i] /\ flushed[i] \in Nat /\ p \in DOMAIN file[i].recs
      BY <1>1, <1>2, <1>3, <1>6, <2>1 DEF LostPlaces, FlushedBound
    <3>2. file[i].recs \in Seq(Record)
      BY <1>1 DEF TypeOK
    <3> QED
      BY <3>1, <3>2
  <2>3. ASSUME NEW k \in Key, snap.idx[k].seg = i PROVE snap.idx[k].pos < p
    <3>1. snap.idx[k].pos <= flushed[i] /\ snap.idx[k].pos \in Nat
      BY <1>1, <2>1, <2>3, SnapPosition DEF SnapFlushed
    <3> QED
      BY <2>2, <3>1
  <2>4. ASSUME Covered(a)'
        PROVE  i < snap.wm /\ \A k \in Key : snap.idx[k].seg # i
    <3>1. UseSnapshot /\ (i < snap.wm \/ (i = snap.wm /\ p <= snap.at))
      BY <1>1, <1>2, <2>1, <2>4 DEF Covered, UseSnapshot
    <3>2. ~(i = snap.wm /\ p <= snap.at)
      <4>1. snap.at \in Nat
        BY <1>1 DEF TypeOK
      <4> QED
        BY <2>2, <3>1, <4>1 DEF SnapFlushed
    <3>3. flushed[i] # Len(file[i].recs)
      BY <2>2
    <3> QED
      BY <2>1, <3>1, <3>2, <3>3 DEF SnapFlushed
  <2> QED
    BY <1>1, <2>1, <2>3, <2>4
<1>7. LostUnused'
  <2>1. proc' = "down"
    BY <1>2 DEF EndProcess
  <2> QED
    BY <1>6, <2>1 DEF LostUnused
<1> QED
  BY <1>3, <1>4, <1>5, <1>7 DEF CutInv

LEMMA OnIsSound == OnInv => CutInv
<1> SUFFICES ASSUME OnInv PROVE CutInv
  OBVIOUS
<1>1. IInv /\ lost = {} /\ WatermarkPassed /\ CutBase
  BY OnIsCut DEF OnInv, Whole, RInv
<1> QED
  BY <1>1 DEF CutInv, WatermarkBelow, WatermarkPassed, LostUnused, CutBase

-----------------------------------------------------------------------------
(* The steps while the power is on. *)

\* The steps that leave the snapshot alone.
LEMMA FlushedStays ==
    ASSUME TypeOK, SnapFlushed, FlushedBound, snap' = snap, UseSnapshot' => UseSnapshot,
           flushed' \in [SegID -> Nat], dir' \subseteq SegID,
           \A k \in Key : snap.idx[k].seg \in dir' => snap.idx[k].seg \in dir,
           \A i \in dir' \cap dir : flushed[i] <= flushed'[i],
           UseSnapshot => \A i \in dir' : i < snap.wm =>
               i \in dir /\ (flushed[i] = Len(file[i].recs) => flushed'[i] = Len(file'[i].recs))
    PROVE  SnapFlushed'
<1>1. ASSUME NEW k \in Key, snap.idx[k].seg \in dir'
      PROVE  snap.idx[k].pos <= flushed'[snap.idx[k].seg]
  <2>1. PICK i \in SegID : i = snap.idx[k].seg /\ i \in dir' \cap dir
    BY <1>1
  <2>2. snap.idx[k].pos <= flushed[i] /\ snap.idx[k].pos \in Nat /\ flushed[i] \in Nat
        /\ flushed[i] <= flushed'[i] /\ flushed'[i] \in Nat
    BY <2>1, SnapPosition DEF SnapFlushed, FlushedBound
  <2> QED
    BY <2>1, <2>2
<1>2. ASSUME UseSnapshot'
      PROVE  /\ snap.at <= flushed'[snap.wm]
             /\ \A i \in dir' : i < snap.wm =>
                   flushed'[i] = Len(file'[i].recs) \/ \A k \in Key : snap.idx[k].seg # i
  <2>1. PICK w \in SegID : w = snap.wm /\ w \in dir' \cap dir
    BY <1>2 DEF UseSnapshot
  <2>2. snap.at <= flushed'[w]
    <3>1. snap.at <= flushed[w] /\ snap.at \in Nat /\ flushed[w] \in Nat
          /\ flushed[w] <= flushed'[w] /\ flushed'[w] \in Nat
      BY <1>2, <2>1 DEF SnapFlushed, TypeOK, FlushedBound
    <3> QED
      BY <3>1
  <2>3. ASSUME NEW i \in dir', i < snap.wm
        PROVE  flushed'[i] = Len(file'[i].recs) \/ \A k \in Key : snap.idx[k].seg # i
    BY <1>2, <2>3 DEF SnapFlushed
  <2> QED
    BY <2>1, <2>2, <2>3
<1> QED
  BY <1>1, <1>2 DEF SnapFlushed

\* Whatever changes no record and flushes no less.
LEMMA QuietFlushed ==
    ASSUME IInv, SnapFlushed, FlushedBound, FlushedBound', snap' = snap, dir' \subseteq dir,
           \A i \in dir' : file'[i].recs = file[i].recs /\ flushed[i] <= flushed'[i]
    PROVE  SnapFlushed'
<1>1. TypeOK /\ dir \subseteq SegID
  BY DEF IInv, TypeOK
<1>2. UseSnapshot' => UseSnapshot
  BY DEF UseSnapshot
<1>3. \A i \in dir' : flushed[i] = Len(file[i].recs) => flushed'[i] = Len(file'[i].recs)
  <2> SUFFICES ASSUME NEW i \in dir', flushed[i] = Len(file[i].recs)
               PROVE  flushed'[i] = Len(file'[i].recs)
    OBVIOUS
  <2>1. flushed'[i] \in Nat /\ flushed[i] \in Nat /\ flushed'[i] <= Len(file'[i].recs)
        /\ Len(file'[i].recs) = flushed[i] /\ flushed[i] <= flushed'[i]
    BY <1>1 DEF FlushedBound
  <2> QED
    BY <2>1
<1>4. flushed' \in [SegID -> Nat] /\ dir' \subseteq SegID
  BY <1>1 DEF FlushedBound
<1> QED
  BY <1>1, <1>2, <1>3, <1>4, FlushedStays

\* The steps of writers and compactors that create no file and append nothing.
LEMMA QuietAbove ==
    ASSUME AppendsAbove, snap' = snap, dir' \subseteq dir,
           \/ proc' = "down"
           \/ UNCHANGED <<proc, active, compactOut>> /\ mapped' \subseteq mapped /\ segments' \subseteq segments
           \/ proc = "open" /\ proc' = "closing" /\ UNCHANGED <<active, compactOut>>
    PROVE  AppendsAbove'
<1>1. UseSnapshot' => UseSnapshot
  BY DEF UseSnapshot
<1>2. CASE proc' = "down"
  BY <1>2 DEF AppendsAbove
<1>3. CASE UNCHANGED <<proc, active, compactOut>> /\ mapped' \subseteq mapped /\ segments' \subseteq segments
  <2>1. proc' = "closed" => mapped' \cap segments' = {}
    BY <1>3 DEF AppendsAbove
  <2> QED
    BY <1>1, <1>3, <2>1 DEF AppendsAbove
<1>4. CASE proc = "open" /\ proc' = "closing" /\ UNCHANGED <<active, compactOut>>
  BY <1>1, <1>4 DEF AppendsAbove
<1> QED
  BY <1>2, <1>3, <1>4

LEMMA AppendSnap ==
    ASSUME OnInv, SnapInv, proc \in {"open", "closing"}, proc' = proc, snap' = snap,
           NEW cur \in {active, compactOut}, NEW r \in Record, AppendRecord(cur, r),
           NEW t, t = Target(cur, r),
           \/ cur = active /\ active' = t /\ compactOut' = compactOut
           \/ cur = compactOut /\ compactOut' = t /\ active' = active,
           FlushedBound', \A i \in SegID : flushed'[i] >= flushed[i]
    PROVE  SnapInv'
<1>1. /\ IInv /\ TypeOK /\ WatermarkBelow /\ GoneIsEmpty /\ IdsBelow /\ FlushedBound
      /\ proc # "down" /\ SnapFlushed /\ AppendsAbove
  BY OnIsSound DEF OnInv, RInv, IInv, CutInv, SnapInv
<1>2. /\ t \in SegID /\ (t \in dir => t = cur) /\ (t \notin dir => t = nextSegID /\ snap.wm < t)
      /\ dir' = dir \cup {t} /\ (UseSnapshot' => UseSnapshot)
  BY <1>1, AppendPlace
<1>3. \A i \in SegID \ {t} : file'[i].recs = file[i].recs
  BY <1>1, AppendedRecords DEF IInv
<1>4. UseSnapshot => snap.wm \in SegID /\ snap.wm <= t
  <2> SUFFICES ASSUME UseSnapshot
               PROVE  snap.wm \in SegID /\ snap.wm <= t
    OBVIOUS
  <2>1. PICK w \in SegID : w = snap.wm
    BY <1>1 DEF UseSnapshot, TypeOK
  <2>2. w <= active /\ (compactOut = NoSeg \/ w < compactOut)
    BY <1>1, <2>1 DEF AppendsAbove
  <2>3. t # NoSeg
    BY <1>2 DEF SegID, NoSeg
  <2>4. w < t \/ (w <= t /\ cur = active)
    <3>1. CASE t \notin dir
      BY <1>2, <2>1, <3>1
    <3>2. CASE t \in dir /\ cur = active
      BY <1>2, <2>2, <3>2
    <3>3. CASE t \in dir /\ cur = compactOut
      BY <1>2, <2>2, <2>3, <3>3
    <3> QED
      BY <3>1, <3>2, <3>3
  <2>5. w <= t
    BY <1>2, <2>4 DEF SegID
  <2> QED
    BY <2>1, <2>4, <2>5
<1>5. dir' \subseteq SegID /\ flushed' \in [SegID -> Nat]
  BY <1>1, <1>2 DEF TypeOK, FlushedBound
<1>6. \A k \in Key : snap.idx[k].seg \in dir' => snap.idx[k].seg \in dir
  <2> SUFFICES ASSUME NEW k \in Key, snap.idx[k].seg = t, t \notin dir PROVE FALSE
    BY <1>2
  <2>1. PICK j \in SegID : j = t
    BY <1>2
  <2>2. j < j
    BY <1>1, <1>2, <2>1 DEF IdsBelow
  <2> QED
    BY <2>2 DEF SegID
<1>7. \A i \in dir' \cap dir : flushed[i] <= flushed'[i]
  BY <1>1, <1>5 DEF FlushedBound
<1>8. ASSUME UseSnapshot, NEW i \in dir', i < snap.wm
      PROVE  i \in dir /\ (flushed[i] = Len(file[i].recs) => flushed'[i] = Len(file'[i].recs))
  <2>1. i \in SegID /\ i # t
    BY <1>2, <1>4, <1>5, <1>8 DEF SegID
  <2>2. file'[i].recs = file[i].recs /\ i \in dir
    BY <1>2, <1>3, <2>1
  <2>3. flushed[i] \in Nat /\ flushed'[i] \in Nat /\ flushed'[i] >= flushed[i]
        /\ flushed'[i] <= Len(file'[i].recs)
    BY <1>1, <2>1 DEF FlushedBound
  <2> QED
    BY <2>2, <2>3
<1>9. SnapFlushed'
  BY <1>1, <1>2, <1>5, <1>6, <1>7, <1>8, FlushedStays
<1>10. AppendsAbove'
  <2> SUFFICES ASSUME UseSnapshot' PROVE snap.wm <= active' /\ (compactOut' = NoSeg \/ snap.wm < compactOut')
    BY DEF AppendsAbove
  <2>1. UseSnapshot /\ snap.wm <= active /\ (compactOut = NoSeg \/ snap.wm < compactOut)
    BY <1>1, <1>2 DEF AppendsAbove
  <2>2. CASE cur = active /\ active' = t /\ compactOut' = compactOut
    BY <1>4, <2>1, <2>2
  <2>3. CASE cur = compactOut /\ compactOut' = t /\ active' = active
    <3>1. snap.wm < t
      <4>1. CASE t \notin dir
        BY <1>2, <4>1
      <4>2. CASE t \in dir
        <5>1. compactOut = t /\ t # NoSeg
          BY <1>2, <2>3, <4>2 DEF SegID, NoSeg
        <5> QED
          BY <2>1, <5>1
      <4> QED
        BY <4>1, <4>2
    <3> QED
      BY <2>1, <2>3, <3>1
  <2> QED
    BY <2>2, <2>3
<1> QED
  BY <1>9, <1>10 DEF SnapInv

\* Close writes what is in memory, and flushes all it leads to.
LEMMA SavedIsFlushed ==
    ASSUME OnInv, FlushedBound', DFinishClose
    PROVE  SnapFlushed' \/ snap' = snap
<1>1. /\ IInv /\ TypeOK /\ LocsSound /\ SegsOnDisk /\ EntriesKnown /\ FlushedBound
      /\ UNCHANGED <<dir, file, segments>> /\ flushed' = FsyncAll(segments)
      /\ proc \in {"open", "closing"}
  BY DEF OnInv, IInv, RInv, DFinishClose, FinishClose, Flush, Stopped, mem
<1>2. SUFFICES ASSUME snap' = SnapshotOfIndex PROVE SnapFlushed'
  BY DEF DFinishClose, FinishClose
<1>3. /\ snap'.idx = idx /\ snap'.wm = active /\ snap'.at = Len(file[active].recs)
      /\ active \in segments /\ active \in SegID /\ segments \subseteq SegID
  BY <1>1, <1>2 DEF SnapshotOfIndex, SegsOnDisk, TypeOK
<1>4. \A i \in segments : flushed'[i] = Len(file[i].recs) /\ Len(file[i].recs) \in Nat
  <2>1. \A i \in SegID : file[i].recs \in Seq(Record)
    BY <1>1 DEF TypeOK
  <2>2. \A i \in SegID : Len(file[i].recs) \in Nat
    BY <2>1
  <2> QED
    BY <1>1, <1>3, <2>2 DEF FsyncAll
<1>5. ASSUME NEW k \in Key, idx[k].seg \in dir
      PROVE  idx[k].pos <= flushed'[idx[k].seg]
  <2>1. PICK i \in SegID : i = idx[k].seg /\ i \in segments
    BY <1>1, <1>5 DEF EntriesKnown, TypeOK
  <2>2. idx[k].pos \in DOMAIN file[i].recs /\ file[i].recs \in Seq(Record)
    BY <1>1, <1>5, <2>1 DEF LocsSound, Sound, TypeOK
  <2>3. idx[k].pos \in 1 .. Len(file[i].recs)
    BY <2>2
  <2>4. flushed'[i] = Len(file[i].recs) /\ Len(file[i].recs) \in Nat
    BY <1>4, <2>1
  <2> QED
    BY <2>1, <2>3, <2>4
<1>6. snap'.at <= flushed'[snap'.wm]
  <2>1. flushed'[active] = Len(file[active].recs) /\ Len(file[active].recs) \in Nat
    BY <1>3, <1>4
  <2> QED
    BY <1>3, <2>1
<1>7. ASSUME NEW i \in dir
      PROVE  flushed'[i] = Len(file[i].recs) \/ \A k \in Key : idx[k].seg # i
  BY <1>1, <1>4, <1>7 DEF EntriesKnown
<1> QED
  BY <1>1, <1>3, <1>5, <1>6, <1>7 DEF SnapFlushed

LEMMA OpenSnap ==
    ASSUME OnInv, OnInv', SnapInv, DOpen
    PROVE  SnapInv'
<1>1. /\ IInv /\ IInv' /\ RInv /\ TypeOK /\ IdsBelow /\ FlushedBound /\ FlushedBound' /\ GoneIsEmpty
      /\ LostPlaces /\ TailsTyped /\ Whole /\ SizesAddUp /\ SnapFlushed
  BY OnIsSound DEF OnInv, IInv, RInv, CutInv, SnapInv
<1>2. Open
  BY <1>1, WholeOpen
<1>3. \A i \in SegID : flushed'[i] = flushed[i]
  BY <1>1, WholeOpen DEF FlushedBound
<1>4. /\ dir \subseteq dir' /\ (dir # {} => dir' = dir) /\ dir' \subseteq SegID
      /\ active' \in dir' /\ active' \in SegID
      /\ snap' = snap /\ compactOut' = NoSeg /\ proc' = "open"
  BY <1>1, OpenFiles DEF DOpen
<1>5. (\A i \in dir' : i <= active') /\ \A i \in SegID : file'[i].recs = file[i].recs
  BY <1>1, <1>2, OpenFiles, OpenKeepsRecords
<1>6. UseSnapshot' => UseSnapshot
  BY <1>1, <1>4, WatermarkStaysGone
<1>7. \A k \in Key : snap.idx[k].seg \in dir' => snap.idx[k].seg \in dir
  BY <1>1, <1>4 DEF IdsBelow
<1>8. \A i \in dir' \cap dir : flushed[i] <= flushed'[i]
  BY <1>1, <1>3, <1>4 DEF FlushedBound
<1>9. UseSnapshot => \A i \in dir' : i < snap.wm =>
          i \in dir /\ (flushed[i] = Len(file[i].recs) => flushed'[i] = Len(file'[i].recs))
  BY <1>3, <1>4, <1>5 DEF UseSnapshot
<1>10. SnapFlushed'
  BY <1>1, <1>4, <1>6, <1>7, <1>8, <1>9, FlushedStays DEF FlushedBound
<1>11. AppendsAbove'
  BY <1>4, <1>5 DEF AppendsAbove, UseSnapshot
<1> QED
  BY <1>10, <1>11 DEF SnapInv

\* Once the segments are unmapped, the compactor finds no live record in any.
LEMMA RelocatesWhileOpen ==
    ASSUME IInv, AppendsAbove, NEW c \in Compactor, Relocate(c)
    PROVE  proc \in {"open", "closing"} /\ Scanned(c) \in Record
<1>1. /\ JobSound(c) /\ TypeOK /\ DroppedUnused /\ Scanning(c) /\ IsLive(c)
  BY DEF IInv, Relocate
<1>2. /\ proc # "down" /\ job[c].src \in SegID /\ job[c].src \in mapped
      /\ job[c].pos \in DOMAIN file[job[c].src].recs
  BY <1>1 DEF JobSound, Scanning
<1>3. Scanned(c) \in Record
  <2>1. file[job[c].src].recs \in Seq(Record)
    BY <1>1, <1>2 DEF TypeOK
  <2> QED
    BY <1>2, <2>1 DEF Scanned, RecordAt, At
<1>4. proc # "closed"
  <2>1. \E k \in Key : idx[k].seg = job[c].src
    <3>1. Scanned(c).key \in Key
      BY <1>3 DEF Record
    <3> QED
      BY <1>1, <3>1 DEF IsLive, At
  <2>2. job[c].src \in segments
    BY <1>1, <1>2, <2>1 DEF DroppedUnused
  <2> QED
    BY <1>2, <2>2 DEF AppendsAbove
<1>5. proc \in {"down", "open", "closing", "closed"}
  BY <1>1 DEF TypeOK
<1> QED
  BY <1>2, <1>3, <1>4, <1>5

LEMMA CompactorSnap ==
    ASSUME OnInv, OnInv', SnapInv, NEW c \in Compactor, DCompactorStep(c), ioErrs' # ioErrs + 1
    PROVE  SnapInv'
<1>1. /\ IInv /\ RInv /\ TypeOK /\ FlushedBound /\ FlushedBound' /\ JobSound(c)
      /\ SnapFlushed /\ AppendsAbove
  BY DEF OnInv, IInv, RInv, SnapInv
<1>2. CASE DRelocate(c)
  <2>1. /\ Relocate(c) /\ AppendRecord(compactOut, Scanned(c)) /\ compactOut' = Target(compactOut, Scanned(c))
        /\ UNCHANGED <<snap, proc, active>> /\ flushed' = flushed
    BY <1>2 DEF DRelocate, Relocate
  <2>2. proc \in {"open", "closing"} /\ Scanned(c) \in Record
    BY <1>1, <2>1, RelocatesWhileOpen
  <2>3. \A i \in SegID : flushed'[i] >= flushed[i]
    BY <1>1, <2>1 DEF FlushedBound
  <2>4. PICK t : t = compactOut'
    OBVIOUS
  <2>5. /\ t = Target(compactOut, Scanned(c)) /\ compactOut \in {active, compactOut}
        /\ compactOut = compactOut /\ compactOut' = t /\ active' = active /\ proc' = proc /\ snap' = snap
    BY <2>1, <2>4
  <2> QED
    BY <1>1, <2>1, <2>2, <2>3, <2>5, AppendSnap
<1>3. CASE DRemove(c)
  <2>1. PICK i \in SegID : i = job[c].src
    BY <1>1, <1>3 DEF DRemove, Remove, JobSound
  <2>2. /\ UNCHANGED <<snap, proc, active, compactOut, segments>> /\ dir' = dir \ {i}
        /\ mapped' \subseteq mapped /\ file' = [file EXCEPT ![i] = NoFile]
        /\ flushed' = [flushed EXCEPT ![i] = 0]
    BY <1>3, <2>1 DEF DRemove, Remove, mem
  <2>3. \A j \in dir' : file'[j].recs = file[j].recs /\ flushed[j] <= flushed'[j]
    <3>1. \A j \in dir' : j \in SegID /\ j # i
      BY <1>1, <2>2 DEF TypeOK
    <3> QED
      BY <1>1, <2>2, <3>1 DEF FlushedBound, TypeOK
  <2>4. SnapFlushed'
    BY <1>1, <2>2, <2>3, QuietFlushed
  <2>5. AppendsAbove'
    BY <1>1, <2>2, QuietAbove
  <2> QED
    BY <2>4, <2>5 DEF SnapInv
<1>4. ASSUME snap' = snap, dir' = dir, \A i \in SegID : file'[i].recs = file[i].recs, flushed' = flushed,
             \/ proc' = "down"
             \/ UNCHANGED <<proc, active, compactOut>> /\ mapped' \subseteq mapped /\ segments' \subseteq segments
      PROVE  SnapInv'
  <2>1. \A i \in dir' : file'[i].recs = file[i].recs /\ flushed[i] <= flushed'[i]
    BY <1>1, <1>4 DEF TypeOK, FlushedBound
  <2>2. SnapFlushed'
    BY <1>1, <1>4, <2>1, QuietFlushed
  <2>3. AppendsAbove'
    BY <1>1, <1>4, QuietAbove
  <2> QED
    BY <2>2, <2>3 DEF SnapInv
<1>5. CASE DRelocateFails(c)
  <2>1. /\ UNCHANGED <<dir, snap, flushed, proc, active, compactOut, mapped, segments>>
        /\ file' = FinalizedFiles(compactOut)
    BY <1>5 DEF DRelocateFails, RelocateFails, CreateFails, dur
  <2>2. \A i \in SegID : file'[i].recs = file[i].recs
    <3>1. file \in [SegID -> File] /\ compactOut \in SegID \cup {NoSeg}
      BY <1>1 DEF TypeOK, File
    <3> QED
      BY <2>1, <3>1, FinalizedKeeps
  <2> QED
    BY <1>4, <2>1, <2>2
<1>6. CASE RemoveSnapshot(c) /\ UNCHANGED <<dur, power, syncs>>
  <2>1. snap' = NoSnap /\ proc' = proc /\ mapped' = mapped /\ segments' = segments
    BY <1>6 DEF RemoveSnapshot, mem
  <2>2. /\ NoSnap.wm = NoSeg /\ (\A k \in Key : NoSnap.idx[k].seg = NoSeg)
        /\ NoSeg \notin dir'
    <3>1. NoSeg \notin SegID /\ dir' = dir /\ dir \subseteq SegID
      BY <1>1, <1>6 DEF RemoveSnapshot, NoSeg, SegID, TypeOK
    <3> QED
      BY <3>1 DEF NoSnap, NoLoc
  <2>3. ~UseSnapshot' /\ \A k \in Key : snap'.idx[k].seg \notin dir'
    BY <2>1, <2>2 DEF UseSnapshot
  <2>4. SnapFlushed' /\ AppendsAbove'
    BY <1>1, <2>1, <2>3 DEF SnapFlushed, AppendsAbove
  <2> QED
    BY <2>4 DEF SnapInv
<1>7. CASE ~DRelocate(c) /\ ~DRemove(c) /\ ~DRelocateFails(c) /\ ~(RemoveSnapshot(c) /\ UNCHANGED <<dur, power, syncs>>)
  <2>1. /\ snap' = snap /\ UNCHANGED <<dir, file, flushed>>
        /\ \/ proc' = "down"
           \/ UNCHANGED <<proc, active, compactOut>> /\ mapped' \subseteq mapped /\ segments' \subseteq segments
    BY <1>7 DEF DCompactorStep, DSkipRecord, ScanStops, StartPass, Pick, Check, BeginScan,
         SkipRecord, ScanUnmapped, Vanish, EndProcess, Drop, RemoveFails, disk, mem, dur
  <2> QED
    BY <1>4, <2>1
<1> QED
  BY <1>2, <1>3, <1>5, <1>6, <1>7

\* While the power stays on and no file operation fails.
LEMMA SnapStep ==
    ASSUME OnInv, OnInv', SnapInv, [DNext]_dvars, ~PowerLoss, ~PowerLossInClose, ioErrs' # ioErrs + 1
    PROVE  SnapInv'
<1>1. /\ IInv /\ RInv /\ TypeOK /\ FlushedBound /\ FlushedBound'
      /\ SnapFlushed /\ AppendsAbove
  BY DEF OnInv, IInv, RInv, SnapInv
<1>2. ASSUME snap' = snap, dir' = dir, \A i \in SegID : file'[i].recs = file[i].recs,
             \A i \in SegID : flushed[i] <= flushed'[i],
             \/ proc' = "down"
             \/ UNCHANGED <<proc, active, compactOut>> /\ mapped' \subseteq mapped /\ segments' \subseteq segments
             \/ proc = "open" /\ proc' = "closing" /\ UNCHANGED <<active, compactOut>>
      PROVE  SnapInv'
  <2>1. \A i \in dir' : file'[i].recs = file[i].recs /\ flushed[i] <= flushed'[i]
    BY <1>1, <1>2 DEF TypeOK
  <2>2. SnapFlushed'
    BY <1>1, <1>2, <2>1, QuietFlushed
  <2>3. AppendsAbove'
    BY <1>1, <1>2, QuietAbove
  <2> QED
    BY <2>2, <2>3 DEF SnapInv
<1>3. flushed' = flushed => \A i \in SegID : flushed[i] <= flushed'[i]
  BY <1>1 DEF FlushedBound
<1>4. ASSUME NEW S, flushed' = FsyncAll(S), UNCHANGED <<dir, file>>
      PROVE  \A i \in SegID : flushed[i] <= flushed'[i]
  BY <1>1, <1>4 DEF FlushedBound, FsyncAll
<1>5. CASE DOpen
  BY <1>5, OpenSnap
<1>6. ASSUME NEW k \in Key, DDelete(k) \/ \E v \in Val : DPut(k, v)
      PROVE  SnapInv'
  <2>1. PICK v \in Val \cup {Absent} : Write(k, v) /\ Acknowledge(k)
    BY <1>6 DEF DDelete, DPut, Put, Delete
  <2> DEFINE r == [key |-> k, val |-> v]
  <2>2. /\ r \in Record /\ AppendRecord(active, r) /\ active' = Target(active, r)
        /\ proc = "open" /\ proc' = proc /\ snap' = snap /\ compactOut' = compactOut
        /\ flushed' \in {flushed, [flushed EXCEPT ![active'] = Len(file'[active'].recs)]}
    BY <2>1 DEF Write, Record, Acknowledge
  <2> HIDE DEF r
  <2>3. PICK t : t = Target(active, r) /\ t = active'
    BY <2>2
  <2>4. flushed' \in {flushed, [flushed EXCEPT ![t] = Len(file'[t].recs)]}
    BY <2>2, <2>3
  <2>5. GoneIsEmpty /\ active \in {active, compactOut}
    BY <1>1 DEF RInv
  <2>6. \A i \in SegID : flushed'[i] >= flushed[i]
    BY <1>1, <2>2, <2>3, <2>4, <2>5, AppendFlushed
  <2> QED
    BY <1>1, <2>2, <2>3, <2>5, <2>6, AppendSnap
<1>7. CASE DWriteFails
  <2>1. /\ UNCHANGED <<dir, snap, flushed, proc, active, compactOut, mapped, segments>>
        /\ file' = FinalizedFiles(active)
    BY <1>7 DEF DWriteFails, WriteFails, CreateFails, mem
  <2>2. \A i \in SegID : file'[i].recs = file[i].recs
    <3>1. file \in [SegID -> File] /\ active \in SegID \cup {NoSeg}
      BY <1>1 DEF TypeOK, File
    <3> QED
      BY <2>1, <3>1, FinalizedKeeps
  <2> QED
    BY <1>2, <1>3, <2>1, <2>2
<1>8. CASE Sync
  <2>1. UNCHANGED <<dir, file, snap, proc, active, compactOut, mapped, segments>>
        /\ flushed' = FsyncAll({active})
    BY <1>8 DEF Sync, vars, disk, mem
  <2> QED
    BY <1>2, <1>4, <2>1
<1>9. CASE UNCHANGED dvars
  <2>1. UNCHANGED <<dir, file, snap, proc, active, compactOut, mapped, segments, flushed>>
    BY <1>9 DEF dvars, vars, disk, mem, dur
  <2> QED
    BY <1>2, <1>3, <2>1
<1>10. ASSUME NEW c \in Compactor, DCompactorStep(c)
       PROVE  SnapInv'
  BY <1>10, CompactorSnap
<1>11. CASE DFinishClose
  <2>1. /\ UNCHANGED <<dir, file, segments>> /\ flushed' = FsyncAll(segments)
        /\ proc' = "closed" /\ mapped' = mapped \ segments
    BY <1>11 DEF DFinishClose, FinishClose, Flush, mem
  <2>2. AppendsAbove'
    BY <2>1 DEF AppendsAbove
  <2>3. \A i \in dir' : file'[i].recs = file[i].recs /\ flushed[i] <= flushed'[i]
    BY <1>1, <1>4, <2>1 DEF TypeOK
  <2>4. SnapFlushed'
    BY <1>1, <1>11, <2>1, <2>3, SavedIsFlushed, QuietFlushed
  <2> QED
    BY <2>2, <2>4 DEF SnapInv
<1>12. CASE DCloseCutShort
  BY <1>12 DEF DCloseCutShort, CloseCutShort
<1>13. CASE (BeginClose \/ SnapshotFails \/ Crash) /\ UNCHANGED <<dur, power, syncs>>
  <2>1. /\ UNCHANGED <<dir, file, snap, flushed>>
        /\ \/ proc' = "down"
           \/ proc = "open" /\ proc' = "closing" /\ UNCHANGED <<active, compactOut>>
    BY <1>13 DEF BeginClose, SnapshotFails, Crash, Vanish, EndProcess, disk, mem, dur
  <2> QED
    BY <1>2, <1>3, <2>1
<1> QED
  BY <1>5, <1>6, <1>7, <1>8, <1>9, <1>10, <1>11, <1>12, <1>13 DEF DNext

-----------------------------------------------------------------------------

\* A failed file operation is not forgotten.
LEMMA ErrorsStay == TypeOK /\ [DNext]_dvars /\ ioErrs' = 0 => ioErrs = 0 /\ ioErrs' # ioErrs + 1
<1> SUFFICES ASSUME TypeOK, [DNext]_dvars, ioErrs' = 0 PROVE ioErrs = 0 /\ ioErrs' # ioErrs + 1
  OBVIOUS
<1>1. ioErrs \in Nat
  BY DEF TypeOK
<1>2. SUFFICES ioErrs' = ioErrs \/ ioErrs' = ioErrs + 1
  BY <1>1
<1>3. ASSUME NEW c \in Compactor, DCompactorStep(c) PROVE ioErrs' = ioErrs \/ ioErrs' = ioErrs + 1
  BY <1>3 DEF DCompactorStep, DSkipRecord, DRelocate, DRelocateFails, ScanStops, DRemove, StartPass, Pick,
         Check, BeginScan, SkipRecord, Relocate, RelocateFails, CreateFails, ScanUnmapped, Vanish, Drop,
         Remove, RemoveFails, RemoveSnapshot, bounds
<1>4. ASSUME NEW k \in Key, DDelete(k) \/ \E v \in Val : DPut(k, v)
      PROVE  ioErrs' = ioErrs \/ ioErrs' = ioErrs + 1
  BY <1>4 DEF DDelete, DPut, Put, Delete, Write
<1>5. CASE DOpen \/ DWriteFails \/ Sync \/ UNCHANGED dvars \/ PowerLoss \/ PowerLossInClose
  BY <1>5 DEF DOpen, DWriteFails, WriteFails, CreateFails, Sync, dvars, vars, bounds, PowerLoss,
              PowerLossInClose, LosePower
<1>6. CASE DFinishClose \/ DCloseCutShort \/ ((BeginClose \/ SnapshotFails \/ Crash) /\ UNCHANGED <<dur, power, syncs>>)
  BY <1>6 DEF DFinishClose, FinishClose, DCloseCutShort, CloseCutShort, BeginClose, SnapshotFails, Crash,
              bounds
<1> QED
  BY <1>3, <1>4, <1>5, <1>6 DEF DNext

\* As long as no file operation has failed.
GarbageInv ==
    ioErrs = 0 => (power = "on" => SnapInv) /\ (power = "cut" => CutInv)

LEMMA GarbageInvStep ==
    LossInv /\ LossInv' /\ PowerTyped /\ GarbageInv /\ [DNext]_dvars => GarbageInv'
<1> SUFFICES ASSUME LossInv, LossInv', PowerTyped, GarbageInv, [DNext]_dvars, ioErrs' = 0
             PROVE  (power' = "on" => SnapInv') /\ (power' = "cut" => CutInv')
  BY DEF GarbageInv
<1>1. ioErrs = 0 /\ ioErrs' # ioErrs + 1
  BY ErrorsStay DEF LossInv, CutBase, BaseInv
<1>2. ASSUME power' = "on" PROVE SnapInv'
  <2>1. power = "on" /\ OnInv /\ OnInv' /\ SnapInv
    BY <1>1, <1>2, PowerStaysOff DEF LossInv, GarbageInv
  <2>2. ~PowerLoss /\ ~PowerLossInClose
    BY <1>2 DEF PowerLoss, PowerLossInClose
  <2> QED
    BY <1>1, <2>1, <2>2, SnapStep
<1>3. ASSUME power' = "cut" PROVE CutInv'
  <2>1. CASE PowerLoss
    <3>1. power = "on"
      BY <2>1 DEF PowerLoss, LosePower
    <3> QED
      BY <1>1, <2>1, <3>1, FlushedNotLost DEF LossInv, GarbageInv, SnapInv
  <2>2. CASE ~PowerLoss
    <3>1. ~PowerLossInClose
      BY <1>3 DEF PowerLossInClose
    <3>2. power = "cut"
      <4>1. ASSUME NEW c \in Compactor, DCompactorStep(c) PROVE power' = power
        BY <4>1 DEF DCompactorStep, DSkipRecord, DRelocate, DRelocateFails, ScanStops, DRemove
      <4> QED
        BY <1>3, <2>2, <3>1, <4>1 DEF DNext, DOpen, DPut, DDelete, DWriteFails, Sync, DFinishClose,
                DCloseCutShort, dvars
    <3> QED
      BY <1>1, <2>2, <3>1, <3>2, CutInvStep DEF LossInv, GarbageInv
  <2> QED
    BY <2>1, <2>2
<1> QED
  BY <1>2, <1>3

LEMMA InitGarbageInv == DInit => GarbageInv
<1> SUFFICES ASSUME DInit PROVE SnapInv /\ power = "on"
  BY DEF GarbageInv
<1>1. dir = {} /\ mapped = {} /\ power = "on"
  BY DEF DInit, Init
<1> QED
  BY <1>1 DEF SnapInv, SnapFlushed, AppendsAbove, UseSnapshot

\* A read returns no garbage, but after a loss of power between the snapshot of a
\* Close and the fsyncs of the segments it names, or after a failed file operation.
THEOREM NoGarbageIsRead == DSpec => []GarbageOnlyFromEarlySnapshot
<1>1. DInit => PowerTyped
  BY DurabilityAssumption DEF DInit, PowerTyped
<1>2. PowerTyped /\ [DNext]_dvars => PowerTyped'
  BY PowerStep
<1>3. DInit => GarbageInv
  BY InitGarbageInv
<1>4. LossInv /\ LossInv' /\ PowerTyped /\ GarbageInv /\ [DNext]_dvars => GarbageInv'
  BY GarbageInvStep
<1>5. LossInv /\ PowerTyped /\ GarbageInv => GarbageOnlyFromEarlySnapshot
  <2> SUFFICES ASSUME LossInv, PowerTyped, GarbageInv, ioErrs = 0, power # "cut closing"
               PROVE  \A k \in Key : Seen[k] # Garbage
    BY DEF GarbageOnlyFromEarlySnapshot
  <2>1. CutInv
    BY OnIsSound DEF LossInv, PowerTyped, GarbageInv
  <2> QED
    BY <2>1, NoGarbage
<1> QED
  BY <1>1, <1>2, <1>3, <1>4, <1>5, LossInvariance, PTL DEF DSpec

-----------------------------------------------------------------------------
(* What the index and the snapshot say after a loss of power. *)

\* A location that leads to no record of k.
Stray(d, f, k, a) ==
    /\ a # NoLoc
    /\ a.seg \notin d \/ a.pos \notin DOMAIN f[a.seg].recs \/ f[a.seg].recs[a.pos].key # k
\* Nothing that can be read is reached from the index: it leads astray, or a scan of the
\* segment ends before.
Lapsed(k) ==
    \/ Stray(dir, file, k, idx[k])
    \/ \E b \in lost : b.seg = idx[k].seg /\ b.pos <= idx[k].pos
\* Where a replay looks that starts where snapshot s ends.
Newer(s, a) == a.seg > s.wm \/ (a.seg = s.wm /\ a.pos > s.at)

\* What the snapshot says of a key that is not replayed is right, or leads astray.
SnapSpared ==
    UseSnapshot => \A k \in Key \ weak :
        Replayed(k) = {} => snap.idx[k] = LatestLoc(k) \/ Stray(dir, file, k, snap.idx[k])
\* So is what the index says; and it is what the snapshot said unless it is newer.
IndexSpared ==
    proc # "down" => \A k \in Key \ weak :
        /\ idx[k] = LatestLoc(k) \/ Stray(dir, file, k, idx[k])
        /\ UseSnapshot => \/ idx[k] = NoLoc \/ idx[k] = snap.idx[k]
                          \/ Newer(snap, idx[k]) /\ ~Stray(dir, file, k, idx[k])
\* While the store is used, nothing lost lies above the active segment or the watermark.
LostBefore ==
    proc # "down" => \A b \in lost : b.seg <= active /\ (UseSnapshot => b.seg <= snap.wm)
RecordsSpared == IdsBelow /\ WatermarkPassed /\ SnapSpared /\ IndexSpared /\ LostBefore

\* What the compactors have left behind, or do not know of, no read needs.
ScanLapses(c) ==
    job[c].src \in mapped => \A k \in Key \ weak : idx[k].seg = job[c].src =>
        /\ job[c].pc = "scan" => idx[k].pos >= job[c].pos \/ Lapsed(k)
        /\ job[c].pc = "drop" => Lapsed(k)
DroppedLapsed == \A i \in mapped \ segments, k \in Key \ weak : idx[k].seg = i => Lapsed(k)
ListedOrLapsed ==
    proc \in {"open", "closing"} =>
        \A k \in Key \ weak : idx[k].seg \in dir => idx[k].seg \in segments \/ Lapsed(k)
ScansSpared == (\A c \in Compactor : ScanLapses(c)) /\ DroppedLapsed /\ ListedOrLapsed

SpareInv == CutBase /\ RecordsSpared /\ ScansSpared

LEMMA SameStrays ==
    ASSUME TypeOK, dir \subseteq dir', dir' \subseteq SegID,
           \A i \in SegID : file'[i].recs = file[i].recs,
           \A i \in dir' \ dir : file[i].recs = <<>>,
           NEW k, NEW a \in Location
    PROVE  Stray(dir', file', k, a) <=> Stray(dir, file, k, a)
<1>1. a = NoLoc \/ (a.seg \in SegID /\ file'[a.seg].recs = file[a.seg].recs)
  BY DEF Location
<1>2. DOMAIN <<>> = {}
  OBVIOUS
<1> QED
  BY <1>1, <1>2 DEF Stray

LEMMA SameLapses ==
    ASSUME TypeOK, dir \subseteq dir', dir' \subseteq SegID,
           \A i \in SegID : file'[i].recs = file[i].recs,
           \A i \in dir' \ dir : file[i].recs = <<>>,
           UNCHANGED <<idx, lost>>, NEW k \in Key
    PROVE  Lapsed(k)' <=> Lapsed(k)
<1>1. idx[k] \in Location
  BY DEF TypeOK
<1>2. Stray(dir', file', k, idx[k]) <=> Stray(dir, file, k, idx[k])
  BY <1>1, SameStrays
<1> QED
  BY <1>2 DEF Lapsed

\* The steps that change no record and no snapshot, and no index unless the process ends.
LEMMA QuietSpared ==
    ASSUME TypeOK, TypeOK', GoneIsEmpty, IdsBelow, WatermarkPassed, SnapSpared,
           dir \subseteq dir', \A i \in SegID : file'[i].recs = file[i].recs,
           \A i \in dir' \ dir : i = nextSegID /\ proc # "down",
           snap' = snap, weak' = weak,
           proc' # "down" => /\ proc # "down" /\ IndexSpared /\ LostBefore
                             /\ segments' \subseteq segments
                             /\ UNCHANGED <<idx, lost, active, compactOut, nextSegID>>
    PROVE  RecordsSpared'
<1>1. /\ dir \subseteq SegID /\ dir' \subseteq SegID /\ nextSegID \in Int
      /\ \A k \in Key : snap.idx[k] \in Location /\ idx[k] \in Location
      /\ \A i \in dir' \ dir : file[i].recs = <<>>
  <2>1. dir \subseteq SegID /\ dir' \subseteq SegID
    BY DEF TypeOK
  <2>2. \A k \in Key : snap.idx[k] \in Location /\ idx[k] \in Location
    BY DEF TypeOK
  <2>3. nextSegID \in Int
    BY DEF TypeOK
  <2> QED
    BY <2>1, <2>2, <2>3 DEF GoneIsEmpty
<1>2. \A k \in Key : RecordsOf(k)' = RecordsOf(k) /\ LatestLoc(k)' = LatestLoc(k)
  BY <1>1, SameRecords
<1>3. \A k \in Key, a \in Location : Stray(dir', file', k, a) <=> Stray(dir, file, k, a)
  BY <1>1, SameStrays
<1>4. UseSnapshot' <=> UseSnapshot
  BY <1>1 DEF UseSnapshot, WatermarkPassed
<1>5. IdsBelow'
  BY <1>1 DEF IdsBelow
<1>6. WatermarkPassed'
  BY <1>1, <1>4 DEF WatermarkPassed, UseSnapshot
<1>7. SnapSpared'
  <2> SUFFICES ASSUME UseSnapshot', NEW k \in Key \ weak', Replayed(k)' = {}
               PROVE  snap'.idx[k] = LatestLoc(k)' \/ Stray(dir', file', k, snap'.idx[k])
    BY DEF SnapSpared
  <2>1. UseSnapshot /\ Replayed(k)' = Replayed(k)
    BY <1>2, <1>4 DEF Replayed
  <2> QED
    BY <1>1, <1>2, <1>3, <2>1 DEF SnapSpared
<1>8. IndexSpared'
  BY <1>1, <1>2, <1>3, <1>4 DEF IndexSpared
<1>9. LostBefore'
  BY <1>4 DEF LostBefore
<1> QED
  BY <1>5, <1>6, <1>7, <1>8, <1>9 DEF RecordsSpared

\* A snapshot of the index, at the end of a Close.
LEMMA SaveSpared ==
    ASSUME TypeOK, TypeOK', SegsOnDisk, IdsBelow, LostBefore, proc # "down",
           snap' = SnapshotOfIndex, UNCHANGED <<dir, file, weak>>,
           \A k \in Key \ weak : idx[k] = LatestLoc(k) \/ Stray(dir, file, k, idx[k]),
           proc' # "down" => UNCHANGED <<idx, lost, segments, active, compactOut, nextSegID>>
    PROVE  RecordsSpared'
<1>1. /\ dir \subseteq SegID /\ nextSegID \in Int /\ active \in dir /\ active < nextSegID
      /\ snap'.wm = active /\ snap'.at = Len(file[active].recs) /\ snap'.idx = idx
      /\ nextSegID - 1 \in dir
  <2>1. dir \subseteq SegID /\ nextSegID \in Int
    BY DEF TypeOK
  <2>2. active \in dir /\ active < nextSegID /\ nextSegID - 1 \in dir
    BY DEF SegsOnDisk, IdsBelow
  <2> QED
    BY <2>1, <2>2 DEF SnapshotOfIndex
<1>2. \A k \in Key : RecordsOf(k)' = RecordsOf(k) /\ LatestLoc(k)' = LatestLoc(k)
  BY SameRecords
<1>3. \A k \in Key : idx[k] \in Location /\ idx[k].seg < nextSegID
  BY DEF TypeOK, IdsBelow
<1>4. IdsBelow'
  <2>1. \A k \in Key : snap'.idx[k].seg \in SegID => \E j \in dir' : snap'.idx[k].seg <= j
    <3> SUFFICES ASSUME NEW k \in Key, idx[k].seg \in SegID PROVE idx[k].seg <= nextSegID - 1
      BY <1>1
    <3> QED
      BY <1>1, <1>3 DEF SegID
  <2> QED
    BY <1>1, <1>3, <2>1 DEF IdsBelow
<1>5. WatermarkPassed'
  <2>1. Len(file[active].recs) \in Nat
    <3>1. file[active].recs \in Seq(Record)
      BY <1>1 DEF TypeOK
    <3> QED
      BY <3>1
  <2>2. active \in Int
    BY <1>1 DEF SegID
  <2> QED
    BY <1>1, <2>1, <2>2 DEF WatermarkPassed
<1>6. SnapSpared'
  BY <1>1, <1>2 DEF SnapSpared
<1>7. IndexSpared'
  BY <1>1, <1>2 DEF IndexSpared
<1>8. LostBefore'
  BY <1>1 DEF LostBefore
<1> QED
  BY <1>4, <1>5, <1>6, <1>7, <1>8 DEF RecordsSpared

LEMMA QuietScans ==
    ASSUME TypeOK, TypeOK', GoneIsEmpty, IdsBelow, ScansSpared, proc # "down",
           dir \subseteq dir', \A i \in SegID : file'[i].recs = file[i].recs,
           \A i \in dir' \ dir : i = nextSegID,
           UNCHANGED <<idx, lost, weak, segments>>, mapped' \subseteq mapped,
           proc' \in {"open", "closing"} => proc \in {"open", "closing"},
           \A d \in Compactor :
               job'[d] = job[d] \/ job'[d].pc \notin {"scan", "drop"} \/ ScanLapses(d)'
    PROVE  ScansSpared'
<1>1. dir' \subseteq SegID /\ \A i \in dir' \ dir : file[i].recs = <<>>
  BY DEF TypeOK, GoneIsEmpty
<1>2. \A k \in Key : Lapsed(k)' <=> Lapsed(k)
  BY <1>1, SameLapses
<1>3. \A d \in Compactor : ScanLapses(d)'
  BY <1>2 DEF ScansSpared, ScanLapses
<1>4. DroppedLapsed'
  BY <1>2 DEF ScansSpared, DroppedLapsed
<1>5. \A k \in Key : idx[k].seg \in dir' => idx[k].seg \in dir
  <2>1. \A k \in Key : idx[k].seg < nextSegID
    BY DEF IdsBelow
  <2>2. nextSegID \in Int
    BY DEF TypeOK
  <2> QED
    BY <2>1, <2>2
<1>6. ListedOrLapsed'
  BY <1>2, <1>5 DEF ScansSpared, ListedOrLapsed
<1> QED
  BY <1>3, <1>4, <1>6 DEF ScansSpared

LEMMA NoScans ==
    ASSUME proc' \notin {"open", "closing"}, mapped' = {}
    PROVE  ScansSpared'
BY DEF ScansSpared, ScanLapses, DroppedLapsed, ListedOrLapsed

LEMMA SpareFacts ==
    ASSUME SpareInv
    PROVE  /\ CutBase /\ BaseInv /\ TypeOK /\ SegsOnDisk /\ GoneIsEmpty
           /\ IdsBelow /\ WatermarkPassed /\ SnapSpared /\ IndexSpared /\ LostBefore /\ ScansSpared
BY DEF SpareInv, RecordsSpared, CutBase, BaseInv

\* One compactor moves on, and its scan, if there is one, is as it should be.
LEMMA JobSpared ==
    ASSUME SpareInv, CutBase', NEW c \in Compactor, proc # "down",
           UNCHANGED <<dir, file, snap, proc, idx, segments, active, compactOut, nextSegID, weak, lost>>,
           mapped' \subseteq mapped, \A d \in Compactor \ {c} : job'[d] = job[d],
           job'[c].pc \notin {"scan", "drop"} \/ ScanLapses(c)'
    PROVE  SpareInv'
<1>1. TypeOK' /\ \A i \in SegID : file'[i].recs = file[i].recs
  BY DEF CutBase, BaseInv
<1>2. RecordsSpared'
  BY <1>1, SpareFacts, QuietSpared
<1>3. ScansSpared'
  BY <1>1, SpareFacts, QuietScans
<1> QED
  BY <1>2, <1>3 DEF SpareInv

LEMMA BusyIsUp ==
    ASSUME SpareInv, NEW c \in Compactor, job[c].pc # "idle"
    PROVE  proc # "down"
BY DEF SpareInv, CutBase, BaseInv, JobBased

LEMMA RestSpared ==
    ASSUME SpareInv, CutBase', NEW c \in Compactor, UNCHANGED lost,
           StartPass(c) \/ Pick(c) \/ Check(c) \/ RemoveFails(c)
    PROVE  SpareInv'
<1>1. /\ UNCHANGED <<dir, file, snap, proc, idx, segments, active, compactOut, nextSegID, weak>>
      /\ mapped' \subseteq mapped /\ proc # "down"
  BY BusyIsUp DEF StartPass, Pick, Check, RemoveFails, mem, disk
<1>2. job \in [Compactor -> Job]
  BY SpareFacts DEF TypeOK, Job, PCs
<1>3. (\A d \in Compactor \ {c} : job'[d] = job[d]) /\ job'[c].pc \notin {"scan", "drop"}
  BY <1>2 DEF StartPass, Pick, Check, RemoveFails, Goto, EndPass, IdleJob, Job
<1> QED
  BY <1>1, <1>3, JobSpared

LEMMA BeginScanSpared ==
    ASSUME SpareInv, CutBase', NEW c \in Compactor, UNCHANGED lost, BeginScan(c)
    PROVE  SpareInv'
<1>1. /\ UNCHANGED <<dir, file, snap, proc, idx, segments, active, compactOut, nextSegID, weak>>
      /\ mapped' = mapped /\ proc # "down" /\ job[c].pc = "begin"
  BY BusyIsUp DEF BeginScan, mem, disk
<1>2. job \in [Compactor -> Job] /\ job[c].src \in SegID /\ \A k \in Key : idx[k] \in Location
  <2>1. job \in [Compactor -> Job]
    BY SpareFacts DEF TypeOK, Job, PCs
  <2>2. \A k \in Key : idx[k] \in Location
    BY SpareFacts DEF TypeOK
  <2>3. job[c].src \in SegID
    BY <1>1, SpareFacts DEF BaseInv, JobBased
  <2> QED
    BY <2>1, <2>2, <2>3
<1>3. /\ \A d \in Compactor \ {c} : job'[d] = job[d]
      /\ job'[c].src = job[c].src
      /\ \/ job'[c].pc = "scan" /\ job'[c].pos = 1
         \/ job'[c].pc = "drop" /\ (job[c].src \notin mapped \/ file[job[c].src].recs = <<>>)
  BY <1>2 DEF BeginScan, Goto, Job
<1>4. ScanLapses(c)'
  <2> SUFFICES ASSUME job[c].src \in mapped, NEW k \in Key, idx[k].seg = job[c].src
               PROVE  /\ job'[c].pc = "scan" => idx[k].pos >= job'[c].pos
                      /\ job'[c].pc = "drop" => Lapsed(k)'
    BY <1>1, <1>3 DEF ScanLapses
  <2>1. idx[k].pos \in Nat \ {0} /\ idx[k] # NoLoc
    BY <1>2 DEF Location, NoLoc, NoSeg, SegID
  <2>2. ASSUME file[job[c].src].recs = <<>>
        PROVE  Lapsed(k)'
    <3>1. DOMAIN file[idx[k].seg].recs = {}
      BY <2>2
    <3> QED
      BY <1>1, <2>1, <3>1 DEF Lapsed, Stray
  <2> QED
    BY <1>3, <2>1, <2>2
<1> QED
  BY <1>1, <1>3, <1>4, JobSpared

\* When the scan goes on, no key whose value is read is left behind it.
LEMMA ScanOnSpares ==
    ASSUME CutBase, NEW c \in Compactor, Scanning(c), ScanOn(c), NEW k \in Key,
           idx[k].seg = job[c].src,
           idx[k].pos >= job[c].pos \/ Lapsed(k), idx[k] = At(c) => Lapsed(k)
    PROVE  /\ job'[c].pc = "scan" => idx[k].pos >= job'[c].pos \/ Lapsed(k)
           /\ job'[c].pc = "drop" => Lapsed(k)
<1>1. /\ job \in [Compactor -> Job] /\ job[c].pos \in DOMAIN file[job[c].src].recs /\ job[c].src \in SegID
      /\ idx[k] \in Location /\ file[job[c].src].recs \in Seq(Record)
  <2>1. TypeOK /\ JobBased(c)
    BY DEF CutBase, BaseInv
  <2>2. job \in [Compactor -> Job]
    BY <2>1 DEF TypeOK, Job, PCs
  <2>3. job[c].pos \in DOMAIN file[job[c].src].recs /\ job[c].src \in SegID
    BY <2>1 DEF JobBased, Scanning
  <2>4. idx[k] \in Location /\ file[job[c].src].recs \in Seq(Record)
    BY <2>1, <2>3 DEF TypeOK
  <2> QED
    BY <2>2, <2>3, <2>4
<1> DEFINE n == Len(file[job[c].src].recs)
<1>2. n \in Nat /\ DOMAIN file[job[c].src].recs = 1 .. n /\ job[c].pos \in 1 .. n
  BY <1>1
<1>3. idx[k] # NoLoc /\ idx[k].pos \in Nat /\ (idx[k].pos = job[c].pos => idx[k] = At(c))
  BY <1>1 DEF Location, NoLoc, NoSeg, SegID, At
<1>4. idx[k].pos > job[c].pos \/ Lapsed(k)
  BY <1>2, <1>3
<1>5. CASE job[c].pos < n
  <2>1. job'[c].pc = "scan" /\ job'[c].pos = job[c].pos + 1
    BY <1>1, <1>2, <1>5 DEF ScanOn, Scanning, Job
  <2> QED
    BY <1>2, <1>3, <1>4, <2>1
<1>6. CASE ~(job[c].pos < n)
  <2>1. job'[c].pc = "drop"
    BY <1>1, <1>6 DEF ScanOn, Goto, Job
  <2>2. idx[k].pos > job[c].pos => idx[k].pos \notin DOMAIN file[idx[k].seg].recs
    BY <1>2, <1>3, <1>6
  <2> QED
    BY <1>3, <1>4, <2>1, <2>2 DEF Lapsed, Stray
<1> QED
  BY <1>5, <1>6

LEMMA SkipRecordSpared ==
    ASSUME SpareInv, CutBase', NEW c \in Compactor, UNCHANGED lost, SkipRecord(c)
    PROVE  SpareInv'
<1>1. /\ UNCHANGED <<dir, file, snap, proc, idx, segments, active, compactOut, nextSegID, weak>>
      /\ mapped' = mapped /\ proc # "down" /\ Scanning(c) /\ ScanOn(c)
      /\ IsTombstone(Scanned(c)) \/ ~IsLive(c)
  BY BusyIsUp DEF SkipRecord, mem, disk, Scanning
<1>2. job \in [Compactor -> Job] /\ idx \in [Key -> Location]
  BY SpareFacts DEF TypeOK, Job, PCs
<1>3. (\A d \in Compactor \ {c} : job'[d] = job[d]) /\ job'[c].src = job[c].src
  BY <1>1, <1>2 DEF ScanOn, Goto, Job
<1>4. ASSUME NEW k \in Key \ weak, idx[k] = At(c)
      PROVE  Lapsed(k)
  <2> SUFFICES ASSUME ~Stray(dir, file, k, idx[k])
               PROVE  FALSE
    BY DEF Lapsed
  <2>1. idx[k] # NoLoc
    <3>1. job[c].src \in SegID
      BY <1>1, SpareFacts DEF BaseInv, JobBased, Scanning
    <3> QED
      BY <1>4, <3>1 DEF At, NoLoc, NoSeg, SegID
  <2>2. Scanned(c).key = k
    BY <1>4, <2>1 DEF Stray, Scanned, RecordAt
  <2>3. IsTombstone(RecordAt(idx[k]))
    BY <1>1, <1>4, <2>2 DEF IsLive, Scanned
  <2>4. idx[k] = LatestLoc(k)
    BY <1>1, SpareFacts DEF IndexSpared
  <2> QED
    BY <2>1, <2>3, <2>4 DEF LatestLoc
<1>5. ScanLapses(c)'
  <2> SUFFICES ASSUME job[c].src \in mapped, NEW k \in Key \ weak, idx[k].seg = job[c].src
               PROVE  /\ job'[c].pc = "scan" => idx[k].pos >= job'[c].pos \/ Lapsed(k)
                      /\ job'[c].pc = "drop" => Lapsed(k)
    BY <1>1, <1>3 DEF ScanLapses, Lapsed
  <2>1. idx[k].pos >= job[c].pos \/ Lapsed(k)
    BY <1>1, SpareFacts DEF ScansSpared, ScanLapses, Scanning
  <2> QED
    BY <1>1, <1>4, <2>1, SpareFacts, ScanOnSpares
<1> QED
  BY <1>1, <1>3, <1>5, JobSpared

\* What lies behind the record at which a scan stops lapses with it.
LEMMA ScanStopsSpared ==
    ASSUME SpareInv, CutBase', NEW c \in Compactor, ScanStops(c)
    PROVE  SpareInv'
<1>1. /\ UNCHANGED <<dir, file, snap, proc, idx, segments, active, compactOut, nextSegID, weak, lost>>
      /\ mapped' = mapped /\ proc # "down" /\ Scanning(c) /\ At(c) \in lost /\ Goto(c, "drop")
  BY BusyIsUp DEF ScanStops, mem, disk, dur, Scanning
<1>2. job \in [Compactor -> Job]
  BY SpareFacts DEF TypeOK, Job, PCs
<1>3. /\ \A d \in Compactor \ {c} : job'[d] = job[d]
      /\ job'[c].src = job[c].src /\ job'[c].pc = "drop"
  BY <1>1, <1>2 DEF Goto, Job
<1>4. ScanLapses(c)'
  <2> SUFFICES ASSUME job[c].src \in mapped, NEW k \in Key \ weak, idx[k].seg = job[c].src
               PROVE  Lapsed(k)
    BY <1>1, <1>3 DEF ScanLapses, Lapsed
  <2>1. idx[k].pos >= job[c].pos \/ Lapsed(k)
    BY <1>1, SpareFacts DEF ScansSpared, ScanLapses, Scanning
  <2> QED
    BY <1>1, <2>1 DEF Lapsed, At
<1> QED
  BY <1>1, <1>3, <1>4, JobSpared

\* The process ends.
LEMMA EndsSpared ==
    ASSUME SpareInv, CutBase', EndProcess, UNCHANGED <<dir, file, snap, weak>>
    PROVE  SpareInv'
<1>1. TypeOK' /\ proc' = "down" /\ mapped' = {} /\ \A i \in SegID : file'[i].recs = file[i].recs
  BY DEF CutBase, BaseInv, EndProcess
<1>2. RecordsSpared'
  BY <1>1, SpareFacts, QuietSpared
<1>3. ScansSpared'
  BY <1>1, NoScans
<1> QED
  BY <1>2, <1>3 DEF SpareInv

LEMMA ScanUnmappedSpared ==
    ASSUME SpareInv, CutBase', NEW c \in Compactor, UNCHANGED lost, ScanUnmapped(c)
    PROVE  SpareInv'
<1>1. job[c].pc = "scan" /\ job[c].src \notin mapped /\ proc # "down"
  BY BusyIsUp DEF ScanUnmapped
<1>2. CASE Vanish
  BY <1>2, EndsSpared DEF Vanish, disk
<1>3. CASE Goto(c, "drop") /\ UNCHANGED <<disk, proc, mem, mapped, weak>>
  <2>1. job \in [Compactor -> Job]
    BY SpareFacts DEF TypeOK, Job, PCs
  <2>2. (\A d \in Compactor \ {c} : job'[d] = job[d]) /\ job'[c].src = job[c].src
    BY <1>3, <2>1 DEF Goto, Job
  <2>3. ScanLapses(c)'
    BY <1>1, <1>3, <2>2 DEF ScanLapses
  <2>4. /\ UNCHANGED <<dir, file, snap, proc, idx, segments, active, compactOut, nextSegID, weak>>
        /\ mapped' \subseteq mapped
    BY <1>3 DEF mem, disk
  <2> QED
    BY <1>1, <2>2, <2>3, <2>4, JobSpared
<1> QED
  BY <1>2, <1>3 DEF ScanUnmapped

LEMMA DropSpared ==
    ASSUME SpareInv, CutBase', NEW c \in Compactor, UNCHANGED lost, Drop(c)
    PROVE  SpareInv'
<1>1. /\ UNCHANGED <<dir, file, snap, proc, idx, active, compactOut, nextSegID, weak, mapped>>
      /\ segments' = segments \ {job[c].src} /\ proc # "down" /\ job[c].pc = "drop"
      /\ Goto(c, "remove")
  BY BusyIsUp DEF Drop, disk
<1>2. job \in [Compactor -> Job]
  BY SpareFacts DEF TypeOK, Job, PCs
<1>3. (\A d \in Compactor \ {c} : job'[d] = job[d]) /\ job'[c].pc = "remove"
  BY <1>1, <1>2 DEF Goto, Job
<1>4. TypeOK' /\ \A i \in SegID : file'[i].recs = file[i].recs
  BY <1>1 DEF CutBase, BaseInv
<1>5. RecordsSpared'
  BY <1>1, <1>4, SpareFacts, QuietSpared
<1>6. \A k \in Key : Lapsed(k)' <=> Lapsed(k)
  BY <1>1 DEF Lapsed
<1>7. \A k \in Key \ weak : idx[k].seg = job[c].src /\ job[c].src \in mapped => Lapsed(k)
  BY <1>1, SpareFacts DEF ScansSpared, ScanLapses
<1>8. \A d \in Compactor : ScanLapses(d)'
  BY <1>1, <1>3, <1>6, SpareFacts DEF ScansSpared, ScanLapses
<1>9. DroppedLapsed'
  BY <1>1, <1>6, <1>7, SpareFacts DEF ScansSpared, DroppedLapsed
<1>10. ListedOrLapsed'
  BY <1>1, <1>6, <1>7, SpareFacts DEF ScansSpared, ListedOrLapsed, SegsOnDisk
<1> QED
  BY <1>5, <1>8, <1>9, <1>10 DEF SpareInv, ScansSpared

\* A segment goes that no key of those left to speak of is read from.
LEMMA RemoveSpared ==
    ASSUME SpareInv, CutBase', NEW c \in Compactor, DRemove(c)
    PROVE  SpareInv'
<1> DEFINE i == job[c].src
<1>1. /\ dir' = dir \ {i} /\ file' = [file EXCEPT ![i] = NoFile] /\ weak' = weak \cup Undeleted(i)
      /\ mapped' = mapped \ {i} /\ i \in mapped /\ lost' = { a \in lost : a.seg # i }
      /\ UNCHANGED <<snap, proc, idx, segments, active, compactOut, nextSegID>>
      /\ Goto(c, "unsnap") /\ job[c].pc = "remove"
  BY DEF DRemove, Remove, mem
<1>2. /\ TypeOK /\ TypeOK' /\ SegsOnDisk /\ proc # "down"
      /\ i \in SegID /\ i \notin segments /\ i < nextSegID /\ i \notin {active, compactOut}
  BY <1>1, SpareFacts, BusyIsUp DEF CutBase, BaseInv, JobBased
<1>3. nextSegID \in Int /\ snap.wm \in Int /\ dir \subseteq SegID /\ dir' \subseteq SegID
  <2>1. nextSegID \in Int
    BY <1>2 DEF TypeOK
  <2>2. snap.wm \in Int
    BY <1>2 DEF TypeOK, SegID, NoSeg
  <2>3. dir \subseteq SegID /\ dir' \subseteq SegID
    BY <1>2 DEF TypeOK
  <2> QED
    BY <2>1, <2>2, <2>3
<1>4. \A k \in Key : idx[k] \in Location /\ snap.idx[k] \in Location
  BY <1>2 DEF TypeOK
<1>5. (\A d \in Compactor \ {c} : job'[d] = job[d]) /\ job'[c].pc = "unsnap"
  <2>1. job \in [Compactor -> Job]
    BY <1>2 DEF TypeOK, Job, PCs
  <2> QED
    BY <1>1, <2>1 DEF Goto, Job
<1>6. /\ IdsBelow /\ WatermarkPassed /\ SnapSpared /\ IndexSpared /\ LostBefore
      /\ (\A d \in Compactor : ScanLapses(d)) /\ DroppedLapsed /\ ListedOrLapsed
  BY SpareFacts DEF ScansSpared
<1> HIDE DEF i
<1>7. (\A j \in SegID \ {i} : file'[j] = file[j]) /\ file'[i].recs = <<>>
  BY <1>1, <1>2 DEF TypeOK, NoFile
<1>8. ASSUME NEW k \in Key, NEW a \in Location
      PROVE  /\ a.seg = i => Stray(dir', file', k, a)
             /\ a.seg # i => (Stray(dir', file', k, a) <=> Stray(dir, file, k, a))
  <2>1. a = NoLoc \/ a.seg \in SegID
    BY DEF Location
  <2>2. NoLoc.seg # i
    BY <1>2 DEF NoLoc, NoSeg, SegID
  <2> QED
    BY <1>1, <1>3, <1>7, <2>1, <2>2 DEF Stray
<1>9. ASSUME NEW k \in Key, Lapsed(k)
      PROVE  Lapsed(k)'
  <2>1. idx'[k] = idx[k] /\ idx[k] \in Location
    BY <1>1, <1>4
  <2>2. idx[k].seg = i => Stray(dir', file', k, idx[k])
    BY <1>8, <2>1
  <2>3. Stray(dir, file, k, idx[k]) => Stray(dir', file', k, idx[k])
    BY <1>8, <2>1
  <2> QED
    BY <1>1, <1>9, <2>1, <2>2, <2>3 DEF Lapsed
<1>10. nextSegID - 1 \in dir'
  BY <1>1, <1>2, <1>6 DEF IdsBelow
<1>11. IdsBelow'
  <2>1. \A k \in Key : snap.idx[k].seg \in SegID => snap.idx[k].seg <= nextSegID - 1
    <3> SUFFICES ASSUME NEW k \in Key, snap.idx[k].seg \in SegID
                 PROVE  snap.idx[k].seg <= nextSegID - 1
      OBVIOUS
    <3>1. snap.idx[k].seg < nextSegID
      BY <1>2, <1>6 DEF IdsBelow
    <3> QED
      BY <1>3, <3>1 DEF SegID
  <2>2. nextSegID - 1 \in {active, compactOut}
    BY <1>2, <1>6 DEF IdsBelow
  <2> QED
    BY <1>1, <1>2, <1>6, <1>10, <2>1, <2>2 DEF IdsBelow
<1>12. UseSnapshot' => UseSnapshot /\ snap.wm # i
  BY <1>1 DEF UseSnapshot
<1>13. WatermarkPassed'
  <2>1. snap.wm < nextSegID
    BY <1>2, <1>6 DEF WatermarkPassed
  <2>2. UseSnapshot' => snap.at <= Len(file'[snap.wm].recs)
    BY <1>1, <1>3, <1>6, <1>7, <1>12 DEF WatermarkPassed, UseSnapshot
  <2> QED
    BY <1>1, <1>3, <1>10, <2>1, <2>2 DEF WatermarkPassed
\* What the index says of a key stays right.
<1>14. ASSUME NEW k \in Key \ weak'
       PROVE  idx[k] = LatestLoc(k)' \/ Stray(dir', file', k, idx[k])
  <2> DEFINE S == RecordsOf(k)
             a == LastOf(S)
  <2>1. k \notin weak /\ k \notin Undeleted(i)
    BY <1>1
  <2>2. S # {} => a \in S
    BY <1>2, LastExists
  <2>3. LatestLoc(k) = IF S = {} \/ IsTombstone(RecordAt(a)) THEN NoLoc ELSE a
    BY DEF LatestLoc
  <2>4. /\ S # {} /\ a.seg # i => LatestLoc(k)' = LatestLoc(k)
        /\ (\A d \in S : d.seg # i => IsTombstone(RecordAt(d))) => LatestLoc(k)' = NoLoc
    BY <1>1, <1>2, LeftLatest
  <2> HIDE DEF a
  <2>5. idx[k] \in Location
    BY <1>4
  <2>6. CASE Stray(dir, file, k, idx[k])
    BY <1>8, <2>5, <2>6
  <2>7. CASE idx[k] = LatestLoc(k) /\ (S = {} \/ a.seg # i)
    BY <2>3, <2>4, <2>7
  <2>8. CASE idx[k] = LatestLoc(k) /\ S # {} /\ a.seg = i /\ IsTombstone(RecordAt(a))
    <3>1. \A d \in S : d.seg # i => IsTombstone(RecordAt(d))
      BY <2>1, <2>2, <2>3, <2>8 DEF Undeleted
    <3> QED
      BY <2>3, <2>4, <2>8, <3>1
  <2>9. CASE idx[k] = LatestLoc(k) /\ S # {} /\ a.seg = i /\ ~IsTombstone(RecordAt(a))
    BY <1>8, <2>3, <2>5, <2>9
  <2> QED
    BY <1>2, <1>6, <2>1, <2>6, <2>7, <2>8, <2>9 DEF IndexSpared
\* Above the watermark nothing is lost.
<1>15. ASSUME UseSnapshot', NEW k \in Key \ weak', Newer(snap, idx[k]), ~Stray(dir, file, k, idx[k])
       PROVE  idx[k].seg # i
  <2> SUFFICES ASSUME idx[k].seg = i PROVE FALSE
    OBVIOUS
  <2>1. Lapsed(k)
    BY <1>1, <1>2, <1>6 DEF DroppedLapsed
  <2>2. PICK b \in lost : b.seg = i
    BY <1>15, <2>1 DEF Lapsed
  <2>3. b.seg <= snap.wm
    BY <1>2, <1>6, <1>12, <1>15, <2>2 DEF LostBefore
  <2>4. i \in Int /\ i > snap.wm
    BY <1>2, <1>3, <1>12, <1>15 DEF Newer, SegID
  <2> QED
    BY <1>3, <2>2, <2>3, <2>4
<1>16. IndexSpared'
  <2> SUFFICES ASSUME NEW k \in Key \ weak'
               PROVE  /\ idx[k] = LatestLoc(k)' \/ Stray(dir', file', k, idx[k])
                      /\ UseSnapshot' =>
                            \/ idx[k] = NoLoc \/ idx[k] = snap.idx[k]
                            \/ Newer(snap, idx[k]) /\ ~Stray(dir', file', k, idx[k])
    BY <1>1 DEF IndexSpared
  <2>1. ASSUME UseSnapshot', idx[k] # NoLoc, idx[k] # snap.idx[k]
        PROVE  Newer(snap, idx[k]) /\ ~Stray(dir', file', k, idx[k])
    <3>1. Newer(snap, idx[k]) /\ ~Stray(dir, file, k, idx[k])
      BY <1>1, <1>2, <1>6, <1>12, <2>1 DEF IndexSpared
    <3>2. idx[k].seg # i
      BY <1>15, <2>1, <3>1
    <3> QED
      BY <1>4, <1>8, <3>1, <3>2
  <2> QED
    BY <1>14, <2>1
<1>17. SnapSpared'
  <2> SUFFICES ASSUME UseSnapshot', NEW k \in Key \ weak', Replayed(k)' = {},
                      ~Stray(dir', file', k, snap.idx[k])
               PROVE  snap.idx[k] = LatestLoc(k)'
    BY <1>1 DEF SnapSpared
  <2> DEFINE S == RecordsOf(k)
             a == LastOf(S)
  <2>1. k \notin weak /\ k \notin Undeleted(i) /\ UseSnapshot /\ snap.wm # i
    BY <1>1, <1>12
  <2>2. S # {} => a \in S
    BY <1>2, LastExists
  <2>3. LatestLoc(k) = IF S = {} \/ IsTombstone(RecordAt(a)) THEN NoLoc ELSE a
    BY DEF LatestLoc
  <2>4. /\ S # {} /\ a.seg # i => LatestLoc(k)' = LatestLoc(k)
        /\ (\A d \in S : d.seg # i => IsTombstone(RecordAt(d))) => LatestLoc(k)' = NoLoc
    BY <1>1, <1>2, LeftLatest
  <2>5. snap.idx[k].seg # i /\ ~Stray(dir, file, k, snap.idx[k])
    BY <1>4, <1>8
  <2>6. idx[k] = LatestLoc(k) \/ Stray(dir, file, k, idx[k])
    BY <1>2, <1>6, <2>1 DEF IndexSpared
  <2>7. Stray(dir, file, k, idx[k]) => FALSE
    BY <1>2, <1>6, <2>1, <2>5 DEF IndexSpared, Stray
  <2>8. Replayed(k) # {} => a \in Replayed(k) /\ a.seg = i /\ i > snap.wm
    <3> SUFFICES ASSUME Replayed(k) # {} PROVE a \in Replayed(k) /\ a.seg = i /\ i > snap.wm
      OBVIOUS
    <3>1. a \in Replayed(k)
      <4>1. Replayed(k) \in SUBSET RecordsOf(k)
        BY DEF Replayed
      <4>2. LastOf(Replayed(k)) \in Replayed(k)
        BY <1>2, <4>1, LastExists
      <4> QED
        BY <1>2, <4>2, ReplayedLast
    <3>2. a \in S /\ (a.seg > snap.wm \/ (a.seg = snap.wm /\ a.pos > snap.at))
      BY <2>1, <3>1 DEF Replayed
    <3>3. a \notin RecordsOf(k)'
      <4> HIDE DEF a
      <4>1. a \in RecordsOf(k)' => a \in Replayed(k)'
        BY <1>1, <3>2 DEF Replayed
      <4> QED
        BY <4>1
    <3>4. a.seg = i
      BY <1>1, <1>2, <3>2, <3>3, LeftRecords
    <3> QED
      BY <2>1, <3>1, <3>2, <3>4
  <2> HIDE DEF a
  <2>9. CASE S = {} \/ a.seg # i
    <3>1. Replayed(k) = {} /\ snap.idx[k] = LatestLoc(k)
      <4>1. Replayed(k) = {}
        BY <2>8, <2>9 DEF Replayed
      <4> QED
        BY <1>6, <2>1, <2>5, <4>1 DEF SnapSpared
    <3> QED
      BY <2>3, <2>4, <2>9, <3>1
  <2>10. CASE S # {} /\ a.seg = i /\ IsTombstone(RecordAt(a))
    <3>1. idx[k] = NoLoc
      BY <2>3, <2>6, <2>7, <2>10
    <3>2. snap.idx[k] = NoLoc /\ \A d \in S : d.seg # i => IsTombstone(RecordAt(d))
      BY <2>1, <2>2, <2>10, <3>1 DEF Undeleted
    <3> QED
      BY <2>4, <3>2
  <2>11. CASE S # {} /\ a.seg = i /\ ~IsTombstone(RecordAt(a))
    <3>1. idx[k] = a /\ LatestLoc(k) = a
      BY <2>3, <2>6, <2>7, <2>11
    <3>2. Replayed(k) # {}
      BY <1>6, <2>1, <2>5, <2>11, <3>1 DEF SnapSpared
    <3>3. Newer(snap, idx[k])
      BY <2>8, <2>11, <3>1, <3>2 DEF Newer
    <3> QED
      BY <1>15, <2>7, <2>11, <3>1, <3>3
  <2> QED
    BY <2>9, <2>10, <2>11
<1>18. LostBefore'
  BY <1>1, <1>6, <1>12 DEF LostBefore
<1>19. ScansSpared'
  <2>1. weak \subseteq weak'
    BY <1>1
  <2>2. \A d \in Compactor : ScanLapses(d)'
    BY <1>1, <1>5, <1>6, <1>9, <2>1 DEF ScanLapses
  <2>3. DroppedLapsed'
    BY <1>1, <1>6, <1>9, <2>1 DEF DroppedLapsed
  <2>4. ListedOrLapsed'
    BY <1>1, <1>6, <1>9, <2>1 DEF ListedOrLapsed
  <2> QED
    BY <2>2, <2>3, <2>4 DEF ScansSpared
<1> QED
  BY <1>11, <1>13, <1>16, <1>17, <1>18, <1>19 DEF SpareInv, RecordsSpared

LEMMA RemoveSnapshotSpared ==
    ASSUME SpareInv, CutBase', NEW c \in Compactor, UNCHANGED lost, RemoveSnapshot(c)
    PROVE  SpareInv'
<1>1. /\ UNCHANGED <<dir, file, proc, idx, segments, active, compactOut, nextSegID, weak>>
      /\ mapped' = mapped /\ proc # "down" /\ snap' \in {snap, NoSnap}
      /\ job' = [job EXCEPT ![c] = [IdleJob EXCEPT !.pc = "pick"]]
  BY BusyIsUp DEF RemoveSnapshot, mem
<1>2. (\A d \in Compactor \ {c} : job'[d] = job[d]) /\ job'[c].pc \notin {"scan", "drop"}
  <2>1. job \in [Compactor -> Job]
    BY SpareFacts DEF TypeOK, Job, PCs
  <2> QED
    BY <1>1, <2>1 DEF IdleJob
<1>3. CASE snap' = snap
  BY <1>1, <1>2, <1>3, JobSpared
<1>4. CASE snap' = NoSnap
  <2>1. /\ TypeOK /\ TypeOK' /\ nextSegID \in Nat /\ dir \subseteq SegID
        /\ \A i \in SegID : file'[i].recs = file[i].recs
    <3>1. TypeOK /\ TypeOK'
      BY SpareFacts DEF CutBase, BaseInv
    <3>2. nextSegID \in Nat
      BY <3>1 DEF TypeOK
    <3>3. dir \subseteq SegID
      BY <3>1 DEF TypeOK
    <3> QED
      BY <1>1, <3>1, <3>2, <3>3
  <2>2. NoSeg \notin dir /\ NoSeg < nextSegID /\ NoSnap.wm = NoSeg /\ ~UseSnapshot'
    BY <1>1, <1>4, <2>1, NoSnapShape DEF UseSnapshot, NoSnap, NoSeg
  <2>3. IdsBelow'
    BY <1>1, <1>4, <2>2, NoSnapShape, SpareFacts DEF IdsBelow
  <2>4. WatermarkPassed' /\ SnapSpared' /\ LostBefore'
    BY <1>1, <1>4, <2>2, SpareFacts DEF WatermarkPassed, SnapSpared, LostBefore
  <2>5. IndexSpared'
    <3>1. \A k \in Key : LatestLoc(k)' = LatestLoc(k)
      BY <2>1, <1>1, SameRecords
    <3> QED
      BY <1>1, <2>2, <3>1, SpareFacts DEF IndexSpared
  <2>6. ScansSpared'
    BY <1>1, <1>2, <2>1, SpareFacts, QuietScans
  <2> QED
    BY <2>3, <2>4, <2>5, <2>6 DEF SpareInv, RecordsSpared
<1> QED
  BY <1>1, <1>3, <1>4

\* A segment that cannot be made: at most an empty file is left.
LEMMA CreateFailsSpared ==
    ASSUME SpareInv, CutBase', NEW cur \in SegID \cup {NoSeg}, CreateFails(cur), proc # "down",
           UNCHANGED <<snap, proc, idx, segments, mapped, active, compactOut, nextSegID, weak, lost>>,
           \A d \in Compactor : job'[d] = job[d] \/ job'[d].pc = "idle"
    PROVE  SpareInv'
<1>1. dir \subseteq dir' /\ \A i \in SegID : file'[i].recs = file[i].recs
  BY SpareFacts, CreateFailsBase
<1>2. \A i \in dir' \ dir : i = nextSegID
  BY DEF CreateFails
<1>3. TypeOK'
  BY DEF CutBase, BaseInv
<1>4. RecordsSpared'
  BY <1>1, <1>2, <1>3, SpareFacts, QuietSpared
<1>5. ScansSpared'
  BY <1>1, <1>2, <1>3, SpareFacts, QuietScans
<1> QED
  BY <1>4, <1>5 DEF SpareInv

LEMMA WriteFailsSpared ==
    ASSUME SpareInv, CutBase', DWriteFails
    PROVE  SpareInv'
<1>1. /\ CreateFails(active) /\ proc # "down" /\ job' = job
      /\ UNCHANGED <<snap, proc, idx, segments, mapped, active, compactOut, nextSegID, weak, lost>>
  BY DEF DWriteFails, WriteFails, mem
<1>2. active \in SegID \cup {NoSeg}
  BY SpareFacts DEF TypeOK
<1> QED
  BY <1>1, <1>2, CreateFailsSpared

LEMMA RelocateFailsSpared ==
    ASSUME SpareInv, CutBase', NEW c \in Compactor, DRelocateFails(c)
    PROVE  SpareInv'
<1>1. /\ CreateFails(compactOut) /\ proc # "down" /\ EndPass(c, TRUE)
      /\ UNCHANGED <<snap, proc, idx, segments, mapped, active, compactOut, nextSegID, weak, lost>>
  BY BusyIsUp DEF DRelocateFails, RelocateFails, Scanning, dur
<1>2. compactOut \in SegID \cup {NoSeg} /\ \A d \in Compactor : job'[d] = job[d] \/ job'[d].pc = "idle"
  <2>1. TypeOK
    BY SpareFacts
  <2>2. compactOut \in SegID \cup {NoSeg}
    BY <2>1 DEF TypeOK
  <2> QED
    BY <1>1, <2>1, <2>2, EndPassJob
<1> QED
  BY <1>1, <1>2, CreateFailsSpared

\* The steps of a Close, a crash, and a Sync.
LEMMA CloseSpared ==
    ASSUME SpareInv, CutBase', UNCHANGED lost, BeginClose \/ SnapshotFails \/ FinishClose \/ CloseCutShort
    PROVE  SpareInv'
<1>1. /\ UNCHANGED <<dir, file, idx, segments, active, compactOut, nextSegID, job, weak>>
      /\ mapped' \subseteq mapped /\ proc # "down" /\ proc' # "down" /\ snap' \in {snap, SnapshotOfIndex}
      /\ proc' \in {"open", "closing"} => proc \in {"open", "closing"}
  BY DEF BeginClose, SnapshotFails, FinishClose, CloseCutShort, Stopped, mem, disk
<1>2. TypeOK' /\ \A i \in SegID : file'[i].recs = file[i].recs
  BY <1>1 DEF CutBase, BaseInv
<1>3. ScansSpared'
  BY <1>1, <1>2, SpareFacts, QuietScans
<1>4. CASE snap' = snap
  <2>1. RecordsSpared'
    BY <1>1, <1>2, <1>4, SpareFacts, QuietSpared
  <2> QED
    BY <1>3, <2>1 DEF SpareInv
<1>5. CASE snap' = SnapshotOfIndex
  <2>1. \A k \in Key \ weak : idx[k] = LatestLoc(k) \/ Stray(dir, file, k, idx[k])
    BY <1>1, SpareFacts DEF IndexSpared
  <2>2. RecordsSpared'
    BY <1>1, <1>2, <1>5, <2>1, SpareFacts, SaveSpared
  <2> QED
    BY <1>3, <2>2 DEF SpareInv
<1> QED
  BY <1>1, <1>4, <1>5

\* The locations an append leads astray, and those it does not.
LEMMA AppendedStrays ==
    ASSUME TypeOK, SegsOnDisk, GoneIsEmpty, proc # "down",
           NEW cur \in {active, compactOut}, NEW r \in Record, AppendRecord(cur, r),
           NEW k \in Key, NEW a \in Location, nextSegID \in Int, a.seg < nextSegID
    PROVE  /\ Stray(dir', file', k, a) => Stray(dir, file, k, a)
           /\ k # r.key => (Stray(dir, file, k, a) => Stray(dir', file', k, a))
<1> DEFINE t == Target(cur, r)
<1>1. /\ t \in SegID /\ dir' = dir \cup {t}
      /\ \A i \in SegID \ {t} : file'[i].recs = file[i].recs
      /\ file'[t].recs = Append(file[t].recs, r)
  BY AppendedRecords
<1>2. t \in dir \/ t = nextSegID
  <2>1. t = cur \/ t = nextSegID
    BY DEF Target
  <2>2. cur \in dir \/ cur = NoSeg
    BY DEF SegsOnDisk
  <2>3. NoSeg \notin SegID
    BY DEF NoSeg, SegID
  <2> QED
    BY <1>1, <2>1, <2>2, <2>3
<1> HIDE DEF t
<1>3. a = NoLoc \/ a.seg \in SegID
  BY DEF Location
<1>4. a # NoLoc => (a.seg \in dir' <=> a.seg \in dir)
  BY <1>1, <1>2
<1>5. CASE a # NoLoc /\ a.seg = t
  <2>1. file[t].recs \in Seq(Record)
    BY <1>1 DEF TypeOK
  <2>2. \A p \in DOMAIN file[t].recs : p \in DOMAIN file'[t].recs /\ file'[t].recs[p] = file[t].recs[p]
    BY <1>1, <2>1
  <2>3. \A p \in DOMAIN file'[t].recs \ DOMAIN file[t].recs : file'[t].recs[p] = r
    BY <1>1, <2>1
  <2> QED
    BY <1>4, <1>5, <2>2, <2>3 DEF Stray
<1>6. CASE a # NoLoc /\ a.seg # t
  BY <1>1, <1>3, <1>4, <1>6 DEF Stray
<1>7. CASE a = NoLoc
  BY <1>7 DEF Stray
<1> QED
  BY <1>5, <1>6, <1>7

\* A write, or the copy a compactor makes: it comes last of its key's records, and
\* the index leads there.
LEMMA AppendSpared ==
    ASSUME SpareInv, CutBase', proc # "down", UNCHANGED <<snap, proc, lost>>,
           NEW cur \in {active, compactOut}, NEW r \in Record, AppendRecord(cur, r),
           NEW t, t = Target(cur, r),
           \/ cur = active /\ active' = t /\ compactOut' = compactOut
           \/ cur = compactOut /\ compactOut' = t /\ active' = active,
           NEW l, l = IF IsTombstone(r) THEN NoLoc ELSE EndOf(t),
           idx' = [idx EXCEPT ![r.key] = l]
    PROVE  /\ RecordsSpared'
           /\ r.key \in Key /\ t \in SegID /\ weak \subseteq weak' /\ mapped' = mapped \cup {t}
           /\ \A k \in Key \ {r.key} : idx'[k] = idx[k] /\ (Lapsed(k) => Lapsed(k)')
           /\ idx'[r.key].seg \in {t, NoSeg}
           /\ \A i \in SegID \ {active, compactOut} : i < nextSegID => i # t
<1>1. /\ TypeOK /\ TypeOK' /\ SegsOnDisk /\ GoneIsEmpty /\ IdsBelow /\ WatermarkPassed
      /\ SnapSpared /\ IndexSpared /\ LostBefore
  BY SpareFacts DEF CutBase, BaseInv
<1>2. /\ t \in SegID /\ dir' = dir \cup {t} /\ file'[t].recs[EndOf(t).pos] = r
      /\ EndOf(t) \in Location /\ EndOf(t).seg = t /\ EndOf(t).pos \in DOMAIN file'[t].recs
      /\ t = cur \/ t = nextSegID
  <2>1. cur \in SegID \cup {NoSeg}
    BY <1>1 DEF TypeOK
  <2>2. dir' = dir \cup {t}
    BY DEF AppendRecord
  <2> QED
    BY <1>1, <2>1, <2>2, AppendRecordKeeps
<1>3. weak \subseteq weak' /\ mapped' = mapped \cup {t} /\ r.key \in Key /\ (Passed(t, r.key) => r.key \in weak')
  <2>1. weak' = IF Passed(t, r.key) THEN weak \cup {r.key} ELSE weak
    BY DEF AppendRecord
  <2> QED
    BY <2>1 DEF AppendRecord, Record
<1>4. l = NoLoc \/ l = EndOf(t)
  OBVIOUS
<1>5. IdsBelow' /\ nextSegID \in Int
  <2>1. cur \in SegID \cup {NoSeg}
    BY <1>1 DEF TypeOK
  <2> QED
    BY <1>1, <1>4, <2>1, AppendIds
<1>6. idx'[r.key] = l /\ \A k \in Key \ {r.key} : idx'[k] = idx[k]
  BY <1>1, <1>3 DEF TypeOK
<1>7. WatermarkPassed' /\ (UseSnapshot' <=> UseSnapshot)
  BY <1>1, AppendedWatermark
<1>8. \A k \in Key : /\ idx[k] \in Location /\ idx[k].seg < nextSegID
                     /\ snap.idx[k] \in Location /\ snap.idx[k].seg < nextSegID
  BY <1>1 DEF TypeOK, IdsBelow
<1>9. \A k \in Key, a \in Location : a.seg < nextSegID =>
          /\ Stray(dir', file', k, a) => Stray(dir, file, k, a)
          /\ k # r.key => (Stray(dir, file, k, a) => Stray(dir', file', k, a))
  BY <1>1, <1>5, AppendedStrays
<1>10. \A k \in Key \ {r.key} : RecordsOf(k)' = RecordsOf(k) /\ LatestLoc(k)' = LatestLoc(k)
  BY <1>1, AppendedLatest
<1>11. ASSUME r.key \notin weak'
       PROVE  /\ idx'[r.key] = LatestLoc(r.key)'
              /\ UseSnapshot =>
                     \/ idx'[r.key] = NoLoc
                     \/ Newer(snap, idx'[r.key]) /\ EndOf(t) \in Replayed(r.key)'
              /\ ~Stray(dir', file', r.key, idx'[r.key]) /\ (UseSnapshot => Replayed(r.key)' # {})
  <2>1. ~Passed(t, r.key)
    BY <1>3, <1>11
  <2>2. LatestLoc(r.key)' = l
    BY <1>1, <2>1, AppendedLatest
  <2>3. ASSUME UseSnapshot
        PROVE  Newer(snap, EndOf(t)) /\ EndOf(t) \in Replayed(r.key)'
    <3>1. snap.at <= Len(file[snap.wm].recs)
      BY <1>1, <2>3 DEF WatermarkPassed
    <3>2. /\ EndOf(t).seg > snap.wm \/ (EndOf(t).seg = snap.wm /\ EndOf(t).pos > snap.at)
          /\ EndOf(t) \in Replayed(r.key)'
      BY <1>1, <2>1, <2>3, <3>1, AppendedReplayed
    <3> QED
      BY <3>2 DEF Newer
  <2>4. ~Stray(dir', file', r.key, l)
    BY <1>2, <1>4 DEF Stray
  <2> QED
    BY <1>4, <1>6, <2>2, <2>3, <2>4
<1>12. IndexSpared'
  <2> SUFFICES ASSUME NEW k \in Key \ weak'
               PROVE  /\ idx'[k] = LatestLoc(k)' \/ Stray(dir', file', k, idx'[k])
                      /\ UseSnapshot' =>
                            \/ idx'[k] = NoLoc \/ idx'[k] = snap'.idx[k]
                            \/ Newer(snap', idx'[k]) /\ ~Stray(dir', file', k, idx'[k])
    BY DEF IndexSpared
  <2>1. CASE k = r.key
    BY <1>7, <1>11, <2>1
  <2>2. CASE k # r.key
    BY <1>1, <1>3, <1>6, <1>7, <1>8, <1>9, <1>10, <2>2 DEF IndexSpared
  <2> QED
    BY <2>1, <2>2
<1>13. SnapSpared'
  <2> SUFFICES ASSUME UseSnapshot', NEW k \in Key \ weak', Replayed(k)' = {}
               PROVE  snap'.idx[k] = LatestLoc(k)' \/ Stray(dir', file', k, snap'.idx[k])
    BY DEF SnapSpared
  <2>1. k # r.key
    BY <1>7, <1>11
  <2>2. Replayed(k) = {}
    BY <1>7, <1>10, <2>1 DEF Replayed
  <2> QED
    BY <1>1, <1>3, <1>7, <1>8, <1>9, <1>10, <2>1, <2>2 DEF SnapSpared
<1>14. LostBefore'
  <2>1. active \in Int /\ active < nextSegID /\ active' \in {active, nextSegID}
    <3>1. active \in Int
      BY <1>1 DEF TypeOK, SegID, NoSeg
    <3> QED
      BY <1>1, <1>2, <3>1 DEF IdsBelow
  <2>2. \A b \in lost : b.seg \in Int
    BY SpareFacts DEF CutBase, LostPlaces, Place, SegID
  <2> QED
    BY <1>1, <1>5, <1>7, <2>1, <2>2 DEF LostBefore
<1>15. \A k \in Key \ {r.key} : Lapsed(k) => Lapsed(k)'
  BY <1>6, <1>8, <1>9 DEF Lapsed
<1>16. \A i \in SegID \ {active, compactOut} : i < nextSegID => i # t
  BY <1>2, <1>5
<1>17. idx'[r.key].seg \in {t, NoSeg}
  BY <1>2, <1>4, <1>6 DEF NoLoc
<1> QED
  BY <1>2, <1>3, <1>5, <1>6, <1>7, <1>12, <1>13, <1>14, <1>15, <1>16, <1>17 DEF RecordsSpared

LEMMA AppendedScans ==
    ASSUME SpareInv, proc' = proc, RecordsSpared', CutBase', NEW key \in Key, NEW t \in SegID,
           mapped' = mapped \cup {t}, segments' = segments \cup {t}, dir' = dir \cup {t}, weak \subseteq weak',
           \A k \in Key \ {key} : idx'[k] = idx[k] /\ (Lapsed(k) => Lapsed(k)'),
           idx'[key].seg \in {t, NoSeg},
           \A i \in SegID \ {active, compactOut} : i < nextSegID => i # t,
           \A d \in Compactor : job'[d] = job[d] \/ ScanLapses(d)'
    PROVE  SpareInv'
<1>1. /\ (\A d \in Compactor : ScanLapses(d) /\ JobBased(d)) /\ DroppedLapsed /\ ListedOrLapsed
      /\ TypeOK /\ mapped \subseteq SegID /\ dir \subseteq SegID /\ NoSeg \notin SegID
  <2>1. TypeOK
    BY SpareFacts
  <2>2. mapped \subseteq SegID /\ dir \subseteq SegID
    BY <2>1 DEF TypeOK
  <2>3. NoSeg \notin SegID
    BY DEF NoSeg, SegID
  <2> QED
    BY <2>1, <2>2, <2>3, SpareFacts DEF ScansSpared, BaseInv
<1>2. ASSUME NEW d \in Compactor, job'[d] = job[d]
      PROVE  ScanLapses(d)'
  <2> SUFFICES ASSUME job[d].src \in mapped', job[d].pc \in {"scan", "drop"},
                      NEW k \in Key \ weak', idx'[k].seg = job[d].src
               PROVE  /\ job[d].pc = "scan" => idx'[k].pos >= job[d].pos \/ Lapsed(k)'
                      /\ job[d].pc = "drop" => Lapsed(k)'
    BY <1>2 DEF ScanLapses
  <2>1. job[d].src \in SegID \ {active, compactOut} /\ job[d].src < nextSegID
    BY <1>1 DEF JobBased
  <2>2. job[d].src # t /\ job[d].src \in mapped /\ k # key
    BY <1>1, <2>1
  <2>3. idx'[k] = idx[k] /\ (Lapsed(k) => Lapsed(k)')
    BY <2>2
  <2> QED
    BY <1>1, <2>2, <2>3 DEF ScanLapses
<1>3. DroppedLapsed'
  <2> SUFFICES ASSUME NEW i \in mapped' \ segments', NEW k \in Key \ weak', idx'[k].seg = i
               PROVE  Lapsed(k)'
    BY DEF DroppedLapsed
  <2>1. i \in mapped \ segments /\ k # key
    BY <1>1
  <2> QED
    BY <1>1, <2>1 DEF DroppedLapsed
<1>4. ListedOrLapsed'
  <2> SUFFICES ASSUME proc \in {"open", "closing"}, NEW k \in Key \ weak', idx'[k].seg \in dir'
               PROVE  idx'[k].seg \in segments' \/ Lapsed(k)'
    BY DEF ListedOrLapsed
  <2>1. CASE k = key
    BY <1>1, <2>1
  <2>2. CASE k # key
    BY <1>1, <2>2 DEF ListedOrLapsed
  <2> QED
    BY <2>1, <2>2
<1> QED
  BY <1>2, <1>3, <1>4 DEF SpareInv, ScansSpared

LEMMA WriteSpared ==
    ASSUME SpareInv, CutBase', UNCHANGED lost, NEW k \in Key, NEW v \in Val \cup {Absent}, Write(k, v),
           idx' = [idx EXCEPT ![k] = IF v = Absent THEN NoLoc ELSE EndOf(active')]
    PROVE  SpareInv'
<1> DEFINE r == [key |-> k, val |-> v]
           t == Target(active, r)
<1>1. /\ AppendRecord(active, r) /\ active' = t /\ compactOut' = compactOut /\ proc = "open"
      /\ UNCHANGED <<snap, proc, lost, job>>
  BY DEF Write
<1>2. r \in Record /\ r.key = k /\ (IsTombstone(r) <=> v = Absent)
  BY DEF Record, IsTombstone
<1>3. /\ dir' = dir \cup {t} /\ segments' = segments \cup {t}
  BY <1>1 DEF AppendRecord
<1>4. idx' = [idx EXCEPT ![r.key] = IF IsTombstone(r) THEN NoLoc ELSE EndOf(t)]
  BY <1>1, <1>2
<1> HIDE DEF r, t
<1>5. t = Target(active, r)
  BY DEF t
<1>6. /\ RecordsSpared' /\ r.key \in Key /\ t \in SegID /\ weak \subseteq weak' /\ mapped' = mapped \cup {t}
      /\ \A j \in Key \ {r.key} : idx'[j] = idx[j] /\ (Lapsed(j) => Lapsed(j)')
      /\ idx'[r.key].seg \in {t, NoSeg}
      /\ \A i \in SegID \ {active, compactOut} : i < nextSegID => i # t
  BY <1>1, <1>2, <1>4, <1>5, AppendSpared
<1> QED
  BY <1>1, <1>3, <1>6, AppendedScans

LEMMA RelocateSpared ==
    ASSUME SpareInv, CutBase', NEW c \in Compactor, DRelocate(c)
    PROVE  SpareInv'
<1> DEFINE r == Scanned(c)
           t == Target(compactOut, r)
<1>1. /\ AppendRecord(compactOut, r) /\ compactOut' = t /\ active' = active /\ proc # "down"
      /\ UNCHANGED <<snap, proc, lost>> /\ Scanning(c) /\ ScanOn(c) /\ ~IsTombstone(r)
      /\ idx' = [idx EXCEPT ![r.key] = EndOf(compactOut')]
  BY BusyIsUp DEF DRelocate, Relocate, Scanning
<1>2. /\ job \in [Compactor -> Job] /\ job[c].src \in SegID \ {active, compactOut} /\ job[c].src < nextSegID
      /\ job[c].pos \in DOMAIN file[job[c].src].recs /\ r \in Record /\ NoSeg \notin SegID
  <2>1. TypeOK
    BY SpareFacts
  <2>2. job \in [Compactor -> Job]
    BY <2>1 DEF TypeOK, Job, PCs
  <2>3. /\ job[c].src \in SegID \ {active, compactOut} /\ job[c].src < nextSegID
        /\ job[c].pos \in DOMAIN file[job[c].src].recs
    BY <1>1, SpareFacts DEF BaseInv, JobBased, Scanning
  <2>4. file[job[c].src].recs \in Seq(Record)
    BY <2>1, <2>3 DEF TypeOK
  <2>5. r \in Record
    BY <2>3, <2>4 DEF Scanned, RecordAt, At
  <2> QED
    BY <2>2, <2>3, <2>5 DEF NoSeg, SegID
<1>3. /\ dir' = dir \cup {t} /\ segments' = segments \cup {t}
  BY <1>1 DEF AppendRecord
<1>4. r = RecordAt(At(c)) /\ At(c).seg = job[c].src /\ At(c).pos = job[c].pos
  BY DEF Scanned, At
<1> HIDE DEF r, t
<1>5. t = Target(compactOut, r)
  BY DEF t
<1>6. /\ RecordsSpared' /\ r.key \in Key /\ t \in SegID /\ weak \subseteq weak' /\ mapped' = mapped \cup {t}
      /\ \A j \in Key \ {r.key} : idx'[j] = idx[j] /\ (Lapsed(j) => Lapsed(j)')
      /\ idx'[r.key].seg \in {t, NoSeg}
      /\ \A i \in SegID \ {active, compactOut} : i < nextSegID => i # t
  BY <1>1, <1>2, <1>5, AppendSpared
<1>7. (\A d \in Compactor \ {c} : job'[d] = job[d]) /\ job'[c].src = job[c].src
  BY <1>1, <1>2 DEF ScanOn, Goto, Job
<1>8. ScanLapses(c)'
  <2> SUFFICES ASSUME NEW k \in Key \ weak', idx'[k].seg = job[c].src
               PROVE  /\ job'[c].pc = "scan" => idx'[k].pos >= job'[c].pos \/ Lapsed(k)'
                      /\ job'[c].pc = "drop" => Lapsed(k)'
    BY <1>7 DEF ScanLapses
  <2>1. k # r.key
    BY <1>2, <1>6
  <2>2. idx'[k] = idx[k] /\ k \notin weak /\ (Lapsed(k) => Lapsed(k)')
    BY <1>6, <2>1
  <2>3. idx[k] = At(c) => Lapsed(k)
    BY <1>2, <1>4, <2>1 DEF Lapsed, Stray, RecordAt, NoLoc
  <2>4. idx[k].pos >= job[c].pos \/ Lapsed(k)
    BY <1>1, <2>2, SpareFacts DEF ScansSpared, ScanLapses, Scanning
  <2>5. /\ job'[c].pc = "scan" => idx[k].pos >= job'[c].pos \/ Lapsed(k)
        /\ job'[c].pc = "drop" => Lapsed(k)
    BY <1>1, <2>2, <2>3, <2>4, SpareFacts, ScanOnSpares
  <2> QED
    BY <2>2, <2>5
<1>9. \A d \in Compactor : job'[d] = job[d] \/ ScanLapses(d)'
  BY <1>7, <1>8
<1> QED
  BY <1>1, <1>3, <1>6, <1>9, AppendedScans

\* What the index leads to is there, and only that.
LEMMA StrayIs ==
    ASSUME TypeOK, NEW k \in Key, NEW a \in Location
    PROVE  Stray(dir, file, k, a) <=> a # NoLoc /\ a \notin RecordsOf(k)
BY RecordsAre DEF Stray, Location, Place

LEMMA StrayIsPrimed ==
    ASSUME TypeOK', NEW k \in Key, NEW a \in Location
    PROVE  Stray(dir', file', k, a) <=> a # NoLoc /\ a \notin RecordsOf(k)'
BY RecordsArePrimed DEF Stray, Location, Place

Recovers ==
    \A k \in Key :
        /\ ~UseSnapshot \/ Replayed(k) # {} => RecoveredLoc(k) = LatestLoc(k)
        /\ Replayed(k) # {} => LastOf(Replayed(k)) \in Replayed(k)

LEMMA RecoversHolds == TypeOK => Recovers
<1>1. \A k \in Key : Replayed(k) \in SUBSET RecordsOf(k)
  BY DEF Replayed
<1> QED
  BY <1>1, RecoversLatest, LastExists DEF Recovers

LEMMA RecoversPrimed == TypeOK' => Recovers'
BY RecoversHolds, PTL

\* The records of a key that recovery reads, or would if it skipped none.
FoundOf(k) ==
    { a \in Place : /\ a.seg \in dir /\ a.pos \in DOMAIN Found(a.seg)
                    /\ Found(a.seg)[a.pos].key = k }

LEMMA FoundShapes ==
    ASSUME TypeOK, LostPlaces, TailsTyped, NEW i \in dir
    PROVE  /\ i \in SegID /\ file[i].recs \in Seq(Record) /\ Found(i) \in Seq(Record)
           /\ Kept(i) \in Nat /\ Kept(i) <= Len(file[i].recs) /\ Len(file[i].recs) \in Nat
           /\ DOMAIN file[i].recs = 1 .. Len(file[i].recs)
           /\ DOMAIN Found(i) = 1 .. Len(Found(i)) /\ Len(Found(i)) = Kept(i) + Len(Revived(i))
           /\ Len(Revived(i)) \in Nat
<1>1. i \in SegID
  BY DEF TypeOK
<1>2. file[i].recs \in Seq(Record)
  BY <1>1 DEF TypeOK
<1>3. Len(file[i].recs) \in Nat /\ DOMAIN file[i].recs = 1 .. Len(file[i].recs)
  BY <1>2
<1>4. Kept(i) \in 0 .. Len(file[i].recs)
  BY <1>1, KeptIs
<1>5. /\ Found(i) \in Seq(Record) /\ Len(Found(i)) = Kept(i) + Len(Revived(i))
      /\ Len(Revived(i)) \in Nat
  BY <1>1, FoundIs
<1> QED
  BY <1>1, <1>2, <1>3, <1>4, <1>5

\* Where recovery finds a key is where it reads it and the snapshot does not reach.
LEMMA FoundPlaces ==
    ASSUME TypeOK, LostPlaces, TailsTyped, NEW k \in Key, NEW found, found = [i \in SegID |-> Found(i)]
    PROVE  PlacesIn(found, k) =
             { a \in FoundOf(k) : UseSnapshot => a.seg > snap.wm \/ (a.seg = snap.wm /\ a.pos > snap.at) }
<1> DEFINE S == PlacesIn(found, k)
<1>1. snap.at \in Nat /\ snap.wm \in Int
  BY DEF TypeOK, SegID, NoSeg
<1>2. ASSUME NEW i \in dir
      PROVE  /\ i \in SegID /\ found[i] = Found(i) /\ DOMAIN Found(i) = 1 .. Len(Found(i))
             /\ Skipped(i) \in Nat /\ Len(Found(i)) \in Nat
  <2>1. Skipped(i) \in Nat
    BY <1>1, FoundShapes DEF Skipped
  <2> QED
    BY <2>1, FoundShapes
<1>3. \A a : a \in S <=> \E i \in dir : \E p \in Skipped(i) + 1 .. Len(found[i]) :
                             found[i][p].key = k /\ a = [seg |-> i, pos |-> p]
  BY DEF PlacesIn
<1> HIDE DEF S
<1>4. ASSUME NEW a
      PROVE  a \in S <=> a \in FoundOf(k) /\ a.pos > Skipped(a.seg)
  <2>1. ASSUME a \in FoundOf(k), a.pos > Skipped(a.seg)
        PROVE  a \in S
    <3>1. a = [seg |-> a.seg, pos |-> a.pos] /\ a.seg \in dir /\ a.pos \in DOMAIN Found(a.seg)
          /\ Found(a.seg)[a.pos].key = k
      BY <2>1 DEF FoundOf, Place
    <3>2. a.pos \in Skipped(a.seg) + 1 .. Len(found[a.seg])
      BY <1>2, <2>1, <3>1
    <3> QED
      BY <1>2, <1>3, <3>1, <3>2
  <2>2. ASSUME a \in S
        PROVE  a \in FoundOf(k) /\ a.pos > Skipped(a.seg)
    <3>1. PICK i \in dir : \E p \in Skipped(i) + 1 .. Len(found[i]) :
                               found[i][p].key = k /\ a = [seg |-> i, pos |-> p]
      BY <1>3, <2>2
    <3>2. PICK p \in Skipped(i) + 1 .. Len(found[i]) : found[i][p].key = k /\ a = [seg |-> i, pos |-> p]
      BY <3>1
    <3>3. p \in Nat \ {0} /\ p > Skipped(i) /\ p \in DOMAIN Found(i)
      BY <1>2
    <3> QED
      BY <1>2, <3>2, <3>3 DEF FoundOf, Place
  <2> QED
    BY <2>1, <2>2
<1>5. ASSUME NEW a \in FoundOf(k)
      PROVE  a.pos > Skipped(a.seg) <=>
               (UseSnapshot => a.seg > snap.wm \/ (a.seg = snap.wm /\ a.pos > snap.at))
  <2>1. a.pos \in Nat \ {0} /\ a.seg \in Int /\ a.seg \in SegID /\ a.seg \in dir /\ a.pos \in DOMAIN Found(a.seg)
    BY DEF FoundOf, Place, SegID
  <2>2. CASE UseSnapshot /\ a.seg < snap.wm
    <3>1. Skipped(a.seg) = Len(Found(a.seg))
      BY <2>1, <2>2, NoneBelowWatermark
    <3>2. a.pos \in 1 .. Len(Found(a.seg)) /\ Len(Found(a.seg)) \in Nat
      BY <1>2, <2>1
    <3> QED
      BY <1>1, <2>1, <2>2, <3>1, <3>2
  <2>3. CASE ~(UseSnapshot /\ a.seg < snap.wm)
    BY <1>1, <2>1, <2>3 DEF Skipped
  <2> QED
    BY <2>2, <2>3
<1>6. S = { a \in FoundOf(k) : UseSnapshot => a.seg > snap.wm \/ (a.seg = snap.wm /\ a.pos > snap.at) }
  BY <1>4, <1>5
<1> QED
  BY <1>6 DEF S

\* What recovery reads and is no record was in a tail, and the records it does not read
\* are cut off.
LEMMA FoundRecords ==
    ASSUME TypeOK, LostPlaces, TailsTyped, NEW k \in Key
    PROVE  /\ \A a \in RecordsOf(k) : a.pos <= Kept(a.seg) \/ k \notin CutOff =>
                  a \in FoundOf(k) /\ Found(a.seg)[a.pos] = RecordAt(a)
           /\ \A a \in FoundOf(k) \ RecordsOf(k) :
                  /\ a.seg \in dir /\ a.pos > Len(file[a.seg].recs) /\ (UseSnapshot => a.seg >= snap.wm)
                  /\ \E n \in DOMAIN tail[a.seg] : tail[a.seg][n].rec.key = k
<1>1. ASSUME NEW a \in RecordsOf(k), a.pos <= Kept(a.seg) \/ k \notin CutOff
      PROVE  a \in FoundOf(k) /\ Found(a.seg)[a.pos] = RecordAt(a)
  <2>1. /\ a \in Place /\ a.seg \in dir /\ a.pos \in DOMAIN file[a.seg].recs
        /\ file[a.seg].recs[a.pos].key = k
    BY RecordsAre
  <2>2. PICK i \in dir : i = a.seg
    BY <2>1
  <2>3. a.pos \in 1 .. Len(file[i].recs) /\ a.pos \in Nat \ {0}
    BY <2>1, <2>2, FoundShapes DEF Place
  <2>4. a.pos \in 1 .. Kept(i)
    <3>1. k \notin CutOff => a.pos \notin Kept(i) + 1 .. Len(file[i].recs)
      BY <2>1, <2>2 DEF CutOff
    <3> QED
      BY <1>1, <2>2, <2>3, <3>1, FoundShapes
  <2>5. a.pos \in DOMAIN Found(i)
    BY <2>4, FoundShapes
  <2>6. Found(i)[a.pos] = file[i].recs[a.pos]
    BY <2>4, FoundIs, FoundShapes
  <2> QED
    BY <2>1, <2>2, <2>5, <2>6 DEF FoundOf, RecordAt
<1>2. ASSUME NEW a \in FoundOf(k), a \notin RecordsOf(k)
      PROVE  /\ a.seg \in dir /\ a.pos > Len(file[a.seg].recs) /\ (UseSnapshot => a.seg >= snap.wm)
             /\ \E n \in DOMAIN tail[a.seg] : tail[a.seg][n].rec.key = k
  <2>1. /\ a \in Place /\ a.seg \in dir /\ a.pos \in DOMAIN Found(a.seg)
        /\ Found(a.seg)[a.pos].key = k
    BY DEF FoundOf
  <2>2. PICK i \in dir : i = a.seg
    BY <2>1
  <2>3. a.pos \in 1 .. Len(Found(i)) /\ a.pos \in Nat
    BY <2>1, <2>2, FoundShapes DEF Place
  <2>4. a.pos > Kept(i)
    <3> SUFFICES ASSUME a.pos <= Kept(i) PROVE FALSE
      BY <2>3, FoundShapes
    <3>1. a.pos \in 1 .. Kept(i) /\ a.pos \in DOMAIN file[i].recs
      BY <2>3, FoundShapes
    <3>2. Found(i)[a.pos] = file[i].recs[a.pos]
      BY <3>1, FoundIs, FoundShapes
    <3> QED
      BY <1>2, <2>1, <2>2, <3>1, <3>2, RecordsAre
  <2>5. PICK n \in 1 .. Len(Revived(i)) : a.pos = Kept(i) + n
    <3>1. a.pos - Kept(i) \in 1 .. Len(Revived(i)) /\ a.pos = Kept(i) + (a.pos - Kept(i))
      BY <2>3, <2>4, FoundShapes
    <3> QED
      BY <3>1
  <2>6. i \in SegID /\ tail[i] \in Seq(Slot)
    BY FoundShapes DEF TailsTyped
  <2>7. Found(i)[a.pos] = Revived(i)[n].rec /\ Revived(i)[n] = tail[i][n] /\ n \in DOMAIN tail[i]
    <3>1. Len(tail[i]) \in Nat /\ Len(Revived(i)) <= Len(tail[i]) /\ DOMAIN tail[i] = 1 .. Len(tail[i])
      BY <2>6, RevivedIs
    <3>2. Found(i)[a.pos] = Revived(i)[n].rec /\ Revived(i)[n] = tail[i][n]
      BY <2>5, <2>6, FoundIs, RevivedIs
    <3>3. n \in 1 .. Len(tail[i])
      BY <3>1, FoundShapes
    <3> QED
      BY <3>1, <3>2, <3>3
  <2>8. Unread(i) = {} /\ ~(UseSnapshot /\ i < snap.wm)
    BY <2>5, <2>6, RevivedIs
  <2>9. Kept(i) = Len(file[i].recs)
    BY <2>6, <2>8, FoundIs
  <2>10. UseSnapshot => i >= snap.wm
    <3>1. snap.wm \in Int /\ i \in Int
      BY <2>6 DEF TypeOK, SegID, NoSeg
    <3> QED
      BY <2>8, <3>1
  <2> QED
    BY <2>1, <2>2, <2>4, <2>7, <2>9, <2>10
<1> QED
  BY <1>1, <1>2

\* Open makes that the records.
LEMMA OpenedRecords ==
    ASSUME TypeOK, TypeOK', LostPlaces, TailsTyped, DOpen, dir # {}, NEW k \in Key
    PROVE  RecordsOf(k)' = FoundOf(k) /\ \A i \in dir : file'[i].recs = Found(i)
<1>1. dir' = dir /\ \A i \in dir : file'[i].recs = Found(i)
  BY OpenedIsFound DEF DOpen
<1>2. \A a : a \in RecordsOf(k)' <=> a \in FoundOf(k)
  BY <1>1, RecordsArePrimed DEF FoundOf
<1> QED
  BY <1>1, <1>2

\* The index that Open builds is what the files it leaves would give again.
LEMMA OpenedLoc ==
    ASSUME TypeOK, TypeOK', LostPlaces, TailsTyped, DOpen, dir # {}, NEW k \in Key
    PROVE  idx'[k] = RecoveredLoc(k)'
<1>1. dir' = dir /\ snap' = snap /\ idx' = FoundIndex
  BY DEF DOpen
<1>2. UseSnapshot' <=> UseSnapshot
  BY <1>1 DEF UseSnapshot
<1>3. PICK found : found = [i \in SegID |-> Found(i)] /\ idx'[k] = LocIn(found, k)
  BY <1>1 DEF FoundIndex
<1>4. PICK S : S = PlacesIn(found, k) /\ S = Replayed(k)'
  BY <1>1, <1>2, <1>3, FoundPlaces, OpenedRecords DEF Replayed
<1>5. \A a \in S : file'[a.seg].recs[a.pos] = found[a.seg][a.pos]
  <2>1. \A a \in S : a.seg \in dir /\ a.seg \in SegID
    BY <1>1, <1>4, RecordsArePrimed DEF Replayed, Place
  <2> QED
    BY <1>3, <2>1, OpenedIsFound
<1>6. LocIn(found, k) = IF S = {} THEN IF UseSnapshot THEN snap.idx[k] ELSE NoLoc
                        ELSE IF IsTombstone(found[LastOf(S).seg][LastOf(S).pos]) THEN NoLoc ELSE LastOf(S)
  BY <1>4 DEF LocIn
<1>7. RecoveredLoc(k)' = IF S = {} THEN IF UseSnapshot THEN snap.idx[k] ELSE NoLoc
                         ELSE IF IsTombstone(file'[LastOf(S).seg].recs[LastOf(S).pos]) THEN NoLoc ELSE LastOf(S)
  BY <1>1, <1>2, <1>4 DEF RecoveredLoc, RecordAt, IsTombstone
<1>8. S # {} => LastOf(S) \in S
  BY <1>4, RecoversPrimed DEF Recovers
<1> QED
  BY <1>3, <1>5, <1>6, <1>7, <1>8 DEF IsTombstone

\* What Open makes of an empty directory.
LEMMA OpenAnewSpared ==
    ASSUME SpareInv, CutBase', DOpen, dir = {}
    PROVE  RecordsSpared'
<1>1. /\ dir' = {0} /\ file' = [file EXCEPT ![0] = NewFile] /\ idx' = [k \in Key |-> NoLoc] /\ snap' = snap
  BY DEF DOpen
<1>2. TypeOK /\ TypeOK' /\ LostPlaces /\ TailsTyped /\ GoneIsEmpty /\ IdsBelow /\ WatermarkPassed
  BY SpareFacts DEF CutBase, BaseInv
<1>3. lost = {} /\ lost' = {} /\ snap.wm = NoSeg /\ ~UseSnapshot'
  <2>1. lost = {}
    BY <1>2 DEF LostPlaces
  <2>2. snap.wm = NoSeg
    BY <1>2 DEF WatermarkPassed
  <2>3. NoSeg # 0
    BY DEF NoSeg
  <2> QED
    BY <1>1, <2>1, <2>2, <2>3 DEF DOpen, UseSnapshot
<1>4. \A i \in SegID : file'[i].recs = <<>>
  BY <1>1, <1>2, NewFileShape DEF GoneIsEmpty, TypeOK
<1>5. \A k \in Key : LatestLoc(k)' = NoLoc
  <2>1. \A k \in Key : RecordsOf(k)' = {}
    <3> SUFFICES ASSUME NEW k \in Key, NEW a \in RecordsOf(k)' PROVE FALSE
      OBVIOUS
    <3>1. a.seg \in SegID /\ a.pos \in DOMAIN file'[a.seg].recs
      BY <1>2, RecordsArePrimed DEF Place
    <3> QED
      BY <1>4, <3>1
  <2> QED
    BY <2>1 DEF LatestLoc
<1>6. IdsBelow'
  BY <1>2, OpenIds
<1>7. WatermarkPassed'
  <2>1. nextSegID' \in Nat
    BY <1>2 DEF TypeOK
  <2> QED
    BY <1>1, <1>3, <2>1 DEF WatermarkPassed, NoSeg
<1> QED
  BY <1>1, <1>3, <1>5, <1>6, <1>7 DEF RecordsSpared, SnapSpared, IndexSpared, LostBefore

LEMMA OpenDamagedSpared ==
    ASSUME SpareInv, CutBase', DOpen, dir # {}
    PROVE  RecordsSpared'
<1>1. /\ TypeOK /\ TypeOK' /\ LostPlaces /\ TailsTyped /\ IdsBelow /\ WatermarkPassed /\ SnapSpared
  BY SpareFacts DEF CutBase, BaseInv
<1>2. /\ dir' = dir /\ snap' = snap /\ (UseSnapshot => weak' = weak \cup CutOff)
      /\ lost' = { a \in lost : a.pos <= Kept(a.seg) }
  BY DEF DOpen
<1>3. UseSnapshot' <=> UseSnapshot
  BY <1>2 DEF UseSnapshot
<1>4. /\ \A i \in dir' : i <= active' /\ i \in SegID
      /\ active' \in Int /\ nextSegID' = active' + 1
  <2>1. active' \in Int /\ nextSegID' = active' + 1 /\ \A i \in dir' : i <= active'
    BY <1>1, OpenFiles
  <2> QED
    BY <1>1, <1>2, <2>1 DEF TypeOK
<1>5. snap.wm \in Int /\ snap.at \in Nat /\ \A k \in Key : snap.idx[k] \in Location
  BY <1>1 DEF TypeOK, SegID, NoSeg
<1>6. ASSUME NEW k \in Key
      PROVE  /\ idx'[k] = RecoveredLoc(k)' /\ idx'[k] \in Location
             /\ ~UseSnapshot' \/ Replayed(k)' # {} => RecoveredLoc(k)' = LatestLoc(k)'
  <2>1. idx'[k] \in Location
    BY <1>1 DEF TypeOK
  <2> QED
    BY <1>1, <2>1, OpenedLoc, RecoversPrimed DEF Recovers
<1>7. IdsBelow'
  BY <1>1, OpenIds
<1>8. WatermarkPassed'
  <2>1. ASSUME UseSnapshot
        PROVE  snap.at <= Len(file'[snap.wm].recs)
    <3>1. snap.wm \in dir /\ snap.wm \in SegID /\ file[snap.wm].recs \in Seq(Record)
      BY <1>1, <2>1 DEF UseSnapshot, TypeOK
    <3>2. snap.at \in 0 .. Len(file[snap.wm].recs)
      <4>1. Len(file[snap.wm].recs) \in Nat
        BY <3>1
      <4>2. snap.at <= Len(file[snap.wm].recs)
        BY <1>1, <2>1 DEF WatermarkPassed
      <4> QED
        BY <1>5, <4>1, <4>2
    <3>3. Skipped(snap.wm) = snap.at
      BY <1>5, <2>1 DEF Skipped
    <3>4. snap.at <= Kept(snap.wm)
      BY <1>1, <3>1, <3>2, <3>3, KeptIs
    <3>5. /\ file'[snap.wm].recs = Found(snap.wm)
          /\ Len(Found(snap.wm)) = Kept(snap.wm) + Len(Revived(snap.wm))
          /\ Kept(snap.wm) \in Nat /\ Len(Revived(snap.wm)) \in Nat
      BY <1>1, <3>1, OpenedIsFound, FoundIs
    <3> QED
      BY <1>5, <3>4, <3>5
  <2>2. snap.wm < nextSegID'
    <3>1. snap.wm # NoSeg => \E j \in dir : snap.wm <= j /\ j <= active' /\ j \in Int
      BY <1>1, <1>2, <1>4 DEF WatermarkPassed, SegID
    <3>2. active' >= 0
      BY <1>2, <1>4 DEF SegID
    <3> QED
      BY <1>4, <1>5, <3>1, <3>2 DEF NoSeg
  <2> QED
    BY <1>1, <1>2, <1>3, <2>1, <2>2 DEF WatermarkPassed
<1>9. SnapSpared'
  <2> SUFFICES ASSUME UseSnapshot', NEW k \in Key \ weak', Replayed(k)' = {}
               PROVE  snap.idx[k] = LatestLoc(k)' \/ Stray(dir', file', k, snap.idx[k])
    BY <1>2 DEF SnapSpared
  <2>1. k \notin weak /\ k \notin CutOff
    BY <1>2, <1>3
  <2>2. /\ \A a \in RecordsOf(k) :
              a \in RecordsOf(k)' /\ file'[a.seg].recs[a.pos] = file[a.seg].recs[a.pos]
        /\ \A a \in RecordsOf(k)' \ RecordsOf(k) :
              a.seg \in dir /\ a.pos > Len(file[a.seg].recs) /\ a.seg >= snap.wm
    <3>1. \A a \in RecordsOf(k) : a.seg \in dir
      BY <1>1, RecordsAre
    <3> QED
      BY <1>1, <1>3, <2>1, <3>1, OpenedRecords, FoundRecords DEF RecordAt
  <2>3. ASSUME NEW a \in RecordsOf(k)', a \notin RecordsOf(k)
        PROVE  FALSE
    <3>1. a.seg \in dir /\ a.pos > Len(file[a.seg].recs) /\ a.seg >= snap.wm
      BY <2>2, <2>3
    <3>2. a.seg \in Int /\ a.pos \in Nat /\ Len(file[a.seg].recs) \in Nat
      <4>1. a \in Place
        BY <1>1, RecordsArePrimed
      <4>2. file[a.seg].recs \in Seq(Record)
        BY <1>1, <4>1 DEF TypeOK, Place
      <4> QED
        BY <4>1, <4>2 DEF Place, SegID
    <3>3. a.seg > snap.wm \/ (a.seg = snap.wm /\ a.pos > snap.at)
      BY <1>1, <1>3, <1>5, <3>1, <3>2 DEF WatermarkPassed
    <3>4. a \in Replayed(k)'
      BY <1>2, <3>3 DEF Replayed
    <3> QED
      BY <3>4
  <2>4. RecordsOf(k)' = RecordsOf(k) /\ \A a \in RecordsOf(k) : RecordAt(a)' = RecordAt(a)
    BY <2>2, <2>3 DEF RecordAt
  <2>5. LatestLoc(k)' = LatestLoc(k)
    <3>1. RecordsOf(k) # {} => LastOf(RecordsOf(k)) \in RecordsOf(k)
      BY <1>1, LastExists
    <3> QED
      BY <2>4, <3>1 DEF LatestLoc, IsTombstone
  <2>6. Replayed(k) = {}
    <3>1. Replayed(k)' = Replayed(k)
      BY <1>2, <1>3, <2>4 DEF Replayed
    <3> QED
      BY <3>1
  <2>7. snap.idx[k] = LatestLoc(k) \/ Stray(dir, file, k, snap.idx[k])
    BY <1>1, <1>3, <2>1, <2>6 DEF SnapSpared
  <2>8. Stray(dir, file, k, snap.idx[k]) => Stray(dir', file', k, snap.idx[k])
    BY <1>1, <1>5, <2>4, StrayIs, StrayIsPrimed
  <2> QED
    BY <2>5, <2>7, <2>8
<1>10. IndexSpared'
  <2> SUFFICES ASSUME NEW k \in Key \ weak'
               PROVE  /\ idx'[k] = LatestLoc(k)' \/ Stray(dir', file', k, idx'[k])
                      /\ UseSnapshot' =>
                            \/ idx'[k] = NoLoc \/ idx'[k] = snap.idx[k]
                            \/ Newer(snap, idx'[k]) /\ ~Stray(dir', file', k, idx'[k])
    BY <1>2 DEF IndexSpared
  <2>1. CASE ~UseSnapshot'
    BY <1>6, <2>1
  <2>2. CASE UseSnapshot' /\ Replayed(k)' = {}
    <3>1. idx'[k] = snap.idx[k]
      BY <1>2, <1>6, <2>2 DEF RecoveredLoc
    <3> QED
      BY <1>2, <1>9, <2>2, <3>1 DEF SnapSpared
  <2>3. CASE UseSnapshot' /\ Replayed(k)' # {}
    <3>1. idx'[k] = LatestLoc(k)'
      BY <1>6, <2>3
    <3>2. idx'[k] = NoLoc \/ idx'[k] \in Replayed(k)'
      <4>1. LastOf(Replayed(k))' \in Replayed(k)'
        BY <1>1, <2>3, RecoversPrimed DEF Recovers
      <4> QED
        BY <1>6, <2>3, <4>1 DEF RecoveredLoc
    <3>3. idx'[k] \in Replayed(k)' => Newer(snap, idx'[k]) /\ idx'[k] \in RecordsOf(k)'
      BY <1>2, <2>3 DEF Replayed, Newer
    <3> QED
      BY <1>1, <1>6, <3>1, <3>2, <3>3, StrayIsPrimed
  <2> QED
    BY <2>1, <2>2, <2>3
<1>11. LostBefore'
  <2> SUFFICES ASSUME NEW b \in lost'
               PROVE  b.seg <= active' /\ (UseSnapshot' => b.seg <= snap.wm)
    BY <1>2 DEF LostBefore
  <2>1. b \in lost /\ b.pos <= Kept(b.seg) /\ b.seg \in SegID /\ b.pos \in Nat \ {0} /\ b.seg \in dir
    BY <1>1, <1>2 DEF LostPlaces, Place
  <2>2. Kept(b.seg) \in Nat /\ (b.pos > Skipped(b.seg) => b.pos > Kept(b.seg))
    <3>1. Kept(b.seg) \in Nat
      BY <1>1, <2>1, FoundIs
    <3> QED
      BY <1>1, <2>1, <3>1, KeptIs
  <2>3. ~(b.pos > Skipped(b.seg))
    BY <2>1, <2>2
  <2>4. UseSnapshot => ~(b.seg > snap.wm)
    BY <2>1, <2>3 DEF Skipped
  <2> QED
    BY <1>2, <1>3, <1>4, <1>5, <2>1, <2>4 DEF SegID
<1> QED
  BY <1>7, <1>8, <1>9, <1>10, <1>11 DEF RecordsSpared

LEMMA OpenSpared ==
    ASSUME SpareInv, CutBase', DOpen
    PROVE  SpareInv'
<1>1. RecordsSpared'
  BY OpenAnewSpared, OpenDamagedSpared
<1>2. segments' = dir' /\ mapped' = dir' /\ job' = job /\ \A c \in Compactor : job[c].pc = "idle"
  BY DEF DOpen
<1> QED
  BY <1>1, <1>2 DEF SpareInv, ScansSpared, ScanLapses, DroppedLapsed, ListedOrLapsed

\* The loss itself leaves the index and the snapshot right.
LEMMA LossSpared ==
    ASSUME OnInv, PowerLoss \/ PowerLossInClose
    PROVE  SpareInv'
<1>1. /\ IInv /\ RInv /\ Whole /\ TypeOK /\ SegsOnDisk /\ GoneIsEmpty /\ IdsBelow /\ WatermarkPassed
      /\ SnapshotIsLatest /\ IndexIsLatest
  BY DEF OnInv, IInv, RInv
<1>2. /\ proc' = "down" /\ mapped' = {} /\ UNCHANGED <<dir, file, weak>>
  BY DEF PowerLoss, PowerLossInClose, LosePower, EndProcess
<1>3. CutBase' /\ TypeOK'
  BY LossCut DEF CutBase, BaseInv
<1>4. CASE PowerLoss
  <2>1. SnapSpared
    BY <1>1 DEF SnapSpared, SnapshotIsLatest
  <2>2. snap' = snap /\ \A i \in SegID : file'[i].recs = file[i].recs
    BY <1>2, <1>4 DEF PowerLoss
  <2>3. RecordsSpared'
    BY <1>1, <1>2, <1>3, <2>1, <2>2, QuietSpared
  <2> QED
    BY <1>2, <1>3, <2>3, NoScans DEF SpareInv
<1>5. CASE PowerLossInClose
  <2>1. proc # "down" /\ snap' = SnapshotOfIndex
    BY <1>5 DEF PowerLossInClose, Stopped
  <2>2. LostBefore /\ \A k \in Key \ weak : idx[k] = LatestLoc(k) \/ Stray(dir, file, k, idx[k])
    BY <1>1, <2>1 DEF LostBefore, Whole, IndexIsLatest
  <2>3. RecordsSpared'
    BY <1>1, <1>2, <1>3, <2>1, <2>2, SaveSpared
  <2> QED
    BY <1>2, <1>3, <2>3, NoScans DEF SpareInv
<1> QED
  BY <1>4, <1>5

LEMMA SpareStep ==
    ASSUME SpareInv, [DNext]_dvars, power # "on"
    PROVE  SpareInv'
<1>1. ~PowerLoss /\ ~PowerLossInClose
  BY DEF PowerLoss, PowerLossInClose, LosePower
<1>2. CutBase'
  BY <1>1, CutStep DEF SpareInv
<1>3. CASE DOpen
  BY <1>2, <1>3, OpenSpared
<1>4. ASSUME NEW k \in Key, NEW v \in Val, DPut(k, v)
      PROVE  SpareInv'
  BY <1>2, <1>4, WriteSpared, ValueAssumption DEF DPut, Put
<1>5. ASSUME NEW k \in Key, DDelete(k)
      PROVE  SpareInv'
  BY <1>2, <1>5, WriteSpared DEF DDelete, Delete
<1>6. CASE DWriteFails
  BY <1>2, <1>6, WriteFailsSpared
<1>7. CASE Sync \/ UNCHANGED dvars
  <2>1. UNCHANGED <<dir, file, snap, proc, idx, segments, active, compactOut, nextSegID, mapped, job, weak, lost>>
    BY <1>7 DEF Sync, dvars, vars, disk, mem, dur
  <2>2. /\ TypeOK' /\ \A i \in SegID : file'[i].recs = file[i].recs
    BY <1>2, <2>1 DEF CutBase, BaseInv
  <2>3. RecordsSpared'
    BY <2>1, <2>2, SpareFacts, QuietSpared
  <2>4. ScansSpared'
    <3>1. \A k \in Key : Lapsed(k)' <=> Lapsed(k)
      BY <2>1 DEF Lapsed
    <3> QED
      BY <2>1, <3>1, SpareFacts DEF ScansSpared, ScanLapses, DroppedLapsed, ListedOrLapsed
  <2> QED
    BY <1>2, <2>3, <2>4 DEF SpareInv
<1>8. ASSUME NEW c \in Compactor, DCompactorStep(c)
      PROVE  SpareInv'
  <2>1. CASE DRelocate(c) \/ DRelocateFails(c) \/ DRemove(c) \/ ScanStops(c)
    BY <1>2, <2>1, RelocateSpared, RelocateFailsSpared, RemoveSpared, ScanStopsSpared
  <2>2. CASE DSkipRecord(c)
    BY <1>2, <2>2, SkipRecordSpared DEF DSkipRecord, dur
  <2>3. CASE /\ StartPass(c) \/ Pick(c) \/ Check(c) \/ BeginScan(c) \/ ScanUnmapped(c)
                 \/ Drop(c) \/ RemoveFails(c) \/ RemoveSnapshot(c)
             /\ UNCHANGED <<dur, power, syncs>>
    BY <1>2, <2>3, RestSpared, BeginScanSpared, ScanUnmappedSpared, DropSpared, RemoveSnapshotSpared DEF dur
  <2> QED
    BY <1>8, <2>1, <2>2, <2>3 DEF DCompactorStep
<1>9. CASE DFinishClose \/ DCloseCutShort
  BY <1>2, <1>9, CloseSpared DEF DFinishClose, DCloseCutShort
<1>10. CASE (BeginClose \/ SnapshotFails) /\ UNCHANGED <<dur, power, syncs>>
  BY <1>2, <1>10, CloseSpared DEF dur
<1>11. CASE Crash
  BY <1>2, <1>11, EndsSpared DEF Crash, Vanish, disk
<1> QED
  BY <1>1, <1>3, <1>4, <1>5, <1>6, <1>7, <1>8, <1>9, <1>10, <1>11 DEF DNext

-----------------------------------------------------------------------------
(* What damage spares. *)

\* A key that is not damaged is read where it was written: nothing leads astray, and what
\* was lost of its segments lies behind its records.
LEMMA Undamaged ==
    ASSUME TypeOK, LostPlaces, power # "on", NEW k \in Key, ~Damaged(k)
    PROVE  /\ ~Stray(dir, file, k, idx[k]) /\ ~Stray(dir, file, k, snap.idx[k]) /\ ~Lapsed(k)
           /\ \A a \in RecordsOf(k), b \in lost : b.seg = a.seg => a.pos < b.pos
           /\ \A i \in dir : \A n \in DOMAIN tail[i] : tail[i][n].rec.key # k
<1>1. /\ \A b \in lost : \A p \in b.pos .. Len(file[b.seg].recs) : file[b.seg].recs[p].key # k
      /\ \A i \in dir : \A n \in DOMAIN tail[i] : tail[i][n].rec.key # k
      /\ \A a \in {idx[k], snap.idx[k]} : a = NoLoc \/
            /\ a.seg \in dir /\ a.pos \in DOMAIN file[a.seg].recs /\ file[a.seg].recs[a.pos].key = k
  <2> DEFINE recs == [i \in SegID |-> file[i].recs]
  <2>1. /\ \A b \in lost : \A p \in b.pos .. Len(recs[b.seg]) : recs[b.seg][p].key # k
        /\ \A i \in dir : \A n \in DOMAIN tail[i] : tail[i][n].rec.key # k
        /\ \A a \in {idx[k], snap.idx[k]} : a = NoLoc \/
              /\ a.seg \in dir /\ a.pos \in DOMAIN recs[a.seg] /\ recs[a.seg][a.pos].key = k
    BY DEF Damaged, Astray
  <2>2. dir \subseteq SegID /\ \A b \in lost : b.seg \in SegID
    BY DEF TypeOK, LostPlaces, Place
  <2>3. \A i \in SegID : recs[i] = file[i].recs
    OBVIOUS
  <2> HIDE DEF recs
  <2> QED
    BY <2>1, <2>2, <2>3
<1>2. ~Stray(dir, file, k, idx[k]) /\ ~Stray(dir, file, k, snap.idx[k])
  BY <1>1 DEF Stray
<1>3. \A a \in RecordsOf(k), b \in lost : b.seg = a.seg => a.pos < b.pos
  <2> SUFFICES ASSUME NEW a \in RecordsOf(k), NEW b \in lost, b.seg = a.seg
               PROVE  a.pos < b.pos
    OBVIOUS
  <2>1. /\ a \in Place /\ a.seg \in dir /\ a.pos \in DOMAIN file[a.seg].recs
        /\ file[a.seg].recs[a.pos].key = k
    BY RecordsAre
  <2>2. a.seg \in SegID /\ a.pos \in Nat /\ b.pos \in Nat
    BY <2>1 DEF Place, LostPlaces
  <2>3. file[a.seg].recs \in Seq(Record)
    BY <2>2 DEF TypeOK
  <2> QED
    BY <1>1, <2>1, <2>2, <2>3
<1>4. ~Lapsed(k)
  <2>1. idx[k] \in Location
    BY DEF TypeOK
  <2>2. CASE idx[k] = NoLoc
    <3>1. \A b \in lost : b.seg # idx[k].seg
      BY <2>2 DEF LostPlaces, Place, NoLoc, NoSeg, SegID
    <3> QED
      BY <1>2, <3>1 DEF Lapsed
  <2>3. CASE idx[k] # NoLoc
    <3>1. idx[k] \in RecordsOf(k)
      BY <1>2, <2>1, <2>3, StrayIs
    <3>2. \A b \in lost : b.pos \in Nat
      BY DEF LostPlaces, Place
    <3>3. idx[k].pos \in Nat
      BY <2>1, <2>3 DEF Location
    <3> QED
      BY <1>2, <1>3, <3>1, <3>2, <3>3 DEF Lapsed
  <2> QED
    BY <2>2, <2>3
<1> QED
  BY <1>1, <1>2, <1>3, <1>4

\* Recovery finds the records of such a key, and no others.
LEMMA UndamagedFound ==
    ASSUME TypeOK, LostPlaces, TailsTyped, power # "on", NEW k \in Key, ~Damaged(k)
    PROVE  /\ FoundOf(k) = RecordsOf(k)
           /\ \A a \in RecordsOf(k) : Found(a.seg)[a.pos] = RecordAt(a) /\ a \notin lost
<1>1. ASSUME NEW a \in RecordsOf(k)
      PROVE  a.pos <= Kept(a.seg) /\ a \notin lost
  <2>1. a \in Place /\ a.seg \in SegID /\ a.pos \in DOMAIN file[a.seg].recs
    BY RecordsAre DEF Place
  <2>2. file[a.seg].recs \in Seq(Record)
    BY <2>1 DEF TypeOK
  <2>3. \A b \in lost : b.seg = a.seg => b.pos > a.pos
    <3>1. \A b \in lost : b.seg = a.seg => a.pos < b.pos
      BY Undamaged
    <3>2. \A b \in lost : b.pos \in Nat
      BY DEF LostPlaces, Place
    <3> QED
      BY <2>1, <3>1, <3>2 DEF Place
  <2>4. a.pos \in 0 .. Len(file[a.seg].recs)
    BY <2>1, <2>2
  <2>5. a.pos <= Kept(a.seg)
    BY <2>1, <2>3, <2>4, KeptIs
  <2>6. a.pos \in Nat
    BY <2>1 DEF Place
  <2> QED
    BY <2>3, <2>5, <2>6
<1>2. FoundOf(k) \ RecordsOf(k) = {}
  BY Undamaged, FoundRecords
<1> QED
  BY <1>1, <1>2, FoundRecords

\* What is seen of a key that is not damaged is its last record.
ReadsLatest == power # "on" => \A k \in Key \ weak : ~Damaged(k) => Seen[k] = LatestValue(k)

LEMMA SpareReads == SpareInv => ReadsLatest
<1> SUFFICES ASSUME SpareInv, power # "on", NEW k \in Key \ weak, ~Damaged(k)
             PROVE  Seen[k] = LatestValue(k)
  BY DEF ReadsLatest
<1>1. TypeOK /\ LostPlaces /\ TailsTyped /\ SnapSpared /\ IndexSpared /\ ListedOrLapsed
  BY SpareFacts DEF CutBase, ScansSpared
<1>2. /\ ~Stray(dir, file, k, idx[k]) /\ ~Stray(dir, file, k, snap.idx[k]) /\ ~Lapsed(k)
      /\ FoundOf(k) = RecordsOf(k)
      /\ \A a \in RecordsOf(k) : Found(a.seg)[a.pos] = RecordAt(a) /\ a \notin lost
  BY <1>1, Undamaged, UndamagedFound
<1>3. PICK l : l = LatestLoc(k)
  OBVIOUS
<1>4. ASSUME l # NoLoc
      PROVE  /\ l \in RecordsOf(k) /\ l.seg \in dir /\ l.seg \in SegID /\ l.pos \in DOMAIN file[l.seg].recs
             /\ file[l.seg].recs[l.pos].key = k
  <2>1. RecordsOf(k) # {} /\ l = LastOf(RecordsOf(k))
    BY <1>3, <1>4 DEF LatestLoc
  <2>2. l \in RecordsOf(k)
    BY <1>1, <2>1, LastExists
  <2> QED
    BY <1>1, <2>2, RecordsAre DEF Place
<1>5. LatestValue(k) = IF l = NoLoc THEN Absent ELSE file[l.seg].recs[l.pos].val
  BY <1>3, <1>4 DEF LatestValue, ValueIn, RecordAt
<1>6. CASE proc = "open"
  <2>1. idx[k] = l
    BY <1>1, <1>2, <1>3, <1>6 DEF IndexSpared
  <2>2. l # NoLoc => l.seg \in segments
    BY <1>1, <1>2, <1>4, <1>6, <2>1 DEF ListedOrLapsed
  <2> DEFINE recs == [i \in SegID |-> file[i].recs]
  <2>3. \A i \in SegID : recs[i] = file[i].recs
    OBVIOUS
  <2>4. DContent[k] = ReadAt(segments, recs, k, idx[k])
    BY DEF DContent
  <2> HIDE DEF recs
  <2>5. ReadAt(segments, recs, k, l) = LatestValue(k)
    BY <1>2, <1>4, <1>5, <2>2, <2>3 DEF ReadAt, Astray
  <2> QED
    BY <1>6, <2>1, <2>4, <2>5 DEF Seen
<1>7. CASE proc # "open"
  <2> DEFINE found == [i \in SegID |-> Found(i)]
  <2>1. \A i \in SegID : found[i] = Found(i)
    OBVIOUS
  <2>2. DRecovered[k] = ReadAt(dir, found, k, LocIn(found, k))
    BY DEF DRecovered
  <2>3. PlacesIn(found, k) = Replayed(k)
    BY <1>1, <1>2, FoundPlaces DEF Replayed
  <2> HIDE DEF found
  <2>4. LocIn(found, k) = l
    <3>1. CASE Replayed(k) = {} /\ UseSnapshot
      BY <1>1, <1>2, <1>3, <2>3, <3>1 DEF LocIn, SnapSpared
    <3>2. CASE Replayed(k) = {} /\ ~UseSnapshot
      <4>1. RecordsOf(k) = {}
        BY <3>2 DEF Replayed
      <4> QED
        BY <1>3, <2>3, <3>2, <4>1 DEF LocIn, LatestLoc
    <3>3. CASE Replayed(k) # {}
      <4>1. LastOf(Replayed(k)) = LastOf(RecordsOf(k)) /\ RecordsOf(k) # {}
        BY <1>1, <3>3, ReplayedLast
      <4>2. PICK a : a = LastOf(RecordsOf(k))
        OBVIOUS
      <4>3. a \in RecordsOf(k)
        BY <1>1, <4>1, <4>2, LastExists
      <4>4. found[a.seg][a.pos] = RecordAt(a)
        BY <1>1, <1>2, <2>1, <4>3, RecordsAre DEF Place
      <4> QED
        BY <1>3, <2>3, <3>3, <4>1, <4>2, <4>4 DEF LocIn, LatestLoc
    <3> QED
      BY <3>1, <3>2, <3>3
  <2>5. ASSUME l # NoLoc PROVE l \notin lost /\ found[l.seg] \in Seq(Record)
                               /\ l.pos \in DOMAIN found[l.seg] /\ found[l.seg][l.pos] = file[l.seg].recs[l.pos]
    <3>1. l \in FoundOf(k) /\ Found(l.seg)[l.pos] = RecordAt(l) /\ l \notin lost
      BY <1>2, <1>4, <2>5
    <3> QED
      BY <1>1, <1>4, <2>1, <2>5, <3>1, FoundShapes DEF FoundOf, RecordAt
  <2>6. ReadAt(dir, found, k, l) = LatestValue(k)
    BY <1>4, <1>5, <2>5 DEF ReadAt, Astray
  <2> QED
    BY <1>7, <2>2, <2>4, <2>6 DEF Seen
<1> QED
  BY <1>6, <1>7

LEMMA SpareReadsPrimed == SpareInv' => ReadsLatest'
BY SpareReads, PTL

\* The value of a key is the same when its last record is.
LEMMA SameValue ==
    ASSUME TypeOK, NEW k \in Key, LatestLoc(k)' = LatestLoc(k),
           \A a \in RecordsOf(k) : a = LatestLoc(k) => a.seg \in dir' /\ RecordAt(a)' = RecordAt(a)
    PROVE  LatestValue(k)' = LatestValue(k)
<1>1. PICK l : l = LatestLoc(k)
  OBVIOUS
<1>2. l # NoLoc => l \in RecordsOf(k) /\ l.seg \in dir
  <2>1. ASSUME l # NoLoc PROVE l \in RecordsOf(k)
    BY <1>1, <2>1, LastExists DEF LatestLoc
  <2> QED
    BY <2>1, RecordsAre
<1>3. LatestValue(k) = IF l = NoLoc THEN Absent ELSE RecordAt(l).val
  BY <1>1, <1>2 DEF LatestValue, ValueIn
<1>4. LatestValue(k)' = IF l = NoLoc THEN Absent ELSE RecordAt(l).val
  <2>1. l # NoLoc => l.seg \in dir' /\ file'[l.seg].recs[l.pos] = RecordAt(l)
    BY <1>1, <1>2 DEF RecordAt
  <2> QED
    BY <1>1, <2>1 DEF LatestValue, ValueIn, RecordAt
<1> QED
  BY <1>3, <1>4

LEMMA QuietValue ==
    ASSUME TypeOK, TypeOK', dir \subseteq dir',
           \A i \in SegID : file'[i].recs = file[i].recs,
           \A i \in dir' \ dir : file[i].recs = <<>>,
           NEW k \in Key
    PROVE  LatestValue(k)' = LatestValue(k)
<1>1. LatestLoc(k)' = LatestLoc(k)
  BY SameRecords
<1>2. \A a \in RecordsOf(k) : a.seg \in dir' /\ RecordAt(a)' = RecordAt(a)
  BY RecordsAre DEF Place, RecordAt
<1> QED
  BY <1>1, <1>2, SameValue

\* A copy has the value of the record it copies.
LEMMA RelocateValue ==
    ASSUME SpareInv, CutBase', NEW c \in Compactor, DRelocate(c),
           NEW k \in Key, k \notin weak, k \notin weak', ~Stray(dir, file, k, idx[k])
    PROVE  LatestValue(k)' = LatestValue(k)
<1>0. PICK r, t : r = Scanned(c) /\ t = Target(compactOut, r)
  OBVIOUS
<1>1. /\ AppendRecord(compactOut, r) /\ proc # "down" /\ Scanning(c) /\ ~IsTombstone(r)
      /\ idx[r.key] = At(c) /\ r = RecordAt(At(c))
  BY <1>0, BusyIsUp DEF DRelocate, Relocate, Scanning, IsLive, Scanned
<1>2. TypeOK /\ TypeOK' /\ SegsOnDisk /\ GoneIsEmpty
  BY SpareFacts DEF CutBase, BaseInv
<1>3. r \in Record /\ r.key \in Key
  <2>1. job[c].src \in SegID /\ job[c].pos \in DOMAIN file[job[c].src].recs
    BY <1>1, SpareFacts DEF BaseInv, JobBased, Scanning
  <2>2. file[job[c].src].recs \in Seq(Record)
    BY <1>2, <2>1 DEF TypeOK
  <2>3. r \in Record
    BY <1>0, <2>1, <2>2 DEF Scanned, RecordAt, At
  <2> QED
    BY <2>3 DEF Record
<1>4. dir' = dir \cup {t} /\ (k = r.key => ~Passed(t, k))
  BY <1>0, <1>1 DEF AppendRecord
<1>5. /\ \A j \in Key \ {r.key} : RecordsOf(j)' = RecordsOf(j) /\ LatestLoc(j)' = LatestLoc(j)
      /\ ~Passed(t, r.key) => LatestLoc(r.key)' = IF IsTombstone(r) THEN NoLoc ELSE EndOf(t)
  BY <1>0, <1>1, <1>2, <1>3, AppendedLatest
<1>6. /\ \A a \in RecordsOf(k) : RecordAt(a)' = RecordAt(a)
      /\ file'[t].recs[EndOf(t).pos] = r /\ EndOf(t) \in Place
  BY <1>0, <1>1, <1>2, <1>3, AppendAdds
<1>7. CASE k # r.key
  <2>1. \A a \in RecordsOf(k) : a.seg \in dir'
    BY <1>2, <1>4, RecordsAre
  <2> QED
    BY <1>2, <1>5, <1>6, <1>7, <2>1, SameValue
<1>8. CASE k = r.key
  <2>1. LatestValue(k)' = r.val
    <3>1. LatestLoc(k)' = EndOf(t)
      BY <1>1, <1>4, <1>5, <1>8
    <3>2. EndOf(t).seg = t /\ EndOf(t) # NoLoc
      <4>1. EndOf(t).seg = t
        BY DEF EndOf
      <4> QED
        BY <1>6, <4>1 DEF Place, NoLoc, NoSeg, SegID
    <3>3. t \in dir'
      BY <1>4
    <3>4. PICK e : e = EndOf(t)
      OBVIOUS
    <3> QED
      BY <1>6, <3>1, <3>2, <3>3, <3>4 DEF LatestValue, ValueIn, RecordAt
  <2>2. LatestValue(k) = r.val
    <3>1. At(c) # NoLoc /\ At(c).seg \in dir
      <4>1. job[c].src \in mapped /\ mapped \subseteq dir /\ dir \subseteq SegID
        BY <1>1, <1>2 DEF Scanning, SegsOnDisk, TypeOK
      <4>2. At(c).seg = job[c].src /\ NoLoc.seg \notin SegID
        BY DEF At, NoLoc, NoSeg, SegID
      <4> QED
        BY <4>1, <4>2
    <3>2. LatestLoc(k) = At(c)
      BY <1>1, <1>8, SpareFacts DEF IndexSpared
    <3> QED
      BY <1>1, <3>1, <3>2 DEF LatestValue, ValueIn
  <2> QED
    BY <2>1, <2>2
<1> QED
  BY <1>7, <1>8

\* No segment goes with the last value of a key that is not damaged.
LEMMA RemoveValue ==
    ASSUME SpareInv, CutBase', NEW c \in Compactor, DRemove(c),
           NEW k \in Key, k \notin weak, k \notin weak', ~Lapsed(k)
    PROVE  LatestValue(k)' = LatestValue(k)
<1> DEFINE i == job[c].src
           S == RecordsOf(k)
           a == LastOf(S)
<1>1. /\ dir' = dir \ {i} /\ file' = [file EXCEPT ![i] = NoFile] /\ k \notin Undeleted(i)
      /\ i \in mapped /\ job[c].pc = "remove"
  BY DEF DRemove, Remove
<1>2. TypeOK /\ TypeOK' /\ i \in SegID /\ i \notin segments /\ proc # "down"
  BY <1>1, SpareFacts, BusyIsUp DEF CutBase, BaseInv, JobBased
<1>3. idx[k] = LatestLoc(k) /\ idx[k].seg # i
  <2>1. ~Stray(dir, file, k, idx[k])
    BY DEF Lapsed
  <2> QED
    BY <1>1, <1>2, <2>1, SpareFacts DEF IndexSpared, ScansSpared, DroppedLapsed
<1>4. LatestLoc(k) = IF S = {} \/ IsTombstone(RecordAt(a)) THEN NoLoc ELSE a
  BY DEF LatestLoc
<1>5. /\ S # {} /\ a.seg # i => LatestLoc(k)' = LatestLoc(k)
      /\ (\A d \in S : d.seg # i => IsTombstone(RecordAt(d))) => LatestLoc(k)' = NoLoc
  BY <1>1, <1>2, LeftLatest
<1>6. S # {} => a \in S
  BY <1>2, LastExists
<1> HIDE DEF a
<1>7. LatestLoc(k)' = LatestLoc(k)
  <2>1. CASE S = {}
    BY <1>4, <1>5, <2>1
  <2>2. CASE S # {} /\ a.seg # i
    BY <1>5, <2>2
  <2>3. CASE S # {} /\ a.seg = i
    <3>1. IsTombstone(RecordAt(a))
      BY <1>3, <1>4, <2>3
    <3>2. \A d \in S : d.seg # i => IsTombstone(RecordAt(d))
      BY <1>1, <1>3, <1>4, <1>6, <2>3, <3>1 DEF Undeleted
    <3> QED
      BY <1>4, <1>5, <3>1, <3>2
  <2> QED
    BY <2>1, <2>2, <2>3
<1>8. \A d \in RecordsOf(k) : d = LatestLoc(k) => d.seg \in dir' /\ RecordAt(d)' = RecordAt(d)
  <2> SUFFICES ASSUME NEW d \in RecordsOf(k), d = LatestLoc(k)
               PROVE  d.seg \in dir' /\ RecordAt(d)' = RecordAt(d)
    OBVIOUS
  <2>1. d.seg \in dir /\ d.seg \in SegID /\ d.seg # i
    BY <1>2, <1>3, RecordsAre DEF Place
  <2>2. file'[d.seg] = file[d.seg]
    BY <1>1, <1>2, <2>1 DEF TypeOK
  <2> QED
    BY <1>1, <2>1, <2>2 DEF RecordAt
<1> QED
  BY <1>2, <1>7, <1>8, SameValue

\* A reopen finds it again.
LEMMA OpenValue ==
    ASSUME SpareInv, CutBase', DOpen, power # "on", NEW k \in Key, ~Damaged(k)
    PROVE  LatestValue(k)' = LatestValue(k)
<1>1. TypeOK /\ TypeOK' /\ LostPlaces /\ TailsTyped /\ GoneIsEmpty
  BY SpareFacts DEF CutBase, BaseInv
<1>2. CASE dir = {}
  <2>1. \A i \in SegID : file'[i].recs = file[i].recs
    <3>1. file' = [file EXCEPT ![0] = NewFile]
      BY <1>2 DEF DOpen
    <3> QED
      BY <1>1, <1>2, <3>1, NewFileShape DEF GoneIsEmpty, TypeOK
  <2>2. \A i \in dir' \ dir : file[i].recs = <<>>
    BY <1>1, <1>2 DEF GoneIsEmpty, TypeOK
  <2> QED
    BY <1>1, <1>2, <2>1, <2>2, QuietValue
<1>3. CASE dir # {}
  <2>1. /\ FoundOf(k) = RecordsOf(k)
        /\ \A a \in RecordsOf(k) : Found(a.seg)[a.pos] = RecordAt(a)
    BY <1>1, UndamagedFound
  <2>2. RecordsOf(k)' = FoundOf(k) /\ \A i \in dir : file'[i].recs = Found(i)
    BY <1>1, <1>3, OpenedRecords
  <2>3. dir' = dir
    BY <1>3 DEF DOpen
  <2>4. \A a \in RecordsOf(k) : a.seg \in dir' /\ RecordAt(a)' = RecordAt(a)
    <3> SUFFICES ASSUME NEW a \in RecordsOf(k)
                 PROVE  a.seg \in dir' /\ file'[a.seg].recs[a.pos] = RecordAt(a)
      BY DEF RecordAt
    <3>1. a.seg \in dir
      BY <1>1, RecordsAre
    <3> QED
      BY <2>1, <2>2, <2>3, <3>1
  <2>5. LatestLoc(k)' = LatestLoc(k)
    <3>1. PICK a : a = LastOf(RecordsOf(k))
      OBVIOUS
    <3>2. RecordsOf(k) # {} => a \in RecordsOf(k)
      BY <1>1, <3>1, LastExists
    <3>3. RecordsOf(k)' = RecordsOf(k)
      BY <2>1, <2>2
    <3>4. RecordsOf(k) # {} => file'[a.seg].recs[a.pos] = RecordAt(a)
      BY <2>4, <3>2 DEF RecordAt
    <3>5. LatestLoc(k)' = IF RecordsOf(k)' = {} \/ IsTombstone(file'[a.seg].recs[a.pos]) THEN NoLoc ELSE a
      BY <3>1, <3>3 DEF LatestLoc, RecordAt
    <3>6. LatestLoc(k) = IF RecordsOf(k) = {} \/ IsTombstone(RecordAt(a)) THEN NoLoc ELSE a
      BY <3>1 DEF LatestLoc
    <3> QED
      BY <3>3, <3>4, <3>5, <3>6
  <2> QED
    BY <1>1, <2>4, <2>5, SameValue
<1> QED
  BY <1>2, <1>3

\* No step but a write changes it.
LEMMA SpareValue ==
    ASSUME SpareInv, [DNext]_dvars, power # "on", writes' = writes,
           NEW k \in Key, k \notin weak, k \notin weak', ~Damaged(k)
    PROVE  LatestValue(k)' = LatestValue(k)
<1>1. ~PowerLoss /\ ~PowerLossInClose
  BY DEF PowerLoss, PowerLossInClose, LosePower
<1>2. CutBase' /\ TypeOK' /\ TypeOK /\ LostPlaces /\ GoneIsEmpty
  BY <1>1, CutStep, SpareFacts DEF SpareInv, CutBase, BaseInv
<1>3. ~Stray(dir, file, k, idx[k]) /\ ~Lapsed(k)
  BY <1>2, Undamaged
<1>4. CASE UNCHANGED <<dir, file>>
  BY <1>2, <1>4, QuietValue
<1>5. ASSUME NEW cur \in SegID \cup {NoSeg}, CreateFails(cur)
      PROVE  LatestValue(k)' = LatestValue(k)
  <2>1. dir \subseteq dir' /\ \A i \in SegID : file'[i].recs = file[i].recs
    <3>1. file \in [SegID -> File]
      BY <1>2 DEF TypeOK, File
    <3> QED
      BY <1>5, <3>1, FinalizedKeeps DEF CreateFails
  <2>2. \A i \in dir' \ dir : file[i].recs = <<>>
    BY <1>2, <1>5 DEF CreateFails, GoneIsEmpty
  <2> QED
    BY <1>2, <2>1, <2>2, QuietValue
<1>6. CASE DOpen
  BY <1>2, <1>6, OpenValue
<1>7. ASSUME NEW h \in Key, NEW v, Write(h, v)
      PROVE  FALSE
  BY <1>2, <1>7 DEF Write, TypeOK
<1>8. CASE DWriteFails
  BY <1>2, <1>5, <1>8 DEF DWriteFails, WriteFails, TypeOK
<1>9. CASE Sync \/ UNCHANGED dvars
  BY <1>4, <1>9 DEF Sync, dvars, vars, disk
<1>10. ASSUME NEW c \in Compactor, DCompactorStep(c)
       PROVE  LatestValue(k)' = LatestValue(k)
  <2>1. CASE DRelocate(c) \/ DRemove(c)
    BY <1>2, <1>3, <2>1, RelocateValue, RemoveValue
  <2>2. CASE DRelocateFails(c)
    BY <1>2, <1>5, <2>2 DEF DRelocateFails, RelocateFails, TypeOK
  <2>3. CASE DSkipRecord(c) \/ ScanStops(c)
    BY <1>4, <2>3 DEF DSkipRecord, SkipRecord, ScanStops, disk
  <2>4. CASE StartPass(c) \/ Pick(c) \/ Check(c) \/ BeginScan(c) \/ ScanUnmapped(c)
                 \/ Drop(c) \/ RemoveFails(c) \/ RemoveSnapshot(c)
    BY <1>4, <2>4 DEF StartPass, Pick, Check, BeginScan, ScanUnmapped, Vanish, Drop, RemoveFails,
                      RemoveSnapshot, disk
  <2> QED
    BY <1>10, <2>1, <2>2, <2>3, <2>4 DEF DCompactorStep
<1>11. CASE DFinishClose \/ DCloseCutShort \/ BeginClose \/ SnapshotFails \/ Crash
  BY <1>4, <1>11 DEF DFinishClose, FinishClose, DCloseCutShort, CloseCutShort, BeginClose, SnapshotFails,
                     Crash, Vanish, disk
<1> QED
  BY <1>1, <1>6, <1>7, <1>8, <1>9, <1>10, <1>11 DEF DNext, DPut, Put, DDelete, Delete

\* As long as the power is on, the engine's own invariants say so.
LEMMA OnValue ==
    ASSUME OnInv, OnInv', [DNext]_dvars, power = "on", power' = "on", writes' = writes,
           NEW k \in Key, k \notin weak, k \notin weak'
    PROVE  LatestValue(k)' = LatestValue(k)
<1>1. [Next]_vars /\ IInv /\ IInv' /\ RInv /\ RInv' /\ GoneIsEmpty /\ TypeOK /\ BaseInv
  BY OnStep, IInvIsBased DEF OnInv, RInv, IInv
<1>2. CASE Open
  <2>1. LatestLoc(k)' = LatestLoc(k) /\ dir \subseteq dir' /\ \A i \in SegID : file'[i].recs = file[i].recs
    BY <1>1, <1>2, OpenKeepsRecords
  <2>2. \A a \in RecordsOf(k) : a.seg \in dir' /\ RecordAt(a)' = RecordAt(a)
    BY <1>1, <2>1, RecordsAre DEF Place, RecordAt
  <2> QED
    BY <1>1, <2>1, <2>2, SameValue
<1>3. CASE ~Open /\ proc # "down" /\ proc' # "down"
  BY <1>1, <1>3, LatestStaysUp
<1>4. CASE UNCHANGED <<dir, file>>
  BY <1>1, <1>4, LatestStaysDown
<1>5. CASE ~Open /\ proc # "down" /\ proc' = "down"
  <2>1. Next
    BY <1>1, <1>5 DEF vars
  <2> QED
    BY <1>1, <1>4, <1>5, <2>1, WeakGrows, ReadsAgreeHolds DEF Inv
<1>6. CASE ~Open /\ proc = "down" /\ Next
  <2>1. \A c \in Compactor : job[c].pc = "idle"
    BY <1>1, <1>6 DEF BaseInv, JobBased
  <2>2. ASSUME NEW c \in Compactor, StartPass(c) \/ CompactorStep(c) PROVE FALSE
    BY <1>6, <2>1, <2>2 DEF StartPass, CompactorStep, Pick, Check, BeginScan, SkipRecord, Relocate,
         RelocateFails, ScanUnmapped, Scanning, Drop, Remove, RemoveFails, RemoveSnapshot
  <2> QED
    BY <1>6, <2>2 DEF Next, Put, Delete, Write, WriteFails, BeginClose, FinishClose, SnapshotFails,
         CloseCutShort, Stopped, Crash
<1> QED
  BY <1>1, <1>2, <1>3, <1>4, <1>5, <1>6 DEF vars, disk

DamageInv == (power = "on" => OnInv) /\ (power # "on" => SpareInv)

LEMMA DamageStep == DamageInv /\ [DNext]_dvars => DamageInv'
<1> SUFFICES ASSUME DamageInv, [DNext]_dvars PROVE DamageInv'
  OBVIOUS
<1>1. power' = "on" => OnInv'
  BY OnKeeps, PowerStaysOff DEF DamageInv
<1>2. CASE power = "on" /\ power' # "on"
  BY <1>2, LossOnly, LossSpared DEF DamageInv
<1>3. CASE power # "on"
  BY <1>1, <1>3, PowerStaysOff, SpareStep DEF DamageInv
<1> QED
  BY <1>1, <1>2, <1>3 DEF DamageInv

\* Whatever the power takes, what the index and the snapshot say of a key is its last
\* record or leads to no record of its own, and the compactors drop no segment with a
\* key's last record but one that a scan could not read to that record.
THEOREM DamageInvariance == DSpec => []DamageInv
<1>1. DInit => DamageInv
  BY DInitOn DEF DamageInv
<1> QED
  BY <1>1, DamageStep, PTL DEF DSpec

OnReads == \A k \in Key \ weak : Seen[k] = LatestValue(k)
LEMMA OnReadsHolds == OnInv => OnReads
BY SeenIsLatest DEF OnReads
LEMMA OnReadsPrimed == OnInv' => OnReads'
BY OnReadsHolds, PTL

\* An unreadable record costs the keys that have a record in its segment from there on,
\* and no others: recovery, restarts and compaction leave what they read alone.
THEOREM DamageStays == DSpec => DamageStaysInSegment
<1>1. DamageInv /\ DamageInv' /\ [DNext]_dvars =>
          [writes' = writes =>
             LET before == Seen  after == Seen' IN
             \A k \in Key \ (weak \cup weak') :
                 after[k] = before[k] \/ Damaged(k) \/ Damaged(k)']_dvars
  <2> SUFFICES ASSUME DamageInv, DamageInv', [DNext]_dvars, writes' = writes,
                      NEW k \in Key, k \notin weak, k \notin weak', ~Damaged(k), ~Damaged(k)'
               PROVE  Seen'[k] = Seen[k]
    OBVIOUS
  <2>1. power = "on" => OnInv /\ Seen[k] = LatestValue(k)
    BY SeenIsLatest DEF DamageInv
  <2>2. power # "on" => SpareInv /\ Seen[k] = LatestValue(k)
    BY SpareReads DEF DamageInv, ReadsLatest
  <2>3. Seen'[k] = LatestValue(k)'
    <3>1. power' = "on" => Seen'[k] = LatestValue(k)'
      BY OnReadsPrimed DEF DamageInv, OnReads
    <3>2. power' # "on" => Seen'[k] = LatestValue(k)'
      BY SpareReadsPrimed DEF DamageInv, ReadsLatest
    <3> QED
      BY <3>1, <3>2
  <2>4. LatestValue(k)' = LatestValue(k)
    <3>1. CASE power = "on" /\ power' = "on"
      BY <2>1, <3>1, OnValue DEF DamageInv
    <3>2. CASE power = "on" /\ power' # "on"
      <4>1. UNCHANGED <<dir, file>> /\ (PowerLoss \/ PowerLossInClose)
        BY <3>2, LossOnly DEF PowerLoss, PowerLossInClose, LosePower
      <4>2. TypeOK /\ TypeOK'
        BY <2>1, <3>2, <4>1, LossCut DEF OnInv, IInv, CutBase, BaseInv
      <4> QED
        BY <4>1, <4>2, QuietValue
    <3>3. CASE power # "on"
      BY <2>2, <3>3, SpareValue
    <3> QED
      BY <3>1, <3>2, <3>3
  <2> QED
    BY <2>1, <2>2, <2>3, <2>4
<1> QED
  BY <1>1, DamageInvariance, PTL DEF DSpec, DamageStaysInSegment

=============================================================================
