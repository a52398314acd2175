------------------------- MODULE BitcaskStoreProofs -------------------------
(***************************************************************************)
(* Proofs about module Bitcask across a restart: a reopen brings back every *)
(* key that is not weak, a clean close restores all of them, and the engine *)
(* implements the store of module KVStore.  The last section is about the   *)
(* counters of garbage: they count nothing that is in use.                  *)
(*                                                                         *)
(* The argument: of a key that is not weak, the index says what its last   *)
(* record on disk says, in the order of ids and places; and a snapshot     *)
(* says so too, for the keys of which nothing is left to be replayed.      *)
(***************************************************************************)
EXTENDS BitcaskProofs

\* The location of the last record of k, if that is a value.
LatestLoc(k) ==
    LET S == RecordsOf(k)
        a == LastOf(S)
    IN  IF S = {} \/ IsTombstone(RecordAt(a)) THEN NoLoc ELSE a

IndexIsLatest == proc # "down" => \A k \in Key \ weak : idx[k] = LatestLoc(k)

SnapshotIsLatest ==
    UseSnapshot => \A k \in Key \ weak : Replayed(k) = {} => snap.idx[k] = LatestLoc(k)

\* A segment that is created is never the one a snapshot speaks of.
WatermarkPassed ==
    /\ snap.wm # NoSeg => \E j \in dir : snap.wm <= j
    /\ proc # "down" => snap.wm < nextSegID
    /\ UseSnapshot => snap.at <= Len(file[snap.wm].recs)

GoneIsEmpty == \A i \in SegID \ dir : file[i].recs = <<>>

\* While calls are served, an entry into a file on disk is into a known segment.
EntriesKnown ==
    proc \in {"open", "closing"} =>
        \A k \in Key : idx[k].seg \in dir => idx[k].seg \in segments

\* Without Options.SnapshotOnClose there is no snapshot to use.
SnapshotWanted == SnapshotOnClose \/ snap.wm = NoSeg

RInv ==
    /\ IndexIsLatest
    /\ SnapshotIsLatest
    /\ WatermarkPassed
    /\ GoneIsEmpty
    /\ EntriesKnown
    /\ SnapshotWanted

-----------------------------------------------------------------------------
(* The last record. *)

Place == [seg : SegID, pos : Nat \ {0}]

LEMMA RecordsAre ==
    ASSUME TypeOK, NEW k \in Key, NEW a
    PROVE  a \in RecordsOf(k) <=>
             /\ a \in Place /\ a.seg \in dir
             /\ a.pos \in DOMAIN file[a.seg].recs
             /\ file[a.seg].recs[a.pos].key = k
<1>1. ASSUME a \in RecordsOf(k)
      PROVE  /\ a \in Place /\ a.seg \in dir
             /\ a.pos \in DOMAIN file[a.seg].recs
             /\ file[a.seg].recs[a.pos].key = k
  BY <1>1, RecordsOfPlaces DEF Place
<1>2. ASSUME a \in Place, a.seg \in dir, a.pos \in DOMAIN file[a.seg].recs,
             file[a.seg].recs[a.pos].key = k
      PROVE  a \in RecordsOf(k)
  <2>1. a = [seg |-> a.seg, pos |-> a.pos]
    BY <1>2 DEF Place
  <2> QED
    BY <1>2, <2>1 DEF RecordsOf
<1> QED
  BY <1>1, <1>2

LEMMA RecordsArePrimed ==
    ASSUME TypeOK', NEW k \in Key, NEW a
    PROVE  a \in RecordsOf(k)' <=>
             /\ a \in Place /\ a.seg \in dir'
             /\ a.pos \in DOMAIN file'[a.seg].recs
             /\ file'[a.seg].recs[a.pos].key = k
<1>1. a \in RecordsOf(k)' <=>
        \E i \in dir' : \E p \in DOMAIN file'[i].recs :
            file'[i].recs[p].key = k /\ a = [seg |-> i, pos |-> p]
  BY DEF RecordsOf
<1>2. \A i \in dir' : i \in SegID /\ file'[i].recs \in Seq(Record)
  BY DEF TypeOK
<1>3. \A i \in dir' : \A p \in DOMAIN file'[i].recs : [seg |-> i, pos |-> p] \in Place
  BY <1>2 DEF Place
<1> QED
  BY <1>1, <1>3 DEF Place

LEMMA LastExists ==
    ASSUME TypeOK, NEW k \in Key, NEW S \in SUBSET RecordsOf(k), S # {}
    PROVE  LastOf(S) \in S /\ \A b \in S \ {LastOf(S)} : Before(b, LastOf(S))
BY RecordsOfPlaces, LastOfExists

LEMMA LastIs ==
    ASSUME NEW S \in SUBSET Place, NEW a \in S, \A b \in S \ {a} : Before(b, a)
    PROVE  LastOf(S) = a
<1>1. ASSUME NEW c \in S, \A b \in S \ {c} : Before(b, c), c # a
      PROVE  FALSE
  <2>1. Before(c, a) /\ Before(a, c)
    BY <1>1
  <2> QED
    BY <2>1 DEF Before, Place, SegID
<1>2. LastOf(S) \in S /\ \A b \in S \ {LastOf(S)} : Before(b, LastOf(S))
  BY DEF LastOf
<1> QED
  BY <1>1, <1>2

\* What is replayed ends with the last record.
LEMMA ReplayedLast ==
    ASSUME TypeOK, NEW k \in Key, Replayed(k) # {}
    PROVE  LastOf(Replayed(k)) = LastOf(RecordsOf(k)) /\ RecordsOf(k) # {}
<1>1. Replayed(k) \in SUBSET RecordsOf(k)
  BY DEF Replayed
<1>2. RecordsOf(k) \in SUBSET Place
  BY RecordsAre
<1> DEFINE a == LastOf(Replayed(k))
<1>3. a \in Replayed(k) /\ \A b \in Replayed(k) \ {a} : Before(b, a)
  BY <1>1, LastExists
<1> HIDE DEF a
<1>4. ASSUME NEW b \in RecordsOf(k), b \notin Replayed(k)
      PROVE  Before(b, a)
  <2>1. /\ UseSnapshot /\ ~(b.seg > snap.wm \/ (b.seg = snap.wm /\ b.pos > snap.at))
        /\ a.seg > snap.wm \/ (a.seg = snap.wm /\ a.pos > snap.at)
    BY <1>3, <1>4 DEF Replayed
  <2>2. a \in Place /\ b \in Place
    BY <1>1, <1>2, <1>3, <1>4
  <2>3. snap.wm \in SegID /\ snap.at \in Nat
    BY <2>1 DEF UseSnapshot, TypeOK
  <2> QED
    BY <2>1, <2>2, <2>3 DEF Place, SegID, Before
<1>5. LastOf(RecordsOf(k)) = a
  BY <1>1, <1>2, <1>3, <1>4, LastIs
<1> QED
  BY <1>1, <1>3, <1>5 DEF a

LEMMA RecoversLatest ==
    ASSUME TypeOK, NEW k \in Key, ~UseSnapshot \/ Replayed(k) # {}
    PROVE  RecoveredLoc(k) = LatestLoc(k)
<1>1. CASE Replayed(k) # {}
  BY <1>1, ReplayedLast DEF RecoveredLoc, LatestLoc
<1>2. CASE ~UseSnapshot
  <2>1. Replayed(k) = RecordsOf(k)
    BY <1>2 DEF Replayed
  <2> QED
    BY <1>2, <2>1 DEF RecoveredLoc, LatestLoc
<1> QED
  BY <1>1, <1>2

\* Whether or not a snapshot is used, a key that is not weak gets its last record.
LEMMA FirmRecovers ==
    ASSUME TypeOK, SnapshotIsLatest, NEW k \in Key \ weak
    PROVE  RecoveredLoc(k) = LatestLoc(k)
<1>1. CASE UseSnapshot /\ Replayed(k) = {}
  BY <1>1 DEF RecoveredLoc, SnapshotIsLatest
<1>2. CASE ~UseSnapshot \/ Replayed(k) # {}
  BY <1>2, RecoversLatest
<1> QED
  BY <1>1, <1>2

-----------------------------------------------------------------------------
(* Steps that change no record. *)

LEMMA SameRecords ==
    ASSUME TypeOK, TypeOK', dir \subseteq dir',
           \A i \in SegID : file'[i].recs = file[i].recs,
           \A i \in dir' \ dir : file[i].recs = <<>>,
           NEW k \in Key
    PROVE  RecordsOf(k)' = RecordsOf(k) /\ LatestLoc(k)' = LatestLoc(k)
<1>1. dir' \subseteq SegID /\ DOMAIN <<>> = {}
  BY DEF TypeOK
<1>2. \A a : a \in RecordsOf(k) <=>
               /\ a \in Place /\ a.seg \in dir
               /\ a.pos \in DOMAIN file[a.seg].recs
               /\ file[a.seg].recs[a.pos].key = k
  BY RecordsAre
<1>3. \A a : a \in RecordsOf(k)' <=>
               /\ a \in Place /\ a.seg \in dir'
               /\ a.pos \in DOMAIN file'[a.seg].recs
               /\ file'[a.seg].recs[a.pos].key = k
  BY RecordsArePrimed
<1>4. \A a : a \in RecordsOf(k)' <=> a \in RecordsOf(k)
  BY <1>1, <1>2, <1>3 DEF Place
<1>5. RecordsOf(k)' = RecordsOf(k)
  BY <1>4
<1>6. ASSUME RecordsOf(k) # {}
      PROVE  RecordAt(LastOf(RecordsOf(k)))' = RecordAt(LastOf(RecordsOf(k)))
  <2>1. LastOf(RecordsOf(k)) \in RecordsOf(k)
    BY <1>6, LastExists
  <2>2. LastOf(RecordsOf(k)).seg \in SegID
    BY <1>2, <2>1 DEF Place
  <2> QED
    BY <1>5, <2>2 DEF RecordAt
<1> QED
  BY <1>5, <1>6 DEF LatestLoc, IsTombstone

\* The steps that leave the records and the snapshot alone, and the index too unless
\* the process ends.
LEMMA QuietStep ==
    ASSUME IInv, IInv', RInv, dir \subseteq dir', snap' = snap, weak \subseteq weak',
           \A i \in SegID : file'[i].recs = file[i].recs,
           \A i \in dir' \ dir : i = nextSegID /\ proc # "down",
           proc' # "down" => proc # "down" /\ idx' = idx /\ nextSegID' = nextSegID,
           EntriesKnown'
    PROVE  RInv'
<1>1. TypeOK /\ TypeOK' /\ dir \subseteq SegID /\ dir' \subseteq SegID
  BY DEF IInv, TypeOK
<1>2. \A i \in dir' \ dir : file[i].recs = <<>>
  BY <1>1 DEF RInv, GoneIsEmpty
<1>3. \A k \in Key : RecordsOf(k)' = RecordsOf(k) /\ LatestLoc(k)' = LatestLoc(k)
  BY <1>1, <1>2, SameRecords
<1>4. UseSnapshot' => UseSnapshot
  <2>1. nextSegID \in Int
    BY <1>1 DEF TypeOK
  <2> QED
    BY <2>1 DEF UseSnapshot, RInv, WatermarkPassed
<1>5. IndexIsLatest'
  BY <1>3 DEF RInv, IndexIsLatest
<1>6. SnapshotIsLatest'
  <2> SUFFICES ASSUME UseSnapshot', NEW k \in Key \ weak', Replayed(k)' = {}
               PROVE  snap'.idx[k] = LatestLoc(k)'
    BY DEF SnapshotIsLatest
  <2>1. UseSnapshot /\ Replayed(k)' = Replayed(k)
    BY <1>3, <1>4 DEF Replayed
  <2> QED
    BY <1>3, <2>1 DEF RInv, SnapshotIsLatest
<1>7. WatermarkPassed'
  BY <1>1, <1>4 DEF RInv, WatermarkPassed, UseSnapshot
<1>8. GoneIsEmpty'
  BY DEF RInv, GoneIsEmpty
<1> QED
  BY <1>5, <1>6, <1>7, <1>8 DEF RInv, SnapshotWanted

-----------------------------------------------------------------------------
(* Appending. *)

LEMMA AppendedRecords ==
    ASSUME TypeOK, SegsOnDisk, GoneIsEmpty, NEW cur \in {active, compactOut}, NEW r \in Record,
           AppendRecord(cur, r), NEW t, t = Target(cur, r)
    PROVE  /\ t \in SegID /\ dir' = dir \cup {t}
           /\ \A i \in SegID \ {t} : file'[i].recs = file[i].recs
           /\ file'[t].recs = Append(file[t].recs, r)
           /\ EndOf(t) = [seg |-> t, pos |-> Len(file[t].recs) + 1]
<1>1. /\ TypeOK /\ cur \in SegID \cup {NoSeg} /\ file \in [SegID -> File]
      /\ cur = NoSeg \/ cur \in dir
  BY DEF TypeOK, File, SegsOnDisk
<1>2. /\ t \in SegID /\ dir' = dir \cup {t}
      /\ \A i \in SegID \ {t} : file'[i].recs = file[i].recs
  <2>1. t \in SegID /\ \A i \in SegID \ {t} : file'[i].recs = file[i].recs
    BY <1>1, AppendRecordKeeps
  <2> QED
    BY <2>1 DEF AppendRecord
<1>3. file'[t].recs = Append(file[t].recs, r)
  <2>1. CASE Fits(cur, SizeOf(r))
    <3>1. t = cur /\ file' = [file EXCEPT ![cur] = Extended(file[cur], r)]
      BY <1>1, <2>1 DEF AppendRecord, Target
    <3>2. Extended(file[cur], r).recs = Append(file[cur].recs, r)
      BY <1>1, <1>2, <3>1, FileShapes
    <3> QED
      BY <1>1, <1>2, <3>1, <3>2
  <2>2. CASE ~Fits(cur, SizeOf(r))
    <3>1. /\ t = nextSegID /\ t \notin dir
          /\ file' = [FinalizedFiles(cur) EXCEPT ![t] = Extended(NewFile, r)]
      BY <2>2 DEF AppendRecord, Target, CanAppend
    <3>2. FinalizedFiles(cur) \in [SegID -> File]
      BY <1>1, FinalizedKeeps
    <3>3. file'[t] = Extended(NewFile, r)
      BY <1>2, <3>1, <3>2
    <3>4. Extended(NewFile, r).recs = Append(NewFile.recs, r)
      BY NewFileShape, FileShapes
    <3>5. file[t].recs = <<>> /\ NewFile.recs = <<>>
      BY <1>2, <3>1, NewFileShape DEF GoneIsEmpty
    <3> QED
      BY <3>3, <3>4, <3>5
  <2> QED
    BY <2>1, <2>2
<1>4. Len(file'[t].recs) = Len(file[t].recs) + 1
  <2>1. file[t].recs \in Seq(Record)
    BY <1>1, <1>2 DEF File
  <2> QED
    BY <1>3, <2>1
<1> QED
  BY <1>2, <1>3, <1>4 DEF EndOf

\* The records after an append: the new one, and those there were.
LEMMA AppendAdds ==
    ASSUME TypeOK, TypeOK', SegsOnDisk, GoneIsEmpty, NEW cur \in {active, compactOut}, NEW r \in Record,
           AppendRecord(cur, r), NEW t, t = Target(cur, r), NEW k \in Key
    PROVE  /\ RecordsOf(k)' = RecordsOf(k) \cup IF k = r.key THEN {EndOf(t)} ELSE {}
           /\ \A a \in RecordsOf(k) : RecordAt(a)' = RecordAt(a)
           /\ file'[t].recs[EndOf(t).pos] = r
           /\ EndOf(t) \in Place
           /\ \A a \in RecordsOf(k) : a # EndOf(t) /\ (a.seg <= t => Before(a, EndOf(t)))
<1>1. /\ t \in SegID /\ dir' = dir \cup {t}
      /\ \A i \in SegID \ {t} : file'[i].recs = file[i].recs
      /\ file'[t].recs = Append(file[t].recs, r)
      /\ EndOf(t) = [seg |-> t, pos |-> Len(file[t].recs) + 1]
  BY AppendedRecords
<1>2. TypeOK /\ TypeOK' /\ dir \subseteq SegID /\ \A i \in SegID : file[i].recs \in Seq(Record)
  BY DEF TypeOK
<1> DEFINE n == Len(file[t].recs)
<1>3. /\ n \in Nat /\ DOMAIN file[t].recs = 1 .. n /\ DOMAIN file'[t].recs = 1 .. n + 1
      /\ file'[t].recs[n + 1] = r
      /\ \A p \in 1 .. n : file'[t].recs[p] = file[t].recs[p]
  <2>1. file[t].recs \in Seq(Record) /\ r \in Record
    BY <1>1, <1>2
  <2> QED
    BY <1>1, <2>1
<1>4. t \notin dir => n = 0
  BY <1>1 DEF GoneIsEmpty
<1> HIDE DEF n
<1>5. EndOf(t) = [seg |-> t, pos |-> n + 1] /\ EndOf(t) \in Place /\ file'[t].recs[EndOf(t).pos] = r
  <2>1. EndOf(t) = [seg |-> t, pos |-> n + 1]
    BY <1>1 DEF n
  <2> QED
    BY <1>1, <1>3, <2>1 DEF Place
<1>6. \A a : a \in RecordsOf(k) <=>
               /\ a \in Place /\ a.seg \in dir
               /\ a.pos \in DOMAIN file[a.seg].recs
               /\ file[a.seg].recs[a.pos].key = k
  BY <1>2, RecordsAre
<1>7. \A a : a \in RecordsOf(k)' <=>
               /\ a \in Place /\ a.seg \in dir'
               /\ a.pos \in DOMAIN file'[a.seg].recs
               /\ file'[a.seg].recs[a.pos].key = k
  BY <1>2, RecordsArePrimed
<1>8. ASSUME NEW a \in RecordsOf(k)
      PROVE  /\ a \in RecordsOf(k)' /\ RecordAt(a)' = RecordAt(a)
             /\ a # EndOf(t) /\ (a.seg <= t => Before(a, EndOf(t)))
  <2>1. /\ a \in Place /\ a.seg \in dir /\ a.pos \in DOMAIN file[a.seg].recs
        /\ file[a.seg].recs[a.pos].key = k
    BY <1>6, <1>8
  <2>2. CASE a.seg = t
    <3>1. a.pos \in 1 .. n
      BY <1>3, <2>1, <2>2
    <3>2. a.pos < n + 1 /\ a.seg \in dir'
      BY <1>1, <1>3, <2>1, <3>1
    <3>3. a # EndOf(t) /\ Before(a, EndOf(t))
      <4>1. a.pos \in Int /\ n + 1 \in Int /\ EndOf(t).seg = t /\ EndOf(t).pos = n + 1
        BY <1>3, <1>5, <3>1
      <4> QED
        BY <2>2, <3>2, <4>1 DEF Before
    <3>4. file'[a.seg].recs[a.pos] = file[a.seg].recs[a.pos]
      BY <1>3, <2>2, <3>1
    <3>5. a.pos \in DOMAIN file'[a.seg].recs
      BY <1>3, <2>2, <3>1
    <3> QED
      BY <1>7, <2>1, <3>2, <3>3, <3>4, <3>5 DEF RecordAt
  <2>3. CASE a.seg # t
    <3>1. file'[a.seg].recs = file[a.seg].recs
      BY <1>1, <2>1, <2>3 DEF Place
    <3>2. a.seg \in Int /\ t \in Int
      BY <1>1, <2>1 DEF Place, SegID
    <3> QED
      BY <1>1, <1>5, <1>7, <2>1, <2>3, <3>1, <3>2 DEF RecordAt, Before
  <2> QED
    BY <2>2, <2>3
<1>9. ASSUME NEW a \in RecordsOf(k)'
      PROVE  a \in RecordsOf(k) \/ (a = EndOf(t) /\ k = r.key)
  <2>1. /\ a \in Place /\ a.seg \in dir' /\ a.pos \in DOMAIN file'[a.seg].recs
        /\ file'[a.seg].recs[a.pos].key = k
    BY <1>7, <1>9
  <2>2. CASE a.seg # t
    <3>1. file'[a.seg].recs = file[a.seg].recs
      BY <1>1, <2>1, <2>2 DEF Place
    <3> QED
      BY <1>1, <1>6, <2>1, <2>2, <3>1
  <2>3. CASE a.seg = t /\ a.pos = n + 1
    BY <1>3, <1>5, <2>1, <2>3 DEF Place
  <2>4. CASE a.seg = t /\ a.pos # n + 1
    <3>1. a.pos \in 1 .. n
      BY <1>3, <2>1, <2>4
    <3>2. t \in dir
      BY <1>4, <3>1
    <3> QED
      BY <1>3, <1>6, <2>1, <2>4, <3>1, <3>2
  <2> QED
    BY <2>2, <2>3, <2>4
<1>10. k = r.key => EndOf(t) \in RecordsOf(k)'
  BY <1>1, <1>3, <1>5, <1>7
<1> QED
  BY <1>5, <1>8, <1>9, <1>10

\* For other keys nothing changes; for its own the new record is the last, unless there
\* is one in a later segment.
LEMMA AppendedLatest ==
    ASSUME TypeOK, TypeOK', SegsOnDisk, GoneIsEmpty, NEW cur \in {active, compactOut}, NEW r \in Record,
           AppendRecord(cur, r), NEW t, t = Target(cur, r)
    PROVE  /\ \A k \in Key \ {r.key} : RecordsOf(k)' = RecordsOf(k) /\ LatestLoc(k)' = LatestLoc(k)
           /\ ~Passed(t, r.key) => LatestLoc(r.key)' = IF IsTombstone(r) THEN NoLoc ELSE EndOf(t)
<1>1. t \in SegID /\ EndOf(t) = [seg |-> t, pos |-> Len(file[t].recs) + 1] /\ r.key \in Key
  BY AppendedRecords DEF Record
<1>2. \A k \in Key :
        /\ RecordsOf(k)' = RecordsOf(k) \cup IF k = r.key THEN {EndOf(t)} ELSE {}
        /\ \A a \in RecordsOf(k) : RecordAt(a)' = RecordAt(a)
        /\ \A a \in RecordsOf(k) : a # EndOf(t) /\ (a.seg <= t => Before(a, EndOf(t)))
  BY AppendAdds
<1>3. file'[t].recs[EndOf(t).pos] = r /\ EndOf(t) \in Place
  BY <1>1, AppendAdds
<1>4. ASSUME NEW k \in Key \ {r.key}
      PROVE  RecordsOf(k)' = RecordsOf(k) /\ LatestLoc(k)' = LatestLoc(k)
  <2>1. RecordsOf(k)' = RecordsOf(k)
    BY <1>2
  <2>2. RecordsOf(k) # {} => LastOf(RecordsOf(k)) \in RecordsOf(k)
    BY LastExists
  <2>3. RecordsOf(k) # {} => RecordAt(LastOf(RecordsOf(k)))' = RecordAt(LastOf(RecordsOf(k)))
    BY <1>2, <2>1, <2>2 DEF RecordAt
  <2> QED
    BY <2>1, <2>3 DEF LatestLoc, IsTombstone
<1>5. ASSUME ~Passed(t, r.key)
      PROVE  LatestLoc(r.key)' = IF IsTombstone(r) THEN NoLoc ELSE EndOf(t)
  <2> DEFINE S == RecordsOf(r.key)'
  <2>1. S = RecordsOf(r.key) \cup {EndOf(t)} /\ S \in SUBSET Place
    BY <1>1, <1>2, RecordsArePrimed
  <2>2. \A b \in S \ {EndOf(t)} : Before(b, EndOf(t))
    <3> SUFFICES ASSUME NEW b \in RecordsOf(r.key)
                 PROVE  Before(b, EndOf(t))
      BY <2>1
    <3>1. ~(b.seg > t)
      BY <1>5 DEF Passed
    <3>2. b.seg \in Int /\ t \in Int
      BY <1>1, RecordsAre DEF Place, SegID
    <3> QED
      BY <1>1, <1>2, <3>1, <3>2
  <2>3. LastOf(S) = EndOf(t) /\ S # {}
    BY <2>1, <2>2, LastIs
  <2>4. file'[LastOf(S).seg].recs[LastOf(S).pos] = r
    BY <1>1, <1>3, <2>3
  <2> HIDE DEF S
  <2>5. IsTombstone(file'[LastOf(S).seg].recs[LastOf(S).pos]) <=> IsTombstone(r)
    BY <2>4
  <2> QED
    BY <2>3, <2>5 DEF S, LatestLoc, RecordAt, IsTombstone
<1> QED
  BY <1>4, <1>5

\* A replay that starts where the snapshot ends finds it.
LEMMA AppendedReplayed ==
    ASSUME TypeOK, TypeOK', SegsOnDisk, GoneIsEmpty, NEW cur \in {active, compactOut}, NEW r \in Record,
           AppendRecord(cur, r), NEW t, t = Target(cur, r), snap' = snap, UseSnapshot,
           snap.at <= Len(file[snap.wm].recs), ~Passed(t, r.key)
    PROVE  /\ EndOf(t).seg > snap.wm \/ (EndOf(t).seg = snap.wm /\ EndOf(t).pos > snap.at)
           /\ EndOf(t) \in Replayed(r.key)'
<1>1. /\ t \in SegID /\ EndOf(t) = [seg |-> t, pos |-> Len(file[t].recs) + 1] /\ r.key \in Key
      /\ EndOf(t) \in RecordsOf(r.key)' /\ Len(file[t].recs) \in Nat
  <2>1. t \in SegID /\ EndOf(t) = [seg |-> t, pos |-> Len(file[t].recs) + 1] /\ r.key \in Key
    BY AppendedRecords DEF Record
  <2>2. EndOf(t) \in RecordsOf(r.key)'
    BY <2>1, AppendAdds
  <2>3. file[t].recs \in Seq(Record)
    BY <2>1 DEF TypeOK
  <2> QED
    BY <2>1, <2>2, <2>3
<1>2. snap.wm \in SegID /\ snap.at \in Nat /\ ~(t < snap.wm)
  BY DEF UseSnapshot, TypeOK, Passed
<1> DEFINE e == EndOf(t)
<1>3. e.seg > snap.wm \/ (e.seg = snap.wm /\ e.pos > snap.at)
  BY <1>1, <1>2 DEF SegID
<1>4. e \in RecordsOf(r.key)'
  BY <1>1
<1> HIDE DEF e
<1>5. e \in Replayed(r.key)'
  BY <1>3, <1>4 DEF Replayed
<1> QED
  BY <1>3, <1>5 DEF e

LEMMA AppendedWatermark ==
    ASSUME TypeOK, SegsOnDisk, GoneIsEmpty, WatermarkPassed, proc # "down", UNCHANGED <<snap, proc>>,
           NEW cur \in {active, compactOut}, NEW r \in Record, AppendRecord(cur, r)
    PROVE  WatermarkPassed' /\ (UseSnapshot' <=> UseSnapshot)
<1> DEFINE t == Target(cur, r)
<1>1. /\ t \in SegID /\ dir' = dir \cup {t}
      /\ \A i \in SegID \ {t} : file'[i].recs = file[i].recs
      /\ file'[t].recs = Append(file[t].recs, r)
  BY AppendedRecords
<1> HIDE DEF t
<1>2. nextSegID <= nextSegID' /\ nextSegID' \in Int /\ nextSegID \in Int /\ snap.wm \in Int
      /\ (t \in dir \/ t = nextSegID)
  <2>1. cur \in SegID \cup {NoSeg} /\ snap.wm \in Int /\ nextSegID \in Int
    BY DEF TypeOK, SegID, NoSeg
  <2>2. \/ t = cur /\ nextSegID' = nextSegID
        \/ t = nextSegID /\ t \notin dir /\ nextSegID' = nextSegID + 1
    BY <2>1, AppendRecordKeeps DEF t
  <2>3. cur \in dir \/ cur \notin SegID
    BY DEF SegsOnDisk, NoSeg, SegID
  <2> QED
    BY <1>1, <2>1, <2>2, <2>3
<1>3. UseSnapshot' <=> UseSnapshot
  BY <1>1, <1>2 DEF UseSnapshot, WatermarkPassed
<1>4. snap.wm # NoSeg => \E j \in dir' : snap.wm <= j
  BY <1>1 DEF WatermarkPassed
<1>5. snap.wm < nextSegID'
  BY <1>2 DEF WatermarkPassed
<1>6. UseSnapshot => snap.at <= Len(file'[snap.wm].recs)
  <2> SUFFICES ASSUME UseSnapshot PROVE snap.at <= Len(file'[snap.wm].recs)
    OBVIOUS
  <2>1. /\ snap.wm \in SegID /\ snap.at \in Nat /\ file[snap.wm].recs \in Seq(Record)
        /\ snap.at <= Len(file[snap.wm].recs)
    BY DEF UseSnapshot, TypeOK, WatermarkPassed
  <2>2. Len(Append(file[snap.wm].recs, r)) = Len(file[snap.wm].recs) + 1
    BY <2>1
  <2> QED
    BY <1>1, <2>1, <2>2
<1> QED
  BY <1>3, <1>4, <1>5, <1>6 DEF WatermarkPassed

\* A write or a relocation.
LEMMA AppendStep ==
    ASSUME IInv, IInv', RInv, proc # "down", UNCHANGED <<snap, proc>>,
           NEW cur \in {active, compactOut}, NEW r \in Record, AppendRecord(cur, r),
           NEW t, t = Target(cur, r), NEW l,
           l = IF IsTombstone(r) THEN NoLoc ELSE EndOf(t),
           idx' = [idx EXCEPT ![r.key] = l]
    PROVE  RInv'
<1>1. /\ TypeOK /\ TypeOK' /\ SegsOnDisk /\ IdsBelow /\ r.key \in Key
      /\ cur \in SegID \cup {NoSeg} /\ idx \in [Key -> Location]
      /\ nextSegID \in Int /\ dir \subseteq SegID
  <2>1. TypeOK /\ TypeOK' /\ SegsOnDisk /\ IdsBelow
    BY DEF IInv
  <2>2. r.key \in Key
    BY DEF Record
  <2>3. cur \in SegID \cup {NoSeg}
    BY <2>1 DEF TypeOK
  <2>4. idx \in [Key -> Location]
    BY <2>1 DEF TypeOK
  <2>5. nextSegID \in Int
    BY <2>1 DEF TypeOK
  <2>6. dir \subseteq SegID
    BY <2>1 DEF TypeOK
  <2> QED
    BY <2>1, <2>2, <2>3, <2>4, <2>5, <2>6
<1>2. /\ t \in SegID /\ dir' = dir \cup {t} /\ segments' = segments \cup {t}
      /\ \A i \in SegID \ {t} : file'[i].recs = file[i].recs
      /\ file'[t].recs = Append(file[t].recs, r)
      /\ EndOf(t) = [seg |-> t, pos |-> Len(file[t].recs) + 1]
  <2>1. GoneIsEmpty
    BY DEF RInv
  <2>2. segments' = segments \cup {t}
    BY DEF AppendRecord
  <2> QED
    BY <2>1, <2>2, AppendedRecords DEF IInv
<1>3. \/ t = cur /\ nextSegID' = nextSegID /\ t \in dir
      \/ t = nextSegID /\ t \notin dir /\ nextSegID' = nextSegID + 1
  <2>1. \/ t = cur /\ nextSegID' = nextSegID
        \/ t = nextSegID /\ t \notin dir /\ nextSegID' = nextSegID + 1
    BY <1>1, AppendRecordKeeps
  <2>2. cur \in dir \/ cur \notin SegID
    BY <1>1 DEF SegsOnDisk, NoSeg, SegID
  <2> QED
    BY <1>2, <2>1, <2>2
<1>4. /\ idx'[r.key] = l /\ \A k \in Key \ {r.key} : idx'[k] = idx[k]
  BY <1>1
<1>5. weak \subseteq weak' /\ (r.key \notin weak' => ~Passed(t, r.key))
  BY DEF AppendRecord
<1>6. /\ \A k \in Key \ {r.key} : RecordsOf(k)' = RecordsOf(k) /\ LatestLoc(k)' = LatestLoc(k)
      /\ ~Passed(t, r.key) => LatestLoc(r.key)' = l
  BY <1>1, AppendedLatest DEF RInv
<1>7. IndexIsLatest'
  BY <1>4, <1>5, <1>6 DEF RInv, IndexIsLatest
<1>8. WatermarkPassed' /\ (UseSnapshot' <=> UseSnapshot)
  BY <1>1, AppendedWatermark DEF RInv
<1>9. SnapshotIsLatest'
  <2> SUFFICES ASSUME UseSnapshot, NEW k \in Key \ weak', Replayed(k)' = {}
               PROVE  snap.idx[k] = LatestLoc(k)'
    BY <1>8 DEF SnapshotIsLatest
  <2>1. CASE k # r.key
    <3>1. Replayed(k)' = Replayed(k)
      BY <1>6, <1>8, <2>1 DEF Replayed
    <3> QED
      BY <1>5, <1>6, <2>1, <3>1 DEF RInv, SnapshotIsLatest
  <2>2. CASE k = r.key
    <3>1. GoneIsEmpty /\ snap.at <= Len(file[snap.wm].recs) /\ ~Passed(t, r.key)
      BY <1>5, <2>2 DEF RInv, WatermarkPassed
    <3> QED
      BY <1>1, <2>2, <3>1, AppendedReplayed
  <2> QED
    BY <2>1, <2>2
<1>10. GoneIsEmpty'
  BY <1>2 DEF RInv, GoneIsEmpty
<1>11. EntriesKnown'
  <2> SUFFICES ASSUME proc \in {"open", "closing"}, NEW k \in Key, idx'[k].seg \in dir'
               PROVE  idx'[k].seg \in segments'
    BY DEF EntriesKnown
  <2>1. CASE k = r.key
    BY <1>1, <1>2, <1>4, <2>1 DEF NoLoc, NoSeg, SegID
  <2>2. CASE k # r.key
    <3>1. idx'[k] = idx[k] /\ idx[k].seg < nextSegID
      BY <1>1, <1>4, <2>2 DEF IdsBelow
    <3>2. idx[k].seg \in dir \/ idx[k].seg = t
      BY <1>2, <3>1
    <3> QED
      BY <1>1, <1>2, <1>3, <3>1, <3>2 DEF RInv, EntriesKnown
  <2> QED
    BY <2>1, <2>2
<1> QED
  BY <1>7, <1>8, <1>9, <1>10, <1>11 DEF RInv, SnapshotWanted

-----------------------------------------------------------------------------
(* The other steps. *)

LEMMA WriteFirm ==
    ASSUME IInv, IInv', RInv, NEW k \in Key, NEW v \in Val \cup {Absent}, Write(k, v),
           idx' = [idx EXCEPT ![k] = IF v = Absent THEN NoLoc ELSE EndOf(active')]
    PROVE  RInv'
<1> DEFINE r == [key |-> k, val |-> v]
<1>1. r \in Record /\ r.key = k /\ (IsTombstone(r) <=> v = Absent)
  BY DEF Record, IsTombstone
<1>2. /\ proc = "open" /\ UNCHANGED <<snap, proc>>
      /\ AppendRecord(active, r) /\ active' = Target(active, r)
  BY DEF Write
<1> HIDE DEF r
<1> QED
  BY <1>1, <1>2, AppendStep

LEMMA RelocateFirm ==
    ASSUME IInv, IInv', RInv, NEW c \in Compactor, Relocate(c)
    PROVE  RInv'
<1> DEFINE r == Scanned(c)
<1>1. /\ Scanning(c) /\ ~IsTombstone(r) /\ AppendRecord(compactOut, r)
      /\ compactOut' = Target(compactOut, r) /\ idx' = [idx EXCEPT ![r.key] = EndOf(compactOut')]
      /\ UNCHANGED <<snap, proc>>
  BY DEF Relocate
<1>2. JobSound(c) /\ job[c].pc = "scan" /\ job[c].src \in mapped
  BY <1>1 DEF IInv, Scanning
<1>3. r \in Record
  <2>1. /\ job[c].src \in SegID /\ job[c].pos \in DOMAIN file[job[c].src].recs
        /\ file[job[c].src].recs \in Seq(Record)
    BY <1>2 DEF JobSound, IInv, TypeOK
  <2>2. r = file[job[c].src].recs[job[c].pos]
    BY DEF Scanned, RecordAt, At
  <2> QED
    BY <2>1, <2>2
<1>4. proc # "down"
  BY <1>2 DEF JobSound
<1> HIDE DEF r
<1> QED
  BY <1>1, <1>3, <1>4, AppendStep

\* What is left when segment i goes are the records of the others.
LEMMA LeftRecords ==
    ASSUME TypeOK, TypeOK', NEW i \in SegID, dir' = dir \ {i}, file' = [file EXCEPT ![i] = NoFile],
           NEW k \in Key
    PROVE  /\ RecordsOf(k)' = { a \in RecordsOf(k) : a.seg # i }
           /\ \A a \in RecordsOf(k)' : RecordAt(a)' = RecordAt(a)
<1>1. \A j \in SegID \ {i} : file'[j] = file[j]
  BY DEF TypeOK
<1>2. \A a : a \in RecordsOf(k) <=>
               /\ a \in Place /\ a.seg \in dir
               /\ a.pos \in DOMAIN file[a.seg].recs
               /\ file[a.seg].recs[a.pos].key = k
  BY RecordsAre
<1>3. \A a : a \in RecordsOf(k)' <=>
               /\ a \in Place /\ a.seg \in dir'
               /\ a.pos \in DOMAIN file'[a.seg].recs
               /\ file'[a.seg].recs[a.pos].key = k
  BY RecordsArePrimed
<1>4. \A a : a \in RecordsOf(k)' <=> a \in RecordsOf(k) /\ a.seg # i
  BY <1>1, <1>2, <1>3 DEF Place
<1>5. \A a \in RecordsOf(k)' : RecordAt(a)' = RecordAt(a)
  BY <1>1, <1>2, <1>4 DEF Place, RecordAt
<1> QED
  BY <1>4, <1>5

\* The last of them is another only if the last was in i, and says nothing if all that
\* is left are tombstones.
LEMMA LeftLatest ==
    ASSUME TypeOK, TypeOK', NEW i \in SegID, dir' = dir \ {i}, file' = [file EXCEPT ![i] = NoFile],
           NEW k \in Key
    PROVE  /\ RecordsOf(k) # {} /\ LastOf(RecordsOf(k)).seg # i => LatestLoc(k)' = LatestLoc(k)
           /\ (\A a \in RecordsOf(k) : a.seg # i => IsTombstone(RecordAt(a))) => LatestLoc(k)' = NoLoc
<1> DEFINE S == RecordsOf(k)
           T == { a \in S : a.seg # i }
           a == LastOf(S)
           b == LastOf(T)
<1>1. /\ S \in SUBSET Place /\ RecordsOf(k)' = T
      /\ S # {} => a \in S /\ \A d \in S \ {a} : Before(d, a)
      /\ T # {} => b \in T /\ file'[b.seg].recs[b.pos] = file[b.seg].recs[b.pos]
  <2>1. S \in SUBSET Place
    BY RecordsAre
  <2>2. S # {} => a \in S /\ \A d \in S \ {a} : Before(d, a)
    BY LastExists
  <2>3. T # {} => b \in T
    <3> HIDE DEF T
    <3>1. T \in SUBSET RecordsOf(k)
      BY DEF T
    <3> QED
      BY <3>1, LastExists
  <2>4. RecordsOf(k)' = T /\ \A e \in T : file'[e.seg].recs[e.pos] = file[e.seg].recs[e.pos]
    BY LeftRecords DEF RecordAt
  <2> HIDE DEF T, b
  <2> QED
    BY <2>1, <2>2, <2>3, <2>4
<1>2. LatestLoc(k)' = IF T = {} \/ IsTombstone(file[b.seg].recs[b.pos]) THEN NoLoc ELSE b
  <2>1. LatestLoc(k)' = IF RecordsOf(k)' = {}
                           \/ IsTombstone(file'[LastOf(RecordsOf(k)').seg].recs[LastOf(RecordsOf(k)').pos])
                        THEN NoLoc ELSE LastOf(RecordsOf(k)')
    BY DEF LatestLoc, RecordAt, IsTombstone, LastOf, Before
  <2>2. RecordsOf(k)' = T
    BY <1>1
  <2>3. LatestLoc(k)' = IF T = {} \/ IsTombstone(file'[b.seg].recs[b.pos]) THEN NoLoc ELSE b
    BY <2>1, <2>2
  <2> HIDE DEF T, b
  <2> QED
    BY <1>1, <2>3
<1>3. LatestLoc(k) = IF S = {} \/ IsTombstone(file[a.seg].recs[a.pos]) THEN NoLoc ELSE a
  BY DEF LatestLoc, RecordAt
<1> HIDE DEF a, b
<1>4. ASSUME S # {}, a.seg # i
      PROVE  LatestLoc(k)' = LatestLoc(k)
  <2>1. a \in T /\ \A d \in T \ {a} : Before(d, a)
    BY <1>1, <1>4
  <2>2. b = a
    <3>1. T \in SUBSET Place
      BY <1>1
    <3> HIDE DEF T
    <3> QED
      BY <2>1, <3>1, LastIs DEF b
  <2> QED
    BY <1>2, <1>3, <1>4, <2>1, <2>2
<1>5. ASSUME \A d \in S : d.seg # i => IsTombstone(RecordAt(d))
      PROVE  LatestLoc(k)' = NoLoc
  BY <1>1, <1>2, <1>5 DEF RecordAt
<1> QED
  BY <1>4, <1>5 DEF a

LEMMA RemoveFirm ==
    ASSUME IInv, IInv', RInv, NEW c \in Compactor, Remove(c)
    PROVE  RInv'
<1> DEFINE i == job[c].src
<1>1. /\ TypeOK /\ TypeOK' /\ SegsOnDisk /\ IdsBelow /\ DroppedUnused /\ JobSound(c)
      /\ job[c].pc = "remove" /\ i \in mapped /\ dir' = dir \ {i}
      /\ file' = [file EXCEPT ![i] = NoFile] /\ weak' = weak \cup Undeleted(i)
      /\ UNCHANGED <<snap, proc, idx, segments, active, compactOut, nextSegID>>
  BY DEF IInv, Remove, mem
<1>2. /\ proc # "down" /\ i \in SegID /\ i \notin segments /\ i < nextSegID
      /\ i \notin {active, compactOut} /\ dir \subseteq SegID /\ nextSegID \in Int
      /\ \A k \in Key : idx[k].seg # i
  <2>1. /\ proc # "down" /\ i \in SegID /\ i \notin segments /\ i < nextSegID
        /\ i \notin {active, compactOut}
    BY <1>1 DEF JobSound
  <2>2. dir \subseteq SegID /\ nextSegID \in Int
    BY <1>1 DEF TypeOK
  <2>3. \A k \in Key : idx[k].seg # i
    BY <1>1, <2>1 DEF DroppedUnused
  <2> QED
    BY <2>1, <2>2, <2>3
<1> HIDE DEF i
<1>3. /\ \A j \in SegID \ {i} : file'[j] = file[j]
      /\ file'[i].recs = <<>>
  BY <1>1, <1>2 DEF TypeOK, NoFile
<1>4. ASSUME NEW k \in Key
      PROVE  RecordsOf(k)' = { a \in RecordsOf(k) : a.seg # i }
  BY <1>1, <1>2, LeftRecords
\* Of a key that stays firm the last record is another, or says the same.
<1>5. ASSUME NEW k \in Key \ weak'
      PROVE  LatestLoc(k)' = LatestLoc(k) /\ idx[k] = LatestLoc(k)
  <2> DEFINE S == RecordsOf(k)
             a == LastOf(S)
  <2>1. idx[k] = LatestLoc(k)
    BY <1>1, <1>2 DEF RInv, IndexIsLatest
  <2>2. S # {} => a \in S
    BY <1>1, LastExists
  <2>3. LatestLoc(k) = IF S = {} \/ IsTombstone(RecordAt(a)) THEN NoLoc ELSE a
    BY DEF LatestLoc
  <2>4. /\ S # {} /\ a.seg # i => LatestLoc(k)' = LatestLoc(k)
        /\ (\A d \in S : d.seg # i => IsTombstone(RecordAt(d))) => LatestLoc(k)' = NoLoc
    BY <1>1, <1>2, LeftLatest
  <2> HIDE DEF a
  <2>5. CASE S = {}
    BY <2>1, <2>3, <2>4, <2>5
  <2>6. CASE S # {} /\ a.seg # i
    BY <2>1, <2>4, <2>6
  <2>7. CASE S # {} /\ a.seg = i
    <3>1. IsTombstone(RecordAt(a)) /\ idx[k] = NoLoc
      BY <1>2, <2>1, <2>3, <2>7
    <3>2. k \notin Undeleted(i)
      BY <1>1
    <3>3. \A d \in S : d.seg # i => IsTombstone(RecordAt(d))
      BY <2>2, <2>7, <3>1, <3>2 DEF Undeleted
    <3> QED
      BY <2>1, <2>4, <3>1, <3>3
  <2> QED
    BY <2>5, <2>6, <2>7
<1>6. IndexIsLatest'
  BY <1>1, <1>5 DEF IndexIsLatest
<1>7. UseSnapshot' => UseSnapshot /\ snap.wm # i
  BY <1>1 DEF UseSnapshot
<1>8. SnapshotIsLatest'
  <2> SUFFICES ASSUME UseSnapshot', NEW k \in Key \ weak', Replayed(k)' = {}
               PROVE  snap.idx[k] = LatestLoc(k)
    BY <1>1, <1>5 DEF SnapshotIsLatest
  <2>1. k \notin weak /\ LatestLoc(k) = idx[k] /\ k \notin Undeleted(i)
    BY <1>1, <1>5
  <2>2. CASE Replayed(k) = {}
    BY <1>7, <2>1, <2>2 DEF RInv, SnapshotIsLatest
  <2>3. CASE Replayed(k) # {}
    <3> DEFINE a == LastOf(Replayed(k))
    <3>1. a \in Replayed(k) /\ a \in RecordsOf(k) /\ a = LastOf(RecordsOf(k)) /\ RecordsOf(k) # {}
      <4>1. Replayed(k) \in SUBSET RecordsOf(k)
        BY DEF Replayed
      <4> QED
        BY <1>1, <2>3, <4>1, LastExists, ReplayedLast
    <3>2. a.seg = i
      <4>1. a \notin Replayed(k)'
        OBVIOUS
      <4>2. a.seg > snap.wm \/ (a.seg = snap.wm /\ a.pos > snap.at)
        BY <1>7, <3>1 DEF Replayed
      <4> HIDE DEF a
      <4>3. a \in RecordsOf(k)' => a \in Replayed(k)'
        BY <1>1, <4>2 DEF Replayed
      <4> QED
        BY <1>4, <3>1, <4>1, <4>3
    <3>3. LatestLoc(k) = IF IsTombstone(RecordAt(a)) THEN NoLoc ELSE a
      BY <3>1 DEF LatestLoc
    <3> HIDE DEF a
    <3>4. IsTombstone(RecordAt(a)) /\ idx[k] = NoLoc
      BY <1>2, <2>1, <3>2, <3>3
    <3> QED
      BY <2>1, <3>1, <3>2, <3>4 DEF Undeleted
  <2> QED
    BY <2>2, <2>3
<1>9. WatermarkPassed'
  <2>1. nextSegID - 1 \in dir'
    BY <1>1, <1>2 DEF IdsBelow
  <2>2. snap.wm # NoSeg => \E j \in dir' : snap.wm <= j
    <3>1. snap.wm \in Int
      BY <1>1 DEF TypeOK, NoSeg, SegID
    <3>2. snap.wm < nextSegID
      BY <1>2 DEF RInv, WatermarkPassed
    <3> QED
      BY <1>2, <2>1, <3>1, <3>2
  <2>3. UseSnapshot' => snap.at <= Len(file'[snap.wm].recs)
    BY <1>1, <1>2, <1>3, <1>7 DEF RInv, WatermarkPassed, UseSnapshot
  <2> QED
    BY <1>1, <1>2, <2>2, <2>3 DEF RInv, WatermarkPassed
<1>10. GoneIsEmpty'
  BY <1>1, <1>3 DEF RInv, GoneIsEmpty
<1>11. EntriesKnown'
  BY <1>1 DEF RInv, EntriesKnown
<1> QED
  BY <1>1, <1>6, <1>8, <1>9, <1>10, <1>11 DEF RInv, SnapshotWanted

\* The process ends, in a crash or under a scan.
LEMMA VanishFirm ==
    ASSUME IInv, IInv', RInv, Vanish
    PROVE  RInv'
<1>1. UNCHANGED <<dir, file, snap, weak>> /\ proc' = "down"
  BY DEF Vanish, EndProcess, disk
<1> QED
  BY <1>1, QuietStep DEF EntriesKnown

\* A compactor's step between the appends and the removals.
LEMMA CompactorFirm ==
    ASSUME IInv, IInv', RInv, NEW c \in Compactor,
           \/ StartPass(c) \/ Pick(c) \/ Check(c) \/ BeginScan(c) \/ SkipRecord(c)
           \/ RemoveFails(c)
    PROVE  RInv'
<1>1. /\ UNCHANGED <<dir, file, snap, weak, idx, segments, nextSegID, proc>>
  BY DEF StartPass, Pick, Check, BeginScan, SkipRecord, RemoveFails, disk, mem
<1>2. proc # "down"
  BY DEF IInv, JobSound, StartPass, Pick, Check, BeginScan, SkipRecord, RemoveFails, Scanning
<1>3. EntriesKnown'
  BY <1>1 DEF RInv, EntriesKnown
<1> QED
  BY <1>1, <1>2, <1>3, QuietStep

LEMMA CreateFailsFirm ==
    ASSUME IInv, IInv', RInv, proc # "down", NEW cur \in {active, compactOut}, CreateFails(cur),
           UNCHANGED <<snap, proc, idx, segments, nextSegID, weak>>
    PROVE  RInv'
<1>1. /\ TypeOK /\ file \in [SegID -> File]
  BY DEF IInv, TypeOK, File
<1>2. cur \in SegID \cup {NoSeg}
  BY <1>1 DEF TypeOK
<1>3. \A i \in SegID : file'[i].recs = file[i].recs
  BY <1>1, <1>2, FinalizedKeeps DEF CreateFails
<1>4. dir \subseteq dir' /\ \A i \in dir' \ dir : i = nextSegID
  BY DEF CreateFails
<1>5. EntriesKnown'
  <2>1. \A k \in Key : idx[k].seg # nextSegID
    <3>1. nextSegID \in Int
      BY <1>1 DEF TypeOK
    <3> QED
      BY <3>1 DEF IInv, IdsBelow
  <2> QED
    BY <1>4, <2>1 DEF RInv, EntriesKnown
<1> QED
  BY <1>3, <1>4, <1>5, QuietStep

LEMMA DropFirm ==
    ASSUME IInv, IInv', RInv, NEW c \in Compactor, Drop(c)
    PROVE  RInv'
<1> DEFINE i == job[c].src
<1>1. /\ UNCHANGED <<dir, file, snap, weak, idx, nextSegID, proc>>
      /\ segments' = segments \ {i} /\ job[c].pc = "drop" /\ JobSound(c) /\ SegsOnDisk
  BY DEF Drop, disk, IInv
<1>2. proc # "down"
  BY <1>1 DEF JobSound
<1>3. EntriesKnown'
  BY <1>1 DEF RInv, EntriesKnown, JobSound, SegsOnDisk
<1> QED
  BY <1>1, <1>2, <1>3, QuietStep

LEMMA ScanUnmappedFirm ==
    ASSUME IInv, IInv', RInv, NEW c \in Compactor, ScanUnmapped(c)
    PROVE  RInv'
<1>1. CASE Vanish
  BY <1>1, VanishFirm
<1>2. CASE UNCHANGED <<disk, proc, mem, weak>>
  <2>1. UNCHANGED <<dir, file, snap, weak, idx, segments, nextSegID, proc>>
    BY <1>2 DEF disk, mem
  <2>2. EntriesKnown' /\ proc # "down"
    BY <2>1 DEF RInv, EntriesKnown, ScanUnmapped, IInv, JobSound
  <2> QED
    BY <2>1, <2>2, QuietStep
<1> QED
  BY <1>1, <1>2 DEF ScanUnmapped

\* Close, up to its saving the index.
LEMMA CloseFirm ==
    ASSUME IInv, IInv', RInv, BeginClose \/ SnapshotFails
    PROVE  RInv'
<1>1. UNCHANGED <<dir, file, snap, weak, idx, segments, nextSegID>> /\ proc # "down"
      /\ proc' \in {"closing", "closed"} /\ (proc' = "closing" => proc = "open")
  BY DEF BeginClose, SnapshotFails, Stopped, disk, mem
<1>2. EntriesKnown'
  BY <1>1 DEF RInv, EntriesKnown
<1> QED
  BY <1>1, <1>2, QuietStep

\* Once the index is saved nothing is replayed over it.
LEMMA NothingReplayed ==
    ASSUME IInv, proc # "down", UNCHANGED <<dir, file>>, snap' = SnapshotOfIndex, NEW k \in Key,
           \A i \in dir : i <= active
    PROVE  Replayed(k)' = {} /\ UseSnapshot'
<1>1. /\ TypeOK /\ active \in dir /\ active \in SegID
      /\ snap'.wm = active /\ snap'.at = Len(file[active].recs)
      /\ file[active].recs \in Seq(Record)
  <2>1. TypeOK /\ active \in dir
    BY DEF IInv, SegsOnDisk
  <2>2. active \in SegID /\ file[active].recs \in Seq(Record)
    BY <2>1 DEF TypeOK
  <2> QED
    BY <2>1, <2>2 DEF SnapshotOfIndex
<1>2. ASSUME NEW a \in RecordsOf(k)
      PROVE  ~(a.seg > active) /\ ~(a.seg = active /\ a.pos > Len(file[active].recs))
  <2>1. a \in Place /\ a.seg \in dir /\ a.pos \in DOMAIN file[a.seg].recs
    BY <1>1, RecordsAre
  <2>2. ~(a.seg > active)
    BY <1>1, <2>1 DEF Place, SegID
  <2>3. a.seg = active => a.pos \in 1 .. Len(file[active].recs)
    BY <1>1, <2>1
  <2> QED
    BY <1>1, <2>2, <2>3
<1>3. RecordsOf(k)' = RecordsOf(k)
  BY DEF RecordsOf
<1>4. UseSnapshot'
  BY <1>1 DEF UseSnapshot
<1> QED
  BY <1>1, <1>2, <1>3, <1>4 DEF Replayed

\* Close saves the index, or was told not to.
LEMMA SaveFirm ==
    ASSUME IInv, IInv', RInv, FinishClose \/ CloseCutShort
    PROVE  RInv'
<1>1. /\ UNCHANGED <<dir, file, weak, idx, segments, nextSegID, active>>
      /\ proc = "closing" /\ proc' = "closed"
      /\ snap' = IF SnapshotOnClose THEN SnapshotOfIndex ELSE snap
  BY DEF FinishClose, CloseCutShort, Stopped, mem
<1>2. CASE ~SnapshotOnClose
  BY <1>1, <1>2, QuietStep DEF EntriesKnown
<1>3. CASE SnapshotOnClose
  <2>1. /\ TypeOK /\ TypeOK' /\ IdsBelow /\ active \in dir
        /\ snap'.wm = active /\ snap'.at = Len(file[active].recs) /\ snap'.idx = idx
    BY <1>1, <1>3 DEF IInv, SegsOnDisk, SnapshotOfIndex
  <2>2. \A k \in Key : RecordsOf(k)' = RecordsOf(k) /\ LatestLoc(k)' = LatestLoc(k)
    <3>1. dir \subseteq dir' /\ \A i \in SegID : file'[i].recs = file[i].recs
      BY <1>1
    <3>2. dir' \ dir = {}
      BY <1>1
    <3> QED
      BY <2>1, <3>1, <3>2, SameRecords
  <2>3. IndexIsLatest'
    BY <1>1, <2>2 DEF RInv, IndexIsLatest
  <2>4. SnapshotIsLatest'
    BY <1>1, <2>1, <2>2 DEF RInv, IndexIsLatest, SnapshotIsLatest
  <2>5. WatermarkPassed'
    <3>1. active \in Int /\ Len(file[active].recs) \in Int
      <4>1. active \in SegID /\ file[active].recs \in Seq(Record)
        BY <2>1 DEF TypeOK
      <4> QED
        BY <4>1 DEF SegID
    <3>2. active < nextSegID
      BY <1>1, <2>1 DEF IdsBelow
    <3> QED
      BY <1>1, <2>1, <3>1, <3>2 DEF WatermarkPassed
  <2>6. GoneIsEmpty' /\ EntriesKnown' /\ SnapshotWanted'
    BY <1>1, <1>3 DEF RInv, GoneIsEmpty, EntriesKnown, SnapshotWanted
  <2> QED
    BY <2>3, <2>4, <2>5, <2>6 DEF RInv
<1> QED
  BY <1>2, <1>3

\* Without the snapshot everything is replayed.
LEMMA RemoveSnapshotFirm ==
    ASSUME IInv, IInv', RInv, NEW c \in Compactor, RemoveSnapshot(c)
    PROVE  RInv'
<1>1. /\ UNCHANGED <<dir, file, weak, idx, segments, nextSegID, proc>>
      /\ snap' = NoSnap \/ snap' = snap
      /\ TypeOK /\ TypeOK' /\ proc # "down"
  BY DEF RemoveSnapshot, mem, IInv, JobSound
<1>2. CASE snap' = snap
  BY <1>1, <1>2, QuietStep DEF RInv, EntriesKnown
<1>3. CASE snap' = NoSnap
  <2>1. snap'.wm = NoSeg /\ NoSeg \notin dir'
    BY <1>1, <1>3 DEF NoSnap, TypeOK, NoSeg, SegID
  <2>2. \A k \in Key : RecordsOf(k)' = RecordsOf(k) /\ LatestLoc(k)' = LatestLoc(k)
    <3>1. dir \subseteq dir' /\ \A i \in SegID : file'[i].recs = file[i].recs
      BY <1>1
    <3>2. dir' \ dir = {}
      BY <1>1
    <3> QED
      BY <1>1, <3>1, <3>2, SameRecords
  <2>3. IndexIsLatest'
    BY <1>1, <2>2 DEF RInv, IndexIsLatest
  <2>4. ~UseSnapshot'
    BY <2>1 DEF UseSnapshot
  <2>5. SnapshotIsLatest'
    BY <2>4 DEF SnapshotIsLatest
  <2>6. WatermarkPassed'
    <3>1. NoSeg < nextSegID
      <4>1. nextSegID \in Nat
        BY <1>1 DEF TypeOK
      <4> QED
        BY <4>1 DEF NoSeg
    <3> QED
      BY <1>1, <2>1, <2>4, <3>1 DEF WatermarkPassed
  <2>7. GoneIsEmpty' /\ EntriesKnown' /\ SnapshotWanted'
    BY <1>1, <2>1 DEF RInv, GoneIsEmpty, EntriesKnown, SnapshotWanted
  <2> QED
    BY <2>3, <2>5, <2>6, <2>7 DEF RInv
<1> QED
  BY <1>1, <1>2, <1>3

\* Open leaves every record where it is, and so every key's last one.
LEMMA OpenKeepsRecords ==
    ASSUME IInv, IInv', GoneIsEmpty, Open
    PROVE  /\ dir \subseteq dir' /\ dir' # {}
           /\ \A i \in SegID : file'[i].recs = file[i].recs
           /\ \A i \in dir' \ dir : dir = {} /\ file[i].recs = <<>>
           /\ \A k \in Key : RecordsOf(k)' = RecordsOf(k) /\ LatestLoc(k)' = LatestLoc(k)
<1>1. TypeOK /\ TypeOK' /\ file \in [SegID -> File] /\ dir \subseteq SegID /\ 0 \in SegID
  <2>1. TypeOK /\ TypeOK'
    BY DEF IInv
  <2>2. file \in [SegID -> File]
    BY <2>1 DEF TypeOK, File
  <2>3. dir \subseteq SegID
    BY <2>1 DEF TypeOK
  <2>4. 0 \in SegID
    BY BoundAssumption DEF SegID
  <2> QED
    BY <2>1, <2>2, <2>3, <2>4
<1>2. CASE dir = {}
  <2>1. dir' = {0} /\ file' = [file EXCEPT ![0] = NewFile]
    BY <1>2 DEF Open
  <2>2. \A i \in SegID : file[i].recs = <<>>
    BY <1>2 DEF GoneIsEmpty
  <2>3. NewFile.recs = <<>>
    BY NewFileShape
  <2>4. \A i \in SegID : file'[i].recs = file[i].recs
    BY <1>1, <2>1, <2>2, <2>3
  <2>5. \A i \in dir' \ dir : file[i].recs = <<>>
    BY <1>1, <2>1, <2>2
  <2>6. \A k \in Key : RecordsOf(k)' = RecordsOf(k) /\ LatestLoc(k)' = LatestLoc(k)
    BY <1>1, <1>2, <2>4, <2>5, SameRecords
  <2> QED
    BY <1>2, <2>1, <2>4, <2>5, <2>6
<1>3. CASE dir # {}
  <2>1. dir' = dir
        /\ file' = [i \in SegID |->
                      IF i \in dir \ {Max(dir)} /\ ~(UseSnapshot /\ i < snap.wm)
                      THEN Finalized(file[i]) ELSE file[i]]
    BY <1>3 DEF Open
  <2>2. \A i \in SegID : Finalized(file[i]).recs = file[i].recs
    BY <1>1 DEF File, Finalized
  <2>3. \A i \in SegID : file'[i].recs = file[i].recs
    BY <2>1, <2>2
  <2>4. \A i \in dir' \ dir : file[i].recs = <<>>
    BY <2>1
  <2>5. \A k \in Key : RecordsOf(k)' = RecordsOf(k) /\ LatestLoc(k)' = LatestLoc(k)
    BY <1>1, <2>1, <2>3, <2>4, SameRecords
  <2> QED
    BY <1>3, <2>1, <2>3, <2>5
<1> QED
  BY <1>2, <1>3

\* Open forgets which keys were weak when it replays everything, since its index then
\* agrees with the records by construction.
LEMMA OpenFirm ==
    ASSUME IInv, IInv', RInv, Open
    PROVE  RInv'
<1>1. /\ TypeOK /\ TypeOK' /\ idx' = [k \in Key |-> RecoveredLoc(k)]
      /\ snap' = snap /\ segments' = dir' /\ active' = Max(dir') /\ nextSegID' = Max(dir') + 1
      /\ weak' = IF UseSnapshot THEN weak ELSE {}
  BY DEF IInv, Open
<1>2. /\ dir \subseteq dir' /\ dir' # {}
      /\ \A i \in SegID : file'[i].recs = file[i].recs
      /\ \A i \in dir' \ dir : dir = {} /\ file[i].recs = <<>>
      /\ \A k \in Key : RecordsOf(k)' = RecordsOf(k) /\ LatestLoc(k)' = LatestLoc(k)
  BY OpenKeepsRecords DEF RInv
<1>3. IndexIsLatest'
  <2> SUFFICES ASSUME NEW k \in Key \ weak'
               PROVE  RecoveredLoc(k) = LatestLoc(k)
    BY <1>1, <1>2 DEF IndexIsLatest
  <2>1. CASE UseSnapshot
    BY <1>1, <2>1, FirmRecovers DEF RInv
  <2>2. CASE ~UseSnapshot
    BY <1>1, <2>2, RecoversLatest
  <2> QED
    BY <2>1, <2>2
<1>4. UseSnapshot' <=> UseSnapshot
  <2>1. CASE dir = {}
    <3>1. snap.wm = NoSeg /\ NoSeg \notin dir'
      BY <1>1, <2>1 DEF RInv, WatermarkPassed, TypeOK, NoSeg, SegID
    <3> QED
      BY <1>1, <2>1, <3>1 DEF UseSnapshot
  <2>2. CASE dir # {}
    <3>1. dir' = dir
      BY <1>2, <2>2
    <3> QED
      BY <1>1, <3>1 DEF UseSnapshot
  <2> QED
    BY <2>1, <2>2
<1>5. SnapshotIsLatest'
  <2> SUFFICES ASSUME UseSnapshot, NEW k \in Key \ weak, Replayed(k)' = {}
               PROVE  snap.idx[k] = LatestLoc(k)
    BY <1>1, <1>2, <1>4 DEF SnapshotIsLatest
  <2>1. Replayed(k)' = Replayed(k)
    BY <1>1, <1>2, <1>4 DEF Replayed
  <2> QED
    BY <2>1 DEF RInv, SnapshotIsLatest
<1>6. WatermarkPassed'
  <2> DEFINE m == Max(dir')
  <2>1. m \in dir' /\ m \in Int /\ \A j \in dir' : j \in Int /\ j <= m
    <3>1. dir' \in SUBSET SegID
      BY <1>1 DEF TypeOK
    <3>2. m \in dir' /\ \A j \in dir' : j <= m
      BY <1>2, <3>1, MaxSeg
    <3> HIDE DEF m
    <3> QED
      BY <3>1, <3>2 DEF SegID
  <2>2. nextSegID' = m + 1
    BY <1>1
  <2> HIDE DEF m
  <2>3. snap.wm # NoSeg => \E j \in dir' : snap.wm <= j
    BY <1>2 DEF RInv, WatermarkPassed
  <2>4. snap.wm \in Int
    BY <1>1 DEF TypeOK, NoSeg, SegID
  <2>5. snap.wm < nextSegID'
    <3>1. CASE snap.wm = NoSeg
      <4>1. m \in SegID
        BY <1>1, <2>1 DEF TypeOK
      <4> QED
        BY <2>2, <3>1, <4>1 DEF NoSeg, SegID
    <3>2. CASE snap.wm # NoSeg
      BY <2>1, <2>2, <2>3, <2>4, <3>2
    <3> QED
      BY <3>1, <3>2
  <2>6. UseSnapshot => snap.at <= Len(file'[snap.wm].recs)
    <3>1. UseSnapshot => snap.wm \in SegID
      BY <1>1 DEF UseSnapshot, TypeOK
    <3> QED
      BY <1>2, <3>1 DEF RInv, WatermarkPassed
  <2> QED
    BY <1>1, <1>4, <2>3, <2>5, <2>6 DEF WatermarkPassed
<1>7. GoneIsEmpty'
  BY <1>2 DEF RInv, GoneIsEmpty
<1>8. EntriesKnown' /\ SnapshotWanted'
  BY <1>1 DEF RInv, EntriesKnown, SnapshotWanted
<1> QED
  BY <1>3, <1>5, <1>6, <1>7, <1>8 DEF RInv

-----------------------------------------------------------------------------
(* The invariant. *)

LEMMA InitRInv == Init => RInv
<1> SUFFICES ASSUME Init
             PROVE  RInv
  OBVIOUS
<1>1. snap.wm = NoSeg /\ dir = {} /\ proc = "down" /\ \A i \in SegID : file[i].recs = <<>>
  BY DEF Init, NoSnap, NoFile
<1> QED
  BY <1>1 DEF RInv, IndexIsLatest, SnapshotIsLatest, WatermarkPassed, GoneIsEmpty, EntriesKnown,
              SnapshotWanted, UseSnapshot

LEMMA NextRInv == IInv /\ IInv' /\ RInv /\ [Next]_vars => RInv'
<1> SUFFICES ASSUME IInv, IInv', RInv, [Next]_vars
             PROVE  RInv'
  OBVIOUS
<1>1. CASE Open
  BY <1>1, OpenFirm
<1>2. ASSUME NEW k \in Key, NEW v \in Val, Put(k, v)
      PROVE  RInv'
  <2>1. v # Absent /\ Write(k, v) /\ idx' = [idx EXCEPT ![k] = EndOf(active')]
    BY <1>2, ValueAssumption DEF Put
  <2> QED
    BY <2>1, WriteFirm
<1>3. ASSUME NEW k \in Key, Delete(k)
      PROVE  RInv'
  <2>1. Write(k, Absent) /\ idx' = [idx EXCEPT ![k] = NoLoc]
    BY <1>3 DEF Delete
  <2> QED
    BY <2>1, WriteFirm
<1>4. CASE WriteFails
  <2>1. /\ proc # "down" /\ CreateFails(active)
        /\ UNCHANGED <<snap, proc, idx, segments, nextSegID, weak>>
    BY <1>4 DEF WriteFails, mem
  <2> QED
    BY <2>1, CreateFailsFirm
<1>5. ASSUME NEW c \in Compactor, RelocateFails(c)
      PROVE  RInv'
  <2>1. /\ proc # "down" /\ CreateFails(compactOut)
        /\ UNCHANGED <<snap, proc, idx, segments, nextSegID, weak>>
    BY <1>5 DEF RelocateFails, IInv, JobSound, Scanning
  <2> QED
    BY <2>1, CreateFailsFirm
<1>6. ASSUME NEW c \in Compactor, StartPass(c) \/ CompactorStep(c)
      PROVE  RInv'
  BY <1>5, <1>6, CompactorFirm, RelocateFirm, ScanUnmappedFirm, DropFirm, RemoveFirm,
     RemoveSnapshotFirm DEF CompactorStep
<1>7. CASE BeginClose \/ SnapshotFails
  BY <1>7, CloseFirm
<1>8. CASE FinishClose \/ CloseCutShort
  BY <1>8, SaveFirm
<1>9. CASE Crash
  BY <1>9, VanishFirm DEF Crash
<1>10. CASE UNCHANGED vars
  <2>1. UNCHANGED <<dir, file, snap, weak, idx, segments, nextSegID, proc>>
    BY <1>10 DEF vars, disk, mem
  <2>2. EntriesKnown'
    BY <2>1 DEF RInv, EntriesKnown
  <2>3. \A i \in SegID : file'[i].recs = file[i].recs
    BY <2>1
  <2>4. dir \subseteq dir' /\ \A i \in dir' \ dir : i = nextSegID /\ proc # "down"
    BY <2>1
  <2> QED
    BY <2>1, <2>2, <2>3, <2>4, QuietStep
<1> QED
  BY <1>1, <1>2, <1>3, <1>4, <1>6, <1>7, <1>8, <1>9, <1>10 DEF Next

\* Of every key that is not weak, the index and the snapshot agree with its last
\* record on disk, in every state the DB reaches.
THEOREM RecoveryInvariance == Spec => [](IInv /\ RInv)
<1>1. Init => IInv /\ RInv
  BY InitIInv, InitRInv
<1>2. (IInv /\ RInv) /\ [Next]_vars => (IInv /\ RInv)'
  BY NextIInv, NextRInv
<1> QED
  BY <1>1, <1>2, PTL DEF Spec

-----------------------------------------------------------------------------
(* What reads return, now and after a restart. *)

Reading == Val \cup {Absent, Missing}

\* The value a key has by its last record on disk.
LatestValue(k) == ValueIn(dir, LatestLoc(k))

ReadsAgree ==
    /\ Content \in [Key -> Reading] /\ Recovered \in [Key -> Reading]
    /\ \A k \in Key \ weak :
        /\ Recovered[k] = LatestValue(k)
        /\ proc \in {"open", "closing"} => Content[k] = LatestValue(k)

LEMMA ValueInType ==
    ASSUME TypeOK, NEW k \in Key, NEW a \in Location, Sound(k, a), NEW S \in SUBSET dir
    PROVE  ValueIn(S, a) \in Reading
<1>1. CASE a.seg \in S /\ a # NoLoc
  <2>1. /\ a.seg \in dir /\ dir \subseteq SegID
        /\ a.pos \in DOMAIN file[a.seg].recs
    BY <1>1 DEF Sound, TypeOK
  <2>2. file[a.seg].recs \in Seq(Record)
    BY <2>1 DEF TypeOK
  <2>3. RecordAt(a) \in Record
    BY <2>1, <2>2 DEF RecordAt
  <2>4. RecordAt(a).val \in Val \cup {Absent}
    BY <2>3 DEF Record
  <2> QED
    BY <1>1, <2>4 DEF ValueIn, Reading
<1> QED
  BY <1>1 DEF ValueIn, Reading

LEMMA ReadsAgreeHolds == IInv /\ RInv => ReadsAgree
<1> SUFFICES ASSUME IInv, RInv
             PROVE  ReadsAgree
  OBVIOUS
<1>1. /\ TypeOK /\ LocsSound /\ SegsOnDisk /\ IdsBelow /\ segments \subseteq dir
  BY DEF IInv, SegsOnDisk
<1>2. idx \in [Key -> Location]
  BY <1>1 DEF TypeOK
<1>3. \A k \in Key : ValueIn(segments, idx[k]) \in Reading
  BY <1>1, <1>2, ValueInType DEF LocsSound
<1>4. \A k \in Key : ValueIn(dir, RecoveredLoc(k)) \in Reading
  BY <1>1, RecoveredLocSound, ValueInType
<1>5. ASSUME NEW k \in Key \ weak
      PROVE  Recovered[k] = LatestValue(k)
  BY <1>1, FirmRecovers DEF RInv, Recovered, LatestValue
<1>6. ASSUME NEW k \in Key \ weak, proc \in {"open", "closing"}
      PROVE  Content[k] = LatestValue(k)
  <2>1. idx[k] = LatestLoc(k)
    BY <1>6 DEF RInv, IndexIsLatest
  <2>2. idx[k].seg \in segments <=> idx[k].seg \in dir
    BY <1>1, <1>6 DEF RInv, EntriesKnown
  <2> QED
    BY <2>1, <2>2 DEF Content, LatestValue, ValueIn
<1> QED
  BY <1>3, <1>4, <1>5, <1>6 DEF ReadsAgree, Content, Recovered

Inv == IInv /\ RInv /\ ReadsAgree

LEMMA InvHolds == Spec => []Inv
<1>1. IInv /\ RInv => Inv
  BY ReadsAgreeHolds DEF Inv
<1> QED
  BY <1>1, RecoveryInvariance, PTL

\* At any moment a reopen brings back what reads return now, but for the weak keys:
\* the order of the records on disk is the order of the writes, and a snapshot that
\* is used agrees with it (recovery.go recover).
THEOREM Recoverable == Spec => []RecoverableUnlessWeak
<1>1. Inv => RecoverableUnlessWeak
  BY DEF Inv, ReadsAgree, RecoverableUnlessWeak
<1> QED
  BY <1>1, InvHolds, PTL

\* A close that saves the index brings every key back, the weak ones too, if no
\* segment lies above the watermark (index_snapshot.go saveSnapshot).
THEOREM CleanCloseIsExact == Spec => CleanCloseRestoresAll
<1> DEFINE A == (/\ proc = "closing" /\ proc' = "closed" /\ ioErrs' = ioErrs
                 /\ snap'.wm = active /\ active = Max(dir)) => Recovered' = Content
<1>1. Inv /\ [Next]_vars => A
  <2> SUFFICES ASSUME Inv, [Next]_vars, proc = "closing", proc' = "closed", ioErrs' = ioErrs,
                      snap'.wm = active, active = Max(dir)
               PROVE  Recovered' = Content
    OBVIOUS
  <2>1. /\ TypeOK /\ SegsOnDisk /\ RInv /\ ioErrs \in Int /\ active \in dir /\ active # NoSeg
    <3>1. TypeOK /\ SegsOnDisk /\ RInv
      BY DEF Inv, IInv
    <3>2. ioErrs \in Int
      BY <3>1 DEF TypeOK
    <3>3. active \in dir /\ active # NoSeg
      BY <3>1 DEF SegsOnDisk
    <3> QED
      BY <3>1, <3>2, <3>3
  <2>2. FinishClose
    <3>1. ~SnapshotFails /\ ~CloseCutShort
      BY <2>1 DEF SnapshotFails, CloseCutShort
    <3>2. ~Open /\ ~WriteFails /\ ~BeginClose /\ ~Crash /\ ~UNCHANGED vars
      BY DEF Open, WriteFails, BeginClose, Crash, Vanish, EndProcess, vars
    <3>3. \A k \in Key, v \in Val \cup {Absent} : ~Write(k, v)
      BY DEF Write
    <3>4. \A c \in Compactor : ~StartPass(c) /\ ~CompactorStep(c)
      BY DEF StartPass, CompactorStep, Pick, Check, BeginScan, SkipRecord, Relocate,
             RelocateFails, ScanUnmapped, Vanish, EndProcess, Drop, Remove, RemoveFails,
             RemoveSnapshot
    <3> QED
      BY <3>1, <3>2, <3>3, <3>4 DEF Next, Put, Delete
  <2>3. UNCHANGED <<dir, file>> /\ snap' = SnapshotOfIndex
    <3>1. UNCHANGED <<dir, file>> /\ snap' = IF SnapshotOnClose THEN SnapshotOfIndex ELSE snap
      BY <2>2 DEF FinishClose
    <3>2. SnapshotOnClose
      BY <2>1, <3>1 DEF RInv, SnapshotWanted
    <3> QED
      BY <3>1, <3>2
  <2>4. \A i \in dir : i <= active
    <3>1. dir \in SUBSET SegID
      BY <2>1 DEF TypeOK
    <3> QED
      BY <2>1, <3>1, MaxSeg
  <2>5. ASSUME NEW k \in Key
        PROVE  ValueIn(dir, RecoveredLoc(k))' = ValueIn(segments, idx[k])
    <3>1. Replayed(k)' = {} /\ UseSnapshot'
      BY <2>3, <2>4, NothingReplayed DEF Inv
    <3>2. RecoveredLoc(k)' = idx[k]
      BY <2>3, <3>1 DEF RecoveredLoc, SnapshotOfIndex
    <3>3. idx[k].seg \in segments <=> idx[k].seg \in dir
      BY <2>1 DEF RInv, EntriesKnown, SegsOnDisk
    <3>4. ValueIn(dir, RecoveredLoc(k))' = ValueIn(dir, idx[k])
      BY <2>3, <3>2 DEF ValueIn, RecordAt
    <3> QED
      BY <3>3, <3>4 DEF ValueIn
  <2> QED
    BY <2>5 DEF Recovered, Content
<1> QED
  BY <1>1, InvHolds, PTL DEF Spec, CleanCloseRestoresAll

-----------------------------------------------------------------------------
(* The refinement of KVStore, step by step. *)

\* A write changes what reads return of its key, and of no other.
LEMMA WriteContent ==
    ASSUME IInv, NEW k \in Key, NEW v \in Val \cup {Absent}, Write(k, v),
           idx' = [idx EXCEPT ![k] = IF v = Absent THEN NoLoc ELSE EndOf(active')]
    PROVE  /\ Content' = [Content EXCEPT ![k] = v]
           /\ weak' \in {weak, weak \cup {k}}
<1> DEFINE r == [key |-> k, val |-> v]
<1>1. r \in Record /\ r.key = k /\ r.val = v
  BY DEF Record
<1>2. /\ TypeOK /\ LocsSound /\ SegsOnDisk /\ IdsBelow
      /\ AppendRecord(active, r) /\ active' = Target(active, r) /\ proc = "open"
  BY DEF Write, IInv
<1>3. active \in SegID \cup {NoSeg} /\ active \in segments /\ segments \subseteq dir
  <2>1. active \in segments /\ segments \subseteq dir
    BY <1>2 DEF SegsOnDisk
  <2> QED
    BY <1>2, <2>1 DEF TypeOK
<1>4. idx \in [Key -> Location] /\ nextSegID \in Int
  <2>1. idx \in [Key -> Location]
    BY <1>2 DEF TypeOK
  <2>2. nextSegID \in Int
    BY <1>2 DEF TypeOK
  <2> QED
    BY <2>1, <2>2
<1> HIDE DEF r
<1>5. /\ active' = active \/ (active' = nextSegID /\ active' \notin dir)
      /\ \A i \in dir : \A p \in DOMAIN file[i].recs : file'[i].recs[p] = file[i].recs[p]
      /\ file'[active'].recs[EndOf(active').pos] = r
      /\ EndOf(active').seg = active' /\ active' \in SegID
  BY <1>1, <1>2, <1>3, AppendRecordKeeps
<1>6. segments' = segments \cup {active'}
  BY <1>2, AppendGrows
<1>7. weak' \in {weak, weak \cup {k}}
  BY <1>1, <1>2 DEF AppendRecord
<1>8. ASSUME NEW h \in Key \ {k}
      PROVE  ValueIn(segments, idx[h])' = ValueIn(segments, idx[h])
  <2>1. idx'[h] = idx[h]
    BY <1>4
  <2>2. idx[h].seg \in segments' <=> idx[h].seg \in segments
    <3>1. idx[h].seg < nextSegID
      BY <1>2 DEF IdsBelow
    <3> QED
      BY <1>3, <1>4, <1>5, <1>6, <3>1
  <2>3. idx[h].seg \in segments =>
            file'[idx[h].seg].recs[idx[h].pos] = file[idx[h].seg].recs[idx[h].pos]
    BY <1>2, <1>3, <1>5 DEF LocsSound, Sound
  <2> QED
    BY <2>1, <2>2, <2>3 DEF ValueIn, RecordAt
<1>9. ValueIn(segments, idx[k])' = v
  <2>1. CASE v = Absent
    <3>1. idx'[k] = NoLoc
      BY <1>4, <2>1
    <3> QED
      BY <2>1, <3>1 DEF ValueIn
  <2>2. CASE v # Absent
    <3>1. idx'[k] = EndOf(active')
      BY <1>4, <2>2
    <3> DEFINE e == EndOf(active')
    <3>2. /\ idx'[k] = e /\ e.seg = active' /\ e.seg \in segments' /\ e # NoLoc
          /\ file'[e.seg].recs[e.pos] = r
      BY <1>5, <1>6, <3>1 DEF NoLoc, NoSeg, SegID
    <3> HIDE DEF e
    <3>3. ValueIn(segments, idx[k])' = file'[e.seg].recs[e.pos].val
      BY <3>2 DEF ValueIn, RecordAt
    <3> QED
      BY <1>1, <3>2, <3>3
  <2> QED
    BY <2>1, <2>2
<1> QED
  BY <1>7, <1>8, <1>9 DEF Content

\* A step that is no write and no Open leaves the last value of every key that stays
\* firm: first, while the index is there to name it.
LEMMA LatestStaysUp ==
    ASSUME IInv, IInv', RInv, RInv', [Next]_vars, writes' = writes, ~Open,
           proc # "down", proc' # "down", NEW k \in Key, k \notin weak, k \notin weak'
    PROVE  LatestValue(k)' = LatestValue(k)
<1>1. /\ TypeOK /\ LocsSound /\ SegsOnDisk /\ IdsBelow /\ DroppedUnused
  BY DEF IInv
<1>2. /\ idx \in [Key -> Location] /\ nextSegID \in Int /\ dir \subseteq SegID
      /\ NoLoc.seg = NoSeg /\ NoSeg \notin SegID
  <2>1. idx \in [Key -> Location]
    BY <1>1 DEF TypeOK
  <2>2. nextSegID \in Int
    BY <1>1 DEF TypeOK
  <2>3. dir \subseteq SegID
    BY <1>1 DEF TypeOK
  <2> QED
    BY <2>1, <2>2, <2>3 DEF NoLoc, NoSeg, SegID
<1>3. idx[k] = LatestLoc(k) /\ idx'[k] = LatestLoc(k)'
  BY DEF RInv, IndexIsLatest
<1>4. SUFFICES ValueIn(dir, idx[k])' = ValueIn(dir, idx[k])
  BY <1>3 DEF LatestValue, ValueIn, RecordAt
<1>5. ASSUME idx'[k] = idx[k], idx[k].seg \in dir' <=> idx[k].seg \in dir,
             idx[k].seg \in dir =>
                 file'[idx[k].seg].recs[idx[k].pos] = file[idx[k].seg].recs[idx[k].pos]
      PROVE  ValueIn(dir, idx[k])' = ValueIn(dir, idx[k])
  BY <1>5 DEF ValueIn, RecordAt
<1>6. idx[k].seg # nextSegID
  BY <1>1, <1>2 DEF IdsBelow
<1>7. ASSUME NEW c \in Compactor, Relocate(c)
      PROVE  ValueIn(dir, idx[k])' = ValueIn(dir, idx[k])
  <2> DEFINE r == Scanned(c)
             t == Target(compactOut, r)
             a == At(c)
  <2>1. /\ Scanning(c) /\ JobSound(c) /\ idx[r.key] = a /\ ~IsTombstone(r)
        /\ AppendRecord(compactOut, r)
        /\ idx' = [idx EXCEPT ![r.key] = EndOf(t)]
        /\ job[c].pc = "scan" /\ job[c].src \in mapped
    BY <1>7 DEF Relocate, IsLive, Scanning, IInv
  <2>2. a.seg = job[c].src /\ a.pos = job[c].pos /\ r = file[a.seg].recs[a.pos]
    BY DEF At, Scanned, RecordAt
  <2>3. /\ a.seg \in dir /\ a.pos \in DOMAIN file[a.seg].recs
        /\ file[a.seg].recs \in Seq(Record)
    BY <1>1, <2>1, <2>2 DEF JobSound, SegsOnDisk, TypeOK
  <2>4. r \in Record /\ r.key \in Key
    <3>1. file[a.seg].recs[a.pos] \in Record
      BY <2>3
    <3> QED
      BY <2>2, <3>1 DEF Record
  <2>5. compactOut \in SegID \cup {NoSeg} /\ compactOut \in dir \cup {NoSeg}
    <3>1. compactOut \in SegID \cup {NoSeg}
      BY <1>1 DEF TypeOK
    <3> QED
      BY <1>1, <3>1 DEF SegsOnDisk
  <2> HIDE DEF r, t, a
  <2>6. /\ t \in SegID /\ dir' = dir \cup {t}
        /\ t = compactOut \/ (t = nextSegID /\ t \notin dir)
        /\ EndOf(t).seg = t /\ file'[t].recs[EndOf(t).pos] = r
        /\ \A i \in dir : \A p \in DOMAIN file[i].recs : file'[i].recs[p] = file[i].recs[p]
    <3>1. dir' = dir \cup {t}
      BY <2>1 DEF AppendRecord, t
    <3>2. /\ TypeOK /\ AppendRecord(compactOut, r) /\ t = Target(compactOut, r)
          /\ compactOut \in SegID \cup {NoSeg} /\ r \in Record
      BY <1>1, <2>1, <2>4, <2>5 DEF t
    <3>3. /\ t \in SegID
          /\ \/ t = compactOut /\ nextSegID' = nextSegID
             \/ t = nextSegID /\ t \notin dir /\ nextSegID' = nextSegID + 1
          /\ file'[t].recs[EndOf(t).pos] = r
          /\ EndOf(t).seg = t
      BY <3>2, AppendRecordKeeps
    <3>4. \A i \in dir : \A p \in DOMAIN file[i].recs : file'[i].recs[p] = file[i].recs[p]
      BY <3>2, AppendRecordKeeps
    <3> QED
      BY <3>1, <3>3, <3>4
  <2>7. CASE k = r.key
    <3> DEFINE e == EndOf(t)
    <3>1. /\ idx'[k] = e /\ e.seg \in dir' /\ e # NoLoc /\ file'[e.seg].recs[e.pos] = r
      BY <1>2, <2>1, <2>4, <2>6, <2>7
    <3> HIDE DEF e
    <3>2. ValueIn(dir, idx[k])' = r.val
      BY <3>1 DEF ValueIn, RecordAt
    <3>3. ValueIn(dir, idx[k]) = r.val
      BY <1>2, <2>1, <2>2, <2>3, <2>7 DEF ValueIn, RecordAt
    <3> QED
      BY <3>2, <3>3
  <2>8. CASE k # r.key
    <3>1. idx'[k] = idx[k]
      BY <1>2, <2>1, <2>4, <2>8
    <3>2. idx[k].seg \in dir' <=> idx[k].seg \in dir
      <4>1. idx[k].seg # NoSeg => idx[k].seg \in SegID
        BY <1>2 DEF Location
      <4> QED
        BY <1>2, <1>6, <2>5, <2>6
    <3>3. idx[k].seg \in dir =>
              file'[idx[k].seg].recs[idx[k].pos] = file[idx[k].seg].recs[idx[k].pos]
      BY <1>1, <2>6 DEF LocsSound, Sound
    <3> QED
      BY <1>5, <3>1, <3>2, <3>3
  <2> QED
    BY <2>7, <2>8
<1>8. ASSUME NEW c \in Compactor, Remove(c)
      PROVE  ValueIn(dir, idx[k])' = ValueIn(dir, idx[k])
  <2>1. /\ idx' = idx /\ file' = [file EXCEPT ![job[c].src] = NoFile] /\ dir' = dir \ {job[c].src}
        /\ job[c].src \in mapped /\ job[c].src \notin segments
    BY <1>8 DEF Remove, IInv, JobSound, mem
  <2>2. idx[k].seg # job[c].src
    BY <1>1, <2>1 DEF DroppedUnused
  <2>3. idx[k].seg \in dir => file'[idx[k].seg] = file[idx[k].seg]
    <3>1. file \in [SegID -> File]
      BY <1>1 DEF TypeOK, File
    <3> QED
      BY <1>2, <2>1, <2>2, <3>1
  <2> QED
    BY <1>5, <2>1, <2>2, <2>3
<1>9. ASSUME NEW cur \in SegID \cup {NoSeg}, CreateFails(cur), UNCHANGED idx
      PROVE  ValueIn(dir, idx[k])' = ValueIn(dir, idx[k])
  <2>1. file \in [SegID -> File]
    BY <1>1 DEF TypeOK, File
  <2>2. \A i \in SegID : file'[i].recs = file[i].recs
    BY <1>9, <2>1, FinalizedKeeps DEF CreateFails
  <2>3. idx[k].seg \in dir' <=> idx[k].seg \in dir
    BY <1>6, <1>9 DEF CreateFails
  <2> QED
    BY <1>2, <1>5, <1>9, <2>2, <2>3
<1>10. CASE UNCHANGED <<idx, dir, file>>
  BY <1>5, <1>10
<1>11. ASSUME NEW c \in Compactor, StartPass(c) \/ CompactorStep(c),
              ~Relocate(c), ~Remove(c), ~RelocateFails(c)
       PROVE  UNCHANGED <<idx, dir, file>>
  BY <1>11 DEF StartPass, CompactorStep, Pick, Check, BeginScan, SkipRecord,
               ScanUnmapped, Vanish, EndProcess, Drop, RemoveFails, RemoveSnapshot, mem, disk
<1>12. ASSUME NEW c \in Compactor, RelocateFails(c)
       PROVE  ValueIn(dir, idx[k])' = ValueIn(dir, idx[k])
  BY <1>1, <1>9, <1>12 DEF RelocateFails, TypeOK
<1>13. CASE WriteFails
  BY <1>1, <1>9, <1>13 DEF WriteFails, TypeOK, mem
<1>14. CASE BeginClose \/ FinishClose \/ SnapshotFails \/ CloseCutShort \/ UNCHANGED vars
  BY <1>10, <1>14 DEF BeginClose, FinishClose, SnapshotFails, CloseCutShort, vars, mem, disk
<1>15. ~Crash
  BY DEF Crash, Vanish, EndProcess
<1>16. ASSUME NEW h \in Key, NEW v \in Val \cup {Absent}, Write(h, v)
       PROVE  FALSE
  BY <1>1, <1>16 DEF Write, TypeOK
<1> QED
  BY <1>7, <1>8, <1>10, <1>11, <1>12, <1>13, <1>14, <1>15, <1>16 DEF Next, Put, Delete

\* And when the process ends, or is not there.
LEMMA LatestStaysDown ==
    ASSUME IInv, IInv', UNCHANGED <<dir, file>>, NEW k \in Key
    PROVE  LatestValue(k)' = LatestValue(k)
<1>1. TypeOK /\ TypeOK'
  BY DEF IInv
<1>2. RecordsOf(k)' = RecordsOf(k) /\ LatestLoc(k)' = LatestLoc(k)
  <2>1. dir \subseteq dir' /\ \A i \in SegID : file'[i].recs = file[i].recs
    OBVIOUS
  <2>2. \A i \in dir' \ dir : file[i].recs = <<>>
    OBVIOUS
  <2> QED
    BY <1>1, <2>1, <2>2, SameRecords
<1> QED
  BY <1>2 DEF LatestValue, ValueIn, RecordAt

LEMMA InitMaps == Init => Store!Init
<1> SUFFICES ASSUME Init
             PROVE  Store!Init
  OBVIOUS
<1>1. dir = {} /\ proc = "down" /\ weak = {}
  BY DEF Init
<1>2. \A k \in Key : RecoveredLoc(k) = NoLoc
  BY InitIInv, RecoveredLocSound, <1>1 DEF IInv
<1>3. \A k \in Key : ValueIn(dir, RecoveredLoc(k)) = Absent
  BY <1>2 DEF ValueIn
<1>4. Recovered \in [Key -> Val \cup {Absent}]
  BY <1>3 DEF Recovered
<1> QED
  BY <1>1, <1>4 DEF Store!Init

\* Open serves what the files hold.
LEMMA OpenMaps ==
    ASSUME Inv, Inv', Open
    PROVE  Store!Start
<1>1. /\ proc # "open" /\ proc' = "open" /\ idx' = [k \in Key |-> RecoveredLoc(k)]
      /\ segments' = dir' /\ weak' \subseteq weak
  BY DEF Open
<1>2. /\ dir \subseteq dir' /\ \A i \in SegID : file'[i].recs = file[i].recs
      /\ \A i \in dir' \ dir : dir = {}
  BY OpenKeepsRecords DEF Inv, RInv
<1>3. ASSUME NEW k \in Key
      PROVE  ValueIn(segments, idx[k])' = ValueIn(dir, RecoveredLoc(k))
  <2> DEFINE a == RecoveredLoc(k)
  <2>1. /\ TypeOK /\ a \in Location /\ (dir = {} => a = NoLoc)
    BY RecoveredLocSound DEF Inv, IInv
  <2>2. idx'[k] = a
    BY <1>1
  <2> HIDE DEF a
  <2>3. CASE a = NoLoc
    BY <2>2, <2>3 DEF ValueIn, a
  <2>4. CASE a # NoLoc
    <3>1. a.seg \in SegID /\ dir # {}
      BY <2>1, <2>4 DEF Location
    <3>2. dir' = dir
      BY <1>2, <3>1
    <3>3. ValueIn(segments, idx[k])' = IF a.seg \in dir THEN file'[a.seg].recs[a.pos].val ELSE Missing
      BY <1>1, <2>2, <2>4, <3>2 DEF ValueIn, RecordAt
    <3>4. ValueIn(dir, a) = IF a.seg \in dir THEN file[a.seg].recs[a.pos].val ELSE Missing
      BY <2>4 DEF ValueIn, RecordAt
    <3> QED
      BY <1>2, <3>1, <3>3, <3>4 DEF a
  <2> QED
    BY <2>3, <2>4
<1>4. Content' = Recovered
  BY <1>3 DEF Content, Recovered
<1> QED
  BY <1>1, <1>4 DEF Store!Start

\* What is neither a write nor an Open takes no key off the weak ones, and a process
\* that stops serving calls weakens none.
LEMMA WeakGrows ==
    ASSUME Inv, Next, writes' = writes, ~Open
    PROVE  /\ weak \subseteq weak'
           /\ proc # "open" => proc' # "open"
           /\ (proc = "open" /\ proc' # "open") => weak' = weak
           /\ proc' = "down" => UNCHANGED <<dir, file>>
<1>1. writes \in Int /\ \A c \in Compactor : JobSound(c)
  <2>1. TypeOK /\ \A c \in Compactor : JobSound(c)
    BY DEF Inv, IInv
  <2>2. writes \in Int
    BY <2>1 DEF TypeOK
  <2> QED
    BY <2>1, <2>2
<1>2. \A k \in Key, v \in Val \cup {Absent} : ~Write(k, v)
  BY <1>1 DEF Write
<1>3. CASE WriteFails
  BY <1>3 DEF WriteFails
<1>4. ASSUME NEW c \in Compactor, StartPass(c) \/ CompactorStep(c), ~ScanUnmapped(c)
      PROVE  weak \subseteq weak' /\ proc' = proc /\ proc # "down"
  <2>1. weak \subseteq weak' /\ proc' = proc
    BY <1>4 DEF StartPass, CompactorStep, Pick, Check, BeginScan, SkipRecord, Relocate,
                AppendRecord, RelocateFails, Drop, Remove, RemoveFails, RemoveSnapshot
  <2>2. proc # "down"
    BY <1>1, <1>4 DEF JobSound, StartPass, CompactorStep, Pick, Check, BeginScan, SkipRecord,
                      Relocate, RelocateFails, Drop, Remove, RemoveFails, RemoveSnapshot, Scanning
  <2> QED
    BY <2>1, <2>2
<1>5. ASSUME NEW c \in Compactor, ScanUnmapped(c)
      PROVE  UNCHANGED <<weak, dir, file>> /\ proc' \in {proc, "down"}
  BY <1>5 DEF ScanUnmapped, Vanish, EndProcess, disk
<1>6. CASE BeginClose \/ FinishClose \/ SnapshotFails \/ CloseCutShort \/ Crash
  BY <1>6 DEF BeginClose, FinishClose, SnapshotFails, CloseCutShort, Crash, Vanish, EndProcess,
              Stopped, disk
<1> QED
  BY <1>2, <1>3, <1>4, <1>5, <1>6 DEF Next, Put, Delete

LEMMA StepMaps == Inv /\ Inv' /\ [Next]_vars => [Store!Next]_Store!vars
<1> SUFFICES ASSUME Inv, Inv', [Next]_vars
             PROVE  [Store!Next]_Store!vars
  OBVIOUS
<1>1. /\ IInv /\ RInv /\ IInv' /\ RInv' /\ ReadsAgree /\ ReadsAgree' /\ weak' \subseteq Key
  BY DEF Inv, IInv, TypeOK
<1>2. ASSUME UNCHANGED vars
      PROVE  UNCHANGED Store!vars
  <2>1. UNCHANGED <<dir, file, snap, proc, idx, segments, weak>>
    BY <1>2 DEF vars, disk, mem
  <2>2. Content' = Content
    BY <2>1 DEF Content, ValueIn, RecordAt
  <2>3. Recovered' = Recovered
    BY <2>1 DEF Recovered, ValueIn, RecordAt, RecoveredLoc, Replayed, RecordsOf, UseSnapshot
  <2> QED
    BY <2>1, <2>2, <2>3 DEF Store!vars
<1>3. CASE Open
  BY <1>3, OpenMaps DEF Store!Next
<1>4. ASSUME NEW k \in Key, NEW v \in Val \cup {Absent}, Write(k, v),
             idx' = [idx EXCEPT ![k] = IF v = Absent THEN NoLoc ELSE EndOf(active')]
      PROVE  Store!Write(k, v)
  <2>1. /\ Content' = [Content EXCEPT ![k] = v] /\ weak' \in {weak, weak \cup {k}}
        /\ proc = "open" /\ proc' = "open"
    BY <1>1, <1>4, WriteContent DEF Write
  <2> QED
    BY <2>1 DEF Store!Write
<1>5. ASSUME NEW k \in Key, NEW v \in Val, Put(k, v)
      PROVE  Store!Next
  <2>1. v # Absent /\ Write(k, v) /\ idx' = [idx EXCEPT ![k] = EndOf(active')]
    BY <1>5, ValueAssumption DEF Put
  <2> QED
    BY <1>4, <2>1 DEF Store!Next
<1>6. ASSUME NEW k \in Key, Delete(k)
      PROVE  Store!Next
  <2>1. Write(k, Absent) /\ idx' = [idx EXCEPT ![k] = NoLoc]
    BY <1>6 DEF Delete
  <2> QED
    BY <1>4, <2>1 DEF Store!Next
<1>7. ASSUME Next, writes' = writes, ~Open
      PROVE  Store!Next
  <2>1. /\ weak \subseteq weak'
        /\ proc # "open" => proc' # "open"
        /\ (proc = "open" /\ proc' # "open") => weak' = weak
        /\ proc' = "down" => UNCHANGED <<dir, file>>
    BY <1>7, WeakGrows
  <2>2. CASE proc = "open" /\ proc' = "open"
    <3>1. Content' = Content
      BY <1>1, <1>7, <2>2, ContentStays
    <3>2. Store!Weaken
      BY <1>1, <2>1, <2>2, <3>1 DEF Store!Weaken
    <3> QED
      BY <3>2 DEF Store!Next
  <2>3. CASE proc' # "open"
    <3>1. ASSUME NEW k \in Key \ weak'
          PROVE  Recovered'[k] = (IF proc = "open" THEN Content ELSE Recovered)[k]
      <4>1. k \in Key /\ k \notin weak /\ k \notin weak'
        BY <2>1
      <4>2. LatestValue(k)' = LatestValue(k)
        <5>1. CASE proc' = "down"
          BY <1>1, <2>1, <5>1, LatestStaysDown
        <5>2. CASE proc' # "down" /\ proc # "down"
          BY <1>1, <1>7, <4>1, <5>2, LatestStaysUp
        <5>3. CASE proc' # "down" /\ proc = "down"
          <6>1. \A c \in Compactor : job[c].pc = "idle"
            BY <1>1, <5>3 DEF IInv, JobSound
          <6>2. FALSE
            BY <1>7, <5>3, <6>1 DEF Next, Put, Delete, Write, WriteFails, StartPass, CompactorStep,
               Pick, Check, BeginScan, SkipRecord, Relocate, RelocateFails, ScanUnmapped, Drop,
               Remove, RemoveFails, RemoveSnapshot, Scanning, BeginClose, FinishClose,
               SnapshotFails, CloseCutShort, Stopped, Crash
          <6> QED
            BY <6>2
        <5> QED
          BY <5>1, <5>2, <5>3
      <4>3. Recovered'[k] = LatestValue(k)'
        BY <1>1, <4>1 DEF ReadsAgree
      <4>4. Recovered[k] = LatestValue(k) /\ (proc = "open" => Content[k] = LatestValue(k))
        BY <1>1, <4>1 DEF ReadsAgree
      <4> QED
        BY <4>2, <4>3, <4>4
    <3>2. Recovered' \in [Key -> Val \cup {Absent, Missing}]
      BY <1>1 DEF ReadsAgree, Reading
    <3>3. CASE proc = "open"
      <4>1. Store!Stop
        BY <2>1, <2>3, <3>1, <3>2, <3>3 DEF Store!Stop
      <4> QED
        BY <4>1 DEF Store!Next
    <3>4. CASE proc # "open"
      <4>1. Store!Drift
        BY <1>1, <2>1, <2>3, <3>1, <3>2, <3>4 DEF Store!Drift
      <4> QED
        BY <4>1 DEF Store!Next
    <3> QED
      BY <3>3, <3>4
  <2> QED
    BY <2>1, <2>2, <2>3
<1>8. ASSUME Next, ~Open, \A k \in Key : ~Delete(k) /\ \A v \in Val : ~Put(k, v)
      PROVE  writes' = writes
  BY <1>8 DEF Next, WriteFails, StartPass, CompactorStep, Pick, Check, BeginScan, SkipRecord,
     Relocate, RelocateFails, ScanUnmapped, Drop, Remove, RemoveFails, RemoveSnapshot, BeginClose,
     FinishClose, SnapshotFails, CloseCutShort, Crash, bounds
<1> QED
  BY <1>2, <1>3, <1>5, <1>6, <1>7, <1>8

\* The engine keeps the promise of KVStore: a write changes one key at once, nothing a
\* compactor does can be read, and a stop, a crash or a compactor that outlives Close
\* changes no key but a weak one.
THEOREM StoreIsImplemented == Spec => ImplementsStore
<1>1. Init => Store!Init
  BY InitMaps
<1>2. Inv /\ Inv' /\ [Next]_vars => [Store!Next]_Store!vars
  BY StepMaps
<1> QED
  BY <1>1, <1>2, InvHolds, PTL DEF Spec, ImplementsStore, Store!Spec

-----------------------------------------------------------------------------
(* What is garbage and what is counted as garbage. *)

\* The bytes of each record of segment i that no index entry points at.
DeadSizes(i) ==
    [p \in DOMAIN file[i].recs |-> IF InUse(i, p) THEN 0 ELSE SizeOf(file[i].recs[p])]

\* Dead sums them up, before a step and after it.
LEMMA DeadIsTotal == \A i : Dead(i) = Total(DeadSizes(i)) /\ Dead(i)' = Total(DeadSizes(i)')
BY DEF Dead, DeadSizes, Total, Sums, SizeOf, IsTombstone, InUse

\* Numbers given to the records of a file are a sequence of numbers.
LEMMA SizesAreSeq ==
    ASSUME NEW recs \in Seq(Record), NEW f,
           f = [p \in DOMAIN recs |-> f[p]],
           \A p \in DOMAIN recs : f[p] \in Nat
    PROVE  f \in Seq(Nat) /\ Len(f) = Len(recs) /\ DOMAIN f = 1 .. Len(recs)
<1>1. PICK n \in Nat : n = Len(recs) /\ DOMAIN recs = 1 .. n
  OBVIOUS
<1>2. f = [p \in 1 .. n |-> f[p]] /\ \A p \in 1 .. n : f[p] \in Nat
  BY <1>1
<1>3. f \in [1 .. n -> Nat]
  BY <1>2
<1> QED
  BY <1>1, <1>3

\* Every record takes up space.
LEMMA SizeIsNat == \A r : SizeOf(r) \in Nat /\ SizeOf(r) >= 1
BY OptionsAssumption DEF SizeOf

\* The garbage in a segment is a number of bytes.
LEMMA DeadSizesType ==
    ASSUME TypeOK, NEW i \in SegID
    PROVE  /\ DeadSizes(i) \in Seq(Nat) /\ Len(DeadSizes(i)) = Len(file[i].recs)
           /\ Dead(i) \in Nat
<1>1. file[i].recs \in Seq(Record)
  BY DEF TypeOK
<1>2. /\ DeadSizes(i) = [p \in DOMAIN file[i].recs |-> DeadSizes(i)[p]]
      /\ \A p \in DOMAIN file[i].recs : DeadSizes(i)[p] \in Nat
  BY SizeIsNat DEF DeadSizes
<1>3. DeadSizes(i) \in Seq(Nat) /\ Len(DeadSizes(i)) = Len(file[i].recs)
  BY <1>1, <1>2, SizesAreSeq
<1> QED
  BY <1>3, SumsGrow, DeadIsTotal

\* And so it is after a step.
LEMMA DeadSizesTypePrimed == TypeOK' => (\A i \in SegID : Dead(i) \in Nat)'
<1>1. TypeOK => \A i \in SegID : Dead(i) \in Nat
  BY DeadSizesType
<1> QED
  BY <1>1, PTL

\* The bytes of segment i that the record at location a takes up, when that is on disk.
Superseded(a, i) == IF a # NoLoc /\ a.seg = i THEN ValSize ELSE 0

\* The step makes location a the index entry of k.
Repoints(k, a) == idx' = [idx EXCEPT ![k] = a]

\* An append that moves the entry of its key makes garbage of the record the entry
\* pointed at, and of itself if the entry does not go to it.
LEMMA AppendMakesGarbage ==
    ASSUME IInv, IInv', GoneIsEmpty, NEW cur \in {active, compactOut}, NEW r \in Record,
           AppendRecord(cur, r), NEW t, t = Target(cur, r), proc # "down",
           NEW loc \in {EndOf(t), NoLoc}, Repoints(r.key, loc),
           NEW i \in SegID, i \in dir'
    PROVE  Dead(i)' = Dead(i) + Superseded(idx[r.key], i)
                        + IF i = t /\ loc = NoLoc THEN SizeOf(r) ELSE 0
<1> DEFINE U == [p \in DOMAIN file[i].recs |->
                   IF InUse(i, p)' THEN 0
                   ELSE SizeOf(file[i].recs[p])]
           D == DeadSizes(i)
           E == DeadSizes(i)'
           a == idx[r.key]
<1>0. idx' = [idx EXCEPT ![r.key] = loc]
  BY DEF Repoints
<1>1. /\ TypeOK /\ TypeOK' /\ r.key \in Key
      /\ file[i].recs \in Seq(Record) /\ file'[i].recs \in Seq(Record)
      /\ idx \in [Key -> Location] /\ idx' \in [Key -> Location]
  BY DEF IInv, TypeOK, Record
<1>2. /\ t \in SegID /\ dir' = dir \cup {t}
      /\ i # t => file'[i].recs = file[i].recs
      /\ file'[t].recs = Append(file[t].recs, r)
      /\ EndOf(t) = [seg |-> t, pos |-> Len(file[t].recs) + 1]
  BY AppendedRecords DEF IInv
<1>3. PICK n \in Nat : n = Len(file[i].recs) /\ DOMAIN file[i].recs = 1 .. n
  BY <1>1
<1>4. \A k \in Key : idx[k] # [seg |-> t, pos |-> Len(file[t].recs) + 1]
  <2> SUFFICES ASSUME NEW k \in Key, idx[k] = [seg |-> t, pos |-> Len(file[t].recs) + 1]
               PROVE  FALSE
    OBVIOUS
  <2>1. CASE t \in dir
    <3>1. idx[k].pos \in DOMAIN file[t].recs
      BY <2>1 DEF IInv, LocsSound, Sound
    <3>2. file[t].recs \in Seq(Record)
      BY <1>1, <1>2 DEF TypeOK
    <3> QED
      BY <3>1, <3>2
  <2>2. CASE t \notin dir
    <3>1. t = nextSegID /\ nextSegID \in Int
      <4>1. t = nextSegID
        BY <2>2, <1>1 DEF Target, AppendRecord, IInv, SegsOnDisk, Fits
      <4> QED
        BY <1>2, <4>1 DEF SegID
    <3>2. idx[k].seg < nextSegID
      BY DEF IInv, IdsBelow
    <3> QED
      BY <3>1, <3>2
  <2> QED
    BY <2>1, <2>2
<1>5. /\ D \in Seq(Nat) /\ Len(D) = n /\ DOMAIN D = 1 .. n
      /\ \A p \in 1 .. n : D[p] = IF InUse(i, p) THEN 0
                                  ELSE SizeOf(file[i].recs[p])
  BY <1>1, <1>3, DeadSizesType DEF DeadSizes
<1>6. /\ U \in Seq(Nat) /\ Len(U) = n /\ DOMAIN U = 1 .. n
      /\ \A p \in 1 .. n : U[p] = IF InUse(i, p)' THEN 0
                                  ELSE SizeOf(file[i].recs[p])
  <2>1. U = [p \in DOMAIN file[i].recs |-> U[p]] /\ \A p \in DOMAIN file[i].recs : U[p] \in Nat
    BY SizeIsNat
  <2>2. U \in Seq(Nat) /\ Len(U) = n
    <3> HIDE DEF U
    <3> QED
      BY <1>1, <1>3, <2>1, SizesAreSeq
  <2> QED
    BY <1>3, <2>2
<1>7. \A k \in Key, p \in 1 .. n : k # r.key => idx'[k] = idx[k]
  BY <1>0, <1>1
<1>8. idx'[r.key] = loc /\ \A p \in 1 .. n : loc # [seg |-> i, pos |-> p]
  <2>1. idx'[r.key] = loc
    BY <1>0, <1>1
  <2>2. \A p \in 1 .. n : NoLoc # [seg |-> i, pos |-> p]
    BY DEF NoLoc, NoSeg, SegID
  <2>3. \A p \in 1 .. n : EndOf(t) # [seg |-> i, pos |-> p]
    BY <1>2, <1>3
  <2> QED
    BY <2>1, <2>2, <2>3
<1> HIDE DEF U, D, E
<1>9. Total(U) = Total(D) + Superseded(a, i)
  <2>1. CASE a # NoLoc /\ a.seg = i
    <3>1. i \in dir
      <4>1. a.seg < nextSegID
        BY <1>1 DEF IInv, IdsBelow
      <4>2. CASE i \notin dir
        <5>1. i = t /\ t = nextSegID
          BY <4>2, <1>1, <1>2 DEF Target, AppendRecord, IInv, SegsOnDisk, Fits
        <5> QED
          BY <4>1, <2>1, <5>1 DEF SegID
      <4> QED
        BY <4>2
    <3>2. /\ a.pos \in 1 .. n /\ file[i].recs[a.pos].key = r.key
          /\ ~IsTombstone(file[i].recs[a.pos])
      BY <1>1, <1>3, <2>1, <3>1 DEF IInv, LocsSound, Sound
    <3>3. a = [seg |-> i, pos |-> a.pos]
      BY <1>1, <2>1 DEF Location
    <3>4. PICK q \in 1 .. n : q = a.pos
      BY <3>2
    <3>41. D[q] = 0
      <4>1. InUse(i, q)
        BY <1>1, <3>3, <3>4 DEF InUse
      <4> QED
        BY <1>5, <4>1
    <3>5. \A k \in Key : idx'[k] # [seg |-> i, pos |-> q]
      <4> SUFFICES ASSUME NEW k \in Key, idx'[k] = [seg |-> i, pos |-> q] PROVE FALSE
        OBVIOUS
      <4>1. k # r.key
        BY <1>8
      <4>2. idx[k] = [seg |-> i, pos |-> q]
        BY <1>7, <4>1
      <4>3. file[i].recs[q].key = k
        BY <3>1, <4>2 DEF IInv, LocsSound, Sound
      <4> QED
        BY <3>2, <3>4, <4>1, <4>3
    <3>6. U[q] = ValSize
      <4>1. ~InUse(i, q)'
        BY <3>5 DEF InUse
      <4> QED
        BY <1>6, <3>2, <3>4, <4>1 DEF SizeOf
    <3>7. ASSUME NEW p \in (1 .. n) \ {q} PROVE U[p] = D[p]
      <4>1. a # [seg |-> i, pos |-> p]
        BY <3>3, <3>4
      <4>2. \A k \in Key : idx'[k] = [seg |-> i, pos |-> p] <=> idx[k] = [seg |-> i, pos |-> p]
        BY <1>1, <1>7, <1>8, <4>1
      <4>3. InUse(i, p)' <=> InUse(i, p)
        BY <4>2 DEF InUse
      <4> QED
        BY <1>5, <1>6, <4>3
    <3>8. ValSize \in Nat
      BY OptionsAssumption
    <3>9. Total(U) = Total(D) + ValSize
      <4>1. /\ Len(U) = Len(D) /\ q \in 1 .. Len(D) /\ U[q] = D[q] + ValSize
            /\ \A p \in 1 .. Len(D) \ {q} : U[p] = D[p]
        BY <1>5, <1>6, <3>41, <3>6, <3>7, <3>8
      <4>2. D \in Seq(Nat) /\ U \in Seq(Nat)
        BY <1>5, <1>6
      <4> QED
        BY <3>8, <4>1, <4>2, TotalOfRaised
    <3> QED
      BY <2>1, <3>9 DEF Superseded
  <2>2. CASE ~(a # NoLoc /\ a.seg = i)
    <3>1. \A p \in 1 .. n : a # [seg |-> i, pos |-> p]
      BY <2>2 DEF NoLoc, SegID, NoSeg
    <3>2. \A k \in Key, p \in 1 .. n :
            idx'[k] = [seg |-> i, pos |-> p] <=> idx[k] = [seg |-> i, pos |-> p]
      BY <1>1, <1>7, <1>8, <3>1
    <3>3. ASSUME NEW p \in 1 .. n PROVE U[p] = D[p]
      <4>1. InUse(i, p)' <=> InUse(i, p)
        BY <3>2 DEF InUse
      <4> QED
        BY <1>5, <1>6, <4>1
    <3>4. U = D
      BY <1>5, <1>6, <3>3
    <3>5. Total(D) \in Nat
      BY <1>5, SumsGrow
    <3> QED
      BY <2>2, <3>4, <3>5 DEF Superseded
  <2> QED
    BY <2>1, <2>2
<1>10. Total(E) = Total(U) + IF i = t /\ loc = NoLoc THEN SizeOf(r) ELSE 0
  <2>1. Total(U) \in Nat
    BY <1>6, SumsGrow
  <2>2. CASE i # t
    <3>1. file'[i].recs = file[i].recs
      BY <1>2, <2>2
    <3>2. E = U
      BY <3>1 DEF E, U, DeadSizes, SizeOf, IsTombstone, InUse
    <3> QED
      BY <2>1, <2>2, <3>2
  <2>3. CASE i = t
    <3>1. /\ DOMAIN file'[i].recs = 1 .. n + 1 /\ Len(file'[i].recs) = n + 1
          /\ file'[i].recs[n + 1] = r
          /\ \A p \in 1 .. n : file'[i].recs[p] = file[i].recs[p]
      BY <1>1, <1>2, <1>3, <2>3
    <3>2. /\ DOMAIN E = 1 .. n + 1
          /\ \A p \in 1 .. n + 1 : E[p] =
                 IF InUse(i, p)' THEN 0
                 ELSE SizeOf(file'[i].recs[p])
      BY <3>1 DEF E, DeadSizes, SizeOf, IsTombstone, InUse
    <3>3. E \in Seq(Nat) /\ Len(E) = n + 1
      <4>1. E = [p \in DOMAIN file'[i].recs |-> E[p]]
        BY DEF E, DeadSizes
      <4>2. ASSUME NEW p \in DOMAIN file'[i].recs PROVE E[p] \in Nat
        <5>1. SizeOf(file'[i].recs[p]) \in Nat /\ p \in 1 .. n + 1
          BY <3>1, SizeIsNat
        <5> QED
          BY <3>2, <5>1
      <4> QED
        BY <1>1, <3>1, <4>1, <4>2, SizesAreSeq
    <3>4. ASSUME NEW p \in 1 .. n PROVE E[p] = U[p]
      <4>1. p \in 1 .. n + 1 /\ file'[i].recs[p] = file[i].recs[p]
        BY <1>3, <3>1
      <4> QED
        BY <1>6, <3>2, <4>1
    <3>5. E[n + 1] = IF loc = NoLoc THEN SizeOf(r) ELSE 0
      <4>1. n + 1 \in 1 .. n + 1
        BY <1>3
      <4>2. EndOf(t) = [seg |-> i, pos |-> n + 1] /\ NoLoc # EndOf(t)
        BY <1>2, <1>3, <2>3 DEF NoLoc, NoSeg, SegID
      <4>3. InUse(i, n + 1)' <=> loc # NoLoc
        <5>1. \A k \in Key \ {r.key} : idx'[k] # [seg |-> i, pos |-> n + 1]
          BY <1>0, <1>1, <1>2, <1>4, <2>3, <4>2
        <5> QED
          BY <1>1, <1>8, <4>2, <5>1 DEF InUse
      <4> QED
        BY <3>1, <3>2, <4>1, <4>3
    <3>6. Total(E) = Total(U) + E[n + 1]
      BY <1>6, <3>3, <3>4, TotalOfAppend
    <3> QED
      BY <2>3, <3>5, <3>6
  <2> QED
    BY <2>2, <2>3
<1>11. Dead(i) = Total(D) /\ Dead(i)' = Total(E)
  BY DeadIsTotal DEF D, E
<1> QED
  BY <1>9, <1>10, <1>11

\* The counters never run ahead of the garbage, and those of the segments to come
\* are at 0.
DeadInv ==
    /\ DeadBytesNeverOvercount
    /\ proc # "down" => \A i \in SegID : i >= nextSegID => deadBytes[i] = 0

\* A put or delete adds to the counters what it makes garbage.
LEMMA WriteAccounts ==
    ASSUME IInv, IInv', GoneIsEmpty,
           (\E k \in Key, v \in Val : Put(k, v)) \/ (\E k \in Key : Delete(k)),
           NEW i \in dir'
    PROVE  /\ deadBytes'[i] - deadBytes[i] = Dead(i)' - Dead(i)
           /\ Dead(i) \in Nat /\ Dead(i)' \in Nat
<1>1. PICK k \in Key, v \in Val \cup {Absent} :
        /\ Write(k, v)
        /\ \/ /\ v \in Val /\ idx' = [idx EXCEPT ![k] = EndOf(active')]
              /\ deadBytes' = WithSuperseded(deadBytes, k)
           \/ /\ v = Absent /\ idx' = [idx EXCEPT ![k] = NoLoc]
              /\ deadBytes' = WithSuperseded([deadBytes EXCEPT ![active'] = @ + 1], k)
  BY DEF Put, Delete
<1> DEFINE r == [key |-> k, val |-> v]
<1>2. /\ r \in Record /\ r.key = k /\ AppendRecord(active, r) /\ proc # "down"
      /\ active' = Target(active, r) /\ TypeOK /\ TypeOK' /\ i \in SegID
  BY <1>1 DEF Write, Record, IInv, TypeOK
<1>3. SizeOf(r) = IF v = Absent THEN 1 ELSE ValSize
  BY DEF SizeOf, IsTombstone
<1>4. PICK t : t = Target(active, r)
  OBVIOUS
<1>5. t \in SegID /\ t = active'
  BY <1>2, <1>4, AppendedRecords DEF IInv
<1> HIDE DEF r
<1>6. Dead(i) \in Nat /\ Dead(i)' \in Nat
  BY <1>2, DeadSizesType, DeadSizesTypePrimed
<1>7. /\ deadBytes \in [SegID -> Nat] /\ idx \in [Key -> Location] /\ ValSize \in Nat
      /\ EndOf(t) # NoLoc
  <2>1. EndOf(t) # NoLoc
    BY <1>2, <1>4, <1>5, AppendedRecords DEF IInv, NoLoc, NoSeg, SegID
  <2>2. deadBytes \in [SegID -> Nat] /\ idx \in [Key -> Location]
    BY <1>2 DEF TypeOK
  <2> QED
    BY <2>1, <2>2, OptionsAssumption
<1> DEFINE a == idx[k]
<1>8. a \in Location /\ (a # NoLoc => a.seg \in SegID)
  BY <1>7 DEF Location
<1>9. \A d \in [SegID -> Nat] : WithSuperseded(d, k)[i] = d[i] + Superseded(a, i)
  BY <1>2, <1>7, <1>8 DEF WithSuperseded, Superseded
<1>10. Superseded(a, i) \in Nat
  BY <1>7 DEF Superseded
<1>11. CASE v \in Val
  <2>1. /\ idx' = [idx EXCEPT ![k] = EndOf(t)] /\ deadBytes' = WithSuperseded(deadBytes, k)
    BY <1>1, <1>5, <1>11, ValueAssumption
  <2>2. Dead(i)' = Dead(i) + Superseded(a, i)
    <3>1. PICK loc \in {EndOf(t), NoLoc} : loc = EndOf(t)
      OBVIOUS
    <3>2. Repoints(r.key, loc)
      BY <1>2, <2>1, <3>1 DEF Repoints
    <3>3. Dead(i)' = Dead(i) + Superseded(idx[r.key], i) + IF i = t /\ loc = NoLoc THEN SizeOf(r) ELSE 0
      BY <1>2, <1>4, <3>2, AppendMakesGarbage
    <3> QED
      BY <1>2, <1>6, <1>7, <1>10, <3>1, <3>3
  <2> QED
    BY <1>6, <1>7, <1>9, <1>10, <1>2, <2>1, <2>2
<1>12. CASE v = Absent
  <2> DEFINE d == [deadBytes EXCEPT ![t] = @ + 1]
  <2>1. /\ idx' = [idx EXCEPT ![k] = NoLoc] /\ deadBytes' = WithSuperseded(d, k)
    BY <1>1, <1>5, <1>12, ValueAssumption
  <2>2. Dead(i)' = Dead(i) + Superseded(a, i) + IF i = t THEN 1 ELSE 0
    <3>1. PICK loc \in {EndOf(t), NoLoc} : loc = NoLoc
      OBVIOUS
    <3>2. Repoints(r.key, loc)
      BY <1>2, <2>1, <3>1 DEF Repoints
    <3>3. Dead(i)' = Dead(i) + Superseded(idx[r.key], i) + IF i = t /\ loc = NoLoc THEN SizeOf(r) ELSE 0
      BY <1>2, <1>4, <3>2, AppendMakesGarbage
    <3> QED
      BY <1>2, <1>3, <1>12, <3>1, <3>3
  <2>3. d \in [SegID -> Nat] /\ d[i] = deadBytes[i] + IF i = t THEN 1 ELSE 0
    BY <1>2, <1>5, <1>7
  <2> HIDE DEF d
  <2> QED
    BY <1>6, <1>7, <1>9, <1>10, <1>2, <2>1, <2>2, <2>3
<1> QED
  BY <1>11, <1>12

\* The steps that move no entry and change no record of a known segment, and count
\* nothing.
LEMMA QuietDead ==
    ASSUME IInv, IInv', DeadInv, idx' = idx, segments' \subseteq segments,
           proc' # "down" => proc # "down" /\ nextSegID' = nextSegID,
           proc' \in {"open", "closing"} => proc \in {"open", "closing"},
           \A i \in SegID : deadBytes'[i] \in {deadBytes[i], 0},
           \A i \in segments' : file'[i].recs = file[i].recs
    PROVE  DeadInv'
<1>1. /\ TypeOK /\ segments \subseteq SegID
      /\ \A i \in SegID : Dead(i) \in Nat /\ deadBytes[i] \in Nat
  <2>1. TypeOK
    BY DEF IInv
  <2>2. segments \subseteq SegID /\ deadBytes \in [SegID -> Nat]
    BY <2>1 DEF TypeOK
  <2> QED
    BY <2>1, <2>2, DeadSizesType
<1>2. ASSUME proc' \in {"open", "closing"}, NEW i \in segments'
      PROVE  deadBytes'[i] <= Dead(i)'
  <2>1. i \in segments /\ i \in SegID /\ deadBytes[i] <= Dead(i)
    BY <1>1, <1>2 DEF DeadInv, DeadBytesNeverOvercount
  <2>2. \A p : InUse(i, p)' <=> InUse(i, p)
    BY DEF InUse
  <2>3. DeadSizes(i)' = DeadSizes(i)
    BY <1>2, <2>2 DEF DeadSizes, SizeOf, IsTombstone
  <2>4. Dead(i)' = Dead(i)
    BY <2>3, DeadIsTotal
  <2>5. deadBytes'[i] \in {deadBytes[i], 0} /\ Dead(i) \in Nat /\ deadBytes[i] \in Nat
    BY <1>1, <2>1
  <2> QED
    BY <2>1, <2>4, <2>5
<1>3. DeadBytesNeverOvercount'
  BY <1>2 DEF DeadBytesNeverOvercount
<1>4. proc' # "down" => \A i \in SegID : i >= nextSegID' => deadBytes'[i] = 0
  BY DEF DeadInv
<1> QED
  BY <1>3, <1>4 DEF DeadInv

\* A write keeps the counters behind the garbage.
LEMMA WriteDead ==
    ASSUME IInv, IInv', GoneIsEmpty, DeadInv,
           (\E k \in Key, v \in Val : Put(k, v)) \/ (\E k \in Key : Delete(k))
    PROVE  DeadInv'
<1>1. PICK k \in Key, v \in Val \cup {Absent} :
        /\ Write(k, v)
        /\ \/ deadBytes' = WithSuperseded(deadBytes, k)
           \/ deadBytes' = WithSuperseded([deadBytes EXCEPT ![active'] = @ + 1], k)
  BY DEF Put, Delete
<1> DEFINE r == [key |-> k, val |-> v]
<1>2. /\ r \in Record /\ AppendRecord(active, r) /\ active' = Target(active, r)
      /\ proc \in {"open", "closing"} /\ TypeOK /\ TypeOK'
  BY <1>1 DEF Write, Record, IInv
<1>3. PICK t : t = Target(active, r)
  OBVIOUS
<1>4. /\ t \in SegID /\ segments' = segments \cup {t} /\ active' = t
      /\ t \in segments \/ t = nextSegID
  <2>1. t \in SegID /\ segments' = segments \cup {t} /\ active' = t
    BY <1>2, <1>3, AppendedRecords DEF IInv, AppendRecord
  <2>2. Fits(active, SizeOf(r)) => active \in segments
    BY DEF Fits, IInv, SegsOnDisk
  <2> QED
    BY <1>3, <2>1, <2>2 DEF Target
<1> HIDE DEF r
<1>5. /\ deadBytes \in [SegID -> Nat] /\ segments \subseteq SegID /\ dir' \subseteq SegID
      /\ segments' \subseteq dir'
      /\ idx[k] \in Location /\ idx[k].seg < nextSegID
      /\ t < nextSegID' /\ nextSegID \in Nat /\ nextSegID' \in Nat /\ nextSegID <= nextSegID'
  <2>1. deadBytes \in [SegID -> Nat] /\ segments \subseteq SegID /\ dir' \subseteq SegID
    BY <1>2 DEF TypeOK
  <2>2. segments' \subseteq dir'
    BY DEF IInv, SegsOnDisk
  <2>3. idx[k] \in Location /\ idx[k].seg < nextSegID
    BY <1>2 DEF TypeOK, IInv, IdsBelow
  <2>4. nextSegID \in Nat /\ nextSegID' \in {nextSegID, nextSegID + 1}
    BY <1>2, BoundAssumption DEF TypeOK, AppendRecord
  <2>5. t < nextSegID'
    BY <1>1, <1>4 DEF IInv, IdsBelow, Write
  <2> QED
    BY <2>1, <2>2, <2>3, <2>4, <2>5
<1>6. ASSUME NEW i \in segments'
      PROVE  deadBytes'[i] <= Dead(i)'
  <2>1. /\ deadBytes'[i] - deadBytes[i] = Dead(i)' - Dead(i)
        /\ Dead(i) \in Nat /\ Dead(i)' \in Nat
    <3>1. i \in dir'
      BY <1>5
    <3> QED
      BY <3>1, WriteAccounts
  <2>2. deadBytes[i] \in Nat /\ deadBytes[i] <= Dead(i)
    <3>1. CASE i \in segments
      BY <1>2, <1>5, <3>1 DEF DeadInv, DeadBytesNeverOvercount
    <3>2. CASE i = nextSegID
      <4>1. i \in SegID /\ i >= nextSegID /\ proc # "down"
        BY <1>2, <1>4, <1>5, <3>2
      <4>2. deadBytes[i] = 0
        BY <4>1 DEF DeadInv
      <4> QED
        BY <2>1, <4>2
    <3> QED
      BY <1>4, <3>1, <3>2
  <2>3. deadBytes'[i] \in Nat
    <3>1. deadBytes' \in [SegID -> Nat]
      BY <1>2 DEF TypeOK
    <3> QED
      BY <1>5, <3>1
  <2> QED
    BY <2>1, <2>2, <2>3
<1>7. ASSUME NEW i \in SegID, i >= nextSegID'
      PROVE  deadBytes'[i] = 0
  <2>1. i \in Nat /\ i # t /\ i # idx[k].seg
    BY <1>4, <1>5, <1>7 DEF SegID, Location, NoLoc, NoSeg
  <2>2. deadBytes[i] = 0
    BY <1>2, <1>5, <1>7, <2>1 DEF DeadInv
  <2>3. deadBytes'[i] = deadBytes[i]
    BY <1>1, <1>4, <1>5, <2>1 DEF WithSuperseded
  <2> QED
    BY <2>2, <2>3
<1> QED
  BY <1>6, <1>7 DEF DeadInv, DeadBytesNeverOvercount

\* A relocation makes garbage and counts none.
LEMMA RelocateDead ==
    ASSUME IInv, IInv', GoneIsEmpty, DeadInv, NEW c \in Compactor, Relocate(c)
    PROVE  DeadInv'
<1> DEFINE r == Scanned(c)
<1>1. /\ TypeOK /\ TypeOK' /\ JobSound(c) /\ Scanning(c)
      /\ AppendRecord(compactOut, r) /\ compactOut' = Target(compactOut, r)
      /\ idx' = [idx EXCEPT ![r.key] = EndOf(compactOut')]
      /\ deadBytes' = deadBytes /\ proc' = proc
  BY DEF Relocate, IInv
<1>2. r \in Record /\ proc # "down"
  <2>1. job[c].src \in SegID /\ job[c].pos \in DOMAIN file[job[c].src].recs /\ proc # "down"
    BY <1>1 DEF JobSound, Scanning
  <2>2. file[job[c].src].recs \in Seq(Record)
    BY <1>1, <2>1 DEF TypeOK
  <2> QED
    BY <2>1, <2>2 DEF Scanned, RecordAt, At
<1>3. PICK t : t = Target(compactOut, r)
  OBVIOUS
<1>4. /\ t \in SegID /\ segments' = segments \cup {t}
      /\ t \in segments \/ t = nextSegID
  <2>1. t \in SegID /\ segments' = segments \cup {t}
    BY <1>1, <1>2, <1>3, AppendedRecords DEF IInv, AppendRecord
  <2>2. Fits(compactOut, SizeOf(r)) => compactOut \in segments
    BY DEF Fits, IInv, SegsOnDisk
  <2> QED
    BY <1>3, <2>1, <2>2 DEF Target
<1> HIDE DEF r
<1>5. PICK loc \in {EndOf(t), NoLoc} : loc = EndOf(t)
  OBVIOUS
<1>6. Repoints(r.key, loc) /\ loc # NoLoc
  <2>1. EndOf(t) # NoLoc
    BY <1>1, <1>2, <1>3, <1>4, AppendedRecords DEF IInv, NoLoc, NoSeg, SegID
  <2> QED
    BY <1>1, <1>3, <1>5, <2>1 DEF Repoints
<1>7. /\ deadBytes \in [SegID -> Nat] /\ segments \subseteq SegID /\ dir' \subseteq SegID
      /\ segments' \subseteq dir' /\ ValSize \in Nat
      /\ nextSegID \in Nat /\ nextSegID' \in {nextSegID, nextSegID + 1}
  <2>1. deadBytes \in [SegID -> Nat] /\ segments \subseteq SegID /\ dir' \subseteq SegID
    BY <1>1 DEF TypeOK
  <2>2. segments' \subseteq dir'
    BY DEF IInv, SegsOnDisk
  <2>3. nextSegID \in Nat /\ nextSegID' \in {nextSegID, nextSegID + 1}
    BY <1>1, BoundAssumption DEF TypeOK, AppendRecord
  <2> QED
    BY <2>1, <2>2, <2>3, OptionsAssumption
<1>8. ASSUME NEW i \in segments', proc \in {"open", "closing"}
      PROVE  deadBytes'[i] <= Dead(i)'
  <2>1. i \in dir' /\ i \in SegID /\ Dead(i) \in Nat /\ deadBytes[i] \in Nat
    BY <1>1, <1>7, DeadSizesType
  <2>2. Dead(i)' = Dead(i) + Superseded(idx[r.key], i)
                     + IF i = t /\ loc = NoLoc THEN SizeOf(r) ELSE 0
    BY <1>1, <1>2, <1>3, <1>6, <2>1, AppendMakesGarbage
  <2>3. Superseded(idx[r.key], i) \in Nat
    BY <1>7 DEF Superseded
  <2>4. deadBytes[i] <= Dead(i)
    <3>1. CASE i \in segments
      BY <1>8, <3>1 DEF DeadInv, DeadBytesNeverOvercount
    <3>2. CASE i = nextSegID
      <4>1. i >= nextSegID
        BY <1>7, <3>2
      <4>2. deadBytes[i] = 0
        BY <1>2, <2>1, <4>1 DEF DeadInv
      <4> QED
        BY <2>1, <4>2
    <3> QED
      BY <1>4, <3>1, <3>2
  <2> QED
    BY <1>1, <1>6, <2>1, <2>2, <2>3, <2>4
<1>9. ASSUME NEW i \in SegID, i >= nextSegID'
      PROVE  deadBytes'[i] = 0
  <2>1. i >= nextSegID
    BY <1>7, <1>9 DEF SegID
  <2> QED
    BY <1>1, <1>2, <2>1 DEF DeadInv
<1> QED
  BY <1>1, <1>8, <1>9 DEF DeadInv, DeadBytesNeverOvercount

\* Recovery starts the counters at nothing.
LEMMA OpenDead ==
    ASSUME IInv', \A i \in SegID : deadBytes'[i] = 0
    PROVE  DeadInv'
<1>1. TypeOK' /\ segments' \subseteq SegID
  BY DEF IInv, TypeOK
<1>2. \A i \in SegID : Dead(i)' \in Nat
  BY <1>1, DeadSizesTypePrimed
<1> QED
  BY <1>1, <1>2 DEF DeadInv, DeadBytesNeverOvercount

\* Every step keeps DeadInv.
LEMMA NextDead == IInv /\ IInv' /\ RInv /\ DeadInv /\ [Next]_vars => DeadInv'
<1> SUFFICES ASSUME IInv, IInv', RInv, DeadInv, [Next]_vars
             PROVE  DeadInv'
  OBVIOUS
<1>1. /\ TypeOK /\ TypeOK' /\ GoneIsEmpty /\ \A c \in Compactor : JobSound(c)
      /\ segments \subseteq SegID /\ deadBytes \in [SegID -> Nat] /\ file \in [SegID -> File]
  <2>1. TypeOK /\ TypeOK' /\ GoneIsEmpty /\ \A c \in Compactor : JobSound(c)
    BY DEF IInv, RInv
  <2> QED
    BY <2>1 DEF TypeOK, File
<1>2. CASE Open
  <2>1. \A i \in SegID : deadBytes'[i] = 0
    BY <1>2 DEF Open
  <2> QED
    BY <2>1, OpenDead
<1>3. CASE (\E k \in Key, v \in Val : Put(k, v)) \/ (\E k \in Key : Delete(k))
  BY <1>1, <1>3, WriteDead
<1>4. ASSUME NEW cur \in SegID \cup {NoSeg}, CreateFails(cur),
             UNCHANGED <<proc, idx, segments, nextSegID, deadBytes>>
      PROVE  DeadInv'
  <2>1. \A i \in SegID : file'[i].recs = file[i].recs
    BY <1>1, <1>4, FinalizedKeeps DEF CreateFails
  <2>2. \A i \in segments' : file'[i].recs = file[i].recs
    BY <1>1, <1>4, <2>1
  <2> QED
    BY <1>4, <2>2, QuietDead
<1>5. CASE WriteFails
  <2>1. /\ CreateFails(active) /\ active \in SegID \cup {NoSeg}
        /\ UNCHANGED <<proc, idx, segments, nextSegID, deadBytes>>
    BY <1>1, <1>5 DEF WriteFails, TypeOK, mem
  <2> QED
    BY <1>4, <2>1
<1>6. ASSUME NEW c \in Compactor, RelocateFails(c)
      PROVE  DeadInv'
  <2>1. /\ CreateFails(compactOut) /\ compactOut \in SegID \cup {NoSeg}
        /\ UNCHANGED <<proc, idx, segments, nextSegID, deadBytes>>
    BY <1>1, <1>6 DEF RelocateFails, TypeOK
  <2> QED
    BY <1>4, <2>1
<1>7. ASSUME NEW c \in Compactor, Relocate(c)
      PROVE  DeadInv'
  BY <1>1, <1>7, RelocateDead
<1>8. ASSUME NEW c \in Compactor, Drop(c)
      PROVE  DeadInv'
  <2>1. /\ UNCHANGED <<file, proc, idx, nextSegID>> /\ segments' \subseteq segments
        /\ deadBytes' = [deadBytes EXCEPT ![job[c].src] = 0]
    BY <1>8 DEF Drop, disk
  <2>2. \A i \in SegID : deadBytes'[i] \in {deadBytes[i], 0}
    BY <1>1, <2>1
  <2> QED
    BY <2>1, <2>2, QuietDead
<1>9. ASSUME NEW c \in Compactor, Remove(c)
      PROVE  DeadInv'
  <2>1. /\ UNCHANGED <<proc, idx, nextSegID, segments, deadBytes>>
        /\ file' = [file EXCEPT ![job[c].src] = NoFile] /\ job[c].src \notin segments
    BY <1>1, <1>9 DEF Remove, JobSound, mem
  <2>2. \A i \in segments' : file'[i].recs = file[i].recs
    BY <1>1, <2>1
  <2> QED
    BY <2>1, <2>2, QuietDead
<1>10. ASSUME proc' = "down"
       PROVE  DeadInv'
  BY <1>10 DEF DeadInv, DeadBytesNeverOvercount
<1>11. ASSUME UNCHANGED <<file, proc, idx, nextSegID, segments, deadBytes>>
       PROVE  DeadInv'
  BY <1>11, QuietDead
<1>12. ASSUME NEW c \in Compactor,
              StartPass(c) \/ Pick(c) \/ Check(c) \/ BeginScan(c) \/ SkipRecord(c)
                  \/ ScanUnmapped(c) \/ RemoveFails(c) \/ RemoveSnapshot(c)
       PROVE  DeadInv'
  <2>1. proc' = "down" \/ UNCHANGED <<file, proc, idx, nextSegID, segments, deadBytes>>
    BY <1>12 DEF StartPass, Pick, Check, BeginScan, SkipRecord, ScanUnmapped, Vanish, EndProcess,
                 RemoveFails, RemoveSnapshot, disk, mem
  <2> QED
    BY <1>10, <1>11, <2>1
<1>13. CASE BeginClose \/ FinishClose \/ SnapshotFails \/ CloseCutShort
  <2>1. /\ UNCHANGED <<file, idx, nextSegID, segments, deadBytes>>
        /\ proc \in {"open", "closing"} /\ proc' \in {"closing", "closed"}
    BY <1>13 DEF BeginClose, FinishClose, SnapshotFails, CloseCutShort, Stopped, disk, mem
  <2> QED
    BY <2>1, QuietDead
<1>14. CASE Crash
  BY <1>10, <1>14 DEF Crash, Vanish, EndProcess
<1>15. CASE UNCHANGED vars
  BY <1>11, <1>15 DEF vars, disk, mem
<1> QED
  BY <1>2, <1>3, <1>5, <1>6, <1>7, <1>8, <1>9, <1>12, <1>13, <1>14, <1>15 DEF Next, CompactorStep

\* The first state has nothing to count.
LEMMA InitDead == Init => DeadInv
BY DEF Init, DeadInv, DeadBytesNeverOvercount

\* Whatever writers and compactors do to a segment, what is counted as dead in it is.
THEOREM DeadBytesAreDead == Spec => []DeadBytesNeverOvercount
<1>1. DeadInv => DeadBytesNeverOvercount
  BY DEF DeadInv
<1> QED
  BY <1>1, InitDead, NextDead, RecoveryInvariance, PTL DEF Spec

\* What a Put or a Delete adds to the counters is what it makes garbage.
THEOREM WritesAccount == Spec => WritesAccountForGarbage
<1>1. IInv /\ RInv /\ IInv' /\ [Next]_vars =>
        (writes' # writes =>
            \A i \in segments' : deadBytes'[i] - deadBytes[i] = Dead(i)' - Dead(i))
  <2> SUFFICES ASSUME IInv, RInv, IInv', [Next]_vars, writes' # writes, NEW i \in segments'
               PROVE  deadBytes'[i] - deadBytes[i] = Dead(i)' - Dead(i)
    OBVIOUS
  <2>1. (\E k \in Key, v \in Val : Put(k, v)) \/ (\E k \in Key : Delete(k))
    BY DEF Next, Open, WriteFails, StartPass, CompactorStep, Pick, Check, BeginScan, SkipRecord,
       Relocate, RelocateFails, ScanUnmapped, Drop, Remove, RemoveFails, RemoveSnapshot, BeginClose,
       FinishClose, SnapshotFails, CloseCutShort, Crash, bounds, vars
  <2>2. GoneIsEmpty /\ i \in dir'
    BY DEF RInv, IInv, SegsOnDisk
  <2> QED
    BY <2>1, <2>2, WriteAccounts
<1> QED
  BY <1>1, RecoveryInvariance, PTL DEF Spec, WritesAccountForGarbage

=============================================================================
