---------------------------- MODULE BitcaskProofs ----------------------------
(***************************************************************************)
(* Proofs about module Bitcask, for all values of its constants: the type  *)
(* invariant, that the index is sound, that compaction orphans no key and  *)
(* unlinks no file in use.  They rest on the inductive invariant IInv.     *)
(***************************************************************************)
EXTENDS Bitcask, Extrema

-----------------------------------------------------------------------------
(* The highest of a set of segment ids, and the last of a set of records. *)

\* Max of a nonempty set of segment ids is its greatest element.
LEMMA MaxSeg ==
    ASSUME NEW S \in SUBSET SegID, S # {}
    PROVE  Max(S) \in S /\ \A y \in S : y <= Max(S)
<1>1. \E x \in S : \A y \in S : x >= y
  BY MaxExists, BoundAssumption DEF SegID
<1>2. Max(S) \in S /\ \A y \in S : Max(S) >= y
  BY <1>1 DEF Max
<1> QED
  BY <1>2 DEF SegID

\* LastOf of a nonempty set of places in sequences of lengths len is one of them,
\* and the last.
LEMMA LastOfPlaces ==
    ASSUME NEW len, \A i \in SegID : len[i] \in Nat,
           NEW S, S # {},
           \A a \in S : a \in [seg : SegID, pos : Nat \ {0}] /\ a.pos <= len[a.seg]
    PROVE  LastOf(S) \in S /\ \A b \in S \ {LastOf(S)} : Before(b, LastOf(S))
<1> DEFINE G == { a.seg : a \in S }
<1>1. G \in SUBSET SegID /\ G # {}
  <2>1. PICK a \in S : TRUE
    OBVIOUS
  <2> QED
    BY <2>1
<1>2. PICK a0 \in S : a0.seg = Max(G)
  BY <1>1, MaxSeg
<1>3. \A b \in S : b.seg <= a0.seg
  BY <1>1, <1>2, MaxSeg
<1> DEFINE g == a0.seg
           n == len[g]
           P == { a.pos : a \in {b \in S : b.seg = g} }
<1>4. g \in SegID /\ n \in Nat
  OBVIOUS
<1>5. P \in SUBSET (0 .. n) /\ P # {}
  <2>1. a0.pos \in P
    OBVIOUS
  <2>2. \A a \in S : a.seg = g => a.pos \in 0 .. n
    BY <1>4
  <2> QED
    BY <2>1, <2>2
<1>6. PICK p \in P : \A q \in P : p >= q
  BY <1>4, <1>5, MaxExists
<1>7. PICK a \in S : a.seg = g /\ a.pos = p
  BY <1>6
<1>8. ASSUME NEW b \in S \ {a}
      PROVE  Before(b, a)
  <2>1. CASE b.seg = g
    <3>1. b.pos <= a.pos
      BY <2>1, <1>6, <1>7 DEF SegID
    <3>2. b.pos # a.pos
      BY <2>1, <1>7, <1>8
    <3> QED
      BY <2>1, <3>1, <3>2, <1>7 DEF Before, SegID
  <2>2. CASE b.seg # g
    BY <2>2, <1>3, <1>7 DEF Before, SegID
  <2> QED
    BY <2>1, <2>2
<1> QED
  BY <1>7, <1>8 DEF LastOf

\* In particular of places in the files.
LEMMA LastOfExists ==
    ASSUME TypeOK,
           NEW S, S # {},
           \A a \in S : /\ a \in [seg : SegID, pos : Nat \ {0}]
                        /\ a.pos \in DOMAIN file[a.seg].recs
    PROVE  LastOf(S) \in S /\ \A b \in S \ {LastOf(S)} : Before(b, LastOf(S))
<1> DEFINE len == [i \in SegID |-> Len(file[i].recs)]
<1>1. \A i \in SegID : len[i] \in Nat /\ DOMAIN file[i].recs = 1 .. len[i]
  <2>1. \A i \in SegID : file[i].recs \in Seq(Record)
    BY DEF TypeOK
  <2> QED
    BY <2>1
<1> HIDE DEF len
<1>2. \A a \in S : a.pos <= len[a.seg]
  BY <1>1
<1> QED
  BY <1>1, <1>2, LastOfPlaces

-----------------------------------------------------------------------------
(* Sums.  What is said of every sum here is shown by looking at the least  *)
(* place at which it would be false.                                       *)

\* What the recursion of Sums says.
AddsUp(f, s, m) == f = [n \in 0 .. m |-> IF n = 0 THEN 0 ELSE f[n - 1] + s[n]]

\* There are such sums: the least number of them that there are not would have one less.
LEMMA SumsExist ==
    ASSUME NEW s, NEW N \in Nat
    PROVE  \E f : AddsUp(f, s, N)
<1> DEFINE Bad == { m \in Nat : ~ \E f : AddsUp(f, s, m) }
<1>1. SUFFICES ASSUME Bad # {} PROVE FALSE
  OBVIOUS
<1>2. PICK m \in Bad : \A x \in Bad : m <= x
  <2>1. Bad \in SUBSET Nat
    OBVIOUS
  <2> HIDE DEF Bad
  <2> QED
    BY <1>1, <2>1, MinExists
<1>3. m \in Nat /\ ~ \E f : AddsUp(f, s, m)
  BY <1>2
<1>4. CASE m = 0
  <2> DEFINE f == [n \in 0 .. m |-> 0]
  <2>1. f = [n \in 0 .. m |-> IF n = 0 THEN 0 ELSE f[n - 1] + s[n]]
    BY <1>4
  <2> QED
    BY <1>3, <2>1 DEF AddsUp
<1>5. CASE m # 0
  <2>1. m - 1 \in Nat /\ m - 1 \notin Bad
    BY <1>2, <1>3, <1>5
  <2>2. PICK g : AddsUp(g, s, m - 1)
    BY <2>1
  <2>3. g = [n \in 0 .. m - 1 |-> IF n = 0 THEN 0 ELSE g[n - 1] + s[n]]
    BY <2>2 DEF AddsUp
  <2> DEFINE f == [n \in 0 .. m |-> IF n = m THEN g[m - 1] + s[m] ELSE g[n]]
  <2>4. \A n \in 0 .. m - 1 : f[n] = g[n]
    BY <1>3
  <2>5. ASSUME NEW n \in 0 .. m
        PROVE  f[n] = IF n = 0 THEN 0 ELSE f[n - 1] + s[n]
    <3>1. CASE n = 0
      BY <1>3, <1>5, <2>3, <2>4, <3>1
    <3>2. CASE n # 0 /\ n # m
      <4>1. n \in 0 .. m - 1 /\ n - 1 \in 0 .. m - 1
        BY <1>3, <3>2
      <4>2. g[n] = g[n - 1] + s[n]
        BY <2>3, <3>2, <4>1
      <4> QED
        BY <2>4, <3>2, <4>1, <4>2
    <3>3. CASE n = m
      <4>1. m - 1 \in 0 .. m - 1 /\ m \in 0 .. m
        BY <1>3, <1>5
      <4> QED
        BY <1>5, <2>4, <3>3, <4>1
    <3> QED
      BY <3>1, <3>2, <3>3
  <2>6. f = [n \in 0 .. m |-> f[n]]
    OBVIOUS
  <2> HIDE DEF f
  <2>7. f = [n \in 0 .. m |-> IF n = 0 THEN 0 ELSE f[n - 1] + s[n]]
    BY <2>5, <2>6
  <2> QED
    BY <1>3, <2>7 DEF AddsUp
<1> QED
  BY <1>4, <1>5

\* So the sums of a sequence are such sums.
LEMMA SumsAddUp ==
    ASSUME NEW s \in Seq(Nat)
    PROVE  AddsUp(Sums(s), s, Len(s))
<1> DEFINE f == CHOOSE upTo : upTo = [n \in 0 .. Len(s) |->
                                        IF n = 0 THEN 0 ELSE upTo[n - 1] + s[n]]
<1>1. Sums(s) = f
  BY DEF Sums
<1>2. Len(s) \in Nat
  OBVIOUS
<1>3. \E g : g = [n \in 0 .. Len(s) |-> IF n = 0 THEN 0 ELSE g[n - 1] + s[n]]
  BY <1>2, SumsExist DEF AddsUp
<1>4. f = [n \in 0 .. Len(s) |-> IF n = 0 THEN 0 ELSE f[n - 1] + s[n]]
  BY <1>3
<1> HIDE DEF f
<1> QED
  BY <1>1, <1>4 DEF AddsUp

\* Whatever starts at 0 and grows by s[n] in step n is the sums of s, as far as it goes.
LEMMA SumsAre ==
    ASSUME NEW s \in Seq(Nat), NEW m \in 0 .. Len(s), NEW f,
           f[0] = 0, \A n \in 1 .. m : f[n] = f[n - 1] + s[n]
    PROVE  f[m] = Sums(s)[m]
<1> DEFINE S == Sums(s)
<1>1. S = [n \in 0 .. Len(s) |-> IF n = 0 THEN 0 ELSE S[n - 1] + s[n]]
  BY SumsAddUp DEF AddsUp
<1> HIDE DEF S
<1> DEFINE Bad == { n \in 0 .. m : f[n] # S[n] }
<1>2. SUFFICES ASSUME Bad # {} PROVE FALSE
  BY DEF S
<1>3. Len(s) \in Nat /\ m \in Nat /\ m <= Len(s)
  OBVIOUS
<1>4. PICK n \in Bad : \A x \in Bad : n <= x
  <2>1. Bad \in SUBSET Nat
    OBVIOUS
  <2> HIDE DEF Bad
  <2> QED
    BY <1>2, <2>1, MinExists
<1>5. n \in 0 .. m /\ f[n] # S[n] /\ n \in 0 .. Len(s)
  BY <1>3, <1>4
<1>6. n # 0
  BY <1>1, <1>5
<1>7. n \in 1 .. m /\ n - 1 \in 0 .. m /\ n - 1 \notin Bad
  BY <1>3, <1>4, <1>5, <1>6
<1>8. f[n - 1] = S[n - 1]
  BY <1>7
<1>9. S[n] = S[n - 1] + s[n]
  BY <1>1, <1>5, <1>6
<1> QED
  BY <1>5, <1>7, <1>8, <1>9

\* Sums are numbers that grow by the numbers summed up.
LEMMA SumsGrow ==
    ASSUME NEW s \in Seq(Nat)
    PROVE  /\ Sums(s) \in [0 .. Len(s) -> Nat] /\ Sums(s)[0] = 0
           /\ \A n \in 1 .. Len(s) : Sums(s)[n] = Sums(s)[n - 1] + s[n]
           /\ Total(s) \in Nat /\ Total(s) = Sums(s)[Len(s)]
<1> DEFINE S == Sums(s)
<1>1. S = [n \in 0 .. Len(s) |-> IF n = 0 THEN 0 ELSE S[n - 1] + s[n]]
  BY SumsAddUp DEF AddsUp
<1>2. Total(s) = S[Len(s)]
  BY DEF Total
<1> HIDE DEF S
<1>3. Len(s) \in Nat /\ \A n \in 1 .. Len(s) : s[n] \in Nat
  OBVIOUS
<1>4. S[0] = 0 /\ \A n \in 1 .. Len(s) : S[n] = S[n - 1] + s[n]
  BY <1>1, <1>3
<1> DEFINE Bad == { n \in 0 .. Len(s) : S[n] \notin Nat }
<1>5. Bad = {}
  <2> SUFFICES ASSUME Bad # {} PROVE FALSE
    OBVIOUS
  <2>1. PICK n \in Bad : \A x \in Bad : n <= x
    <3>1. Bad \in SUBSET Nat
      BY <1>3
    <3> HIDE DEF Bad
    <3> QED
      BY <3>1, MinExists
  <2>2. n \in 0 .. Len(s) /\ S[n] \notin Nat
    BY <2>1
  <2>3. n # 0
    BY <1>4, <2>2
  <2>4. n \in 1 .. Len(s) /\ n - 1 \in 0 .. Len(s) /\ n - 1 \notin Bad
    BY <1>3, <2>1, <2>2, <2>3
  <2>5. S[n - 1] \in Nat
    BY <2>4
  <2> HIDE DEF Bad
  <2>6. s[n] \in Nat /\ S[n] = S[n - 1] + s[n]
    BY <1>3, <1>4, <2>4
  <2> QED
    BY <2>2, <2>5, <2>6
<1>6. S \in [0 .. Len(s) -> Nat]
  <2>1. \A n \in 0 .. Len(s) : S[n] \in Nat
    BY <1>5
  <2>2. S = [n \in 0 .. Len(s) |-> S[n]]
    BY <1>1
  <2> QED
    BY <2>1, <2>2
<1> QED
  BY <1>2, <1>3, <1>4, <1>6 DEF S

\* Nothing sums up to 0.
LEMMA TotalOfNothing == Total(<<>>) = 0
<1>1. <<>> \in Seq(Nat) /\ Len(<<>>) = 0
  OBVIOUS
<1> QED
  BY <1>1, SumsGrow

\* Sums depend on no more than the numbers summed up.
LEMMA SumsOfPrefix ==
    ASSUME NEW s \in Seq(Nat), NEW t \in Seq(Nat), NEW m \in 0 .. Len(s), m <= Len(t),
           \A n \in 1 .. m : s[n] = t[n]
    PROVE  Sums(s)[m] = Sums(t)[m]
<1>1. Len(s) \in Nat /\ Len(t) \in Nat /\ m \in 0 .. Len(t)
  OBVIOUS
<1>2. \A n \in 1 .. m : n \in 1 .. Len(s)
  BY <1>1
<1>3. Sums(s)[0] = 0 /\ \A n \in 1 .. m : Sums(s)[n] = Sums(s)[n - 1] + t[n]
  BY <1>2, SumsGrow
<1> QED
  BY <1>1, <1>3, SumsAre

\* One more number at the end.
LEMMA TotalOfAppend ==
    ASSUME NEW s \in Seq(Nat), NEW t \in Seq(Nat), Len(t) = Len(s) + 1,
           \A n \in 1 .. Len(s) : t[n] = s[n]
    PROVE  Total(t) = Total(s) + t[Len(t)]
<1>1. Len(s) \in Nat /\ Len(s) \in 0 .. Len(s) /\ Len(t) \in 1 .. Len(t) /\ Len(t) - 1 = Len(s)
  OBVIOUS
<1>2. Sums(s)[Len(s)] = Sums(t)[Len(s)]
  <2>1. \A n \in 1 .. Len(s) : s[n] = t[n]
    OBVIOUS
  <2>2. Len(s) <= Len(t)
    BY <1>1
  <2> QED
    BY <1>1, <2>1, <2>2, SumsOfPrefix
<1>3. Sums(t)[Len(t)] = Sums(t)[Len(t) - 1] + t[Len(t)]
  BY <1>1, SumsGrow
<1> QED
  BY <1>1, <1>2, <1>3, SumsGrow

\* One number, the p-th, grows by d.
LEMMA TotalOfRaised ==
    ASSUME NEW s \in Seq(Nat), NEW t \in Seq(Nat), Len(t) = Len(s),
           NEW p \in 1 .. Len(s), NEW d \in Nat, t[p] = s[p] + d,
           \A n \in 1 .. Len(s) \ {p} : t[n] = s[n]
    PROVE  Total(t) = Total(s) + d
<1> DEFINE S == Sums(s)
           f == [n \in 0 .. Len(s) |-> IF n < p THEN S[n] ELSE S[n] + d]
<1>1. /\ S \in [0 .. Len(s) -> Nat] /\ S[0] = 0
      /\ \A n \in 1 .. Len(s) : S[n] = S[n - 1] + s[n]
  BY SumsGrow
<1>2. Total(s) = S[Len(s)] /\ Total(t) = Sums(t)[Len(s)]
  BY DEF Total
<1> HIDE DEF S
<1>3. Len(s) \in Nat /\ p \in Nat /\ 1 <= p /\ p <= Len(s) /\ \A n \in 1 .. Len(s) : s[n] \in Nat
  OBVIOUS
<1>4. f[0] = 0
  BY <1>1, <1>3
<1>5. ASSUME NEW n \in 1 .. Len(s)
      PROVE  f[n] = f[n - 1] + t[n]
  <2>0. n \in 0 .. Len(s) /\ n - 1 \in 0 .. Len(s)
    BY <1>3
  <2>1. n \in 0 .. Len(s) /\ n - 1 \in 0 .. Len(s) /\ S[n] = S[n - 1] + s[n] /\ S[n - 1] \in Nat
    BY <1>1, <2>0
  <2>2. /\ f[n] = IF n < p THEN S[n] ELSE S[n] + d
        /\ f[n - 1] = IF n - 1 < p THEN S[n - 1] ELSE S[n - 1] + d
    BY <2>1
  <2> HIDE DEF f
  <2>3. s[n] \in Nat /\ n \in Nat /\ n \in 1 .. Len(s)
    BY <1>3
  <2>4. CASE n # p
    <3>1. t[n] = s[n]
      BY <2>4
    <3>2. n < p <=> n - 1 < p
      BY <1>3, <2>3, <2>4
    <3>3. CASE n < p
      BY <2>1, <2>2, <3>1, <3>2, <3>3
    <3>4. CASE ~(n < p)
      <4>1. f[n] = S[n - 1] + s[n] + d /\ f[n - 1] = S[n - 1] + d
        BY <2>1, <2>2, <3>2, <3>4
      <4> QED
        BY <2>1, <2>3, <3>1, <4>1
    <3> QED
      BY <3>3, <3>4
  <2>5. CASE n = p
    BY <1>3, <2>1, <2>2, <2>3, <2>5
  <2> QED
    BY <2>4, <2>5
<1>6. f[Len(s)] = S[Len(s)] + d
  BY <1>3
<1> HIDE DEF f
<1>7. f[Len(s)] = Sums(t)[Len(s)]
  <2>1. Len(s) \in 0 .. Len(t)
    BY <1>3
  <2> QED
    BY <1>4, <1>5, <2>1, SumsAre
<1> QED
  BY <1>2, <1>6, <1>7

-----------------------------------------------------------------------------
(* The inductive invariant. *)

\* A location in a file on disk is a value record of the key.
Sound(k, a) ==
    a.seg \in dir =>
        /\ a.pos \in DOMAIN file[a.seg].recs
        /\ file[a.seg].recs[a.pos].key = k
        /\ ~IsTombstone(file[a.seg].recs[a.pos])

LocsSound == \A k \in Key : Sound(k, idx[k]) /\ Sound(k, snap.idx[k])

SegsOnDisk ==
    /\ segments \subseteq dir /\ mapped \subseteq dir
    /\ {active, compactOut} \subseteq segments \cup {NoSeg}
    /\ proc # "down" => active # NoSeg
    /\ proc \in {"open", "closing"} => segments \subseteq mapped

\* Ids are given out in increasing order, and the file with the highest stays: a
\* new segment is never the one an old location means.
IdsBelow ==
    /\ \A k \in Key : snap.idx[k].seg \in SegID => \E j \in dir : snap.idx[k].seg <= j
    /\ proc # "down" =>
        /\ nextSegID - 1 \in dir \cap {active, compactOut}
        /\ active < nextSegID /\ compactOut < nextSegID
        /\ \A i \in segments : i < nextSegID
        /\ \A k \in Key : idx[k].seg < nextSegID /\ snap.idx[k].seg < nextSegID

\* A compactor at work has a source that nobody appends to, and no live record
\* behind its scan.
JobSound(c) ==
    /\ proc = "down" => job[c].pc = "idle"
    /\ job[c].pc \in {"check", "begin", "scan", "drop", "remove"} =>
        /\ job[c].src \in SegID /\ job[c].src < nextSegID
        /\ job[c].src \notin {active, compactOut}
    /\ job[c].pc = "remove" => job[c].src \notin segments
    /\ (job[c].pc = "scan" /\ job[c].src \in mapped) =>
        /\ job[c].pos \in DOMAIN file[job[c].src].recs
        /\ \A k \in Key : idx[k].seg = job[c].src => idx[k].pos >= job[c].pos
    /\ (job[c].pc = "drop" /\ job[c].src \in mapped) =>
        \A k \in Key : idx[k].seg # job[c].src

\* What was dropped and is not unmapped yet is needed by nobody.
DroppedUnused == \A i \in mapped \ segments, k \in Key : idx[k].seg # i

IInv ==
    /\ TypeOK
    /\ LocsSound
    /\ SegsOnDisk
    /\ IdsBelow
    /\ \A c \in Compactor : JobSound(c)
    /\ DroppedUnused

-----------------------------------------------------------------------------
(* Appending a record. *)

File == [recs : Seq(Record), size : Nat, cap : Nat]

\* A file keeps its shape when a record is added to it or its end is cut off.
LEMMA FileShapes ==
    ASSUME NEW f \in File, NEW r \in Record
    PROVE  /\ Extended(f, r) \in File /\ Extended(f, r).recs = Append(f.recs, r)
           /\ Finalized(f) \in File /\ Finalized(f).recs = f.recs
<1>1. SizeOf(r) \in Nat
  BY OptionsAssumption DEF SizeOf
<1>2. Append(f.recs, r) \in Seq(Record) /\ f.size + SizeOf(r) \in Nat
  BY <1>1 DEF File
<1>3. ASSUME NEW rs \in Seq(Record), NEW n \in Nat
      PROVE  /\ [f EXCEPT !.recs = rs, !.size = n] \in File
             /\ [f EXCEPT !.recs = rs, !.size = n].recs = rs
  BY DEF File
<1>4. Extended(f, r) \in File /\ Extended(f, r).recs = Append(f.recs, r)
  BY <1>2, <1>3 DEF Extended
<1>5. Finalized(f) \in File /\ Finalized(f).recs = f.recs
  <2>1. Finalized(f) = [recs |-> f.recs, size |-> f.size, cap |-> f.size]
    BY DEF File, Finalized
  <2> QED
    BY <2>1 DEF File
<1> QED
  BY <1>4, <1>5

\* A new file is a file with no records.
LEMMA NewFileShape == NewFile \in File /\ NewFile.recs = <<>>
<1>1. NewFile = [recs |-> <<>>, size |-> 0, cap |-> SegmentSize]
  BY DEF NewFile, NoFile
<1>2. <<>> \in Seq(Record) /\ SegmentSize \in Nat
  BY OptionsAssumption
<1> QED
  BY <1>1, <1>2 DEF File

\* Cutting off the end of the segment appended to so far changes no record.
LEMMA FinalizedKeeps ==
    ASSUME file \in [SegID -> File], NEW cur \in SegID \cup {NoSeg}
    PROVE  /\ FinalizedFiles(cur) \in [SegID -> File]
           /\ \A i \in SegID : FinalizedFiles(cur)[i].recs = file[i].recs
<1>1. CASE cur = NoSeg
  BY <1>1 DEF FinalizedFiles
<1>2. CASE cur # NoSeg
  <2>1. FinalizedFiles(cur) = [file EXCEPT ![cur] = Finalized(file[cur])]
    BY <1>2 DEF FinalizedFiles
  <2>2. Finalized(file[cur]) \in File /\ Finalized(file[cur]).recs = file[cur].recs
    BY <1>2 DEF File, Finalized
  <2> QED
    BY <2>1, <2>2
<1> QED
  BY <1>1, <1>2

\* A record appended by AppendRecord is where EndOf says, in segment t, which is
\* the one appended to so far or a new one; every file on disk keeps the records
\* it had.
LEMMA AppendRecordKeeps ==
    ASSUME TypeOK, NEW cur \in SegID \cup {NoSeg}, NEW r \in Record, AppendRecord(cur, r),
           NEW t, t = Target(cur, r)
    PROVE  /\ t \in SegID
           /\ \/ t = cur /\ nextSegID' = nextSegID
              \/ t = nextSegID /\ t \notin dir /\ nextSegID' = nextSegID + 1
           /\ nextSegID' \in 0 .. MaxSegID + 1
           /\ file' \in [SegID -> File]
           /\ \A i \in dir : \A p \in DOMAIN file[i].recs :
                p \in DOMAIN file'[i].recs /\ file'[i].recs[p] = file[i].recs[p]
           /\ \A i \in SegID \ {t} : file'[i].recs = file[i].recs
           /\ EndOf(t) \in Location
           /\ EndOf(t).pos \in DOMAIN file'[t].recs
           /\ file'[t].recs[EndOf(t).pos] = r
           /\ EndOf(t).seg = t
<1>1. NoSeg \notin SegID /\ file \in [SegID -> File]
  BY DEF NoSeg, SegID, TypeOK, File
<1>2. ASSUME NEW f \in File, file'[t].recs = Append(f.recs, r), t \in SegID
      PROVE  /\ EndOf(t) \in Location /\ EndOf(t).seg = t
             /\ EndOf(t).pos \in DOMAIN file'[t].recs
             /\ file'[t].recs[EndOf(t).pos] = r
             /\ \A p \in DOMAIN f.recs :
                  p \in DOMAIN file'[t].recs /\ file'[t].recs[p] = f.recs[p]
  <2>1. f.recs \in Seq(Record)
    BY DEF File
  <2>2. PICK n \in Nat : n = Len(f.recs)
    BY <2>1
  <2>3. /\ Append(f.recs, r) \in Seq(Record)
        /\ Len(Append(f.recs, r)) = n + 1
        /\ Append(f.recs, r)[n + 1] = r
        /\ \A p \in 1 .. n : Append(f.recs, r)[p] = f.recs[p]
    BY <2>1, <2>2
  <2>4. DOMAIN f.recs = 1 .. n /\ DOMAIN Append(f.recs, r) = 1 .. (n + 1)
    BY <2>1, <2>2, <2>3
  <2>5. EndOf(t) = [seg |-> t, pos |-> n + 1]
    BY <2>3, <1>2 DEF EndOf
  <2>6. EndOf(t) \in Location
    BY <2>5, <1>2 DEF Location
  <2> QED
    BY <2>2, <2>3, <2>4, <2>5, <2>6, <1>2
<1>3. CASE Fits(cur, SizeOf(r))
  <2>1. t = cur /\ cur \in SegID /\ nextSegID' = nextSegID
    BY <1>3 DEF Fits, Target, AppendRecord
  <2>2. file' = [file EXCEPT ![t] = Extended(file[t], r)]
    BY <1>3, <2>1 DEF AppendRecord
  <2>3. Extended(file[t], r) \in File /\ Extended(file[t], r).recs = Append(file[t].recs, r)
    BY <1>1, <2>1, FileShapes
  <2>4. /\ file' \in [SegID -> File] /\ file'[t].recs = Append(file[t].recs, r)
        /\ \A i \in SegID \ {t} : file'[i].recs = file[i].recs
    BY <1>1, <2>1, <2>2, <2>3
  <2>5. dir \subseteq SegID /\ nextSegID \in 0 .. MaxSegID + 1
    BY DEF TypeOK
  <2>6. file[t] \in File
    BY <1>1, <2>1
  <2>7. \A i \in dir : \A p \in DOMAIN file[i].recs :
            p \in DOMAIN file'[i].recs /\ file'[i].recs[p] = file[i].recs[p]
    BY <1>2, <2>1, <2>4, <2>5, <2>6
  <2> QED
    BY <1>2, <2>1, <2>4, <2>5, <2>6, <2>7
<1>4. CASE ~Fits(cur, SizeOf(r))
  <2>1. t = nextSegID /\ t \in SegID /\ t \notin dir /\ nextSegID' = nextSegID + 1
    BY <1>4 DEF Target, AppendRecord, CanAppend
  <2>2. file' = [FinalizedFiles(cur) EXCEPT ![t] = Extended(NewFile, r)]
    BY <1>4, <2>1 DEF AppendRecord
  <2>3. file[t] \in File
    BY <1>1, <2>1
  <2>4. /\ Extended(NewFile, r) \in File /\ NewFile \in File
        /\ Extended(NewFile, r).recs = Append(NewFile.recs, r)
    BY <2>3, FileShapes, NewFileShape
  <2>5. /\ FinalizedFiles(cur) \in [SegID -> File]
        /\ \A i \in SegID : FinalizedFiles(cur)[i].recs = file[i].recs
    BY <1>1, FinalizedKeeps
  <2>6. /\ file' \in [SegID -> File] /\ file'[t].recs = Append(NewFile.recs, r)
        /\ \A i \in SegID \ {t} : file'[i].recs = file[i].recs
    BY <2>1, <2>2, <2>4, <2>5
  <2>7. dir \subseteq SegID \ {t}
    BY <2>1 DEF TypeOK
  <2>8. nextSegID' \in 0 .. MaxSegID + 1
    BY <2>1, BoundAssumption DEF SegID
  <2> QED
    BY <1>2, <2>1, <2>4, <2>6, <2>7, <2>8
<1> QED
  BY <1>3, <1>4

-----------------------------------------------------------------------------
(* Recovery. *)

\* RecordsOf(k) are places of records of k on disk.
LEMMA RecordsOfPlaces ==
    ASSUME TypeOK, NEW k \in Key, NEW a \in RecordsOf(k)
    PROVE  /\ a \in [seg : SegID, pos : Nat \ {0}]
           /\ a.seg \in dir /\ a.pos \in DOMAIN file[a.seg].recs
           /\ file[a.seg].recs[a.pos].key = k
<1>0. PICK i \in dir :
        \E p \in DOMAIN file[i].recs : a = [seg |-> i, pos |-> p] /\ file[i].recs[p].key = k
  BY DEF RecordsOf
<1>1. PICK p \in DOMAIN file[i].recs : a = [seg |-> i, pos |-> p] /\ file[i].recs[p].key = k
  BY <1>0
<1>2. i \in SegID /\ file[i].recs \in Seq(Record)
  BY DEF TypeOK
<1>3. p \in Nat \ {0}
  BY <1>2
<1> QED
  BY <1>1, <1>2, <1>3

\* What Open puts into the index for k is a location of a value of k, in a
\* segment on disk or in one that is gone for good.
LEMMA RecoveredLocSound ==
    ASSUME TypeOK, LocsSound, IdsBelow, NEW k \in Key
    PROVE  /\ RecoveredLoc(k) \in Location
           /\ Sound(k, RecoveredLoc(k))
           /\ dir # {} => RecoveredLoc(k).seg <= Max(dir)
           /\ dir = {} => RecoveredLoc(k) = NoLoc
<1> DEFINE S == Replayed(k)
           a == LastOf(S)
<1>0. /\ NoLoc \in Location /\ NoLoc.seg = NoSeg /\ NoSeg \notin SegID
      /\ snap.idx[k] \in Location /\ dir \subseteq SegID
      /\ \A l \in Location : l.seg \in SegID \/ l = NoLoc
  BY DEF NoLoc, Location, NoSeg, SegID, TypeOK
<1>1. dir # {} => /\ Max(dir) \in SegID /\ NoSeg <= Max(dir)
                  /\ \A i \in dir : i <= Max(dir)
  <2>1. dir # {} => Max(dir) \in dir /\ \A i \in dir : i <= Max(dir)
    BY <1>0, MaxSeg
  <2>2. \A i \in SegID : NoSeg <= i
    BY DEF SegID, NoSeg
  <2> QED
    BY <1>0, <2>1, <2>2
<1>2. S \subseteq RecordsOf(k)
  BY DEF Replayed
<1>3. CASE S # {} /\ ~IsTombstone(RecordAt(a))
  <2>1. a \in S
    BY <1>2, <1>3, RecordsOfPlaces, LastOfExists
  <2>2. RecoveredLoc(k) = a
    BY <1>3 DEF RecoveredLoc
  <2>3. /\ a \in [seg : SegID, pos : Nat \ {0}]
        /\ a.seg \in dir /\ a.pos \in DOMAIN file[a.seg].recs
        /\ file[a.seg].recs[a.pos].key = k
    BY <1>2, <2>1, RecordsOfPlaces
  <2> QED
    BY <1>1, <1>3, <2>2, <2>3 DEF Location, Sound, RecordAt
<1>4. CASE (S # {} /\ IsTombstone(RecordAt(a))) \/ (S = {} /\ ~UseSnapshot)
  <2>1. RecoveredLoc(k) = NoLoc
    BY <1>4 DEF RecoveredLoc
  <2> QED
    BY <1>0, <1>1, <2>1 DEF Sound
<1>5. CASE S = {} /\ UseSnapshot
  <2>1. RecoveredLoc(k) = snap.idx[k]
    BY <1>5 DEF RecoveredLoc
  <2>2. snap.idx[k].seg \in SegID => \E j \in dir : snap.idx[k].seg <= j
    BY DEF IdsBelow
  <2>3. dir # {}
    BY <1>5 DEF UseSnapshot
  <2>4. snap.idx[k].seg <= Max(dir)
    <3>1. CASE snap.idx[k].seg \in SegID
      BY <1>0, <1>1, <2>2, <2>3, <3>1 DEF SegID
    <3>2. CASE snap.idx[k] = NoLoc
      BY <1>0, <1>1, <2>3, <3>2
    <3> QED
      BY <1>0, <3>1, <3>2
  <2>5. Sound(k, snap.idx[k])
    BY DEF LocsSound
  <2> QED
    BY <1>0, <2>1, <2>3, <2>4, <2>5
<1> HIDE DEF S, a
<1> QED
  BY <1>3, <1>4, <1>5

-----------------------------------------------------------------------------
(* Compactors that move on and leave the rest alone. *)

PCs == {"idle", "pick", "check", "begin", "scan", "drop", "remove", "unsnap"}
Job == [pc : PCs, src : SegID \cup {NoSeg}, pos : Nat]

\* A step that changes one job only, to a sound one, keeps IInv.
LEMMA JobMoves ==
    ASSUME IInv, NEW c \in Compactor, NEW j \in Job, job' = [job EXCEPT ![c] = j],
           JobSound(c)', compactErr' \in BOOLEAN,
           UNCHANGED <<disk, proc, idx, segments, active, compactOut, nextSegID, deadBytes,
                       mapped, weak, bounds>>
    PROVE  IInv'
<1>1. job \in [Compactor -> Job] /\ job' \in [Compactor -> Job]
  BY DEF IInv, TypeOK, Job, PCs
<1>2. TypeOK'
  BY <1>1 DEF IInv, TypeOK, disk, bounds, Job, PCs
<1>3. LocsSound' /\ SegsOnDisk' /\ IdsBelow' /\ DroppedUnused'
  BY DEF IInv, LocsSound, Sound, SegsOnDisk, IdsBelow, DroppedUnused, disk, IsTombstone
<1>4. ASSUME NEW d \in Compactor
      PROVE  JobSound(d)'
  <2>1. CASE d = c
    BY <2>1
  <2>2. CASE d # c
    <3>1. job'[d] = job[d] /\ JobSound(d)
      BY <1>1, <2>2 DEF IInv
    <3> QED
      BY <3>1 DEF JobSound, disk
  <2> QED
    BY <2>1, <2>2
<1> QED
  BY <1>2, <1>3, <1>4 DEF IInv

\* What Goto makes of a job.
LEMMA GotoJob ==
    ASSUME TypeOK, NEW c \in Compactor, NEW pc \in PCs, Goto(c, pc)
    PROVE  \E j \in Job : /\ job' = [job EXCEPT ![c] = j]
                          /\ job'[c] = j
                          /\ j.pc = pc /\ j.src = job[c].src /\ j.pos = job[c].pos
<1>1. job \in [Compactor -> Job]
  BY DEF TypeOK, Job, PCs
<1>2. job' = [job EXCEPT ![c] = [job[c] EXCEPT !.pc = pc]]
  BY <1>1 DEF Goto
<1>3. [job[c] EXCEPT !.pc = pc] \in Job
  BY <1>1 DEF Job
<1>4. /\ [job[c] EXCEPT !.pc = pc].pc = pc
      /\ [job[c] EXCEPT !.pc = pc].src = job[c].src
      /\ [job[c] EXCEPT !.pc = pc].pos = job[c].pos
  BY <1>1 DEF Job
<1> QED
  BY <1>1, <1>2, <1>3, <1>4

LEMMA IdleIsJob == IdleJob \in Job /\ IdleJob.pc = "idle"
  BY DEF IdleJob, Job, PCs

LEMMA StartPassKeeps ==
    ASSUME IInv, NEW c \in Compactor, StartPass(c)
    PROVE  IInv'
<1>1. PICK j \in Job : job' = [job EXCEPT ![c] = j] /\ job'[c] = j /\ j.pc = "pick"
  BY GotoJob DEF StartPass, IInv, PCs
<1>2. JobSound(c)'
  BY <1>1 DEF JobSound, StartPass
<1> QED
  BY <1>1, <1>2, JobMoves DEF StartPass, mem, IInv, TypeOK

LEMMA PickKeeps ==
    ASSUME IInv, NEW c \in Compactor, Pick(c)
    PROVE  IInv'
<1>1. TypeOK /\ JobSound(c) /\ job[c].pc = "pick" /\ UNCHANGED proc
  BY DEF IInv, Pick
<1>2. CASE \E i \in Eligible : /\ job' = [job EXCEPT ![c] = [pc |-> "check", src |-> i, pos |-> 0]]
                               /\ UNCHANGED compactErr
  <2>1. PICK i \in Eligible : job' = [job EXCEPT ![c] = [pc |-> "check", src |-> i, pos |-> 0]]
    BY <1>2
  <2>2. i \in segments /\ i \in SegID /\ i \notin {active, compactOut}
    BY <1>1, <2>1 DEF Eligible, TypeOK
  <2>3. i < nextSegID
    BY <1>1, <2>2 DEF IInv, IdsBelow, JobSound
  <2> DEFINE j == [pc |-> "check", src |-> i, pos |-> 0]
  <2>4. j \in Job /\ job'[c] = j
    BY <1>1, <2>1, <2>2 DEF Job, PCs, TypeOK
  <2>5. JobSound(c)'
    BY <1>1, <2>2, <2>3, <2>4 DEF JobSound, Pick
  <2> QED
    BY <1>1, <1>2, <2>1, <2>4, <2>5, JobMoves DEF Pick, TypeOK
<1>3. CASE Eligible = {} /\ EndPass(c, FALSE)
  <2>1. job' = [job EXCEPT ![c] = IdleJob] /\ compactErr' = FALSE /\ job'[c] = IdleJob
    BY <1>1, <1>3 DEF EndPass, TypeOK
  <2>2. JobSound(c)'
    BY <2>1, IdleIsJob DEF JobSound
  <2> QED
    BY <2>1, <2>2, IdleIsJob, JobMoves DEF Pick
<1> QED
  BY <1>2, <1>3 DEF Pick

LEMMA CheckKeeps ==
    ASSUME IInv, NEW c \in Compactor, Check(c)
    PROVE  IInv'
<1> DEFINE pc == IF job[c].src \in segments \ {active} THEN "begin" ELSE "pick"
<1>1. PICK j \in Job : /\ job' = [job EXCEPT ![c] = j] /\ job'[c] = j
                       /\ j.pc = pc /\ j.src = job[c].src
  BY GotoJob DEF Check, IInv, PCs
<1>2. JobSound(c)'
  BY <1>1 DEF JobSound, Check, IInv, mem
<1> QED
  BY <1>1, <1>2, JobMoves DEF Check, mem, IInv, TypeOK

LEMMA BeginScanKeeps ==
    ASSUME IInv, NEW c \in Compactor, BeginScan(c)
    PROVE  IInv'
<1> DEFINE i == job[c].src
<1>1. /\ TypeOK /\ LocsSound /\ SegsOnDisk /\ JobSound(c) /\ job[c].pc = "begin"
      /\ i \in SegID /\ i < nextSegID /\ i \notin {active, compactOut} /\ proc # "down"
      /\ UNCHANGED <<disk, proc, mem, mapped, weak, bounds>>
  BY DEF IInv, BeginScan, JobSound
<1>2. job[c] \in Job /\ file[i].recs \in Seq(Record)
  BY <1>1 DEF TypeOK, Job, PCs
<1>3. CASE i \in mapped /\ file[i].recs # <<>>
  <2> DEFINE j == [job[c] EXCEPT !.pc = "scan", !.pos = 1]
  <2>1. j \in Job /\ j.pc = "scan" /\ j.pos = 1 /\ j.src = i
    BY <1>2 DEF Job, PCs
  <2>2. job' = [job EXCEPT ![c] = j]
    BY <1>1, <1>3 DEF BeginScan, TypeOK
  <2>3. job'[c] = j
    BY <1>1, <2>2 DEF TypeOK
  <2>4. \A k \in Key : idx[k].seg = i => idx[k].pos >= 1
    BY <1>1, <1>2, <1>3 DEF LocsSound, Sound, SegsOnDisk
  <2> HIDE DEF j
  <2>6. 1 \in DOMAIN file[i].recs
    BY <1>2, <1>3
  <2>5. JobSound(c)'
    BY <1>1, <2>1, <2>3, <2>4, <2>6 DEF JobSound, mem, disk
  <2> QED
    BY <1>1, <2>1, <2>2, <2>5, JobMoves DEF mem, TypeOK
<1>4. CASE ~(i \in mapped /\ file[i].recs # <<>>)
  <2>1. PICK j \in Job : /\ job' = [job EXCEPT ![c] = j] /\ job'[c] = j
                         /\ j.pc = "drop" /\ j.src = i
    BY <1>1, <1>4, GotoJob DEF BeginScan, PCs
  <2>2. i \in mapped => \A k \in Key : idx[k].seg # i
    BY <1>1, <1>2, <1>4 DEF LocsSound, Sound, SegsOnDisk
  <2>3. JobSound(c)'
    BY <1>1, <2>1, <2>2 DEF JobSound, mem
  <2> QED
    BY <1>1, <2>1, <2>3, JobMoves DEF mem, TypeOK
<1> QED
  BY <1>3, <1>4

\* A scan that leaves a record behind, which no index entry names any more, goes
\* on soundly.
LEMMA ScanOnKeeps ==
    ASSUME IInv, NEW c \in Compactor, Scanning(c), ScanOn(c), UNCHANGED proc,
           nextSegID' \in Int, nextSegID <= nextSegID',
           job[c].src \notin {active', compactOut'},
           DOMAIN file[job[c].src].recs \subseteq DOMAIN file'[job[c].src].recs,
           \A k \in Key : idx'[k].seg = job[c].src =>
                idx'[k] = idx[k] /\ idx[k].pos # job[c].pos
    PROVE  /\ \E j \in Job : job' = [job EXCEPT ![c] = j]
           /\ JobSound(c)'
<1> DEFINE i == job[c].src
           p == job[c].pos
<1>1. /\ TypeOK /\ LocsSound /\ SegsOnDisk /\ JobSound(c) /\ job[c].pc = "scan"
      /\ i \in SegID /\ i < nextSegID /\ proc # "down" /\ i \in mapped /\ i \in dir
  BY DEF IInv, Scanning, JobSound, SegsOnDisk
<1>2. job[c] \in Job /\ p \in Nat /\ file[i].recs \in Seq(Record) /\ job \in [Compactor -> Job]
  BY <1>1 DEF TypeOK, Job, PCs
<1>3. PICK n \in Nat : n = Len(file[i].recs) /\ DOMAIN file[i].recs = 1 .. n
  BY <1>2
<1>4. ASSUME NEW k \in Key, idx'[k].seg = i PROVE idx'[k].pos \in p .. n /\ idx'[k].pos # p
  <2>1. idx'[k] = idx[k] /\ idx[k].pos # p
    BY <1>4
  <2>2. idx[k].pos \in DOMAIN file[i].recs
    BY <1>1, <1>4, <2>1 DEF LocsSound, Sound
  <2>3. idx[k].pos >= p
    BY <1>1, <1>4, <2>1 DEF JobSound
  <2> QED
    BY <1>2, <1>3, <2>1, <2>2, <2>3
<1>5. i < nextSegID'
  BY <1>1 DEF TypeOK, SegID
<1>6. CASE p < n
  <2> DEFINE j == [job[c] EXCEPT !.pos = p + 1]
  <2>1. job' = [job EXCEPT ![c] = j]
    BY <1>2, <1>3, <1>6 DEF ScanOn
  <2>2. j \in Job /\ j.pc = "scan" /\ j.pos = p + 1 /\ j.src = i
    BY <1>1, <1>2 DEF Job, PCs
  <2>3. job'[c] = j
    BY <1>2, <2>1
  <2>4. \A k \in Key : idx'[k].seg = i => idx'[k].pos >= p + 1
    BY <1>2, <1>4
  <2> HIDE DEF j
  <2>6. p + 1 \in DOMAIN file'[i].recs
    BY <1>2, <1>3, <1>6
  <2>5. JobSound(c)'
    BY <1>1, <1>5, <2>2, <2>3, <2>4, <2>6 DEF JobSound
  <2> QED
    BY <2>1, <2>2, <2>5
<1>7. CASE ~(p < n)
  <2>1. PICK j \in Job : /\ job' = [job EXCEPT ![c] = j] /\ job'[c] = j
                         /\ j.pc = "drop" /\ j.src = i
    BY <1>1, <1>3, <1>7, GotoJob DEF ScanOn, PCs
  <2>2. \A k \in Key : idx'[k].seg # i
    BY <1>2, <1>4, <1>7
  <2>3. JobSound(c)'
    BY <1>1, <1>5, <2>1, <2>2 DEF JobSound
  <2> QED
    BY <2>1, <2>3
<1> QED
  BY <1>6, <1>7

LEMMA SkipRecordKeeps ==
    ASSUME IInv, NEW c \in Compactor, SkipRecord(c)
    PROVE  IInv'
<1>1. /\ TypeOK /\ LocsSound /\ SegsOnDisk /\ JobSound(c)
      /\ UNCHANGED <<disk, proc, mem, mapped, weak, bounds>>
      /\ Scanning(c) /\ ScanOn(c)
  BY DEF IInv, SkipRecord
<1>2. job[c].src \in dir /\ job[c].src \in SegID
  BY <1>1 DEF Scanning, SegsOnDisk, TypeOK
<1>3. \A k \in Key : idx[k] # At(c)
  <2> SUFFICES ASSUME NEW k \in Key, idx[k] = At(c)
               PROVE  FALSE
    OBVIOUS
  <2>1. idx[k].seg = job[c].src /\ idx[k].pos = job[c].pos
    BY DEF At
  <2>2. Scanned(c).key = k /\ ~IsTombstone(Scanned(c))
    BY <1>1, <1>2, <2>1 DEF LocsSound, Sound, Scanned, RecordAt, At
  <2> QED
    BY <2>2 DEF SkipRecord, IsLive
<1>4. \A k \in Key : idx[k].seg = job[c].src => idx[k].pos # job[c].pos
  <2>1. \A l \in Location : l.seg = job[c].src /\ l.pos = job[c].pos => l = At(c)
    BY <1>2 DEF Location, At, NoLoc, NoSeg, SegID
  <2> QED
    BY <1>1, <1>3, <2>1 DEF TypeOK
<1>5. /\ nextSegID' \in Int /\ nextSegID <= nextSegID'
      /\ job[c].src \notin {active', compactOut'}
      /\ UNCHANGED file
  BY <1>1 DEF TypeOK, mem, disk, JobSound, Scanning
<1>6. (\E j \in Job : job' = [job EXCEPT ![c] = j]) /\ JobSound(c)'
  BY <1>1, <1>4, <1>5, ScanOnKeeps DEF mem
<1> QED
  BY <1>1, <1>6, JobMoves DEF mem, TypeOK

-----------------------------------------------------------------------------
(* Steps that append a record. *)

\* A job whose compactor does not move stays sound while the others append: what
\* they write goes to segments that are nobody's source.
LEMMA OtherJobKeeps ==
    ASSUME IInv, NEW d \in Compactor, job'[d] = job[d], UNCHANGED proc,
           nextSegID' \in Int, nextSegID <= nextSegID',
           active' \in {active, compactOut, nextSegID},
           compactOut' \in {active, compactOut, nextSegID},
           segments' \subseteq segments \cup {active', compactOut'},
           mapped' \subseteq mapped \cup {active', compactOut'},
           \A i \in dir : DOMAIN file[i].recs \subseteq DOMAIN file'[i].recs,
           \A k \in Key : idx'[k] = idx[k] \/ idx'[k].seg \in {active', compactOut', NoSeg}
    PROVE  JobSound(d)'
<1>1. JobSound(d) /\ job[d] \in Job /\ nextSegID \in Int /\ TypeOK
  <2>1. TypeOK /\ JobSound(d)
    BY DEF IInv
  <2>2. nextSegID \in Int
    BY <2>1 DEF TypeOK
  <2>3. job[d] \in Job
    BY <2>1 DEF TypeOK, Job, PCs
  <2> QED
    BY <2>1, <2>2, <2>3
<1>2. job[d].pc \in {"check", "begin", "scan", "drop", "remove"} =>
        /\ job[d].src \in SegID /\ job[d].src < nextSegID'
        /\ job[d].src \notin {active', compactOut', NoSeg}
  BY <1>1 DEF JobSound, SegID, NoSeg
<1>3. mapped \subseteq dir
  BY DEF IInv, SegsOnDisk
<1> QED
  BY <1>1, <1>2, <1>3 DEF JobSound

\* An append leaves the ids in order.
LEMMA AppendIds ==
    ASSUME TypeOK, SegsOnDisk, IdsBelow, proc # "down", UNCHANGED <<snap, proc>>,
           NEW cur \in SegID \cup {NoSeg}, NEW r \in Record, AppendRecord(cur, r),
           NEW t, t = Target(cur, r),
           \/ cur = active /\ active' = t /\ compactOut' = compactOut
           \/ cur = compactOut /\ compactOut' = t /\ active' = active,
           NEW l, l = NoLoc \/ l = EndOf(t),
           idx' = [idx EXCEPT ![r.key] = l]
    PROVE  IdsBelow' /\ nextSegID \in Int /\ nextSegID' \in Int /\ nextSegID <= nextSegID' /\ t < nextSegID'
<1>1. /\ t \in SegID
      /\ \/ t = cur /\ nextSegID' = nextSegID
         \/ t = nextSegID /\ t \notin dir /\ nextSegID' = nextSegID + 1
      /\ nextSegID' \in 0 .. MaxSegID + 1 /\ EndOf(t) \in Location /\ EndOf(t).seg = t
  BY AppendRecordKeeps
<1>2. dir' = dir \cup {t} /\ segments' = segments \cup {t}
  BY DEF AppendRecord
<1>3. /\ NoLoc \in Location /\ NoLoc.seg = NoSeg /\ NoSeg \notin SegID
      /\ \A a \in Location : a.seg \in SegID \/ a = NoLoc
  BY DEF NoLoc, Location, NoSeg, SegID
<1>4. r.key \in Key /\ idx'[r.key] = l /\ \A k \in Key \ {r.key} : idx'[k] = idx[k]
  BY DEF TypeOK, Record
<1>5. nextSegID \in Int /\ nextSegID' \in Int /\ nextSegID <= nextSegID' /\ t < nextSegID'
  <2>1. nextSegID \in Nat /\ nextSegID' \in Nat /\ t \in Nat
    BY <1>1 DEF TypeOK, SegID
  <2>2. cur \in {active, compactOut} /\ cur < nextSegID
    BY DEF IdsBelow
  <2> QED
    BY <1>1, <2>1, <2>2
<1>6. snap' = snap /\ \A k \in Key : idx[k].seg < nextSegID /\ snap.idx[k].seg < nextSegID
  BY DEF IdsBelow
<1>7. \A k \in Key : snap'.idx[k].seg \in SegID => \E j \in dir' : snap'.idx[k].seg <= j
  BY <1>2, <1>6 DEF IdsBelow
<1>8. nextSegID' - 1 \in dir' \cap {active', compactOut'}
  BY <1>1, <1>2, <1>5 DEF IdsBelow
<1>9. /\ active \in Int /\ compactOut \in Int /\ active < nextSegID /\ compactOut < nextSegID
      /\ \A i \in segments : i \in Int /\ i < nextSegID
      /\ \A k \in Key : idx[k].seg \in Int /\ snap.idx[k].seg \in Int
  <2>1. \A i \in SegID \cup {NoSeg} : i \in Int
    BY DEF SegID, NoSeg
  <2>2. active < nextSegID /\ compactOut < nextSegID /\ \A i \in segments : i < nextSegID
    BY DEF IdsBelow
  <2>3. active \in Int /\ compactOut \in Int /\ \A i \in segments : i \in Int
    BY <2>1 DEF TypeOK
  <2>4. \A k \in Key : idx[k] \in Location /\ snap.idx[k] \in Location
    BY DEF TypeOK
  <2>5. \A a \in Location : a.seg \in Int
    BY <1>3, <2>1
  <2> QED
    BY <2>2, <2>3, <2>4, <2>5
<1>10. active' < nextSegID' /\ compactOut' < nextSegID' /\ \A i \in segments' : i < nextSegID'
  BY <1>2, <1>5, <1>9
<1>11. \A k \in Key : idx'[k].seg < nextSegID'
  BY <1>1, <1>3, <1>4, <1>5, <1>6, <1>9 DEF NoSeg
<1>12. \A k \in Key : snap'.idx[k].seg < nextSegID'
  BY <1>5, <1>6, <1>9
<1> QED
  BY <1>5, <1>7, <1>8, <1>10, <1>11, <1>12 DEF IdsBelow

\* An append to active or to compactOut, and the index update that goes with it.
LEMMA AppendKeeps ==
    ASSUME IInv, proc # "down", UNCHANGED <<snap, proc>>,
           NEW cur \in SegID \cup {NoSeg}, NEW r \in Record, AppendRecord(cur, r),
           NEW t, t = Target(cur, r),
           \/ cur = active /\ active' = t /\ compactOut' = compactOut
           \/ cur = compactOut /\ compactOut' = t /\ active' = active,
           NEW l, l = NoLoc \/ (l = EndOf(t) /\ ~IsTombstone(r)),
           idx' = [idx EXCEPT ![r.key] = l]
    PROVE  /\ dir' \subseteq SegID /\ file' \in [SegID -> File]
           /\ segments' \subseteq SegID /\ mapped' \subseteq SegID /\ weak' \subseteq Key
           /\ active' \in SegID \cup {NoSeg} /\ compactOut' \in SegID \cup {NoSeg}
           /\ nextSegID' \in 0 .. MaxSegID + 1 /\ idx' \in [Key -> Location] /\ t \in SegID
           /\ LocsSound' /\ SegsOnDisk' /\ IdsBelow' /\ DroppedUnused'
           /\ \A d \in Compactor : job'[d] = job[d] => JobSound(d)'
<1>1. TypeOK /\ LocsSound /\ SegsOnDisk /\ IdsBelow /\ DroppedUnused
  BY DEF IInv
<1>2. /\ t \in SegID
      /\ \/ t = cur /\ nextSegID' = nextSegID
         \/ t = nextSegID /\ t \notin dir /\ nextSegID' = nextSegID + 1
      /\ nextSegID' \in 0 .. MaxSegID + 1 /\ file' \in [SegID -> File]
      /\ EndOf(t) \in Location /\ EndOf(t).seg = t
      /\ EndOf(t).pos \in DOMAIN file'[t].recs
      /\ file'[t].recs[EndOf(t).pos] = r
  BY <1>1, AppendRecordKeeps
<1>3. \A i \in dir : \A p \in DOMAIN file[i].recs :
            p \in DOMAIN file'[i].recs /\ file'[i].recs[p] = file[i].recs[p]
  BY <1>1, AppendRecordKeeps
<1>4. dir' = dir \cup {t} /\ segments' = segments \cup {t} /\ mapped' = mapped \cup {t}
  BY DEF AppendRecord
<1>5. r.key \in Key /\ weak' \subseteq Key
  BY <1>1 DEF AppendRecord, Record, TypeOK
<1>6. /\ NoLoc \in Location /\ NoLoc.seg = NoSeg /\ NoSeg \notin SegID
      /\ \A a \in Location : a.seg \in SegID \/ a = NoLoc
  BY DEF NoLoc, Location, NoSeg, SegID
<1>7. /\ idx' \in [Key -> Location] /\ idx'[r.key] = l
      /\ \A k \in Key \ {r.key} : idx'[k] = idx[k]
  BY <1>1, <1>2, <1>5, <1>6 DEF TypeOK
<1>8. IdsBelow' /\ nextSegID \in Int /\ nextSegID' \in Int /\ nextSegID <= nextSegID' /\ t < nextSegID'
  BY <1>1, AppendIds
<1>9. ASSUME NEW k \in Key, NEW a \in Location, Sound(k, a), a.seg < nextSegID
      PROVE  Sound(k, a)'
  <2>1. a.seg \in dir \cup {t} => a.seg \in dir
    <3>1. a.seg = t => t = cur
      BY <1>2, <1>8, <1>9
    <3>2. t = cur => t \in dir
      BY <1>1, <1>2, <1>6 DEF SegsOnDisk
    <3> QED
      BY <3>1, <3>2
  <2> QED
    BY <1>3, <1>4, <1>9, <2>1 DEF Sound, IsTombstone
<1>10. /\ snap' = snap /\ snap.idx \in [Key -> Location] /\ idx \in [Key -> Location]
       /\ \A k \in Key : idx[k].seg < nextSegID /\ snap.idx[k].seg < nextSegID
  BY <1>1 DEF TypeOK, IdsBelow
<1>11. LocsSound'
  <2>1. \A k \in Key : Sound(k, snap.idx[k])' /\ Sound(k, idx[k]) /\ Sound(k, snap.idx[k])
    BY <1>1, <1>9, <1>10 DEF LocsSound
  <2>2. ASSUME NEW k \in Key
        PROVE  Sound(k, idx[k])'
    <3>1. CASE k # r.key
      <4>1. Sound(k, idx[k]) /\ idx'[k] = idx[k] /\ idx[k] \in Location /\ idx[k].seg < nextSegID
        BY <1>7, <1>10, <2>1, <3>1
      <4>2. \A a \in Location : Sound(k, a) /\ a.seg < nextSegID => Sound(k, a)'
        BY <1>9
      <4> QED
        BY <4>1, <4>2 DEF Sound
    <3>3. CASE k = r.key /\ l = NoLoc
      <4>1. NoSeg \notin dir'
        BY <1>1, <1>2, <1>4, <1>6 DEF TypeOK
      <4> QED
        BY <1>6, <1>7, <3>3, <4>1 DEF Sound
    <3>2. CASE k = r.key /\ l = EndOf(t) /\ ~IsTombstone(r)
      BY <1>2, <1>7, <3>2 DEF Sound, IsTombstone
    <3> QED
      BY <3>1, <3>2, <3>3
  <2> QED
    BY <2>1, <2>2 DEF LocsSound
<1>12. SegsOnDisk'
  BY <1>1, <1>2, <1>4, <1>6 DEF SegsOnDisk
<1>13. DroppedUnused'
  BY <1>1, <1>2, <1>4, <1>6, <1>7 DEF DroppedUnused, TypeOK
<1>14. active' \in {active, compactOut, nextSegID} /\ compactOut' \in {active, compactOut, nextSegID}
  BY <1>2
<1>15. ASSUME NEW d \in Compactor, job'[d] = job[d]
       PROVE  JobSound(d)'
  <2>1. \A k \in Key : idx'[k] = idx[k] \/ idx'[k].seg \in {active', compactOut', NoSeg}
    BY <1>2, <1>6, <1>7
  <2> QED
    BY <1>3, <1>4, <1>8, <1>14, <1>15, <2>1, OtherJobKeeps
<1>16. dir' \subseteq SegID /\ segments' \subseteq SegID /\ mapped' \subseteq SegID
  BY <1>1, <1>2, <1>4 DEF TypeOK
<1>17. active' \in SegID \cup {NoSeg} /\ compactOut' \in SegID \cup {NoSeg}
  BY <1>1, <1>2 DEF TypeOK
<1> QED
  BY <1>2, <1>5, <1>7, <1>8, <1>11, <1>12, <1>13, <1>15, <1>16, <1>17

\* Putting bytes down as dead keeps deadBytes a count per segment.
LEMMA WithSupersededType ==
    ASSUME TypeOK, NEW k \in Key, NEW dead \in [SegID -> Nat]
    PROVE  WithSuperseded(dead, k) \in [SegID -> Nat]
<1>1. ValSize \in Nat /\ (idx[k] # NoLoc => idx[k].seg \in SegID)
  BY OptionsAssumption DEF TypeOK, Location
<1> QED
  BY <1>1 DEF WithSuperseded

LEMMA WriteKeeps ==
    ASSUME IInv, NEW k \in Key, NEW v \in Val \cup {Absent}, Write(k, v),
           NEW l, l = NoLoc \/ (l = EndOf(active') /\ v # Absent),
           idx' = [idx EXCEPT ![k] = l],
           deadBytes' \in [SegID -> Nat]
    PROVE  IInv'
<1> DEFINE r == [key |-> k, val |-> v]
<1>1. r \in Record /\ r.key = k /\ (v # Absent => ~IsTombstone(r))
  BY DEF Record, IsTombstone
<1>2. /\ TypeOK /\ active \in SegID \cup {NoSeg} /\ proc = "open" /\ UNCHANGED <<snap, proc>>
      /\ AppendRecord(active, r) /\ active' = Target(active, r) /\ compactOut' = compactOut
      /\ writes' \in 0 .. MaxWrites
      /\ UNCHANGED <<compactErr, job, crashes, ioErrs>>
  <2>1. TypeOK
    BY DEF IInv
  <2>2. writes < MaxWrites /\ writes' = writes + 1 /\ writes \in 0 .. MaxWrites
    BY <2>1 DEF Write, TypeOK
  <2>3. writes' \in 0 .. MaxWrites
    BY <2>2, BoundAssumption
  <2> QED
    BY <2>1, <2>3 DEF Write, TypeOK
<1> HIDE DEF r
<1>3. /\ dir' \subseteq SegID /\ file' \in [SegID -> File]
      /\ segments' \subseteq SegID /\ mapped' \subseteq SegID /\ weak' \subseteq Key
      /\ active' \in SegID \cup {NoSeg} /\ compactOut' \in SegID \cup {NoSeg}
      /\ nextSegID' \in 0 .. MaxSegID + 1 /\ idx' \in [Key -> Location]
      /\ LocsSound' /\ SegsOnDisk' /\ IdsBelow' /\ DroppedUnused'
      /\ \A d \in Compactor : job'[d] = job[d] => JobSound(d)'
  BY <1>1, <1>2, AppendKeeps
<1>4. TypeOK'
  BY <1>2, <1>3 DEF TypeOK, File
<1> QED
  BY <1>2, <1>3, <1>4 DEF IInv

LEMMA PutKeeps ==
    ASSUME IInv, NEW k \in Key, NEW v \in Val, Put(k, v)
    PROVE  IInv'
<1>1. TypeOK /\ deadBytes \in [SegID -> Nat]
  BY DEF IInv, TypeOK
<1>2. v # Absent /\ deadBytes' \in [SegID -> Nat]
  BY <1>1, ValueAssumption, WithSupersededType DEF Put
<1> QED
  BY <1>2, WriteKeeps DEF Put

LEMMA DeleteKeeps ==
    ASSUME IInv, NEW k \in Key, Delete(k)
    PROVE  IInv'
<1>1. TypeOK /\ deadBytes \in [SegID -> Nat]
  BY DEF IInv, TypeOK
<1>2. [deadBytes EXCEPT ![active'] = @ + 1] \in [SegID -> Nat]
  <2>1. \A i \in SegID : deadBytes[i] + 1 \in Nat
    BY <1>1
  <2> QED
    BY <1>1, <2>1
<1>3. deadBytes' \in [SegID -> Nat]
  BY <1>1, <1>2, WithSupersededType DEF Delete
<1> QED
  BY <1>3, WriteKeeps DEF Delete

LEMMA RelocateKeeps ==
    ASSUME IInv, NEW c \in Compactor, Relocate(c)
    PROVE  IInv'
<1> DEFINE r == Scanned(c)
           i == job[c].src
           t == Target(compactOut, r)
<1>1. /\ TypeOK /\ LocsSound /\ SegsOnDisk /\ JobSound(c)
      /\ Scanning(c) /\ ~IsTombstone(r) /\ idx[r.key] = At(c)
      /\ AppendRecord(compactOut, r) /\ compactOut' = t
      /\ idx' = [idx EXCEPT ![r.key] = EndOf(t)]
      /\ ScanOn(c)
      /\ UNCHANGED <<snap, proc, active, deadBytes, compactErr, bounds>>
  BY DEF IInv, Relocate, IsLive
<1>2. /\ job[c].pc = "scan" /\ i \in mapped /\ i \in dir /\ i \in SegID /\ proc # "down"
      /\ i < nextSegID /\ i \notin {active, compactOut}
      /\ job[c] \in Job /\ file[i].recs \in Seq(Record) /\ compactOut \in SegID \cup {NoSeg}
  BY <1>1 DEF Scanning, JobSound, SegsOnDisk, TypeOK, Job, PCs
<1>3. /\ job[c].pos \in DOMAIN file[i].recs
      /\ r = file[i].recs[job[c].pos] /\ r \in Record /\ r.key \in Key
  <2>1. job[c].pos \in DOMAIN file[i].recs
    BY <1>1, <1>2 DEF JobSound
  <2>2. r = file[i].recs[job[c].pos]
    BY DEF Scanned, RecordAt, At
  <2>3. r \in Record
    BY <1>2, <2>1, <2>2
  <2> QED
    BY <2>1, <2>2, <2>3 DEF Record
<1>4. ASSUME NEW k \in Key \ {r.key}, idx[k].seg = i PROVE idx[k].pos # job[c].pos
  <2>1. file[i].recs[idx[k].pos].key = k
    BY <1>1, <1>2, <1>4 DEF LocsSound, Sound
  <2> QED
    BY <1>3, <1>4, <2>1
<1>0. t = Target(compactOut, r)
  OBVIOUS
<1> HIDE DEF r, t
<1>5. /\ t \in SegID
      /\ \/ t = compactOut /\ nextSegID' = nextSegID
         \/ t = nextSegID /\ t \notin dir /\ nextSegID' = nextSegID + 1
      /\ EndOf(t) \in Location /\ EndOf(t).seg = t
      /\ \A j \in dir : DOMAIN file[j].recs \subseteq DOMAIN file'[j].recs
  <2>1. TypeOK /\ compactOut \in SegID \cup {NoSeg} /\ r \in Record /\ AppendRecord(compactOut, r)
    BY <1>1, <1>2, <1>3
  <2>2. \A j \in dir : \A p \in DOMAIN file[j].recs : p \in DOMAIN file'[j].recs
    BY <1>0, <2>1, AppendRecordKeeps
  <2>3. /\ t \in SegID
        /\ \/ t = compactOut /\ nextSegID' = nextSegID
           \/ t = nextSegID /\ t \notin dir /\ nextSegID' = nextSegID + 1
        /\ EndOf(t) \in Location /\ EndOf(t).seg = t
    BY <1>0, <2>1, AppendRecordKeeps
  <2> QED
    BY <2>2, <2>3
<1>6. /\ dir' \subseteq SegID /\ file' \in [SegID -> File]
      /\ segments' \subseteq SegID /\ mapped' \subseteq SegID /\ weak' \subseteq Key
      /\ active' \in SegID \cup {NoSeg} /\ compactOut' \in SegID \cup {NoSeg}
      /\ nextSegID' \in 0 .. MaxSegID + 1 /\ idx' \in [Key -> Location]
      /\ LocsSound' /\ SegsOnDisk' /\ IdsBelow' /\ DroppedUnused'
      /\ \A d \in Compactor : job'[d] = job[d] => JobSound(d)'
  BY <1>1, <1>2, <1>3, AppendKeeps DEF t
<1>7. /\ nextSegID' \in Int /\ nextSegID <= nextSegID' /\ i \notin {active', compactOut'}
      /\ i # t
  <2>1. nextSegID \in Int
    BY <1>1 DEF TypeOK
  <2> QED
    BY <1>1, <1>2, <1>5, <2>1 DEF SegID
<1>8. \A k \in Key : idx'[k].seg = i => idx'[k] = idx[k] /\ idx[k].pos # job[c].pos
  <2>1. idx \in [Key -> Location]
    BY <1>1 DEF TypeOK
  <2> QED
    BY <1>1, <1>3, <1>4, <1>5, <1>7, <2>1
<1>9. (\E j \in Job : job' = [job EXCEPT ![c] = j]) /\ JobSound(c)'
  <2>1. DOMAIN file[i].recs \subseteq DOMAIN file'[i].recs
    BY <1>2, <1>5
  <2> QED
    BY <1>1, <1>7, <1>8, <2>1, ScanOnKeeps
<1>10. job \in [Compactor -> Job] /\ job' \in [Compactor -> Job]
  <2>1. job \in [Compactor -> Job]
    BY <1>1 DEF TypeOK, Job, PCs
  <2> QED
    BY <1>9, <2>1
<1>11. \A d \in Compactor : JobSound(d)'
  <2>1. \A d \in Compactor \ {c} : job'[d] = job[d]
    BY <1>9, <1>10
  <2> QED
    BY <1>6, <1>9, <2>1
<1>12. TypeOK'
  BY <1>1, <1>6, <1>10 DEF TypeOK, File, Job, PCs, bounds
<1> QED
  BY <1>6, <1>11, <1>12 DEF IInv

-----------------------------------------------------------------------------
(* Failed rotations. *)

\* A failed rotation cuts off the end of a file, may leave an empty file behind,
\* and is no more.
LEMMA CreateFailsKeeps ==
    ASSUME IInv, proc # "down", NEW cur \in SegID \cup {NoSeg}, CreateFails(cur),
           UNCHANGED <<snap, proc, idx, segments, mapped, active, compactOut, nextSegID>>
    PROVE  /\ file' \in [SegID -> File] /\ dir' \subseteq SegID /\ ioErrs' \in 0 .. MaxIOErrors
           /\ LocsSound' /\ SegsOnDisk' /\ IdsBelow' /\ DroppedUnused'
           /\ \A d \in Compactor : job'[d] = job[d] => JobSound(d)'
<1>1. TypeOK /\ LocsSound /\ SegsOnDisk /\ IdsBelow /\ DroppedUnused
  BY DEF IInv
<1>2. file' \in [SegID -> File] /\ \A i \in SegID : file'[i].recs = file[i].recs
  <2>1. file \in [SegID -> File]
    BY <1>1 DEF TypeOK, File
  <2> QED
    BY <2>1, FinalizedKeeps DEF CreateFails
<1>3. dir \subseteq dir' /\ dir' \subseteq dir \cup {nextSegID} /\ dir' \subseteq SegID
  BY <1>1 DEF CreateFails, TypeOK
<1>4. ioErrs' \in 0 .. MaxIOErrors
  <2>1. ioErrs \in 0 .. MaxIOErrors
    BY <1>1 DEF TypeOK
  <2>2. ioErrs' = ioErrs \/ (ioErrs < MaxIOErrors /\ ioErrs' = ioErrs + 1)
    BY DEF CreateFails
  <2> QED
    BY <2>1, <2>2, BoundAssumption
<1>5. LocsSound'
  <2>1. \A k \in Key : idx[k].seg # nextSegID /\ snap.idx[k].seg # nextSegID
    <3>1. nextSegID \in Int /\ ~(nextSegID < nextSegID)
      BY <1>1 DEF TypeOK
    <3>2. \A k \in Key : idx[k].seg < nextSegID /\ snap.idx[k].seg < nextSegID
      BY <1>1 DEF IdsBelow
    <3> QED
      BY <3>1, <3>2
  <2>2. ASSUME NEW k \in Key, NEW a \in Location, Sound(k, a), a.seg # nextSegID
        PROVE  Sound(k, a)'
    <3>1. a.seg \in dir' => a.seg \in dir /\ file'[a.seg].recs = file[a.seg].recs
      BY <1>1, <1>2, <1>3, <2>2 DEF TypeOK
    <3> QED
      BY <2>2, <3>1 DEF Sound, IsTombstone
  <2>3. \A k \in Key : idx[k] \in Location /\ snap.idx[k] \in Location
    BY <1>1 DEF TypeOK
  <2>4. \A k \in Key : Sound(k, idx[k]) /\ Sound(k, snap.idx[k])
    BY <1>1 DEF LocsSound
  <2>5. ASSUME NEW k \in Key
        PROVE  Sound(k, idx[k])' /\ Sound(k, snap.idx[k])'
    <3>1. Sound(k, idx[k]) /\ idx'[k] = idx[k] /\ idx[k] \in Location /\ idx[k].seg # nextSegID
      BY <2>1, <2>3, <2>4
    <3>2. /\ Sound(k, snap.idx[k]) /\ snap'.idx[k] = snap.idx[k] /\ snap.idx[k] \in Location
          /\ snap.idx[k].seg # nextSegID
      BY <2>1, <2>3, <2>4
    <3>3. \A a \in Location : Sound(k, a) /\ a.seg # nextSegID => Sound(k, a)'
      BY <2>2
    <3> QED
      BY <3>1, <3>2, <3>3 DEF Sound
  <2> QED
    BY <2>5 DEF LocsSound
<1>6. SegsOnDisk' /\ IdsBelow'
  BY <1>1, <1>3 DEF SegsOnDisk, IdsBelow
<1>7. DroppedUnused'
  BY <1>1 DEF DroppedUnused
<1>8. ASSUME NEW d \in Compactor, job'[d] = job[d]
      PROVE  JobSound(d)'
  BY <1>1, <1>2, <1>8 DEF IInv, JobSound, TypeOK
<1> QED
  BY <1>2, <1>3, <1>4, <1>5, <1>6, <1>7, <1>8

LEMMA WriteFailsKeeps ==
    ASSUME IInv, WriteFails
    PROVE  IInv'
<1>1. /\ TypeOK /\ proc # "down" /\ active \in SegID \cup {NoSeg} /\ CreateFails(active)
      /\ UNCHANGED <<snap, proc, mem, mapped, job, weak, writes, crashes>>
  BY DEF IInv, WriteFails, TypeOK
<1>2. /\ file' \in [SegID -> File] /\ dir' \subseteq SegID /\ ioErrs' \in 0 .. MaxIOErrors
      /\ LocsSound' /\ SegsOnDisk' /\ IdsBelow' /\ DroppedUnused'
      /\ \A d \in Compactor : job'[d] = job[d] => JobSound(d)'
  BY <1>1, CreateFailsKeeps DEF mem
<1>3. TypeOK'
  BY <1>1, <1>2 DEF TypeOK, File, mem
<1> QED
  BY <1>1, <1>2, <1>3 DEF IInv

\* The job of a compactor whose pass ends.
LEMMA EndPassJob ==
    ASSUME TypeOK, NEW c \in Compactor, NEW err \in BOOLEAN, EndPass(c, err)
    PROVE  /\ job' \in [Compactor -> Job] /\ job'[c].pc = "idle" /\ compactErr' \in BOOLEAN
           /\ \A d \in Compactor \ {c} : job'[d] = job[d]
           /\ job' = [job EXCEPT ![c] = IdleJob] /\ JobSound(c)'
<1>1. job \in [Compactor -> Job]
  BY DEF TypeOK, Job, PCs
<1>2. /\ job' \in [Compactor -> Job] /\ job'[c].pc = "idle" /\ compactErr' \in BOOLEAN
      /\ \A d \in Compactor \ {c} : job'[d] = job[d]
      /\ job' = [job EXCEPT ![c] = IdleJob]
  BY <1>1, IdleIsJob DEF EndPass
<1> QED
  BY <1>2 DEF JobSound

LEMMA RelocateFailsKeeps ==
    ASSUME IInv, NEW c \in Compactor, RelocateFails(c)
    PROVE  IInv'
<1>1. /\ TypeOK /\ proc # "down" /\ compactOut \in SegID \cup {NoSeg} /\ CreateFails(compactOut)
      /\ EndPass(c, TRUE)
      /\ UNCHANGED <<snap, proc, idx, segments, active, compactOut, nextSegID, deadBytes,
                     mapped, weak, writes, crashes>>
  BY DEF IInv, RelocateFails, TypeOK, Scanning, JobSound
<1>2. /\ file' \in [SegID -> File] /\ dir' \subseteq SegID /\ ioErrs' \in 0 .. MaxIOErrors
      /\ LocsSound' /\ SegsOnDisk' /\ IdsBelow' /\ DroppedUnused'
      /\ \A d \in Compactor : job'[d] = job[d] => JobSound(d)'
  BY <1>1, CreateFailsKeeps
<1>3. /\ job' \in [Compactor -> Job] /\ compactErr' \in BOOLEAN
      /\ \A d \in Compactor \ {c} : job'[d] = job[d]
      /\ JobSound(c)'
  BY <1>1, EndPassJob
<1>4. TypeOK'
  BY <1>1, <1>2, <1>3 DEF TypeOK, File, Job, PCs
<1> QED
  BY <1>2, <1>3, <1>4 DEF IInv

-----------------------------------------------------------------------------
(* The end of a process, and of a segment. *)

LEMMA VanishKeeps ==
    ASSUME IInv, Vanish, writes' \in 0 .. MaxWrites, crashes' \in 0 .. MaxCrashes,
           ioErrs' \in 0 .. MaxIOErrors
    PROVE  IInv'
<1>1. TypeOK /\ LocsSound /\ SegsOnDisk /\ IdsBelow
  BY DEF IInv
<1>2. /\ NoLoc \in Location /\ NoLoc.seg = NoSeg /\ NoSeg \notin SegID /\ 0 \in 0 .. MaxSegID + 1
  BY BoundAssumption DEF NoLoc, Location, NoSeg, SegID
<1>3. TypeOK'
  BY <1>1, <1>2, IdleIsJob DEF TypeOK, Vanish, EndProcess, disk, Job, PCs
<1>4. LocsSound'
  BY <1>1, <1>2 DEF LocsSound, Sound, Vanish, EndProcess, disk, TypeOK, IsTombstone
<1>5. SegsOnDisk' /\ IdsBelow' /\ DroppedUnused'
  BY <1>1 DEF SegsOnDisk, IdsBelow, DroppedUnused, Vanish, EndProcess, disk
<1>6. \A d \in Compactor : JobSound(d)'
  BY IdleIsJob DEF JobSound, Vanish, EndProcess
<1> QED
  BY <1>3, <1>4, <1>5, <1>6 DEF IInv

LEMMA CrashKeeps ==
    ASSUME IInv, Crash
    PROVE  IInv'
<1>1. TypeOK
  BY DEF IInv
<1>2. writes' \in 0 .. MaxWrites /\ ioErrs' \in 0 .. MaxIOErrors
  BY <1>1 DEF TypeOK, Crash
<1>3. crashes' \in 0 .. MaxCrashes
  BY <1>1, BoundAssumption DEF TypeOK, Crash
<1> QED
  BY <1>2, <1>3, VanishKeeps DEF Crash

LEMMA ScanUnmappedKeeps ==
    ASSUME IInv, NEW c \in Compactor, ScanUnmapped(c)
    PROVE  IInv'
<1>1. TypeOK /\ JobSound(c)
  BY DEF IInv
<1>2. CASE Vanish
  BY <1>1, <1>2, VanishKeeps DEF ScanUnmapped, TypeOK, bounds
<1>3. CASE Goto(c, "drop") /\ UNCHANGED <<disk, proc, mem, mapped, weak>>
  <2>1. PICK j \in Job : /\ job' = [job EXCEPT ![c] = j] /\ job'[c] = j
                         /\ j.pc = "drop" /\ j.src = job[c].src
    BY <1>1, <1>3, GotoJob DEF PCs
  <2>2. JobSound(c)'
    BY <1>1, <1>3, <2>1 DEF JobSound, ScanUnmapped, mem
  <2> QED
    BY <1>1, <1>3, <2>1, <2>2, JobMoves DEF ScanUnmapped, mem, TypeOK
<1> QED
  BY <1>2, <1>3 DEF ScanUnmapped

LEMMA DropKeeps ==
    ASSUME IInv, NEW c \in Compactor, Drop(c)
    PROVE  IInv'
<1> DEFINE i == job[c].src
<1>1. /\ TypeOK /\ LocsSound /\ SegsOnDisk /\ IdsBelow /\ DroppedUnused /\ JobSound(c)
      /\ job[c].pc = "drop" /\ segments' = segments \ {i}
      /\ deadBytes' = [deadBytes EXCEPT ![i] = 0]
      /\ UNCHANGED <<disk, proc, idx, active, compactOut, nextSegID, compactErr, mapped, weak, bounds>>
  BY DEF IInv, Drop
<1>2. PICK j \in Job : /\ job' = [job EXCEPT ![c] = j] /\ job'[c] = j
                       /\ j.pc = "remove" /\ j.src = i
  BY <1>1, GotoJob DEF Drop, PCs
<1>3. TypeOK'
  <2>1. job' \in [Compactor -> Job]
    BY <1>1, <1>2 DEF TypeOK, Job, PCs
  <2>2. deadBytes' \in [SegID -> Nat]
    BY <1>1 DEF TypeOK
  <2> QED
    BY <1>1, <2>1, <2>2 DEF TypeOK, disk, bounds, Job, PCs
<1>4. LocsSound' /\ SegsOnDisk' /\ IdsBelow'
  BY <1>1 DEF LocsSound, Sound, SegsOnDisk, IdsBelow, JobSound, disk, IsTombstone
<1>5. DroppedUnused'
  BY <1>1 DEF DroppedUnused, JobSound
<1>6. JobSound(c)'
  BY <1>1, <1>2 DEF JobSound
<1>7. ASSUME NEW d \in Compactor \ {c}
      PROVE  JobSound(d)'
  <2>1. job'[d] = job[d] /\ JobSound(d)
    BY <1>1, <1>2 DEF TypeOK, IInv
  <2> QED
    BY <1>1, <2>1 DEF JobSound, disk
<1> QED
  BY <1>1, <1>3, <1>4, <1>5, <1>6, <1>7 DEF IInv

LEMMA RemoveKeeps ==
    ASSUME IInv, NEW c \in Compactor, Remove(c)
    PROVE  IInv'
<1> DEFINE i == job[c].src
<1>1. /\ TypeOK /\ LocsSound /\ SegsOnDisk /\ IdsBelow /\ DroppedUnused /\ JobSound(c)
      /\ job[c].pc = "remove" /\ i \in mapped /\ proc # "down"
      /\ mapped' = mapped \ {i} /\ dir' = dir \ {i} /\ file' = [file EXCEPT ![i] = NoFile]
      /\ weak' = weak \cup Undeleted(i)
      /\ UNCHANGED <<snap, proc, mem, bounds>>
  BY DEF IInv, Remove, JobSound
<1>2. PICK j \in Job : /\ job' = [job EXCEPT ![c] = j] /\ job'[c] = j
                       /\ j.pc = "unsnap" /\ j.src = i
  BY <1>1, GotoJob DEF Remove, PCs
<1>3. i \notin segments /\ i \notin {active, compactOut} /\ i < nextSegID /\ i \in SegID
  BY <1>1 DEF JobSound
<1>4. TypeOK'
  <2>1. job' \in [Compactor -> Job]
    BY <1>1, <1>2 DEF TypeOK, Job, PCs
  <2>2. NoFile \in File
    BY DEF NoFile, File
  <2>3. file' \in [SegID -> File]
    BY <1>1, <2>2 DEF TypeOK, File
  <2>4. weak' \subseteq Key
    BY <1>1 DEF TypeOK, Undeleted
  <2> QED
    BY <1>1, <2>1, <2>3, <2>4 DEF TypeOK, File, mem, bounds, Job, PCs
<1>5. LocsSound'
  <2>1. \A a \in dir' : a \in dir /\ file'[a] = file[a]
    BY <1>1 DEF TypeOK
  <2>2. ASSUME NEW k \in Key, NEW a, Sound(k, a)
        PROVE  Sound(k, a)'
    BY <2>1, <2>2 DEF Sound, IsTombstone
  <2>3. \A k \in Key : Sound(k, idx[k]) /\ Sound(k, snap.idx[k])
    BY <1>1 DEF LocsSound
  <2>4. idx' = idx /\ snap' = snap
    BY <1>1 DEF mem
  <2> QED
    BY <2>2, <2>3, <2>4 DEF LocsSound, Sound
<1>6. SegsOnDisk'
  BY <1>1, <1>3 DEF SegsOnDisk, mem
<1>7. IdsBelow'
  <2>1. /\ nextSegID - 1 \in dir'
        /\ nextSegID \in Int
        /\ \A k \in Key : snap.idx[k].seg < nextSegID
        /\ \A k \in Key : snap.idx[k].seg \in SegID => snap.idx[k].seg \in Int
    <3>1. nextSegID \in Int
      BY <1>1 DEF TypeOK
    <3>2. /\ nextSegID - 1 \in dir \cap {active, compactOut}
          /\ \A k \in Key : snap.idx[k].seg < nextSegID
      BY <1>1 DEF IdsBelow
    <3>3. nextSegID - 1 \in dir'
      BY <1>1, <1>3, <3>2
    <3>4. \A n \in SegID : n \in Int
      BY DEF SegID
    <3> QED
      BY <3>1, <3>2, <3>3, <3>4
  <2>2. \A k \in Key : snap.idx[k].seg \in SegID => \E m \in dir' : snap.idx[k].seg <= m
    BY <2>1
  <2> QED
    BY <1>1, <2>1, <2>2 DEF IdsBelow, mem
<1>8. DroppedUnused'
  BY <1>1 DEF DroppedUnused, mem
<1>9. JobSound(c)'
  BY <1>1, <1>2 DEF JobSound, mem
<1>10. ASSUME NEW d \in Compactor \ {c}
       PROVE  JobSound(d)'
  <2>1. job'[d] = job[d] /\ JobSound(d)
    BY <1>1, <1>2 DEF TypeOK, IInv
  <2>2. \A a \in SegID \ {i} : file'[a] = file[a]
    BY <1>1 DEF TypeOK
  <2> QED
    BY <1>1, <2>1, <2>2 DEF JobSound, mem
<1> QED
  BY <1>4, <1>5, <1>6, <1>7, <1>8, <1>9, <1>10 DEF IInv

LEMMA RemoveFailsKeeps ==
    ASSUME IInv, NEW c \in Compactor, RemoveFails(c)
    PROVE  IInv'
<1> DEFINE i == job[c].src
<1>1. /\ TypeOK /\ LocsSound /\ SegsOnDisk /\ IdsBelow /\ DroppedUnused /\ JobSound(c)
      /\ mapped' = mapped \ {i} /\ i \notin segments /\ EndPass(c, TRUE)
      /\ UNCHANGED <<disk, proc, idx, segments, active, compactOut, nextSegID, deadBytes,
                     weak, writes, crashes>>
  BY DEF IInv, RemoveFails, JobSound
<1>2. /\ job' \in [Compactor -> Job] /\ compactErr' \in BOOLEAN
      /\ \A d \in Compactor \ {c} : job'[d] = job[d]
      /\ JobSound(c)'
  BY <1>1, EndPassJob
<1>3. ioErrs' \in 0 .. MaxIOErrors
  <2>1. ioErrs' = ioErrs \/ (ioErrs < MaxIOErrors /\ ioErrs' = ioErrs + 1)
    BY DEF RemoveFails
  <2>2. ioErrs \in 0 .. MaxIOErrors
    BY <1>1 DEF TypeOK
  <2> QED
    BY <2>1, <2>2, BoundAssumption
<1>4. TypeOK'
  BY <1>1, <1>2, <1>3 DEF TypeOK, disk, Job, PCs
<1>5. LocsSound' /\ SegsOnDisk' /\ IdsBelow' /\ DroppedUnused'
  BY <1>1 DEF LocsSound, Sound, SegsOnDisk, IdsBelow, DroppedUnused, disk, IsTombstone
<1>6. ASSUME NEW d \in Compactor \ {c}
      PROVE  JobSound(d)'
  <2>1. job'[d] = job[d] /\ JobSound(d)
    BY <1>2 DEF IInv
  <2> QED
    BY <1>1, <2>1 DEF JobSound, disk
<1> QED
  BY <1>2, <1>4, <1>5, <1>6 DEF IInv

LEMMA NoSnapShape ==
    /\ NoSnap \in [wm : SegID \cup {NoSeg}, at : Nat, idx : [Key -> Location]]
    /\ \A k \in Key : NoSnap.idx[k].seg = NoSeg
    /\ NoSeg \notin SegID /\ \A i \in SegID : NoSeg < i
<1>1. NoLoc \in Location /\ NoLoc.seg = NoSeg
  BY DEF NoLoc, Location
<1> QED
  BY <1>1 DEF NoSnap, NoSeg, SegID

LEMMA RemoveSnapshotKeeps ==
    ASSUME IInv, NEW c \in Compactor, RemoveSnapshot(c)
    PROVE  IInv'
<1> DEFINE j == [IdleJob EXCEPT !.pc = "pick"]
<1>1. /\ TypeOK /\ LocsSound /\ SegsOnDisk /\ IdsBelow /\ DroppedUnused /\ proc # "down"
      /\ snap' = NoSnap \/ snap' = snap
      /\ UNCHANGED <<dir, file, proc, mem, mapped, weak, writes, crashes>>
  BY DEF IInv, RemoveSnapshot, JobSound
<1>2. j \in Job /\ j.pc = "pick"
  BY IdleIsJob DEF Job, PCs
<1>3. job' = [job EXCEPT ![c] = j] /\ job \in [Compactor -> Job]
  BY <1>1 DEF RemoveSnapshot, TypeOK, Job, PCs
<1> HIDE DEF j
<1>4. ioErrs' \in 0 .. MaxIOErrors
  <2>1. ioErrs' = ioErrs \/ (ioErrs < MaxIOErrors /\ ioErrs' = ioErrs + 1)
    BY DEF RemoveSnapshot
  <2>2. ioErrs \in 0 .. MaxIOErrors /\ MaxIOErrors \in Nat
    BY <1>1, BoundAssumption DEF TypeOK
  <2> QED
    BY <2>1, <2>2
<1>5. TypeOK'
  <2>1. job' \in [Compactor -> Job]
    BY <1>2, <1>3
  <2>2. snap' \in [wm : SegID \cup {NoSeg}, at : Nat, idx : [Key -> Location]]
    BY <1>1, NoSnapShape DEF TypeOK
  <2> QED
    BY <1>1, <1>4, <2>1, <2>2 DEF TypeOK, mem, Job, PCs
<1>6. LocsSound'
  <2>1. NoSeg \notin dir
    BY <1>1, NoSnapShape DEF TypeOK
  <2>2. dir' = dir /\ file' = file /\ idx' = idx
    BY <1>1 DEF mem
  <2>3. ASSUME NEW k \in Key
        PROVE  Sound(k, idx[k])' /\ Sound(k, snap.idx[k])'
    <3>1. Sound(k, idx[k]) /\ Sound(k, snap.idx[k])
      BY <1>1 DEF LocsSound
    <3>2. Sound(k, idx[k])'
      BY <2>2, <3>1 DEF Sound, IsTombstone
    <3>3. CASE snap' = snap
      BY <2>2, <3>1, <3>2, <3>3 DEF Sound, IsTombstone
    <3>4. CASE snap' = NoSnap
      BY <2>1, <2>2, <3>2, <3>4, NoSnapShape DEF Sound
    <3> QED
      BY <1>1, <3>3, <3>4
  <2> QED
    BY <2>3 DEF LocsSound
<1>7. SegsOnDisk' /\ DroppedUnused'
  BY <1>1 DEF SegsOnDisk, DroppedUnused, mem
<1>8. IdsBelow'
  <2>1. NoSeg < nextSegID
    BY <1>1, NoSnapShape DEF IdsBelow, TypeOK, SegID, NoSeg
  <2> QED
    BY <1>1, <2>1, NoSnapShape DEF IdsBelow, mem
<1>9. ASSUME NEW d \in Compactor
      PROVE  JobSound(d)'
  <2>1. CASE d = c
    BY <1>1, <1>2, <1>3, <2>1 DEF JobSound
  <2>2. CASE d # c
    <3>1. job'[d] = job[d] /\ JobSound(d)
      BY <1>3, <2>2 DEF IInv
    <3> QED
      BY <1>1, <3>1 DEF JobSound, mem
  <2> QED
    BY <2>1, <2>2
<1> QED
  BY <1>5, <1>6, <1>7, <1>8, <1>9 DEF IInv

-----------------------------------------------------------------------------
(* Opening and closing. *)

\* A step that takes an open DB to another state it can be in, short of down.
LEMMA ProcMoves ==
    ASSUME IInv, proc # "down", proc' \in {"closing", "closed"},
           mapped' \subseteq mapped,
           proc' = "closing" => proc = "open" /\ mapped' = mapped,
           ioErrs' \in 0 .. MaxIOErrors,
           snap' \in {snap, SnapshotOfIndex},
           UNCHANGED <<dir, file, mem, job, weak, writes, crashes>>
    PROVE  IInv'
<1>1. TypeOK /\ LocsSound /\ SegsOnDisk /\ IdsBelow /\ DroppedUnused
  BY DEF IInv
<1>2. active \in SegID /\ file[active].recs \in Seq(Record)
  BY <1>1 DEF SegsOnDisk, TypeOK
<1>3. Len(file[active].recs) \in Nat
  BY <1>2
<1>4. /\ SnapshotOfIndex \in [wm : SegID \cup {NoSeg}, at : Nat, idx : [Key -> Location]]
      /\ SnapshotOfIndex.idx = idx
  BY <1>1, <1>2, <1>3 DEF SnapshotOfIndex, TypeOK
<1>5. TypeOK'
  <2>1. snap' \in [wm : SegID \cup {NoSeg}, at : Nat, idx : [Key -> Location]]
    BY <1>1, <1>4 DEF TypeOK
  <2>2. mapped' \subseteq SegID /\ proc' \in {"down", "open", "closing", "closed"}
    BY <1>1 DEF TypeOK
  <2> QED
    BY <1>1, <2>1, <2>2 DEF TypeOK, mem
<1>6. snap'.idx = snap.idx \/ snap'.idx = idx
  BY <1>4
<1>7. LocsSound'
  <2>1. dir' = dir /\ file' = file /\ idx' = idx
    BY DEF mem
  <2>2. ASSUME NEW k \in Key
        PROVE  Sound(k, idx[k])' /\ Sound(k, snap.idx[k])'
    <3>1. Sound(k, idx[k]) /\ Sound(k, snap.idx[k])
      BY <1>1 DEF LocsSound
    <3>2. snap'.idx[k] = snap.idx[k] \/ snap'.idx[k] = idx[k]
      BY <1>6
    <3> QED
      BY <2>1, <3>1, <3>2 DEF Sound, IsTombstone
  <2> QED
    BY <2>2 DEF LocsSound
<1>8. SegsOnDisk' /\ DroppedUnused'
  BY <1>1 DEF SegsOnDisk, DroppedUnused, mem
<1>9. IdsBelow'
  <2>1. \A k \in Key : idx[k].seg \in SegID => \E j \in dir : idx[k].seg <= j
    <3>1. nextSegID - 1 \in dir /\ nextSegID \in Int /\ \A k \in Key : idx[k].seg < nextSegID
      BY <1>1 DEF IdsBelow, TypeOK
    <3> QED
      BY <3>1 DEF SegID
  <2>2. \A k \in Key : snap.idx[k].seg \in SegID => \E j \in dir : snap.idx[k].seg <= j
    BY <1>1 DEF IdsBelow
  <2>3. \A k \in Key : snap'.idx[k].seg \in SegID => \E j \in dir' : snap'.idx[k].seg <= j
    BY <1>6, <2>1, <2>2
  <2> QED
    BY <1>1, <1>6, <2>3 DEF IdsBelow, mem
<1>10. ASSUME NEW d \in Compactor
       PROVE  JobSound(d)'
  <2>1. JobSound(d)
    BY DEF IInv
  <2> QED
    BY <2>1 DEF JobSound, mem
<1> QED
  BY <1>5, <1>7, <1>8, <1>9, <1>10 DEF IInv

LEMMA BeginCloseKeeps ==
    ASSUME IInv, BeginClose
    PROVE  IInv'
  BY ProcMoves DEF BeginClose, IInv, TypeOK, disk, bounds

LEMMA FinishCloseKeeps ==
    ASSUME IInv, FinishClose
    PROVE  IInv'
  BY ProcMoves DEF FinishClose, Stopped, IInv, TypeOK, bounds

LEMMA SnapshotFailsKeeps ==
    ASSUME IInv, SnapshotFails
    PROVE  IInv'
<1>1. ioErrs' \in 0 .. MaxIOErrors
  BY BoundAssumption DEF SnapshotFails, IInv, TypeOK
<1> QED
  BY <1>1, ProcMoves DEF SnapshotFails, Stopped, disk

LEMMA CloseCutShortKeeps ==
    ASSUME IInv, CloseCutShort
    PROVE  IInv'
<1>1. ioErrs' \in 0 .. MaxIOErrors
  BY BoundAssumption DEF CloseCutShort, IInv, TypeOK
<1>2. mapped' \subseteq mapped
  BY DEF CloseCutShort
<1> QED
  BY <1>1, <1>2, ProcMoves DEF CloseCutShort, Stopped

LEMMA OpenKeeps ==
    ASSUME IInv, Open
    PROVE  IInv'
<1>1. /\ TypeOK /\ LocsSound /\ IdsBelow
      /\ \A c \in Compactor : job[c].pc = "idle"
      /\ proc' = "open"
      /\ idx' = [k \in Key |-> RecoveredLoc(k)]
      /\ segments' = dir' /\ mapped' = dir' /\ active' = Max(dir') /\ compactOut' = NoSeg
      /\ nextSegID' = Max(dir') + 1
      /\ deadBytes' = [i \in SegID |-> 0] /\ compactErr' = FALSE
      /\ weak' \subseteq Key
      /\ UNCHANGED <<snap, job, bounds>>
  BY DEF IInv, Open, TypeOK
<1>2. /\ NoLoc \in Location /\ NoLoc.seg = NoSeg /\ NoSeg \notin SegID
      /\ NoSeg \in Int /\ \A i \in SegID : i \in Int /\ NoSeg < i
      /\ \A a \in Location : a.seg \in SegID \/ a = NoLoc
      /\ 0 \in SegID
  BY BoundAssumption DEF NoLoc, Location, NoSeg, SegID
<1>3. /\ dir' # {} /\ dir' \subseteq SegID /\ dir \subseteq dir'
      /\ dir # {} => dir' = dir
      /\ file' \in [SegID -> File]
      /\ \A i \in dir : file'[i].recs = file[i].recs
  <2>1. file \in [SegID -> File] /\ dir \subseteq SegID
    BY <1>1 DEF TypeOK, File
  <2>2. \A i \in SegID : Finalized(file[i]) \in File /\ Finalized(file[i]).recs = file[i].recs
    BY <2>1 DEF File, Finalized
  <2>3. CASE dir = {}
    <3>1. dir' = {0} /\ file' = [file EXCEPT ![0] = NewFile]
      BY <2>3 DEF Open
    <3>2. NewFile \in File
      BY NewFileShape
    <3> QED
      BY <1>2, <2>1, <2>3, <3>1, <3>2
  <2>4. CASE dir # {}
    <3>1. dir' = dir
          /\ file' = [i \in SegID |->
                        IF i \in dir \ {Max(dir)} /\ ~(UseSnapshot /\ i < snap.wm)
                        THEN Finalized(file[i]) ELSE file[i]]
      BY <2>4 DEF Open
    <3>2. ASSUME NEW i \in SegID
          PROVE  file'[i] \in File /\ file'[i].recs = file[i].recs
      BY <2>1, <2>2, <3>1
    <3>3. file' \in [SegID -> File]
      BY <3>1, <3>2
    <3> QED
      BY <2>1, <2>4, <3>1, <3>2, <3>3
  <2> QED
    BY <2>3, <2>4
<1> DEFINE m == Max(dir')
<1>4. m \in dir' /\ m \in SegID /\ m \in Int /\ NoSeg <= m /\ \A i \in dir' : i <= m
  <2>1. m \in dir' /\ \A i \in dir' : i <= m
    BY <1>3, MaxSeg
  <2> HIDE DEF m
  <2> QED
    BY <1>2, <1>3, <2>1
<1>5. \A k \in Key : idx'[k] \in Location /\ idx'[k].seg <= m /\ snap.idx[k].seg <= m
  <2> SUFFICES ASSUME NEW k \in Key
               PROVE  idx'[k] \in Location /\ idx'[k].seg <= m /\ snap.idx[k].seg <= m
    OBVIOUS
  <2>1. /\ idx'[k] \in Location
        /\ dir # {} => idx'[k].seg <= Max(dir)
        /\ dir = {} => idx'[k] = NoLoc
    BY <1>1, RecoveredLocSound
  <2>2. idx'[k].seg <= m
    <3>1. CASE dir = {}
      BY <1>2, <1>4, <2>1, <3>1
    <3>2. CASE dir # {}
      BY <1>3, <2>1, <3>2
    <3> QED
      BY <3>1, <3>2
  <2>3. snap.idx[k] \in Location /\ (snap.idx[k].seg \in SegID => \E j \in dir : snap.idx[k].seg <= j)
    BY <1>1 DEF IdsBelow, TypeOK
  <2>4. CASE snap.idx[k].seg \in SegID
    BY <1>2, <1>3, <1>4, <2>1, <2>2, <2>3, <2>4
  <2>5. CASE snap.idx[k] = NoLoc
    BY <1>2, <1>4, <2>1, <2>2, <2>5
  <2> QED
    BY <1>2, <2>3, <2>4, <2>5
<1> HIDE DEF m
<1>6. idx' \in [Key -> Location] /\ \A k \in Key : idx'[k].seg \in Int /\ snap.idx[k].seg \in Int
  BY <1>1, <1>2, <1>5 DEF TypeOK
<1>7. m \in Int /\ m + 1 \in 0 .. MaxSegID + 1 /\ m = (m + 1) - 1
  BY <1>4, BoundAssumption DEF SegID
<1>8. active' = m /\ nextSegID' = m + 1
  BY <1>1 DEF m
<1>9. TypeOK'
  BY <1>1, <1>3, <1>4, <1>6, <1>7, <1>8 DEF TypeOK, File, bounds
<1>10. LocsSound'
  <2>1. ASSUME NEW k \in Key, NEW a \in Location, Sound(k, a), dir # {} \/ a = NoLoc
        PROVE  Sound(k, a)'
    BY <1>2, <1>3, <2>1 DEF Sound, IsTombstone
  <2>2. ASSUME NEW k \in Key
        PROVE  Sound(k, idx[k])' /\ Sound(k, snap.idx[k])'
    <3>1. /\ Sound(k, RecoveredLoc(k)) /\ idx'[k] = RecoveredLoc(k) /\ RecoveredLoc(k) \in Location
          /\ dir # {} \/ RecoveredLoc(k) = NoLoc
      BY <1>1, RecoveredLocSound
    <3>2. /\ Sound(k, snap.idx[k]) /\ snap'.idx[k] = snap.idx[k] /\ snap.idx[k] \in Location
          /\ dir # {} \/ snap.idx[k] = NoLoc
      BY <1>1, <1>2 DEF LocsSound, IdsBelow, TypeOK
    <3>3. \A a \in Location : Sound(k, a) /\ (dir # {} \/ a = NoLoc) => Sound(k, a)'
      BY <2>1
    <3> QED
      BY <3>1, <3>2, <3>3 DEF Sound
  <2> QED
    BY <2>2 DEF LocsSound
<1>11. SegsOnDisk' /\ DroppedUnused'
  BY <1>1, <1>2, <1>4, <1>8 DEF SegsOnDisk, DroppedUnused
<1>12. IdsBelow'
  <2>1. active' < nextSegID' /\ compactOut' < nextSegID' /\ nextSegID' - 1 \in dir' \cap {active', compactOut'}
    BY <1>1, <1>2, <1>4, <1>7, <1>8
  <2>2. \A i \in segments' : i < nextSegID'
    <3>1. \A i \in dir' : i \in Int /\ i <= m
      BY <1>2, <1>3, <1>4
    <3> QED
      BY <1>1, <1>7, <1>8, <3>1
  <2>3. \A k \in Key : idx'[k].seg < nextSegID' /\ snap'.idx[k].seg < nextSegID'
    BY <1>1, <1>5, <1>6, <1>7, <1>8
  <2>4. \A k \in Key : snap'.idx[k].seg \in SegID => \E j \in dir' : snap'.idx[k].seg <= j
    BY <1>1, <1>4, <1>5
  <2> QED
    BY <2>1, <2>2, <2>3, <2>4 DEF IdsBelow
<1>13. \A d \in Compactor : JobSound(d)'
  BY <1>1 DEF JobSound
<1> QED
  BY <1>9, <1>10, <1>11, <1>12, <1>13 DEF IInv

-----------------------------------------------------------------------------
(* The invariant, and what follows from it. *)

LEMMA InitIInv == Init => IInv
<1> SUFFICES ASSUME Init
             PROVE  IInv
  OBVIOUS
<1>1. NoLoc \in Location /\ NoLoc.seg = NoSeg /\ NoSeg \notin SegID
  BY DEF NoLoc, Location, NoSeg, SegID
<1>2. NoFile \in File /\ 0 \in 0 .. MaxSegID + 1 /\ 0 \in 0 .. MaxWrites
      /\ 0 \in 0 .. MaxCrashes /\ 0 \in 0 .. MaxIOErrors
  BY BoundAssumption DEF NoFile, File
<1>3. TypeOK
  BY <1>1, <1>2, IdleIsJob, NoSnapShape DEF Init, TypeOK, File, Job, PCs
<1>4. LocsSound /\ SegsOnDisk /\ IdsBelow /\ DroppedUnused
  BY <1>1, NoSnapShape DEF Init, LocsSound, Sound, SegsOnDisk, IdsBelow, DroppedUnused
<1>5. \A c \in Compactor : JobSound(c)
  BY IdleIsJob DEF Init, JobSound
<1> QED
  BY <1>3, <1>4, <1>5 DEF IInv

LEMMA NextIInv == IInv /\ [Next]_vars => IInv'
<1> SUFFICES ASSUME IInv, [Next]_vars
             PROVE  IInv'
  OBVIOUS
<1>1. CASE Open
  BY <1>1, OpenKeeps
<1>2. CASE \E k \in Key, v \in Val : Put(k, v)
  BY <1>2, PutKeeps
<1>3. CASE \E k \in Key : Delete(k)
  BY <1>3, DeleteKeeps
<1>4. CASE WriteFails
  BY <1>4, WriteFailsKeeps
<1>5. ASSUME NEW c \in Compactor, StartPass(c) \/ CompactorStep(c)
      PROVE  IInv'
  BY <1>5, StartPassKeeps, PickKeeps, CheckKeeps, BeginScanKeeps, SkipRecordKeeps,
     RelocateKeeps, RelocateFailsKeeps, ScanUnmappedKeeps, DropKeeps, RemoveKeeps,
     RemoveFailsKeeps, RemoveSnapshotKeeps DEF CompactorStep
<1>6. CASE BeginClose
  BY <1>6, BeginCloseKeeps
<1>7. CASE FinishClose
  BY <1>7, FinishCloseKeeps
<1>8. CASE SnapshotFails
  BY <1>8, SnapshotFailsKeeps
<1>9. CASE CloseCutShort
  BY <1>9, CloseCutShortKeeps
<1>10. CASE Crash
  BY <1>10, CrashKeeps
<1>11. CASE UNCHANGED vars
  <2>1. UNCHANGED <<dir, file, snap, proc, idx, segments, active, compactOut, nextSegID, deadBytes,
                    compactErr, mapped, job, weak, writes, crashes, ioErrs>>
    BY <1>11 DEF vars, disk, mem, bounds
  <2>2. TypeOK'
    BY <2>1 DEF IInv, TypeOK
  <2>3. LocsSound'
    BY <2>1 DEF IInv, LocsSound, Sound, IsTombstone
  <2>4. SegsOnDisk' /\ IdsBelow' /\ DroppedUnused'
    BY <2>1 DEF IInv, SegsOnDisk, IdsBelow, DroppedUnused
  <2>5. \A c \in Compactor : JobSound(c)'
    BY <2>1 DEF IInv, JobSound
  <2> QED
    BY <2>2, <2>3, <2>4, <2>5 DEF IInv
<1> QED
  BY <1>1, <1>2, <1>3, <1>4, <1>5, <1>6, <1>7, <1>8, <1>9, <1>10, <1>11 DEF Next

\* IInv holds in every state the DB reaches.
THEOREM Invariance == Spec => []IInv
<1>1. Init => IInv
  BY InitIInv
<1>2. IInv /\ [Next]_vars => IInv'
  BY NextIInv
<1> QED
  BY <1>1, <1>2, PTL DEF Spec

\* The variables keep their types: in particular an index entry is a location,
\* with a position of one or more, and deadBytes never goes below zero.
THEOREM TypeCorrect == Spec => []TypeOK
<1>1. IInv => TypeOK
  BY DEF IInv
<1> QED
  BY <1>1, Invariance, PTL

\* Following the index never leads astray, whatever the compactors, a close or a
\* crash do in between (kv.go getLocked).
THEOREM IndexIsSound == Spec => []IndexSound
<1>1. IInv => IndexSound
  <2> SUFFICES ASSUME IInv
               PROVE  IndexSound
    OBVIOUS
  <2>1. LocsSound /\ SegsOnDisk
    BY DEF IInv
  <2> QED
    BY <2>1 DEF LocsSound, SegsOnDisk, Sound, IndexSound, RecordAt
<1> QED
  BY <1>1, Invariance, PTL

\* compactSegment unlinks only files nobody needs: the one action that takes an
\* id out of dir is Remove.
THEOREM UnlinkedAreDead == Spec => UnlinkedFilesAreDead
<1> DEFINE A == \A i \in dir \ dir' :
                  i \notin {active, compactOut} /\ \A k \in Key : idx[k].seg # i
<1>1. IInv /\ [Next]_vars => A \/ UNCHANGED vars
  <2> SUFFICES ASSUME IInv, Next
               PROVE  A
    OBVIOUS
  <2>1. CASE Open
    BY <2>1 DEF Open
  <2>2. ASSUME NEW k \in Key, NEW v \in Val \cup {Absent}, Write(k, v)
        PROVE  A
    BY <2>2 DEF Write, AppendRecord
  <2>3. CASE WriteFails
    BY <2>3 DEF WriteFails, CreateFails
  <2>4. ASSUME NEW c \in Compactor, Remove(c)
        PROVE  A
    <3>1. /\ job[c].pc = "remove" /\ job[c].src \in mapped /\ dir' = dir \ {job[c].src}
          /\ JobSound(c) /\ DroppedUnused
      BY <2>4 DEF Remove, IInv
    <3> QED
      BY <3>1 DEF JobSound, DroppedUnused
  <2>5. ASSUME NEW c \in Compactor, StartPass(c) \/ CompactorStep(c), ~Remove(c)
        PROVE  A
    <3>1. dir \subseteq dir'
      BY <2>5 DEF StartPass, CompactorStep, Pick, Check, BeginScan, SkipRecord, Relocate,
                  AppendRecord, RelocateFails, CreateFails, ScanUnmapped, Vanish, EndProcess, Drop,
                  RemoveFails, RemoveSnapshot, disk
    <3> QED
      BY <3>1
  <2>6. CASE BeginClose \/ FinishClose \/ SnapshotFails \/ CloseCutShort \/ Crash
    BY <2>6 DEF BeginClose, FinishClose, SnapshotFails, CloseCutShort, Crash, Vanish, EndProcess, disk
  <2> QED
    BY <2>1, <2>2, <2>3, <2>4, <2>5, <2>6 DEF Next, Put, Delete, CompactorStep
<1> QED
  BY <1>1, Invariance, PTL DEF Spec, UnlinkedFilesAreDead

\* A record is appended to a segment the index may point into, and the other
\* segments stay.
LEMMA AppendGrows ==
    ASSUME NEW cur, NEW r, AppendRecord(cur, r)
    PROVE  segments' = segments \cup {Target(cur, r)} /\ EndOf(Target(cur, r)).seg = Target(cur, r)
  BY DEF AppendRecord, EndOf

\* Neither a write nor a compaction orphans a key.
THEOREM OrphansNeverAppear == Spec => NoNewOrphans
<1> DEFINE A == (proc \in {"open", "closing"} /\ proc' # "down") => Orphans' \subseteq Orphans
<1>1. IInv /\ [Next]_vars => A
  <2> SUFFICES ASSUME IInv, [Next]_vars, proc \in {"open", "closing"}, proc' # "down",
                      NEW k \in Key, idx'[k] # NoLoc, idx'[k].seg \notin segments'
               PROVE  idx[k] # NoLoc /\ idx[k].seg \notin segments
    BY DEF Orphans
  <2>0. TypeOK /\ SegsOnDisk /\ idx \in [Key -> Location]
    BY DEF IInv, TypeOK
  <2>1. ASSUME NEW h \in Key, NEW v \in Val \cup {Absent}, Write(h, v),
               idx' = [idx EXCEPT ![h] = NoLoc] \/ idx' = [idx EXCEPT ![h] = EndOf(active')]
        PROVE  idx[k] # NoLoc /\ idx[k].seg \notin segments
    <3>1. segments' = segments \cup {active'} /\ EndOf(active').seg = active'
      BY <2>1, AppendGrows DEF Write
    <3> QED
      BY <2>0, <2>1, <3>1
  <2>2. ASSUME NEW c \in Compactor, Relocate(c)
        PROVE  idx[k] # NoLoc /\ idx[k].seg \notin segments
    <3>1. /\ segments' = segments \cup {compactOut'} /\ EndOf(compactOut').seg = compactOut'
          /\ idx' = [idx EXCEPT ![Scanned(c).key] = EndOf(compactOut')]
      BY <2>2, AppendGrows DEF Relocate
    <3> QED
      BY <2>0, <3>1
  <2>3. ASSUME NEW c \in Compactor, Drop(c)
        PROVE  idx[k] # NoLoc /\ idx[k].seg \notin segments
    <3>1. /\ idx' = idx /\ segments' = segments \ {job[c].src}
          /\ job[c].pc = "drop" /\ JobSound(c) /\ segments \subseteq mapped
      BY <2>0, <2>3 DEF Drop, IInv, SegsOnDisk
    <3> QED
      BY <3>1 DEF JobSound
  <2>4. CASE UNCHANGED <<idx, segments>>
    BY <2>4
  <2>5. ASSUME NEW c \in Compactor, StartPass(c) \/ CompactorStep(c), ~Relocate(c), ~Drop(c)
        PROVE  UNCHANGED <<idx, segments>>
    BY <2>5 DEF StartPass, CompactorStep, Pick, Check, BeginScan, SkipRecord,
                RelocateFails, ScanUnmapped, Vanish, EndProcess, Remove, RemoveFails, RemoveSnapshot, mem
  <2>6. CASE WriteFails \/ BeginClose \/ FinishClose \/ SnapshotFails \/ CloseCutShort \/ UNCHANGED vars
    BY <2>4, <2>6 DEF WriteFails, BeginClose, FinishClose, SnapshotFails, CloseCutShort, vars, mem
  <2>7. ~Open /\ ~Crash
    BY DEF Open, Crash, Vanish, EndProcess
  <2> QED
    BY <2>1, <2>2, <2>3, <2>4, <2>5, <2>6, <2>7 DEF Next, Put, Delete
<1> QED
  BY <1>1, Invariance, PTL DEF Spec, NoNewOrphans

\* Between two writes, what reads return stays.
LEMMA ContentStays ==
    IInv /\ [Next]_vars =>
        ((writes' = writes /\ proc = "open" /\ proc' = "open") => Content' = Content)
<1> SUFFICES ASSUME IInv, [Next]_vars, writes' = writes, proc = "open", proc' = "open",
                    NEW k \in Key
             PROVE  ValueIn(segments, idx[k])' = ValueIn(segments, idx[k])
  BY DEF Content
<1>0. /\ TypeOK /\ LocsSound /\ SegsOnDisk /\ IdsBelow /\ DroppedUnused
      /\ idx \in [Key -> Location] /\ segments \subseteq dir /\ dir \subseteq SegID
  BY DEF IInv, SegsOnDisk, TypeOK
\* Enough: the entry stays, and so does the record it names.
<1>1. ASSUME idx'[k] = idx[k],
             idx[k] # NoLoc => (idx[k].seg \in segments' <=> idx[k].seg \in segments),
             idx[k].seg \in segments =>
                 file'[idx[k].seg].recs[idx[k].pos] = file[idx[k].seg].recs[idx[k].pos]
      PROVE  ValueIn(segments, idx[k])' = ValueIn(segments, idx[k])
  BY <1>1 DEF ValueIn, RecordAt
<1>2. ASSUME NEW c \in Compactor, Relocate(c)
      PROVE  ValueIn(segments, idx[k])' = ValueIn(segments, idx[k])
  <2> DEFINE r == Scanned(c)
             t == Target(compactOut, r)
             a == At(c)
  <2>1. /\ Scanning(c) /\ JobSound(c) /\ idx[r.key] = a /\ ~IsTombstone(r)
        /\ AppendRecord(compactOut, r) /\ compactOut' = t
        /\ idx' = [idx EXCEPT ![r.key] = EndOf(t)]
        /\ job[c].pc = "scan" /\ job[c].src \in mapped
    BY <1>2 DEF Relocate, IsLive, Scanning, IInv
  <2>2. a.seg = job[c].src /\ a.pos = job[c].pos /\ r = file[a.seg].recs[a.pos]
    BY DEF At, Scanned, RecordAt
  <2>3. /\ a.seg \in dir /\ a.pos \in DOMAIN file[a.seg].recs
        /\ file[a.seg].recs \in Seq(Record)
    BY <1>0, <2>1, <2>2 DEF JobSound, SegsOnDisk, TypeOK
  <2>4. r \in Record /\ r.key \in Key
    <3>1. file[a.seg].recs[a.pos] \in Record
      BY <2>3
    <3> QED
      BY <2>2, <3>1 DEF Record
  <2>5. a.seg \in segments
    BY <1>0, <2>1, <2>2, <2>4 DEF DroppedUnused
  <2> HIDE DEF r, t, a
  <2>6. /\ t \in SegID
        /\ t = compactOut \/ (t = nextSegID /\ t \notin dir)
        /\ EndOf(t) \in Location /\ EndOf(t).seg = t
        /\ file'[t].recs[EndOf(t).pos] = r
    <3>1. compactOut \in SegID \cup {NoSeg}
      BY <1>0 DEF TypeOK
    <3> QED
      BY <1>0, <2>1, <2>4, <3>1, AppendRecordKeeps DEF t
  <2>7. \A i \in dir : \A p \in DOMAIN file[i].recs : file'[i].recs[p] = file[i].recs[p]
    <3>1. compactOut \in SegID \cup {NoSeg}
      BY <1>0 DEF TypeOK
    <3> QED
      BY <1>0, <2>1, <2>4, <3>1, AppendRecordKeeps DEF t
  <2>8. segments' = segments \cup {t} /\ NoLoc.seg = NoSeg /\ NoSeg \notin SegID
    BY <2>1, AppendGrows DEF t, NoLoc, NoSeg, SegID
  <2>9. CASE k = r.key
    <3>1. idx'[k] = EndOf(t) /\ EndOf(t) # NoLoc /\ t \in segments'
      BY <1>0, <2>1, <2>4, <2>6, <2>8, <2>9
    <3>2. ValueIn(segments, idx[k])' = r.val
      BY <2>6, <3>1 DEF ValueIn, RecordAt
    <3>3. a # NoLoc
      BY <1>0, <2>3, <2>8
    <3>4. ValueIn(segments, idx[k]) = r.val
      BY <2>1, <2>2, <2>5, <2>9, <3>3 DEF ValueIn, RecordAt
    <3> QED
      BY <3>2, <3>4
  <2>10. CASE k # r.key
    <3>1. idx'[k] = idx[k]
      BY <1>0, <2>1, <2>4, <2>10
    <3>2. t \in segments \/ (t = nextSegID /\ idx[k].seg # t)
      <4>1. idx[k].seg < nextSegID /\ nextSegID \in Int
        BY <1>0 DEF IdsBelow, TypeOK
      <4>2. compactOut \in segments \cup {NoSeg}
        BY <1>0 DEF SegsOnDisk
      <4> QED
        BY <2>6, <2>8, <4>1, <4>2
    <3>3. idx[k].seg \in segments' <=> idx[k].seg \in segments
      BY <2>8, <3>2
    <3>4. idx[k].seg \in segments =>
              file'[idx[k].seg].recs[idx[k].pos] = file[idx[k].seg].recs[idx[k].pos]
      BY <1>0, <2>7 DEF LocsSound, Sound
    <3> QED
      BY <1>1, <3>1, <3>3, <3>4
  <2> QED
    BY <2>9, <2>10
<1>3. ASSUME NEW c \in Compactor, Drop(c)
      PROVE  ValueIn(segments, idx[k])' = ValueIn(segments, idx[k])
  <2>1. /\ idx' = idx /\ file' = file /\ segments' = segments \ {job[c].src}
        /\ job[c].pc = "drop" /\ JobSound(c) /\ segments \subseteq mapped
    BY <1>0, <1>3 DEF Drop, IInv, SegsOnDisk, disk
  <2>2. idx[k].seg \in segments' <=> idx[k].seg \in segments
    BY <2>1 DEF JobSound
  <2> QED
    BY <1>1, <2>1, <2>2
<1>4. ASSUME NEW c \in Compactor, Remove(c)
      PROVE  ValueIn(segments, idx[k])' = ValueIn(segments, idx[k])
  <2>1. /\ idx' = idx /\ file' = [file EXCEPT ![job[c].src] = NoFile] /\ segments' = segments
        /\ job[c].src \notin segments
    BY <1>4 DEF Remove, IInv, JobSound, mem
  <2>2. idx[k].seg \in segments => file'[idx[k].seg] = file[idx[k].seg]
    BY <1>0, <2>1 DEF TypeOK
  <2> QED
    BY <1>1, <2>1, <2>2
<1>5. ASSUME UNCHANGED <<idx, segments>>, \A i \in SegID : file'[i].recs = file[i].recs
      PROVE  ValueIn(segments, idx[k])' = ValueIn(segments, idx[k])
  BY <1>0, <1>1, <1>5
<1>6. ASSUME NEW cur \in SegID \cup {NoSeg}, CreateFails(cur), UNCHANGED <<idx, segments>>
      PROVE  ValueIn(segments, idx[k])' = ValueIn(segments, idx[k])
  <2>1. file \in [SegID -> File]
    BY <1>0 DEF TypeOK, File
  <2> QED
    BY <1>5, <1>6, <2>1, FinalizedKeeps DEF CreateFails
<1>7. ASSUME NEW c \in Compactor, StartPass(c) \/ CompactorStep(c),
             ~Relocate(c), ~Drop(c), ~Remove(c), ~RelocateFails(c)
      PROVE  UNCHANGED <<idx, segments, file>>
  BY <1>7 DEF StartPass, CompactorStep, Pick, Check, BeginScan, SkipRecord,
              ScanUnmapped, Vanish, EndProcess, RemoveFails, RemoveSnapshot, mem, disk
<1>8. ASSUME NEW c \in Compactor, RelocateFails(c)
      PROVE  ValueIn(segments, idx[k])' = ValueIn(segments, idx[k])
  BY <1>0, <1>6, <1>8 DEF RelocateFails, TypeOK
<1>9. CASE WriteFails
  BY <1>0, <1>6, <1>9 DEF WriteFails, TypeOK, mem
<1>10. CASE BeginClose \/ FinishClose \/ SnapshotFails \/ CloseCutShort \/ UNCHANGED vars
  BY <1>5, <1>10 DEF BeginClose, FinishClose, SnapshotFails, CloseCutShort, vars, mem, disk
<1>11. ~Open /\ ~Crash
  BY DEF Open, Crash, Vanish, EndProcess
<1>12. ASSUME NEW h \in Key, NEW v \in Val \cup {Absent}, Write(h, v)
       PROVE  FALSE
  BY <1>0, <1>12 DEF Write, TypeOK
<1> QED
  BY <1>2, <1>3, <1>4, <1>5, <1>7, <1>8, <1>9, <1>10, <1>11, <1>12 DEF Next, Put, Delete

\* Callers see writes only: no step of a compactor, between any steps of the
\* others, changes what a read of any key returns.
THEOREM CompactionIsInvisible == Spec => CompactionInvisible
  BY ContentStays, Invariance, PTL DEF Spec, CompactionInvisible

=============================================================================
