----------------------------- MODULE SortedIndex -----------------------------
(***************************************************************************)
(* The sorted index (internal/sortedindex): a directory of the lines of    *)
(* some source files, kept in four files that are replaced one by one: the *)
(* entries, a sparse sample of them, a bloom filter of their keys and the  *)
(* record of the sources they were built from.                             *)
(*                                                                         *)
(* Any number of callers run EnsureFresh, BuildSortedIndex and             *)
(* OpenSortedIndex on one index path, each with its own list of sources.   *)
(* A build holds the lock of that path; opening takes no lock.  Sources    *)
(* appear and are appended to at any time, as the package assumes; they    *)
(* are never rewritten.                                                    *)
(*                                                                         *)
(* A line is its key, a key a number.  An offset, in a source or in the    *)
(* entries, counts lines or entries: keys are taken to be of one length.   *)
(***************************************************************************)
EXTENDS Integers, FiniteSetsExt, SequencesExt

CONSTANTS Key, Path, Caller,
          Lists,            \* the lists of sources that callers ask for
          Filters,          \* whether calls ask for a bloom filter (BloomFPR >= 0)
          SparseInterval,
          NoFile,           \* a file that is not there
          NoCaller,         \* nobody holds the lock
          MaxLines,         \* bound: lines in the sources together
          MaxFaults         \* bound: failed builds and crashes

ASSUME KeyAssumption == Key \subseteq Int
ASSUME FileAssumption == NoFile \notin Seq(Key) \cup Seq([path : Path, size : Nat])
ASSUME CallerAssumption == NoCaller \notin Caller
ASSUME ListAssumption == Lists \subseteq Seq(Path) \ {<<>>} /\ Filters \subseteq BOOLEAN
ASSUME BoundAssumption ==
    SparseInterval \in Nat \ {0} /\ MaxLines \in Nat /\ MaxFaults \in Nat

VARIABLES
    content,                        \* the sources
    sidx, sparse, bloom, sources,   \* the index's files
    lock,                           \* the build lock of the path
    pc, call,                       \* where each caller is, and what it works on
    view,                           \* the index each caller has opened
    torn,       \* ghost: lists whose entries were published, but not yet their record
    clean,      \* ghost: callers that open or opened the files of one whole build: none is
                \* replaced meanwhile, and no entries lay beside an older record at the start
    faults      \* counter for the bound

files == <<sidx, sparse, bloom, sources>>
ghosts == <<torn, clean, faults>>
vars == <<content, files, lock, pc, call, view, ghosts>>

Stats == Seq([path : Path, size : Nat])
NoCall == [op |-> "none", list |-> <<>>, filter |-> FALSE, stats |-> <<>>, base |-> 0,
           scanned |-> 0, runs |-> {}]
NoView == [record |-> <<>>, entries |-> <<>>, sparse |-> {}, bloom |-> NoFile]

Building == {"scan", "merge", "sparse", "bloom", "sources"}
Locked == {"stat"} \cup Building
Opening == {"open", "open_sidx", "open_sparse", "open_bloom"}

TypeOK ==
    /\ \A p \in Path : content[p] = NoFile \/ content[p] \in Seq(Key)
    /\ sidx = NoFile \/ sidx \in Seq([key : Key, file : Nat \ {0}, off : Nat \ {0}])
    /\ sparse = NoFile \/ sparse \subseteq [key : Key, at : Nat \ {0}]
    /\ bloom = NoFile \/ bloom \subseteq Key
    /\ sources = NoFile \/ sources \in Stats
    /\ lock \in Caller \cup {NoCaller}
    /\ pc \in [Caller -> {"idle", "done"} \cup Locked \cup Opening]
    /\ \A c \in Caller : (pc[c] \in Locked) <=> (lock = c)
    /\ torn \subseteq Lists /\ clean \subseteq Caller
    /\ faults \in 0 .. MaxFaults

Init ==
    /\ content = [p \in Path |-> NoFile]
    /\ sidx = NoFile /\ sparse = NoFile /\ bloom = NoFile /\ sources = NoFile
    /\ lock = NoCaller
    /\ pc = [c \in Caller |-> "idle"]
    /\ call = [c \in Caller |-> NoCall]
    /\ view = [c \in Caller |-> NoView]
    /\ torn = {} /\ clean = {} /\ faults = 0

-----------------------------------------------------------------------------
(* Sources and entries. *)

Written == { p \in Path : content[p] # NoFile }
Size(p) == IF p \in Written THEN Len(content[p]) ELSE 0

StatOf(list) == [i \in DOMAIN list |-> [path |-> list[i], size |-> Size(list[i])]]
PathsOf(stats) == [i \in DOMAIN stats |-> stats[i].path]

\* scanOneSource: the entries of the lines of a source, the i-th of the list.
EntriesOf(p, i) == { [key |-> content[p][n], file |-> i, off |-> n] : n \in DOMAIN content[p] }

\* betterDup: of two lines of a key the one in the later source wins, then the later line.
Better(d, e) == d.file > e.file \/ (d.file = e.file /\ d.off > e.off)

Winners(S) == { e \in S : \A d \in S : d.key = e.key => ~Better(d, e) }
\* The winners by key: behind each entry that has a lower one.
Merged(S) ==
    LET W == Winners(S)
    IN  [i \in 1 .. Cardinality(W) |->
            CHOOSE e \in W : Cardinality({ d \in W : d.key < e.key }) = i - 1]

\* Every n-th entry, and where it is.
Sample(s, n) == { [key |-> s[i].key, at |-> i] : i \in { j \in DOMAIN s : (j - 1) % n = 0 } }

\* floorOffset: where the scan for a key starts.
FloorOffset(v, k) == Max({ x.at : x \in { y \in v.sparse : y.key <= k } } \cup {1})

\* A filter is taken for the set of its keys: that it also admits others costs a scan
\* and changes no answer.
FilterOf(s) == { e.key : e \in Range(s) }
MayContain(filter, k) == filter = NoFile \/ k \in filter

\* Get: the entries found for a key, none or one; the scan ends at the first key
\* that is not before it.
Found(v, k) ==
    IF ~MayContain(v.bloom, k) THEN {}
    ELSE { v.entries[i] : i \in
             { j \in FloorOffset(v, k) .. Len(v.entries) :
                 /\ v.entries[j].key = k
                 /\ \A m \in FloorOffset(v, k) .. j - 1 : v.entries[m].key < k } }

\* Prefix and All: the entries given for the keys of a range, which are those with a
\* prefix, from the floor of its first key on; keys before it are passed over, and the
\* first one behind the range ends the scan.
Scanned(v, first, last) ==
    { v.entries[i] : i \in
        { j \in FloorOffset(v, first) .. Len(v.entries) :
            /\ v.entries[j].key >= first
            /\ \A m \in FloorOffset(v, first) .. j : v.entries[m].key <= last } }

-----------------------------------------------------------------------------
(* The world around: sources are created and grow. *)

AppendLine(p, k) ==
    /\ MapThenSumSet(Size, Path) < MaxLines
    /\ content' = [content EXCEPT ![p] = IF @ = NoFile THEN <<k>> ELSE Append(@, k)]
    /\ UNCHANGED <<files, lock, pc, call, view, ghosts>>

-----------------------------------------------------------------------------
(* Calls, and the build under the lock. *)

Goto(c, place) == pc' = [pc EXCEPT ![c] = place]

AllThere(list) == \A i \in DOMAIN list : list[i] \in Written

\* Mutant of SourcesMatch: the files are the same, their sizes are not looked at.
SamePaths(current) == sources # NoFile /\ PathsOf(sources) = PathsOf(current)
SourcesMatch(current) == sources # NoFile /\ sources = current

\* Mutant of IncrementalEligible: the recorded sources may have grown.
EligibleIfLonger(current) ==
    sources # NoFile /\ IsStrictPrefix(PathsOf(sources), PathsOf(current))
IncrementalEligible(current) == sources # NoFile /\ IsStrictPrefix(sources, current)

\* Mutant of LockFree: builds are not kept apart.
LockIgnored(c) == pc[c] = "idle"
LockFree(c) == pc[c] = "idle" /\ lock = NoCaller

\* What is left to know of an EnsureFresh that opens the files.
Asked(list, stats) == [NoCall EXCEPT !.op = "ensure", !.list = list, !.stats = stats]

\* EnsureFresh.  Taking the lock, looking at the sources and deciding is one step:
\* nobody else changes the index's files meanwhile.  A missing source is an error,
\* and nothing changes.

\* The record says what is there: the lock is released and the files are opened.  That
\* the entries are of this record is not looked at; while they are not, c is not clean.
FindsFresh(c, list) ==
    /\ LockFree(c) /\ AllThere(list)
    /\ SourcesMatch(StatOf(list))
    /\ call' = [call EXCEPT ![c] = Asked(list, StatOf(list))]
    /\ Goto(c, "open")
    /\ clean' = IF torn = {} THEN clean \cup {c} ELSE clean
    /\ UNCHANGED <<content, files, lock, view, torn, faults>>

\* Only new sources at the end: they are merged into the entries there are.
ChoosesRefresh(c, list, filter) ==
    /\ LockFree(c) /\ AllThere(list)
    /\ LET current == StatOf(list) IN
       /\ ~SourcesMatch(current) /\ IncrementalEligible(current)
       /\ call' = [call EXCEPT ![c] = [Asked(list, current) EXCEPT
                      !.filter = filter, !.base = Len(sources), !.scanned = Len(sources)]]
    /\ lock' = c /\ Goto(c, "scan")
    /\ UNCHANGED <<content, files, view, ghosts>>

ChoosesBuild(c, list, filter) ==
    /\ LockFree(c) /\ AllThere(list)
    /\ ~SourcesMatch(StatOf(list)) /\ ~IncrementalEligible(StatOf(list))
    /\ call' = [call EXCEPT ![c] = [Asked(list, <<>>) EXCEPT !.filter = filter]]
    /\ lock' = c /\ Goto(c, "stat")
    /\ UNCHANGED <<content, files, view, ghosts>>

\* BuildSortedIndex.
CallBuild(c, list, filter) ==
    /\ LockFree(c) /\ AllThere(list)
    /\ call' = [call EXCEPT ![c] = [NoCall EXCEPT !.op = "build", !.list = list, !.filter = filter]]
    /\ lock' = c /\ Goto(c, "stat")
    /\ UNCHANGED <<content, files, view, ghosts>>

\* A full build looks at the sources (again) before it reads them.
StatSources(c) ==
    /\ pc[c] = "stat"
    /\ call' = [call EXCEPT ![c].stats = StatOf(call[c].list)]
    /\ Goto(c, "scan")
    /\ UNCHANGED <<content, files, lock, view, ghosts>>

\* scanOneSource, to the source's end as it is now.
ScanSource(c) ==
    LET n == call[c].scanned + 1
        found == EntriesOf(call[c].list[n], n) IN
    /\ pc[c] = "scan" /\ n <= Len(call[c].list)
    /\ call' = [call EXCEPT ![c].runs = @ \cup found, ![c].scanned = n]
    /\ Goto(c, IF n = Len(call[c].list) THEN "merge" ELSE "scan")
    /\ UNCHANGED <<content, files, lock, view, ghosts>>

\* What a refresh takes over: the entries there are, whichever build made them.
Existing(c) == IF call[c].base = 0 THEN {} ELSE Range(sidx)

\* The merge; the new entries take the place of the old ones.
PublishEntries(c) ==
    /\ pc[c] = "merge"
    /\ sidx' = Merged(call[c].runs \cup Existing(c))
    /\ torn' = {call[c].list} \cup IF call[c].base = 0 THEN {} ELSE torn
    /\ clean' = clean \ { d \in Caller : pc[d] \in Opening }
    /\ call' = [call EXCEPT ![c].runs = {}]
    /\ Goto(c, "sparse")
    /\ UNCHANGED <<content, sparse, bloom, sources, lock, view, faults>>

PublishSparse(c) ==
    /\ pc[c] = "sparse"
    /\ sparse' = Sample(sidx, SparseInterval)
    /\ clean' = clean \ { d \in Caller : pc[d] \in Opening }
    /\ Goto(c, "bloom")
    /\ UNCHANGED <<content, sidx, bloom, sources, lock, call, view, torn, faults>>

\* Without BloomFPR no filter is written, and one that is there stays.
PublishBloom(c) ==
    /\ pc[c] = "bloom"
    /\ bloom' = IF call[c].filter THEN FilterOf(sidx) ELSE bloom
    /\ clean' = clean \ { d \in Caller : pc[d] \in Opening }
    /\ Goto(c, "sources")
    /\ UNCHANGED <<content, sidx, sparse, sources, lock, call, view, torn, faults>>

\* The files belong together again, unless a refresh merged entries that an
\* interrupted build of other sources had left.
Repaired(c) == \A list \in torn : IsPrefix(list, call[c].list) /\ Len(list) >= call[c].base

\* Mutant of Recorded: the sources as they are when the build ends.
RecordedLate(c) == StatOf(call[c].list)
Recorded(c) == call[c].stats

\* The record is written last; EnsureFresh goes on to open the files.
PublishSources(c) ==
    /\ pc[c] = "sources"
    /\ sources' = Recorded(c)
    /\ torn' = IF Repaired(c) THEN {} ELSE torn
    /\ lock' = NoCaller
    /\ Goto(c, IF call[c].op = "ensure" THEN "open" ELSE "idle")
    /\ clean' = (clean \ { d \in Caller : pc[d] \in Opening })
                  \cup IF call[c].op = "ensure" /\ Repaired(c) THEN {c} ELSE {}
    /\ call' = [call EXCEPT ![c] = IF @.op = "ensure" THEN Asked(@.list, @.stats) ELSE NoCall]
    /\ UNCHANGED <<content, sidx, sparse, bloom, view, faults>>

\* Mutant of BuildFails: the error returns with the lock held.
BuildFailsLocked(c) ==
    /\ pc[c] \in Building /\ faults < MaxFaults
    /\ faults' = faults + 1
    /\ Goto(c, "idle")
    /\ call' = [call EXCEPT ![c] = NoCall]
    /\ UNCHANGED <<content, files, lock, view, torn, clean>>
\* An error of the file system, or the context was cancelled.
BuildFails(c) ==
    /\ pc[c] \in Building /\ faults < MaxFaults
    /\ faults' = faults + 1
    /\ lock' = NoCaller /\ Goto(c, "idle")
    /\ call' = [call EXCEPT ![c] = NoCall]
    /\ UNCHANGED <<content, files, view, torn, clean>>

-----------------------------------------------------------------------------
(* OpenSortedIndex: without the lock, one file after another. *)

CallOpen(c) ==
    /\ pc[c] = "idle"
    /\ Goto(c, "open")
    /\ clean' = IF torn = {} THEN clean \cup {c} ELSE clean
    /\ UNCHANGED <<content, files, lock, call, view, torn, faults>>

\* Opens the sources named in the record, too: they are never removed.
OpenRecord(c) ==
    /\ pc[c] = "open" /\ sources # NoFile
    /\ view' = [view EXCEPT ![c].record = sources]
    /\ Goto(c, "open_sidx")
    /\ UNCHANGED <<content, files, lock, call, ghosts>>

OpenFails(c) ==
    /\ pc[c] = "open" /\ sources = NoFile
    /\ Goto(c, "idle")
    /\ clean' = clean \ {c}
    /\ call' = [call EXCEPT ![c] = NoCall]
    /\ UNCHANGED <<content, files, lock, view, torn, faults>>

OpenEntries(c) ==
    /\ pc[c] = "open_sidx"
    /\ view' = [view EXCEPT ![c].entries = sidx]
    /\ Goto(c, "open_sparse")
    /\ UNCHANGED <<content, files, lock, call, ghosts>>

OpenSparse(c) ==
    /\ pc[c] = "open_sparse"
    /\ view' = [view EXCEPT ![c].sparse = sparse]
    /\ Goto(c, "open_bloom")
    /\ UNCHANGED <<content, files, lock, call, ghosts>>

OpenBloom(c) ==
    /\ pc[c] = "open_bloom"
    /\ view' = [view EXCEPT ![c].bloom = bloom]
    /\ Goto(c, "done")
    /\ UNCHANGED <<content, files, lock, call, ghosts>>

Close(c) ==
    /\ pc[c] = "done"
    /\ Goto(c, "idle")
    /\ view' = [view EXCEPT ![c] = NoView]
    /\ call' = [call EXCEPT ![c] = NoCall]
    /\ clean' = clean \ {c}
    /\ UNCHANGED <<content, files, lock, torn, faults>>

\* The process dies: what was renamed stays.
Crash ==
    /\ \E c \in Caller : pc[c] # "idle"
    /\ faults < MaxFaults /\ faults' = faults + 1
    /\ lock' = NoCaller
    /\ pc' = [c \in Caller |-> "idle"]
    /\ call' = [c \in Caller |-> NoCall]
    /\ view' = [c \in Caller |-> NoView]
    /\ clean' = {}
    /\ UNCHANGED <<content, files, torn>>

CallerStep(c) ==
    \/ StatSources(c) \/ ScanSource(c)
    \/ PublishEntries(c) \/ PublishSparse(c) \/ PublishBloom(c) \/ PublishSources(c)
    \/ OpenRecord(c) \/ OpenFails(c) \/ OpenEntries(c) \/ OpenSparse(c) \/ OpenBloom(c)

Next ==
    \/ \E p \in Path, k \in Key : AppendLine(p, k)
    \/ \E c \in Caller :
          \/ \E list \in Lists : FindsFresh(c, list)
          \/ \E list \in Lists, f \in Filters :
                ChoosesRefresh(c, list, f) \/ ChoosesBuild(c, list, f) \/ CallBuild(c, list, f)
          \/ CallOpen(c)
          \/ CallerStep(c)
          \/ BuildFails(c)
          \/ Close(c)
    \/ Crash

Spec == Init /\ [][Next]_vars

-----------------------------------------------------------------------------
(* Properties. *)

\* The lines a record speaks of.
LinesOf(stats) ==
    UNION { { [key |-> content[stats[i].path][n], file |-> i, off |-> n] : n \in 1 .. stats[i].size } :
            i \in DOMAIN stats }

\* An opened index answers as its sources do: what it finds for a key is a line of
\* that key, and no line of the key that the record counts comes after it; and a scan
\* of a range of keys, which knows no filter, finds what asking for each of them does.
AnswersRight(v) ==
    \A k \in Key :
       LET known == { e \in LinesOf(v.record) : e.key = k } IN
       /\ known # {} => Found(v, k) # {}
       /\ \A e \in Found(v, k) :
             /\ e.file \in DOMAIN v.record
             /\ e.off \in DOMAIN content[v.record[e.file].path]
             /\ content[v.record[e.file].path][e.off] = k
             /\ \A d \in known : ~Better(d, e)
       /\ \A last \in Key :
             Scanned(v, k, last) = UNION { Found(v, m) : m \in { x \in Key : k <= x /\ x <= last } }

\* Whatever builds ran, failed or were cut short by a crash before, the files left
\* when nobody builds answer as the recorded sources do.  Not so while a publication
\* is unfinished, after a refresh over entries of an unfinished build of other
\* sources (it merges what it finds: refreshSortedIndexLocked).  So this is about repair;
\* that unfinished files are not taken for fresh does not hold (see OpenedAsAsked).
CacheIsWhole ==
    sources # NoFile /\ lock = NoCaller /\ torn = {} =>
        AnswersRight([record |-> sources, entries |-> sidx, sparse |-> sparse, bloom |-> bloom])

\* What EnsureFresh returns is an index of the sources it was asked for, no older
\* than they were when it looked.  Two provisos, which clean keeps: no other build
\* replaced a file while it opened them, and when it found the record to be fresh (or,
\* for OpenSortedIndex, when it began) the entries belonged to that record.  They do not
\* after a build or refresh of another list that published its entries and not its
\* record.  EnsureFresh of the old list takes these files for fresh all the same: of such
\* a caller nothing is claimed, and the code does not keep the promise to it.
AsAsked(record, asked) ==
    /\ PathsOf(record) = asked.list
    /\ \A i \in DOMAIN asked.list : record[i].size >= asked.stats[i].size
OpenedAsAsked ==
    \A c \in clean : pc[c] = "done" /\ call[c].op = "ensure" => AsAsked(view[c].record, call[c])

\* And, with the same two provisos, it answers as those sources do; so does what
\* OpenSortedIndex opened.
OpenedIsRight ==
    /\ OpenedAsAsked
    /\ \A c \in clean : pc[c] = "done" => AnswersRight(view[c])

\* An older state of the same sources never replaces a newer one, however many
\* goroutines rebuild (README.md "or leave a stale result on top of a fresh one").
RecordNeverReverts ==
    [][ sources # NoFile /\ PathsOf(sources') = PathsOf(sources) =>
          \A i \in DOMAIN sources : sources'[i].size >= sources[i].size ]_sources

\* The filter of a finished build denies no key of its entries (bloom.go "It never
\* false-negatives", sortedindex.go "nil if built with BloomFPR < 0").
FilterKnowsEveryKey ==
    sources # NoFile /\ lock = NoCaller /\ torn = {} /\ bloom # NoFile =>
        FilterOf(sidx) \subseteq bloom

=============================================================================
