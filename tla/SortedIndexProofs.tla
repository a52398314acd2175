-------------------------- MODULE SortedIndexProofs --------------------------
(***************************************************************************)
(* Proofs about module SortedIndex, for any callers, sources and lists.    *)
(*                                                                         *)
(* The first half is about the record: it never goes back to an older      *)
(* state of the same sources, and what EnsureFresh opens undisturbed is of *)
(* the list it was asked for and no older than what it saw.  That rests on *)
(* where sizes come from: sources only grow, so that sizes read under the  *)
(* build lock are no less than the recorded ones, and these stay as they   *)
(* are until the holder of the lock replaces them (IInv).                  *)
(*                                                                         *)
(* The second half is about the entries: when no publication is unfinished *)
(* the files answer as the recorded sources do.  It follows what entries   *)
(* hold and lack through merges, failures and crashes (WInv).              *)
(***************************************************************************)
EXTENDS SortedIndex, SequenceTheorems, FiniteSetTheorems, Extrema

Stat == [path : Path, size : Nat]

\* The fields of a call that the proofs speak of are there.
IsCall(r) == {"op", "list", "stats"} \subseteq DOMAIN r /\ r.list \in Seq(Path) /\ r.stats \in Stats

\* As much of the types as the proofs need.
Typed ==
    /\ content \in [Path -> Seq(Key) \cup {NoFile}]
    /\ sources \in Stats \cup {NoFile}
    /\ lock \in Caller \cup {NoCaller}
    /\ pc \in [Caller -> {"idle", "done"} \cup Locked \cup Opening]
    /\ call = [c \in Caller |-> call[c]]
    /\ view = [c \in Caller |-> view[c]]
    /\ \A c \in Caller : IsCall(call[c]) /\ "record" \in DOMAIN view[c]
    /\ clean \subseteq Caller

\* Only the holder of the lock is between its decision and its record.
OneBuilder == \A c \in Caller : pc[c] \in Locked => lock = c

\* Sizes that were read once, of sources that have not shrunk since.
Seen(stats) == \A i \in DOMAIN stats : stats[i].size <= Size(stats[i].path)

NotOlder(new, old) ==
    \A i \in DOMAIN new \cap DOMAIN old : new[i].path = old[i].path => new[i].size >= old[i].size

RecordSeen == sources # NoFile => Seen(sources)

\* What a build is going to record is no older than what is recorded.
BuildAhead ==
    \A c \in Caller : pc[c] \in Building =>
        /\ Seen(call[c].stats)
        /\ PathsOf(call[c].stats) = call[c].list
        /\ sources # NoFile => NotOlder(call[c].stats, sources)

IdleForgets == \A c \in Caller : pc[c] = "idle" => call[c] = NoCall

\* A caller whose files nobody has replaced since it decided.
CleanIsFresh ==
    \A c \in clean :
        /\ pc[c] \in Opening \cup {"done"}
        /\ call[c].op = "ensure" =>
              AsAsked(IF pc[c] = "open" THEN sources ELSE view[c].record, call[c])

IInv == Typed /\ OneBuilder /\ RecordSeen /\ BuildAhead /\ IdleForgets /\ CleanIsFresh

-----------------------------------------------------------------------------
(* Sizes. *)

LEMMA StatAt ==
    ASSUME NEW stats \in Stats, NEW i \in DOMAIN stats
    PROVE  stats[i].path \in Path /\ stats[i].size \in Nat
<1>1. stats \in Seq(Stat)
  BY DEF Stats, Stat
<1>2. DOMAIN stats = 1 .. Len(stats)
  BY <1>1
<1>3. stats[i] \in Stat
  BY <1>1, <1>2
<1> QED
  BY <1>3 DEF Stat

LEMMA SizeIsNat ==
    ASSUME Typed, NEW p \in Path
    PROVE  Size(p) \in Nat
BY DEF Typed, Size, Written

\* A list looked at now has sizes that are no less than any read before.
LEMMA LookNow ==
    ASSUME Typed, NEW list \in Seq(Path)
    PROVE  /\ StatOf(list) \in Stats
           /\ PathsOf(StatOf(list)) = list
           /\ Seen(StatOf(list))
           /\ \A old \in Stats : Seen(old) => NotOlder(StatOf(list), old)
<1>1. \A i \in DOMAIN list : list[i] \in Path /\ Size(list[i]) \in Nat
  BY SizeIsNat
<1>2. StatOf(list) \in Stats
  <2>1. Len(list) \in Nat /\ DOMAIN list = 1 .. Len(list)
    OBVIOUS
  <2>2. StatOf(list) = [i \in 1 .. Len(list) |-> [path |-> list[i], size |-> Size(list[i])]]
    BY <2>1 DEF StatOf
  <2>3. \A i \in 1 .. Len(list) :
           [path |-> list[i], size |-> Size(list[i])] \in [path : Path, size : Nat]
    BY <1>1, <2>1
  <2> QED
    BY <2>1, <2>2, <2>3 DEF Stats
<1>3. PathsOf(StatOf(list)) = list
  BY DEF PathsOf, StatOf
<1>4. Seen(StatOf(list))
  BY <1>1 DEF Seen, StatOf
<1>5. ASSUME NEW old \in Stats, Seen(old) PROVE NotOlder(StatOf(list), old)
  BY <1>1, <1>5 DEF Seen, StatOf, NotOlder, Stats
<1> QED
  BY <1>2, <1>3, <1>4, <1>5

\* Sources only grow.
LEMMA Growth ==
    ASSUME Typed, NEW p \in Path, NEW k \in Key, AppendLine(p, k), NEW q \in Path
    PROVE  /\ content' \in [Path -> Seq(Key) \cup {NoFile}]
           /\ Size(q) <= Size(q)'
<1>1. content' = [content EXCEPT ![p] = IF content[p] = NoFile THEN <<k>> ELSE Append(content[p], k)]
  BY DEF AppendLine
<1>2. content'[p] \in Seq(Key) /\ content'[p] # NoFile
  <2>1. CASE content[p] = NoFile
    <3>1. content'[p] = <<k>>
      BY <1>1, <2>1 DEF Typed
    <3>2. <<k>> \in Seq(Key)
      OBVIOUS
    <3> QED
      BY <3>1, <3>2, FileAssumption
  <2>2. CASE content[p] # NoFile
    <3>1. content[p] \in Seq(Key) /\ content'[p] = Append(content[p], k)
      BY <1>1, <2>2 DEF Typed
    <3>2. Append(content[p], k) \in Seq(Key)
      BY <3>1
    <3> QED
      BY <3>1, <3>2, FileAssumption
  <2> QED
    BY <2>1, <2>2
<1>3. content' \in [Path -> Seq(Key) \cup {NoFile}]
  BY <1>1, <1>2 DEF Typed
<1>4. ASSUME q = p, content[p] # NoFile PROVE Size(q) <= Size(q)'
  <2>1. content[p] \in Seq(Key) /\ content'[p] = Append(content[p], k)
    BY <1>1, <1>4 DEF Typed
  <2>2. Len(content'[p]) = Len(content[p]) + 1 /\ Len(content[p]) \in Nat
    BY <2>1
  <2>3. Size(q) = Len(content[p]) /\ Size(q)' = Len(content'[p])
    BY <1>2, <1>4 DEF Size, Written
  <2> QED
    BY <2>2, <2>3
<1>5. ASSUME q = p, content[p] = NoFile PROVE Size(q) <= Size(q)'
  <2>1. Size(q) = 0
    BY <1>5 DEF Size, Written
  <2>2. Size(q)' = Len(content'[p])
    BY <1>2, <1>5 DEF Size, Written
  <2> QED
    BY <1>2, <2>1, <2>2
<1>6. ASSUME q # p PROVE Size(q) <= Size(q)'
  <2>1. content'[q] = content[q]
    BY <1>1, <1>6 DEF Typed
  <2> QED
    BY <2>1, SizeIsNat DEF Size, Written
<1> QED
  BY <1>3, <1>4, <1>5, <1>6

LEMMA SeenStays ==
    ASSUME Typed, NEW p \in Path, NEW k \in Key, AppendLine(p, k), NEW stats \in Stats, Seen(stats)
    PROVE  Seen(stats)'
<1> SUFFICES ASSUME NEW i \in DOMAIN stats PROVE stats[i].size <= Size(stats[i].path)'
  BY DEF Seen
<1>1. stats[i].path \in Path /\ stats[i].size \in Nat
  BY StatAt
<1>2. stats[i].size <= Size(stats[i].path)
  BY DEF Seen
<1>3. Size(stats[i].path) <= Size(stats[i].path)'
  BY <1>1, Growth
<1>4. Size(stats[i].path) \in Nat /\ Size(stats[i].path)' \in Nat
  BY <1>1, SizeIsNat, Growth DEF Size, Written
<1> QED
  BY <1>1, <1>2, <1>3, <1>4

-----------------------------------------------------------------------------
(* One caller moves, and neither a source nor the record changes. *)

Places == {"idle", "done"} \cup Locked \cup Opening

LEMMA OneMoves ==
    ASSUME IInv, NEW c \in Caller, UNCHANGED <<content, sources>>,
           NEW place \in Places, NEW new, NEW v,
           pc' = [pc EXCEPT ![c] = place],
           call' = [call EXCEPT ![c] = new],
           view' = [view EXCEPT ![c] = v],
           IsCall(new), "record" \in DOMAIN v,
           lock' \in Caller \cup {NoCaller},
           place \in Locked => lock' = c,
           \A d \in Caller : d # c /\ pc[d] \in Locked => lock' = d,
           place \in Building =>
               /\ Seen(new.stats) /\ PathsOf(new.stats) = new.list
               /\ sources # NoFile => NotOlder(new.stats, sources),
           place = "idle" => new = NoCall,
           clean' \subseteq clean \cup {c},
           c \in clean' =>
               /\ place \in Opening \cup {"done"}
               /\ new.op = "ensure" =>
                      AsAsked(IF place = "open" THEN sources ELSE v.record, new)
    PROVE  IInv'
<1> USE DEF IInv
<1>1. /\ \A d \in Caller : pc'[d] = IF d = c THEN place ELSE pc[d]
      /\ \A d \in Caller : call'[d] = IF d = c THEN new ELSE call[d]
      /\ \A d \in Caller : view'[d] = IF d = c THEN v ELSE view[d]
  BY DEF Typed
<1>2. Typed'
  <2>1. content' \in [Path -> Seq(Key) \cup {NoFile}] /\ sources' \in Stats \cup {NoFile}
    BY DEF Typed
  <2>2. pc' \in [Caller -> {"idle", "done"} \cup Locked \cup Opening]
    BY DEF Typed, Places
  <2>3. call' = [d \in Caller |-> call'[d]] /\ view' = [d \in Caller |-> view'[d]]
    BY DEF Typed
  <2>4. \A d \in Caller : IsCall(call'[d]) /\ "record" \in DOMAIN view'[d]
    BY <1>1 DEF Typed
  <2>5. clean' \subseteq Caller
    BY DEF Typed
  <2> QED
    BY <2>1, <2>2, <2>3, <2>4, <2>5 DEF Typed
<1>3. OneBuilder'
  BY <1>1 DEF OneBuilder
<1>4. \A stats : Seen(stats)' <=> Seen(stats)
  BY DEF Seen, Size, Written
<1>5. RecordSeen'
  BY <1>4 DEF RecordSeen, Seen
<1>6. BuildAhead'
  <2> SUFFICES ASSUME NEW d \in Caller, pc'[d] \in Building
               PROVE  /\ Seen(call[d].stats)'
                      /\ PathsOf(call'[d].stats) = call'[d].list
                      /\ sources # NoFile => NotOlder(call'[d].stats, sources)
    BY DEF BuildAhead
  <2>1. CASE d = c
    BY <1>1, <1>4, <2>1 DEF Seen
  <2>2. CASE d # c
    BY <1>1, <1>4, <2>2 DEF BuildAhead, Seen
  <2> QED
    BY <2>1, <2>2
<1>7. IdleForgets'
  BY <1>1 DEF IdleForgets
<1>8. CleanIsFresh'
  <2> SUFFICES ASSUME NEW d \in clean'
               PROVE  /\ pc'[d] \in Opening \cup {"done"}
                      /\ call'[d].op = "ensure" =>
                            AsAsked(IF pc'[d] = "open" THEN sources' ELSE view'[d].record, call'[d])
    BY DEF CleanIsFresh
  <2>1. CASE d = c
    BY <1>1, <2>1
  <2>2. CASE d # c
    BY <1>1, <2>2 DEF CleanIsFresh, Typed
  <2> QED
    BY <2>1, <2>2
<1> QED
  BY <1>2, <1>3, <1>5, <1>6, <1>7, <1>8

LEMMA AskedIs ==
    ASSUME NEW list \in Seq(Path), NEW stats \in Stats
    PROVE  /\ IsCall(Asked(list, stats)) /\ Asked(list, stats).op = "ensure"
           /\ Asked(list, stats).list = list /\ Asked(list, stats).stats = stats
BY DEF Asked, NoCall, IsCall

\* Taking the lock: nobody else is building.
LEMMA LockTaken ==
    ASSUME IInv, NEW c \in Caller, LockFree(c)
    PROVE  pc[c] = "idle" /\ c \notin clean /\ \A d \in Caller : pc[d] \notin Locked
<1>1. pc[c] = "idle" /\ lock = NoCaller
  BY DEF LockFree
<1>2. \A d \in Caller : pc[d] \notin Locked
  BY <1>1, CallerAssumption DEF IInv, OneBuilder
<1>3. c \notin clean
  BY <1>1 DEF IInv, CleanIsFresh, Opening
<1> QED
  BY <1>1, <1>2, <1>3

LEMMA ChoosesRefreshPreserves ==
    ASSUME IInv, NEW c \in Caller, NEW list \in Lists, NEW f \in Filters, ChoosesRefresh(c, list, f)
    PROVE  IInv'
<1> DEFINE new == [Asked(list, StatOf(list)) EXCEPT
                     !.filter = f, !.base = Len(sources), !.scanned = Len(sources)]
<1>1. list \in Seq(Path)
  BY ListAssumption
<1>2. c \notin clean /\ \A d \in Caller : pc[d] \notin Locked
  BY LockTaken DEF ChoosesRefresh
<1>3. /\ StatOf(list) \in Stats /\ PathsOf(StatOf(list)) = list /\ Seen(StatOf(list))
      /\ \A old \in Stats : Seen(old) => NotOlder(StatOf(list), old)
  BY <1>1, LookNow DEF IInv
<1>4. sources # NoFile => NotOlder(StatOf(list), sources)
  BY <1>3 DEF IInv, Typed, RecordSeen
<1>5. IsCall(new) /\ new.list = list /\ new.stats = StatOf(list)
  BY <1>1, <1>3 DEF Asked, NoCall, IsCall
<1>6. /\ pc' = [pc EXCEPT ![c] = "scan"] /\ lock' = c /\ call' = [call EXCEPT ![c] = new]
      /\ UNCHANGED <<content, sources, view, clean>>
  BY DEF ChoosesRefresh, Goto, files, ghosts
<1> HIDE DEF new
<1> QED
  BY <1>2, <1>3, <1>4, <1>5, <1>6, OneMoves DEF IInv, Typed, Places, Locked, Building

\* Neither of these has read a size yet.
LEMMA StartsPreserves ==
    ASSUME IInv, NEW c \in Caller, NEW list \in Lists, NEW f \in Filters,
           ChoosesBuild(c, list, f) \/ CallBuild(c, list, f)
    PROVE  IInv'
<1>1. list \in Seq(Path) /\ <<>> \in Stats
  BY ListAssumption DEF Stats
<1>2. c \notin clean /\ \A d \in Caller : pc[d] \notin Locked
  BY LockTaken DEF ChoosesBuild, CallBuild
<1>3. /\ pc' = [pc EXCEPT ![c] = "stat"] /\ lock' = c
      /\ UNCHANGED <<content, sources, view, clean>>
  BY DEF ChoosesBuild, CallBuild, Goto, files, ghosts
<1>4. PICK new : call' = [call EXCEPT ![c] = new] /\ IsCall(new)
  <2>1. CASE ChoosesBuild(c, list, f)
    <3> DEFINE new == [Asked(list, <<>>) EXCEPT !.filter = f]
    <3>1. IsCall(new)
      BY <1>1 DEF Asked, NoCall, IsCall
    <3> QED
      BY <2>1, <3>1 DEF ChoosesBuild
  <2>2. CASE CallBuild(c, list, f)
    <3> DEFINE new == [NoCall EXCEPT !.op = "build", !.list = list, !.filter = f]
    <3>1. IsCall(new)
      BY <1>1 DEF NoCall, IsCall
    <3> QED
      BY <2>2, <3>1 DEF CallBuild
  <2> QED
    BY <2>1, <2>2
<1> QED
  BY <1>2, <1>3, <1>4, OneMoves DEF IInv, Typed, Places, Locked, Building

LEMMA FindsFreshPreserves ==
    ASSUME IInv, NEW c \in Caller, NEW list \in Lists, FindsFresh(c, list)
    PROVE  IInv'
<1> DEFINE new == Asked(list, StatOf(list))
<1>1. list \in Seq(Path)
  BY ListAssumption
<1>2. c \notin clean /\ \A d \in Caller : pc[d] \notin Locked
  BY LockTaken DEF FindsFresh
<1>3. StatOf(list) \in Stats /\ PathsOf(StatOf(list)) = list
  BY <1>1, LookNow DEF IInv
<1>4. IsCall(new) /\ new.list = list /\ new.stats = StatOf(list)
  BY <1>1, <1>3, AskedIs
<1>5. /\ pc' = [pc EXCEPT ![c] = "open"] /\ call' = [call EXCEPT ![c] = new]
      /\ view' = [view EXCEPT ![c] = view[c]]
      /\ UNCHANGED <<content, sources, lock>> /\ clean' \subseteq clean \cup {c}
  BY DEF FindsFresh, Goto, files, IInv, Typed
<1>6. AsAsked(sources, new)
  <2>1. sources = StatOf(list)
    BY DEF FindsFresh, SourcesMatch
  <2>2. \A i \in DOMAIN list : StatOf(list)[i].size = Size(list[i]) /\ Size(list[i]) \in Nat
    BY <1>1, SizeIsNat DEF StatOf, IInv
  <2> QED
    BY <1>3, <1>4, <2>1, <2>2 DEF AsAsked
<1> HIDE DEF new
<1> QED
  BY <1>2, <1>4, <1>5, <1>6, OneMoves DEF IInv, Typed, Places, Locked, Building, Opening

LEMMA CallOpenPreserves ==
    ASSUME IInv, NEW c \in Caller, CallOpen(c)
    PROVE  IInv'
<1>1. /\ pc[c] = "idle" /\ pc' = [pc EXCEPT ![c] = "open"] /\ call' = [call EXCEPT ![c] = call[c]]
      /\ view' = [view EXCEPT ![c] = view[c]]
      /\ UNCHANGED <<content, sources, lock>> /\ clean' \subseteq clean \cup {c}
  BY DEF CallOpen, Goto, files, IInv, Typed
<1>2. call[c] = NoCall /\ IsCall(call[c]) /\ call[c].op = "none"
  BY <1>1 DEF IInv, IdleForgets, Typed, NoCall
<1> QED
  BY <1>1, <1>2, OneMoves DEF IInv, Typed, Places, Locked, Building, Opening, OneBuilder

LEMMA StatSourcesPreserves ==
    ASSUME IInv, NEW c \in Caller, StatSources(c)
    PROVE  IInv'
<1> DEFINE list == call[c].list
           new == [call[c] EXCEPT !.stats = StatOf(list)]
<1>1. pc[c] = "stat" /\ pc[c] \in Locked /\ c \notin clean /\ lock = c
  BY DEF StatSources, Locked, Opening, IInv, CleanIsFresh, OneBuilder
<1>2. IsCall(call[c]) /\ list \in Seq(Path)
  BY DEF IInv, Typed, IsCall
<1>3. /\ StatOf(list) \in Stats /\ PathsOf(StatOf(list)) = list /\ Seen(StatOf(list))
      /\ \A old \in Stats : Seen(old) => NotOlder(StatOf(list), old)
  BY <1>2, LookNow DEF IInv
<1>4. sources # NoFile => NotOlder(StatOf(list), sources)
  BY <1>3 DEF IInv, Typed, RecordSeen
<1>5. IsCall(new) /\ new.list = list /\ new.stats = StatOf(list)
  BY <1>2, <1>3 DEF IsCall
<1>6. /\ pc' = [pc EXCEPT ![c] = "scan"] /\ call' = [call EXCEPT ![c] = new]
      /\ view' = [view EXCEPT ![c] = view[c]]
      /\ UNCHANGED <<content, sources, lock, clean>>
  BY DEF StatSources, Goto, files, ghosts, IInv, Typed
<1>7. \A d \in Caller : d # c => pc[d] \notin Locked
  BY <1>1 DEF IInv, OneBuilder
<1> HIDE DEF new, list
<1> QED
  BY <1>1, <1>3, <1>4, <1>5, <1>6, <1>7, OneMoves DEF IInv, Typed, Places, Locked, Building

\* A step of the build that neither reads sizes nor replaces the record.
LEMMA BuildStep ==
    ASSUME IInv, NEW c \in Caller, pc[c] \in Building, NEW place \in Building,
           pc' = [pc EXCEPT ![c] = place], NEW new, IsCall(new),
           call' = [call EXCEPT ![c] = new], new.list = call[c].list, new.stats = call[c].stats,
           UNCHANGED <<content, sources, lock, view>>, clean' \subseteq clean
    PROVE  IInv'
<1>1. pc[c] \in Locked /\ c \notin clean /\ lock = c
  BY DEF Building, Locked, Opening, IInv, CleanIsFresh, OneBuilder
<1>2. /\ Seen(new.stats) /\ PathsOf(new.stats) = new.list
      /\ sources # NoFile => NotOlder(new.stats, sources)
  BY DEF IInv, BuildAhead
<1>3. view' = [view EXCEPT ![c] = view[c]]
  BY DEF IInv, Typed
<1>4. \A d \in Caller : d # c => pc[d] \notin Locked
  BY <1>1 DEF IInv, OneBuilder
<1> QED
  BY <1>1, <1>2, <1>3, <1>4, OneMoves DEF IInv, Typed, Places, Locked, Building

LEMMA ScanSourcePreserves ==
    ASSUME IInv, NEW c \in Caller, ScanSource(c)
    PROVE  IInv'
<1> DEFINE n == call[c].scanned + 1
           new == [call[c] EXCEPT !.runs = @ \cup EntriesOf(call[c].list[n], n), !.scanned = n]
           place == IF n = Len(call[c].list) THEN "merge" ELSE "scan"
<1>1. pc[c] \in Building /\ place \in Building
  BY DEF ScanSource, Building
<1>2. IsCall(call[c])
  BY DEF IInv, Typed
<1>3. IsCall(new) /\ new.list = call[c].list /\ new.stats = call[c].stats
  BY <1>2 DEF IsCall
<1>4. call' = [call EXCEPT ![c] = new]
  BY <1>2 DEF ScanSource, IInv, Typed
<1>5. pc' = [pc EXCEPT ![c] = place] /\ UNCHANGED <<content, sources, lock, view, clean>>
  BY DEF ScanSource, Goto, files, ghosts
<1> HIDE DEF new, place
<1> QED
  BY <1>1, <1>3, <1>4, <1>5, BuildStep

LEMMA PublishEntriesPreserves ==
    ASSUME IInv, NEW c \in Caller, PublishEntries(c)
    PROVE  IInv'
<1> DEFINE new == [call[c] EXCEPT !.runs = {}]
<1>1. pc[c] \in Building /\ "sparse" \in Building
  BY DEF PublishEntries, Building
<1>2. IsCall(call[c])
  BY DEF IInv, Typed
<1>3. IsCall(new) /\ new.list = call[c].list /\ new.stats = call[c].stats
  BY <1>2 DEF IsCall
<1>4. /\ pc' = [pc EXCEPT ![c] = "sparse"] /\ call' = [call EXCEPT ![c] = new]
      /\ UNCHANGED <<content, sources, lock, view>> /\ clean' \subseteq clean
  BY DEF PublishEntries, Goto
<1> HIDE DEF new
<1> QED
  BY <1>1, <1>3, <1>4, BuildStep

LEMMA PublishSamplesPreserves ==
    ASSUME IInv, NEW c \in Caller, PublishSparse(c) \/ PublishBloom(c)
    PROVE  IInv'
<1>1. PICK place \in Building : pc[c] \in Building /\ pc' = [pc EXCEPT ![c] = place]
  BY DEF PublishSparse, PublishBloom, Building, Goto
<1>2. IsCall(call[c]) /\ call' = [call EXCEPT ![c] = call[c]]
  BY DEF IInv, Typed, PublishSparse, PublishBloom
<1>3. UNCHANGED <<content, sources, lock, view>> /\ clean' \subseteq clean
  BY DEF PublishSparse, PublishBloom
<1> QED
  BY <1>1, <1>2, <1>3, BuildStep

\* An attempt ends, with or without an answer.
LEMMA EndsPreserves ==
    ASSUME IInv, NEW c \in Caller, BuildFails(c) \/ OpenFails(c) \/ Close(c)
    PROVE  IInv'
<1>1. pc' = [pc EXCEPT ![c] = "idle"] /\ call' = [call EXCEPT ![c] = NoCall]
      /\ UNCHANGED <<content, sources>> /\ clean' \subseteq clean
  BY DEF BuildFails, OpenFails, Close, Goto, files
<1>2. IsCall(NoCall)
  BY DEF NoCall, IsCall, Stats
<1> DEFINE v == view'[c]
<1>3. view' = [view EXCEPT ![c] = v] /\ "record" \in DOMAIN v
  <2>1. CASE view' = view
    BY <2>1 DEF IInv, Typed
  <2>2. CASE Close(c)
    BY <2>2 DEF IInv, Typed, Close, NoView
  <2> QED
    BY <2>1, <2>2 DEF BuildFails, OpenFails
<1> HIDE DEF v
<1>4. c \notin clean'
  BY DEF BuildFails, OpenFails, Close, Building, Opening, IInv, CleanIsFresh
<1>5. /\ lock' \in Caller \cup {NoCaller}
      /\ \A d \in Caller : d # c /\ pc[d] \in Locked => lock' = d
  <2>1. CASE BuildFails(c)
    <3>1. lock = c /\ lock' = NoCaller
      BY <2>1 DEF BuildFails, Locked, IInv, OneBuilder
    <3> QED
      BY <3>1 DEF IInv, OneBuilder
  <2>2. CASE UNCHANGED lock
    BY <2>2 DEF IInv, Typed, OneBuilder
  <2> QED
    BY <2>1, <2>2 DEF OpenFails, Close
<1> QED
  BY <1>1, <1>2, <1>3, <1>4, <1>5, OneMoves DEF Places, Locked, Building

\* Opening the files, the record first.
LEMMA OpensPreserves ==
    ASSUME IInv, NEW c \in Caller,
           OpenRecord(c) \/ OpenEntries(c) \/ OpenSparse(c) \/ OpenBloom(c)
    PROVE  IInv'
<1>1. PICK place \in (Opening \ {"open"}) \cup {"done"} : pc' = [pc EXCEPT ![c] = place]
  BY DEF OpenRecord, OpenEntries, OpenSparse, OpenBloom, Goto, Opening
<1>2. pc[c] \in Opening /\ UNCHANGED <<content, sources, lock, clean>>
  BY DEF OpenRecord, OpenEntries, OpenSparse, OpenBloom, Opening, files, ghosts
<1>3. IsCall(call[c]) /\ call' = [call EXCEPT ![c] = call[c]]
  BY DEF IInv, Typed, OpenRecord, OpenEntries, OpenSparse, OpenBloom
<1>4. "record" \in DOMAIN view[c] /\ view = [d \in Caller |-> view[d]]
  BY DEF IInv, Typed
<1> DEFINE v == view'[c]
<1>5. PICK r : view' = [view EXCEPT ![c] = r]
  BY DEF OpenRecord, OpenEntries, OpenSparse, OpenBloom
<1>6. "record" \in DOMAIN v /\ v.record = IF pc[c] = "open" THEN sources ELSE view[c].record
  BY <1>4 DEF OpenRecord, OpenEntries, OpenSparse, OpenBloom
<1>7. view' = [view EXCEPT ![c] = v]
  BY <1>4, <1>5
<1> HIDE DEF v
<1>8. c \in clean' => (call[c].op = "ensure" => AsAsked(v.record, call[c]))
  BY <1>2, <1>6 DEF IInv, CleanIsFresh
<1> QED
  BY <1>1, <1>2, <1>3, <1>6, <1>7, <1>8, OneMoves
     DEF IInv, Typed, OneBuilder, Places, Locked, Building, Opening

-----------------------------------------------------------------------------
(* The steps that change a source, the record, or every caller. *)

LEMMA AppendLinePreserves ==
    ASSUME IInv, NEW p \in Path, NEW k \in Key, AppendLine(p, k)
    PROVE  IInv'
<1> USE DEF IInv
<1>1. UNCHANGED <<sources, lock, pc, call, view, clean>>
  BY DEF AppendLine, files, ghosts
<1>2. content' \in [Path -> Seq(Key) \cup {NoFile}]
  <2>1. content' = [content EXCEPT ![p] = content'[p]]
    BY DEF AppendLine, Typed
  <2> QED
    BY <2>1, Growth DEF Typed
<1>3. Typed'
  BY <1>1, <1>2 DEF Typed
<1>4. RecordSeen'
  <2> SUFFICES ASSUME sources # NoFile PROVE Seen(sources)'
    BY <1>1 DEF RecordSeen
  <2>1. \A stats \in Stats : Seen(stats) => Seen(stats)'
    BY SeenStays
  <2>2. sources \in Stats /\ Seen(sources)
    BY DEF RecordSeen, Typed
  <2> QED
    BY <1>1, <2>1, <2>2 DEF Seen
<1>5. BuildAhead'
  <2> SUFFICES ASSUME NEW c \in Caller, pc[c] \in Building
               PROVE  /\ Seen(call[c].stats)'
                      /\ PathsOf(call[c].stats) = call[c].list
                      /\ sources # NoFile => NotOlder(call[c].stats, sources)
    BY <1>1 DEF BuildAhead
  <2>1. \A stats \in Stats : Seen(stats) => Seen(stats)'
    BY SeenStays
  <2>2. call[c].stats \in Stats /\ Seen(call[c].stats)
    BY DEF BuildAhead, Typed, IsCall
  <2> QED
    BY <1>1, <2>1, <2>2 DEF Seen, BuildAhead
<1>6. OneBuilder' /\ IdleForgets'
  BY <1>1 DEF OneBuilder, IdleForgets
<1>7. CleanIsFresh'
  BY <1>1 DEF CleanIsFresh
<1> QED
  BY <1>3, <1>4, <1>5, <1>6, <1>7

LEMMA PublishSourcesPreserves ==
    ASSUME IInv, NEW c \in Caller, PublishSources(c)
    PROVE  IInv'
<1> DEFINE stats == call[c].stats
           list == call[c].list
           place == IF call[c].op = "ensure" THEN "open" ELSE "idle"
           new == IF call[c].op = "ensure" THEN Asked(list, stats) ELSE NoCall
<1>1. pc[c] \in Building /\ pc[c] \in Locked /\ lock = c
  BY DEF PublishSources, Building, Locked, IInv, OneBuilder
<1>2. stats \in Stats /\ list \in Seq(Path) /\ Seen(stats) /\ PathsOf(stats) = list
  BY <1>1 DEF IInv, BuildAhead, Typed, IsCall
<1>3. /\ pc' = [pc EXCEPT ![c] = place] /\ call' = [call EXCEPT ![c] = new]
      /\ sources' = stats /\ lock' = NoCaller /\ UNCHANGED <<content, view>>
      /\ clean' \subseteq (clean \ { d \in Caller : pc[d] \in Opening }) \cup {c}
  BY DEF PublishSources, Goto, Recorded, IInv, Typed
<1>4. IsCall(new)
  <2>1. IsCall(NoCall)
    BY DEF NoCall, IsCall, Stats
  <2>2. IsCall(Asked(list, stats))
    BY <1>2, AskedIs
  <2> QED
    BY <2>1, <2>2
<1>5. /\ \A d \in Caller : pc'[d] = IF d = c THEN place ELSE pc[d]
      /\ \A d \in Caller : call'[d] = IF d = c THEN new ELSE call[d]
  BY <1>3 DEF IInv, Typed
<1>6. \A d \in Caller : pc'[d] \notin Locked
  BY <1>1, <1>5 DEF IInv, OneBuilder, Locked, Building
<1>7. Typed'
  <2>1. pc' \in [Caller -> {"idle", "done"} \cup Locked \cup Opening]
    BY <1>3 DEF IInv, Typed, Opening
  <2>2. call' = [d \in Caller |-> call'[d]] /\ \A d \in Caller : IsCall(call'[d])
    BY <1>3, <1>4, <1>5 DEF IInv, Typed
  <2>3. clean' \subseteq Caller
    BY <1>3 DEF IInv, Typed
  <2> QED
    BY <1>2, <1>3, <2>1, <2>2, <2>3 DEF IInv, Typed
<1>8. OneBuilder' /\ BuildAhead'
  BY <1>6 DEF OneBuilder, BuildAhead, Locked
<1>9. RecordSeen'
  BY <1>2, <1>3 DEF RecordSeen, Seen, Size, Written
<1>10. IdleForgets'
  BY <1>5 DEF IdleForgets, IInv
<1>11. CleanIsFresh'
  <2> SUFFICES ASSUME NEW d \in clean'
               PROVE  /\ pc'[d] \in Opening \cup {"done"}
                      /\ call'[d].op = "ensure" =>
                            AsAsked(IF pc'[d] = "open" THEN sources' ELSE view'[d].record, call'[d])
    BY DEF CleanIsFresh
  <2>1. CASE d = c
    <3>1. call[c].op = "ensure"
      BY <2>1, <1>1, <1>3 DEF PublishSources, IInv, CleanIsFresh, Building, Opening
    <3>2. pc'[c] = "open" /\ call'[c] = Asked(list, stats)
      BY <1>5, <3>1
    <3>3. AsAsked(stats, Asked(list, stats))
      <4>1. DOMAIN list = DOMAIN stats /\ \A i \in DOMAIN stats : stats[i].size \in Nat
        BY <1>2, StatAt DEF PathsOf
      <4> QED
        BY <1>2, <4>1, AskedIs DEF AsAsked
    <3> QED
      BY <1>3, <2>1, <3>2, <3>3 DEF Opening
  <2>2. CASE d # c
    <3>1. d \in clean /\ d \in Caller /\ pc[d] \notin Opening
      BY <1>3, <2>2 DEF IInv, Typed
    <3>2. pc[d] = "done" /\ pc'[d] = pc[d] /\ call'[d] = call[d] /\ view' = view
      BY <1>3, <1>5, <2>2, <3>1 DEF IInv, CleanIsFresh
    <3>3. "done" # "open"
      OBVIOUS
    <3> QED
      BY <3>1, <3>2, <3>3 DEF IInv, CleanIsFresh
  <2> QED
    BY <2>1, <2>2
<1> QED
  BY <1>7, <1>8, <1>9, <1>10, <1>11 DEF IInv

LEMMA CrashPreserves == ASSUME IInv, Crash PROVE IInv'
<1>1. /\ pc' = [c \in Caller |-> "idle"] /\ call' = [c \in Caller |-> NoCall]
      /\ view' = [c \in Caller |-> NoView] /\ lock' = NoCaller /\ clean' = {}
      /\ UNCHANGED <<content, sources>>
  BY DEF Crash, files
<1>2. IsCall(NoCall) /\ "record" \in DOMAIN NoView
  BY DEF NoCall, NoView, IsCall, Stats
<1>3. Typed'
  BY <1>1, <1>2 DEF IInv, Typed
<1>4. OneBuilder' /\ BuildAhead' /\ IdleForgets' /\ CleanIsFresh'
  BY <1>1 DEF OneBuilder, BuildAhead, IdleForgets, CleanIsFresh, Locked, Building
<1>5. RecordSeen'
  BY <1>1 DEF IInv, RecordSeen, Seen, Size, Written
<1> QED
  BY <1>3, <1>4, <1>5 DEF IInv

-----------------------------------------------------------------------------
(* The invariant and what follows from it. *)

LEMMA InitIInv == ASSUME Init PROVE IInv
<1>1. IsCall(NoCall) /\ "record" \in DOMAIN NoView
  BY DEF NoCall, NoView, IsCall, Stats
<1>2. Typed
  BY <1>1 DEF Init, Typed
<1>3. OneBuilder /\ RecordSeen /\ BuildAhead /\ IdleForgets /\ CleanIsFresh
  BY DEF Init, OneBuilder, RecordSeen, BuildAhead, IdleForgets, CleanIsFresh, Locked, Building
<1> QED
  BY <1>2, <1>3 DEF IInv

LEMMA StepIInv == ASSUME IInv, [Next]_vars PROVE IInv'
<1>1. ASSUME NEW p \in Path, NEW k \in Key, AppendLine(p, k) PROVE IInv'
  BY <1>1, AppendLinePreserves
<1>2. ASSUME NEW c \in Caller, NEW list \in Lists, FindsFresh(c, list) PROVE IInv'
  BY <1>2, FindsFreshPreserves
<1>3. ASSUME NEW c \in Caller, NEW list \in Lists, NEW f \in Filters,
             ChoosesRefresh(c, list, f) \/ ChoosesBuild(c, list, f) \/ CallBuild(c, list, f)
      PROVE  IInv'
  BY <1>3, ChoosesRefreshPreserves, StartsPreserves
<1>4. ASSUME NEW c \in Caller, CallOpen(c) PROVE IInv'
  BY <1>4, CallOpenPreserves
<1>5. ASSUME NEW c \in Caller, CallerStep(c) PROVE IInv'
  BY <1>5, StatSourcesPreserves, ScanSourcePreserves, PublishEntriesPreserves,
     PublishSamplesPreserves, PublishSourcesPreserves, EndsPreserves, OpensPreserves
     DEF CallerStep
<1>6. ASSUME NEW c \in Caller, BuildFails(c) \/ Close(c) PROVE IInv'
  BY <1>6, EndsPreserves
<1>7. CASE Crash
  BY <1>7, CrashPreserves
<1>8. CASE UNCHANGED vars
  <2>1. UNCHANGED <<content, sources, lock, pc, call, view, clean>>
    BY <1>8 DEF vars, files, ghosts
  <2>2. Typed' /\ OneBuilder' /\ IdleForgets' /\ CleanIsFresh'
    BY <2>1 DEF IInv, Typed, OneBuilder, IdleForgets, CleanIsFresh
  <2>3. RecordSeen' /\ BuildAhead'
    BY <2>1 DEF IInv, RecordSeen, BuildAhead, Seen, Size, Written
  <2> QED
    BY <2>2, <2>3 DEF IInv
<1> QED
  BY <1>1, <1>2, <1>3, <1>4, <1>5, <1>6, <1>7, <1>8 DEF Next

\* The strengthened invariant, from which the results below follow.
THEOREM Invariance == Spec => []IInv
BY InitIInv, StepIInv, PTL DEF Spec

\* However many callers build, fail and crash, in whatever order: the record never
\* goes back to an older state of the same sources (sortedindex.go lockIndexPath).
THEOREM RecordStaysNew == Spec => RecordNeverReverts
<1>1. ASSUME IInv, [Next]_vars
      PROVE  [sources # NoFile /\ PathsOf(sources') = PathsOf(sources) =>
                \A i \in DOMAIN sources : sources'[i].size >= sources[i].size]_sources
  <2>1. CASE UNCHANGED sources
    BY <2>1
  <2>2. ASSUME NEW c \in Caller, PublishSources(c), sources # NoFile,
               PathsOf(sources') = PathsOf(sources), NEW i \in DOMAIN sources
        PROVE  sources'[i].size >= sources[i].size
    <3>1. sources' = call[c].stats /\ pc[c] \in Building
      BY <2>2 DEF PublishSources, Recorded, Building
    <3>2. NotOlder(sources', sources)
      BY <1>1, <2>2, <3>1 DEF IInv, BuildAhead
    <3>3. i \in DOMAIN sources' /\ sources'[i].path = sources[i].path
      BY <2>2 DEF PathsOf
    <3> QED
      BY <2>2, <3>2, <3>3 DEF NotOlder
  <2>3. UNCHANGED sources \/ \E c \in Caller : PublishSources(c)
    <3>1. ASSUME NEW c \in Caller, CallerStep(c)
          PROVE  UNCHANGED sources \/ PublishSources(c)
      BY <3>1 DEF CallerStep, StatSources, ScanSource, PublishEntries, PublishSparse,
         PublishBloom, OpenRecord, OpenFails, OpenEntries, OpenSparse, OpenBloom, files
    <3>2. ASSUME NEW c \in Caller, NEW list \in Lists, NEW f \in Filters,
                 ChoosesRefresh(c, list, f) \/ ChoosesBuild(c, list, f) \/ CallBuild(c, list, f)
          PROVE  UNCHANGED sources
      BY <3>2 DEF ChoosesRefresh, ChoosesBuild, CallBuild, files
    <3>3. ASSUME NEW c \in Caller, NEW list \in Lists, FindsFresh(c, list)
          PROVE  UNCHANGED sources
      BY <3>3 DEF FindsFresh, files
    <3>4. ASSUME NEW c \in Caller, BuildFails(c) \/ CallOpen(c) \/ Close(c)
          PROVE  UNCHANGED sources
      BY <3>4 DEF BuildFails, CallOpen, Close, files
    <3>5. ASSUME NEW p \in Path, NEW k \in Key, AppendLine(p, k) PROVE UNCHANGED sources
      BY <3>5 DEF AppendLine, files
    <3>6. ASSUME Crash \/ UNCHANGED vars PROVE UNCHANGED sources
      BY <3>6 DEF Crash, vars, files
    <3> QED
      BY <1>1, <3>1, <3>2, <3>3, <3>4, <3>5, <3>6 DEF Next
  <2> QED
    BY <2>1, <2>2, <2>3
<1> QED
  BY <1>1, Invariance, PTL DEF Spec, RecordNeverReverts

\* What EnsureFresh opened, undisturbed by another build, is of the sources it was asked
\* for and no older than they were when it looked.
THEOREM OpenedIsAsAsked == Spec => []OpenedAsAsked
<1>1. IInv => OpenedAsAsked
  <2> SUFFICES ASSUME IInv, NEW c \in clean, pc[c] = "done", call[c].op = "ensure"
               PROVE  AsAsked(view[c].record, call[c])
    BY DEF OpenedAsAsked
  <2>1. "done" # "open"
    OBVIOUS
  <2> QED
    BY <2>1 DEF IInv, CleanIsFresh
<1> QED
  BY <1>1, Invariance, PTL

\* Two builds of one index path never run at the same time.
THEOREM OneBuildAtATime ==
    Spec => [](\A c, d \in Caller : pc[c] \in Locked /\ pc[d] \in Locked => c = d)
<1>1. IInv => \A c, d \in Caller : pc[c] \in Locked /\ pc[d] \in Locked => c = d
  BY DEF IInv, OneBuilder
<1> QED
  BY <1>1, Invariance, PTL

-----------------------------------------------------------------------------
(* The merge. *)

Entry == [key : Key, file : Nat \ {0}, off : Nat \ {0}]

\* Finitely many entries, and no file and no line beyond some number.
Small(S) ==
    /\ S \subseteq Entry /\ IsFiniteSet(S)
    /\ \E n \in Nat : \A e \in S : e.file <= n /\ e.off <= n

LEMMA EntryIs ==
    ASSUME NEW e \in Entry
    PROVE  /\ e.key \in Key /\ e.key \in Int
           /\ e.file \in Nat /\ e.off \in Nat /\ e.file # 0 /\ e.off # 0
           /\ e = [key |-> e.key, file |-> e.file, off |-> e.off]
  BY KeyAssumption DEF Entry

LEMMA Better3 ==
    ASSUME NEW a \in Entry, NEW b \in Entry, NEW d \in Entry
    PROVE  /\ ~Better(a, b) /\ ~Better(b, a) /\ a.key = b.key => a = b
           /\ ~Better(a, b) /\ ~Better(b, d) => ~Better(a, d)
<1>1. /\ a.file \in Nat /\ a.off \in Nat /\ b.file \in Nat /\ b.off \in Nat
      /\ d.file \in Nat /\ d.off \in Nat
      /\ a = [key |-> a.key, file |-> a.file, off |-> a.off]
      /\ b = [key |-> b.key, file |-> b.file, off |-> b.off]
  BY EntryIs
<1> QED
  BY <1>1 DEF Better

\* Of the entries of a key in a small set one wins, and it is no worse than any.
LEMMA WinnerExists ==
    ASSUME NEW S, Small(S), NEW d \in S
    PROVE  \E e \in Winners(S) : e.key = d.key /\ ~Better(d, e)
<1> DEFINE Same == { e \in S : e.key = d.key }
           Fs == { e.file : e \in Same }
<1>1. PICK n \in Nat : \A e \in S : e.file <= n /\ e.off <= n
  BY DEF Small
<1>2. \A e \in S : /\ e \in Entry /\ e.file \in Nat /\ e.off \in Nat
                   /\ e.file \in 0 .. n /\ e.off \in 0 .. n
  <2>1. S \subseteq Entry
    BY DEF Small
  <2> QED
    BY <1>1, <2>1, EntryIs
<1>3. Fs \in SUBSET (0 .. n) /\ Fs # {}
  BY <1>2
<1>4. PICK f \in Fs : \A g \in Fs : f >= g
  <2> HIDE DEF Fs
  <2> QED
    BY <1>1, <1>3, MaxExists
<1> DEFINE Latest == { e \in Same : e.file = f }
           Os == { e.off : e \in Latest }
<1>5. Os \in SUBSET (0 .. n) /\ Os # {}
  BY <1>2, <1>4
<1>6. PICK o \in Os : \A g \in Os : o >= g
  <2> HIDE DEF Os
  <2> QED
    BY <1>1, <1>5, MaxExists
<1>7. PICK e \in Latest : e.off = o
  BY <1>6
<1>8. \A c \in Same : ~Better(c, e)
  <2> SUFFICES ASSUME NEW c \in Same, Better(c, e) PROVE FALSE
    OBVIOUS
  <2>1. c \in S /\ e \in S /\ c.file <= e.file /\ (c.file = e.file => c.off <= e.off)
    BY <1>4, <1>6, <1>7, <1>2
  <2> QED
    BY <2>1, <1>2 DEF Better
<1>9. e \in S /\ e.key = d.key /\ d \in Same
  BY <1>7
<1> QED
  BY <1>8, <1>9 DEF Winners

LEMMA WinnersAre ==
    ASSUME NEW S, Small(S)
    PROVE  /\ Small(Winners(S)) /\ Winners(S) \subseteq S
           /\ \A d, e \in Winners(S) : d.key = e.key => d = e
<1>1. Winners(S) \subseteq S
  BY DEF Winners
<1>2. Small(Winners(S))
  BY <1>1, FS_Subset DEF Small
<1>3. ASSUME NEW d \in Winners(S), NEW e \in Winners(S), d.key = e.key PROVE d = e
  <2>1. d \in Entry /\ e \in Entry
    BY <1>1 DEF Small
  <2>2. ~Better(d, e) /\ ~Better(e, d)
    BY <1>3 DEF Winners
  <2> QED
    BY <1>3, <2>1, <2>2, Better3
<1> QED
  BY <1>1, <1>2, <1>3

Ascending(s) ==
    /\ s \in Seq(Entry) /\ Small(Range(s))
    /\ \A i, j \in DOMAIN s : i < j => s[i].key < s[j].key

Rank(W, e) == Cardinality({ d \in W : d.key < e.key })

\* Entries of different keys have different ranks, and no rank is left out.
LEMMA RanksAre ==
    ASSUME NEW W, Small(W), \A d, e \in W : d.key = e.key => d = e
    PROVE  /\ Cardinality(W) \in Nat
           /\ \A e \in W : Rank(W, e) \in 0 .. Cardinality(W) - 1
           /\ \A d, e \in W : d.key < e.key => Rank(W, d) < Rank(W, e)
           /\ \A r \in 0 .. Cardinality(W) - 1 : \E e \in W : Rank(W, e) = r
<1> DEFINE Lower(e) == { d \in W : d.key < e.key }
           n == Cardinality(W)
<1>1. IsFiniteSet(W) /\ n \in Nat /\ \A e \in W : e.key \in Int
  BY FS_CardinalityType, EntryIs DEF Small
<1>2. ASSUME NEW e \in W
      PROVE  IsFiniteSet(Lower(e)) /\ Rank(W, e) = Cardinality(Lower(e)) /\ Rank(W, e) \in Nat
  <2>1. IsFiniteSet(Lower(e))
    BY <1>1, FS_Subset
  <2>2. Rank(W, e) = Cardinality(Lower(e))
    BY DEF Rank
  <2> QED
    BY <2>1, <2>2, FS_CardinalityType
<1>3. ASSUME NEW e \in W
      PROVE  Cardinality(Lower(e) \cup {e}) = Rank(W, e) + 1
  <2>1. e \notin Lower(e)
    BY <1>1
  <2> HIDE DEF Lower
  <2> QED
    BY <1>2, <2>1, FS_AddElement
<1>4. ASSUME NEW e \in W
      PROVE  Rank(W, e) \in 0 .. n - 1
  <2>1. Lower(e) \cup {e} \subseteq W
    OBVIOUS
  <2>2. Cardinality(Lower(e) \cup {e}) <= n
    BY <1>1, <2>1, FS_Subset
  <2>3. Rank(W, e) + 1 <= n /\ Rank(W, e) \in Nat /\ n \in Nat
    BY <1>1, <1>2, <1>3, <2>2
  <2> HIDE DEF n
  <2> QED
    BY <2>3
<1>5. ASSUME NEW d \in W, NEW e \in W, d.key < e.key
      PROVE  Rank(W, d) < Rank(W, e)
  <2>1. Lower(d) \cup {d} \subseteq Lower(e)
    BY <1>1, <1>5
  <2>2. Cardinality(Lower(d) \cup {d}) <= Cardinality(Lower(e))
    BY <1>2, <2>1, FS_Subset
  <2>3. Rank(W, d) \in Nat /\ Rank(W, e) \in Nat
    BY <1>2
  <2>4. Cardinality(Lower(d) \cup {d}) = Rank(W, d) + 1 /\ Cardinality(Lower(e)) = Rank(W, e)
    BY <1>2, <1>3
  <2> HIDE DEF Lower
  <2> QED
    BY <2>2, <2>3, <2>4
<1> DEFINE R == 0 .. n - 1
           f == [e \in W |-> Rank(W, e)]
<1>6. f \in Injection(W, R)
  <2>1. f \in [W -> R]
    BY <1>4
  <2>2. ASSUME NEW d \in W, NEW e \in W, f[d] = f[e]
        PROVE  d = e
    <3>1. Rank(W, d) = Rank(W, e) /\ Rank(W, d) \in Nat
      BY <1>2, <2>2
    <3>2. d.key \in Int /\ e.key \in Int
      BY <1>1
    <3>3. ~(d.key < e.key) /\ ~(e.key < d.key)
      BY <1>5, <3>1
    <3> QED
      BY <3>2, <3>3
  <2> QED
    BY <2>1, <2>2 DEF Injection, IsInjective
<1>7. IsFiniteSet(R) /\ Cardinality(R) = n
  <2>1. 0 \in Int /\ n - 1 \in Int
    BY <1>1
  <2>2. IsFiniteSet(R) /\ Cardinality(R) = IF 0 > n - 1 THEN 0 ELSE n - 1 - 0 + 1
    BY <2>1, FS_Interval
  <2> QED
    BY <1>1, <2>2
<1> HIDE DEF R, f, n
<1>8. f \in Surjection(W, R)
  BY <1>6, <1>7, FS_Injection DEF n
<1>9. ASSUME NEW r \in R PROVE \E e \in W : Rank(W, e) = r
  BY <1>8 DEF Surjection, f
<1> QED
  BY <1>1, <1>4, <1>5, <1>9 DEF R, n

\* mergeRuns: the winners, by key.
LEMMA MergedIs ==
    ASSUME NEW S, Small(S)
    PROVE  Ascending(Merged(S)) /\ Range(Merged(S)) = Winners(S)
<1> DEFINE W == Winners(S)
           n == Cardinality(W)
           s == Merged(S)
<1>1. Small(W) /\ \A d, e \in W : d.key = e.key => d = e
  BY WinnersAre
<1>2. s = [i \in 1 .. n |-> CHOOSE e \in W : Rank(W, e) = i - 1]
  BY DEF Merged, Rank
<1> HIDE DEF W, s
<1>3. /\ n \in Nat
      /\ \A e \in W : Rank(W, e) \in 0 .. n - 1
      /\ \A d, e \in W : d.key < e.key => Rank(W, d) < Rank(W, e)
      /\ \A r \in 0 .. n - 1 : \E e \in W : Rank(W, e) = r
  BY <1>1, RanksAre
<1> HIDE DEF n
<1>4. ASSUME NEW i \in 1 .. n
      PROVE  s[i] \in W /\ Rank(W, s[i]) = i - 1
  <2>1. i - 1 \in 0 .. n - 1
    BY <1>3
  <2> QED
    BY <1>2, <1>3, <2>1
<1>5. \A e \in W : e \in Entry /\ e.key \in Int
  BY <1>1, EntryIs DEF Small
<1>6. DOMAIN s = 1 .. n /\ s \in Seq(Entry)
  <2>1. \A i \in 1 .. n : s[i] \in Entry
    BY <1>4, <1>5
  <2> QED
    BY <1>2, <1>3, <2>1
<1>7. ASSUME NEW i \in 1 .. n, NEW j \in 1 .. n, i < j
      PROVE  s[i].key < s[j].key
  <2>1. /\ s[i] \in W /\ s[j] \in W /\ Rank(W, s[i]) = i - 1 /\ Rank(W, s[j]) = j - 1
        /\ s[i].key \in Int /\ s[j].key \in Int
    BY <1>4, <1>5
  <2>2. ~(s[j].key < s[i].key)
    BY <1>3, <1>7, <2>1
  <2>3. s[i].key # s[j].key
    BY <1>1, <1>3, <1>7, <2>1
  <2> QED
    BY <2>1, <2>2, <2>3
<1>8. Range(s) = W
  <2>1. ASSUME NEW e \in W PROVE \E i \in 1 .. n : s[i] = e
    <3> DEFINE i == Rank(W, e) + 1
    <3>1. i \in 1 .. n /\ i - 1 = Rank(W, e)
      BY <1>3
    <3>2. s[i] \in W /\ Rank(W, s[i]) = Rank(W, e)
      BY <1>4, <3>1
    <3>3. s[i].key \in Int /\ e.key \in Int /\ Rank(W, e) \in Int
      BY <1>3, <1>5, <3>2
    <3>4. ~(s[i].key < e.key) /\ ~(e.key < s[i].key)
      BY <1>3, <3>2, <3>3
    <3>5. s[i] = e
      BY <1>1, <3>2, <3>3, <3>4
    <3> QED
      BY <3>1, <3>5
  <2> QED
    BY <1>4, <1>6, <2>1 DEF Range
<1> QED
  BY <1>1, <1>6, <1>7, <1>8 DEF Ascending, W, s

-----------------------------------------------------------------------------
(* The strengthened invariant of the files. *)

CallType ==
    [op : {"none", "ensure", "build"}, list : Seq(Path), filter : BOOLEAN, stats : Stats,
     base : Nat, scanned : Nat, runs : SUBSET Entry]

IsView(v) == v = [record |-> v.record, entries |-> v.entries, sparse |-> v.sparse, bloom |-> v.bloom]

Shaped ==
    /\ \A c \in Caller : call[c] \in CallType /\ IsView(view[c])
    /\ sparse = NoFile \/ sparse \subseteq [key : Key, at : Nat \ {0}]
    /\ bloom = NoFile \/ bloom \subseteq Key
    /\ torn \subseteq Lists
    /\ faults \in 0 .. MaxFaults
    /\ lock \in Caller => pc[lock] \in Locked

\* All calls ask for a filter, or none does.
OneFilter == \A f, g \in Filters : f = g

FilterOK(s, b) == b = NoFile \/ FilterOf(s) \subseteq b

\* An entry is a line of the source that a list names for it.
IsLine(e, list) ==
    /\ e.file \in DOMAIN list /\ list[e.file] \in Written
    /\ e.off \in DOMAIN content[list[e.file]]
    /\ content[list[e.file]][e.off] = e.key

\* No line comes after all entries of its key.
Covers(S, stats) ==
    \A d \in LinesOf(stats) : \E e \in S : e.key = d.key /\ ~Better(d, e)

\* An index as one whole build leaves it.
Whole(v) ==
    /\ v.record \in Stats /\ Seen(v.record)
    /\ Ascending(v.entries)
    /\ Covers(Range(v.entries), v.record)
    /\ \A e \in Range(v.entries) : IsLine(e, PathsOf(v.record))
    /\ v.sparse = Sample(v.entries, SparseInterval)
    /\ OneFilter => FilterOK(v.entries, v.bloom)

\* Every list in a set goes on where the recorded one ends.
Extend(lists) == \A list \in lists : IsPrefix(PathsOf(sources), list)

\* The entries are lines of the recorded sources, or of those of a build that published
\* them but not their record; and none of a recorded line is lost, unless such a build
\* was of other sources.
OnDisk ==
    /\ sidx = NoFile \/ Ascending(sidx)
    /\ (\A f \in Filters : ~f) => bloom = NoFile
    /\ sources # NoFile =>
          /\ Ascending(sidx)
          /\ Extend(torn) => Covers(Range(sidx), sources)
          /\ \A e \in Range(sidx) : \E list \in torn \cup {PathsOf(sources)} : IsLine(e, list)
          /\ torn = {} => (sparse = Sample(sidx, SparseInterval) /\ (OneFilter => FilterOK(sidx, bloom)))

\* Where a build is, and what it has done.
BuildIs(place, r) ==
    /\ place = "stat" => r.base = 0 /\ r.scanned = 0 /\ r.runs = {}
    /\ place \in Locked => AllThere(r.list) /\ r.filter \in Filters /\ r.list \in Lists
    /\ place \in Building =>
          (r.base > 0 => sources # NoFile /\ r.base = Len(sources) /\ IsStrictPrefix(sources, r.stats))
    /\ place \in {"scan", "merge"} =>
          /\ r.base <= r.scanned /\ r.scanned <= Len(r.list)
          /\ place = "merge" => r.scanned = Len(r.list)
          /\ Small(r.runs)
          /\ \A e \in r.runs : IsLine(e, r.list)
          /\ \A d \in LinesOf(r.stats) : (r.base < d.file /\ d.file <= r.scanned) => d \in r.runs
    /\ place \in {"sparse", "bloom", "sources"} =>
          /\ Ascending(sidx)
          /\ r.list \in torn
          /\ r.base = 0 => (torn = {r.list} /\ \A e \in Range(sidx) : IsLine(e, r.list))
          /\ (r.base = 0 \/ Extend(torn)) => Covers(Range(sidx), r.stats)
    /\ place \in {"bloom", "sources"} => sparse = Sample(sidx, SparseInterval)
    /\ place = "sources" => (OneFilter => FilterOK(sidx, bloom))

Builds == \A c \in Caller : BuildIs(pc[c], call[c])

\* The files a caller opens, when nobody replaced one since it decided.
CleanIs(place, v) ==
    /\ place \in Opening => torn = {}
    /\ place \in Opening \ {"open"} => sources # NoFile /\ v.record = sources
    /\ place \in {"open_sparse", "open_bloom"} => v.entries = sidx
    /\ place = "open_bloom" => v.sparse = sparse
    /\ place = "done" => Whole(v)

CleanViews == \A c \in clean : CleanIs(pc[c], view[c])

WInv == IInv /\ Shaped /\ OnDisk /\ Builds /\ CleanViews

-----------------------------------------------------------------------------
(* The search. *)

LEMMA AscendingIs ==
    ASSUME NEW s, Ascending(s)
    PROVE  /\ s \in Seq(Entry) /\ Len(s) \in Nat /\ DOMAIN s = 1 .. Len(s)
           /\ \A i \in DOMAIN s : s[i] \in Entry /\ s[i].key \in Key /\ s[i].key \in Int
           /\ \A i, j \in DOMAIN s : i < j => s[i].key < s[j].key
           /\ Range(s) = { s[i] : i \in DOMAIN s }
           /\ \A d, e \in Range(s) : d.key = e.key => d = e
<1>1. s \in Seq(Entry) /\ Len(s) \in Nat /\ DOMAIN s = 1 .. Len(s)
  BY DEF Ascending
<1>2. \A i \in DOMAIN s : s[i] \in Entry
  BY <1>1
<1>3. \A i \in DOMAIN s : s[i].key \in Key /\ s[i].key \in Int
  BY <1>2, EntryIs
<1>4. \A i, j \in DOMAIN s : i < j => s[i].key < s[j].key
  BY DEF Ascending
<1>5. Range(s) = { s[i] : i \in DOMAIN s }
  BY DEF Range
<1>6. ASSUME NEW i \in DOMAIN s, NEW j \in DOMAIN s, s[i].key = s[j].key PROVE s[i] = s[j]
  <2>1. ~(i < j) /\ ~(j < i)
    BY <1>3, <1>4, <1>6
  <2>2. i \in Nat /\ j \in Nat
    BY <1>1
  <2> QED
    BY <2>1, <2>2
<1> QED
  BY <1>1, <1>2, <1>3, <1>4, <1>5, <1>6

\* The scan for a key starts behind no entry that is not before it.
LEMMA FloorIs ==
    ASSUME NEW v, Ascending(v.entries), NEW n \in Nat \ {0}, v.sparse = Sample(v.entries, n),
           NEW k \in Int
    PROVE  /\ FloorOffset(v, k) \in Nat \ {0}
           /\ \A i \in DOMAIN v.entries : i < FloorOffset(v, k) => v.entries[i].key < k
<1> DEFINE s == v.entries
           Ats == { x.at : x \in { y \in v.sparse : y.key <= k } } \cup {1}
           m == Len(s) + 1
<1>1. /\ Len(s) \in Nat /\ DOMAIN s = 1 .. Len(s)
      /\ \A i \in DOMAIN s : s[i].key \in Int
      /\ \A i, j \in DOMAIN s : i < j => s[i].key < s[j].key
  BY AscendingIs
<1>2. ASSUME NEW a \in Ats PROVE a \in 1 .. m /\ (a = 1 \/ (a \in DOMAIN s /\ s[a].key <= k))
  <2>1. CASE a = 1
    BY <1>1, <2>1
  <2>2. CASE a # 1
    <3>1. PICK x \in v.sparse : x.key <= k /\ a = x.at
      BY <2>2
    <3>2. PICK i \in DOMAIN s : x = [key |-> s[i].key, at |-> i]
      BY <3>1 DEF Sample
    <3>3. a = i /\ s[i].key <= k
      BY <3>1, <3>2
    <3> QED
      BY <1>1, <3>3
  <2> QED
    BY <2>1, <2>2
<1>3. m \in Nat /\ Ats \in SUBSET (0 .. m) /\ Ats # {}
  <2>1. m \in Nat /\ 1 \in Ats
    BY <1>1
  <2>2. \A a \in Ats : a \in 0 .. m
    <3> HIDE DEF Ats, m
    <3> QED
      BY <1>2, <2>1
  <2> QED
    BY <2>1, <2>2
<1>4. FloorOffset(v, k) = Max(Ats)
  BY DEF FloorOffset
<1> HIDE DEF Ats, m
<1>5. Max(Ats) \in Ats
  BY <1>3, MaxExists DEF Max
<1>6. ASSUME NEW i \in DOMAIN s, i < Max(Ats) PROVE s[i].key < k
  <2>1. i \in Nat /\ i >= 1 /\ Max(Ats) # 1
    BY <1>1, <1>6
  <2>2. Max(Ats) \in DOMAIN s /\ s[Max(Ats)].key <= k
    BY <1>2, <1>5, <2>1
  <2>3. s[i].key < s[Max(Ats)].key
    BY <1>1, <1>6, <2>2
  <2>4. s[i].key \in Int /\ s[Max(Ats)].key \in Int
    BY <1>1, <2>2
  <2> QED
    BY <2>2, <2>3, <2>4
<1>7. Max(Ats) \in Nat \ {0}
  <2>1. Max(Ats) \in 1 .. m
    BY <1>2, <1>5
  <2> QED
    BY <1>3, <2>1
<1> QED
  BY <1>4, <1>6, <1>7

\* Get finds what there is for a key, unless the filter denies it.
LEMMA FoundIs ==
    ASSUME NEW v, Ascending(v.entries), NEW n \in Nat \ {0}, v.sparse = Sample(v.entries, n),
           NEW k \in Int
    PROVE  Found(v, k) = IF MayContain(v.bloom, k)
                         THEN { e \in Range(v.entries) : e.key = k } ELSE {}
<1> DEFINE s == v.entries
           F == FloorOffset(v, k)
           Js == { j \in F .. Len(s) : s[j].key = k /\ \A m \in F .. j - 1 : s[m].key < k }
<1>1. F \in Nat \ {0} /\ \A i \in DOMAIN s : i < F => s[i].key < k
  BY FloorIs
<1>2. /\ Len(s) \in Nat /\ DOMAIN s = 1 .. Len(s)
      /\ \A i \in DOMAIN s : s[i].key \in Int
      /\ \A i, j \in DOMAIN s : i < j => s[i].key < s[j].key
      /\ Range(s) = { s[i] : i \in DOMAIN s }
  BY AscendingIs
<1>3. Found(v, k) = IF MayContain(v.bloom, k) THEN { s[i] : i \in Js } ELSE {}
  BY DEF Found
<1> HIDE DEF F, s
<1>4. ASSUME NEW j PROVE j \in Js <=> j \in DOMAIN s /\ s[j].key = k
  <2>1. CASE j \in Js
    BY <1>1, <1>2, <2>1
  <2>2. CASE j \in DOMAIN s /\ s[j].key = k
    <3>1. j \in Nat /\ ~(j < F) /\ j <= Len(s)
      BY <1>1, <1>2, <2>2
    <3>2. \A m \in F .. j - 1 : m \in DOMAIN s /\ m < j
      BY <1>1, <1>2, <3>1
    <3>3. \A m \in F .. j - 1 : s[m].key < k
      BY <1>2, <2>2, <3>2
    <3> QED
      BY <1>1, <1>2, <2>2, <3>1, <3>3
  <2> QED
    BY <2>1, <2>2
<1> HIDE DEF Js
<1>5. { s[i] : i \in Js } = { e \in Range(s) : e.key = k }
  BY <1>2, <1>4
<1> QED
  BY <1>3, <1>5 DEF s

LEMMA ScannedIs ==
    ASSUME NEW v, Ascending(v.entries), NEW n \in Nat \ {0}, v.sparse = Sample(v.entries, n),
           NEW k \in Int, NEW last \in Int
    PROVE  Scanned(v, k, last) = { e \in Range(v.entries) : k <= e.key /\ e.key <= last }
<1> DEFINE s == v.entries
           F == FloorOffset(v, k)
           Js == { j \in F .. Len(s) : s[j].key >= k /\ \A m \in F .. j : s[m].key <= last }
<1>1. F \in Nat \ {0} /\ \A i \in DOMAIN s : i < F => s[i].key < k
  BY FloorIs
<1>2. /\ Len(s) \in Nat /\ DOMAIN s = 1 .. Len(s)
      /\ \A i \in DOMAIN s : s[i].key \in Int
      /\ \A i, j \in DOMAIN s : i < j => s[i].key < s[j].key
      /\ Range(s) = { s[i] : i \in DOMAIN s }
  BY AscendingIs
<1>3. Scanned(v, k, last) = { s[i] : i \in Js }
  BY DEF Scanned
<1> HIDE DEF F, s
<1>4. ASSUME NEW j PROVE j \in Js <=> j \in DOMAIN s /\ k <= s[j].key /\ s[j].key <= last
  <2>1. CASE j \in Js
    <3>1. j \in F .. Len(s) /\ s[j].key >= k /\ \A m \in F .. j : s[m].key <= last
      BY <2>1
    <3>2. j \in F .. j /\ j \in DOMAIN s
      BY <1>1, <1>2, <3>1
    <3>3. s[j].key \in Int
      BY <1>2, <3>2
    <3> QED
      BY <3>1, <3>2, <3>3
  <2>2. CASE j \in DOMAIN s /\ k <= s[j].key /\ s[j].key <= last
    <3>1. j \in Nat /\ j <= Len(s) /\ s[j].key \in Int
      BY <1>2, <2>2
    <3>2. ~(j < F)
      BY <1>1, <2>2, <3>1
    <3>3. \A m \in F .. j : m \in DOMAIN s /\ (m < j \/ m = j)
      BY <1>1, <1>2, <3>1
    <3>4. \A m \in F .. j : s[m].key \in Int /\ s[m].key <= s[j].key
      BY <1>2, <2>2, <3>1, <3>3
    <3>5. \A m \in F .. j : s[m].key <= last
      BY <2>2, <3>1, <3>4
    <3>6. j \in F .. Len(s) /\ s[j].key >= k
      BY <1>1, <1>2, <2>2, <3>1, <3>2
    <3> QED
      BY <2>2, <3>5, <3>6
  <2> QED
    BY <2>1, <2>2
<1> HIDE DEF Js
<1>5. { s[i] : i \in Js } = { e \in Range(s) : k <= e.key /\ e.key <= last }
  BY <1>2, <1>4
<1> QED
  BY <1>3, <1>5 DEF s

-----------------------------------------------------------------------------
(* What whole files answer. *)

LEMMA AnswersAre ==
    ASSUME OneFilter, NEW v, Whole(v)
    PROVE  AnswersRight(v)
<1> DEFINE s == v.entries
           Of(k) == { e \in Range(s) : e.key = k }
<1>1. /\ Ascending(s) /\ v.sparse = Sample(s, SparseInterval) /\ FilterOK(s, v.bloom)
      /\ Covers(Range(s), v.record) /\ \A e \in Range(s) : IsLine(e, PathsOf(v.record))
  BY DEF Whole
<1>2. /\ \A e \in Range(s) : e.key \in Key
      /\ \A d, e \in Range(s) : d.key = e.key => d = e
  BY <1>1, AscendingIs
<1>3. \A k \in Key : k \in Int
  BY KeyAssumption
<1>4. SparseInterval \in Nat \ {0}
  BY BoundAssumption
<1>5. ASSUME NEW k \in Key PROVE Found(v, k) = Of(k)
  <2>1. Found(v, k) = IF MayContain(v.bloom, k) THEN Of(k) ELSE {}
    BY <1>1, <1>3, <1>4, FoundIs
  <2>2. ~MayContain(v.bloom, k) => Of(k) = {}
    BY <1>1 DEF MayContain, FilterOK, FilterOf
  <2> QED
    BY <2>1, <2>2
<1> SUFFICES ASSUME NEW k \in Key
             PROVE  LET known == { e \in LinesOf(v.record) : e.key = k } IN
                    /\ known # {} => Found(v, k) # {}
                    /\ \A e \in Found(v, k) :
                          /\ e.file \in DOMAIN v.record
                          /\ e.off \in DOMAIN content[v.record[e.file].path]
                          /\ content[v.record[e.file].path][e.off] = k
                          /\ \A d \in known : ~Better(d, e)
                    /\ \A last \in Key :
                          Scanned(v, k, last) =
                            UNION { Found(v, m) : m \in { x \in Key : k <= x /\ x <= last } }
  BY DEF AnswersRight
<1> DEFINE known == { e \in LinesOf(v.record) : e.key = k }
<1> HIDE DEF s
<1>6. known # {} => Found(v, k) # {}
  BY <1>1, <1>5 DEF Covers
<1>7. ASSUME NEW e \in Found(v, k)
      PROVE  /\ e.file \in DOMAIN v.record
             /\ e.off \in DOMAIN content[v.record[e.file].path]
             /\ content[v.record[e.file].path][e.off] = k
             /\ \A d \in known : ~Better(d, e)
  <2>1. e \in Range(s) /\ e.key = k
    BY <1>5, <1>7
  <2>2. IsLine(e, PathsOf(v.record))
    BY <1>1, <2>1
  <2>3. ASSUME NEW d \in known PROVE ~Better(d, e)
    <3>1. PICK f \in Range(s) : f.key = d.key /\ ~Better(d, f)
      BY <1>1 DEF Covers
    <3>2. f = e
      BY <1>2, <2>1, <3>1
    <3> QED
      BY <3>1, <3>2
  <2> QED
    BY <2>1, <2>2, <2>3 DEF IsLine, PathsOf
<1>8. ASSUME NEW last \in Key
      PROVE  Scanned(v, k, last) =
                UNION { Found(v, m) : m \in { x \in Key : k <= x /\ x <= last } }
  <2>1. Scanned(v, k, last) = { e \in Range(s) : k <= e.key /\ e.key <= last }
    BY <1>1, <1>3, <1>4, ScannedIs DEF s
  <2>2. UNION { Found(v, m) : m \in { x \in Key : k <= x /\ x <= last } }
          = UNION { Of(m) : m \in { x \in Key : k <= x /\ x <= last } }
    BY <1>5
  <2>3. UNION { Of(m) : m \in { x \in Key : k <= x /\ x <= last } }
          = { e \in Range(s) : k <= e.key /\ e.key <= last }
    BY <1>2
  <2> QED
    BY <2>1, <2>2, <2>3
<1> QED
  BY <1>6, <1>7, <1>8

-----------------------------------------------------------------------------
(* Lines. *)

LEMMA LineIs ==
    ASSUME NEW stats, NEW d
    PROVE  d \in LinesOf(stats) <=>
             \E i \in DOMAIN stats : \E n \in 1 .. stats[i].size :
                 d = [key |-> content[stats[i].path][n], file |-> i, off |-> n]
  BY DEF LinesOf

\* Sizes that were read cover lines that are there.
LEMMA LinesThere ==
    ASSUME Typed, NEW stats \in Stats, Seen(stats), NEW i \in DOMAIN stats,
           NEW n \in 1 .. stats[i].size
    PROVE  /\ stats[i].path \in Path /\ stats[i].path \in Written
           /\ content[stats[i].path] \in Seq(Key) /\ n \in DOMAIN content[stats[i].path]
           /\ content[stats[i].path][n] \in Key
           /\ i \in Nat \ {0} /\ n \in Nat \ {0}
<1>1. stats[i].path \in Path /\ stats[i].size \in Nat
  BY StatAt
<1>2. n \in Nat \ {0} /\ n <= stats[i].size
  BY <1>1
<1>3. stats[i].size <= Size(stats[i].path) /\ Size(stats[i].path) \in Nat
  BY <1>1, SizeIsNat DEF Seen
<1>4. stats[i].path \in Written /\ n <= Len(content[stats[i].path])
  <2>1. Size(stats[i].path) # 0 /\ n <= Size(stats[i].path)
    BY <1>1, <1>2, <1>3
  <2> QED
    BY <2>1 DEF Size
<1>5. content[stats[i].path] \in Seq(Key)
  BY <1>1, <1>4 DEF Typed, Written
<1>6. n \in DOMAIN content[stats[i].path]
  BY <1>2, <1>4, <1>5
<1>7. content[stats[i].path][n] \in Key
  BY <1>5, <1>6
<1>8. i \in Nat \ {0}
  <2>1. stats \in Seq(Stat)
    BY DEF Stats, Stat
  <2> QED
    BY <2>1
<1> QED
  BY <1>1, <1>2, <1>4, <1>5, <1>6, <1>7, <1>8

\* A line that is there stays what it is.
LEMMA LinesStay ==
    ASSUME Typed, NEW p \in Path, NEW k \in Key, AppendLine(p, k), NEW q \in Written
    PROVE  /\ q \in Written'
           /\ \A n \in DOMAIN content[q] : n \in DOMAIN content'[q] /\ content'[q][n] = content[q][n]
<1>1. /\ q \in Path /\ content[q] # NoFile /\ content[q] \in Seq(Key)
      /\ content \in [Path -> Seq(Key) \cup {NoFile}]
  BY DEF Written, Typed
<1>2. content' = [content EXCEPT ![p] = IF content[p] = NoFile THEN <<k>> ELSE Append(content[p], k)]
  BY DEF AppendLine
<1>3. content' \in [Path -> Seq(Key) \cup {NoFile}]
  BY Growth
<1>4. CASE q # p
  BY <1>1, <1>2, <1>4 DEF Written
<1>5. CASE q = p
  <2>1. content'[q] = Append(content[q], k)
    BY <1>1, <1>2, <1>5
  <2>2. Append(content[q], k) \in Seq(Key)
    BY <1>1
  <2>3. content'[q] # NoFile
    BY <2>1, <2>2, FileAssumption
  <2>4. \A n \in DOMAIN content[q] :
           n \in DOMAIN Append(content[q], k) /\ Append(content[q], k)[n] = content[q][n]
    BY <1>1
  <2> QED
    BY <1>1, <2>1, <2>3, <2>4 DEF Written
<1> QED
  BY <1>4, <1>5

\* So a whole index stays whole, and an unfinished one as far as it is.
LEMMA GrowthKeeps ==
    ASSUME Typed, NEW p \in Path, NEW k \in Key, AppendLine(p, k)
    PROVE  /\ \A e, list : IsLine(e, list) => IsLine(e, list)'
           /\ \A stats \in Stats : Seen(stats) => LinesOf(stats)' = LinesOf(stats)
           /\ \A v : Whole(v) => Whole(v)'
<1>1. ASSUME NEW e, NEW list, IsLine(e, list) PROVE IsLine(e, list)'
  <2>1. list[e.file] \in Written
    BY <1>1 DEF IsLine
  <2>2. /\ list[e.file] \in Written'
        /\ \A n \in DOMAIN content[list[e.file]] :
              n \in DOMAIN content'[list[e.file]] /\ content'[list[e.file]][n] = content[list[e.file]][n]
    BY <2>1, LinesStay
  <2> QED
    BY <1>1, <2>2 DEF IsLine
<1>2. ASSUME NEW stats \in Stats, Seen(stats) PROVE LinesOf(stats)' = LinesOf(stats)
  <2>1. ASSUME NEW i \in DOMAIN stats, NEW n \in 1 .. stats[i].size
        PROVE  content'[stats[i].path][n] = content[stats[i].path][n]
    <3>1. stats[i].path \in Written /\ n \in DOMAIN content[stats[i].path]
      BY <1>2, LinesThere
    <3> QED
      BY <3>1, LinesStay
  <2> QED
    BY <2>1 DEF LinesOf
<1>3. ASSUME NEW v, Whole(v) PROVE Whole(v)'
  <2>1. v.record \in Stats /\ Seen(v.record)
    BY <1>3 DEF Whole
  <2>2. Seen(v.record)'
    BY <2>1, SeenStays
  <2>3. Covers(Range(v.entries), v.record)'
    BY <1>2, <1>3, <2>1 DEF Whole, Covers
  <2>4. \A e \in Range(v.entries) : IsLine(e, PathsOf(v.record))'
    BY <1>1, <1>3 DEF Whole
  <2> QED
    BY <1>3, <2>1, <2>2, <2>3, <2>4 DEF Whole
<1> QED
  BY <1>1, <1>2, <1>3

-----------------------------------------------------------------------------
(* One caller moves, and neither a source nor a file of the index changes. *)

LEMMA SameLines ==
    ASSUME content' = content
    PROVE  /\ \A e, list : IsLine(e, list)' <=> IsLine(e, list)
           /\ \A stats : LinesOf(stats)' = LinesOf(stats)
           /\ \A S, stats : Covers(S, stats)' <=> Covers(S, stats)
           /\ \A list : AllThere(list)' <=> AllThere(list)
           /\ \A v : Whole(v)' <=> Whole(v)
<1>1. \A e, list : IsLine(e, list)' <=> IsLine(e, list)
  BY DEF IsLine, Written
<1>2. \A stats : LinesOf(stats)' = LinesOf(stats)
  BY DEF LinesOf
<1>3. \A S, stats : Covers(S, stats)' <=> Covers(S, stats)
  BY <1>2 DEF Covers
<1>4. \A list : AllThere(list)' <=> AllThere(list)
  BY DEF AllThere, Written
<1>5. \A stats : Seen(stats)' <=> Seen(stats)
  BY DEF Seen, Size, Written
<1>6. \A v : Whole(v)' <=> Whole(v)
  BY <1>1, <1>3, <1>5 DEF Whole
<1> QED
  BY <1>1, <1>2, <1>3, <1>4, <1>6

LEMMA SameFiles ==
    ASSUME UNCHANGED <<content, files, torn>>
    PROVE  /\ OnDisk => OnDisk'
           /\ \A place, r : BuildIs(place, r) => BuildIs(place, r)'
           /\ \A place, v : CleanIs(place, v) => CleanIs(place, v)'
<1>1. /\ sidx' = sidx /\ sparse' = sparse /\ bloom' = bloom /\ sources' = sources
      /\ torn' = torn /\ content' = content
  BY DEF files
<1>2. \A lists : Extend(lists)' <=> Extend(lists)
  BY <1>1 DEF Extend
<1>3. /\ \A e, list : IsLine(e, list)' <=> IsLine(e, list)
      /\ \A stats : LinesOf(stats)' = LinesOf(stats)
      /\ \A S, stats : Covers(S, stats)' <=> Covers(S, stats)
      /\ \A list : AllThere(list)' <=> AllThere(list)
      /\ \A v : Whole(v)' <=> Whole(v)
  BY <1>1, SameLines
<1>4. OnDisk => OnDisk'
  BY <1>1, <1>2, <1>3 DEF OnDisk
<1>5. ASSUME NEW place, NEW r, BuildIs(place, r) PROVE BuildIs(place, r)'
  BY <1>1, <1>2, <1>3, <1>5 DEF BuildIs
<1>6. ASSUME NEW place, NEW v, CleanIs(place, v) PROVE CleanIs(place, v)'
  BY <1>1, <1>3, <1>6 DEF CleanIs
<1> QED
  BY <1>4, <1>5, <1>6

LEMMA OneMovesOn ==
    ASSUME WInv, IInv', NEW c \in Caller, UNCHANGED <<content, files, torn>>,
           NEW place \in Places, NEW new \in CallType, NEW v, IsView(v),
           pc' = [pc EXCEPT ![c] = place],
           call' = [call EXCEPT ![c] = new],
           view' = [view EXCEPT ![c] = v],
           faults' \in 0 .. MaxFaults,
           lock' \in Caller => (IF lock' = c THEN place \in Locked ELSE lock' = lock),
           BuildIs(place, new),
           clean' \subseteq clean \cup {c},
           c \in clean' => CleanIs(place, v)
    PROVE  WInv'
<1>1. IInv /\ Shaped /\ OnDisk /\ Builds /\ CleanViews /\ Typed
  BY DEF WInv, IInv
<1>2. /\ \A d \in Caller : pc'[d] = IF d = c THEN place ELSE pc[d]
      /\ \A d \in Caller : call'[d] = IF d = c THEN new ELSE call[d]
      /\ \A d \in Caller : view'[d] = IF d = c THEN v ELSE view[d]
  BY <1>1 DEF Typed
<1>3. /\ OnDisk'
      /\ \A p, r : BuildIs(p, r) => BuildIs(p, r)'
      /\ \A p, w : CleanIs(p, w) => CleanIs(p, w)'
  BY <1>1, SameFiles
<1>4. Shaped'
  <2>1. \A d \in Caller : call'[d] \in CallType /\ IsView(view'[d])
    BY <1>1, <1>2 DEF Shaped
  <2>2. lock' \in Caller => pc'[lock'] \in Locked
    BY <1>1, <1>2 DEF Shaped
  <2> QED
    BY <1>1, <2>1, <2>2 DEF Shaped, files
<1>5. Builds'
  <2> SUFFICES ASSUME NEW d \in Caller PROVE BuildIs(pc[d], call[d])'
    BY DEF Builds
  <2>1. BuildIs(IF d = c THEN place ELSE pc[d], IF d = c THEN new ELSE call[d])
    BY <1>1 DEF Builds
  <2>2. BuildIs(pc'[d], call'[d])
    BY <1>2, <2>1
  <2> QED
    BY <1>3, <2>2 DEF BuildIs
<1>6. CleanViews'
  <2> SUFFICES ASSUME NEW d \in clean' PROVE CleanIs(pc[d], view[d])'
    BY DEF CleanViews
  <2>1. d \in Caller
    BY <1>1 DEF Typed
  <2>2. CleanIs(pc'[d], view'[d])
    <3>1. CASE d = c
      BY <1>2, <2>1, <3>1
    <3>2. CASE d # c
      <4>1. d \in clean
        BY <3>2
      <4> QED
        BY <1>1, <1>2, <2>1, <3>2, <4>1 DEF CleanViews
    <3> QED
      BY <3>1, <3>2
  <2> QED
    BY <1>3, <2>2 DEF CleanIs
<1> QED
  BY <1>3, <1>4, <1>5, <1>6 DEF WInv

-----------------------------------------------------------------------------
(* Prefixes, and what a scan reads. *)

LEMMA PrefixIs ==
    ASSUME NEW X, NEW s \in Seq(X), NEW t \in Seq(X)
    PROVE  IsPrefix(s, t) <=> Len(s) <= Len(t) /\ \A i \in DOMAIN s : s[i] = t[i]
<1> DEFINE n == Len(s)
<1>1. n \in Nat /\ Len(t) \in Nat /\ DOMAIN s = 1 .. n
  OBVIOUS
<1>2. ASSUME n <= Len(t)
      PROVE  SubSeq(s, 1, n) = SubSeq(t, 1, n) <=> \A i \in 1 .. n : s[i] = t[i]
  <2>1. SubSeq(s, 1, n) = [i \in 1 .. n |-> s[i]]
    BY <1>1
  <2>2. SubSeq(t, 1, n) = [i \in 1 .. n |-> t[i]]
    BY <1>1, <1>2
  <2> HIDE DEF n
  <2> QED
    BY <2>1, <2>2
<1> QED
  BY <1>1, <1>2 DEF IsPrefix

LEMMA PathsIs ==
    ASSUME NEW stats \in Stats
    PROVE  /\ PathsOf(stats) \in Seq(Path) /\ Len(PathsOf(stats)) = Len(stats) /\ Len(stats) \in Nat
           /\ DOMAIN PathsOf(stats) = 1 .. Len(stats) /\ DOMAIN stats = 1 .. Len(stats)
           /\ \A i \in DOMAIN stats : PathsOf(stats)[i] = stats[i].path
<1>1. Len(stats) \in Nat /\ DOMAIN stats = 1 .. Len(stats)
  BY DEF Stats
<1>2. \A i \in DOMAIN stats : stats[i].path \in Path
  BY StatAt
<1>3. PathsOf(stats) = [i \in 1 .. Len(stats) |-> stats[i].path]
  BY <1>1 DEF PathsOf
<1>4. PathsOf(stats) \in Seq(Path)
  BY <1>1, <1>2, <1>3
<1> QED
  BY <1>1, <1>3, <1>4

\* What a list goes on from is read the same there.
LEMMA StrictIs ==
    ASSUME NEW s \in Stats, NEW t \in Stats, IsStrictPrefix(s, t)
    PROVE  /\ Len(s) \in Nat /\ Len(s) <= Len(t) /\ DOMAIN s = 1 .. Len(s) /\ DOMAIN t = 1 .. Len(t)
           /\ \A i \in DOMAIN s : s[i] = t[i]
           /\ IsPrefix(PathsOf(s), PathsOf(t))
<1>1. s \in Seq(Stat) /\ t \in Seq(Stat)
  BY DEF Stats, Stat
<1>2. Len(s) \in Nat /\ Len(t) \in Nat /\ DOMAIN s = 1 .. Len(s) /\ DOMAIN t = 1 .. Len(t)
  BY <1>1
<1>3. Len(s) <= Len(t) /\ \A i \in DOMAIN s : s[i] = t[i]
  BY <1>1, PrefixIs DEF IsStrictPrefix
<1>4. \A i \in DOMAIN s : i \in DOMAIN t
  BY <1>2, <1>3
<1>5. IsPrefix(PathsOf(s), PathsOf(t))
  <2>1. /\ PathsOf(s) \in Seq(Path) /\ PathsOf(t) \in Seq(Path)
        /\ Len(PathsOf(s)) = Len(s) /\ Len(PathsOf(t)) = Len(t)
        /\ DOMAIN PathsOf(s) = DOMAIN s
        /\ \A i \in DOMAIN s : PathsOf(s)[i] = s[i].path
        /\ \A i \in DOMAIN t : PathsOf(t)[i] = t[i].path
    BY <1>2, PathsIs
  <2>2. \A i \in DOMAIN PathsOf(s) : PathsOf(s)[i] = PathsOf(t)[i]
    BY <1>3, <1>4, <2>1
  <2> QED
    BY <1>3, <2>1, <2>2, PrefixIs
<1> QED
  BY <1>2, <1>3, <1>5

LEMMA SmallEmpty == Small({})
  BY FS_EmptySet DEF Small

LEMMA SmallUnion ==
    ASSUME NEW S, Small(S), NEW T, Small(T)
    PROVE  Small(S \cup T)
<1>1. PICK m \in Nat : \A e \in S : e.file <= m /\ e.off <= m
  BY DEF Small
<1>2. PICK n \in Nat : \A e \in T : e.file <= n /\ e.off <= n
  BY DEF Small
<1>3. S \cup T \subseteq Entry /\ IsFiniteSet(S \cup T)
  BY FS_Union DEF Small
<1>4. \A e \in S \cup T : e.file \in Nat /\ e.off \in Nat
  BY <1>3, EntryIs
<1>5. m + n \in Nat /\ \A e \in S \cup T : e.file <= m + n /\ e.off <= m + n
  BY <1>1, <1>2, <1>4
<1> QED
  BY <1>3, <1>5 DEF Small

\* scanOneSource gives the lines that are there, each once.
LEMMA EntriesAre ==
    ASSUME Typed, NEW p \in Written, NEW i \in Nat \ {0}
    PROVE  /\ Small(EntriesOf(p, i))
           /\ \A e \in EntriesOf(p, i) :
                 e.file = i /\ e.off \in DOMAIN content[p] /\ content[p][e.off] = e.key
           /\ \A n \in DOMAIN content[p] : [key |-> content[p][n], file |-> i, off |-> n] \in EntriesOf(p, i)
<1> DEFINE D == DOMAIN content[p]
           f == [n \in D |-> [key |-> content[p][n], file |-> i, off |-> n]]
           l == Len(content[p])
<1>1. content[p] \in Seq(Key)
  BY DEF Typed, Written
<1>2. l \in Nat /\ D = 1 .. l /\ \A n \in D : content[p][n] \in Key
  BY <1>1
<1>3. EntriesOf(p, i) = { f[n] : n \in D }
  BY DEF EntriesOf
<1>4. \A n \in D : f[n] \in Entry /\ f[n].file = i /\ f[n].off = n /\ f[n].key = content[p][n]
  BY <1>2 DEF Entry
<1>5. IsFiniteSet(EntriesOf(p, i))
  <2>1. f \in Surjection(D, EntriesOf(p, i))
    BY <1>3 DEF Surjection
  <2>2. IsFiniteSet(D)
    <3>1. 1 \in Int /\ l \in Int
      BY <1>2
    <3> HIDE DEF l, D
    <3> QED
      BY <1>2, <3>1, FS_Interval
  <2> HIDE DEF f, D
  <2> QED
    BY <2>1, <2>2, FS_Surjection
<1>6. i + l \in Nat /\ \A e \in EntriesOf(p, i) : e.file <= i + l /\ e.off <= i + l
  <2> HIDE DEF l, f
  <2>1. \A n \in D : n \in Nat /\ n <= l
    BY <1>2
  <2> QED
    BY <1>2, <1>3, <1>4, <2>1
<1>7. EntriesOf(p, i) \subseteq Entry
  BY <1>3, <1>4
<1>8. Small(EntriesOf(p, i))
  BY <1>5, <1>6, <1>7 DEF Small
<1>9. \A n \in D : f[n] = [key |-> content[p][n], file |-> i, off |-> n]
  OBVIOUS
<1> HIDE DEF f
<1>10. \A e \in EntriesOf(p, i) : e.file = i /\ e.off \in D /\ content[p][e.off] = e.key
  BY <1>3, <1>4
<1>11. \A n \in D : [key |-> content[p][n], file |-> i, off |-> n] \in EntriesOf(p, i)
  BY <1>3, <1>9
<1> QED
  BY <1>8, <1>10, <1>11

-----------------------------------------------------------------------------
(* The steps that leave the files alone. *)

LEMMA NothingIsShaped ==
    NoCall \in CallType /\ IsView(NoView) /\ \A place, v : place = "idle" => CleanIs(place, v)
  BY DEF NoCall, CallType, NoView, IsView, CleanIs, Opening, Stats

\* A caller that is neither building nor about to has no part in a build.
LEMMA NotBuilding ==
    ASSUME NEW place, place \notin Locked, NEW r
    PROVE  BuildIs(place, r)
  BY DEF BuildIs, Locked, Building

LEMMA CallIs ==
    ASSUME WInv, NEW c \in Caller
    PROVE  /\ IInv /\ Typed /\ Shaped /\ OnDisk
           /\ call[c] \in CallType /\ IsView(view[c]) /\ pc[c] \in Places
           /\ BuildIs(pc[c], call[c])
           /\ c \in clean => CleanIs(pc[c], view[c])
           /\ call = [call EXCEPT ![c] = call[c]] /\ view = [view EXCEPT ![c] = view[c]]
           /\ lock \in Caller => pc[lock] \in Locked
           /\ pc[c] \in Locked => lock = c
           /\ faults \in 0 .. MaxFaults
<1>1. IInv /\ Typed /\ Shaped /\ OnDisk
  BY DEF WInv, IInv
<1>2. BuildIs(pc[c], call[c]) /\ (c \in clean => CleanIs(pc[c], view[c]))
  BY DEF WInv, Builds, CleanViews
<1>3. call = [call EXCEPT ![c] = call[c]] /\ view = [view EXCEPT ![c] = view[c]]
  BY <1>1 DEF Typed
<1>4. pc[c] \in Places
  BY <1>1 DEF Typed, Places
<1>5. pc[c] \in Locked => lock = c
  BY <1>1 DEF IInv, OneBuilder
<1> QED
  BY <1>1, <1>2, <1>3, <1>4, <1>5 DEF Shaped

LEMMA FindsFreshOn ==
    ASSUME WInv, IInv', NEW c \in Caller, NEW list \in Lists, FindsFresh(c, list)
    PROVE  WInv'
<1> DEFINE new == Asked(list, StatOf(list))
<1>1. IInv /\ Typed /\ IsView(view[c]) /\ view = [view EXCEPT ![c] = view[c]]
  BY CallIs
<1>2. list \in Seq(Path)
  BY ListAssumption
<1>3. StatOf(list) \in Stats
  BY <1>1, <1>2, LookNow
<1>4. new \in CallType
  BY <1>2, <1>3 DEF Asked, NoCall, CallType
<1>5. c \notin clean /\ lock = NoCaller
  BY <1>1, LockTaken DEF FindsFresh, LockFree
<1>6. /\ pc' = [pc EXCEPT ![c] = "open"] /\ call' = [call EXCEPT ![c] = new]
      /\ view' = view /\ UNCHANGED <<content, files, torn, lock, faults>>
      /\ clean' = IF torn = {} THEN clean \cup {c} ELSE clean
  BY DEF FindsFresh, Goto
<1> HIDE DEF new
<1>7. BuildIs("open", new)
  BY NotBuilding DEF Locked, Building
<1>8. c \in clean' => CleanIs("open", view[c])
  BY <1>5, <1>6 DEF CleanIs, Opening
<1>9. faults' \in 0 .. MaxFaults /\ lock' \notin Caller /\ "open" \in Places
  BY <1>5, <1>6, CallIs, CallerAssumption DEF Places, Opening
<1>10. clean' \subseteq clean \cup {c} /\ view' = [view EXCEPT ![c] = view[c]]
  BY <1>1, <1>6
<1> QED
  BY <1>1, <1>4, <1>6, <1>7, <1>8, <1>9, <1>10, OneMovesOn

LEMMA ChoosesRefreshOn ==
    ASSUME WInv, IInv', NEW c \in Caller, NEW list \in Lists, NEW f \in Filters,
           ChoosesRefresh(c, list, f)
    PROVE  WInv'
<1> DEFINE current == StatOf(list)
           n == Len(sources)
           new == [Asked(list, current) EXCEPT !.filter = f, !.base = n, !.scanned = n]
<1>1. IInv /\ Typed /\ IsView(view[c]) /\ view = [view EXCEPT ![c] = view[c]]
  BY CallIs
<1>2. list \in Seq(Path) /\ f \in BOOLEAN
  BY ListAssumption
<1>3. current \in Stats /\ PathsOf(current) = list
  BY <1>1, <1>2, LookNow
<1>4. sources # NoFile /\ IsStrictPrefix(sources, current) /\ AllThere(list)
  BY DEF ChoosesRefresh, IncrementalEligible
<1>5. sources \in Stats
  BY <1>1, <1>4 DEF Typed
<1>6. n \in Nat /\ n <= Len(list)
  <2>1. n \in Nat /\ n <= Len(current)
    BY <1>3, <1>4, <1>5, StrictIs
  <2>2. Len(list) = Len(current)
    BY <1>3, PathsIs
  <2> QED
    BY <2>1, <2>2
<1> HIDE DEF n
<1>7. /\ new \in CallType /\ new.list = list /\ new.filter = f /\ new.stats = current
      /\ new.base = n /\ new.scanned = n /\ new.runs = {}
  BY <1>2, <1>3, <1>6 DEF Asked, NoCall, CallType
<1>8. c \notin clean
  BY <1>1, LockTaken DEF ChoosesRefresh
<1>9. /\ pc' = [pc EXCEPT ![c] = "scan"] /\ call' = [call EXCEPT ![c] = new] /\ lock' = c
      /\ view' = view /\ UNCHANGED <<content, files, torn, faults, clean>>
  BY DEF ChoosesRefresh, Goto, n, ghosts
<1> HIDE DEF new, current
<1>10. BuildIs("scan", new)
  <2>1. \A d \in LinesOf(new.stats) : ~(new.base < d.file /\ d.file <= new.scanned)
    <3> SUFFICES ASSUME NEW d \in LinesOf(current) PROVE ~(n < d.file /\ d.file <= n)
      BY <1>7
    <3>1. PICK i \in DOMAIN current : d.file = i
      BY DEF LinesOf
    <3>2. i \in Nat
      BY <1>3, PathsIs
    <3> QED
      BY <1>6, <3>1, <3>2
  <2>2. /\ AllThere(new.list) /\ new.filter \in Filters /\ new.list \in Lists
        /\ new.base > 0 => sources # NoFile /\ new.base = Len(sources) /\ IsStrictPrefix(sources, new.stats)
        /\ new.base <= new.scanned /\ new.scanned <= Len(new.list)
        /\ Small(new.runs) /\ \A e \in new.runs : IsLine(e, new.list)
    BY <1>4, <1>6, <1>7, SmallEmpty DEF n
  <2> QED
    BY <2>1, <2>2 DEF BuildIs, Locked, Building
<1>11. faults' \in 0 .. MaxFaults /\ "scan" \in Places /\ "scan" \in Locked
  BY <1>9, CallIs DEF Places, Locked, Building
<1>12. clean' \subseteq clean \cup {c} /\ c \notin clean' /\ view' = [view EXCEPT ![c] = view[c]]
  BY <1>1, <1>8, <1>9
<1> QED
  BY <1>1, <1>7, <1>9, <1>10, <1>11, <1>12, OneMovesOn

LEMMA StartsOn ==
    ASSUME WInv, IInv', NEW c \in Caller, NEW list \in Lists, NEW f \in Filters,
           ChoosesBuild(c, list, f) \/ CallBuild(c, list, f)
    PROVE  WInv'
<1>1. IInv /\ Typed /\ IsView(view[c]) /\ view = [view EXCEPT ![c] = view[c]]
  BY CallIs
<1>2. list \in Seq(Path) /\ f \in BOOLEAN /\ <<>> \in Stats
  BY ListAssumption DEF Stats
<1>3. PICK new \in CallType :
         /\ call' = [call EXCEPT ![c] = new] /\ new.list = list /\ new.filter = f
         /\ new.base = 0 /\ new.scanned = 0 /\ new.runs = {}
  <2>1. CASE ChoosesBuild(c, list, f)
    <3> DEFINE new == [Asked(list, <<>>) EXCEPT !.filter = f]
    <3>1. /\ new \in CallType /\ new.list = list /\ new.filter = f
          /\ new.base = 0 /\ new.scanned = 0 /\ new.runs = {}
      BY <1>2 DEF Asked, NoCall, CallType
    <3> QED
      BY <2>1, <3>1 DEF ChoosesBuild
  <2>2. CASE CallBuild(c, list, f)
    <3> DEFINE new == [NoCall EXCEPT !.op = "build", !.list = list, !.filter = f]
    <3>1. /\ new \in CallType /\ new.list = list /\ new.filter = f
          /\ new.base = 0 /\ new.scanned = 0 /\ new.runs = {}
      BY <1>2 DEF NoCall, CallType
    <3> QED
      BY <2>2, <3>1 DEF CallBuild
  <2> QED
    BY <2>1, <2>2
<1>4. /\ pc' = [pc EXCEPT ![c] = "stat"] /\ lock' = c /\ AllThere(list)
      /\ view' = view /\ UNCHANGED <<content, files, torn, faults, clean>>
  BY DEF ChoosesBuild, CallBuild, Goto, ghosts
<1>5. c \notin clean
  BY <1>1, LockTaken DEF ChoosesBuild, CallBuild
<1>6. BuildIs("stat", new)
  BY <1>3, <1>4 DEF BuildIs, Building
<1>7. faults' \in 0 .. MaxFaults /\ "stat" \in Places /\ "stat" \in Locked
  BY <1>4, CallIs DEF Places, Locked
<1>8. clean' \subseteq clean \cup {c} /\ c \notin clean' /\ view' = [view EXCEPT ![c] = view[c]]
  BY <1>1, <1>4, <1>5
<1> QED
  BY <1>1, <1>3, <1>4, <1>6, <1>7, <1>8, OneMovesOn

\* A builder holds the lock, and is no clean caller.
LEMMA BuilderIs ==
    ASSUME WInv, NEW c \in Caller, pc[c] \in Locked
    PROVE  /\ lock = c /\ c \notin clean
           /\ call[c].list \in Lists /\ call[c].list \in Seq(Path) /\ call[c].filter \in Filters
           /\ AllThere(call[c].list)
           /\ pc[c] \in Building => Seen(call[c].stats) /\ PathsOf(call[c].stats) = call[c].list
<1>1. IInv /\ BuildIs(pc[c], call[c]) /\ lock = c
  BY CallIs
<1>2. c \notin clean
  BY <1>1 DEF IInv, CleanIsFresh, Locked, Building, Opening
<1>3. call[c].list \in Lists /\ call[c].filter \in Filters /\ AllThere(call[c].list)
  BY <1>1 DEF BuildIs
<1>4. pc[c] \in Building => Seen(call[c].stats) /\ PathsOf(call[c].stats) = call[c].list
  BY <1>1 DEF IInv, BuildAhead
<1> QED
  BY <1>1, <1>2, <1>3, <1>4, ListAssumption

LEMMA StatSourcesOn ==
    ASSUME WInv, IInv', NEW c \in Caller, StatSources(c)
    PROVE  WInv'
<1> DEFINE r == call[c]
           new == [r EXCEPT !.stats = StatOf(r.list)]
<1>1. /\ Typed /\ r \in CallType /\ IsView(view[c]) /\ view = [view EXCEPT ![c] = view[c]]
      /\ BuildIs(pc[c], r) /\ faults \in 0 .. MaxFaults
  BY CallIs
<1>2. pc[c] = "stat" /\ "stat" \in Locked /\ "scan" \in Locked /\ "scan" \in Places
  BY DEF StatSources, Locked, Building, Places
<1>3. /\ lock = c /\ c \notin clean /\ r.list \in Lists /\ r.list \in Seq(Path)
      /\ r.filter \in Filters /\ AllThere(r.list)
  BY <1>2, BuilderIs
<1>4. StatOf(r.list) \in Stats /\ PathsOf(StatOf(r.list)) = r.list
  BY <1>1, <1>3, LookNow
<1>5. r.base = 0 /\ r.scanned = 0 /\ r.runs = {}
  BY <1>1, <1>2 DEF BuildIs
<1>6. /\ new \in CallType /\ new.list = r.list /\ new.filter = r.filter
      /\ new.stats = StatOf(r.list) /\ new.base = 0 /\ new.scanned = 0 /\ new.runs = {}
  BY <1>1, <1>4, <1>5 DEF CallType
<1>7. /\ pc' = [pc EXCEPT ![c] = "scan"] /\ call' = [call EXCEPT ![c] = new]
      /\ view' = view /\ UNCHANGED <<content, files, torn, lock, faults, clean>>
  BY DEF StatSources, Goto, ghosts
<1> HIDE DEF new, r
<1>8. BuildIs("scan", new)
  <2>1. \A d \in LinesOf(new.stats) : ~(new.base < d.file /\ d.file <= new.scanned)
    <3> SUFFICES ASSUME NEW d \in LinesOf(StatOf(r.list)) PROVE ~(0 < d.file /\ d.file <= 0)
      BY <1>6
    <3>1. PICK i \in DOMAIN StatOf(r.list) : d.file = i
      BY DEF LinesOf
    <3>2. i \in Nat
      BY <1>4, PathsIs
    <3> QED
      BY <3>1, <3>2
  <2>2. Len(r.list) \in Nat
    BY <1>3
  <2> QED
    BY <1>3, <1>6, <2>1, <2>2, SmallEmpty DEF BuildIs, Locked, Building
<1>9. clean' \subseteq clean \cup {c} /\ c \notin clean' /\ view' = [view EXCEPT ![c] = view[c]]
  BY <1>1, <1>3, <1>7
<1>10. faults' \in 0 .. MaxFaults /\ lock' = c
  BY <1>1, <1>3, <1>7
<1> QED
  BY <1>1, <1>2, <1>6, <1>7, <1>8, <1>9, <1>10, OneMovesOn

LEMMA ScanSourceOn ==
    ASSUME WInv, IInv', NEW c \in Caller, ScanSource(c)
    PROVE  WInv'
<1> DEFINE r == call[c]
           n == r.scanned + 1
           found == EntriesOf(r.list[n], n)
           new == [r EXCEPT !.runs = r.runs \cup found, !.scanned = n]
           place == IF n = Len(r.list) THEN "merge" ELSE "scan"
<1>1. /\ Typed /\ r \in CallType /\ IsView(view[c]) /\ view = [view EXCEPT ![c] = view[c]]
      /\ BuildIs(pc[c], r) /\ faults \in 0 .. MaxFaults
  BY CallIs
<1>2. pc[c] = "scan" /\ n <= Len(r.list) /\ "scan" \in Locked /\ "scan" \in Building
  BY DEF ScanSource, Locked, Building
<1>3. /\ lock = c /\ c \notin clean /\ r.list \in Lists /\ r.list \in Seq(Path)
      /\ r.filter \in Filters /\ AllThere(r.list) /\ Seen(r.stats) /\ PathsOf(r.stats) = r.list
  BY <1>2, BuilderIs
<1>4. /\ r.base \in Nat /\ r.scanned \in Nat /\ r.runs \subseteq Entry /\ r.stats \in Stats
  BY <1>1 DEF CallType
<1>5. /\ n \in Nat \ {0} /\ n \in DOMAIN r.list /\ Len(r.list) \in Nat
      /\ r.list[n] \in Written
  BY <1>2, <1>3, <1>4 DEF AllThere
<1>6. /\ Small(found)
      /\ \A e \in found : e.file = n /\ e.off \in DOMAIN content[r.list[n]]
                          /\ content[r.list[n]][e.off] = e.key
      /\ \A m \in DOMAIN content[r.list[n]] :
            [key |-> content[r.list[n]][m], file |-> n, off |-> m] \in found
  BY <1>1, <1>5, EntriesAre
<1>7. /\ r.base > 0 => (sources # NoFile /\ r.base = Len(sources) /\ IsStrictPrefix(sources, r.stats))
      /\ r.base <= r.scanned /\ Small(r.runs) /\ \A e \in r.runs : IsLine(e, r.list)
      /\ \A d \in LinesOf(r.stats) : (r.base < d.file /\ d.file <= r.scanned) => d \in r.runs
  BY <1>1, <1>2 DEF BuildIs
<1> HIDE DEF found, n
<1>8. Small(r.runs \cup found)
  BY <1>6, <1>7, SmallUnion
<1>9. \A e \in found : IsLine(e, r.list)
  BY <1>5, <1>6 DEF IsLine
<1>10. ASSUME NEW d \in LinesOf(r.stats), r.base < d.file, d.file <= n PROVE d \in r.runs \cup found
  <2>1. PICK i \in DOMAIN r.stats : \E m \in 1 .. r.stats[i].size :
           d = [key |-> content[r.stats[i].path][m], file |-> i, off |-> m]
    BY LineIs
  <2>2. PICK m \in 1 .. r.stats[i].size :
           d = [key |-> content[r.stats[i].path][m], file |-> i, off |-> m]
    BY <2>1
  <2>3. d.file = i /\ i \in Nat /\ m \in DOMAIN content[r.stats[i].path]
    BY <1>1, <1>3, <1>4, <2>2, LinesThere
  <2>4. r.stats[i].path = r.list[i]
    BY <1>3 DEF PathsOf
  <2>5. CASE i = n
    BY <1>6, <2>2, <2>3, <2>4, <2>5
  <2>6. CASE i # n
    <3>1. d.file <= r.scanned
      BY <1>4, <1>10, <2>3, <2>6 DEF n
    <3> QED
      BY <1>7, <1>10, <3>1
  <2> QED
    BY <2>5, <2>6
<1>11. /\ new \in CallType /\ new.list = r.list /\ new.filter = r.filter /\ new.stats = r.stats
       /\ new.base = r.base /\ new.scanned = n /\ new.runs = r.runs \cup found
  <2>1. r.runs \cup found \in SUBSET Entry
    BY <1>8 DEF Small
  <2>2. n \in Nat
    BY <1>5
  <2> QED
    BY <1>1, <2>1, <2>2 DEF CallType
<1>12. /\ pc' = [pc EXCEPT ![c] = place] /\ call' = [call EXCEPT ![c] = new]
       /\ view' = view /\ UNCHANGED <<content, files, torn, lock, faults, clean>>
  BY DEF ScanSource, Goto, ghosts, n, found
<1> HIDE DEF new, r
<1>13. place \in {"scan", "merge"} /\ place \in Places /\ place \in Locked
  BY DEF Places, Locked, Building
<1>14. BuildIs(place, new)
  <2>1. /\ AllThere(new.list) /\ new.filter \in Filters /\ new.list \in Lists
        /\ new.base > 0 => (sources # NoFile /\ new.base = Len(sources) /\ IsStrictPrefix(sources, new.stats))
    BY <1>3, <1>7, <1>11
  <2>2. new.base <= new.scanned /\ new.scanned <= Len(new.list)
    BY <1>2, <1>4, <1>7, <1>11 DEF n
  <2>3. place = "merge" => new.scanned = Len(new.list)
    BY <1>11
  <2>4. Small(new.runs) /\ \A e \in new.runs : IsLine(e, new.list)
    BY <1>7, <1>8, <1>9, <1>11
  <2>5. \A d \in LinesOf(new.stats) : (new.base < d.file /\ d.file <= new.scanned) => d \in new.runs
    BY <1>10, <1>11
  <2> HIDE DEF place
  <2> QED
    BY <1>13, <2>1, <2>2, <2>3, <2>4, <2>5 DEF BuildIs
<1>15. clean' \subseteq clean \cup {c} /\ c \notin clean' /\ view' = [view EXCEPT ![c] = view[c]]
  BY <1>1, <1>3, <1>12
<1>16. faults' \in 0 .. MaxFaults /\ lock' = c
  BY <1>1, <1>3, <1>12
<1> HIDE DEF place
<1> QED
  BY <1>1, <1>11, <1>12, <1>13, <1>14, <1>15, <1>16, OneMovesOn

LEMMA EndsOn ==
    ASSUME WInv, IInv', NEW c \in Caller, OpenFails(c) \/ BuildFails(c) \/ Close(c)
    PROVE  WInv'
<1>1. IsView(view[c]) /\ view = [view EXCEPT ![c] = view[c]] /\ faults \in 0 .. MaxFaults /\ Typed
  BY CallIs
<1>2. /\ pc' = [pc EXCEPT ![c] = "idle"] /\ call' = [call EXCEPT ![c] = NoCall]
      /\ UNCHANGED <<content, files, torn>>
  BY DEF OpenFails, BuildFails, Close, Goto, ghosts
<1>3. PICK v : IsView(v) /\ view' = [view EXCEPT ![c] = v]
  <2>1. CASE view' = view
    BY <1>1, <2>1
  <2>2. CASE view' = [view EXCEPT ![c] = NoView]
    BY <2>2, NothingIsShaped
  <2> QED
    BY <2>1, <2>2 DEF OpenFails, BuildFails, Close
<1>4. faults' \in 0 .. MaxFaults
  <2>1. CASE BuildFails(c)
    <3>1. faults' = faults + 1 /\ faults < MaxFaults
      BY <2>1 DEF BuildFails
    <3> QED
      BY <1>1, <3>1, BoundAssumption
  <2>2. CASE OpenFails(c) \/ Close(c)
    BY <1>1, <2>2 DEF OpenFails, Close
  <2> QED
    BY <2>1, <2>2
<1>5. lock' \in Caller => (IF lock' = c THEN "idle" \in Locked ELSE lock' = lock)
  <2>1. CASE BuildFails(c)
    BY <2>1, CallerAssumption DEF BuildFails
  <2>2. CASE OpenFails(c) \/ Close(c)
    <3>1. lock' = lock /\ pc[c] \notin Locked
      BY <2>2 DEF OpenFails, Close, Locked, Building
    <3>2. lock # c
      BY <3>1, CallIs
    <3> QED
      BY <3>1, <3>2
  <2> QED
    BY <2>1, <2>2
<1>6. BuildIs("idle", NoCall)
  BY NotBuilding DEF Locked, Building
<1>7. clean' \subseteq clean \cup {c}
  BY DEF OpenFails, BuildFails, Close
<1>8. "idle" \in Places /\ NoCall \in CallType /\ CleanIs("idle", v)
  BY NothingIsShaped DEF Places
<1> QED
  BY <1>2, <1>3, <1>4, <1>5, <1>6, <1>7, <1>8, OneMovesOn

\* Opening the files: each is there as the caller saw the one before.
LEMMA OpensOn ==
    ASSUME WInv, IInv', NEW c \in Caller,
           CallOpen(c) \/ OpenRecord(c) \/ OpenEntries(c) \/ OpenSparse(c) \/ OpenBloom(c)
    PROVE  WInv'
<1>1. /\ IInv /\ Typed /\ OnDisk /\ IsView(view[c]) /\ call[c] \in CallType
      /\ view = [view EXCEPT ![c] = view[c]] /\ call = [call EXCEPT ![c] = call[c]]
      /\ faults \in 0 .. MaxFaults
      /\ c \in clean => CleanIs(pc[c], view[c])
  BY CallIs
<1>2. /\ UNCHANGED <<content, files, torn, lock, call, faults>>
      /\ pc[c] \notin Locked
  BY DEF CallOpen, OpenRecord, OpenEntries, OpenSparse, OpenBloom, ghosts, Locked, Building
<1>3. lock # c
  BY <1>2, CallIs
<1> DEFINE Moves(place, v) ==
             /\ pc' = [pc EXCEPT ![c] = place] /\ view' = [view EXCEPT ![c] = v] /\ IsView(v)
             /\ clean' \subseteq clean \cup {c}
             /\ c \in clean' => CleanIs(place, v)
<1>4. \E place \in Opening \cup {"done"} : \E v : Moves(place, v)
  <2>1. CASE CallOpen(c)
    <3>1. /\ pc' = [pc EXCEPT ![c] = "open"] /\ view' = [view EXCEPT ![c] = view[c]]
          /\ clean' = (IF torn = {} THEN clean \cup {c} ELSE clean) /\ pc[c] = "idle"
      BY <1>1, <2>1 DEF CallOpen, Goto
    <3>2. c \notin clean
      BY <1>1, <3>1 DEF IInv, CleanIsFresh, Opening
    <3>3. c \in clean' => CleanIs("open", view[c])
      BY <3>1, <3>2 DEF CleanIs, Opening
    <3> QED
      BY <1>1, <3>1, <3>3 DEF Opening
  <2>2. CASE OpenRecord(c)
    <3> DEFINE v == [view[c] EXCEPT !.record = sources]
    <3>1. /\ pc' = [pc EXCEPT ![c] = "open_sidx"] /\ view' = [view EXCEPT ![c] = v]
          /\ clean' = clean /\ pc[c] = "open" /\ sources # NoFile
      BY <2>2 DEF OpenRecord, Goto, ghosts
    <3>2. IsView(v) /\ v.record = sources
      BY <1>1 DEF IsView
    <3> HIDE DEF v
    <3>3. c \in clean' => CleanIs("open_sidx", v)
      BY <1>1, <3>1, <3>2 DEF CleanIs, Opening
    <3> QED
      BY <3>1, <3>2, <3>3 DEF Opening
  <2>3. CASE OpenEntries(c)
    <3> DEFINE v == [view[c] EXCEPT !.entries = sidx]
    <3>1. /\ pc' = [pc EXCEPT ![c] = "open_sparse"] /\ view' = [view EXCEPT ![c] = v]
          /\ clean' = clean /\ pc[c] = "open_sidx"
      BY <2>3 DEF OpenEntries, Goto, ghosts
    <3>2. IsView(v) /\ v.record = view[c].record /\ v.entries = sidx
      BY <1>1 DEF IsView
    <3> HIDE DEF v
    <3>3. c \in clean' => CleanIs("open_sparse", v)
      BY <1>1, <3>1, <3>2 DEF CleanIs, Opening
    <3> QED
      BY <3>1, <3>2, <3>3 DEF Opening
  <2>4. CASE OpenSparse(c)
    <3> DEFINE v == [view[c] EXCEPT !.sparse = sparse]
    <3>1. /\ pc' = [pc EXCEPT ![c] = "open_bloom"] /\ view' = [view EXCEPT ![c] = v]
          /\ clean' = clean /\ pc[c] = "open_sparse"
      BY <2>4 DEF OpenSparse, Goto, ghosts
    <3>2. IsView(v) /\ v.record = view[c].record /\ v.entries = view[c].entries /\ v.sparse = sparse
      BY <1>1 DEF IsView
    <3> HIDE DEF v
    <3>3. c \in clean' => CleanIs("open_bloom", v)
      BY <1>1, <3>1, <3>2 DEF CleanIs, Opening
    <3> QED
      BY <3>1, <3>2, <3>3 DEF Opening
  <2>5. CASE OpenBloom(c)
    <3> DEFINE v == [view[c] EXCEPT !.bloom = bloom]
    <3>1. /\ pc' = [pc EXCEPT ![c] = "done"] /\ view' = [view EXCEPT ![c] = v]
          /\ clean' = clean /\ pc[c] = "open_bloom"
      BY <2>5 DEF OpenBloom, Goto, ghosts
    <3>2. /\ IsView(v) /\ v.record = view[c].record /\ v.entries = view[c].entries
          /\ v.sparse = view[c].sparse /\ v.bloom = bloom
      BY <1>1 DEF IsView
    <3> HIDE DEF v
    <3>3. ASSUME c \in clean PROVE Whole(v)
      <4>1. /\ torn = {} /\ sources # NoFile /\ v.record = sources /\ v.entries = sidx
            /\ v.sparse = sparse /\ v.bloom = bloom
        BY <1>1, <3>1, <3>2, <3>3 DEF CleanIs, Opening
      <4>2. sources \in Stats /\ Seen(sources)
        BY <1>1, <4>1 DEF Typed, IInv, RecordSeen
      <4>3. Extend(torn)
        BY <4>1 DEF Extend
      <4>4. /\ Ascending(sidx) /\ Covers(Range(sidx), sources)
            /\ \A e \in Range(sidx) : IsLine(e, PathsOf(sources))
            /\ sparse = Sample(sidx, SparseInterval) /\ (OneFilter => FilterOK(sidx, bloom))
        BY <1>1, <4>1, <4>3 DEF OnDisk
      <4> QED
        BY <4>1, <4>2, <4>4 DEF Whole
    <3>4. c \in clean' => CleanIs("done", v)
      BY <3>1, <3>3 DEF CleanIs, Opening
    <3> QED
      BY <3>1, <3>2, <3>4
  <2> QED
    BY <2>1, <2>2, <2>3, <2>4, <2>5
<1>5. PICK place \in Opening \cup {"done"} : \E v : Moves(place, v)
  BY <1>4
<1>6. PICK v : Moves(place, v)
  BY <1>5
<1>7. BuildIs(place, call[c]) /\ place \in Places
  BY NotBuilding DEF Locked, Building, Opening, Places
<1>8. /\ faults' \in 0 .. MaxFaults /\ lock' # c /\ lock' = lock
      /\ call' = [call EXCEPT ![c] = call[c]]
  BY <1>1, <1>2, <1>3
<1> QED
  BY <1>1, <1>2, <1>6, <1>7, <1>8, OneMovesOn

-----------------------------------------------------------------------------
(* The steps that publish a file. *)

LEMMA PublishOn ==
    ASSUME WInv, IInv', NEW c \in Caller, pc[c] \in Building,
           UNCHANGED <<content, view, faults>>,
           NEW place \in Places, NEW new \in CallType,
           pc' = [pc EXCEPT ![c] = place],
           call' = [call EXCEPT ![c] = new],
           lock' \in Caller => lock' = c /\ place \in Locked,
           sparse' = NoFile \/ sparse' \subseteq [key : Key, at : Nat \ {0}],
           bloom' = NoFile \/ bloom' \subseteq Key,
           torn' \subseteq Lists,
           OnDisk', BuildIs(place, new)',
           clean' \subseteq (clean \ { d \in Caller : pc[d] \in Opening }) \cup {c},
           c \in clean' => CleanIs(place, view[c])'
    PROVE  WInv'
<1>1. IInv /\ Shaped /\ Builds /\ CleanViews /\ Typed
  BY DEF WInv, IInv
<1>2. /\ \A d \in Caller : pc'[d] = IF d = c THEN place ELSE pc[d]
      /\ \A d \in Caller : call'[d] = IF d = c THEN new ELSE call[d]
  BY <1>1 DEF Typed
<1>3. \A d \in Caller \ {c} : pc[d] \notin Locked
  BY <1>1 DEF IInv, OneBuilder, Locked
<1>4. Shaped'
  <2>1. \A d \in Caller : call'[d] \in CallType /\ IsView(view'[d])
    BY <1>1, <1>2 DEF Shaped
  <2>2. lock' \in Caller => pc'[lock'] \in Locked
    BY <1>2
  <2> QED
    BY <1>1, <2>1, <2>2 DEF Shaped
<1>5. Builds'
  <2> SUFFICES ASSUME NEW d \in Caller PROVE BuildIs(pc[d], call[d])'
    BY DEF Builds
  <2>1. CASE d = c
    BY <1>2, <2>1 DEF BuildIs
  <2>2. CASE d # c
    <3>1. pc'[d] \notin Locked
      BY <1>2, <1>3, <2>2
    <3> QED
      BY <3>1 DEF BuildIs, Locked, Building
  <2> QED
    BY <2>1, <2>2
<1>6. CleanViews'
  <2> SUFFICES ASSUME NEW d \in clean' PROVE CleanIs(pc[d], view[d])'
    BY DEF CleanViews
  <2>1. CASE d = c
    BY <1>2, <2>1 DEF CleanIs
  <2>2. CASE d # c
    <3>1. d \in clean /\ d \in Caller /\ pc[d] \notin Opening
      BY <1>1, <2>2 DEF Typed
    <3>2. pc[d] = "done" /\ pc'[d] = "done" /\ view'[d] = view[d]
      BY <1>1, <1>2, <2>2, <3>1 DEF IInv, CleanIsFresh
    <3>3. Whole(view[d])
      BY <1>1, <3>1, <3>2 DEF CleanViews, CleanIs
    <3>4. PICK v : v = view[d]
      OBVIOUS
    <3>5. Whole(v)'
      BY <3>3, <3>4, SameLines
    <3>6. Whole(view[d])'
      BY <3>2, <3>4, <3>5 DEF Whole
    <3> QED
      BY <3>2, <3>6 DEF CleanIs, Opening
  <2> QED
    BY <2>1, <2>2
<1> QED
  BY <1>4, <1>5, <1>6 DEF WInv

\* What a merge keeps covered.
LEMMA MergeCovers ==
    ASSUME Typed, NEW S, Small(S), NEW stats \in Stats, Seen(stats), Covers(S, stats)
    PROVE  Covers(Range(Merged(S)), stats)
<1> SUFFICES ASSUME NEW d \in LinesOf(stats)
             PROVE  \E e \in Range(Merged(S)) : e.key = d.key /\ ~Better(d, e)
  BY DEF Covers
<1>1. d \in Entry
  <2>1. PICK i \in DOMAIN stats : \E n \in 1 .. stats[i].size :
           d = [key |-> content[stats[i].path][n], file |-> i, off |-> n]
    BY LineIs
  <2>2. PICK n \in 1 .. stats[i].size :
           d = [key |-> content[stats[i].path][n], file |-> i, off |-> n]
    BY <2>1
  <2>3. content[stats[i].path][n] \in Key /\ i \in Nat \ {0} /\ n \in Nat \ {0}
    BY LinesThere
  <2> QED
    BY <2>2, <2>3 DEF Entry
<1>2. PICK f \in S : f.key = d.key /\ ~Better(d, f)
  BY DEF Covers
<1>3. PICK e \in Winners(S) : e.key = f.key /\ ~Better(f, e)
  BY WinnerExists
<1>4. e \in Entry /\ f \in Entry
  BY WinnersAre DEF Small
<1>5. ~Better(d, e)
  BY <1>1, <1>2, <1>3, <1>4, Better3
<1> QED
  BY <1>2, <1>3, <1>5, MergedIs

\* What covers longer sources covers shorter ones.
LEMMA CoversLess ==
    ASSUME NEW S, NEW new \in Stats, NEW old \in Stats, Covers(S, new), NotOlder(new, old),
           IsPrefix(PathsOf(old), PathsOf(new))
    PROVE  Covers(S, old)
<1>1. LinesOf(old) \subseteq LinesOf(new)
  <2> SUFFICES ASSUME NEW d \in LinesOf(old) PROVE d \in LinesOf(new)
    OBVIOUS
  <2>1. PICK i \in DOMAIN old : \E n \in 1 .. old[i].size :
           d = [key |-> content[old[i].path][n], file |-> i, off |-> n]
    BY LineIs
  <2>2. PICK n \in 1 .. old[i].size :
           d = [key |-> content[old[i].path][n], file |-> i, off |-> n]
    BY <2>1
  <2>3. /\ PathsOf(old) \in Seq(Path) /\ PathsOf(new) \in Seq(Path)
        /\ Len(PathsOf(old)) = Len(old) /\ Len(PathsOf(new)) = Len(new)
        /\ DOMAIN PathsOf(old) = 1 .. Len(old) /\ DOMAIN old = 1 .. Len(old)
        /\ DOMAIN new = 1 .. Len(new) /\ Len(old) \in Nat /\ Len(new) \in Nat
        /\ \A j \in DOMAIN old : PathsOf(old)[j] = old[j].path
        /\ \A j \in DOMAIN new : PathsOf(new)[j] = new[j].path
    BY PathsIs
  <2>4. Len(PathsOf(old)) <= Len(PathsOf(new)) /\ \A j \in DOMAIN PathsOf(old) : PathsOf(old)[j] = PathsOf(new)[j]
    BY <2>3, PrefixIs
  <2>5. i \in DOMAIN new /\ new[i].path = old[i].path
    BY <2>3, <2>4
  <2>6. new[i].size >= old[i].size /\ new[i].size \in Nat /\ old[i].size \in Nat
    BY <2>5, StatAt DEF NotOlder
  <2>7. n \in 1 .. new[i].size
    BY <2>6
  <2> QED
    BY <2>2, <2>5, <2>7, LineIs
<1> QED
  BY <1>1 DEF Covers

LEMMA LinePrefix ==
    ASSUME NEW l \in Seq(Path), NEW m \in Seq(Path), IsPrefix(l, m), NEW e, IsLine(e, l)
    PROVE  IsLine(e, m)
<1>1. Len(l) <= Len(m) /\ \A i \in DOMAIN l : l[i] = m[i]
  BY PrefixIs
<1>2. DOMAIN l = 1 .. Len(l) /\ DOMAIN m = 1 .. Len(m) /\ Len(l) \in Nat /\ Len(m) \in Nat
  OBVIOUS
<1>3. e.file \in DOMAIN m /\ m[e.file] = l[e.file]
  BY <1>1, <1>2 DEF IsLine
<1> QED
  BY <1>3 DEF IsLine

LEMMA PrefixOrder ==
    ASSUME NEW l \in Seq(Path), NEW m \in Seq(Path), NEW n \in Seq(Path)
    PROVE  /\ IsPrefix(m, m)
           /\ IsPrefix(l, m) /\ IsPrefix(m, n) => IsPrefix(l, n)
           /\ IsPrefix(l, n) /\ IsPrefix(m, n) /\ Len(l) <= Len(m) => IsPrefix(l, m)
<1>1. \A s, t \in {l, m, n} :
         IsPrefix(s, t) <=> Len(s) <= Len(t) /\ \A i \in DOMAIN s : s[i] = t[i]
  BY PrefixIs
<1>2. \A s \in {l, m, n} : DOMAIN s = 1 .. Len(s) /\ Len(s) \in Nat
  OBVIOUS
<1>3. IsPrefix(m, m)
  BY <1>1, <1>2
<1>4. ASSUME IsPrefix(l, m), IsPrefix(m, n) PROVE IsPrefix(l, n)
  BY <1>1, <1>2, <1>4
<1>5. ASSUME IsPrefix(l, n), IsPrefix(m, n), Len(l) <= Len(m) PROVE IsPrefix(l, m)
  <2>1. \A i \in DOMAIN l : l[i] = n[i] /\ i \in DOMAIN m /\ m[i] = n[i]
    BY <1>1, <1>2, <1>5
  <2> QED
    BY <1>1, <1>5, <2>1
<1> QED
  BY <1>3, <1>4, <1>5

\* The index's files while a build publishes them, and what it merged.
LEMMA PublishEntriesOn ==
    ASSUME WInv, IInv', NEW c \in Caller, PublishEntries(c)
    PROVE  WInv'
<1>1. pc[c] = "merge" /\ "merge" \in Building /\ "merge" \in Locked
      /\ "sparse" \in Places /\ "sparse" \in Locked
  BY DEF PublishEntries, Building, Locked, Places
<1>2. PICK r \in CallType : r = call[c]
  BY CallIs
<1>3. /\ IInv /\ Typed /\ Shaped /\ OnDisk /\ BuildIs("merge", r)
  BY <1>1, <1>2, CallIs
<1>4. /\ lock = c /\ c \notin clean /\ r.list \in Lists /\ r.list \in Seq(Path) /\ r.filter \in Filters
      /\ AllThere(r.list) /\ Seen(r.stats) /\ PathsOf(r.stats) = r.list /\ r.stats \in Stats
      /\ r.base \in Nat /\ r.scanned \in Nat
  BY <1>1, <1>2, BuilderIs DEF CallType
<1>5. PICK new \in CallType :
         /\ call' = [call EXCEPT ![c] = new] /\ new.list = r.list /\ new.filter = r.filter
         /\ new.stats = r.stats /\ new.base = r.base
  <2> DEFINE new == [r EXCEPT !.runs = {}]
  <2>1. /\ new \in CallType /\ new.list = r.list /\ new.filter = r.filter
        /\ new.stats = r.stats /\ new.base = r.base
    BY DEF CallType
  <2>2. call' = [call EXCEPT ![c] = new]
    BY <1>2, <1>3 DEF PublishEntries
  <2> QED
    BY <2>1, <2>2
<1>6. PICK S : S = r.runs \cup (IF r.base = 0 THEN {} ELSE Range(sidx))
  OBVIOUS
<1>7. /\ sidx' = Merged(S)
      /\ torn' = {r.list} \cup (IF r.base = 0 THEN {} ELSE torn)
      /\ clean' = clean \ { d \in Caller : pc[d] \in Opening }
      /\ pc' = [pc EXCEPT ![c] = "sparse"]
      /\ UNCHANGED <<content, sparse, bloom, sources, lock, view, faults>>
  BY <1>2, <1>6 DEF PublishEntries, Existing, Goto
<1>8. /\ r.base > 0 => (sources # NoFile /\ r.base = Len(sources) /\ IsStrictPrefix(sources, r.stats))
      /\ r.scanned = Len(r.list) /\ Small(r.runs) /\ \A e \in r.runs : IsLine(e, r.list)
      /\ \A d \in LinesOf(r.stats) : (r.base < d.file /\ d.file <= r.scanned) => d \in r.runs
  BY <1>1, <1>3 DEF BuildIs
<1>9. r.base # 0 => r.base > 0 /\ sources # NoFile /\ sources \in Stats /\ Ascending(sidx)
  BY <1>3, <1>4, <1>8 DEF Typed, OnDisk
<1>10. Small(S)
  <2>1. CASE r.base = 0
    BY <1>6, <1>8, <2>1
  <2>2. CASE r.base # 0
    <3>1. Small(Range(sidx))
      BY <1>9, <2>2 DEF Ascending
    <3> QED
      BY <1>6, <1>8, <2>2, <3>1, SmallUnion
  <2> QED
    BY <2>1, <2>2
<1>11. Ascending(sidx') /\ Range(sidx') \subseteq S
  BY <1>7, <1>10, MergedIs, WinnersAre
<1>12. (r.base # 0 /\ Extend(torn)) => Covers(S, sources)
  <2> SUFFICES ASSUME r.base # 0, Extend(torn) PROVE Covers(S, sources)
    OBVIOUS
  <2>1. Covers(Range(sidx), sources)
    BY <1>3, <1>9 DEF OnDisk
  <2> QED
    BY <1>6, <2>1 DEF Covers
\* The lines of the sources it goes on from are in the entries there were, the others it read.
<1>13. (r.base = 0 \/ Extend(torn)) => Covers(S, r.stats)
  <2> SUFFICES ASSUME r.base = 0 \/ Extend(torn), NEW d \in LinesOf(r.stats)
               PROVE  \E e \in S : e.key = d.key /\ ~Better(d, e)
    BY DEF Covers
  <2>1. PICK i \in DOMAIN r.stats : \E n \in 1 .. r.stats[i].size :
           d = [key |-> content[r.stats[i].path][n], file |-> i, off |-> n]
    BY LineIs
  <2>2. PICK n \in 1 .. r.stats[i].size :
           d = [key |-> content[r.stats[i].path][n], file |-> i, off |-> n]
    BY <2>1
  <2>3. /\ i \in Nat \ {0} /\ n \in Nat \ {0} /\ d.file = i /\ d.off = n
        /\ i <= Len(r.list)
    <3>1. i \in Nat \ {0} /\ n \in Nat \ {0}
      BY <1>3, <1>4, LinesThere
    <3>2. i <= Len(r.stats) /\ Len(r.list) = Len(r.stats)
      BY <1>4, <3>1, PathsIs
    <3> QED
      BY <2>2, <3>1, <3>2
  <2>4. CASE r.base < i
    <3>1. d \in r.runs
      BY <1>4, <1>8, <2>3, <2>4
    <3>2. ~Better(d, d)
      BY <2>3 DEF Better
    <3> QED
      BY <1>6, <3>1, <3>2
  <2>5. CASE ~(r.base < i)
    <3>1. r.base # 0 /\ i <= Len(sources)
      BY <1>4, <1>8, <2>3, <2>5
    <3>2. DOMAIN sources = 1 .. Len(sources) /\ \A j \in DOMAIN sources : sources[j] = r.stats[j]
      BY <1>4, <1>8, <1>9, <3>1, StrictIs
    <3>3. i \in DOMAIN sources /\ sources[i] = r.stats[i]
      BY <2>3, <3>1, <3>2
    <3>4. d \in LinesOf(sources)
      BY <2>2, <3>3, LineIs
    <3> QED
      BY <1>12, <3>1, <3>4 DEF Covers
  <2> QED
    BY <2>4, <2>5
<1>14. /\ torn' # {} /\ r.list \in torn' /\ torn' \subseteq Lists
       /\ r.base # 0 => torn \subseteq torn'
       /\ r.base = 0 => torn' = {r.list}
  BY <1>3, <1>4, <1>7 DEF Shaped
<1>15. Extend(torn)' => (r.base # 0 => Extend(torn)) /\ IsPrefix(PathsOf(sources), r.list)
  BY <1>7, <1>14 DEF Extend
<1>16. (r.base = 0 \/ Extend(torn)') => Covers(Range(sidx), r.stats)'
  <2> SUFFICES ASSUME r.base = 0 \/ Extend(torn)' PROVE Covers(Range(sidx), r.stats)'
    OBVIOUS
  <2>1. Covers(S, r.stats)
    BY <1>13, <1>15
  <2>2. Covers(Range(Merged(S)), r.stats)
    BY <1>3, <1>4, <1>10, <2>1, MergeCovers
  <2> QED
    BY <1>7, <2>2 DEF Covers, LinesOf
<1>17. (sources # NoFile /\ Extend(torn)') => Covers(Range(sidx), sources)'
  <2> SUFFICES ASSUME sources # NoFile, Extend(torn)' PROVE Covers(Range(sidx), sources)'
    OBVIOUS
  <2>1. sources \in Stats /\ Seen(sources)
    BY <1>3 DEF Typed, IInv, RecordSeen
  <2>2. Covers(Range(Merged(S)), sources)
    <3>1. CASE r.base # 0
      BY <1>3, <1>10, <1>12, <1>15, <2>1, <3>1, MergeCovers
    <3>2. CASE r.base = 0
      <4>1. Covers(Range(Merged(S)), r.stats)
        BY <1>3, <1>4, <1>10, <1>13, <3>2, MergeCovers
      <4>2. NotOlder(r.stats, sources)
        BY <1>1, <1>2, <1>3 DEF IInv, BuildAhead
      <4> QED
        BY <1>4, <1>15, <2>1, <4>1, <4>2, CoversLess
    <3> QED
      BY <3>1, <3>2
  <2> QED
    BY <1>7, <2>2 DEF Covers, LinesOf
<1>18. \A e, list : IsLine(e, list)' <=> IsLine(e, list)
  BY <1>7, SameLines
<1>19. r.base = 0 => \A e \in Range(sidx') : IsLine(e, r.list)
  BY <1>6, <1>8, <1>11
<1>20. sources # NoFile => \A e \in Range(sidx') : \E list \in torn' \cup {PathsOf(sources)} : IsLine(e, list)
  <2> SUFFICES ASSUME sources # NoFile, NEW e \in S
               PROVE  \E list \in torn' \cup {PathsOf(sources)} : IsLine(e, list)
    BY <1>11
  <2>1. CASE e \in r.runs
    BY <1>8, <1>14, <2>1
  <2>2. CASE e \notin r.runs
    <3>1. r.base # 0 /\ e \in Range(sidx)
      BY <1>6, <2>2
    <3>2. PICK list \in torn \cup {PathsOf(sources)} : IsLine(e, list)
      BY <1>3, <3>1 DEF OnDisk
    <3> QED
      BY <1>14, <3>1, <3>2
  <2> QED
    BY <2>1, <2>2
<1>21. OnDisk'
  <2>1. sources' = sources /\ bloom' = bloom
    BY <1>7
  <2>2. (\A f \in Filters : ~f) => bloom = NoFile
    BY <1>3 DEF OnDisk
  <2> QED
    BY <1>11, <1>14, <1>17, <1>18, <1>20, <2>1, <2>2 DEF OnDisk
<1>22. BuildIs("sparse", new)'
  <2>1. AllThere(r.list)'
    BY <1>4, <1>7 DEF AllThere, Written
  <2>2. r.base > 0 => (sources' # NoFile /\ r.base = Len(sources') /\ IsStrictPrefix(sources', r.stats))
    BY <1>7, <1>8
  <2>3. r.base = 0 => (torn' = {r.list} /\ \A e \in Range(sidx') : IsLine(e, r.list)')
    BY <1>14, <1>18, <1>19
  <2> QED
    BY <1>4, <1>5, <1>11, <1>14, <1>16, <2>1, <2>2, <2>3 DEF BuildIs
<1>23. /\ pc[c] \in Building /\ lock' = c /\ c \notin clean'
       /\ sparse' = NoFile \/ sparse' \subseteq [key : Key, at : Nat \ {0}]
       /\ bloom' = NoFile \/ bloom' \subseteq Key
       /\ clean' \subseteq (clean \ { d \in Caller : pc[d] \in Opening }) \cup {c}
  BY <1>1, <1>3, <1>4, <1>7 DEF Shaped
<1> QED
  BY <1>1, <1>5, <1>7, <1>14, <1>21, <1>22, <1>23, PublishOn

\* The sample and the filter change nothing else that is known of the entries.
LEMMA PublishSamplesOn ==
    ASSUME WInv, IInv', NEW c \in Caller, PublishSparse(c) \/ PublishBloom(c)
    PROVE  WInv'
<1>1. PICK r \in CallType : r = call[c]
  BY CallIs
<1>2. /\ pc[c] \in {"sparse", "bloom"} /\ pc[c] \in Building /\ pc[c] \in Locked
      /\ IInv /\ Typed /\ Shaped /\ OnDisk /\ BuildIs(pc[c], r) /\ IsView(view[c])
  BY <1>1, CallIs DEF PublishSparse, PublishBloom, Building, Locked
<1>3. /\ lock = c /\ c \notin clean /\ r.filter \in Filters
  BY <1>1, <1>2, BuilderIs
<1>4. /\ UNCHANGED <<content, sidx, sources, torn, lock, view, faults>>
      /\ call' = [call EXCEPT ![c] = r]
      /\ clean' = clean \ { d \in Caller : pc[d] \in Opening }
  BY <1>1, CallIs DEF PublishSparse, PublishBloom
<1>5. /\ Ascending(sidx) /\ r.list \in torn
      /\ r.base = 0 => (torn = {r.list} /\ \A e \in Range(sidx) : IsLine(e, r.list))
      /\ (r.base = 0 \/ Extend(torn)) => Covers(Range(sidx), r.stats)
      /\ AllThere(r.list) /\ r.list \in Lists
      /\ r.base > 0 => (sources # NoFile /\ r.base = Len(sources) /\ IsStrictPrefix(sources, r.stats))
  BY <1>2 DEF BuildIs
<1>6. /\ \A e, list : IsLine(e, list)' <=> IsLine(e, list)
      /\ \A S, stats : Covers(S, stats)' <=> Covers(S, stats)
      /\ \A list : AllThere(list)' <=> AllThere(list)
  BY <1>4, SameLines
<1>7. Extend(torn)' <=> Extend(torn)
  BY <1>4 DEF Extend
<1>8. /\ \A e \in Range(sidx) : e.key \in Key
      /\ \A i \in DOMAIN sidx : i \in Nat \ {0} /\ sidx[i].key \in Key
  BY <1>5, AscendingIs
<1>9. sparse' = NoFile \/ sparse' \subseteq [key : Key, at : Nat \ {0}]
  <2>1. CASE PublishSparse(c)
    BY <1>8, <2>1 DEF PublishSparse, Sample
  <2>2. CASE PublishBloom(c)
    BY <1>2, <2>2 DEF PublishBloom, Shaped
  <2> QED
    BY <2>1, <2>2
<1>10. bloom' = NoFile \/ bloom' \subseteq Key
  <2>1. CASE bloom' = FilterOf(sidx)
    BY <1>8, <2>1 DEF FilterOf
  <2>2. CASE bloom' = bloom
    BY <1>2, <2>2 DEF Shaped
  <2> QED
    BY <2>1, <2>2 DEF PublishSparse, PublishBloom
<1>11. (\A f \in Filters : ~f) => bloom' = NoFile
  <2> SUFFICES ASSUME \A f \in Filters : ~f PROVE bloom' = NoFile
    OBVIOUS
  <2>1. ~call[c].filter
    BY <1>1, <1>3
  <2>2. bloom' = bloom
    BY <2>1 DEF PublishSparse, PublishBloom
  <2> QED
    BY <1>2, <2>2 DEF OnDisk
<1>12. OnDisk'
  <2>1. torn' # {}
    BY <1>4, <1>5
  <2>2. sources # NoFile =>
          /\ Extend(torn) => Covers(Range(sidx), sources)
          /\ \A e \in Range(sidx) : \E list \in torn \cup {PathsOf(sources)} : IsLine(e, list)
    BY <1>2 DEF OnDisk
  <2>3. sources' # NoFile =>
          /\ Extend(torn)' => Covers(Range(sidx), sources)'
          /\ \A e \in Range(sidx') : \E list \in torn' \cup {PathsOf(sources')} : IsLine(e, list)'
    BY <1>4, <1>6, <1>7, <2>2 DEF Covers, LinesOf
  <2> QED
    BY <1>4, <1>5, <1>11, <2>1, <2>3 DEF OnDisk
<1>13. /\ Ascending(sidx') /\ r.list \in torn'
       /\ r.base = 0 => (torn' = {r.list} /\ \A e \in Range(sidx') : IsLine(e, r.list)')
       /\ (r.base = 0 \/ Extend(torn)') => Covers(Range(sidx), r.stats)'
       /\ AllThere(r.list)' /\ r.list \in Lists /\ r.filter \in Filters
       /\ r.base > 0 => (sources' # NoFile /\ r.base = Len(sources') /\ IsStrictPrefix(sources', r.stats))
  <2>1. Covers(Range(sidx), r.stats)' <=> Covers(Range(sidx), r.stats)
    BY <1>4 DEF Covers, LinesOf
  <2> QED
    BY <1>3, <1>4, <1>5, <1>6, <1>7, <2>1
<1>14. PICK place \in {"bloom", "sources"} :
         /\ pc' = [pc EXCEPT ![c] = place]
         /\ sparse' = Sample(sidx', SparseInterval)
         /\ place = "sources" => (OneFilter => FilterOK(sidx', bloom'))
  <2>1. CASE PublishSparse(c)
    <3>1. pc' = [pc EXCEPT ![c] = "bloom"] /\ sparse' = Sample(sidx, SparseInterval)
      BY <2>1 DEF PublishSparse, Goto
    <3> QED
      BY <1>4, <3>1
  <2>2. CASE PublishBloom(c)
    <3>1. pc' = [pc EXCEPT ![c] = "sources"] /\ sparse' = sparse /\ pc[c] = "bloom"
      BY <2>2 DEF PublishBloom, Goto
    <3>2. sparse = Sample(sidx, SparseInterval)
      BY <1>2, <3>1 DEF BuildIs
    <3>3. OneFilter => FilterOK(sidx, bloom')
      <4>1. CASE r.filter
        BY <1>1, <2>2, <4>1 DEF PublishBloom, FilterOK
      <4>2. CASE ~r.filter
        <5>1. OneFilter => \A f \in Filters : ~f
          BY <1>3, <4>2 DEF OneFilter
        <5> QED
          BY <1>11, <5>1 DEF FilterOK
      <4> QED
        BY <4>1, <4>2
    <3> QED
      BY <1>4, <3>1, <3>2, <3>3
  <2> QED
    BY <2>1, <2>2
<1>15. BuildIs(place, r)'
  BY <1>13, <1>14 DEF BuildIs, FilterOK, OneFilter
<1>16. place \in Places /\ place \in Locked
  BY DEF Places, Locked, Building
<1>17. /\ lock' = c /\ c \notin clean' /\ torn' \subseteq Lists
       /\ clean' \subseteq (clean \ { d \in Caller : pc[d] \in Opening }) \cup {c}
       /\ UNCHANGED <<content, view, faults>>
  BY <1>2, <1>3, <1>4 DEF Shaped
<1> QED
  BY <1>2, <1>4, <1>9, <1>10, <1>12, <1>14, <1>15, <1>16, <1>17, PublishOn

LEMMA PublishSourcesOn ==
    ASSUME WInv, IInv', NEW c \in Caller, PublishSources(c)
    PROVE  WInv'
<1>1. PICK r \in CallType : r = call[c]
  BY CallIs
<1>2. /\ pc[c] = "sources" /\ pc[c] \in Building /\ pc[c] \in Locked
      /\ IInv /\ Typed /\ Shaped /\ OnDisk /\ BuildIs("sources", r) /\ IsView(view[c])
  BY <1>1, CallIs DEF PublishSources, Building, Locked
<1>3. /\ lock = c /\ c \notin clean /\ r.list \in Lists /\ r.list \in Seq(Path)
      /\ PathsOf(r.stats) = r.list /\ r.stats \in Stats /\ r.base \in Nat
  BY <1>1, <1>2, BuilderIs DEF CallType
<1>4. /\ Ascending(sidx) /\ r.list \in torn
      /\ r.base = 0 => (torn = {r.list} /\ \A e \in Range(sidx) : IsLine(e, r.list))
      /\ (r.base = 0 \/ Extend(torn)) => Covers(Range(sidx), r.stats)
      /\ r.base > 0 => (sources # NoFile /\ r.base = Len(sources) /\ IsStrictPrefix(sources, r.stats))
      /\ sparse = Sample(sidx, SparseInterval) /\ (OneFilter => FilterOK(sidx, bloom))
  BY <1>2 DEF BuildIs
<1>5. PICK place \in {"open", "idle"}, new \in CallType :
         /\ pc' = [pc EXCEPT ![c] = place] /\ call' = [call EXCEPT ![c] = new]
         /\ place = "open" <=> r.op = "ensure"
  <2>1. CASE r.op = "ensure"
    <3>1. Asked(r.list, r.stats) \in CallType
      BY <1>3 DEF Asked, NoCall, CallType
    <3>2. pc' = [pc EXCEPT ![c] = "open"] /\ call' = [call EXCEPT ![c] = Asked(r.list, r.stats)]
      BY <1>1, <2>1 DEF PublishSources, Goto
    <3> QED
      BY <2>1, <3>1, <3>2
  <2>2. CASE r.op # "ensure"
    <3>1. pc' = [pc EXCEPT ![c] = "idle"] /\ call' = [call EXCEPT ![c] = NoCall]
      BY <1>1, <2>2 DEF PublishSources, Goto
    <3> QED
      BY <2>2, <3>1, NothingIsShaped
  <2> QED
    BY <2>1, <2>2
<1>6. /\ sources' = r.stats /\ lock' = NoCaller
      /\ torn' = IF Repaired(c) THEN {} ELSE torn
      /\ clean' = (clean \ { d \in Caller : pc[d] \in Opening })
                     \cup IF r.op = "ensure" /\ Repaired(c) THEN {c} ELSE {}
      /\ UNCHANGED <<content, sidx, sparse, bloom, view, faults>>
  BY <1>1 DEF PublishSources, Recorded
<1>7. Repaired(c) <=> \A list \in torn : IsPrefix(list, r.list) /\ Len(list) >= r.base
  BY <1>1 DEF Repaired
<1>8. \A list \in torn : list \in Seq(Path) /\ Len(list) \in Nat
  <2>1. \A list \in torn : list \in Seq(Path)
    BY <1>2, ListAssumption DEF Shaped
  <2> QED
    BY <2>1
<1>9. r.base # 0 =>
        /\ sources # NoFile /\ sources \in Stats /\ PathsOf(sources) \in Seq(Path)
        /\ Len(PathsOf(sources)) = r.base /\ IsPrefix(PathsOf(sources), r.list)
  <2> SUFFICES ASSUME r.base # 0
               PROVE  /\ sources # NoFile /\ sources \in Stats /\ PathsOf(sources) \in Seq(Path)
                      /\ Len(PathsOf(sources)) = r.base /\ IsPrefix(PathsOf(sources), r.list)
    OBVIOUS
  <2>1. sources # NoFile /\ sources \in Stats /\ r.base = Len(sources) /\ IsStrictPrefix(sources, r.stats)
    BY <1>2, <1>3, <1>4 DEF Typed
  <2>2. PathsOf(sources) \in Seq(Path) /\ Len(PathsOf(sources)) = r.base
    BY <2>1, PathsIs
  <2>3. IsPrefix(PathsOf(sources), r.list)
    BY <1>3, <2>1, StrictIs
  <2> QED
    BY <2>1, <2>2, <2>3
\* Every entry is a line of the sources now recorded, or of an unfinished build.
<1>10. ASSUME NEW e \in Range(sidx)
       PROVE  /\ \E list \in torn \cup {r.list} : IsLine(e, list)
              /\ Repaired(c) => IsLine(e, r.list)
  <2>1. CASE r.base = 0
    BY <1>4, <2>1
  <2>2. CASE r.base # 0
    <3>1. PICK list \in torn \cup {PathsOf(sources)} : IsLine(e, list)
      BY <1>2, <1>9, <2>2 DEF OnDisk
    <3>2. list = PathsOf(sources) => IsLine(e, r.list)
      BY <1>3, <1>9, <2>2, <3>1, LinePrefix
    <3>3. list \in torn /\ Repaired(c) => IsLine(e, r.list)
      BY <1>3, <1>7, <1>8, <3>1, LinePrefix
    <3> QED
      BY <3>1, <3>2, <3>3
  <2> QED
    BY <2>1, <2>2
<1>11. Repaired(c) => Covers(Range(sidx), r.stats)
  <2> SUFFICES ASSUME Repaired(c), r.base # 0, NEW list \in torn
               PROVE  IsPrefix(PathsOf(sources), list)
    BY <1>4 DEF Extend
  <2>1. IsPrefix(list, r.list) /\ Len(list) >= r.base
    BY <1>7
  <2> QED
    BY <1>3, <1>8, <1>9, <2>1, PrefixOrder
<1>12. (\A list \in torn : IsPrefix(r.list, list)) => Covers(Range(sidx), r.stats)
  <2> SUFFICES ASSUME \A list \in torn : IsPrefix(r.list, list), r.base # 0, NEW list \in torn
               PROVE  IsPrefix(PathsOf(sources), list)
    BY <1>4 DEF Extend
  <2> QED
    BY <1>3, <1>8, <1>9, PrefixOrder
<1>13. /\ \A e, list : IsLine(e, list)' <=> IsLine(e, list)
       /\ \A S, stats : Covers(S, stats)' <=> Covers(S, stats)
  BY <1>6, SameLines
<1>14. Extend(torn)' => Covers(Range(sidx), sources)'
  <2> SUFFICES ASSUME Extend(torn)' PROVE Covers(Range(sidx), sources)'
    OBVIOUS
  <2>1. \A list \in torn' : IsPrefix(r.list, list)
    BY <1>3, <1>6 DEF Extend
  <2>2. Covers(Range(sidx), r.stats)
    BY <1>6, <1>11, <1>12, <2>1
  <2> QED
    BY <1>6, <2>2 DEF Covers, LinesOf
<1>15. \A e \in Range(sidx') : \E list \in torn' \cup {PathsOf(sources')} : IsLine(e, list)'
  BY <1>3, <1>6, <1>10, <1>13
<1>16. OnDisk'
  <2>1. (\A f \in Filters : ~f) => bloom' = NoFile
    BY <1>2, <1>6 DEF OnDisk
  <2>2. sparse' = Sample(sidx', SparseInterval) /\ (OneFilter => FilterOK(sidx', bloom')) /\ Ascending(sidx')
    BY <1>4, <1>6
  <2> QED
    BY <1>14, <1>15, <2>1, <2>2 DEF OnDisk
<1>17. BuildIs(place, new)'
  BY DEF BuildIs, Locked, Building
<1>18. c \in clean' => CleanIs(place, view[c])'
  <2> SUFFICES ASSUME c \in clean' PROVE CleanIs(place, view[c])'
    OBVIOUS
  <2>1. r.op = "ensure" /\ Repaired(c)
    BY <1>3, <1>6
  <2>2. torn' = {} /\ place = "open"
    BY <1>5, <1>6, <2>1
  <2> QED
    BY <2>2 DEF CleanIs, Opening
<1>19. /\ lock' \notin Caller /\ torn' \subseteq Lists /\ place \in Places
       /\ sparse' = NoFile \/ sparse' \subseteq [key : Key, at : Nat \ {0}]
       /\ bloom' = NoFile \/ bloom' \subseteq Key
  BY <1>2, <1>6, CallerAssumption DEF Shaped, Places, Opening
<1>20. /\ clean' \subseteq (clean \ { d \in Caller : pc[d] \in Opening }) \cup {c}
       /\ UNCHANGED <<content, view, faults>>
  BY <1>6
<1> QED
  BY <1>2, <1>5, <1>16, <1>17, <1>18, <1>19, <1>20, PublishOn

-----------------------------------------------------------------------------
(* A source grows; the process dies. *)

LEMMA AppendLineOn ==
    ASSUME WInv, IInv', NEW p \in Path, NEW k \in Key, AppendLine(p, k)
    PROVE  WInv'
<1>1. IInv /\ Typed /\ Shaped /\ OnDisk /\ Builds /\ CleanViews
  BY DEF WInv, IInv
<1>2. /\ UNCHANGED <<sidx, sparse, bloom, sources, lock, pc, call, view, torn, clean, faults>>
  BY DEF AppendLine, files, ghosts
<1>3. /\ \A e, list : IsLine(e, list) => IsLine(e, list)'
      /\ \A stats \in Stats : Seen(stats) => LinesOf(stats)' = LinesOf(stats)
      /\ \A v : Whole(v) => Whole(v)'
  BY <1>1, GrowthKeeps
<1>4. \A list : AllThere(list) => AllThere(list)'
  BY <1>1, LinesStay DEF AllThere
<1>5. Shaped'
  BY <1>1, <1>2 DEF Shaped
<1>6. OnDisk'
  <2>1. sources # NoFile => sources \in Stats /\ Seen(sources)
    BY <1>1 DEF Typed, IInv, RecordSeen
  <2>2. sources # NoFile => LinesOf(sources)' = LinesOf(sources)
    <3> SUFFICES ASSUME sources # NoFile PROVE LinesOf(sources)' = LinesOf(sources)
      OBVIOUS
    <3>1. PICK stats \in Stats : stats = sources
      BY <2>1
    <3>2. LinesOf(stats)' = LinesOf(stats)
      BY <1>3, <2>1, <3>1
    <3> QED
      BY <1>2, <3>1, <3>2 DEF LinesOf
  <2>3. Extend(torn)' => Extend(torn)
    BY <1>2 DEF Extend
  <2>4. sources # NoFile /\ Covers(Range(sidx), sources) => Covers(Range(sidx), sources)'
    BY <1>2, <2>2 DEF Covers
  <2>5. (sources # NoFile /\ \A e \in Range(sidx) : \E list \in torn \cup {PathsOf(sources)} : IsLine(e, list))
          => \A e \in Range(sidx) : \E list \in torn \cup {PathsOf(sources)} : IsLine(e, list)'
    BY <1>3
  <2>6. /\ sidx = NoFile \/ Ascending(sidx)
        /\ (\A f \in Filters : ~f) => bloom = NoFile
        /\ sources # NoFile =>
              /\ Ascending(sidx)
              /\ Extend(torn) => Covers(Range(sidx), sources)
              /\ \A e \in Range(sidx) : \E list \in torn \cup {PathsOf(sources)} : IsLine(e, list)
              /\ torn = {} => (sparse = Sample(sidx, SparseInterval) /\ (OneFilter => FilterOK(sidx, bloom)))
    BY <1>1 DEF OnDisk
  <2>7. sources # NoFile =>
              /\ Extend(torn)' => Covers(Range(sidx), sources)'
              /\ \A e \in Range(sidx) : \E list \in torn \cup {PathsOf(sources)} : IsLine(e, list)'
    BY <2>3, <2>4, <2>5, <2>6
  <2> QED
    BY <1>2, <2>6, <2>7 DEF OnDisk, FilterOK, OneFilter
<1>7. Builds'
  <2> SUFFICES ASSUME NEW c \in Caller PROVE BuildIs(pc[c], call[c])'
    BY DEF Builds
  <2>1. PICK place, r : place = pc[c] /\ r = call[c]
    OBVIOUS
  <2>2. BuildIs(place, r)
    BY <1>1, <2>1 DEF Builds
  <2>3. place \in Building => r.stats \in Stats /\ Seen(r.stats)
    BY <1>1, <2>1 DEF IInv, BuildAhead, Typed, IsCall
  <2>4. place \in Building => LinesOf(r.stats)' = LinesOf(r.stats)
    BY <1>3, <2>3
  <2>5. BuildIs(place, r)'
    <3>1. CASE place \notin Locked
      BY <3>1 DEF BuildIs, Locked, Building
    <3>2. CASE place = "stat"
      BY <1>2, <1>4, <2>2, <3>2 DEF BuildIs, Building
    <3>3. CASE place \in {"scan", "merge"}
      <4>1. LinesOf(r.stats)' = LinesOf(r.stats) /\ AllThere(r.list)'
        BY <1>4, <2>2, <2>4, <3>3 DEF BuildIs, Building, Locked
      <4>2. \A e \in r.runs : IsLine(e, r.list)'
        BY <1>3, <2>2, <3>3 DEF BuildIs
      <4> QED
        BY <1>2, <2>2, <3>3, <4>1, <4>2 DEF BuildIs, Building, Locked
    <3>4. CASE place \in {"sparse", "bloom", "sources"}
      <4>1. LinesOf(r.stats)' = LinesOf(r.stats) /\ AllThere(r.list)'
        BY <1>4, <2>2, <2>4, <3>4 DEF BuildIs, Building, Locked
      <4>2. r.base = 0 => \A e \in Range(sidx) : IsLine(e, r.list)'
        BY <1>3, <2>2, <3>4 DEF BuildIs
      <4>3. Covers(Range(sidx), r.stats) => Covers(Range(sidx), r.stats)'
        BY <1>2, <4>1 DEF Covers
      <4>4. Extend(torn)' => Extend(torn)
        BY <1>2 DEF Extend
      <4>5. (r.base = 0 \/ Extend(torn)') => Covers(Range(sidx), r.stats)'
        BY <2>2, <3>4, <4>3, <4>4 DEF BuildIs
      <4> QED
        BY <1>2, <2>2, <3>4, <4>1, <4>2, <4>5 DEF BuildIs, Building, Locked, FilterOK, OneFilter
    <3> QED
      BY <3>1, <3>2, <3>3, <3>4 DEF Locked, Building
  <2>6. place = pc'[c] /\ r = call'[c]
    BY <1>2, <2>1
  <2> QED
    BY <2>5, <2>6 DEF BuildIs
<1>8. CleanViews'
  <2> SUFFICES ASSUME NEW c \in clean PROVE CleanIs(pc[c], view[c])'
    BY <1>2 DEF CleanViews
  <2>1. PICK place, v : place = pc[c] /\ v = view[c]
    OBVIOUS
  <2>2. CleanIs(place, v)
    BY <1>1, <2>1 DEF CleanViews
  <2>3. CleanIs(place, v)'
    BY <1>2, <1>3, <2>2 DEF CleanIs
  <2>4. place = pc'[c] /\ v = view'[c]
    BY <1>2, <2>1
  <2> QED
    BY <2>3, <2>4 DEF CleanIs
<1> QED
  BY <1>5, <1>6, <1>7, <1>8 DEF WInv

LEMMA CrashOn == ASSUME WInv, IInv', Crash PROVE WInv'
<1>1. Shaped /\ OnDisk
  BY DEF WInv
<1>2. /\ pc' = [c \in Caller |-> "idle"] /\ call' = [c \in Caller |-> NoCall]
      /\ view' = [c \in Caller |-> NoView] /\ lock' = NoCaller /\ clean' = {}
      /\ UNCHANGED <<content, files, torn>>
      /\ faults' = faults + 1 /\ faults < MaxFaults
  BY DEF Crash
<1>3. OnDisk'
  BY <1>1, <1>2, SameFiles
<1>4. Shaped'
  <2>1. faults' \in 0 .. MaxFaults
    BY <1>1, <1>2, BoundAssumption DEF Shaped
  <2>2. sparse' = sparse /\ bloom' = bloom
    BY <1>2 DEF files
  <2>3. \A c \in Caller : call'[c] \in CallType /\ IsView(view'[c])
    BY <1>2, NothingIsShaped
  <2> QED
    BY <1>1, <1>2, <2>1, <2>2, <2>3, CallerAssumption DEF Shaped
<1>5. Builds'
  <2> SUFFICES ASSUME NEW c \in Caller PROVE BuildIs(pc[c], call[c])'
    BY DEF Builds
  <2>1. pc'[c] \notin Locked
    BY <1>2 DEF Locked, Building
  <2> QED
    BY <2>1 DEF BuildIs, Locked, Building
<1>6. CleanViews'
  BY <1>2 DEF CleanViews
<1> QED
  BY <1>3, <1>4, <1>5, <1>6 DEF WInv

-----------------------------------------------------------------------------
(* The invariant of the files, and what follows from it. *)

LEMMA InitWInv == ASSUME Init PROVE WInv
<1>1. IInv
  BY InitIInv
<1>2. Shaped
  <2>1. \A c \in Caller : call[c] \in CallType /\ IsView(view[c])
    BY NothingIsShaped DEF Init
  <2> QED
    BY <2>1, CallerAssumption, BoundAssumption DEF Init, Shaped
<1>3. OnDisk
  BY DEF Init, OnDisk
<1>4. Builds
  <2> SUFFICES ASSUME NEW c \in Caller PROVE BuildIs(pc[c], call[c])
    BY DEF Builds
  <2>1. pc[c] \notin Locked
    BY DEF Init, Locked, Building
  <2> QED
    BY <2>1, NotBuilding
<1>5. CleanViews
  BY DEF Init, CleanViews
<1> QED
  BY <1>1, <1>2, <1>3, <1>4, <1>5 DEF WInv

LEMMA StepWInv == ASSUME WInv, [Next]_vars PROVE WInv'
<1>0. IInv'
  BY StepIInv DEF WInv
<1>1. ASSUME NEW p \in Path, NEW k \in Key, AppendLine(p, k) PROVE WInv'
  BY <1>0, <1>1, AppendLineOn
<1>2. ASSUME NEW c \in Caller, NEW list \in Lists, FindsFresh(c, list) PROVE WInv'
  BY <1>0, <1>2, FindsFreshOn
<1>3. ASSUME NEW c \in Caller, NEW list \in Lists, NEW f \in Filters,
             ChoosesRefresh(c, list, f) \/ ChoosesBuild(c, list, f) \/ CallBuild(c, list, f)
      PROVE  WInv'
  BY <1>0, <1>3, ChoosesRefreshOn, StartsOn
<1>4. ASSUME NEW c \in Caller, CallOpen(c) PROVE WInv'
  BY <1>0, <1>4, OpensOn
<1>5. ASSUME NEW c \in Caller, CallerStep(c) PROVE WInv'
  BY <1>0, <1>5, StatSourcesOn, ScanSourceOn, PublishEntriesOn, PublishSamplesOn,
     PublishSourcesOn, EndsOn, OpensOn
     DEF CallerStep
<1>6. ASSUME NEW c \in Caller, BuildFails(c) \/ Close(c) PROVE WInv'
  BY <1>0, <1>6, EndsOn
<1>7. CASE Crash
  BY <1>0, <1>7, CrashOn
<1>8. CASE UNCHANGED vars
  <2>1. UNCHANGED <<content, files, torn, pc, call, view, clean, lock, faults>>
    BY <1>8 DEF vars, ghosts
  <2>2. Shaped'
    BY <2>1 DEF WInv, Shaped, files
  <2>3. /\ OnDisk'
        /\ \A place, r : BuildIs(place, r) => BuildIs(place, r)'
        /\ \A place, v : CleanIs(place, v) => CleanIs(place, v)'
    BY <2>1, SameFiles DEF WInv
  <2>4. Builds'
    <3> SUFFICES ASSUME NEW c \in Caller PROVE BuildIs(pc[c], call[c])'
      BY DEF Builds
    <3>1. PICK place, r : place = pc[c] /\ r = call[c]
      OBVIOUS
    <3>2. BuildIs(place, r)' /\ place = pc'[c] /\ r = call'[c]
      BY <2>1, <2>3, <3>1 DEF WInv, Builds
    <3> QED
      BY <3>2 DEF BuildIs
  <2>5. CleanViews'
    <3> SUFFICES ASSUME NEW c \in clean PROVE CleanIs(pc[c], view[c])'
      BY <2>1 DEF CleanViews
    <3>1. PICK place, v : place = pc[c] /\ v = view[c]
      OBVIOUS
    <3>2. CleanIs(place, v)' /\ place = pc'[c] /\ v = view'[c]
      BY <2>1, <2>3, <3>1 DEF WInv, CleanViews
    <3> QED
      BY <3>2 DEF CleanIs
  <2> QED
    BY <1>0, <2>2, <2>3, <2>4, <2>5 DEF WInv
<1> QED
  BY <1>1, <1>2, <1>3, <1>4, <1>5, <1>6, <1>7, <1>8 DEF Next

\* The strengthened invariant of the files: what the entries hold and lack, at every
\* point of a publication and after any failure (sortedindex_build.go buildSortedIndexLocked,
\* refreshSortedIndexLocked).
THEOREM FilesInvariance == Spec => []WInv
BY InitWInv, StepWInv, PTL DEF Spec

\* The variables have their types, and the lock is held exactly by a caller between its
\* decision and its record (sortedindex.go lockIndexPath).
THEOREM TypeCorrect == Spec => []TypeOK
<1>1. WInv => TypeOK
  <2> SUFFICES ASSUME WInv PROVE TypeOK
    OBVIOUS
  <2>1. Typed /\ Shaped /\ OnDisk /\ OneBuilder
    BY DEF WInv, IInv
  <2>2. sidx = NoFile \/ sidx \in Seq([key : Key, file : Nat \ {0}, off : Nat \ {0}])
    BY <2>1 DEF OnDisk, Ascending, Entry
  <2>3. \A p \in Path : content[p] = NoFile \/ content[p] \in Seq(Key)
    BY <2>1 DEF Typed
  <2>4. \A c \in Caller : (pc[c] \in Locked) <=> (lock = c)
    BY <2>1 DEF OneBuilder, Shaped
  <2> QED
    BY <2>1, <2>2, <2>3, <2>4 DEF TypeOK, Typed, Shaped
<1> QED
  BY <1>1, FilesInvariance, PTL

\* Whatever builds ran, failed or were cut short, in whatever order: when nobody builds and
\* no publication is unfinished, the files answer as the recorded sources do
\* (sortedindex.go OpenSortedIndex, Get, Prefix), as long as all calls agree on the filter.
THEOREM CacheStaysWhole == Spec => [](OneFilter => CacheIsWhole)
<1>1. WInv => (OneFilter => CacheIsWhole)
  <2> SUFFICES ASSUME WInv, OneFilter, sources # NoFile, torn = {}
               PROVE  AnswersRight([record |-> sources, entries |-> sidx,
                                    sparse |-> sparse, bloom |-> bloom])
    BY DEF CacheIsWhole
  <2> DEFINE v == [record |-> sources, entries |-> sidx, sparse |-> sparse, bloom |-> bloom]
  <2>1. sources \in Stats /\ Seen(sources) /\ OnDisk
    BY DEF WInv, IInv, RecordSeen, Typed
  <2>2. Extend(torn)
    BY DEF Extend
  <2>3. Whole(v)
    BY <2>1, <2>2 DEF OnDisk, Whole
  <2> QED
    BY <2>3, AnswersAre
<1> QED
  BY <1>1, FilesInvariance, PTL

\* What EnsureFresh or OpenSortedIndex opened, undisturbed by another build, answers as the
\* sources it records do, however much they grow meanwhile.
THEOREM OpenedAnswersRight == Spec => [](OneFilter => OpenedIsRight)
<1>1. WInv => (OneFilter => OpenedIsRight)
  <2> SUFFICES ASSUME WInv, OneFilter PROVE OpenedIsRight
    OBVIOUS
  <2>1. OpenedAsAsked
    <3> SUFFICES ASSUME NEW c \in clean, pc[c] = "done", call[c].op = "ensure"
                 PROVE  AsAsked(view[c].record, call[c])
      BY DEF OpenedAsAsked
    <3>1. "done" # "open"
      OBVIOUS
    <3> QED
      BY <3>1 DEF WInv, IInv, CleanIsFresh
  <2>2. ASSUME NEW c \in clean, pc[c] = "done" PROVE AnswersRight(view[c])
    <3>1. Whole(view[c])
      BY <2>2 DEF WInv, CleanViews, CleanIs
    <3> QED
      BY <3>1, AnswersAre
  <2> QED
    BY <2>1, <2>2 DEF OpenedIsRight
<1> QED
  BY <1>1, FilesInvariance, PTL

\* The filter of a finished build denies no key of its entries (bloom.go, sortedindex.go Get),
\* as long as all calls agree on whether there is one.
THEOREM FilterStaysWhole == Spec => [](OneFilter => FilterKnowsEveryKey)
<1>1. WInv => (OneFilter => FilterKnowsEveryKey)
  BY DEF WInv, OnDisk, FilterKnowsEveryKey, FilterOK
<1> QED
  BY <1>1, FilesInvariance, PTL

=============================================================================
