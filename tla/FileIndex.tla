------------------------------ MODULE FileIndex ------------------------------
(***************************************************************************)
(* The line-file index (internal/fileindex): an append-only file of lines, *)
(* and in memory the place of each key's last line, found again by a scan  *)
(* on every open.                                                          *)
(*                                                                         *)
(* The file is a sequence of tokens: NL, and the two halves of each line,  *)
(* so that a write can stop within a line, between a line and its newline, *)
(* or before the newline that seals a torn tail.  The key function rejects *)
(* what is not one whole line, as JSONStringKey does (json.Valid): a half, *)
(* two lines run together, a blank.                                        *)
(*                                                                         *)
(* Put holds the lock over the write and what follows it; the two are      *)
(* steps because the process may die in between.                           *)
(***************************************************************************)
EXTENDS Integers, FiniteSetsExt, Sequences

CONSTANTS Key, Val,
          Absent,       \* what reading no key gives
          Missing,      \* what reading a place that holds no line gives
          MaxLen,       \* bound: tokens in the file
          MaxFaults     \* bound: writes cut short

ASSUME ValueAssumption == Absent \notin Val /\ Missing \notin Val
ASSUME BoundAssumption == MaxLen \in Nat /\ MaxFaults \in Nat

VARIABLES
    file,           \* the file's contents
    open,           \* whether an index is open on it
    size, unterminated, idx,
    put,            \* the Put under way: what it writes, and how much it wrote
    weak,           \* ghost: keys that a reopen may read otherwise
    faults          \* counter for the bound

mem == <<size, unterminated, idx>>
vars == <<file, open, mem, put, weak, faults>>

NL == [key |-> Absent, val |-> Absent, half |-> 0]
Half == [key : Key, val : Val, half : {1, 2}]
Line(k, v) == << [key |-> k, val |-> v, half |-> 1], [key |-> k, val |-> v, half |-> 2] >>
NoLoc == [off |-> 0, len |-> 0]
NoPut == [key |-> Absent, val |-> Absent, n |-> 0]
Idle == put = NoPut

TypeOK ==
    /\ file \in Seq(Half \cup {NL})
    /\ open \in BOOLEAN
    /\ size \in 0 .. Len(file)
    /\ unterminated \in BOOLEAN
    /\ idx \in [Key -> [off : 0 .. Len(file), len : 0 .. Len(file)]]
    /\ put \in [key : Key, val : Val, n : Nat] \cup {NoPut}
    /\ weak \subseteq Key
    /\ faults \in 0 .. MaxFaults

\* What may be there before: nothing, a file another tool wrote, whose last line
\* may lack its newline, or one that was cut short.
Init ==
    /\ \E k \in Key, v \in Val :
          file \in { <<>>, <<NL>>, Line(k, v), Append(Line(k, v), NL), SubSeq(Line(k, v), 1, 1) }
    /\ open = FALSE
    /\ size = 0 /\ unterminated = FALSE /\ idx = [k \in Key |-> NoLoc]
    /\ put = NoPut /\ weak = {} /\ faults = 0

-----------------------------------------------------------------------------
(* Lines. *)

\* The key function accepts the text at a place.
Whole(f, loc) ==
    /\ loc.len = 2 /\ f[loc.off + 1].half = 1
    /\ f[loc.off + 2] = [f[loc.off + 1] EXCEPT !.half = 2]

\* The places of lines: each from a newline, or the start, to the next, or the end.
Starts(f) == {0} \cup { i \in 1 .. Len(f) : f[i] = NL }
EndFrom(f, o) == Min({ i - 1 : i \in Starts(f) \ 0 .. o } \cup {Len(f)})
LinesIn(f) == { [off |-> o, len |-> EndFrom(f, o) - o] : o \in Starts(f) }

LinesOf(f, k) == { loc \in LinesIn(f) : Whole(f, loc) /\ f[loc.off + 1].key = k }

\* Mutant of Latest: the first line of a key wins.
Earliest(places) ==
    IF places = {} THEN NoLoc
    ELSE CHOOSE loc \in places : \A other \in places : loc.off <= other.off
Latest(places) ==
    IF places = {} THEN NoLoc
    ELSE CHOOSE loc \in places : \A other \in places : other.off <= loc.off

\* Mutant of Rebuilt: a last line without a newline is taken for torn.
RebuiltTerminated(f) ==
    [k \in Key |-> Latest({ loc \in LinesOf(f, k) : loc.off + loc.len < Len(f) })]
\* What the scan finds: the last line of each key.
Rebuilt(f) == [k \in Key |-> Latest(LinesOf(f, k))]

\* What Get returns: whatever is at the place, which the key itself is not checked against.
ReadAt(f, loc) ==
    IF loc = NoLoc THEN Absent
    ELSE IF Whole(f, loc) THEN f[loc.off + 1].val ELSE Missing
Content == [k \in Key |-> ReadAt(file, idx[k])]
Recovered == LET found == Rebuilt(file) IN [k \in Key |-> ReadAt(file, found[k])]

-----------------------------------------------------------------------------
(* Operations. *)

\* Mutant of Open: the end of the file is not looked at.
OpenAnyTail ==
    /\ ~open /\ open' = TRUE
    /\ size' = Len(file) /\ unterminated' = FALSE
    /\ idx' = Rebuilt(file)
    /\ weak' = {}
    /\ UNCHANGED <<file, put, faults>>
\* OpenFileIndex: the scan.
Open ==
    /\ ~open /\ open' = TRUE
    /\ size' = Len(file)
    /\ unterminated' = (file # <<>> /\ file[Len(file)] # NL)
    /\ idx' = Rebuilt(file)
    /\ weak' = {}
    /\ UNCHANGED <<file, put, faults>>

\* Mutant of Seal: a torn tail is appended to as it is.
SealNothing == <<>>
Seal == IF unterminated THEN <<NL>> ELSE <<>>

\* Mutant of Advance: the offset moves by what was to be written.
AdvanceAll(buf, n) ==
    /\ size' = size + Len(buf)
    /\ unterminated' = IF n > 0 THEN buf[n] # NL ELSE unterminated
Advance(buf, n) ==
    /\ size' = size + n
    /\ unterminated' = IF n > 0 THEN buf[n] # NL ELSE unterminated

Spliced(buf, n) ==
    SubSeq(file, 1, size) \o SubSeq(buf, 1, n) \o SubSeq(file, size + n + 1, Len(file))

\* WriteAt: n tokens of the line reach the file.  Once it is whole, with its
\* newline or without, a scan finds it, whether or not the Put is ever answered.
Write(k, v, n) ==
    LET buf == Append(Seal \o Line(k, v), NL) IN
    /\ open /\ Idle
    /\ n \in 0 .. Len(buf)
    /\ size + n <= MaxLen
    /\ IF n = Len(buf) THEN UNCHANGED faults ELSE faults < MaxFaults /\ faults' = faults + 1
    /\ file' = Spliced(buf, n)
    /\ Advance(buf, n)
    /\ put' = [key |-> k, val |-> v, n |-> Len(buf) - n]
    /\ weak' = IF n >= Len(buf) - 1 THEN weak \cup {k} ELSE weak
    /\ UNCHANGED <<open, idx>>

\* The write was complete: the index follows.  The line is before its newline.
PutDone ==
    /\ ~Idle /\ put.n = 0
    /\ idx' = [idx EXCEPT ![put.key] = [off |-> size - 3, len |-> 2]]
    /\ put' = NoPut
    /\ weak' = weak \ {put.key}
    /\ UNCHANGED <<file, open, size, unterminated, faults>>

PutFails ==
    /\ ~Idle /\ put.n > 0
    /\ put' = NoPut
    /\ UNCHANGED <<file, open, mem, weak, faults>>

\* Nothing is written: the key's lines stay, and the next scan finds them.
Delete(k) ==
    /\ open /\ Idle
    /\ idx' = [idx EXCEPT ![k] = NoLoc]
    /\ weak' = IF idx[k] = NoLoc THEN weak ELSE weak \cup {k}
    /\ UNCHANGED <<file, open, size, unterminated, put, faults>>

\* An error of the sync or the close is reported, and the index is closed anyway.
Close ==
    /\ open /\ Idle /\ open' = FALSE
    /\ UNCHANGED <<file, mem, put, weak, faults>>

Crash ==
    /\ open /\ open' = FALSE
    /\ put' = NoPut
    /\ UNCHANGED <<file, mem, weak, faults>>

Next ==
    \/ Open
    \/ \E k \in Key, v \in Val, n \in 0 .. 4 : Write(k, v, n)
    \/ PutDone
    \/ PutFails
    \/ \E k \in Key : Delete(k)
    \/ Close
    \/ Crash

Spec == Init /\ [][Next]_vars

-----------------------------------------------------------------------------
(* Properties. *)

\* The offset and the flag that Put relies on describe the file, after writes cut
\* short at any point (fileindex.go Put: "unterminated is already set so the next
\* Put seals it").
TailKnown ==
    open => size = Len(file) /\ (unterminated <=> (file # <<>> /\ file[Len(file)] # NL))

\* Every indexed place is a whole line of its key, by itself between newlines:
\* no write merges into a torn tail or into another line.
LinesAreWhole ==
    open => \A k \in Key : idx[k] # NoLoc => idx[k] \in LinesOf(file, k)

\* A reopen finds what reads return now, except for a key that was deleted since
\* its last Put or whose failed Put left a whole line in the file.
RecoverableUnlessWeak ==
    open => LET found == Rebuilt(file) IN \A k \in Key \ weak : found[k] = idx[k]

\* The index implements the store of module KVStore: a Put that returned survives
\* any crash, a torn one changes no key, and a failed one at most its own.
Store == INSTANCE KVStore WITH
    kv <- IF open THEN Content ELSE Recovered, up <- open
ImplementsStore == Store!Spec

=============================================================================
