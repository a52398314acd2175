---------------------------- MODULE MCSortedIndex ----------------------------
(* Instances of SortedIndex for TLC, and its merge and its search on all small inputs. *)
EXTENDS SortedIndex, TLC

CONSTANTS a, b, c1, c2

\* A source, another one, and one that comes after it.
MCLists == { <<a>>, <<b>>, <<a, b>> }

Symmetry == Permutations({c1, c2})

\* Of a caller whose files were replaced while it opened them nothing is claimed, and
\* nothing it read has a further effect: states that differ in it only are one.
Matters(f, none) ==
    [c \in Caller |-> IF c \notin clean /\ pc[c] \in Opening \cup {"done"} THEN none ELSE f[c]]
StateView == <<content, files, lock, pc, Matters(call, NoCall), Matters(view, NoView), ghosts>>

\* mergeRuns against its comment: of the lines of a key the last one of the last
\* source is kept, and the entries ascend.
SmallLines == [key : {1, 2}, file : {1, 2}, off : {1, 2}]
ASSUME MergeIsRight ==
    \A S \in { T \in SUBSET SmallLines : \A d, e \in T : d.file = e.file /\ d.off = e.off => d = e } :
       LET s == Merged(S) IN
       /\ \A i, j \in DOMAIN s : i < j => s[i].key < s[j].key
       /\ { e.key : e \in Range(s) } = { e.key : e \in S }
       /\ \A e \in Range(s) : e \in S /\ 10 * e.file + e.off = Max({ 10 * d.file + d.off : d \in { x \in S : x.key = e.key } })

\* floorOffset and the scans of Get and Prefix, for each distance of samples: a key is
\* found, wherever it lies between two samples, exactly when it has an entry, and so
\* are those of a range, wherever it begins and ends.
ASSUME SearchIsRight ==
    \A K \in SUBSET (1 .. 6), n \in 1 .. 4, k \in 0 .. 7 :
       LET s == Merged({ [key |-> x, file |-> 1, off |-> x] : x \in K })
           v == [record |-> <<>>, entries |-> s, sparse |-> Sample(s, n), bloom |-> NoFile] IN
       /\ Found(v, k) = { e \in Range(s) : e.key = k }
       /\ \A last \in 0 .. 7 : Scanned(v, k, last) = { e \in Range(s) : e.key \in k .. last }

====
