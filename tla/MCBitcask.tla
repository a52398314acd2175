------------------------------ MODULE MCBitcask ------------------------------
(* Instances of Bitcask for TLC, and the properties that need fairness. *)
EXTENDS Bitcask, TLC

CONSTANTS k1, k2, v1, v2, bg, user

Symmetry == Permutations({k1, k2}) \cup Permutations({v1, v2})

\* A scan with records still to read runs on a mapped segment.
NoUseAfterUnmap == \A c \in Compactor : job[c].pc = "scan" => job[c].src \in mapped

\* What an Open would find, were the process to stop now.  README.md calls the full scan
\* after a compaction "a deliberate, safe tradeoff" (156-158), so it has to restore what
\* was written: a key that has a value gets that value back, although compaction moves
\* older records into a segment that is replayed later (compaction.go nextSegID).  Of a
\* deleted key, whose tombstone compaction may have dropped, nothing is claimed.
LatestPutRecovered ==
    proc = "open" => \A k \in Key : Content[k] # Absent => Recovered[k] = Content[k]

\* A compactor goes on once it has something to do, the ticker keeps firing, and
\* the loop's select, which picks at random between a tick and the stop signal,
\* does not prefer the tick for ever.
FairSpec ==
    /\ Spec
    /\ \A c \in Compactor : WF_vars(CompactorStep(c))
    /\ WF_vars(StartPass(Bg))
    /\ SF_vars(FinishClose)

\* Close returns: the background compactor always gets to see the stop signal.
CloseCompletes == proc = "closing" ~> proc \in {"closed", "down"}

\* A segment over the ratio is compacted away, however writers and a caller of
\* Compact interfere.
GarbageReclaimed ==
    (proc = "open" /\ Eligible # {}) ~> (proc # "open" \/ Eligible = {})

====
