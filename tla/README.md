# Formal specifications of the in-memory-indexed key-value store

TLA+ models of the store in this repository, TLC configurations that check them
on small instances, and TLAPS proofs of the properties that matter most.

    tlc -workers 2 -config BitcaskRecovery.cfg MCBitcask     # one run
    tlapm BitcaskProofs.tla                                  # the proofs

## 1. The system

A Go library with three kinds of embedded store, each with a manager that opens
them by name and closes them when idle. Everything runs in one process;
goroutines share state under mutexes, and the only messages are a stop channel
and a ticker per background goroutine.

| component | state | operations | talks to | hard behaviour |
|---|---|---|---|---|
| engine `internal/bitcask` | segment files, index snapshot, in-memory index, dead-byte counters, active segment and compaction output | `Open` (recovery), `Put`, `Get`, `Delete`, `Sync`, `Compact`, `Close`, iterators, `Stats` | index, mapped files | the compactor scans without the lock; callers of `Compact` race with the background goroutine and with `Close`; crash between unlink and snapshot removal; replay order |
| key index `bitcask/index.go`, `arena.go` | open-addressing table, counters, key arena | `get`, `put`, `delete`, `rehash`, `forEach` | engine (under its lock) | probing over tombstones, rehash at the load limit, stale locations |
| pool `internal/pool` and the three managers | entries, reference counts, idle clocks, closed flag | `Acquire`, `Release`, `Sweep`, `Close`, `Stats` | opens and closes stores | reaper against acquire, close against acquire, double release |
| file index `internal/fileindex` | line file, map of line places, append offset, torn-tail flag | `Open` (scan), `Put`, `Get`, `Delete`, `Sync`, `Close` | file system | torn appends, crash, failed writes that landed |
| sorted index build `sortedindex_build.go`, `_refresh.go`, `bloom.go` | run files, the published `.sidx`, `.sparse`, `.bloom`, `.sources` | full build, incremental refresh | source files | several files renamed one after another, stale bloom filter, precedence in the merge |
| sorted index queries `sortedindex.go` | mapped index and sparse entries | `Get`, range scan | source files | boundaries of sparse blocks |
| `EnsureFresh` `sortedindex_sources.go` | a lock per path, recorded source stats | stat, build or refresh, open | build | the lock is released before the files are opened |
| mapped files `internal/mmapfile` | descriptor, mapping | create, open, truncate, close | kernel | partial failure leaves a file or no mapping |
| iterators `internal/kvtypes` | copied keys | next, value | stores | keys deleted, or the store closed, in between |
| facade (root package): `Bucket`, `Typed`, `FileIndexStore` | none of its own | encodings of store calls | engine, file index | none of its own |

What makes each correct: the engine and the file index behave as a map that a
restart leaves as it was (module `KVStore` says exactly how far); compaction is
invisible and destroys nothing that is live; the index table is a map and stays
of bounded size; the pool closes nothing that is held and leaves nothing open; a
sorted index answers from one consistent build of the sources it was asked for.

## 2. How the modules fit

1. `KVStore`: the abstract store. `Bitcask`: the engine, implementing it.
2. `Durability`: everything `Bitcask` does, on a machine that loses power, with
   `Sync`, `SyncOnWrite` and records that cannot be read.
3. `HashIndex`: the table behind the map `idx` of module `Bitcask`.
4. `Pool`: the pool and its reaper. `SortedManager`: the sorted index manager, whose
   every step is one of the pool's or none of them.
5. `FileIndex`: the line file, implementing `KVStore`.
6. `SortedIndex`: builds, refreshes and `EnsureFresh` by concurrent callers, the
   publication of four files one by one, failures and crashes in between, opening
   after the lock is released; merge, search and range scan as operators.

`Durability` and `SortedManager` extend a module and wrap its actions, so that what
holds of the smaller one is not stated twice: the theorems of the pool are theorems
of the manager, and those of the engine hold while the power is on (section 6). Each `MC`
module instantiates one of them for TLC. Each `Proofs` module holds the theorems about one,
except that the engine has two (`BitcaskProofs`, `BitcaskStoreProofs`) and that `PoolProofs` is
about the manager too.

## 3. The modules

### KVStore
A map `kv`, whether the store is `up`, and the set `weak` of keys that a restart
may change. A write changes one key; maintenance changes nothing that reads
return; a stop or a restart changes weak keys only. The set is there because the
code does not keep the plain promise: `Bitcask` and `FileIndex` say, each with its
own rule taken from the code, when a key is weak.

### Bitcask, MCBitcask
State: `dir` and `file` are the segment files (records, used size, capacity),
`snap` the index snapshot; `idx`, `segments`, `active`, `compactOut`, `nextSegID`,
`deadBytes`, `compactErr` are the fields of `DB`; `mapped` the segments whose
mapping is open; `job[c]` where compactor `c` is in `compactNow`.

Each critical section under `db.mu` is one action: `Put`, `Delete`, `WriteFails`
(a rotation that cannot create its file), `StartPass`, `Pick`, `Check`, then the
scan record by record (`BeginScan`, `SkipRecord`, `Relocate`, `RelocateFails`,
`ScanUnmapped`), `Drop`, `Remove`, `RemoveFails`, `RemoveSnapshot`, and
`BeginClose`, `FinishClose`, `SnapshotFails`, `CloseCutShort`, `Crash`, `Open`.
Rotation with its finalize is part of the append. Any number of compactors run:
`Bg`, which `Close` waits for, and callers of `Compact`, which it does not wait for.

A key is weak (ghost `weak`) when an append puts its newest record into a segment
with a lower id than one that holds an older record of it, or below the watermark of a
snapshot that is in use (`Passed`: a `Compact` that goes on after a `Close` that failed
half-way), or when a segment with its tombstone is removed while something older is
left; a full scan clears the set, since what it reads is then what the store holds.

Abstractions. A location counts records; a tombstone has size 1 and a value
`ValSize`, since rotation and the ratio are about sizes. A torn record is cut off
by its checksum, so a torn append is no append. A crash ends the process and keeps
the page cache. Reading is the function `Content`. Opening again is modelled when
every goroutine of the old `DB` has left `compactNow`. The background loop's note of
the last error is set where the pass ends. A `Create` that fails may leave its empty
file, which later rotations run into (`O_EXCL`; the file may have its full size already,
and no step asks). After a `Close` that failed half-way an append to an output that it
unmapped is an error; here it succeeds, which allows more. Not modelled: a failing truncate,
offsets of 32 bits.

### Durability, MCDurability
Added state: `flushed`, how many leading records of each segment an fsync has covered;
`lost`, the places of records that cannot be read any more; `tail`, what a file holds
beyond its used part; `power`; and the ghost `acked`, the keys whose last write a caller
was told is durable. `DPut`, `DDelete`, `DRelocate` and the others are the actions of
`Bitcask` with what they do to that state; `Sync` is the call; `Flush` is the fsync of
each segment in `Close`. `PowerLoss` takes any set of records that no fsync covered (the
kernel may have written back any pages), `PowerLossInClose` strikes after the snapshot
was synced and renamed and before the segments are.

Recovery (`DOpen`) stops in a segment at the first record it scans and cannot read
(`Kept`), scans nothing that the snapshot covers (`Skipped`), cuts every segment but the
last at that point, and leaves in the last one what lies behind (`Behind`). A later
append overwrites that from its start (`Overwritten`), and a scan that reads up to it
runs on into what is still whole (`Revived`). Reads look at no checksum: at a place with
other bytes they return `Garbage`. The compactor's scan stops likewise (`ScanStops`)
and the segment is dropped. A reopen that uses a snapshot makes the keys weak whose records
it cuts off (`CutOff`): what the snapshot says of them a later scan without it need not find.

Abstractions. Creating, shrinking, renaming and unlinking a file are durable at once;
fsync does not fail; there is one loss of power. A record is unreadable as a whole.

### HashIndex, MCHashIndex
The table is a record of slots, capacity and the two counters, as in `index`;
`hash` is any function (the seed is drawn at random), so TLC covers all of them. A
probe loop is the least distance at which it ends; `Put` is `maybeRehash`, the probe,
reuse of the first tombstone, and the forced rehash when no probe ends; `Delete`
leaves a tombstone. Ghosts: the map it should be, and the most entries it ever held.
`SizeAssumption` asks of the sizes that a table below its load factor has two slots to
spare; the code has 1024 slots and 0.65.

### Pool
A critical section under `Pool.mu` or `Entry.mu` is one action. `Acquire` is
`CheckOpen` (no lock), `Register`, then under the entry's lock `Rejected`,
`AcquireLive` or `BeginOpen` with `OpenSucceeds`/`OpenFails`: opening runs under
the lock and takes long, so `Locked` keeps others out. `Release` is the swap of
`released` and `DropRef`. The reaper's sweep is `Fire` (reads the time and copies
the entries), `SweepEntry` per entry, `EndSweep`; `Close` is `BeginClose`, waiting
for the reaper, `CopyEntries`, `CloseEntry` per entry, `FinishClose`. `idle` counts
ticks of the clock up to the TTL, and `ripe` is what was idle long enough when the
sweep's tick came. An error of a resource's own close is only reported, and left out, and so
is an `Acquire` of an invalid name, which changes nothing. Reading the time of a tick and
copying the entries are one step: an entry registered in between is merely not visited.

### SortedManager, MCSortedManager
`sources` is the map the manager keeps under its own lock, `grabbed` the copy the open
callback makes of its name's list, `built` what each open index was built from. `Ask` is
`Acquire` up to the pool's first look at `closed` (recording and looking are one step,
as `closed` is only ever set), `AskRefused` the same on a closed pool; `ReadSources`, then
`BuildSucceeds` or `BuildFails`, are the callback under the entry's lock; `Enter`, `Leave`
and `InBackground` are the pool's own steps. Ghost `since`: the lists recorded for its
name since a client asked. `Manager` and `FileIndexManager` have a fixed file per name
and are the pool alone.

### FileIndex, MCFileIndex
The file is a sequence of tokens, a newline or half a line, so that a write can stop
inside a line, before its newline, or before the newline that seals a torn tail.
`Write` is the `WriteAt`, which may be cut short by an error or a crash; `PutDone` and
`PutFails` are what follows it. `Open` is the scan. A key is weak once deleted
(nothing is written), and from the moment a line of it is whole in the file until
its `Put` returns.

### SortedIndex, MCSortedIndex
State: `content` are the sources, `sidx`, `sparse`, `bloom`, `sources` the index's four
files, `lock` the lock of the path in `buildLocks`; `pc`, `call` and `view` where each
caller is, what it works on and what it has opened. Callers share one index path and
ask for different lists of sources.

`EnsureFresh` takes the lock, stats the sources and decides in one step
(`FindsFresh`, `ChoosesRefresh`, `ChoosesBuild`): nobody else touches the files
meanwhile. A full build (also `CallBuild`, from `BuildSortedIndex`) stats once more
(`StatSources`); then come `ScanSource` per source, `PublishEntries`, `PublishSparse`,
`PublishBloom`, `PublishSources`, one rename each, with `BuildFails` and `Crash` possible
at every one. Opening (`CallOpen`, or the end of `EnsureFresh`) holds no lock and reads
`OpenRecord`, `OpenEntries`, `OpenSparse`, `OpenBloom`. `Found` is `Get`: filter, nearest
sample, scan; `Scanned` is `Prefix` and `All`: the scan from the sample at or below the
first key to the first entry past the range.

Ghosts. `torn` holds the lists whose entries were published but not yet recorded;
`clean` the callers that open, undisturbed, the files of one whole build. They delimit
what the code can promise, and name three weaknesses that it has: opening after the
lock is released may mix files of two builds; a refresh merges whatever entries it
finds, those left by an interrupted build of another list included; and a record is
taken for fresh although such entries lie beside it. A caller that begins to open while
`torn` is not empty is never `clean`, so `OpenedIsRight` says nothing of it: the code does
not keep the promise to that caller (section 5).

Abstractions. A line is its key and all keys are of one length, so that places count
lines. Sources appear and grow and are never rewritten, so a size stands for size
and modification time. Heap, run files and buffers of the merge are the operator
`Merged`; a bloom filter is its set of keys, as a false positive costs a scan and
changes no answer. `MCSortedIndex` has `Merged` and `Found` evaluated on all small
inputs (`MergeIsRight`, and `SearchIsRight` for lookups and ranges, with every distance of
samples up to 4). Its
view drops what a disturbed caller has read: no property speaks of it, and no step
depends on it.

## 4. The runs

| run | shows | instance |
|---|---|---|
| `bitcask_recovery` | whatever a compactor, a crash and an I/O error do, a reopen restores every key that is not weak; the engine implements `KVStore` | 2 keys, 1 value, segments of two records, 4 writes, 1 crash, 1 I/O error |
| `bitcask_concurrent` | with two compactors, writers and `Close` interleaved: index entries are sound, compaction is invisible, unlinked files are dead, garbage counters count garbage only and every write counts its own, a clean close restores every key and returns, a segment over the ratio is reclaimed | 2 keys, records of 2 in segments of 3, ratio 1/3, 4 writes, no symmetry |
| `bitcask_durability` | power lost at any moment: durable writes are there, damage stays behind the damaged record in its segment, no read returns foreign bytes unless `Close` was cut | 2 keys, 3 writes, 1 compactor, 1 `Sync`, 1 I/O error, 1 loss of power |
| `hash_index` | every hash function on 4 keys, every sequence of puts and deletes: table is a map, keys once, counters exact, room left, returned location is the former one, churn does not grow it | 4 keys, 4 hash values, capacity 4 to 16 |
| `sorted_manager` | no held index is reaped, none early, counts are handles, nothing open after `Close`, none opened from a list older than its `Acquire`; `Close` returns with handles out, idle indexes are reaped, calls return | 1 name, 3 clients, 2 lists, TTL 1 |
| `file_index` | torn writes, crashes, deletes: lines never merge, the tail flag is right, a reopen restores every key that is not weak, `KVStore` is implemented | 2 keys, 2 values, 11 tokens, 2 cut writes |
| `sorted_index` | with builds, refreshes, failures, crashes, growing sources and unlocked opening interleaved: files of a finished build answer lookups and ranges as their sources do, `EnsureFresh`, when the entries belong to the record it finds and nobody replaces them meanwhile, opens what was asked for and nothing older, a record of the same sources never goes back | 2 callers, 2 sources, 3 lists, 2 keys, 3 lines, 1 failure or crash |
| `bitcask_stale_replay` (violated) | a record that compaction moved is replayed after a newer `Put` of its key | 4 writes, 2 values, 1 compactor, ratio 1/3 |
| `bitcask_unmap_race` (violated) | two compactors on one segment: one unmaps what the other scans | 3 writes, 2 compactors |
| `sorted_index_filter` (violated) | a filter outlives a later build without one and denies keys that are there | 1 caller, 2 lines, no fault |
| `durability_synced` (violated) | with `SyncOnWrite`, a record that compaction moved is lost with the power | 2 keys, 3 writes, 1 compactor |
| `durability_truncated` (violated) | what recovery dropped behind a damaged record is read again after a later write | as above, without `SyncOnWrite` |

Why these bounds are enough. In the engine, losing a record takes one overwrite, one
compaction that moves a neighbour, one rotation and a reopen, which four writes to
two keys allow; segments hold two records or fewer, so each write can rotate; there
are segment ids for an output beside each; one crash and one error suffice as each may
come at any step, and after a reopen compaction goes on. Losing power needs three
writes to put a durable record before, in and behind the damage; after it the system
goes on writing, compacting and reopening. In the table, four keys of 16 hash
assignments up to symmetry reach the load limit of a table of four slots, tombstones in
it, and two doublings; the initial capacity is 4 where the code has 1024, and
`AlwaysRoom` depends on it being no less (with two slots the limit is above one free
slot). In the manager, three clients are enough for one to open, one to wait and one to
hold the same name. One name is enough for the liveness, as a client waits for the lock
of one entry and the sweep and `Close` visit entries one by one; the safety is proved
for any number of names. In the line file, 11 tokens hold a torn line, its seal and
three more lines. In the sorted index, the lists `a`, `b` and `a, b` give the match, the
refresh, the full build and the change to other sources; three lines let a source grow
after it is recorded while another appears; one fault can strike between any two
renames. `sorted_index` keeps one filter setting, because with two of them the finding
below breaks its invariants. In `bitcask_stale_replay` a tombstone beside a live value is
enough, at ratio 1/3, to have that value moved, and the property speaks of keys that have
a value only, so that it is a moved record that violates it.

Fairness. `bitcask_concurrent`: a compactor with a step goes on (weak fairness of
`CompactorStep`), the ticker keeps firing (weak fairness of `StartPass(Bg)`), and the
loop's `select`, which chooses at random, does not take the tick for ever when the
stop signal is there (strong fairness of `FinishClose`). `sorted_manager`: Go mutexes hand
over to waiters after a millisecond, so waiting for an entry ends (strong fairness of
`Progress`); building or opening an index ends; the clock runs; the reaper's `select`
chooses at random. Clients are not assumed to release, and `Close` returns all the same.

`CHECK_DEADLOCK FALSE` is set in `sorted_manager` only: when `Close` has returned and
every handle is released the manager really stops. In the engine's runs the ticker and
reopening always remain; writes stop at the bound.

## 5. Divergences found

- `bitcask_stale_replay`: `recover` replays in id order, but the compaction output gets
  a higher id than the active segment, to which newer records of the same keys are still
  appended; a full scan lets the older value win. The README calls the full scan after a
  crash "a deliberate, safe tradeoff".
- `bitcask_unmap_race`: `compactSegment` scans a mapping it does not protect, although
  `segment.go` says a slice of it must not outlive the segment.
- `durability_synced`: compaction unlinks a segment while the copies it made are in an
  output that nothing syncs before `Close`; `SyncOnWrite` and `Sync` reach the active
  segment only. `options.go` calls the option "Durable but slower", and `Sync` is
  documented as "making every previously written record durable", which it does not
  do for records in a segment rotated out since the last fsync either.
- `durability_truncated`: recovery drops what lies behind an unreadable record by setting
  the used size, and leaves the bytes in the active file. A later write of the same
  size closes the gap, and the next recovery replays the old records over newer ones.
- `sorted_index_filter`: a build with `BloomFPR` below zero writes no filter and removes
  none, so the filter of an earlier build stays beside the new entries and `Get`
  misses keys that it has never seen. `bloom.go` says a filter "never false-negatives"
  and `sortedindex.go` that there is none after such a build.

Others that have no run of their own:

- `EnsureFresh` looks at the recorded sources only (`sortedindex_sources.go:216`), and they
  are written last. The record is `a`; a build of `b`, or a refresh to `a, b`, fails after
  the rename of the `.sidx` (`sortedindex_build.go:484`); now `EnsureFresh` of `a` finds the
  record to match and serves the entries of the other list, although it promises "an open
  SortedIndex over sourcePaths" (`sortedindex_sources.go:179`). After the refresh an entry
  may even name a source that the opened index does not have. `OpenedIsRight` exempts such a
  caller: with `clean' = clean \cup {c}` in `FindsFresh` the run `sorted_index` refutes it
  by this behaviour.
- Compaction drops a tombstone with its segment (`compaction.go:128`), also when an earlier
  segment still has a value of the key; the full scan of the next `Open` after a crash
  brings that value back. Such a key is in `weak`, so `RecoverableUnlessWeak` exempts it.
- A `Close` that saves the snapshot and then fails on a segment (`db.go:83-88`) leaves
  segments mapped, and a caller still in `Compact` copies records into an output below the
  watermark and unlinks their source; a crash before the snapshot is removed then hides the
  copies. It takes five writes and two compactors, too many for a run; the proof of
  `Recoverable` does not go through without it in `Passed`.
- Recovery drops the superseded locations, so the dead-byte counters start from zero and
  `Stats.DeadBytes` is not the total that `db.go:113` says.
- After a loss of power inside `Close` an index entry may lead to the bytes of another
  record, since what the snapshot covers is not scanned and reads check nothing
  (`GarbageOnlyFromEarlySnapshot` is the limit of it).
- `sortedindex.go:396` has every `Prefix` or `All` after `Close` return `ErrClosed`; they
  have no error to return and end.

## 6. The proofs

`BitcaskProofs`, for any keys, values, compactors, sizes, ratio and bounds. The
assumptions are those named in `Bitcask`: sizes and bounds are naturals, a value fits
a segment, `Absent` and `Missing` are no values, `Bg` is a compactor. `IndexSound` is not
inductive: a recovery can put a dangling snapshot entry into the index, and a
compactor must not append to what another drops. `IInv` adds that each entry, of the
index and of the snapshot, names a value record of its key or a segment that is gone
from disk; that known segments are on disk and their ids below `nextSegID`; where
`active` and `compactOut` are; that a compactor's source is neither; that while it
scans, what it has passed is not indexed there any more; and that a dropped segment
that is still mapped is pointed at by nobody. From `IInv`:

- `TypeCorrect` (`TypeOK`), `IndexIsSound` (`IndexSound`): invariants;
- `UnlinkedAreDead`, `OrphansNeverAppear`, `CompactionIsInvisible`: the action
  properties `UnlinkedFilesAreDead`, `NoNewOrphans`, `CompactionInvisible`.

`BitcaskStoreProofs` proves about recovery, from the same assumptions. A reopen replays the
records in the order of their segments and places (`Before`), so what it finds for a key is
its last record (`LastOf`), or the snapshot's entry when that lies behind it. `RInv` says
for every key that is not weak that the index agrees with the last record there is, and for
a snapshot that is in use that its entry agrees with the last record below its watermark;
compactors make this hard, since a copy comes later in the order than its source, and
the source, its tombstones included, goes at the end. An append that would come too early
in the order makes its key weak, and that is what `Passed` says. From `IInv` and `RInv`:
`Recoverable` (`RecoverableUnlessWeak`), `CleanCloseIsExact` (`CleanCloseRestoresAll`), and
`StoreIsImplemented`, the refinement of `KVStore`: `Put` and `Delete` change one key, a
crash, the end of `Close` and an `Open` at most weak ones, all else nothing that is read.

Its last part is about the garbage counters. `Total` sums by a recursive function; that the
function exists, and that a sum grows with its summands and by the one appended, is shown by the
least number of summands for which it fails (`Sums`, in `BitcaskProofs`), as for the rehash below. A write
appends one record and takes at most one location out of the index, so what the counter
of a segment gains is what died there; a relocation leaves a copy of what it counts, and a recovery
starts from zero. Proved: `DeadBytesAreDead` (`DeadBytesNeverOvercount`) and `WritesAccount`
(`WritesAccountForGarbage`).

`DurabilityProofs`, from the assumptions of `Bitcask` and that `MaxSyncs` is a natural, is in four parts.

- Before the loss. While the power is on no record is lost and no file has a tail, so every step
  of this machine is one of `Bitcask`'s or leaves its state alone, and `IInv` and `RInv` hold
  (`OnInvariance`). What is acknowledged is `Firmly` there, its last record the indexed one and
  flushed, or it is deleted and no record or snapshot entry that could come back has a value
  (`NoValue`). A loss spares flushed records, a stop of the scan in one segment hides nothing
  flushed before it, so recovery finds such a key as it was: `AckedAreDurable` (`AckedSurvives`).
- After the loss. The index may lead anywhere, so `IInv` is gone in general. `LossInv` says
  what remains whatever was lost: file sizes are the sums of their records (`SizesAddUp`), what lies behind the used
  part fits the segment and is overwritten slot by slot (`UsedSizes` and the lemmas on `Overwritten`),
  damage lies in files that exist, jobs and ids are as the code expects them. From it
  `DurableTypeCorrect` (`DTypeOK`).
- Reads. If no file operation failed, what a snapshot in use speaks of was flushed
  before it, and nothing is appended below its watermark (`SnapInv`); so a loss outside
  the end of `Close` takes nothing the snapshot leads to. `CutInv` says that this goes on: `IInv` holds
  after all, and neither the snapshot nor the index leads to a lost place. From that
  `NoGarbageIsRead` (`GarbageOnlyFromEarlySnapshot`).
- Damage. With any failures, and whenever the power went, `IInv` and `RInv` are too much to ask.
  What remains for a key that is not weak is that what the index or the snapshot says of it is its
  last record or leads to no record of its own (`Stray`), and that a compactor drops a
  segment that the index still leads the key to only when the entry is such a one, or the scan stopped
  at a lost record before it (`Lapsed`). `SpareInv` says so for every compactor at every place of its pass; above the watermark nothing
  lost is left after a reopen (`LostBefore`), so a replay ends at a record that is there. A loss establishes it
  from `OnInv` and every later step keeps it (`DamageInvariance`), a reopen that cuts some segments
  and revives the tails of others being the long case. A key that is not `Damaged` has no stray
  entry and is not lapsed: recovery finds exactly its records (`UndamagedFound`) and reads give the last
  of them (`SpareReads`), which no step but a write changes (`SpareValue`). So `DamageStays` (`DamageStaysInSegment`).

The attempts to prove this found two flaws of the model, since corrected. `acked` kept
a key that was weak when the store was reopened by a full scan, although what is read of it then
is what the scan found, and not what was acknowledged. And `weak` left out the keys of `CutOff`:
a tombstone is dropped with its segment while a later `Put` shadows it, the loss of power takes the
`Put`, a reopen that reads the rest from the snapshot cuts it off, and the next one that scans
everything finds the value from before the `Delete`, in a segment without damage. It takes more
segments and writes than the run's instance has, so `DamageStaysInSegment` held there.

`HashIndexProofs`, for any keys, locations, hash function and sizes under `SizeAssumption`. A
table is `Sane` when no empty slot lies on the probe from a key's home to its live slot
(`Reachable`), a key has one live slot, and the counters are the numbers of slots. Two
lemmas say how that stays: `FillKeeps`, of a slot the probe reaches and that is not live,
and `TouchKeeps`, of a slot that is overwritten or becomes a tombstone. A rehash is a
recursive function over the slots: that it exists, and what it has made of the new table
after any number of slots (`CopiedUpTo`), is shown by the least number of slots for which
it fails, not by induction over data. `IInv` joins `Sane`, room, the agreement with the
map and `ChurnDoesNotGrow`. Proved: every property of the run (`TypeCorrect`,
`CountersAreExact`, `RoomIsLeft`, `KeysAreOnce`, `ChurnStaysSmall`, `TableIsMap`). In
particular the forced rehash of `put` is never taken (`TableForPutIs`).

`Extrema` has the two facts about sets of numbers that these modules and the next two need: a
least and a greatest element exist, by well-founded minimum and without induction over data.

`FileIndexProofs`, for any keys, values and bounds. A line is described by the tokens at it
and around it (`LineAt`), which `LinesAreThere` shows to be what the scan finds. From that,
`LinesGrown` says what a write of any number of tokens does: no line is lost, and at most
the written one is new. `IInv` adds to the invariants of the run that a `Put` that was
written in full is the last line of the file. Proved: `TypeCorrect`, `TailIsKnown`,
`LinesStayWhole`, `ReopenRecovers`, and `StoreIsImplemented`, that the file index implements
`KVStore`: a `Put` changes what is read in its second step, an `Open` and a write nothing, and
a close or a crash only weak keys, which is `ReopenRecovers`.

`SortedIndexProofs`, for any callers, keys, sources and lists. The first part is about the
record. Sources only grow (`Growth`), so sizes read under the lock are no less than the recorded
ones, and these stay until the holder of the lock replaces them: `IInv` says that a build is
going to record nothing older than what is recorded (`BuildAhead`), and that a caller whose
files nobody replaced has a record of what it asked for (`CleanIsFresh`). Proved from it:
`RecordStaysNew`, `OneBuildAtATime`, and `OpenedIsAsAsked`, the half of `OpenedIsRight` that is
about the record, with its provisos, which are those of `clean` (section 3).

The second part is about the files. `Merged` is a function on `1..Cardinality(W)`, and what it
returns follows from the ranks of its entries (`RanksAre`, `MergedIs`): it is `Ascending`, it
holds one entry of each key there is, and for each key the one that the merge prefers
(`WinnerExists`). On ascending entries the search by sample and gap finds what there is
(`FloorIs`, `FoundIs`, `ScannedIs`), so files that are `Whole` answer as the sources do
(`AnswersAre`). The invariant is `WInv`. What makes it long is that a build can fail or the
process stop between any two of its renames, and the next one merges into what that left:
each entry on disk is a line of the recorded sources or of the list of a torn build, nothing of
the recorded sources is lost unless a torn build was of other lists, and the sample and the
filter follow the entries wherever the code opens them together. Proved from it: `TypeCorrect`
(`TypeOK`), `CacheStaysWhole` (`CacheIsWhole`), `OpenedAnswersRight` (`OpenedIsRight`) and
`FilterStaysWhole`. The last three have the hypothesis `OneFilter`, that all callers agree on
whether there is a filter. The run has one value too; without it the code does lose keys
(`sorted_index_filter`), and `CacheIsWhole` with them. The assumptions are
those that `SortedIndex` names: keys are integers, which stand for their order, no list of sources is
empty, `NoFile` and `NoCaller` are no contents and no caller, and bounds are naturals.

`PoolProofs`, for any names, any finite set of clients and any TTL. `IInv` joins to the
type, the counts and `HeldIsLive` that a client past its second look at `closed` is
registered, that `Close` visits entries only after the reaper is done, that what is
open or opening is among the entries left to it, and that what a running sweep found
ripe stays idle as long as nobody acquires it. The counting lemmas (`TakeHandle`,
`DropHandle`, `SameHandles`) relate a count to the cardinality of the holders. Proved:
`TypeCorrect`, `RefsAreHandles`, `HeldStaysLive`, `NothingStaysOpen`, `ReapedOnlyWhenDue`.

About `SortedManager`, in the same module and for any lists besides: `ManagerIsPool`: each step of the manager is
a step of the pool or leaves its state alone, so the five theorems above hold under it
(`ManagerKeepsHandles` names three). `OpenedFromRecent`: no index is opened from a list older
than the `Acquire` that opens it. Its invariant `MInv` says that the list a name has now
was recorded since every client that waits for the name asked, and so was the copy of
the one that opens.

Model-checked only: all liveness (`CloseCompletes`, `GarbageReclaimed`, `CloseReturns`,
`IdleIsReaped`, `CallsReturn`: fairness and ENABLED are beyond the prover). `MergeIsRight` and `SearchIsRight` are evaluated on
small inputs; their counterparts for all inputs are the lemmas of `SortedIndexProofs`.

## 7. Not modelled

- Iterators of the engine and of the file index: the keys are copied under the lock and
  stepped through by one goroutine; each value is a `Get`, which the store modules have,
  and a key that is gone is skipped.
- Widths: `valOffset` is cut to 32 bits (`kv.go:40`), so a `SegmentSize` above 4 GiB makes reads
  return other bytes; the arena's chunk number is cut to 16 bits (`arena.go:21`), and keys of
  deleted entries are never reclaimed from it.
- A `Truncate` that fails and leaves a segment without a mapping (`mmapfile_unix.go:132`), an
  fsync that fails, power loss under the file index and the sorted index.
- The line reads that follow a found entry; `Stats` and residency statistics, which only
  read; the facade (`Bucket`, `Typed`, `FileIndexStore`), encodings that add no state; the
  example; the portable variant of the mapped files, which behaves as the other.
