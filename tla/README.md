# TLA+ models of kraken2-rust (kr2r)

This directory models the index-building and resolution tools of `src/kr2r`
as TLA+ specifications checked with TLC. Each module names the source lines
its definitions translate, and `PROJECT.json` maps every definition to
those lines.

## The system

The tools run one after another, as separate processes that communicate
only through files in the database and chunk directories:

1. **hashshard** (`bin/hashshard.rs`). Reads the capacity of a legacy
   `hash.k2d` and refuses to run if `hash_config.k2d` exists. It writes
   `hash_config.k2d`, then copies the cell array into `hash_1.k2d ..
   hash_P.k2d`, each prefixed by `(index, cell count)`. Finally it copies
   `taxo.k2d`/`opts.k2d`.
2. **build_k2_db** (`bin/build_k2_db.rs`). Lists `chunk_i.k2`, which must be
   numbered 1..n (`utils::find_and_trans_files`). It folds every record of
   chunk i into shard i with `insert_or_merge` (`db::process_k2file`, not
   under src/), then writes the populated count into the config and
   deletes the chunks.
3. **squid** (`bin/squid.rs`). Lists the chunk files
   (`utils::find_and_sort_files`). Each file is a 16-byte header followed
   by fixed-size slots. squid reads the header with `read_exact`, then
   reads batches through a `BufReader` and looks up
   `bytes_read / slot_size` slots per batch. It does not build against
   this `utils.rs`: `find_and_sort_files` is called with three arguments
   but takes four, and imports are missing. `read_chunk_header` is never
   called.
4. **resolve** (`bin/resolve.rs`). For each sample i (in BTreeMap order) it
   loads `sample_id_i.map`. For each hit file `sample_file_i_j.bin`, it
   reads rows into a map seq_id → rows and classifies the entries on a
   worker pool (`buffer_map_parallel`). Workers merge count deltas into a
   shared DashMap and hand output lines to the writer. Per sample, it adds
   counts to the totals and `thread_sequences - thread_classified` to the
   unclassified total. After the last sample it copies `sample_file.map`,
   then removes every hit file and id map, ignoring errors.
5. **utils.rs**. File discovery, fd limits and `expand_spaced_seed_mask`.

The compact hash table, the taxonomy, `process_hitgroup` and the counters
are in modules not under `src/`. They are modelled from `spec.md` (marked
`spec_modelled` in the map).

## Modules

| Module | Models | State | Actions |
|---|---|---|---|
| `Taxonomy` | ancestors_of, lca (spec 6) | none (operators) | none |
| `CompactHash` | one shard: insert_or_merge, lookup (spec 4.2) | none (operators over a cell array) | none |
| `IndexMap` | the abstract index: key → taxon, merged by LCA, fed the records `Recs` | `map` | `Insert(k,t)` of a record in `Recs` |
| `HashShard` | hashshard.rs `run`, `mmap_read_write` | legacy length, companions, config, shard file contents, loop index, run count | `Start`, `WriteShard`, `CopyCompanions`, `Crash` |
| `BuildDB` | build_k2_db.rs `run` with the fold of process_k2file | shards, chunk files, config size, loop locals | `Start`, `Insert` (one record), `WriteConfig`, `RemoveChunk`, `Crash` |
| `ConcurrentCHT` | concurrent insert_or_merge with CAS (spec 4.2, 5) | cells, per-thread probe state | `Probe(th)`, `Cas(th)` |
| `Resolve` | resolve.rs `run`, `process_batch` | id map file of each sample (lines as records: id, columns, count parsable), sample/file loop, rows read of the current hit file, pending entries, workers, entry locks, counters, output | `LoadSample` (reads and parses the id map: `read_id_to_seq_map`), `LoadFile` (`read_rows_from_file`, which may stop after any row), `Take`, `LockEntry`, `MergeEntry`, `Emit`, `FileDone`, `Tally` |
| `ResolveRun` | resolve.rs `run` over the chunk directory: listing, outputs, copy, cleanup | hit files and id maps present, `sample_file.map`, output files (hit files read to their end, complete or not), listed files, loop locals, run count | `Start`, `Sample`, `Copy`, `RemoveBin` (one file), `RemoveIds`, `Crash` |
| `Squid` | squid.rs `main`, `process_chunk_file`; utils.rs `find_and_sort_files` | directory listing, file index, BufReader position and fill, slots looked up | `List`, `ReadHeader`, `BatchRead` (one `read()`), `ReadFails` (a `read()` error ends the file) |
| `SeedMask` | utils.rs `expand_spaced_seed_mask` | mask, factor, build, loop index, result | `Entry`, `LoopStep` |

The MC modules (`MCHashShard`, `MCBuildDB`, `MCResolve`, `MCResolveRun`,
`MCConcurrentCHT`, `MCSquid`) declare model values and define the small
inputs (taxonomy, records, homes, hit rows, directory listings). `SeedMask` is instantiated directly by its cfgs.

Modelling choices:
- **Files are their contents.** In HashShard, byte p of `hash.k2d` is the
  number p, so a shard body says which legacy bytes it holds. A crash while
  a shard is written leaves any prefix of it (a torn write). The failed
  `read_exact` leaves the header alone, flushed by the BufWriter on drop.
- **Files as lengths.** In Squid, a chunk file is its length, and a slot is
  named by the file position it was cut from. The BufReader is its logical
  position and the position of the file underneath it. When its buffer is
  empty, a `read()` into the batch buffer bypasses it, because the batch is
  larger than its capacity (`ASSUME BufferBypass`). Short reads and I/O
  errors are constants of the environment.
- **Crashes and reruns.** HashShard, BuildDB and ResolveRun may crash between any two
  steps and be restarted (`MaxRuns`). Files persist and locals reset.
- **Rust arithmetic.** Each run picks a debug or release build. usize
  underflow panics (debug) or wraps (`UsizeMod` stands in for 2^64). Shifts
  by ≥ width panic (debug) or are masked (release). `SeedMask` is
  parameterised by the word width W (64 in the code) so every mask can be
  enumerated.
- **Concurrency.** Resolve workers interleave at the DashMap entry lock: the
  read (`LockEntry`) and write (`MergeEntry`) of a counter are separate
  steps under the lock. ConcurrentCHT threads interleave between their
  probe read and their compare-and-set.

## Runs

| Run | Checks | Result |
|---|---|---|
| `squid` | TypeOK, SlotsAligned, SlotsInOrder, Terminates | pass (2558 states) |
| `hashshard` | TypeOK, ShardsMatchConfig, SplitDoneCoversIndex, SplitEnds | pass (1863 states) |
| `hashshard_torn` | ConfigImpliesShardsComplete | violation: a crash after the config write leaves a config naming torn or missing shards |
| `builddb` | TypeOK, RemovedChunksAreFolded, BuiltIndexExact, IndexRefinement (BuildDB refines IndexMap), BuildEnds | pass (350 states) |
| `builddb_count` | PopulatedCountCorrect | violation: a rerun stores only the cells that run newly occupied |
| `resolve` | TypeOK, CountsMatchOutput, Terminates | pass (3066 states) |
| `resolve_dup` | OneRecordPerSequence | violation: one line per hit file for a sequence split across files |
| `resolve_run` | NoEvidenceLost, CleanRunComplete, RunEnds | pass (248 states) |
| `resolve_run_rerun` | NoEvidenceLost | violation: a crash during the removal of hit files, then a rerun, rewrites output_i.txt from the hit files left |
| `resolve_run_readerr` | NoEvidenceLost | violation: in a single run, a read error part-way through a hit file ends `read_rows_from_file` as if at the end of the file; the output is written from part of the rows, the run returns Ok, and the cleanup removes the file |
| `cht` | TypeOK, InsertsStored, FatalOnlyWhenFull, InsertsTerminate | pass (396 states) |
| `seedmask` | TypeOK, ExpandCorrect | pass (18944 states) |

`IndexRefinement` instantiates IndexMap with `Recs` set to the records of
the chunk files and `map` set to what `lookup` returns from each key's
shard. Each step of the build must then be either an insert of a chunk
record, merged by LCA, or a step that leaves every lookup unchanged.

Each property of a passing run has a seeded fault in `PROJECT.json`
("mutants"). The fault is an operator defined just before the definition it
replaces, and TLC finds it breaking the property.

## Bounds

- **HashShard.** Capacity 5, hash capacities {0, 2, 3, 7}: a zero
  capacity (the division panic of line 64), 3 shards with a short last
  shard, 2 shards, and one shard larger than the index. Two
  legacy lengths: complete, and one cell short. Two runs, so a rerun after a
  crash and a rerun with another capacity both happen.
- **BuildDB.** Two chunks over shards of 3 cells. Home buckets force
  wrap-around, merges (k1, k4 get two taxa) and a shard filled exactly.
  Three runs, so crash → rerun → rerun.
- **Resolve.** Two samples, two files each, two workers. Two sequences of
  one file call the same taxon, so the entry lock is contended. One
  sequence spans files, and one is absent from the id map. Hit rows are
  in file order, with two sequences interleaved in one file, and every
  read of a hit file may stop after any row (`ReadErrors`). Sample 1's id
  map has a duplicate id, a line with a bad id, a short line and (first
  among the parsed ones) a malformed count on a skipped line. Sample 2's
  map is one of: well formed, with a malformed count (`unwrap` panics,
  resolve.rs:35), or with an unreadable line (`expect` panics, line 26).
- **ResolveRun.** Three samples over two parts: sample 1 has two hit
  files, samples 2 and 3 one each. Either every id map is present, or
  sample 2's is missing (the panic of line 215). `sample_file.map` may be
  missing (the copy error). The pass run has one run, in which every
  crash point, failed removal, panic and copy error occurs. The rerun run
  has two runs, enough for a crash followed by a rerun. The read-error run
  has one run in which any hit file read may stop part-way.
- **Squid.** Header 2, slot 2, BufReader capacity 4 and batch 6 bytes: the
  same shape as 16, 16, 8192 and 81920, where the header comes out of the
  first fill and later reads bypass the buffer. The listings hold a file
  numbered 2, an unparsable name and a file numbered 1, over lengths 0..11.
  This covers empty files, files shorter than the header, files with a
  trailing partial slot, and files longer than a batch. One listing has
  non-contiguous numbers, which the check rejects.
- **ConcurrentCHT.** Four threads on 3 cells. Two of them insert the same
  key with different taxa and share a home with a third, so every CAS race
  occurs.
- **SeedMask.** W = 8 with factors 0..7 and 9, over all 256 masks.

## Fairness

- **Resolve.** `WF_vars(Next)`. The rayon pool keeps running while work is
  pending, and no worker blocks except on an entry lock held by a worker
  that proceeds.
- **ConcurrentCHT.** Weak fairness per thread: OS threads are scheduled.
- **Squid.** Weak fairness on `List`, `ReadHeader` and `BatchRead` only:
  main is one thread that keeps taking its next step. A read error
  (`ReadFails`) is the environment's and gets no fairness, because a fair
  error step would end every file and hide a batch loop that never
  breaks. `Terminates` says every run ends, done or in error.
- **ResolveRun.** Weak fairness on `Sample`, `Copy`, `RemoveBin` and
  `RemoveIds`: run is sequential once started. Starting a run and
  crashing are the environment's. `RunEnds` says a started run ends.
- **HashShard and BuildDB.** Weak fairness on the steps of a started run
  (`WriteShard`, `CopyCompanions`; `Insert`, `WriteConfig`,
  `RemoveChunk`), none on `Start` or `Crash`. `SplitEnds` and `BuildEnds`
  say a started run ends, done, failed or crashed. A failed removal is
  part of `RemoveChunk`; it ends the run too, so fairness cannot hide a
  loop that never ends. The tools are batch tools that stop
  (`CHECK_DEADLOCK FALSE`).

## Not modelled (yet), and the plan

Known behaviours that no run checks:
- A short read in squid's batch loop ending inside a slot drops the
  slot's bytes and cuts every later slot of the file off the grid
  (squid.rs:98). Setting `ShortReads = TRUE` in `MCSquid.cfg` makes TLC find
  `SlotsAligned` violated. No run keeps that setting: squid discards the
  result of `get_from_page` (line 105), so the misalignment changes no
  output.
- `main` of hashshard, build_k2_db and resolve prints the error of `run`
  and exits with status 0 (hashshard.rs:119, build_k2_db.rs:69,
  resolve.rs:316). A script chaining the tools carries on after a failed
  step. The chain is not composed into one module.
- An I/O error in squid's batch loop (`while let Ok`, squid.rs:92) ends
  the file silently, and main returns Ok. The `squid` run takes this path
  (`ReadFails`);
  SlotsInOrder shows only that the slots looked up before the error form a
  prefix.
- A hit file whose removal fails outlives its id map, which the cleanup
  removes next. The next resolve run then panics indexing
  `sample_id_files[i]` (resolve.rs:215). ResolveRun reaches that state.
- `thread_sequences - thread_classified` (resolve.rs:262, 267) panics or
  wraps when a sequence's hits span hit files. `Tally` models both.
- A short id-map line or a non-numeric id is skipped silently
  (resolve.rs:28, 30); that sequence's hits are then dropped as not
  found. Resolve models the skip; no property says such hits are lost.
- A read error part-way through a hit file also changes the counts:
  sequences whose rows were not read get no output line and are counted
  as unclassified. The `resolve` run takes this path; its properties
  still hold, because the counters stay consistent with what was read.
- `1 << 64` in `expand_spaced_seed_mask` (utils.rs:60): a debug build
  panics, and a release build masks the shift to 0, so `bits` is 0 and the
  result is 0 where the expansion is all ones. The `seedmask` run leaves
  factor = W out.
- ConcurrentCHT follows spec 4.2 and advances the probe on a lost
  compare-and-set. Two threads claiming the same empty cell for one key
  can then store the key in two cells, and a lookup returns the first one
  without the later merge. `InsertsStored` holds, because it asks only for
  some cell holding the key.
  The same duplicate claim uses up a cell. In a shard sized exactly for
  its distinct keys, the insert of another key then finds no empty cell
  and ends in the fatal error although the keys would fit. That is a
  false fatal error. `FatalOnlyWhenFull` still passes, because at that
  point every cell really is full; it does not say the shard was too
  small for its keys.

Not modelled, and why:
- `process_hitgroup` (spec 4.6) is not under `src/`, and the spec leaves
  its call rule open. Votes are added to every ancestor, so "the node with
  the highest accumulated vote" is always the root; the spec also allows
  either one vote per group or a weight by run length. A model would
  encode a guess. Its order independence holds by the sort step alone.
  Resolve keeps a stand-in `Classify` (LCA of the hits, given enough of
  them).
- A module chaining hashshard and build_k2_db through the shared
  directory. `hashshard_torn` already shows the state such a chain would
  hand on: a config naming torn shards. build_k2_db reads only the config
  and its own chunk files, so a composed model would add no new
  behaviour of the code.
- Counter merges across samples are additions of read counts (Tally).
  The HyperLogLog estimators are not under `src/`.
- `get_lastest_file_index`, `read_id_to_taxon_map`, `find_files`,
  `format_bytes`, `create_partition_files`, `create_partition_writers`,
  `create_sample_file`, `get_file_limit` and `set_fd_limit` (utils.rs) have
  no caller under `src/` (squid imports some but calls none). The fd
  limit functions are libc wrappers with no state of their own.
- Write and flush errors in hashshard. `File::create` and the header
  writes can fail (hashshard.rs:20, 35, 37), and so can the flush the
  `BufWriter` makes when it is dropped, whose error is ignored. The
  HashShard model has no such failure: a shard write either completes or
  is cut off by a crash. A failed header write would end the run with
  an error, like the short read that the model already has.
- Report rendering and byte-level config serialization are formatting,
  with no state to explore.
