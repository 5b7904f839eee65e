----------------------------- MODULE HashShard -----------------------------
(***************************************************************************)
(* The shard splitter, src/kr2r/src/bin/hashshard.rs (run and             *)
(* mmap_read_write).  It reads the capacity of a legacy Kraken 2 index    *)
(* hash.k2d, refuses to run when hash_config.k2d already exists, writes   *)
(* hash_config.k2d, then copies the cell array into hash_1.k2d ..         *)
(* hash_P.k2d, each prefixed by a 16-byte header (shard index, cell       *)
(* count), and finally copies the companion files taxo.k2d and opts.k2d.  *)
(*                                                                        *)
(* Files are modelled by their contents.  The byte at position p of the   *)
(* legacy file is represented by the number p itself, so that a shard     *)
(* body says exactly which legacy bytes were copied into it.  A shard     *)
(* file is a sequence <<index, cap>> \o body; a torn file left by a crash *)
(* is any prefix of it.  The process may crash between any two steps and  *)
(* may be run again (up to MaxRuns times), each run with its own          *)
(* --hash-capacity argument.                                              *)
(***************************************************************************)
EXTENDS Naturals, Sequences, FiniteSets

CONSTANTS
  Capacity,        \* capacity field of the legacy header (cells)
  HashCapacities,  \* values a run may pass as --hash-capacity
  LegacyLens,      \* possible actual byte lengths of hash.k2d on disk
  Header,          \* bytes before the cell array of hash.k2d (32)
  CellBytes,       \* bytes per cell (size_of::<u32>() = 4)
  MaxShards,       \* bound on shard file names hash_1 .. hash_MaxShards
  MaxRuns,         \* bound on the number of times the tool is started
  NoConfig         \* hash_config.k2d absent

ASSUME HashCapacities \subseteq Nat
ASSUME \A h \in HashCapacities \ {0} : (Capacity + h - 1) \div h <= MaxShards

VARIABLES
  legacyLen,   \* bytes actually present in hash.k2d (fixed)
  companions,  \* taxo.k2d and opts.k2d present in the database dir (fixed)
  config,      \* contents of hash_config.k2d, or NoConfig
  shard,       \* shard[i]: contents of hash_i.k2d (<<>> when absent)
  pc,          \* "idle" | "split" | "companions" | "done" | "failed" | "crashed"
  cur,         \* loop variable i of the shard loop
  hc,          \* args.hash_capacity of the current run
  runs         \* number of runs started

vars == <<legacyLen, companions, config, shard, pc, cur, hc, runs>>

ShardIds == 1 .. MaxShards

(* Fault: partition = capacity / hash_capacity, rounding down.            *)
PartitionFloor(h) == Capacity \div h

(* hashshard.rs:64 partition = ceil(capacity / hash_capacity)             *)
Partition(h) == (Capacity + h - 1) \div h

(* hashshard.rs:72 file_len is computed from the header, not the file.    *)
FileLen == Capacity * CellBytes + Header

(* Fault: shard i starts where shard i+1 should.                          *)
OffsetShifted(i, h) == Header + h * i * CellBytes

(* hashshard.rs:88-92: byte offset and clipped length of shard i.         *)
Offset(i, h) == Header + h * (i - 1) * CellBytes

Length(i, h) ==
  IF Offset(i, h) + h * CellBytes > FileLen
    THEN FileLen - Offset(i, h)
    ELSE h * CellBytes

(* mmap_read_write: header <<partition, cap>> followed by the copied      *)
(* bytes (hashshard.rs:20-35); cap = length / b_size (line 93).           *)
ShardHeader(i, h) == <<i, Length(i, h) \div CellBytes>>

ShardImage(i, h) ==
  ShardHeader(i, h) \o [j \in 1 .. Length(i, h) |-> Offset(i, h) + j - 1]

ConfigRec(h) == [partition |-> Partition(h), hashCapacity |-> h,
                 capacity |-> Capacity]

-----------------------------------------------------------------------------

Init ==
  /\ legacyLen \in LegacyLens
  /\ companions \in BOOLEAN
  /\ config = NoConfig
  /\ shard = [i \in ShardIds |-> <<>>]
  /\ pc = "idle"
  /\ cur = 0
  /\ hc \in HashCapacities
  /\ runs = 0

(* hashshard.rs:60-84: a run starts with its own --hash-capacity.  A     *)
(* capacity of 0 panics on the division of line 64 before anything is     *)
(* written; otherwise the run panics when hash_config.k2d exists, or      *)
(* writes it and enters the shard loop.                                   *)
Start ==
  /\ pc \in {"idle", "done", "failed", "crashed"}
  /\ runs < MaxRuns
  /\ runs' = runs + 1
  /\ \E h \in HashCapacities :
       /\ hc' = h
       /\ IF h = 0 \/ config # NoConfig
            THEN /\ pc' = "failed"
                 /\ UNCHANGED <<config, cur>>
            ELSE /\ config' = ConfigRec(h)
                 /\ pc' = "split"
                 /\ cur' = 1
  /\ UNCHANGED <<legacyLen, companions, shard>>

(* Fault: the loop does not stop after shard partition.                   *)
WriteShardNoLast ==
  /\ pc = "split"
  /\ IF Offset(cur, hc) + Length(cur, hc) <= legacyLen
       THEN /\ shard' = [shard EXCEPT ![cur] = ShardImage(cur, hc)]
            /\ cur' = cur + 1
            /\ pc' = "split"
       ELSE /\ shard' = [shard EXCEPT ![cur] = ShardHeader(cur, hc)]
            /\ pc' = "failed"
            /\ UNCHANGED cur
  /\ UNCHANGED <<legacyLen, companions, config, hc, runs>>

(* Fault: a failed read_exact is retried in place instead of returned.   *)
WriteShardRetry ==
  /\ pc = "split"
  /\ IF Offset(cur, hc) + Length(cur, hc) <= legacyLen
       THEN /\ shard' = [shard EXCEPT ![cur] = ShardImage(cur, hc)]
            /\ cur' = cur + 1
            /\ pc' = IF cur = Partition(hc) THEN "companions" ELSE "split"
       ELSE /\ shard' = [shard EXCEPT ![cur] = ShardHeader(cur, hc)]
            /\ UNCHANGED <<cur, pc>>
  /\ UNCHANGED <<legacyLen, companions, config, hc, runs>>

(* hashshard.rs:86-95 and mmap_read_write: one iteration of the shard     *)
(* loop.  File::create truncates hash_i.k2d, the header is written, then  *)
(* read_exact of the byte range fails when the legacy file is shorter     *)
(* than its header claims; the BufWriter then flushes the header alone    *)
(* and the error ends the run.                                            *)
WriteShard ==
  /\ pc = "split"
  /\ IF Offset(cur, hc) + Length(cur, hc) <= legacyLen
       THEN /\ shard' = [shard EXCEPT ![cur] = ShardImage(cur, hc)]
            /\ cur' = cur + 1
            /\ pc' = IF cur = Partition(hc) THEN "companions" ELSE "split"
       ELSE /\ shard' = [shard EXCEPT ![cur] = ShardHeader(cur, hc)]
            /\ pc' = "failed"
            /\ UNCHANGED cur
  /\ UNCHANGED <<legacyLen, companions, config, hc, runs>>

(* hashshard.rs:101-111: taxo.k2d and opts.k2d are copied only when the   *)
(* destination is absent.  The destination directory is the database      *)
(* directory itself (line 75), so the copy is a no-op when the files are  *)
(* present and fs::copy fails when they are not.                          *)
CopyCompanions ==
  /\ pc = "companions"
  /\ pc' = IF companions THEN "done" ELSE "failed"
  /\ UNCHANGED <<legacyLen, companions, config, shard, cur, hc, runs>>

(* The process dies between two steps or while writing hash_cur.k2d, in   *)
(* which case the file holds any prefix of what was being written.        *)
Crash ==
  /\ pc \in {"split", "companions"}
  /\ pc' = "crashed"
  /\ \/ UNCHANGED shard
     \/ /\ pc = "split"
        /\ \E n \in 0 .. Len(ShardImage(cur, hc)) - 1 :
             shard' = [shard EXCEPT ![cur] = SubSeq(ShardImage(cur, hc), 1, n)]
  /\ UNCHANGED <<legacyLen, companions, config, cur, hc, runs>>

Next == Start \/ WriteShard \/ CopyCompanions \/ Crash

(* run is one thread: once started it keeps taking its next step.        *)
(* Starting a run and crashing are the environment's, with no fairness.   *)
Spec == Init /\ [][Next]_vars /\ WF_vars(WriteShard \/ CopyCompanions)

-----------------------------------------------------------------------------
(* Reference reading of a shard file, independent of the byte arithmetic  *)
(* of the code: shard i of a split with hash capacity h holds the cells   *)
(* (i-1)*h .. min(i*h, Capacity)-1, each cell c being the CellBytes bytes *)
(* at Header + c*CellBytes.                                               *)
RefCells(i, h) ==
  {c \in 0 .. Capacity - 1 : (i - 1) * h <= c /\ c < i * h}

CellBytesOf(c) == [b \in 1 .. CellBytes |-> Header + c * CellBytes + b - 1]

Complete(f) == Len(f) >= 2 /\ Len(f) = 2 + f[2] * CellBytes

(* The cells a complete shard file holds, read back by cell index.        *)
CellsOf(f) ==
  {c \in 0 .. Capacity - 1 :
     \E k \in 0 .. f[2] - 1 :
        SubSeq(f, 3 + k * CellBytes, 2 + (k + 1) * CellBytes) = CellBytesOf(c)}

TypeOK ==
  /\ legacyLen \in LegacyLens
  /\ companions \in BOOLEAN
  /\ config \in {NoConfig} \cup {ConfigRec(h) : h \in HashCapacities \ {0}}
  /\ shard \in [ShardIds -> Seq(Nat)]
  /\ pc \in {"idle", "split", "companions", "done", "failed", "crashed"}
  /\ cur \in 0 .. MaxShards + 1
  /\ hc \in HashCapacities
  /\ runs \in 0 .. MaxRuns

(* Every complete shard file named by hash_config.k2d carries its own     *)
(* index and holds, in order, exactly the legacy cells that the config's  *)
(* hash capacity assigns to it (hashshard.rs:86-94).                      *)
ShardsMatchConfig ==
  config # NoConfig =>
    \A i \in 1 .. config.partition :
      Complete(shard[i]) =>
        /\ shard[i][1] = i
        /\ shard[i][2] = Cardinality(RefCells(i, config.hashCapacity))
        /\ \A k \in 0 .. shard[i][2] - 1 :
             SubSeq(shard[i], 3 + k * CellBytes, 2 + (k + 1) * CellBytes)
               = CellBytesOf((i - 1) * config.hashCapacity + k)

(* A run that finished without error has produced every shard the config  *)
(* names, and together they hold every cell of the legacy index.          *)
SplitDoneCoversIndex ==
  pc = "done" =>
    /\ \A i \in 1 .. config.partition : Complete(shard[i])
    /\ \A c \in 0 .. Capacity - 1 :
         \E i \in 1 .. config.partition : c \in CellsOf(shard[i])

(* Spec section 5: a crash during the split must leave the directory in a *)
(* state later tools detect as incomplete.  Stated here: whenever no      *)
(* splitter is running and hash_config.k2d exists, every shard it names   *)
(* is complete.  build_k2_db only checks that hash_config.k2d exists.     *)
ConfigImpliesShardsComplete ==
  (pc \notin {"split", "companions"} /\ config # NoConfig) =>
    \A i \in 1 .. config.partition : Complete(shard[i])

(* Every split that starts ends: the shard loop of hashshard.rs:86-95     *)
(* runs over a partition count fixed before it, and each iteration either *)
(* writes its shard or returns the error of read_exact with `?`.          *)
SplitEnds == pc = "split" ~> pc \in {"done", "failed", "crashed"}

=============================================================================
