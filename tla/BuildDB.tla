------------------------------ MODULE BuildDB ------------------------------
(***************************************************************************)
(* The index builder, src/kr2r/src/bin/build_k2_db.rs (run), with the     *)
(* chunk discovery of utils.rs (find_and_trans_files, check = true) and   *)
(* the per-chunk fold process_k2file of spec section 4.3, which inserts   *)
(* every (key, taxon) record of chunk_i.k2 into shard hash_i.k2d with     *)
(* insert_or_merge and returns the number of newly occupied cells.        *)
(*                                                                        *)
(* The shard files are written in place record by record (spec 4.2: the   *)
(* table is file-backed), so a crash leaves every insert done so far on   *)
(* disk.  The tool may crash at any step and may be run again, up to      *)
(* MaxRuns times; chunk files and shards persist across runs, the local   *)
(* variables of run do not.                                               *)
(***************************************************************************)
EXTENDS CompactHash, Sequences, FiniteSetsExt

CONSTANTS
  ChunkIds,   \* 1 .. N: chunk_i.k2 / hash_i.k2d
  ChunkRecs,  \* ChunkRecs[i]: the records of chunk_i.k2, a sequence
  Home,       \* Home[k]: home bucket of key k in its shard
  MaxRuns     \* bound on the number of times the tool is started

Record == [key : Keys, taxon : Taxa]

ASSUME /\ ChunkRecs \in [ChunkIds -> Seq(Record) \ {<<>>}]
       /\ Home \in [Keys -> Cells]

VARIABLES
  shard,    \* shard[i]: the cell array of hash_i.k2d
  chunks,   \* the chunk_i.k2 files present in the database directory
  cfgSize,  \* the size (populated_count) field of hash_config.k2d
  pc,       \* "idle" | "insert" | "write" | "remove" | "done" | "failed" | "crashed"
  n,        \* number of chunk files found at the start of this run
  cur,      \* chunk being folded, or being removed
  pos,      \* next record of chunk cur
  size,     \* the local sum of newly occupied cells (line 31)
  runs      \* number of runs started

vars == <<shard, chunks, cfgSize, pc, n, cur, pos, size, runs>>

EmptyShard == [p \in Cells |-> Empty]

(* utils.rs:279-291: with check = true the file numbers, sorted, must be  *)
(* exactly 1, 2, ...; otherwise the call returns an error.                *)
Contiguous(S) == S = 1 .. Cardinality(S)

Init ==
  /\ shard = [i \in ChunkIds |-> EmptyShard]
  /\ chunks = ChunkIds
  /\ cfgSize = 0
  /\ pc = "idle"
  /\ n = 0
  /\ cur = 0
  /\ pos = 0
  /\ size = 0
  /\ runs = 0

(* Fault: a rerun recreates the shard files empty before folding.        *)
StartTruncates ==
  /\ pc \in {"idle", "done", "failed", "crashed"}
  /\ runs < MaxRuns
  /\ runs' = runs + 1
  /\ IF Contiguous(chunks)
       THEN /\ n' = Cardinality(chunks)
            /\ pc' = IF chunks = {} THEN "write" ELSE "insert"
            /\ cur' = 1
            /\ pos' = 1
            /\ size' = 0
            /\ shard' = [i \in ChunkIds |-> EmptyShard]
       ELSE /\ pc' = "failed"
            /\ UNCHANGED <<n, cur, pos, size, shard>>
  /\ UNCHANGED <<chunks, cfgSize>>

(* build_k2_db.rs:19-31: read hash_config.k2d, list the chunk files,      *)
(* fail unless they are numbered contiguously from 1, set size = 0.       *)
Start ==
  /\ pc \in {"idle", "done", "failed", "crashed"}
  /\ runs < MaxRuns
  /\ runs' = runs + 1
  /\ IF Contiguous(chunks)
       THEN /\ n' = Cardinality(chunks)
            /\ pc' = IF chunks = {} THEN "write" ELSE "insert"
            /\ cur' = 1
            /\ pos' = 1
            /\ size' = 0
       ELSE /\ pc' = "failed"
            /\ UNCHANGED <<n, cur, pos, size>>
  /\ UNCHANGED <<shard, chunks, cfgSize>>

(* Fault: the loop moves to the next chunk one record early.              *)
InsertSkipLast ==
  /\ pc = "insert"
  /\ LET r   == ChunkRecs[cur][pos]
         res == InsertOrMerge(shard[cur], r.key, Home[r.key], r.taxon)
         last == pos >= Len(ChunkRecs[cur]) - 1
     IN IF res.ok
          THEN /\ shard' = [shard EXCEPT ![cur] = res.cells]
               /\ size' = size + (IF res.new THEN 1 ELSE 0)
               /\ pos' = IF last THEN 1 ELSE pos + 1
               /\ cur' = IF last THEN cur + 1 ELSE cur
               /\ pc' = IF last /\ cur = n THEN "write" ELSE "insert"
          ELSE /\ pc' = "failed"
               /\ UNCHANGED <<shard, size, pos, cur>>
  /\ UNCHANGED <<chunks, cfgSize, n, runs>>

(* Fault: a record whose key is already stored does not advance the fold. *)
InsertStallOnMerge ==
  /\ pc = "insert"
  /\ LET r   == ChunkRecs[cur][pos]
         res == InsertOrMerge(shard[cur], r.key, Home[r.key], r.taxon)
         last == pos = Len(ChunkRecs[cur])
     IN IF res.ok
          THEN /\ shard' = [shard EXCEPT ![cur] = res.cells]
               /\ size' = size + (IF res.new THEN 1 ELSE 0)
               /\ pos' = IF last \/ ~res.new THEN pos ELSE pos + 1
               /\ cur' = IF last /\ res.new THEN cur + 1 ELSE cur
               /\ pc' = IF last /\ res.new /\ cur = n THEN "write" ELSE "insert"
          ELSE /\ pc' = "failed"
               /\ UNCHANGED <<shard, size, pos, cur>>
  /\ UNCHANGED <<chunks, cfgSize, n, runs>>

(* build_k2_db.rs:34-49 with process_k2file (spec 4.3): one record of     *)
(* chunk cur is inserted into shard cur; a new cell adds one to the count *)
(* that process_k2file returns and run adds to size.  Probe exhaustion is *)
(* fatal.  After the last record of a chunk the loop moves to the next    *)
(* chunk, and after the last chunk to the config write.                   *)
Insert ==
  /\ pc = "insert"
  /\ LET r   == ChunkRecs[cur][pos]
         res == InsertOrMerge(shard[cur], r.key, Home[r.key], r.taxon)
         last == pos = Len(ChunkRecs[cur])
     IN IF res.ok
          THEN /\ shard' = [shard EXCEPT ![cur] = res.cells]
               /\ size' = size + (IF res.new THEN 1 ELSE 0)
               /\ pos' = IF last THEN 1 ELSE pos + 1
               /\ cur' = IF last THEN cur + 1 ELSE cur
               /\ pc' = IF last /\ cur = n THEN "write" ELSE "insert"
          ELSE /\ pc' = "failed"
               /\ UNCHANGED <<shard, size, pos, cur>>
  /\ UNCHANGED <<chunks, cfgSize, n, runs>>

(* build_k2_db.rs:51-52: hash_config.size = size; write the config.       *)
WriteConfig ==
  /\ pc = "write"
  /\ cfgSize' = size
  /\ pc' = IF n = 0 THEN "done" ELSE "remove"
  /\ cur' = 1
  /\ UNCHANGED <<shard, chunks, n, pos, size, runs>>

(* Fault: the removal loop does not stop after the last chunk.            *)
RemoveChunkNoEnd ==
  /\ pc = "remove"
  /\ \/ /\ chunks' = chunks \ {cur}
        /\ cur' = cur + 1
        /\ pc' = "remove"
     \/ /\ pc' = "failed"
        /\ UNCHANGED <<chunks, cur>>
  /\ UNCHANGED <<shard, cfgSize, n, pos, size, runs>>

(* build_k2_db.rs:59-61: remove the chunk files in order; an error of     *)
(* remove_file ends the run with the remaining files left in place.       *)
RemoveChunk ==
  /\ pc = "remove"
  /\ \/ /\ chunks' = chunks \ {cur}
        /\ cur' = cur + 1
        /\ pc' = IF cur = n THEN "done" ELSE "remove"
     \/ /\ pc' = "failed"
        /\ UNCHANGED <<chunks, cur>>
  /\ UNCHANGED <<shard, cfgSize, n, pos, size, runs>>

(* The process dies; files keep what was written to them.                 *)
Crash ==
  /\ pc \in {"insert", "write", "remove"}
  /\ pc' = "crashed"
  /\ UNCHANGED <<shard, chunks, cfgSize, n, cur, pos, size, runs>>

Next == Start \/ Insert \/ WriteConfig \/ RemoveChunk \/ Crash

(* run is one thread: once started it keeps taking its next step.        *)
(* Starting a run and crashing are the environment's, with no fairness.   *)
Spec == Init /\ [][Next]_vars /\ WF_vars(Insert \/ WriteConfig \/ RemoveChunk)

-----------------------------------------------------------------------------
KeysOf(i) == {ChunkRecs[i][j].key : j \in DOMAIN ChunkRecs[i]}

TaxaOf(i, k) ==
  {ChunkRecs[i][j].taxon : j \in {j \in DOMAIN ChunkRecs[i] : ChunkRecs[i][j].key = k}}

(* Cells occupied across all shards.                                      *)
Populated == MapThenSumSet(LAMBDA i : Occupied(shard[i]), ChunkIds)

TypeOK ==
  /\ shard \in [ChunkIds -> [Cells -> Cell \cup {Empty}]]
  /\ chunks \subseteq ChunkIds
  /\ cfgSize \in Nat
  /\ pc \in {"idle", "insert", "write", "remove", "done", "failed", "crashed"}
  /\ n \in 0 .. Cardinality(ChunkIds)
  /\ cur \in 0 .. Cardinality(ChunkIds) + 1
  /\ size \in Nat
  /\ runs \in 0 .. MaxRuns

(* A chunk file is deleted only once all of its records are in its shard: *)
(* after any interleaving of crashes, reruns and failed removals, every   *)
(* key of a removed chunk_i.k2 is found in hash_i.k2d with the LCA of all *)
(* the taxa the chunk gave it (build_k2_db.rs:34-61).                     *)
RemovedChunksAreFolded ==
  \A i \in ChunkIds \ chunks :
    \A k \in KeysOf(i) : Lookup(shard[i], k, Home[k]) = LcaSet(TaxaOf(i, k))

(* A run that ends without error leaves every shard holding exactly the   *)
(* keys of its chunk, each once, with the LCA of the chunk's taxa for it, *)
(* whatever crashes and reruns came before (re-folding is idempotent).    *)
BuiltIndexExact ==
  pc = "done" =>
    \A i \in ChunkIds :
      /\ Occupied(shard[i]) = Cardinality(KeysOf(i))
      /\ \A k \in KeysOf(i) : Lookup(shard[i], k, Home[k]) = LcaSet(TaxaOf(i, k))

(* The sharded, file-backed build implements the abstract index: the map  *)
(* read back through lookup only ever changes by inserting a record of a  *)
(* chunk, merged with LCA (spec 4.2); crashes and reruns add nothing else.*)
IM == INSTANCE IndexMap WITH
        Recs <- UNION {{ChunkRecs[i][j] : j \in DOMAIN ChunkRecs[i]} : i \in ChunkIds},
        map <- [k \in Keys |->
                  IF \E i \in ChunkIds : k \in KeysOf(i)
                    THEN LET i == CHOOSE i \in ChunkIds : k \in KeysOf(i)
                         IN Lookup(shard[i], k, Home[k])
                    ELSE Empty]

IndexRefinement == IM!Spec

(* Spec 3/4.3: populated_count records the cells occupied by the build.   *)
(* build_k2_db.rs:51 stores the cells newly occupied by this run only.    *)
PopulatedCountCorrect ==
  pc = "done" => cfgSize = Populated

(* Every build that starts ends: the fold visits each record of each      *)
(* listed chunk once (build_k2_db.rs:34-49), then the config is written   *)
(* and the chunk files are removed one by one (lines 51-61); an error of  *)
(* any step ends the run with `?`.                                        *)
BuildEnds == pc = "insert" ~> pc \in {"done", "failed", "crashed"}

=============================================================================
