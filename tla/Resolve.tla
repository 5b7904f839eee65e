------------------------------ MODULE Resolve ------------------------------
(***************************************************************************)
(* The resolver, src/kr2r/src/bin/resolve.rs (run, process_batch).  For   *)
(* each sample i, in ascending order, it loads sample_id_i.map, then for  *)
(* each hit file sample_file_i_j.bin of the sample reads the rows into a  *)
(* map seq_id -> rows and classifies every entry on a pool of worker      *)
(* threads (buffer_map_parallel).  A worker looks the sequence up in the  *)
(* id map, classifies it (process_hitgroup, which bumps the shared atomic *)
(* classify_counter on a call), merges its counter delta into the shared  *)
(* DashMap through entry() (which holds the entry's lock while merging)   *)
(* and hands an output line to the writer.  After the files of a sample,  *)
(* the sample's counters are merged into the totals and                   *)
(* thread_sequences - thread_classified is added to the unclassified      *)
(* total.                                                                 *)
(*                                                                         *)
(* Data is abstracted: a hit row is the sequence and the taxon it hit,   *)
(* the rows of a sequence in one file are taken as a set of taxa, and     *)
(* only read counts are kept of the taxon counters.  usize arithmetic is  *)
(* taken modulo UsizeMod, a stand-in for 2^64 far above every count of    *)
(* the model.                                                             *)
(***************************************************************************)
EXTENDS Taxonomy, Sequences, FiniteSetsExt

CONSTANTS
  Samples,       \* 1 .. S: sample numbers i
  Seqs,          \* sequence ids (model values)
  BinFiles,      \* BinFiles[i]: the hit files of sample i, in read_dir order
  Rows,          \* Rows[f]: the whole rows of hit file f in file order, [seq, taxon]
  ReadErrors,    \* whether reading a hit file may fail part-way
  IdFiles,       \* IdFiles[i]: possible contents of sample_id_i.map (line sequences), or NoMap
  NoMap,         \* sample_id_i.map absent
  BadId,         \* first column of a line that does not parse as u32
  BadLine,       \* a line that cannot be read (I/O error, invalid UTF-8)
  Workers,       \* threads of buffer_map_parallel
  NoWorker,      \* no thread holds the entry
  MinHitGroups,  \* --minimum-hit-groups
  Unclassified,  \* the call of an unclassified sequence (taxon 0)
  UsizeMod       \* stand-in for 2^64

Files == UNION {Range(BinFiles[i]) : i \in Samples}

ASSUME /\ Rows \in [Files -> Seq([seq : Seqs, taxon : Taxa])]
       /\ Unclassified \notin Taxa

VARIABLES
  idFile,      \* idFile[i]: the contents of sample_id_i.map (fixed for the run)
  build,       \* "debug" or "release": what usize underflow does
  pc,          \* "sample" | "file" | "batch" | "tally" | "done" | "panicked"
  si,          \* current sample
  fj,          \* index of the current file in BinFiles[si]
  nread,       \* rows read from the current hit file
  pending,     \* entries of the current hit map not yet taken by a worker
  wk,          \* wk[w]: what worker w is doing
  lockHolder,  \* lockHolder[t]: worker holding the DashMap entry of t, or NoWorker
  classified,  \* classify_counter of the current process_batch
  counts,      \* cur_taxon_counts of the current process_batch (read counts)
  out,         \* output lines written, in order
  totalCounts, \* total_taxon_counts
  totalSeqs,   \* total_seqs
  totalUncl    \* total_unclassified

vars == <<idFile, build, pc, si, fj, nread, pending, wk, lockHolder, classified, counts, out,
          totalCounts, totalSeqs, totalUncl>>

Idle == [st |-> "idle"]
Calls == Taxa \cup {Unclassified}

(* Stand-in for process_hitgroup (spec 4.6): a sequence is called when   *)
(* it has at least MinHitGroups hits, and then to the LCA of their taxa.  *)
Classify(rows) ==
  IF Cardinality(rows) >= MinHitGroups /\ rows # {} THEN LcaSet(rows) ELSE Unclassified

(* resolve.rs:18-47 read_id_to_seq_map.  A line is read (`expect`        *)
(* panics on a read error), split into at most 4 tab-separated columns;   *)
(* with fewer than 4, or a first column that is not a u32, it is skipped; *)
(* otherwise the first k-mer count is parsed with `unwrap`, which panics  *)
(* when it is malformed.  insert overwrites an id listed twice.           *)
Parsed(l) == l # BadLine /\ l.cols >= 4 /\ l.id # BadId

IdMapPanics(ls) ==
  \E k \in DOMAIN ls : ls[k] = BadLine \/ (Parsed(ls[k]) /\ ~ls[k].countOk)

IdMapKeys(ls) == {ls[k].id : k \in {j \in DOMAIN ls : Parsed(ls[j])}}

IdMap == IdMapKeys(idFile[si])

(* resolve.rs:102-113 read_rows_from_file: read_exact fills one row at a *)
(* time and the loop stops at its first failure, whether the end of the   *)
(* file, a trailing partial row or an I/O error; the rows read so far are *)
(* returned as Ok.  A trailing partial row is therefore the same as no    *)
(* row, and an error part-way is the same as a shorter file.              *)
RowsRead(f) == IF ReadErrors THEN 0 .. Len(Rows[f]) ELSE {Len(Rows[f])}

(* The map seq_id -> rows built from the first n rows (line 110): its     *)
(* keys, and the taxa of the rows of sequence s.                          *)
HitMap(f, n) == {Rows[f][k].seq : k \in 1 .. n}

HitRows(f, n, s) == {Rows[f][k].taxon : k \in {j \in 1 .. n : Rows[f][j].seq = s}}

CurFile == BinFiles[si][fj]

(* usize subtraction: a panic in a debug build, wrap-around in release.  *)
USub(a, b) == (a - b) % UsizeMod

Init ==
  /\ idFile \in [Samples -> UNION {IdFiles[i] : i \in Samples}]
  /\ \A i \in Samples : idFile[i] \in IdFiles[i]
  /\ build \in {"debug", "release"}
  /\ pc = "sample"
  /\ si = 1
  /\ fj = 0
  /\ nread = 0
  /\ pending = {}
  /\ wk = [w \in Workers |-> Idle]
  /\ lockHolder = [t \in Taxa |-> NoWorker]
  /\ classified = 0
  /\ counts = [t \in Taxa |-> 0]
  /\ out = <<>>
  /\ totalCounts = [t \in Taxa |-> 0]
  /\ totalSeqs = 0
  /\ totalUncl = 0

(* resolve.rs:214-233 and 127-128: load sample_id_i.map (indexing the    *)
(* BTreeMap of id files panics when it is missing, read_id_to_seq_map     *)
(* when it is malformed), then start process_batch with a fresh counter   *)
(* and counter map.                                                       *)
LoadSample ==
  /\ pc = "sample"
  /\ IF idFile[si] = NoMap \/ IdMapPanics(idFile[si])
       THEN /\ pc' = "panicked"
            /\ UNCHANGED <<fj, classified, counts>>
       ELSE /\ pc' = "file"
            /\ fj' = 1
            /\ classified' = 0
            /\ counts' = [t \in Taxa |-> 0]
  /\ UNCHANGED <<idFile, build, si, nread, pending, wk, lockHolder, out, totalCounts,
                 totalSeqs, totalUncl>>

(* resolve.rs:130-131: read the rows of the next hit file into a map.     *)
LoadFile ==
  /\ pc = "file"
  /\ \E n \in RowsRead(CurFile) :
       /\ nread' = n
       /\ pending' = HitMap(CurFile, n)
  /\ pc' = "batch"
  /\ UNCHANGED <<idFile, build, si, fj, wk, lockHolder, classified, counts, out,
                 totalCounts, totalSeqs, totalUncl>>

(* resolve.rs:136-153 and 169-171: an idle worker takes an entry.  A      *)
(* sequence missing from the id map is skipped with a message; otherwise  *)
(* it is classified, and process_hitgroup bumps classify_counter when it  *)
(* makes a call.                                                          *)
Take(w) ==
  /\ pc = "batch"
  /\ wk[w] = Idle
  /\ \E s \in pending :
       /\ pending' = pending \ {s}
       /\ IF s \in IdMap
            THEN LET call == Classify(HitRows(CurFile, nread, s)) IN
                 /\ classified' = classified + (IF call = Unclassified THEN 0 ELSE 1)
                 /\ wk' = [wk EXCEPT ![w] =
                            [st |-> IF call = Unclassified THEN "emit" ELSE "lock",
                             seq |-> s, call |-> call, val |-> 0]]
            ELSE UNCHANGED <<classified, wk>>
  /\ UNCHANGED <<idFile, build, pc, si, fj, nread, lockHolder, counts, out, totalCounts,
                 totalSeqs, totalUncl>>

(* Fault: the value is read without the entry lock (get, then insert).    *)
LockEntryNoLock(w) ==
  /\ wk[w].st = "lock"
  /\ wk' = [wk EXCEPT ![w].st = "merge", ![w].val = counts[wk[w].call]]
  /\ UNCHANGED <<idFile, build, pc, si, fj, nread, pending, lockHolder, classified, counts, out,
                 totalCounts, totalSeqs, totalUncl>>

(* resolve.rs:155-157: cur_taxon_counts.entry(call) takes the lock of the *)
(* entry and reads its value (or_default).                                *)
LockEntry(w) ==
  /\ wk[w].st = "lock"
  /\ lockHolder[wk[w].call] = NoWorker
  /\ lockHolder' = [lockHolder EXCEPT ![wk[w].call] = w]
  /\ wk' = [wk EXCEPT ![w].st = "merge", ![w].val = counts[wk[w].call]]
  /\ UNCHANGED <<idFile, build, pc, si, fj, nread, pending, classified, counts, out,
                 totalCounts, totalSeqs, totalUncl>>

(* Fault: the entry guard is never dropped.                              *)
MergeEntryNoRelease(w) ==
  /\ wk[w].st = "merge"
  /\ counts' = [counts EXCEPT ![wk[w].call] = wk[w].val + 1]
  /\ wk' = [wk EXCEPT ![w].st = "emit"]
  /\ UNCHANGED <<idFile, build, pc, si, fj, nread, pending, lockHolder, classified, out,
                 totalCounts, totalSeqs, totalUncl>>

(* resolve.rs:158-160: merge the delta and release the entry.             *)
MergeEntry(w) ==
  /\ wk[w].st = "merge"
  /\ counts' = [counts EXCEPT ![wk[w].call] = wk[w].val + 1]
  /\ lockHolder' = [lockHolder EXCEPT ![wk[w].call] = NoWorker]
  /\ wk' = [wk EXCEPT ![w].st = "emit"]
  /\ UNCHANGED <<idFile, build, pc, si, fj, nread, pending, classified, out,
                 totalCounts, totalSeqs, totalUncl>>

(* resolve.rs:163-168 and 174-181: the output line (status, sequence id,  *)
(* call, ...) reaches the writer.                                         *)
Emit(w) ==
  /\ wk[w].st = "emit"
  /\ out' = Append(out, [sample |-> si, seq |-> wk[w].seq, call |-> wk[w].call])
  /\ wk' = [wk EXCEPT ![w] = Idle]
  /\ UNCHANGED <<idFile, build, pc, si, fj, nread, pending, lockHolder, classified, counts,
                 totalCounts, totalSeqs, totalUncl>>

(* resolve.rs:130, 133-184: buffer_map_parallel returns once every entry  *)
(* is done; the loop moves to the next hit file of the sample.            *)
FileDone ==
  /\ pc = "batch"
  /\ pending = {}
  /\ \A w \in Workers : wk[w] = Idle
  /\ IF fj < Len(BinFiles[si])
       THEN /\ fj' = fj + 1
            /\ pc' = "file"
       ELSE /\ pc' = "tally"
            /\ UNCHANGED fj
  /\ UNCHANGED <<idFile, build, si, nread, pending, wk, lockHolder, classified, counts, out,
                 totalCounts, totalSeqs, totalUncl>>

(* Fault: the sample loop runs one sample past the last.                 *)
TallyPastEnd ==
  LET seqs == Cardinality(IdMap) IN
  /\ pc = "tally"
  /\ IF classified > seqs /\ build = "debug"
       THEN /\ pc' = "panicked"
            /\ UNCHANGED <<si, counts, totalCounts, totalSeqs, totalUncl>>
       ELSE /\ totalCounts' = [t \in Taxa |-> totalCounts[t] + counts[t]]
            /\ totalSeqs' = totalSeqs + seqs
            /\ totalUncl' = (totalUncl + USub(seqs, classified)) % UsizeMod
            /\ counts' = [t \in Taxa |-> 0]
            /\ IF si <= Cardinality(Samples)
                 THEN /\ si' = si + 1
                      /\ pc' = "sample"
                 ELSE /\ pc' = "done"
                      /\ UNCHANGED si
  /\ UNCHANGED <<idFile, build, fj, nread, pending, wk, lockHolder, classified, out>>

(* resolve.rs:235-267: merge the sample's counters into the totals and    *)
(* add thread_sequences - thread_classified (usize) to total_unclassified.*)
(* The sample's counter map is dropped at the end of the iteration.       *)
Tally ==
  LET seqs == Cardinality(IdMap) IN
  /\ pc = "tally"
  /\ IF classified > seqs /\ build = "debug"
       THEN /\ pc' = "panicked"
            /\ UNCHANGED <<si, counts, totalCounts, totalSeqs, totalUncl>>
       ELSE /\ totalCounts' = [t \in Taxa |-> totalCounts[t] + counts[t]]
            /\ totalSeqs' = totalSeqs + seqs
            /\ totalUncl' = (totalUncl + USub(seqs, classified)) % UsizeMod
            /\ counts' = [t \in Taxa |-> 0]
            /\ IF si < Cardinality(Samples)
                 THEN /\ si' = si + 1
                      /\ pc' = "sample"
                 ELSE /\ pc' = "done"
                      /\ UNCHANGED si
  /\ UNCHANGED <<idFile, build, fj, nread, pending, wk, lockHolder, classified, out>>

Next ==
  \/ LoadSample \/ LoadFile \/ FileDone \/ Tally
  \/ \E w \in Workers : Take(w) \/ LockEntry(w) \/ MergeEntry(w) \/ Emit(w)

(* Worker threads run until the pool is drained (rayon / OS scheduling). *)
Spec == Init /\ [][Next]_vars /\ WF_vars(Next)

-----------------------------------------------------------------------------
Lines(t) == Cardinality({x \in DOMAIN out : out[x].call = t})

TypeOK ==
  /\ build \in {"debug", "release"}
  /\ pc \in {"sample", "file", "batch", "tally", "done", "panicked"}
  /\ si \in Samples
  /\ nread \in Nat
  /\ pending \subseteq Seqs
  /\ \A w \in Workers :
       wk[w] = Idle \/ (wk[w].st \in {"lock", "merge", "emit"}
                        /\ wk[w].seq \in Seqs /\ wk[w].call \in Calls)
  /\ lockHolder \in [Taxa -> Workers \cup {NoWorker}]
  /\ classified \in Nat
  /\ counts \in [Taxa -> Nat]
  /\ totalCounts \in [Taxa -> Nat]
  /\ totalSeqs \in Nat
  /\ totalUncl \in 0 .. UsizeMod - 1

(* No concurrent merge is lost: at every moment the read counts of the    *)
(* totals and of the running batch account for exactly the output lines   *)
(* written plus the merged lines still on their way to the writer         *)
(* (resolve.rs:155-160 under the DashMap entry lock, 241-252).            *)
CountsMatchOutput ==
  \A t \in Taxa :
    totalCounts[t] + counts[t]
      = Lines(t) + Cardinality({w \in Workers : wk[w].st = "emit" /\ wk[w].call = t})

(* Spec 4.6 step 5: one output record per sequence.                       *)
OneRecordPerSequence ==
  \A x, y \in DOMAIN out :
    (x # y /\ out[x].sample = out[y].sample) => out[x].seq # out[y].seq

(* Every run drains: the resolver eventually finishes or stops on a panic.*)
Terminates == <>(pc \in {"done", "panicked"})

=============================================================================
