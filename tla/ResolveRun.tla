----------------------------- MODULE ResolveRun -----------------------------
(***************************************************************************)
(* The run-level protocol of src/kr2r/src/bin/resolve.rs (run, lines      *)
(* 190-311) over the chunk directory: the hit files sample_file_i_j.bin   *)
(* and id maps sample_id_i.map are listed once (utils.rs                  *)
(* find_and_trans_bin_files and find_and_trans_files, check = false),     *)
(* each sample i in ascending order gets output_i.txt (File::create       *)
(* truncates it, process_batch writes it), then sample_file.map is copied *)
(* to the output directory and finally every hit file and id map is       *)
(* removed, errors ignored.  How a sample is classified is the subject of *)
(* the Resolve module; here an output file records which hit files it was *)
(* computed from.  The process may crash at any step and be rerun, up to  *)
(* MaxRuns times; files persist, the locals of run do not.               *)
(***************************************************************************)
EXTENDS Naturals, FiniteSets

CONSTANTS
  Samples,   \* sample numbers i
  Parts,     \* part numbers j of sample_file_i_j.bin
  Hits,      \* Hits[i]: the parts the upstream tool wrote for sample i
  IdSets,    \* possible sets of samples that have sample_id_i.map
  NoOutput,  \* output_i.txt absent
  ReadErrors,\* whether reading a hit file may fail part-way
  MaxRuns    \* bound on the number of runs

ASSUME \A i \in Samples : Hits[i] \subseteq Parts

VARIABLES
  bins,     \* hit files present: set of <<i, j>>
  ids,      \* samples whose id map is present
  mapFile,  \* sample_file.map present in the chunk directory
  out,      \* out[i]: NoOutput or [from : parts used, done : written to the end]
  pc,       \* "idle" | "sample" | "copy" | "rmbins" | "rmids" | "ok" | "err" | "panicked" | "crashed"
  listed,   \* the hit files listed at the start of this run
  todo,     \* samples of this run not yet processed
  rmTodo,   \* listed hit files not yet passed to remove_file
  runs

vars == <<bins, ids, mapFile, out, pc, listed, todo, rmTodo, runs>>

(* find_and_trans_bin_files (utils.rs:213-221) groups the listed files   *)
(* by the first number of their name; with check = false any set of      *)
(* sample numbers is accepted.                                           *)
SampleKeys(fs) == {f[1] : f \in fs}

PartsOf(i, fs) == {f[2] : f \in {g \in fs : g[1] = i}}

MinOf(S) == CHOOSE x \in S : \A y \in S : x <= y

(* read_rows_from_file (resolve.rs:102-113) stops at a failed read as if  *)
(* at the end of the file and returns the rows read so far as Ok; the     *)
(* sample's output is then written from part of those hit files.  The     *)
(* sets of hit files a sample's reads may cut short.                      *)
ReadCut(i, fs) == IF ReadErrors THEN SUBSET PartsOf(i, fs) ELSE {{}}

Init ==
  /\ bins = {<<i, j>> \in Samples \X Parts : j \in Hits[i]}
  /\ ids \in IdSets
  /\ mapFile \in BOOLEAN
  /\ out = [i \in Samples |-> NoOutput]
  /\ pc = "idle"
  /\ listed = {}
  /\ todo = {}
  /\ rmTodo = {}
  /\ runs = 0

(* Fault: the sample loop skips the first sample.                         *)
StartSkipFirst ==
  /\ pc \in {"idle", "ok", "err", "panicked", "crashed"}
  /\ runs < MaxRuns
  /\ runs' = runs + 1
  /\ listed' = bins
  /\ todo' = IF bins = {} THEN {} ELSE SampleKeys(bins) \ {MinOf(SampleKeys(bins))}
  /\ rmTodo' = {}
  /\ pc' = "sample"
  /\ UNCHANGED <<bins, ids, mapFile, out>>

(* resolve.rs:190-213: list the hit files and id maps of the chunk dir.   *)
Start ==
  /\ pc \in {"idle", "ok", "err", "panicked", "crashed"}
  /\ runs < MaxRuns
  /\ runs' = runs + 1
  /\ listed' = bins
  /\ todo' = SampleKeys(bins)
  /\ rmTodo' = {}
  /\ pc' = "sample"
  /\ UNCHANGED <<bins, ids, mapFile, out>>

(* Fault: an error of process_batch is ignored and the loop goes on.       *)
SampleIgnoreError ==
  /\ pc = "sample"
  /\ todo # {}
  /\ LET i == MinOf(todo) IN
       IF i \notin ids
         THEN /\ pc' = "panicked"
              /\ UNCHANGED <<out, todo>>
         ELSE /\ \/ out' = [out EXCEPT ![i] = [from |-> PartsOf(i, listed), done |-> TRUE]]
                 \/ out' = [out EXCEPT ![i] = [from |-> PartsOf(i, listed), done |-> FALSE]]
              /\ todo' = todo \ {i}
              /\ pc' = "sample"
  /\ UNCHANGED <<bins, ids, mapFile, listed, rmTodo, runs>>

(* resolve.rs:214-268, one iteration: indexing sample_id_files[i] panics  *)
(* when the id map is missing (read_id_to_seq_map panicking on a          *)
(* malformed one, lines 26 and 35, has the same effect here);            *)
(* File::create truncates output_i.txt, and process_batch fills it from   *)
(* the listed hit files of the sample; `from` holds the files read to     *)
(* their end.  The truncation and the last write are one step here: a     *)
(* crash between them is the Crash action below leaving the file not done.*)
Sample ==
  /\ pc = "sample"
  /\ todo # {}
  /\ LET i == MinOf(todo) IN
       IF i \notin ids
         THEN /\ pc' = "panicked"
              /\ UNCHANGED <<out, todo>>
         ELSE /\ \E cut \in ReadCut(i, listed), d \in BOOLEAN :
                 out' = [out EXCEPT ![i] = [from |-> PartsOf(i, listed) \ cut, done |-> d]]
              /\ todo' = todo \ {i}
              /\ pc' = IF out'[i].done THEN "sample" ELSE "crashed"
  /\ UNCHANGED <<bins, ids, mapFile, listed, rmTodo, runs>>

(* resolve.rs:270-291: after the last sample, the reports are written and *)
(* sample_file.map is copied unless no hit file was listed (line 271); a  *)
(* failed copy returns the error with `?`, and the cleanup is skipped.    *)
Copy ==
  /\ pc = "sample"
  /\ todo = {}
  /\ pc' = IF mapFile \/ listed = {} THEN "rmbins" ELSE "err"
  /\ rmTodo' = listed
  /\ UNCHANGED <<bins, ids, mapFile, out, listed, todo, runs>>

(* Fault: the removal loop does not move past the file it removed.        *)
RemoveBinNoAdvance ==
  /\ pc = "rmbins"
  /\ IF rmTodo = {}
       THEN /\ pc' = "rmids"
            /\ UNCHANGED <<bins, rmTodo>>
       ELSE \E f \in rmTodo :
              /\ f[1] = MinOf(SampleKeys(rmTodo))
              /\ UNCHANGED rmTodo
              /\ \/ bins' = bins \ {f}
                 \/ UNCHANGED bins
              /\ UNCHANGED pc
  /\ UNCHANGED <<ids, mapFile, out, listed, todo, runs>>

(* resolve.rs:299-303: pass the listed hit files to remove_file, sample  *)
(* by sample in ascending order; `let _ =` ignores a failed removal.      *)
RemoveBin ==
  /\ pc = "rmbins"
  /\ IF rmTodo = {}
       THEN /\ pc' = "rmids"
            /\ UNCHANGED <<bins, rmTodo>>
       ELSE \E f \in rmTodo :
              /\ f[1] = MinOf(SampleKeys(rmTodo))
              /\ rmTodo' = rmTodo \ {f}
              /\ \/ bins' = bins \ {f}
                 \/ UNCHANGED bins
              /\ UNCHANGED pc
  /\ UNCHANGED <<ids, mapFile, out, listed, todo, runs>>

(* resolve.rs:305-307: remove the listed id maps (all that exist); a      *)
(* failed removal is ignored and leaves the file.                         *)
RemoveIds ==
  /\ pc = "rmids"
  /\ ids' \in SUBSET ids
  /\ pc' = "ok"
  /\ UNCHANGED <<bins, mapFile, out, listed, todo, rmTodo, runs>>

(* The process dies between two steps.                                    *)
Crash ==
  /\ pc \in {"sample", "rmbins", "rmids"}
  /\ pc' = "crashed"
  /\ UNCHANGED <<bins, ids, mapFile, out, listed, todo, rmTodo, runs>>

Next == Start \/ Sample \/ Copy \/ RemoveBin \/ RemoveIds \/ Crash

(* run is one sequential thread (the worker pool of process_batch joins   *)
(* before it returns): once started it keeps taking its next step.         *)
(* Starting a run and crashing are the environment's, with no fairness.   *)
Spec == Init /\ [][Next]_vars /\ WF_vars(Sample \/ Copy \/ RemoveBin \/ RemoveIds)

-----------------------------------------------------------------------------
TypeOK ==
  /\ bins \subseteq Samples \X Parts
  /\ ids \subseteq Samples
  /\ \A i \in Samples :
       out[i] = NoOutput \/ (out[i].from \subseteq Parts /\ out[i].done \in BOOLEAN)
  /\ todo \subseteq Samples
  /\ rmTodo \subseteq listed
  /\ runs \in 0 .. MaxRuns

(* A run that ends Ok has written, to the end, an output_i.txt for every  *)
(* sample it listed, from exactly the hit files it listed for it: the `?` *)
(* on process_batch (line 233) stops the run before the cleanup.          *)
CleanRunComplete ==
  pc = "ok" =>
    \A i \in SampleKeys(listed) :
      /\ out[i] # NoOutput
      /\ out[i].done
      /\ out[i].from = PartsOf(i, listed)

(* No hit is lost for good: once a hit file of sample i is removed, the   *)
(* output_i.txt on disk was written to the end from every hit file the    *)
(* upstream tool produced for the sample.  Removal comes after every      *)
(* output (resolve.rs:299) and the rerun after a crash reprocesses what   *)
(* is left (lines 195-196, 214).                                           *)
NoEvidenceLost ==
  \A i \in Samples :
    (\E j \in Hits[i] : <<i, j>> \notin bins) =>
      /\ out[i] # NoOutput
      /\ out[i].done
      /\ out[i].from = Hits[i]

(* Every run that starts ends: it returns Ok, returns an error, panics or  *)
(* is killed; the sample loop and both removal loops (resolve.rs:214,     *)
(* 299-307) each pass over a list fixed at the start.                     *)
RunEnds == pc = "sample" ~> pc \in {"ok", "err", "panicked", "crashed"}

=============================================================================
