------------------------------- MODULE Squid -------------------------------
(***************************************************************************)
(* The hit lookup tool, src/kr2r/src/bin/squid.rs (main and               *)
(* process_chunk_file), with the file discovery of utils.rs               *)
(* find_and_sort_files.  Each chunk file is a 16-byte header followed by  *)
(* fixed-size slots; it is read through a BufReader: read_exact of the    *)
(* header, then read() into a batch buffer of BATCH_SIZE slots until a    *)
(* read returns 0 or an error.  Each read's bytes are cut into            *)
(* bytes_read / slot_size slots that are looked up in parallel.           *)
(*                                                                         *)
(* A file is its length: byte p of a file is position p, and a slot is    *)
(* named by the file position it was cut from.  The BufReader is its     *)
(* logical position rpos and the position ipos of the file underneath;    *)
(* the bytes rpos .. ipos-1 are buffered.  Lookups are read-only and are  *)
(* recorded as the set of (file, position) slots that were looked up.     *)
(* Two behaviours of the environment are switched by constants: a read    *)
(* of the file returning fewer bytes than asked (the Read contract allows *)
(* it), and a read failing with an I/O error.                             *)
(***************************************************************************)
EXTENDS Naturals, Sequences, FiniteSets, TLC

CONSTANTS
  Dirs,        \* possible directory listings: sequences of [num, len] in read_dir order
  NoNum,       \* num of a name the regex prefix_(\d+)suffix does not match
  Header,      \* header bytes (u64 + u64 = 16)
  Slot,        \* size_of::<Slot<u64>>()
  Cap,         \* BufReader capacity (8 KiB)
  BatchBytes,  \* slot_size * BATCH_SIZE
  SortCheck,   \* the check argument of find_and_sort_files (absent at the call site)
  ShortReads,  \* a read of the file may return fewer bytes than asked
  ReadErrors   \* a read of the file may fail

ASSUME BufferBypass == BatchBytes >= Cap   \* 81920 * 16 >= 8192: reads bypass the buffer once it is empty

VARIABLES
  files,   \* the chunk files main iterates over, in order
  pc,      \* "list" | "header" | "loop" | "done" | "error"
  fi,      \* index of the file being processed
  rpos,    \* BufReader logical position in file fi
  ipos,    \* position of the file underneath the BufReader
  looked   \* set of <<file index, position>> slots looked up

vars == <<files, pc, fi, rpos, ipos, looked>>

-----------------------------------------------------------------------------
(* utils.rs:298-353 find_and_sort_files: keep the names the regex parses, *)
(* sort them stably by number (sort_by_key), and with check require the   *)
(* numbers to be 1, 2, ... in order.                                      *)
Matching(dir) == SelectSeq(dir, LAMBDA e : e.num # NoNum)

SortByNum(s) ==
  LET idx == SortSeq([i \in DOMAIN s |-> i],
                     LAMBDA a, b : s[a].num < s[b].num \/ (s[a].num = s[b].num /\ a < b))
  IN [k \in DOMAIN idx |-> s[idx[k]]]

NumbersContiguous(s) == \A i \in DOMAIN s : s[i].num = i

FileLen == files[fi].len

(* What one read of the file returns when `want` bytes remain to be read  *)
(* and asked for: all of them, or with short reads any positive number.   *)
ReadCounts(want) == IF ShortReads /\ want > 0 THEN 1 .. want ELSE {want}

(* Fault: a read of a whole number of slots loses its last one.          *)
SlotsLessOne(n) == (n - 1) \div Slot

(* Fault: a trailing partial slot is rounded up to a whole one.          *)
SlotsCeil(n) == (n + Slot - 1) \div Slot

(* squid.rs:98: slots_in_batch = bytes_read / slot_size.                 *)
SlotsIn(n) == n \div Slot

(* The slots a read of n bytes starting at rpos is cut into.              *)
CutSlots(start, n) == {<<fi, start + j * Slot>> : j \in 0 .. SlotsIn(n) - 1}

-----------------------------------------------------------------------------
Init ==
  /\ files \in Dirs    \* the directory listing, fixed for the run
  /\ pc = "list"
  /\ fi = 0
  /\ rpos = 0
  /\ ipos = 0
  /\ looked = {}

(* Start processing file fi, or finish when none is left.                  *)
NextFile(i) ==
  /\ fi' = i
  /\ pc' = IF i <= Len(files) THEN "header" ELSE "done"
  /\ rpos' = 0
  /\ ipos' = 0

(* squid.rs:114-124: list the chunk files; an error of the check ends     *)
(* main with that error.                                                  *)
List ==
  /\ pc = "list"
  /\ LET found == SortByNum(Matching(files)) IN
       IF SortCheck /\ ~NumbersContiguous(found)
         THEN /\ pc' = "error"
              /\ UNCHANGED <<files, fi, rpos, ipos>>
         ELSE /\ files' = found
              /\ fi' = 1
              /\ pc' = IF found = <<>> THEN "done" ELSE "header"
              /\ UNCHANGED <<rpos, ipos>>
  /\ UNCHANGED looked

(* squid.rs:68-90: open the file and read_exact the 16-byte header.  The  *)
(* BufReader fills its buffer with one read of the file, up to Cap bytes  *)
(* (with short reads, read_exact may need several, leaving between       *)
(* Header and Cap bytes read), and hands out the header.  A file shorter  *)
(* than the header, or a failed read, is an error that process_chunk_file *)
(* returns and main propagates with `?` (line 125): the remaining files   *)
(* are not processed.                                                     *)
Fill == IF Cap < FileLen THEN Cap ELSE FileLen

ReadHeader ==
  /\ pc = "header"
  /\ \/ /\ FileLen < Header \/ ReadErrors
        /\ pc' = "error"
        /\ UNCHANGED <<rpos, ipos>>
     \/ /\ FileLen >= Header
        /\ ipos' \in IF ShortReads THEN Header .. Fill ELSE {Fill}
        /\ rpos' = Header
        /\ pc' = "loop"
  /\ UNCHANGED <<files, fi, looked>>

(* Fault: the loop reads past the end of the file.                     *)
ReadPastEnd ==
  /\ pc = "loop"
  /\ \/ /\ rpos < ipos
        /\ LET n == IF ipos - rpos < BatchBytes THEN ipos - rpos ELSE BatchBytes IN
             /\ looked' = looked \cup CutSlots(rpos, n)
             /\ rpos' = rpos + n
        /\ UNCHANGED <<files, pc, fi, ipos>>
     \/ /\ rpos = ipos
        /\ ipos < FileLen
        /\ \E n \in ReadCounts(BatchBytes) :
             /\ looked' = looked \cup CutSlots(rpos, n)
             /\ rpos' = rpos + n
             /\ ipos' = ipos + n
        /\ UNCHANGED <<files, pc, fi>>
     \/ /\ rpos = ipos
        /\ ipos = FileLen
        /\ NextFile(fi + 1)
        /\ UNCHANGED <<files, looked>>

(* Fault: a zero-byte read does not break the loop.                      *)
BatchReadNoBreak ==
  /\ pc = "loop"
  /\ \/ /\ rpos < ipos
        /\ LET n == IF ipos - rpos < BatchBytes THEN ipos - rpos ELSE BatchBytes IN
             /\ looked' = looked \cup CutSlots(rpos, n)
             /\ rpos' = rpos + n
        /\ UNCHANGED <<files, pc, fi, ipos>>
     \/ /\ rpos = ipos
        /\ ipos < FileLen
        /\ \E n \in ReadCounts(IF FileLen - ipos < BatchBytes THEN FileLen - ipos ELSE BatchBytes) :
             /\ looked' = looked \cup CutSlots(rpos, n)
             /\ rpos' = rpos + n
             /\ ipos' = ipos + n
        /\ UNCHANGED <<files, pc, fi>>
     \/ /\ rpos = ipos
        /\ ipos = FileLen
        /\ UNCHANGED vars

(* squid.rs:92-110: one iteration of `while let Ok(bytes_read) =          *)
(* reader.read(&mut batch_buffer)`.  With bytes buffered, the BufReader   *)
(* returns them (at most the batch); with its buffer empty, the batch is  *)
(* at least its capacity and it reads the file directly.  Zero bytes end  *)
(* the file.  The bytes read are cut into bytes_read / slot_size slots, *)
(* each looked up (get_from_page); bytes of a trailing partial slot are   *)
(* dropped and the next read starts after them.                           *)
BatchRead ==
  /\ pc = "loop"
  /\ \/ /\ rpos < ipos
        /\ LET n == IF ipos - rpos < BatchBytes THEN ipos - rpos ELSE BatchBytes IN
             /\ looked' = looked \cup CutSlots(rpos, n)
             /\ rpos' = rpos + n
        /\ UNCHANGED <<files, pc, fi, ipos>>
     \/ /\ rpos = ipos
        /\ ipos < FileLen
        /\ \E n \in ReadCounts(IF FileLen - ipos < BatchBytes THEN FileLen - ipos ELSE BatchBytes) :
             /\ looked' = looked \cup CutSlots(rpos, n)
             /\ rpos' = rpos + n
             /\ ipos' = ipos + n
        /\ UNCHANGED <<files, pc, fi>>
     \/ /\ rpos = ipos
        /\ ipos = FileLen
        /\ NextFile(fi + 1)
        /\ UNCHANGED <<files, looked>>

(* squid.rs:92: a read fails; `while let Ok` ends the file silently and   *)
(* process_chunk_file returns Ok.                                         *)
ReadFails ==
  /\ pc = "loop"
  /\ ReadErrors
  /\ NextFile(fi + 1)
  /\ UNCHANGED <<files, looked>>

Next == List \/ ReadHeader \/ BatchRead \/ ReadFails

(* main runs on one thread; the lookups of a batch are joined by rayon    *)
(* before the next read, so the program always takes its next step.  A    *)
(* read error is the environment's choice and is not assumed to happen.   *)
Spec == Init /\ [][Next]_vars /\ WF_vars(List \/ ReadHeader \/ BatchRead)

-----------------------------------------------------------------------------
(* The whole slots of file i: those starting at Header + j * Slot that    *)
(* end within the file.                                                   *)
SlotsOf(i) ==
  {<<i, Header + j * Slot>> : j \in 0 .. (files[i].len - Header) \div Slot - 1}

TypeOK ==
  /\ pc \in {"list", "header", "loop", "done", "error"}
  /\ fi \in 0 .. Len(files) + 1
  /\ pc = "loop" => 0 <= rpos /\ rpos <= ipos /\ ipos <= FileLen

(* Every slot handed to get_from_page is a whole slot of the file, cut    *)
(* at a slot boundary: the reads of the BufReader, the header it hands    *)
(* out of its first fill and the truncating division of line 98 never    *)
(* shift the batch off the slot grid.                                     *)
SlotsAligned ==
  \A s \in looked : s \in SlotsOf(s[1])

(* The slots looked up in each file are the first k slots of its grid,   *)
(* for some k: the batch loop walks the file front to back and never      *)
(* skips a slot, and after an I/O error (which ends the file, line 92)    *)
(* what was looked up is still a prefix.                                  *)
SlotsInOrder ==
  \A i \in DOMAIN files :
    \E k \in 0 .. Cardinality(SlotsOf(i)) :
      {s \in looked : s[1] = i} = {<<i, Header + j * Slot>> : j \in 0 .. k - 1}

(* Every run of squid ends: each read consumes bytes or ends the file, so  *)
(* main eventually returns Ok or an error (squid.rs:92-95, 124-126).      *)
Terminates == <>(pc \in {"done", "error"})

=============================================================================
