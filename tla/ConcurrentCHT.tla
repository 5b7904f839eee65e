--------------------------- MODULE ConcurrentCHT ---------------------------
(***************************************************************************)
(* Concurrent insert_or_merge on one shard (spec 4.2 and 5): several      *)
(* threads insert into the same cell array.  Each probes forward from the *)
(* key's home bucket; an empty cell is claimed and a cell holding the key *)
(* is merged, each by one atomic compare-and-set against the value read;  *)
(* "a claim is a single atomic compare-and-set on the cell, retried by    *)
(* advancing the probe on contention".  Probe exhaustion is fatal.        *)
(* The compact_hash module is not under src/; this follows the spec.      *)
(***************************************************************************)
EXTENDS CompactHash

CONSTANTS
  Threads,  \* inserting threads
  Job,      \* Job[th]: the (key, taxon) record thread th inserts
  Home      \* Home[k]: home bucket of key k

ASSUME /\ Job \in [Threads -> [key : Keys, taxon : Taxa]]
       /\ Home \in [Keys -> Cells]

VARIABLES
  cells,  \* the shard's cell array
  tp      \* tp[th]: [st, p (probe cell), n (cells probed), seen (value read)]

vars == <<cells, tp>>

Init ==
  /\ cells = [p \in Cells |-> Empty]
  /\ tp = [th \in Threads |->
             [st |-> "probe", p |-> Home[Job[th].key], n |-> 0, seen |-> Empty]]

Advance(th) ==
  tp' = [tp EXCEPT ![th].st = "probe", ![th].p = NextCell(@), ![th].n = @ + 1]

(* Fault: the probe bound is not checked.                                 *)
ProbeNoBound(th) ==
  LET k == Job[th].key
      t == Job[th].taxon
      c == cells[tp[th].p]
  IN /\ tp[th].st = "probe"
     /\ CASE c = Empty ->
               tp' = [tp EXCEPT ![th].st = "cas", ![th].seen = c]
          [] c.key = k /\ MergeValue(c.value, t) = c.value ->
               tp' = [tp EXCEPT ![th].st = "done"]
          [] c.key = k ->
               tp' = [tp EXCEPT ![th].st = "cas", ![th].seen = c]
          [] OTHER -> Advance(th)
     /\ UNCHANGED cells

(* Fault: the probe gives up one cell early.                              *)
ProbeEarly(th) ==
  LET k == Job[th].key
      t == Job[th].taxon
      c == cells[tp[th].p]
  IN /\ tp[th].st = "probe"
     /\ CASE tp[th].n = ProbeBound - 1 ->
               tp' = [tp EXCEPT ![th].st = "fatal"]
          [] c = Empty ->
               tp' = [tp EXCEPT ![th].st = "cas", ![th].seen = c]
          [] c.key = k /\ MergeValue(c.value, t) = c.value ->
               tp' = [tp EXCEPT ![th].st = "done"]
          [] c.key = k ->
               tp' = [tp EXCEPT ![th].st = "cas", ![th].seen = c]
          [] OTHER -> Advance(th)
     /\ UNCHANGED cells

(* Read the probe cell and decide: claim it, merge into it (a merge that  *)
(* changes nothing writes nothing: re-inserting is idempotent), move on,  *)
(* or give up when the probe bound is exhausted.                          *)
Probe(th) ==
  LET k == Job[th].key
      t == Job[th].taxon
      c == cells[tp[th].p]
  IN /\ tp[th].st = "probe"
     /\ CASE tp[th].n = ProbeBound ->
               tp' = [tp EXCEPT ![th].st = "fatal"]
          [] c = Empty ->
               tp' = [tp EXCEPT ![th].st = "cas", ![th].seen = c]
          [] c.key = k /\ MergeValue(c.value, t) = c.value ->
               tp' = [tp EXCEPT ![th].st = "done"]
          [] c.key = k ->
               tp' = [tp EXCEPT ![th].st = "cas", ![th].seen = c]
          [] OTHER -> Advance(th)
     /\ UNCHANGED cells

(* The value a successful compare-and-set writes.                         *)
NewCell(th) ==
  IF tp[th].seen = Empty
    THEN [key |-> Job[th].key, value |-> Job[th].taxon]
    ELSE [key |-> Job[th].key, value |-> MergeValue(tp[th].seen.value, Job[th].taxon)]

(* Fault: the write does not compare (a plain store).                     *)
CasBlind(th) ==
  /\ tp[th].st = "cas"
  /\ cells' = [cells EXCEPT ![tp[th].p] = NewCell(th)]
  /\ tp' = [tp EXCEPT ![th].st = "done"]

(* Fault: on contention the thread retries the same compare-and-set with  *)
(* the stale value it read, without advancing or re-reading.              *)
CasSpin(th) ==
  /\ tp[th].st = "cas"
  /\ IF cells[tp[th].p] = tp[th].seen
       THEN /\ cells' = [cells EXCEPT ![tp[th].p] = NewCell(th)]
            /\ tp' = [tp EXCEPT ![th].st = "done"]
       ELSE UNCHANGED <<cells, tp>>

(* compare-and-set: succeeds when the cell still holds what was read;     *)
(* on contention the probe advances (spec 4.2).                           *)
Cas(th) ==
  /\ tp[th].st = "cas"
  /\ IF cells[tp[th].p] = tp[th].seen
       THEN /\ cells' = [cells EXCEPT ![tp[th].p] = NewCell(th)]
            /\ tp' = [tp EXCEPT ![th].st = "done"]
       ELSE /\ Advance(th)
            /\ UNCHANGED cells

Next == \E th \in Threads : Probe(th) \/ Cas(th)

Spec == Init /\ [][Next]_vars /\ \A th \in Threads : WF_vars(Probe(th) \/ Cas(th))

-----------------------------------------------------------------------------
TypeOK ==
  /\ cells \in [Cells -> Cell \cup {Empty}]
  /\ \A th \in Threads :
       /\ tp[th].st \in {"probe", "cas", "done", "fatal"}
       /\ tp[th].p \in Cells
       /\ tp[th].n \in 0 .. ProbeBound
       /\ tp[th].seen \in Cell \cup {Empty}

(* No compare-and-set loses a write: every finished insert has left a     *)
(* cell holding its key with an ancestor (or itself) of its taxon, however *)
(* the claims and merges of the threads interleave.                       *)
InsertsStored ==
  \A th \in Threads :
    tp[th].st = "done" =>
      \E p \in Cells :
        /\ cells[p] # Empty
        /\ cells[p].key = Job[th].key
        /\ cells[p].value \in AncestorsOf(Job[th].taxon)

(* Probe exhaustion is reported only for a shard that is really full: a   *)
(* thread gives up only when no cell is empty (ProbeBound = ShardCap).    *)
FatalOnlyWhenFull ==
  (\E th \in Threads : tp[th].st = "fatal") => \A p \in Cells : cells[p] # Empty

(* Every insert ends, by success or by the fatal error.                   *)
InsertsTerminate == <>(\A th \in Threads : tp[th].st \in {"done", "fatal"})

=============================================================================
