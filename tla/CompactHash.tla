---------------------------- MODULE CompactHash ----------------------------
(***************************************************************************)
(* One shard of the compact hash table (spec section 4.2), as operators  *)
(* over the shard's cell array.  A cell is Empty or holds a partial key   *)
(* and a taxon.  The compact_hash module of kraken2_rs is not under src/; *)
(* these operators follow the spec: probe forward from the home bucket,  *)
(* wrapping at the shard capacity, for at most ProbeBound cells.         *)
(***************************************************************************)
EXTENDS Taxonomy

CONSTANTS
  Keys,        \* partial keys (model values)
  Empty,       \* the empty cell
  ShardCap,    \* cells per shard
  ProbeBound   \* cells examined before a probe gives up

ASSUME ProbeBound \in 1 .. ShardCap

Cells == 0 .. ShardCap - 1

Cell == [key : Keys, value : Taxa]

NextCell(p) == (p + 1) % ShardCap

(* Fault: a colliding insert overwrites the stored taxon.                *)
MergeOverwrite(old, t) == t

(* Spec 4.2: merging a candidate taxon into a stored one keeps their LCA. *)
MergeValue(old, t) == Lca(old, t)

(* insert_or_merge(partial_key, home_bucket, candidate): claims the first *)
(* empty cell, or merges into the cell already holding the key; fails    *)
(* (ok = FALSE) when the probe bound is exhausted.                        *)
RECURSIVE InsertAt(_, _, _, _, _)
InsertAt(cells, k, t, p, n) ==
  CASE n = 0 ->
         [ok |-> FALSE, cells |-> cells, new |-> FALSE]
    [] cells[p] = Empty ->
         [ok |-> TRUE, new |-> TRUE,
          cells |-> [cells EXCEPT ![p] = [key |-> k, value |-> t]]]
    [] cells[p].key = k ->
         [ok |-> TRUE, new |-> FALSE,
          cells |-> [cells EXCEPT ![p].value = MergeValue(@, t)]]
    [] OTHER ->
         InsertAt(cells, k, t, NextCell(p), n - 1)

InsertOrMerge(cells, k, home, t) == InsertAt(cells, k, t, home, ProbeBound)

(* lookup(partial_key, home_bucket): the stored taxon, or Empty on a miss *)
(* (an empty cell or an exhausted probe).                                 *)
RECURSIVE LookupAt(_, _, _, _)
LookupAt(cells, k, p, n) ==
  CASE n = 0 -> Empty
    [] cells[p] = Empty -> Empty
    [] cells[p].key = k -> cells[p].value
    [] OTHER -> LookupAt(cells, k, NextCell(p), n - 1)

Lookup(cells, k, home) == LookupAt(cells, k, home, ProbeBound)

Occupied(cells) == Cardinality({p \in Cells : cells[p] # Empty})

=============================================================================
