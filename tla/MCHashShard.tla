---------------------------- MODULE MCHashShard ----------------------------
(* Model of the splitter over a legacy index of 5 cells.  Hash capacities *)
(* 2 and 3 give a short last shard (2+2+1, 3+2) and 7 exceeds the         *)
(* capacity (one clipped shard).  The legacy file is either intact or one *)
(* cell short of what its header claims.                                  *)
EXTENDS HashShard

MCLegacyLens == {Capacity * CellBytes + Header,
                 Capacity * CellBytes + Header - CellBytes}
=============================================================================
