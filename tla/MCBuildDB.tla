----------------------------- MODULE MCBuildDB -----------------------------
(* Two chunks / shards of three cells.  In shard 1, k1 and k2 share home  *)
(* bucket 2, so k2 wraps to cell 0 and k3 (home 0) is pushed to cell 1;   *)
(* k1 and k4 receive two taxa each, so their cells are merged to the LCA. *)
(* Taxonomy: root -> {A -> {A1, A2}, B}.                                  *)
EXTENDS BuildDB, TLC

CONSTANTS root, A, B, A1, A2, k1, k2, k3, k4

MCParent == (root :> root) @@ (A :> root) @@ (B :> root)
              @@ (A1 :> A) @@ (A2 :> A)

MCHome == (k1 :> 2) @@ (k2 :> 2) @@ (k3 :> 0) @@ (k4 :> 1)

R(k, t) == [key |-> k, taxon |-> t]

MCChunkRecs ==
  (1 :> << R(k1, A1), R(k2, B), R(k1, A2), R(k3, A1) >>)
  @@ (2 :> << R(k4, A2), R(k4, A1) >>)
=============================================================================
