---------------------------- MODULE MCResolveRun ----------------------------
(* Three samples: sample 1 has two hit files, samples 2 and 3 one each.  *)
(* Either every id map is present or sample 2's is missing (the panic    *)
(* path).                                                                  *)
EXTENDS ResolveRun, TLC

MCHits == (1 :> {1, 2}) @@ (2 :> {1}) @@ (3 :> {2})
=============================================================================
