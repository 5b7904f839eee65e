-------------------------- MODULE MCConcurrentCHT --------------------------
(* Four threads on a shard of three cells.  th1 and th2 insert the same  *)
(* key k1 with sibling taxa, so they race for the same empty cell and    *)
(* then merge; k2 shares k1's home bucket and k3's home is the last cell,*)
(* so probes wrap.  Three keys fill the shard exactly.                   *)
EXTENDS ConcurrentCHT, TLC

CONSTANTS root, A, B, A1, A2, k1, k2, k3, th1, th2, th3, th4

MCParent == (root :> root) @@ (A :> root) @@ (B :> root)
              @@ (A1 :> A) @@ (A2 :> A)

MCHome == (k1 :> 0) @@ (k2 :> 0) @@ (k3 :> 2)

MCJob == (th1 :> [key |-> k1, taxon |-> A1]) @@ (th2 :> [key |-> k1, taxon |-> A2])
           @@ (th3 :> [key |-> k2, taxon |-> B]) @@ (th4 :> [key |-> k3, taxon |-> A1])
=============================================================================
