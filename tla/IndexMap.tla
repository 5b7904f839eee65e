------------------------------ MODULE IndexMap ------------------------------
(***************************************************************************)
(* What the compact hash index promises (spec 4.2, 4.3): a map from keys  *)
(* to taxa in which inserting (k, t) stores t for an absent key and the   *)
(* LCA of the stored taxon and t otherwise.  Only the (key, taxon)        *)
(* records Recs fed to the build are inserted; nothing is ever removed.   *)
(***************************************************************************)
EXTENDS Taxonomy

CONSTANTS Keys, Empty, Recs  \* Recs: the records the build is fed

VARIABLE map

Init == map = [k \in Keys |-> Empty]

Insert(k, t) ==
  map' = [map EXCEPT ![k] = IF @ = Empty THEN t ELSE Lca(@, t)]

Next == \E r \in Recs : Insert(r.key, r.taxon)

Spec == Init /\ [][Next]_map

=============================================================================
