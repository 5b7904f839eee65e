------------------------------ MODULE Taxonomy ------------------------------
(***************************************************************************)
(* The taxonomy collaborator of spec section 6: a rooted tree given by a  *)
(* parent function, with ancestors_of and lca.  The Rust Taxonomy type is  *)
(* not under src/; these operators follow the interface the spec states.   *)
(***************************************************************************)
EXTENDS Naturals, FiniteSets

CONSTANTS
  Taxa,     \* taxon ids (model values)
  Root,     \* the root taxon
  Parent    \* Parent[t] for t # Root; Parent[Root] = Root

ASSUME Root \in Taxa /\ Parent \in [Taxa -> Taxa] /\ Parent[Root] = Root

(* ancestors_of(t): t and every taxon on its path to the root.            *)
RECURSIVE AncestorsOf(_)
AncestorsOf(t) == IF t = Root THEN {Root} ELSE {t} \cup AncestorsOf(Parent[t])

Depth(t) == Cardinality(AncestorsOf(t))

(* lca(a, b): the deepest common ancestor.                                *)
Lca(a, b) ==
  CHOOSE c \in AncestorsOf(a) \cap AncestorsOf(b) :
    \A d \in AncestorsOf(a) \cap AncestorsOf(b) : Depth(d) <= Depth(c)

(* Reference: the LCA of a nonempty set of taxa.                          *)
LcaSet(S) ==
  CHOOSE c \in Taxa :
    /\ \A s \in S : c \in AncestorsOf(s)
    /\ \A d \in Taxa : (\A s \in S : d \in AncestorsOf(s)) => Depth(d) <= Depth(c)

=============================================================================
