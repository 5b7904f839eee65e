----------------------------- MODULE MCResolve -----------------------------
(* Two samples.  Sample 1 has two hit files: s1 has rows in both, s2 in  *)
(* the first only, with the rows of s1 and s2 interleaved so that a read  *)
(* stopping early can keep part of s1's rows.  s3 is listed in the id map *)
(* but has no hits, and s4 has hits but its id map line has three columns *)
(* and is skipped.  The id map of sample 1 also lists s1 twice and has a  *)
(* line whose id does not parse (and whose count is malformed too).       *)
(* Sample 2 lists s1 alone, with rows in both of its hit files; its id    *)
(* map is intact, has a malformed k-mer count, or has an unreadable line. *)
(* Taxonomy: root -> {A -> {A1, A2}, B}.                                  *)
EXTENDS Resolve, TLC

CONSTANTS root, A, B, A1, A2, s1, s2, s3, s4, f11, f12, f21, f22

MCParent == (root :> root) @@ (A :> root) @@ (B :> root)
              @@ (A1 :> A) @@ (A2 :> A)

MCBinFiles == (1 :> <<f11, f12>>) @@ (2 :> <<f21, f22>>)

R(s, t) == [seq |-> s, taxon |-> t]

MCRows ==
  (f11 :> <<R(s1, A1), R(s2, A), R(s1, A2)>>)
  @@ (f12 :> <<R(s4, A1), R(s1, A2)>>)
  @@ (f21 :> <<R(s1, B)>>)
  @@ (f22 :> <<R(s1, B), R(s1, A1)>>)

Line(id, cols, countOk) == [id |-> id, cols |-> cols, countOk |-> countOk]

MCIdFiles ==
  (1 :> {<<Line(s1, 4, TRUE), Line(s2, 4, TRUE), Line(BadId, 4, FALSE),
           Line(s3, 4, TRUE), Line(s4, 3, TRUE), Line(s1, 4, TRUE)>>})
  @@ (2 :> {<<Line(s1, 4, TRUE)>>,
            <<Line(s1, 4, TRUE), Line(s2, 4, FALSE)>>,
            <<Line(s1, 4, TRUE), BadLine>>})
=============================================================================
