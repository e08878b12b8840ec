----------------------------- MODULE MCHistory -----------------------------
(* Module History on a small instance.  Sessions are alike. *)
EXTENDS History

MCShapes == { <<"plain">>, <<"plain", "plain">>, <<"comment">> }
SessionSymmetry == Permutations(Sessions)
=============================================================================
