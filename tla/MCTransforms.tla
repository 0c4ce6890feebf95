---------------------------- MODULE MCTransforms ----------------------------
(* Three entities and a ring of three places. *)
EXTENDS TransformCache, TLC

MCSymmetry == Permutations(Entities \ {Root})

MCGiven == {[turned |-> TRUE, at |-> 0], [turned |-> FALSE, at |-> 1]}
=============================================================================
