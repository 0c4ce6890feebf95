--------------------------- MODULE MCRelationship ---------------------------
(* The instance of Relationship that TLC checks. *)
EXTENDS Relationship, TLC

CONSTANTS root, e1, e2, e3

(* Entities other than the root are interchangeable. *)
EntitySymmetry == Permutations({e1, e2, e3})
=============================================================================
