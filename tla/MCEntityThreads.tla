--------------------------- MODULE MCEntityThreads ---------------------------
(* The threads of a descriptor, the first of which may be a parent, and one*)
(* state.                                                                  *)
EXTENDS EntityThreads

CONSTANT MCLast

MCNames == 0 .. MCLast
MCParents == {0}
=============================================================================
