------------------------------- MODULE MCTimer -------------------------------
(* Two lengths and a clock long enough for three runs of the shorter one.  *)
EXTENDS Timer

MCLengths == {2, 3}
=============================================================================
