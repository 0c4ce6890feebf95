---------------------------- MODULE MCHistoryLog ----------------------------
(* The instance of HistoryLog that TLC checks. *)
EXTENDS HistoryLog, TLC

CONSTANTS a, b

(* Component values are interchangeable: the log only copies them. *)
ValueSymmetry == Permutations({a, b})
=============================================================================
