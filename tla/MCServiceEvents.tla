--------------------------- MODULE MCServiceEvents ---------------------------
(* Two event types and two timers: one that is due at once, one that waits.*)
EXTENDS ServiceEvents

MCTypeOrder == <<"state_change", "thread_pause">>
MCDelays == {0, 1}
=============================================================================
