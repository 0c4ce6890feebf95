-------------------------------- MODULE Timer --------------------------------
(***************************************************************************)
(* engine::Timer (engine/timer.cpp): a length and three time points that   *)
(* may be absent.  Every function reads the clock once; the clock advances *)
(* between calls.                                                          *)
(***************************************************************************)
EXTENDS Integers

CONSTANTS
  Lengths,  \* the durations callers ask for
  MaxClock, \* bound of the model: the clock stops here
  None      \* an absent time point

ASSUME LengthsAssumption == Lengths \subseteq Nat
ASSUME MaxClockAssumption == MaxClock \in Nat
ASSUME NoneAssumption == None \notin Int

VARIABLES
  clock, length, start_point, pause_point, end_point,
  ran,       \* history: time spent active since the timer last began afresh
  repaused,  \* history: paused with an earlier run behind it, which resume forgets
  resized    \* history: given a new length while active

points == <<start_point, pause_point, end_point>>
runs   == <<ran, repaused, resized>>
timer  == <<clock, length, points, runs>>

-----------------------------------------------------------------------------

Paused  == pause_point # None
Started == start_point # None
Active  == Started /\ ~Paused

Elapsed ==
  IF end_point = None THEN 0
  ELSE IF Paused THEN pause_point - start_point
  ELSE clock - start_point

Remaining ==
  IF end_point = None THEN length
  ELSE IF Paused THEN length - Elapsed
  ELSE end_point - clock

Completed == Started /\ Remaining <= 0

TimerInit ==
  /\ clock = 0
  /\ length \in Lengths \cup {0}
  /\ start_point = None
  /\ pause_point = None
  /\ end_point = None
  /\ ran = 0
  /\ repaused = FALSE
  /\ resized = FALSE

(* The timer begins afresh: nothing of what happened before counts. *)
Forgotten == ran' = 0 /\ repaused' = FALSE /\ resized' = FALSE

ClockTick ==
  /\ clock < MaxClock
  /\ clock' = clock + 1
  /\ ran' = IF Active THEN ran + 1 ELSE ran
  /\ UNCHANGED <<length, points, repaused, resized>>

(* start(true): the clock's time is the start, whatever went before. *)
Begin(duration) ==
  /\ length' = duration
  /\ start_point' = clock
  /\ pause_point' = None
  /\ end_point' = clock + duration
  /\ Forgotten
  /\ UNCHANGED clock

Restart == Begin(length)

(* start(false) when the timer is stopped. *)
StartAfresh == ~Paused /\ ~Started /\ Begin(length)

(* start(length): refused by a timer that was started, paused or not. *)
StartWith(duration) == ~Started /\ Begin(duration)

Pause ==
  /\ ~Paused
  /\ pause_point' = clock
  /\ repaused' = (repaused \/ (Started /\ ran # clock - start_point))
  /\ UNCHANGED <<clock, length, start_point, end_point, ran, resized>>

(* Mutant: the whole length is still to run. *)
ResumeInFull ==
  /\ Paused
  /\ pause_point' = None
  /\ start_point' = clock
  /\ end_point' = clock + length
  /\ UNCHANGED <<clock, length, ran, repaused, resized>>

(* Mutant: the time spent paused counts as run. *)
ResumeOnTheClock ==
  /\ Paused
  /\ end_point' = IF Started THEN start_point + length ELSE clock + length
  /\ pause_point' = None
  /\ start_point' = IF Started THEN start_point ELSE clock
  /\ UNCHANGED <<clock, length, ran, repaused, resized>>

(* resume, called by name or by start(false).  What ran before this pause  *)
(* is taken off the end; the new start forgets it.                         *)
Resume ==
  /\ Paused
  /\ LET previous == IF Started THEN pause_point - start_point ELSE 0
     IN  end_point' = clock + (length - previous)
  /\ pause_point' = None
  /\ start_point' = clock
  /\ UNCHANGED <<clock, length, ran, repaused, resized>>

StopTimer ==
  /\ Started
  /\ start_point' = None
  /\ pause_point' = None
  /\ end_point' = None
  /\ Forgotten
  /\ UNCHANGED <<clock, length>>

Clear ==
  /\ Started
  /\ length' = 0
  /\ start_point' = None
  /\ pause_point' = None
  /\ end_point' = None
  /\ Forgotten
  /\ UNCHANGED clock

(* set_duration.  A paused timer begins afresh, paused.  For an active one *)
(* the call of start(length) is refused, so the end stays where it was.    *)
SetDuration(duration) ==
  /\ length' = duration
  /\ IF Paused
     THEN /\ start_point' = clock
          /\ pause_point' = clock
          /\ end_point' = clock + duration
          /\ Forgotten
     ELSE /\ resized' = (resized \/ Started)
          /\ UNCHANGED <<points, ran, repaused>>
  /\ UNCHANGED clock

TimerNext ==
  \/ ClockTick
  \/ Restart
  \/ StartAfresh
  \/ \E duration \in Lengths : StartWith(duration)
  \/ Pause
  \/ Resume
  \/ StopTimer
  \/ Clear
  \/ \E duration \in Lengths : SetDuration(duration)

TimerSpec == TimerInit /\ [][TimerNext]_timer
-----------------------------------------------------------------------------
PastPoint == (0 .. clock) \cup {None}

(* A start or a pause lies in the past of the clock that gave it. *)
TimerTypeOK ==
  /\ clock \in Nat
  /\ length \in Nat
  /\ start_point \in PastPoint
  /\ pause_point \in PastPoint
  /\ end_point \in Int \cup {None}
  /\ ran \in Nat
  /\ repaused \in BOOLEAN
  /\ resized \in BOOLEAN

(* elapsed and remaining look at end_point, then read start_point without  *)
(* a test: the two are present together, or elapsed reads an empty         *)
(* optional.                                                               *)
EndIffStarted == Started <=> end_point # None

(* However often the timer is paused, resumed and restarted, it is never   *)
(* complete before it ran for its whole length.                            *)
NeverCompletesEarly == Completed /\ ~resized => ran >= length

(* A timer that forgot no run and kept its length knows exactly what is    *)
(* left of it, running or paused.                                          *)
RemainingIsExact ==
  Started /\ ~repaused /\ ~resized => Remaining = length - ran
=============================================================================
