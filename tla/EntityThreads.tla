---------------------------- MODULE EntityThreads ----------------------------
(***************************************************************************)
(* The threads of one entity: EntityThreadComponent, the commands that     *)
(* reach it through EntitySystem, and what the instructions of a thread do *)
(* to the threads of its entity (entity_system.cpp).                       *)
(*                                                                         *)
(* The vector of threads is a set: `seat` grows with every thread that is  *)
(* added, erasing keeps the order, so the order of the seats is the order  *)
(* of the vector.  What the instructions compute is left out.              *)
(* Timers and queued stops are sets: a second equal one would do what the  *)
(* commands Resume and Stop do, which may come at any time.                *)
(***************************************************************************)
EXTENDS Integers, FiniteSets

CONSTANTS
  Names,      \* the threads of the descriptor; a thread index is a number
  States,     \* the states of the descriptor
  Parents,    \* the names that spawn commands give as a parent
  Checks,     \* the values of check_linked that commands give
  None,       \* no name, no state, no parent
  MaxThreads, \* bound of the model: threads ever added
  MaxTimers   \* bound of the model: timed resumes that wait

ASSUME NamesAssumption == Names \subseteq Nat /\ IsFiniteSet(Names) /\ Parents \subseteq Names
ASSUME ChecksAssumption == Checks \subseteq BOOLEAN
ASSUME NoneAssumption == None \notin States \cup Nat
ASSUME BoundsAssumption == MaxThreads \in Nat /\ MaxTimers \in Nat

VARIABLES
  threads,    \* EntityThreadComponent::threads
  nextSeat,   \* the seat of the next thread
  turn,       \* the seat progress_threads is at, or None outside of it
  timers,     \* the timed EntityThreadResumeCommands of sleeping threads
  stops,      \* the queued EntityThreadStopCommands of stopping threads
  updated     \* an OnEntityThreadsUpdated event is queued

vars == <<threads, nextSeat, turn, timers, stops, updated>>

Seats == 1 .. MaxThreads

(* A fiber has no thread index; here it has no name either.  `paused` also *)
(* remembers what paused the thread last.                                  *)
Thread == [seat : Seats, name : Names \cup {None}, parent : Parents \cup {None},
           state : States \cup {None}, linked : BOOLEAN, detached : BOOLEAN,
           paused : {"no", "pause", "sleep", "stop"}, complete : BOOLEAN]

(* A command reaches a thread by its name or several by a range of indices.*)
Targets == {{n} : n \in Names} \cup {Names}

Suspended(t) == t.paused # "no" \/ t.complete

(* get_thread: the first that matches.  No command reaches a fiber.        *)
Matching(n, check_linked) == {t \in threads : t.name = n /\ n # None /\ (check_linked => t.linked)}
Found(n, check_linked) ==
  {t \in Matching(n, check_linked) : \A u \in Matching(n, check_linked) : t.seat <= u.seat}
FoundIn(names, check_linked) == UNION {Found(n, check_linked) : n \in names}

Change(set, F(_)) == (threads \ set) \cup {F(t) : t \in set}

Init ==
  /\ threads = {}
  /\ nextSeat = 1
  /\ turn = None
  /\ timers = {}
  /\ stops = {}
  /\ updated = FALSE
-----------------------------------------------------------------------------
(* Commands.  They are handled one after the other, and never while the    *)
(* threads make progress.                                                  *)

Handling == turn = None

Fresh(seat, name, parent, state) ==
  [seat |-> seat, name |-> name, parent |-> parent, state |-> state, linked |-> TRUE,
   detached |-> FALSE, paused |-> "no", complete |-> FALSE]

(* start_threads, start_thread: a linked thread of the name is restarted in*)
(* its place, or refuses the new one.                                      *)
Spawn(names, parent, state, restart) ==
  LET new == {n \in names : Found(n, TRUE) = {}}
      again == IF restart THEN FoundIn(names, TRUE) ELSE {}
  IN  /\ Handling
      /\ new # {} => nextSeat + Cardinality(new) - 1 \in Seats
      /\ threads' = Change(again, LAMBDA t : Fresh(t.seat, t.name, parent, state)) \cup
           {Fresh(nextSeat + Cardinality({m \in new : m < n}), n, parent, state) : n \in new}
      /\ nextSeat' = nextSeat + Cardinality(new)
      /\ UNCHANGED <<turn, timers, stops, updated>>

(* on_fiber_thread_spawn_command: no thread is looked for. *)
SpawnFiber(parent, state, detached) ==
  /\ Handling
  /\ nextSeat \in Seats
  /\ threads' = threads \cup {[Fresh(nextSeat, None, parent, state) EXCEPT !.detached = detached]}
  /\ nextSeat' = nextSeat + 1
  /\ updated' = TRUE
  /\ UNCHANGED <<turn, timers, stops>>

(* Mutant: detached threads are erased as well. *)
StoppedAll(set) == threads \ set

(* stop_thread_impl: a detached thread stays, unlinked. *)
Stopped(set) ==
  (threads \ set) \cup {[t EXCEPT !.linked = FALSE] : t \in {u \in set : u.detached}}

Stop(names, check_linked) ==
  /\ Handling
  /\ threads' = Stopped(FoundIn(names, check_linked))
  /\ UNCHANGED <<nextSeat, turn, timers, stops, updated>>

(* stop_threads(state_index), as the decay of a state calls it: a thread   *)
(* without a state is a thread of every state.                             *)
StopState(s) ==
  /\ Handling
  /\ threads' = Stopped({t \in threads : t.state \in {s, None}})
  /\ UNCHANGED <<nextSeat, turn, timers, stops, updated>>

StopAll ==
  /\ Handling
  /\ threads' = Stopped(threads)
  /\ UNCHANGED <<nextSeat, turn, timers, stops, updated>>

Pausing(set, cause) == Change(set, LAMBDA t : [t EXCEPT !.paused = cause])
Resuming(set) == Change(set, LAMBDA t : [t EXCEPT !.paused = "no"])

Pause(names, check_linked) ==
  /\ Handling
  /\ threads' = Pausing(FoundIn(names, check_linked), "pause")
  /\ UNCHANGED <<nextSeat, turn, timers, stops, updated>>

Resume(names, check_linked) ==
  /\ Handling
  /\ threads' = Resuming(FoundIn(names, check_linked))
  /\ UNCHANGED <<nextSeat, turn, timers, stops, updated>>

(* attach: a state that is given replaces the one the thread had. *)
Attach(names, state, check_linked) ==
  /\ Handling
  /\ threads' = Change(FoundIn(names, check_linked), LAMBDA t :
       [t EXCEPT !.detached = FALSE, !.state = IF state = None THEN @ ELSE state])
  /\ UNCHANGED <<nextSeat, turn, timers, stops, updated>>

Detach(names, check_linked) ==
  /\ Handling
  /\ threads' = Change(FoundIn(names, check_linked), LAMBDA t : [t EXCEPT !.detached = TRUE])
  /\ UNCHANGED <<nextSeat, turn, timers, stops, updated>>

Unlink(names) ==
  /\ Handling
  /\ threads' = Change(FoundIn(names, TRUE), LAMBDA t : [t EXCEPT !.linked = FALSE])
  /\ UNCHANGED <<nextSeat, turn, timers, stops, updated>>

(* Mutant: the resume forgets check_linked. *)
TimerFiresByName(timer) ==
  /\ Handling
  /\ timers' = timers \ {timer}
  /\ threads' = Resuming(Found(timer.name, FALSE))
  /\ UNCHANGED <<nextSeat, turn, stops, updated>>

(* The resume that Sleep timed reaches whatever thread has the name now. *)
TimerFires(timer) ==
  /\ Handling
  /\ timers' = timers \ {timer}
  /\ threads' = Resuming(Found(timer.name, timer.check_linked))
  /\ UNCHANGED <<nextSeat, turn, stops, updated>>

QueuedStop(stop) ==
  /\ Handling
  /\ stops' = stops \ {stop}
  /\ threads' = Stopped(Found(stop.name, stop.check_linked))
  /\ UNCHANGED <<nextSeat, turn, timers, updated>>

(* erase_completed_threads.  std::remove_if moves the threads it keeps to  *)
(* the front while its predicate looks for children in the whole vector: a *)
(* child that goes is seen until its place is taken.                       *)
Before(set, t) == {u \in set : u.seat < t.seat}
StillSeen(u, t, kept) ==
  u \in kept \/ u.seat >= t.seat \/ Cardinality(Before(threads, u)) >= Cardinality(Before(kept, t))
Claimed(t, kept) == \E u \in threads : u.parent = t.name /\ StillSeen(u, t, kept)

(* Mutant: a completed thread does not wait for its children. *)
KeepsNoParent(t, kept) == ~t.complete

(* Mutant: a completed thread has to be linked to be erased. *)
KeepsUnlinked(t, kept) == t.complete => ~t.linked \/ Claimed(t, kept)

Keeps(t, kept) == t.complete => t.linked /\ Claimed(t, kept)

EraseCompleted ==
  /\ Handling
  /\ updated
  /\ updated' = FALSE
  /\ \E kept \in SUBSET threads :
       /\ kept = {t \in threads : Keeps(t, kept)}
       /\ threads' = kept
  /\ UNCHANGED <<nextSeat, turn, timers, stops>>
-----------------------------------------------------------------------------
(* progress_threads: the threads that are not suspended make a step, in the*)
(* order of the vector.  A thread of another cadence is passed over, and   *)
(* one of the cadence Multi goes on.  Instructions that are not here queue *)
(* a command, above.                                                       *)

BeginProgress ==
  /\ Handling
  /\ turn' = 0
  /\ UNCHANGED <<threads, nextSeat, timers, stops, updated>>

(* step_thread by t, with `set` the threads its instruction leaves: unless *)
(* it suspended itself, the instruction may have been its last one.        *)
Step(t, set) ==
  /\ turn # None
  /\ t.seat >= turn
  /\ ~Suspended(t)
  /\ turn' = t.seat
  /\ updated' = TRUE
  /\ \/ threads' = set
     \/ \E u \in set : /\ u.seat = t.seat /\ ~Suspended(u)
                      /\ threads' = (set \ {u}) \cup {[u EXCEPT !.complete = TRUE]}
  /\ UNCHANGED nextSeat

StepPlain(t) == Step(t, threads) /\ UNCHANGED <<timers, stops>>

(* Pause and Resume act at once, on the thread they name. *)
StepPause(t, name, check_linked) ==
  Step(t, Pausing(Found(name, check_linked), "pause")) /\ UNCHANGED <<timers, stops>>

StepResume(t, name, check_linked) ==
  Step(t, Resuming(Found(name, check_linked))) /\ UNCHANGED <<timers, stops>>

(* Sleep: the pause is triggered at once, the resume is timed.  Nothing    *)
(* happens to an unnamed fiber.                                            *)
StepSleep(t, name, check_linked) ==
  /\ Step(t, Pausing(Found(name, check_linked), "sleep"))
  /\ IF name = None
     THEN UNCHANGED timers
     ELSE /\ Cardinality(timers) < MaxTimers
          /\ timers' = timers \cup {[name |-> name, check_linked |-> check_linked, by |-> t.seat]}
  /\ UNCHANGED stops

(* Mutant: the thread leaves the vector at once. *)
StepStopAtOnce(t, check_linked) ==
  t.name # None /\ Step(t, Stopped(Found(t.name, check_linked))) /\ UNCHANGED <<timers, stops>>

(* Stop, without another thread to name: the thread is paused until the    *)
(* command that is queued stops it.                                        *)
StepStop(t, check_linked) ==
  /\ t.name # None
  /\ Step(t, Pausing({t}, "stop"))
  /\ stops' = stops \cup {[name |-> t.name, check_linked |-> check_linked]}
  /\ UNCHANGED timers

Linking(t) == Change({t}, LAMBDA u : [u EXCEPT !.linked = TRUE])

(* Mutant: the other linked thread of the name is not looked for. *)
StepLinkUnchecked(t) == Step(t, Linking(t)) /\ UNCHANGED <<timers, stops>>

(* link_local_thread, by the index of the thread, which a fiber has not. *)
StepLink(t) ==
  /\ t.name \in Names => Found(t.name, TRUE) \subseteq {t}
  /\ Step(t, Linking(t))
  /\ UNCHANGED <<timers, stops>>

EndProgress ==
  /\ turn # None
  /\ turn' = None
  /\ UNCHANGED <<threads, nextSeat, timers, stops, updated>>

Command ==
  \/ \E parent \in Parents \cup {None}, state \in States \cup {None} :
       \/ \E names \in Targets, restart \in BOOLEAN : Spawn(names, parent, state, restart)
       \/ \E detached \in BOOLEAN : SpawnFiber(parent, state, detached)
  \/ \E names \in Targets, check_linked \in Checks :
       \/ Stop(names, check_linked)
       \/ Pause(names, check_linked)
       \/ Resume(names, check_linked)
       \/ Detach(names, check_linked)
       \/ \E state \in States \cup {None} : Attach(names, state, check_linked)
  \/ \E names \in Targets : Unlink(names)
  \/ \E s \in States : StopState(s)
  \/ StopAll

Queued ==
  \/ \E timer \in timers : TimerFires(timer)
  \/ \E stop \in stops : QueuedStop(stop)
  \/ EraseCompleted

Instruction ==
  \E t \in threads :
    \/ StepPlain(t)
    \/ StepLink(t)
    \/ \E check_linked \in Checks :
         \/ StepStop(t, check_linked)
         \/ \E name \in Names \cup {t.name} :
              \/ StepSleep(t, name, check_linked)
              \/ StepPause(t, name, check_linked)
              \/ StepResume(t, name, check_linked)

Progress == BeginProgress \/ Instruction \/ EndProgress

Next == Command \/ Queued \/ Progress

Spec == Init /\ [][Next]_vars
-----------------------------------------------------------------------------
TypeOK ==
  /\ threads \subseteq Thread
  /\ nextSeat \in 1 .. MaxThreads + 1
  /\ turn \in 0 .. MaxThreads \/ turn = None
  /\ timers \subseteq [name : Names, check_linked : Checks, by : Seats]
  /\ stops \subseteq [name : Names, check_linked : Checks]
  /\ updated \in BOOLEAN
  /\ \A t, u \in threads : t.seat = u.seat => t = u
  /\ \A t \in threads : t.seat < nextSeat

(* entity_thread_flags.hpp:24: the linked state "ensures that only one     *)
(* instance of a given thread is executing per-entity".                    *)
LinkedOnce ==
  \A t, u \in threads : t.linked /\ u.linked /\ t.name = u.name /\ t.name \in Names => t = u

(* entity_thread_flags.hpp:9: whatever is stopped, decayed or erased, a    *)
(* detached thread leaves only once it is complete.                        *)
DetachedOutlive ==
  [][\A t \in threads : t.detached /\ ~t.complete => \E u \in threads' : u.seat = t.seat]_vars

(* The threads are not added or erased while progress_threads iterates the *)
(* vector: every event that would do it waits for a later update.          *)
SteadyInProgress ==
  [][turn # None => {t.seat : t \in threads'} = {t.seat : t \in threads}]_vars

(* entity_thread_component.cpp:556: "only erase this thread if there are no*)
(* sub-threads claiming us as their parent".                               *)
ParentsOutlive ==
  [][updated /\ ~updated' =>
       \A t \in threads : t.linked /\ t \notin threads' => \A u \in threads' : u.parent # t.name]_vars

(* A completed thread that no link keeps is gone when the update event is  *)
(* handled, and one that is not complete stays.                            *)
CompletedGo ==
  [][updated /\ ~updated' =>
       /\ \A t \in threads' : t.complete => t.linked
       /\ \A t \in threads : ~t.complete => t \in threads']_vars

(* No linked thread of the descriptor sleeps for ever: a resume is timed   *)
(* that will find it, whatever was started, stopped, unlinked or resumed   *)
(* since it fell asleep.                                                   *)
SleepersWake ==
  \A t \in threads :
    t.name \in Names /\ t.linked /\ t.paused = "sleep" =>
      \E timer \in timers : Found(timer.name, timer.check_linked) = {t}

(* entity_thread_component.cpp:556: a completed thread stays only for the  *)
(* sake of a sub-thread.                                                   *)
OnlyParentsStay ==
  [][updated /\ ~updated' =>
       \A t \in threads' : t.complete => \E u \in threads : u # t /\ u.parent = t.name]_vars
=============================================================================
