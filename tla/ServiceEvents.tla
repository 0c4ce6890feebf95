---------------------------- MODULE ServiceEvents ----------------------------
(***************************************************************************)
(* The event pump of engine::Service (engine/service.cpp, update): two     *)
(* dispatchers with one queue per event type, the events on a timer, the   *)
(* deferred actions and the deferred operations.  An event is a number;    *)
(* numbers are given in the order of the calls.                            *)
(*                                                                         *)
(* An update is a sequence of steps.  While `running` holds, a handler (or *)
(* the code between two updates) runs and may queue more.                  *)
(***************************************************************************)
EXTENDS Integers, Sequences, FiniteSets

CONSTANTS
  TypeOrder,  \* the event types, in the order their queues were created
  Delays,     \* the lengths of the timers
  MaxEvents,  \* bound of the model: events in a behavior
  MaxTime     \* bound of the model: the clock stops here

ASSUME TypeOrderAssumption ==
  /\ TypeOrder \in Seq(STRING) /\ TypeOrder # <<>>
  /\ \A i, j \in DOMAIN TypeOrder : TypeOrder[i] = TypeOrder[j] => i = j
ASSUME DelaysAssumption == Delays \subseteq Nat
ASSUME BoundsAssumption == MaxEvents \in Nat /\ MaxTime \in Nat

VARIABLES
  phase,       \* what update is doing; "outside" between two updates
  running,     \* a handler, or code outside of update, may make calls
  active,      \* the dispatcher that queue_event uses
  queued,      \* the queue of each type in each dispatcher
  pool, left,  \* the queue being published, and how much of it
  timed,       \* the pending timed events
  scan, kept,  \* remove_if: where it is, and what it has kept
  grown,       \* an event joined `timed` while remove_if was on it
  actions,     \* service_event_handler: what defer queued
  operations,  \* what later queued
  now, nextId, \* the clock, and the number of the next event
  handled,     \* history: the events handled
  owed,        \* history: the events this update has to handle
  risked       \* history: the timed events that were in a grown `timed`

published == <<queued, pool, left>>
timing    == <<timed, scan, kept, grown>>
deferral  == <<actions, operations>>
history   == <<handled, owed, risked>>
vars == <<phase, running, active, published, timing, deferral, now, nextId, history>>

Types == {TypeOrder[i] : i \in DOMAIN TypeOrder}
Dispatchers == {"standard", "forwarding"}
Phases == Dispatchers \cup {"outside", "timed", "systems", "service", "deferred"}

Members(s) == {s[i] : i \in DOMAIN s}
Pending(d) == UNION {Members(queued[d][t]) : t \in Types}
TimedIds(s) == {s[i].id : i \in DOMAIN s}
Due(e) == e.due <= now

Init ==
  /\ phase = "outside" /\ running = TRUE /\ active = "standard"
  /\ queued = [d \in Dispatchers |-> [t \in Types |-> <<>>]]
  /\ pool = 1 /\ left = 0
  /\ timed = <<>> /\ scan = 1 /\ kept = <<>> /\ grown = FALSE
  /\ actions = <<>> /\ operations = <<>>
  /\ now = 0 /\ nextId = 1
  /\ handled = {} /\ owed = {} /\ risked = {}
-----------------------------------------------------------------------------
(* What running code may do. *)

NewEvent == running /\ nextId <= MaxEvents /\ nextId' = nextId + 1

(* While update works on the standard events and the timers, queue_event   *)
(* owes the new event to this very update.                                 *)
QueueEvent(t) ==
  /\ NewEvent
  /\ queued' = [queued EXCEPT ![active][t] = Append(@, nextId)]
  /\ owed' = IF phase \in {"standard", "timed"} THEN owed \cup {nextId} ELSE owed
  /\ UNCHANGED <<phase, running, active, pool, left, timing, deferral, now, handled, risked>>

(* enqueue_timed_event.  remove_if does not expect its vector to grow.     *)
QueueTimedEvent(delay) ==
  /\ NewEvent
  /\ now + delay <= MaxTime
  /\ timed' = Append(timed, [id |-> nextId, due |-> now + delay])
  /\ grown' = (grown \/ phase = "timed")
  /\ risked' = IF phase = "timed" THEN risked \cup TimedIds(timed') ELSE risked
  /\ UNCHANGED <<phase, running, active, published, scan, kept, deferral, now, handled, owed>>

Defer ==
  /\ NewEvent
  /\ actions' = Append(actions, nextId)
  /\ UNCHANGED <<phase, running, active, published, timing, operations, now, history>>

(* No operation calls later: the loop over the operations could not take it*)
Later ==
  /\ NewEvent
  /\ phase # "deferred"
  /\ operations' = Append(operations, nextId)
  /\ UNCHANGED <<phase, running, active, published, timing, actions, now, history>>

Tick ==
  /\ phase \in {"outside", "timed"}
  /\ now < MaxTime
  /\ now' = now + 1
  /\ UNCHANGED <<phase, running, active, published, timing, deferral, nextId, history>>
-----------------------------------------------------------------------------
(* dispatcher::update, queue by queue.  A queue is published up to the     *)
(* length it had when its turn came.                                       *)

OpenPool(d, i) == pool' = i /\ left' = Len(queued[d][TypeOrder[i]])
Published == left = 0 /\ pool = Len(TypeOrder)

(* Mutant: the newest event first. *)
DispatchNewest ==
  /\ phase \in Dispatchers /\ left > 0
  /\ LET t == TypeOrder[pool]  q == queued[phase][t]
     IN  /\ handled' = handled \cup {q[left]}
         /\ queued' = [queued EXCEPT ![phase][t] = SubSeq(q, 1, left - 1) \o SubSeq(q, left + 1, Len(q))]
  /\ left' = left - 1
  /\ running' = TRUE
  /\ UNCHANGED <<phase, active, pool, timing, deferral, now, nextId, owed, risked>>

Dispatch ==
  /\ phase \in Dispatchers /\ left > 0
  /\ LET t == TypeOrder[pool]
     IN  /\ handled' = handled \cup {Head(queued[phase][t])}
         /\ queued' = [queued EXCEPT ![phase][t] = Tail(@)]
  /\ left' = left - 1
  /\ running' = TRUE
  /\ UNCHANGED <<phase, active, pool, timing, deferral, now, nextId, owed, risked>>

NextPool ==
  /\ phase \in Dispatchers /\ left = 0 /\ pool < Len(TypeOrder)
  /\ OpenPool(phase, pool + 1)
  /\ running' = FALSE
  /\ UNCHANGED <<phase, active, queued, timing, deferral, now, nextId, history>>
-----------------------------------------------------------------------------
(* The steps of update, in their order. *)

OwedNow ==
  Pending("standard") \cup Members(actions) \cup Members(operations)
    \cup {timed[i].id : i \in {j \in DOMAIN timed : Due(timed[j])}}

(* Mutant: update does not call use_forwarding_events. *)
BeginUpdateKeepsActive ==
  /\ phase = "outside"
  /\ phase' = "standard"
  /\ OpenPool("standard", 1)
  /\ running' = FALSE
  /\ owed' = OwedNow
  /\ UNCHANGED <<active, queued, timing, deferral, now, nextId, handled, risked>>

BeginUpdate ==
  /\ phase = "outside"
  /\ phase' = "standard" /\ active' = "forwarding"
  /\ OpenPool("standard", 1)
  /\ running' = FALSE
  /\ owed' = OwedNow
  /\ UNCHANGED <<queued, timing, deferral, now, nextId, handled, risked>>

(* Mutant: update does not call update_timed_events. *)
EndStandardSkipsTimed ==
  /\ phase = "standard" /\ Published
  /\ phase' = "forwarding" /\ active' = "standard"
  /\ OpenPool("forwarding", 1)
  /\ running' = FALSE
  /\ UNCHANGED <<queued, timing, deferral, now, nextId, history>>

(* `left` counts what remove_if has yet to look at. *)
EndStandard ==
  /\ phase = "standard" /\ Published
  /\ phase' = "timed"
  /\ scan' = 1 /\ kept' = <<>> /\ grown' = FALSE
  /\ left' = Len(timed)
  /\ running' = FALSE
  /\ UNCHANGED <<active, queued, pool, timed, deferral, now, nextId, history>>

(* One element of remove_if, up to the end the vector had.  What a due     *)
(* event does happens here, not in a queue.  Once the vector has grown,    *)
(* remove_if may be looking at memory the vector has left.                 *)
TimedStep ==
  /\ phase = "timed" /\ left > 0
  /\ IF Due(timed[scan])
     THEN /\ \/ handled' = handled \cup {timed[scan].id} /\ running' = TRUE
             \/ grown /\ handled' = handled /\ running' = FALSE
          /\ kept' = kept
     ELSE /\ kept' = Append(kept, timed[scan])
          /\ handled' = handled /\ running' = FALSE
  /\ scan' = scan + 1 /\ left' = left - 1
  /\ UNCHANGED <<phase, active, queued, pool, timed, grown, deferral, now, nextId, owed, risked>>

(* Mutant: update does not call use_standard_events. *)
EndTimedStaysForwarding ==
  /\ phase = "timed" /\ left = 0
  /\ timed' = kept \o SubSeq(timed, scan, Len(timed))
  /\ scan' = 1 /\ kept' = <<>> /\ grown' = FALSE
  /\ phase' = "forwarding"
  /\ OpenPool("forwarding", 1)
  /\ running' = FALSE
  /\ UNCHANGED <<active, queued, deferral, now, nextId, history>>

(* erase, then use_standard_events.  In a vector that has grown, the range *)
(* erased ends at the old or the new end, or in the memory it has left:    *)
(* any of the events may be gone.                                          *)
EndTimed ==
  /\ phase = "timed" /\ left = 0
  /\ LET appended == SubSeq(timed, scan, Len(timed))
         remaining == kept \o appended
     IN  IF grown
         THEN \E n \in 0 .. Len(remaining) : \E place \in [1 .. n -> DOMAIN remaining] :
                /\ \A i, j \in 1 .. n : i < j => place[i] < place[j]
                /\ timed' = [i \in 1 .. n |-> remaining[place[i]]]
         ELSE timed' = kept
  /\ scan' = 1 /\ kept' = <<>> /\ grown' = FALSE
  /\ phase' = "forwarding" /\ active' = "standard"
  /\ OpenPool("forwarding", 1)
  /\ running' = FALSE
  /\ UNCHANGED <<queued, deferral, now, nextId, history>>

(* OnServiceUpdate is triggered, not queued: the systems run now. *)
EndForwarding ==
  /\ phase = "forwarding" /\ Published
  /\ phase' = "systems"
  /\ running' = TRUE
  /\ UNCHANGED <<active, published, timing, deferral, now, nextId, history>>

EndSystems ==
  /\ phase = "systems"
  /\ phase' = "service"
  /\ left' = Len(actions)
  /\ running' = FALSE
  /\ UNCHANGED <<active, queued, pool, timing, deferral, now, nextId, history>>

RunAction ==
  /\ phase = "service" /\ left > 0
  /\ handled' = handled \cup {Head(actions)}
  /\ actions' = Tail(actions)
  /\ left' = left - 1
  /\ running' = TRUE
  /\ UNCHANGED <<phase, active, queued, pool, timing, operations, now, nextId, owed, risked>>

(* Mutant: the queue is cleared, with what the actions themselves deferred.*)
EndServiceClears ==
  /\ phase = "service" /\ left = 0
  /\ phase' = "deferred"
  /\ actions' = <<>>
  /\ left' = Len(operations)
  /\ running' = FALSE
  /\ UNCHANGED <<active, queued, pool, timing, operations, now, nextId, history>>

EndService ==
  /\ phase = "service" /\ left = 0
  /\ phase' = "deferred"
  /\ left' = Len(operations)
  /\ running' = FALSE
  /\ UNCHANGED <<active, queued, pool, timing, deferral, now, nextId, history>>

RunOperation ==
  /\ phase = "deferred" /\ left > 0
  /\ handled' = handled \cup {operations[Len(operations) - left + 1]}
  /\ left' = left - 1
  /\ running' = TRUE
  /\ UNCHANGED <<phase, active, queued, pool, timing, deferral, now, nextId, owed, risked>>

EndUpdate ==
  /\ phase = "deferred" /\ left = 0
  /\ operations' = <<>>
  /\ phase' = "outside"
  /\ running' = TRUE
  /\ UNCHANGED <<active, published, timing, actions, now, nextId, history>>

UpdateStep ==
  \/ BeginUpdate \/ Dispatch \/ NextPool
  \/ EndStandard \/ TimedStep \/ EndTimed
  \/ EndForwarding \/ EndSystems
  \/ RunAction \/ EndService \/ RunOperation \/ EndUpdate

Next ==
  \/ \E t \in Types : QueueEvent(t)
  \/ \E delay \in Delays : QueueTimedEvent(delay)
  \/ Defer
  \/ Later
  \/ Tick
  \/ UpdateStep

Spec == Init /\ [][Next]_vars

(* Application::run calls update in every turn of its loop.  The clock does *)
(* not stop: it is SF only because the model lets it advance in two of the *)
(* phases.                                                                 *)
FairSpec == Spec /\ WF_vars(UpdateStep) /\ SF_vars(Tick)
-----------------------------------------------------------------------------
Ids == 1 .. MaxEvents

Waiting ==
  Pending("standard") \cup Pending("forwarding") \cup Members(actions)
    \cup Members(operations) \cup TimedIds(timed)

TypeOK ==
  /\ phase \in Phases /\ running \in BOOLEAN /\ active \in Dispatchers
  /\ queued \in [Dispatchers -> [Types -> Seq(Nat)]]
  /\ pool \in DOMAIN TypeOrder /\ left \in Nat
  /\ timed \in Seq([id : Nat, due : Nat]) /\ scan \in Nat
  /\ kept \in Seq([id : Nat, due : Nat]) /\ grown \in BOOLEAN
  /\ actions \in Seq(Nat) /\ operations \in Seq(Nat)
  /\ now \in Nat /\ nextId \in Nat
  /\ handled \subseteq 1 .. nextId - 1 /\ owed \subseteq 1 .. nextId - 1
  /\ risked \subseteq 1 .. nextId - 1

(* A dispatcher never takes an event while it publishes: the length it     *)
(* noted is the length of the queue.  And code that runs between updates   *)
(* finds the forwarding dispatcher empty.                                  *)
DispatchersTakeTurns ==
  /\ phase \in Dispatchers =>
       /\ active # phase
       /\ left = Len(queued[phase][TypeOrder[pool]])
  /\ phase \notin {"standard", "timed", "forwarding"} => Pending("forwarding") = {}
  /\ phase \in {"timed"} => Pending("standard") = {}

(* What waited when update began, and what its first handlers queued, is   *)
(* handled before update returns.                                          *)
OwedAreHandled == phase = "outside" => owed \subseteq handled \cup risked

(* Every event ever queued is waiting or was handled, unless it was among  *)
(* the timed events while they grew; and none waits once handled, except   *)
(* for what remove_if and the loop over the operations are about to drop.  *)
NothingLost ==
  /\ 1 .. nextId - 1 \subseteq Waiting \cup handled \cup risked
  /\ phase \notin {"timed", "deferred"} => Waiting \cap handled = {}

(* Once queued, every event is handled sooner or later. *)
EventsAreHandled ==
  \A e \in Ids : e \in Waiting ~> e \in handled \cup risked

(* timed_event.hpp:11: the event "will be triggered or enqueued as an event*)
(* once the `delay` timer has been completed": no timed event goes away    *)
(* before that.                                                            *)
TimedEventsAreKept == 1 .. nextId - 1 \subseteq Waiting \cup handled

(* For each type the two dispatchers are one mailbox, first in first out.  *)
Mailbox(t) ==
  IF phase = "forwarding" THEN queued["forwarding"][t] \o queued["standard"][t]
                          ELSE queued["standard"][t] \o queued["forwarding"][t]

Abstract == INSTANCE Mailboxes WITH Events <- Ids, mail <- [t \in Types |-> Mailbox(t)]

ImplementsMailboxes == Abstract!Spec
=============================================================================
