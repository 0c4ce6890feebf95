------------------------- MODULE ServiceEventsProofs -------------------------
(***************************************************************************)
(* Proofs about ServiceEvents, for any event types, timers and numbers of  *)
(* events: the dispatchers take turns, an update handles what it owes, each*)
(* type is a first-in-first-out mailbox, and nothing is lost.  First, about*)
(* the Timer that a timed event waits for, for every set of lengths and    *)
(* every clock.                                                            *)
(***************************************************************************)
EXTENDS ServiceEvents, Timer, SequenceTheorems, TLAPS

-----------------------------------------------------------------------------
(* The inductive invariant of Timer relates the three time points to the   *)
(* time the timer really ran, one segment (from a start or a resume to a   *)
(* pause) at a time.                                                       *)

(* A stopped timer has run for no time. *)
StoppedIsFresh == ~Started => ran = 0

(* The current segment is part of what ran.                                *)
SegmentCounted ==
  Started => IF Paused THEN pause_point - start_point <= ran
                       ELSE clock - start_point <= ran

(* A paused timer that forgot no run has had one segment.                  *)
OneSegment == Started /\ Paused /\ ~repaused => pause_point - start_point = ran

(* While the timer runs, what is left before its projected end is never    *)
(* less than what it still has to run, and exactly that if it forgot no run*)
EndCoversLength ==
  Active /\ ~resized =>
    /\ end_point - clock >= length - ran
    /\ ~repaused => end_point - clock = length - ran

TimerIInv == 
  /\ TimerTypeOK
  /\ EndIffStarted
  /\ StoppedIsFresh
  /\ SegmentCounted
  /\ OneSegment
  /\ EndCoversLength

LEMMA InitTimer == TimerInit => TimerIInv
  <1> SUFFICES ASSUME TimerInit PROVE TimerIInv
    OBVIOUS
  <1> USE NoneAssumption DEF TimerInit
  <1>1. TimerTypeOK
    <2>1. repaused \in BOOLEAN /\ resized \in BOOLEAN
      OBVIOUS
    <2>2. clock \in Nat /\ length \in Nat /\ ran \in Nat
      BY LengthsAssumption, SMT
    <2> QED
      BY <2>1, <2>2 DEF TimerTypeOK, PastPoint
  <1>2. ~Started /\ EndIffStarted
    BY DEF Started, EndIffStarted
  <1> QED
    BY <1>1, <1>2 DEF TimerIInv, StoppedIsFresh, SegmentCounted, OneSegment, EndCoversLength, Active

(* A timer that begins afresh has no history. *)
LEMMA ForgottenTypes ==
  Forgotten => ran' = 0 /\ ~repaused' /\ ~resized' /\ repaused' \in BOOLEAN /\ resized' \in BOOLEAN
  BY DEF Forgotten

LEMMA BeginTimer ==
  ASSUME TimerIInv, NEW duration \in Nat, Begin(duration)
  PROVE  TimerIInv'
  <1> USE NoneAssumption DEF Begin
  <1> clock \in Nat /\ clock \notin {None} /\ clock + duration \in Int
    BY SMT DEF TimerIInv, TimerTypeOK
  <1>1. TimerTypeOK'
    BY ForgottenTypes, SMT DEF TimerTypeOK, PastPoint
  <1>0. ran' = 0
    BY ForgottenTypes
  <1>2. Started' /\ ~Paused' /\ EndIffStarted'
    BY SMT DEF Started, Paused, EndIffStarted
  <1>3. EndCoversLength' /\ SegmentCounted'
    BY <1>0, <1>2, SMT DEF EndCoversLength, SegmentCounted
  <1> QED
    BY <1>1, <1>2, <1>3 DEF TimerIInv, StoppedIsFresh, OneSegment

LEMMA StepTimer == TimerIInv /\ [TimerNext]_timer => TimerIInv'
  <1> SUFFICES ASSUME TimerIInv, [TimerNext]_timer PROVE TimerIInv'
    OBVIOUS
  <1>0. /\ TimerTypeOK
        /\ EndIffStarted
        /\ StoppedIsFresh
        /\ SegmentCounted
        /\ OneSegment
        /\ EndCoversLength
    BY DEF TimerIInv
  <1> SUFFICES /\ TimerTypeOK'
               /\ EndIffStarted'
               /\ StoppedIsFresh'
               /\ SegmentCounted'
               /\ OneSegment'
               /\ EndCoversLength'
    BY DEF TimerIInv
  <1> USE <1>0, NoneAssumption
      DEF EndIffStarted, StoppedIsFresh, SegmentCounted, OneSegment, EndCoversLength,
          Started, Paused, Active, TimerTypeOK, PastPoint
  <1>1. CASE ClockTick
    BY <1>1, SMTT(30) DEF ClockTick, points
  <1>2. CASE Restart
    BY <1>2, BeginTimer DEF Restart, TimerIInv
  <1>3. CASE StartAfresh
    BY <1>3, BeginTimer DEF StartAfresh, TimerIInv
  <1>4. CASE \E duration \in Lengths : StartWith(duration)
    BY <1>4, BeginTimer, LengthsAssumption DEF StartWith, TimerIInv
  <1>5. CASE Pause
    BY <1>5, SMTT(30) DEF Pause
  <1>6. CASE Resume
    <2>1. CASE Started
      BY <1>6, <2>1, SMTT(30) DEF Resume
    <2>2. CASE ~Started
      BY <1>6, <2>2, SMTT(30) DEF Resume
    <2> QED
      BY <2>1, <2>2
  <1>7. CASE StopTimer
    BY <1>7, ForgottenTypes, SMTT(30) DEF StopTimer
  <1>8. CASE Clear
    BY <1>8, ForgottenTypes, SMTT(30) DEF Clear
  <1>9. CASE \E duration \in Lengths : SetDuration(duration)
    <2> PICK duration \in Lengths : SetDuration(duration)
      BY <1>9
    <2>1. duration \in Nat
      BY LengthsAssumption
    <2>2. CASE Paused
      BY <2>1, <2>2, ForgottenTypes, SMTT(30) DEF SetDuration
    <2>3. CASE ~Paused
      BY <2>1, <2>3, SMTT(30) DEF SetDuration, points
    <2> QED
      BY <2>2, <2>3
  <1>10. CASE UNCHANGED timer
    BY <1>10, SMT DEF timer, points, runs
  <1> QED
    BY <1>1, <1>2, <1>3, <1>4, <1>5, <1>6, <1>7, <1>8, <1>9, <1>10 DEF TimerNext

LEMMA InvariantTimer == TimerSpec => []TimerIInv
  BY InitTimer, StepTimer, PTL DEF TimerSpec

(* The time points are points of the clock's past, and elapsed and         *)
(* remaining never read an absent one.                                     *)
THEOREM TimerTypeCorrect == TimerSpec => [](TimerTypeOK /\ EndIffStarted)
  <1>1. TimerIInv => TimerTypeOK /\ EndIffStarted
    BY DEF TimerIInv
  <1> QED
    BY <1>1, InvariantTimer, PTL

(* Whatever the order of starts, pauses, resumes and stops, a timer that   *)
(* kept its length is not complete before it ran for that long.            *)
THEOREM NotEarly == TimerSpec => []NeverCompletesEarly
  <1>1. TimerIInv => NeverCompletesEarly
    <2> SUFFICES ASSUME TimerIInv, Completed, ~resized PROVE ran >= length
      BY DEF NeverCompletesEarly
    <2> USE NoneAssumption
        DEF TimerIInv, TimerTypeOK, PastPoint, EndIffStarted, SegmentCounted, EndCoversLength,
            Completed, Remaining, Elapsed, Started, Paused, Active
    <2>1. CASE Paused
      BY <2>1, SMT
    <2>2. CASE ~Paused
      BY <2>2, SMT
    <2> QED
      BY <2>1, <2>2
  <1> QED
    BY <1>1, InvariantTimer, PTL

(* remaining is exact for a timer that forgot no run: one pause and one    *)
(* resume are accounted for to the tick.                                   *)
THEOREM RemainingExact == TimerSpec => []RemainingIsExact
  <1>1. TimerIInv => RemainingIsExact
    BY NoneAssumption, SMT
    DEF TimerIInv, TimerTypeOK, PastPoint, EndIffStarted, OneSegment, EndCoversLength,
        RemainingIsExact, Remaining, Elapsed, Started, Paused, Active
  <1> QED
    BY <1>1, InvariantTimer, PTL
-----------------------------------------------------------------------------
(* The pump of events. *)

USE TypeOrderAssumption, DelaysAssumption, BoundsAssumption DEF Dispatchers, Types, Phases

Issued == 1 .. nextId - 1
TimedEvents == [id : Issued, due : Nat]

(* TypeOK, and every event anywhere has a number that was given out. *)
Numbered ==
  /\ phase \in Phases /\ running \in BOOLEAN /\ active \in Dispatchers
  /\ queued \in [Dispatchers -> [Types -> Seq(Issued)]]
  /\ pool \in DOMAIN TypeOrder /\ left \in Nat
  /\ timed \in Seq(TimedEvents) /\ scan \in Nat \ {0}
  /\ kept \in Seq(TimedEvents) /\ grown \in BOOLEAN
  /\ actions \in Seq(Issued) /\ operations \in Seq(Issued)
  /\ now \in Nat /\ nextId \in Nat \ {0}
  /\ handled \subseteq Issued /\ owed \subseteq Issued /\ risked \subseteq Issued

(* queue_event goes to the forwarding dispatcher while update publishes the *)
(* standard one and sees to the timers, to the standard one otherwise.      *)
Turns == active = IF phase \in {"standard", "timed"} THEN "forwarding" ELSE "standard"

(* What update counts down is there. *)
LeftIsThere ==
  /\ phase \in Dispatchers => left = Len(queued[phase][TypeOrder[pool]])
  /\ phase = "timed" => scan + left <= Len(timed) + 1
  /\ phase = "service" => left <= Len(actions)
  /\ phase = "deferred" => left <= Len(operations)

(* The queues that were published are empty, and stay so until the other   *)
(* dispatcher had its turn.                                                *)
Emptied ==
  /\ phase \in Dispatchers => \A i \in 1 .. pool - 1 : queued[phase][TypeOrder[i]] = <<>>
  /\ phase = "timed" => \A t \in Types : queued["standard"][t] = <<>>
  /\ phase \notin {"standard", "timed", "forwarding"} =>
       \A t \in Types : queued["forwarding"][t] = <<>>

IInv == Numbered /\ Turns /\ LeftIsThere /\ Emptied

LEMMA SeqMonotone == ASSUME NEW S, NEW T, S \subseteq T PROVE Seq(S) \subseteq Seq(T)
<1> SUFFICES ASSUME NEW s \in Seq(S) PROVE s \in Seq(T)
  OBVIOUS
<1> QED
  OBVIOUS

LEMMA Element == ASSUME NEW S, NEW s \in Seq(S), NEW i \in DOMAIN s PROVE s[i] \in S
  OBVIOUS

LEMMA Empty == ASSUME NEW S, NEW s \in Seq(S), Len(s) = 0 PROVE s = <<>>
  OBVIOUS

LEMMA Listing == ASSUME NEW S, NEW n \in Nat, NEW f \in [1 .. n -> S] PROVE f \in Seq(S)
  OBVIOUS

LEMMA SameIssued == ASSUME nextId' = nextId PROVE Issued' = Issued /\ TimedEvents' = TimedEvents
  BY DEF Issued, TimedEvents

LEMMA NumberedIsTyped == ASSUME Numbered PROVE TypeOK
<1>1. Issued \subseteq Nat /\ TimedEvents \subseteq [id : Nat, due : Nat]
  BY SMTT(30), ZenonT(30) DEF Issued, TimedEvents, Numbered
<1>2. Seq(Issued) \subseteq Seq(Nat) /\ Seq(TimedEvents) \subseteq Seq([id : Nat, due : Nat])
  BY <1>1, SeqMonotone
<1>3. queued \in [Dispatchers -> [Types -> Seq(Nat)]]
  BY <1>2 DEF Numbered
<1> QED
  BY <1>2, <1>3 DEF Numbered, TypeOK, Issued

LEMMA InitInv == ASSUME Init PROVE IInv
<1>1. queued \in [Dispatchers -> [Types -> Seq(Issued)]]
  <2>1. <<>> \in Seq(Issued)
    OBVIOUS
  <2> QED
    BY <2>1 DEF Init
<1>2. pool \in DOMAIN TypeOrder
  BY DEF Init
<1>3. Numbered
  <2>1. <<>> \in Seq(Issued) /\ <<>> \in Seq(TimedEvents)
    OBVIOUS
  <2>2. nextId \in Nat \ {0} /\ now \in Nat /\ scan \in Nat \ {0} /\ left \in Nat
    BY DEF Init
  <2>3. timed \in Seq(TimedEvents) /\ kept \in Seq(TimedEvents) /\ actions \in Seq(Issued) /\ operations \in Seq(Issued)
    BY <2>1 DEF Init
  <2>4. handled \subseteq Issued /\ owed \subseteq Issued /\ risked \subseteq Issued
    BY DEF Init
  <2>5. phase \in Phases /\ running \in BOOLEAN /\ active \in Dispatchers /\ grown \in BOOLEAN
    BY DEF Init
  <2> QED
    BY <1>1, <1>2, <2>2, <2>3, <2>4, <2>5 DEF Numbered
<1>4. Turns /\ LeftIsThere
  BY DEF Init, Turns, LeftIsThere
<1>5. Emptied
  BY DEF Init, Emptied
<1> QED
  BY <1>3, <1>4, <1>5 DEF IInv

(* A new event leaves the numbers of the others as they are. *)
LEMMA MoreIssued ==
  ASSUME Numbered, NewEvent
  PROVE  /\ nextId' \in Nat \ {0} /\ nextId \in Issued' /\ Issued \subseteq Issued'
         /\ Seq(Issued) \subseteq Seq(Issued') /\ Seq(TimedEvents) \subseteq Seq(TimedEvents')
<1>1. nextId \in Nat \ {0} /\ nextId' = nextId + 1
  BY DEF Numbered, NewEvent
<1>2. nextId \in Issued' /\ Issued \subseteq Issued'
  BY <1>1 DEF Issued
<1>3. TimedEvents \subseteq TimedEvents'
  BY <1>2 DEF TimedEvents
<1>4. Seq(Issued) \subseteq Seq(Issued')
  BY <1>2, SeqMonotone
<1>5. Seq(TimedEvents) \subseteq Seq(TimedEvents')
  BY <1>3, SeqMonotone
<1> QED
  BY <1>1, <1>2, <1>4, <1>5

LEMMA QueueEventInv == ASSUME IInv, NEW t \in Types, QueueEvent(t) PROVE IInv'
<1>1. /\ active \in Dispatchers /\ queued \in [Dispatchers -> [Types -> Seq(Issued)]]
      /\ queued' = [queued EXCEPT ![active][t] = Append(@, nextId)]
      /\ NewEvent /\ Numbered
  BY DEF IInv, Numbered, QueueEvent
<1>2. queued' \in [Dispatchers -> [Types -> Seq(Issued')]]
  <2>1. queued \in [Dispatchers -> [Types -> Seq(Issued')]]
    BY <1>1, MoreIssued
  <2>2. Append(queued[active][t], nextId) \in Seq(Issued')
    BY <1>1, <2>1, MoreIssued
  <2> QED
    BY <1>1, <2>1, <2>2
<1>3. \A d \in Dispatchers \ {active} : queued'[d] = queued[d]
  BY <1>1
<1>4. Numbered'
  BY <1>1, <1>2, MoreIssued, ZenonT(30), SMTT(30) DEF Numbered, QueueEvent, timing, deferral
<1>5. Turns' /\ LeftIsThere' /\ Emptied'
  BY <1>1, <1>3, ZenonT(30), SMTT(60) DEF IInv, Numbered, QueueEvent, timing, deferral, Turns, LeftIsThere, Emptied
<1> QED
  BY <1>4, <1>5 DEF IInv

LEMMA QueueTimedEventInv == ASSUME IInv, NEW delay \in Delays, QueueTimedEvent(delay) PROVE IInv'
<1> DEFINE e == [id |-> nextId, due |-> now + delay]
<1>1. NewEvent /\ Numbered /\ timed' = Append(timed, e)
  BY DEF IInv, QueueTimedEvent
<1>2. e \in TimedEvents'
  BY <1>1, MoreIssued, SMTT(30), ZenonT(30) DEF TimedEvents, Numbered
<1>3. timed' \in Seq(TimedEvents') /\ Len(timed') = Len(timed) + 1
  BY ONLY <1>1, <1>2, MoreIssued, SMTT(60) DEF Numbered
<1>4. TimedIds(timed') \subseteq Issued'
  <2>1. \A i \in DOMAIN timed' : timed'[i] \in TimedEvents'
    BY <1>3
  <2> QED
    BY <2>1 DEF TimedIds, TimedEvents
<1>5. queued' \in [Dispatchers -> [Types -> Seq(Issued')]]
  BY <1>1, MoreIssued, ZenonT(30), SMTT(30) DEF Numbered, QueueTimedEvent, published
<1>6. Numbered'
  BY <1>1, <1>3, <1>4, <1>5, MoreIssued DEF Numbered, QueueTimedEvent, published, deferral
<1>7. Turns' /\ LeftIsThere' /\ Emptied'
  BY <1>1, <1>3 DEF IInv, Numbered, QueueTimedEvent, published, deferral, Turns, LeftIsThere, Emptied
<1> QED
  BY <1>6, <1>7 DEF IInv

LEMMA DeferInv == ASSUME IInv, Defer \/ Later PROVE IInv'
<1>1. NewEvent /\ Numbered /\ queued' = queued
  BY DEF IInv, Defer, Later, published
<1>2. queued' \in [Dispatchers -> [Types -> Seq(Issued')]]
  BY <1>1, MoreIssued, ZenonT(30), SMTT(30) DEF Numbered
<1>3. /\ actions \in Seq(Issued') /\ Append(actions, nextId) \in Seq(Issued')
      /\ operations \in Seq(Issued') /\ Append(operations, nextId) \in Seq(Issued')
  BY <1>1, MoreIssued, SMTT(30), ZenonT(30) DEF Numbered
<1>4. Numbered'
  BY <1>1, <1>2, <1>3, MoreIssued, ZenonT(60) DEF Numbered, Defer, Later, published, timing, history
<1>5. Turns' /\ LeftIsThere' /\ Emptied'
  <2>1. phase' = phase /\ left' = left /\ pool' = pool /\ active' = active /\ timed' = timed /\ scan' = scan
    BY DEF Defer, Later, published, timing
  <2>2. Len(actions') >= Len(actions) /\ Len(operations') >= Len(operations)
    BY SMTT(30), ZenonT(30) DEF IInv, Numbered, Defer, Later
  <2>3. LeftIsThere'
    BY <1>1, <2>1, <2>2 DEF IInv, Numbered, LeftIsThere
  <2> QED
    BY <1>1, <2>1, <2>3 DEF IInv, Turns, Emptied
<1> QED
  BY <1>4, <1>5 DEF IInv

LEMMA TickInv == ASSUME IInv, Tick PROVE IInv'
<1>1. Numbered'
  BY SMTT(30), ZenonT(30) DEF IInv, Numbered, Issued, TimedEvents, Tick, published, timing, deferral, history
<1> QED
  BY <1>1 DEF IInv, Tick, published, timing, deferral, Turns, LeftIsThere, Emptied

(* Opening a queue: its length is what is left of it. *)
LEMMA PoolOpened ==
  ASSUME Numbered, NEW d \in Dispatchers, NEW i \in DOMAIN TypeOrder, OpenPool(d, i)
  PROVE  pool' = i /\ left' \in Nat /\ left' = Len(queued[d][TypeOrder[i]])
<1>1. queued[d][TypeOrder[i]] \in Seq(Issued)
  BY DEF Numbered
<1> QED
  BY <1>1 DEF OpenPool

(* Publishing an event shortens its queue and what is left of it alike. *)
LEMMA DispatchInv == ASSUME IInv, Dispatch PROVE IInv'
<1> DEFINE t == TypeOrder[pool]
           q == queued[phase][t]
<1>1. /\ phase \in Dispatchers /\ t \in Types /\ q \in Seq(Issued) /\ q # <<>>
      /\ left = Len(q) /\ left' = left - 1 /\ left' \in Nat
  BY SMTT(30), ZenonT(30) DEF IInv, Numbered, LeftIsThere, Dispatch
<1>2. Head(q) \in Issued /\ Tail(q) \in Seq(Issued) /\ Len(Tail(q)) = Len(q) - 1
  BY <1>1, SMTT(30), ZenonT(30)
<1>3. queued' = [queued EXCEPT ![phase][t] = Tail(q)] /\ handled' = handled \cup {Head(q)}
  BY DEF Dispatch
<1>4. queued' \in [Dispatchers -> [Types -> Seq(Issued)]]
  BY <1>1, <1>2, <1>3 DEF IInv, Numbered
<1>5. Numbered'
  BY <1>1, <1>2, <1>3, <1>4, SameIssued DEF IInv, Numbered, Dispatch, timing, deferral
<1>6. LeftIsThere'
  BY <1>1, <1>2, <1>3, SMTT(30), ZenonT(60) DEF IInv, Numbered, Dispatch, LeftIsThere
<1>7. \A i \in 1 .. pool - 1 : TypeOrder[i] # t
  BY DEF IInv, Numbered
<1>8. Emptied'
  BY <1>1, <1>3, <1>7, SMTT(60) DEF IInv, Numbered, Dispatch, Emptied
<1> QED
  BY <1>5, <1>6, <1>8 DEF IInv, Turns, Dispatch

LEMMA NextPoolInv == ASSUME IInv, NextPool PROVE IInv'
<1>1. /\ phase \in Dispatchers /\ phase' = phase /\ queued' = queued
      /\ pool + 1 \in DOMAIN TypeOrder /\ OpenPool(phase, pool + 1)
      /\ left = Len(queued[phase][TypeOrder[pool]]) /\ left = 0
  BY DEF IInv, Numbered, LeftIsThere, NextPool
<1>2. pool' = pool + 1 /\ left' \in Nat /\ left' = Len(queued[phase][TypeOrder[pool + 1]])
  BY <1>1, PoolOpened DEF IInv
<1>3. queued[phase][TypeOrder[pool]] = <<>>
  <2>1. queued[phase][TypeOrder[pool]] \in Seq(Issued)
    BY <1>1 DEF IInv, Numbered
  <2> QED
    BY <1>1, <2>1, Empty
<1>4. Numbered'
  BY <1>1, <1>2, SameIssued DEF IInv, Numbered, NextPool, timing, deferral, history
<1>5. LeftIsThere'
  BY <1>1, <1>2 DEF LeftIsThere
<1>6. Emptied'
  BY <1>1, <1>2, <1>3, SMTT(60) DEF IInv, Numbered, Emptied
<1> QED
  BY <1>4, <1>5, <1>6 DEF IInv, Turns, NextPool

(* When the last queue is published, all of the dispatcher's are empty. *)
LEMMA AllPublished ==
  ASSUME IInv, phase \in Dispatchers, Published
  PROVE  \A t \in Types : queued[phase][t] = <<>>
<1>1. queued[phase][TypeOrder[pool]] \in Seq(Issued)
  BY DEF IInv, Numbered
<1>2. queued[phase][TypeOrder[pool]] = <<>>
  BY <1>1, Empty DEF IInv, LeftIsThere, Published
<1>3. \A i \in DOMAIN TypeOrder : i = pool \/ i \in 1 .. pool - 1
  BY DEF IInv, Numbered, Published
<1> QED
  BY <1>2, <1>3 DEF IInv, Emptied

LEMMA BeginUpdateInv == ASSUME IInv, BeginUpdate PROVE IInv'
<1>1. pool' = 1 /\ 1 \in DOMAIN TypeOrder /\ left' \in Nat /\ left' = Len(queued["standard"][TypeOrder[1]])
  <2>1. 1 \in DOMAIN TypeOrder
    OBVIOUS
  <2> QED
    BY <2>1, PoolOpened DEF IInv, BeginUpdate
<1>2. OwedNow \subseteq Issued
  <2>1. Pending("standard") \subseteq Issued
    <3>1. \A t \in Types : queued["standard"][t] \in Seq(Issued)
      BY DEF IInv, Numbered
    <3>2. \A t \in Types : \A i \in DOMAIN queued["standard"][t] : queued["standard"][t][i] \in Issued
      BY <3>1, Element
    <3> QED
      BY <3>2 DEF Pending, Members
  <2>2. Members(actions) \subseteq Issued /\ Members(operations) \subseteq Issued
    BY DEF IInv, Numbered, Members
  <2>3. \A i \in DOMAIN timed : timed[i].id \in Issued
    <3>1. \A i \in DOMAIN timed : timed[i] \in TimedEvents
      BY Element DEF IInv, Numbered
    <3> QED
      BY <3>1 DEF TimedEvents
  <2> QED
    BY <2>1, <2>2, <2>3 DEF OwedNow
<1>3. Numbered'
  BY <1>1, <1>2, SameIssued DEF IInv, Numbered, BeginUpdate, timing, deferral
<1>4. LeftIsThere'
  BY <1>1 DEF BeginUpdate, LeftIsThere
<1>5. Emptied'
  BY <1>1 DEF IInv, BeginUpdate, Emptied
<1> QED
  BY <1>3, <1>4, <1>5 DEF IInv, Turns, BeginUpdate

LEMMA EndStandardInv == ASSUME IInv, EndStandard PROVE IInv'
<1>1. \A t \in Types : queued["standard"][t] = <<>>
  BY AllPublished DEF EndStandard
<1>2. <<>> \in Seq(TimedEvents) /\ Len(timed) \in Nat
  BY DEF IInv, Numbered
<1>3. Numbered'
  <2>1. /\ left' = Len(timed) /\ scan' = 1 /\ kept' = <<>> /\ grown' = FALSE
        /\ phase' = "timed" /\ running' = FALSE
    BY DEF EndStandard
  <2>2. UNCHANGED <<active, queued, pool, timed, actions, operations, now, nextId, handled, owed, risked>>
    BY DEF EndStandard, deferral, history
  <2>3. Issued' = Issued /\ TimedEvents' = TimedEvents
    BY <2>2, SameIssued
  <2>4. kept' \in Seq(TimedEvents') /\ scan' \in Nat \ {0} /\ left' \in Nat
    BY <1>2, <2>1, <2>3
  <2> QED
    BY <2>1, <2>2, <2>3, <2>4 DEF IInv, Numbered
<1>4. LeftIsThere'
  BY <1>2 DEF EndStandard, LeftIsThere
<1>5. Emptied'
  BY <1>1 DEF EndStandard, Emptied
<1> QED
  BY <1>3, <1>4, <1>5 DEF IInv, Turns, EndStandard

LEMMA TimedStepInv == ASSUME IInv, TimedStep PROVE IInv'
<1>1. /\ timed[scan] \in TimedEvents /\ timed[scan].id \in Issued
      /\ left' \in Nat /\ scan' \in Nat \ {0} /\ scan' + left' = scan + left
  <2>1. scan \in DOMAIN timed
    BY DEF IInv, Numbered, LeftIsThere, TimedStep
  <2>2. timed[scan] \in TimedEvents
    BY <2>1, Element DEF IInv, Numbered
  <2> QED
    BY <2>2, SMTT(30), ZenonT(30) DEF IInv, Numbered, TimedStep, TimedEvents
<1>2. Append(kept, timed[scan]) \in Seq(TimedEvents)
  BY <1>1 DEF IInv, Numbered
<1>3. kept' \in Seq(TimedEvents) /\ handled' \subseteq Issued /\ running' \in BOOLEAN
  BY <1>1, <1>2 DEF IInv, Numbered, TimedStep
<1>4. Numbered'
  BY <1>1, <1>3, SameIssued DEF IInv, Numbered, TimedStep, deferral
<1>5. LeftIsThere'
  BY <1>1 DEF IInv, LeftIsThere, TimedStep
<1> QED
  BY <1>4, <1>5 DEF IInv, Turns, Emptied, TimedStep

LEMMA EndTimedInv == ASSUME IInv, EndTimed PROVE IInv'
<1>1. pool' = 1 /\ 1 \in DOMAIN TypeOrder /\ left' \in Nat /\ left' = Len(queued["forwarding"][TypeOrder[1]])
  <2>1. 1 \in DOMAIN TypeOrder
    OBVIOUS
  <2> QED
    BY <2>1, PoolOpened DEF IInv, EndTimed
<1>2. timed' \in Seq(TimedEvents) /\ <<>> \in Seq(TimedEvents)
  <2>1. SubSeq(timed, scan, Len(timed)) \in Seq(TimedEvents)
    BY DEF IInv, Numbered
  <2>2. kept \o SubSeq(timed, scan, Len(timed)) \in Seq(TimedEvents)
    BY <2>1 DEF IInv, Numbered
  <2> QED
    <3> DEFINE remaining == kept \o SubSeq(timed, scan, Len(timed))
    <3>1. CASE grown
      <4>1. PICK n \in 0 .. Len(remaining) : \E place \in [1 .. n -> DOMAIN remaining] :
                   timed' = [i \in 1 .. n |-> remaining[place[i]]]
        BY <3>1 DEF EndTimed
      <4>2. PICK place \in [1 .. n -> DOMAIN remaining] : timed' = [i \in 1 .. n |-> remaining[place[i]]]
        BY <4>1
      <4>3. \A i \in 1 .. n : remaining[place[i]] \in TimedEvents
        BY <2>2, <4>2, Element
      <4>4. timed' \in [1 .. n -> TimedEvents]
        BY <4>2, <4>3
      <4>5. n \in Nat
        BY <2>2
      <4> HIDE DEF remaining
      <4>6. timed' \in Seq(TimedEvents)
        BY <4>4, <4>5, Listing
      <4> QED
        BY <4>6
    <3>2. CASE ~grown
      BY <3>2 DEF IInv, Numbered, EndTimed
    <3> QED
      BY <3>1, <3>2
<1>3. Numbered'
  <2>1. /\ scan' = 1 /\ kept' = <<>> /\ grown' = FALSE
        /\ phase' = "forwarding" /\ running' = FALSE /\ active' = "standard"
    BY DEF EndTimed
  <2>2. UNCHANGED <<queued, actions, operations, now, nextId, handled, owed, risked>>
    BY DEF EndTimed, deferral, history
  <2>3. Issued' = Issued /\ TimedEvents' = TimedEvents
    BY <2>2, SameIssued
  <2>4. timed' \in Seq(TimedEvents') /\ kept' \in Seq(TimedEvents') /\ scan' \in Nat \ {0}
    BY <1>2, <2>1, <2>3
  <2> QED
    BY <1>1, <2>1, <2>2, <2>3, <2>4 DEF IInv, Numbered
<1>4. LeftIsThere'
  BY <1>1 DEF EndTimed, LeftIsThere
<1>5. Emptied'
  BY <1>1 DEF EndTimed, Emptied
<1> QED
  BY <1>3, <1>4, <1>5 DEF IInv, Turns, EndTimed

(* The last steps of update, from the systems to the deferred operations. *)
LEMMA LateStepsInv ==
  ASSUME IInv, EndForwarding \/ EndSystems \/ EndService \/ EndUpdate
  PROVE  IInv'
<1>1. /\ left' \in Nat /\ phase' \in Phases /\ running' \in BOOLEAN
      /\ operations' \in Seq(Issued)
  <2>1. <<>> \in Seq(Issued) /\ Len(actions) \in Nat /\ Len(operations) \in Nat
    BY DEF IInv, Numbered
  <2> QED
    BY <2>1 DEF IInv, Numbered, EndForwarding, EndSystems, EndService, EndUpdate, published, deferral
<1>2. UNCHANGED <<active, queued, pool, timing, actions, now, nextId, history>>
  BY DEF EndForwarding, EndSystems, EndService, EndUpdate, published, deferral
<1>3. Numbered'
  BY <1>1, <1>2, SameIssued DEF IInv, Numbered, timing, history
<1>4. LeftIsThere'
  <2>1. Len(actions) \in Nat /\ Len(operations) \in Nat
    BY DEF IInv, Numbered
  <2> QED
    BY <1>2, <2>1 DEF EndForwarding, EndSystems, EndService, EndUpdate, deferral, LeftIsThere
<1>5. Emptied'
  <2>1. CASE EndForwarding
    BY <2>1, <1>2, AllPublished DEF EndForwarding, Emptied
  <2>2. CASE EndSystems \/ EndService \/ EndUpdate
    BY <2>2, <1>2 DEF IInv, EndSystems, EndService, EndUpdate, Emptied
  <2> QED
    BY <2>1, <2>2
<1> QED
  BY <1>2, <1>3, <1>4, <1>5 DEF IInv, Turns, EndForwarding, EndSystems, EndService, EndUpdate

LEMMA RunInv == ASSUME IInv, RunAction \/ RunOperation PROVE IInv'
<1>1. CASE RunAction
  <2>1. /\ actions \in Seq(Issued) /\ actions # <<>> /\ left \in Nat /\ left' \in Nat /\ left' = left - 1
        /\ left <= Len(actions)
    BY <1>1 DEF IInv, Numbered, LeftIsThere, RunAction
  <2>2. Head(actions) \in Issued /\ Tail(actions) \in Seq(Issued) /\ Len(Tail(actions)) = Len(actions) - 1
    BY <2>1
  <2>3. Numbered'
    BY <1>1, <2>1, <2>2, SameIssued DEF IInv, Numbered, RunAction, timing
  <2>4. LeftIsThere'
    BY <1>1, <2>1, <2>2 DEF RunAction, LeftIsThere
  <2> QED
    BY <1>1, <2>3, <2>4 DEF IInv, Turns, Emptied, RunAction
<1>2. CASE RunOperation
  <2>1. left \in Nat /\ left' \in Nat /\ left' = left - 1 /\ left <= Len(operations) /\ operations \in Seq(Issued)
    BY <1>2 DEF IInv, Numbered, LeftIsThere, RunOperation
  <2>2. operations[Len(operations) - left + 1] \in Issued
    BY <1>2, <2>1, Element DEF IInv, Numbered, RunOperation
  <2>3. Numbered'
    BY <1>2, <2>1, <2>2, SameIssued DEF IInv, Numbered, RunOperation, timing, deferral
  <2>4. LeftIsThere'
    BY <1>2, <2>1 DEF RunOperation, deferral, LeftIsThere
  <2> QED
    BY <1>2, <2>3, <2>4 DEF IInv, Turns, Emptied, RunOperation
<1> QED
  BY <1>1, <1>2

LEMMA StutterInv == ASSUME IInv, UNCHANGED vars PROVE IInv'
  BY SameIssued DEF IInv, Numbered, Turns, LeftIsThere, Emptied, vars, published, timing, deferral, history

LEMMA StepInv == ASSUME IInv, [Next]_vars PROVE IInv'
  BY QueueEventInv, QueueTimedEventInv, DeferInv, TickInv, BeginUpdateInv, DispatchInv, NextPoolInv,
     EndStandardInv, TimedStepInv, EndTimedInv, LateStepsInv, RunInv, StutterInv
     DEF Next, UpdateStep

(* The inductive invariant. *)
LEMMA Inductive == Spec => []IInv
<1>1. Init => IInv
  BY InitInv
<1>2. IInv /\ [Next]_vars => IInv'
  BY StepInv
<1> QED
  BY <1>1, <1>2, PTL DEF Spec

(* The state keeps its types, and every event in a queue has a number that *)
(* was given out (service.cpp: all of update).                             *)
THEOREM TypeCorrect == Spec => []TypeOK
<1>1. IInv => TypeOK
  BY NumberedIsTyped DEF IInv
<1> QED
  BY <1>1, Inductive, PTL

(* A dispatcher never takes an event while it publishes, and what runs     *)
(* between two updates finds the forwarding dispatcher empty               *)
(* (service.cpp: use_forwarding_events, use_standard_events).              *)
THEOREM TakeTurns == Spec => []DispatchersTakeTurns
<1>1. IInv => DispatchersTakeTurns
  <2> SUFFICES ASSUME IInv PROVE DispatchersTakeTurns
    OBVIOUS
  <2>1. phase \in Dispatchers => active # phase
    BY DEF IInv, Turns
  <2>2. phase \notin {"standard", "timed", "forwarding"} => Pending("forwarding") = {}
    BY DEF IInv, Emptied, Pending, Members
  <2>3. phase \in {"timed"} => Pending("standard") = {}
    BY DEF IInv, Emptied, Pending, Members
  <2> QED
    BY <2>1, <2>2, <2>3 DEF IInv, LeftIsThere, DispatchersTakeTurns
<1> QED
  BY <1>1, Inductive, PTL
-----------------------------------------------------------------------------
(* The two dispatchers as one mailbox for each type. *)

LEMMA QueuesAreSequences ==
  ASSUME IInv
  PROVE  \A d \in Dispatchers : \A t \in Types : queued[d][t] \in Seq(Issued)
BY DEF IInv, Numbered

(* What changes no queue changes no mailbox: when the dispatchers change    *)
(* turns, one of them is empty.                                             *)
LEMMA SameMail ==
  ASSUME IInv, queued' = queued,
         \/ phase' = "forwarding" <=> phase = "forwarding"
         \/ phase = "timed" /\ phase' = "forwarding"
         \/ EndForwarding
  PROVE  \A t \in Types : Mailbox(t)' = Mailbox(t)
<1> SUFFICES ASSUME NEW t \in Types PROVE Mailbox(t)' = Mailbox(t)
  OBVIOUS
<1>1. queued["standard"][t] \in Seq(Issued) /\ queued["forwarding"][t] \in Seq(Issued)
  BY QueuesAreSequences
<1>2. CASE phase' = "forwarding" <=> phase = "forwarding"
  BY <1>2 DEF Mailbox
<1>3. CASE phase = "timed" /\ phase' = "forwarding"
  <2>1. queued["standard"][t] = <<>>
    BY <1>3 DEF IInv, Emptied
  <2> QED
    BY <1>1, <1>3, <2>1, ConcatEmptySeq DEF Mailbox
<1>4. CASE EndForwarding
  <2>1. queued["forwarding"][t] = <<>> /\ phase = "forwarding" /\ phase' = "systems"
    BY <1>4, AllPublished DEF EndForwarding
  <2> QED
    BY <1>1, <2>1, ConcatEmptySeq DEF Mailbox
<1> QED
  BY <1>2, <1>3, <1>4

LEMMA AppendAfter ==
  ASSUME NEW S, NEW s \in Seq(S), NEW r \in Seq(S), NEW e \in S
  PROVE  s \o Append(r, e) = Append(s \o r, e)
BY SMTT(30), ZenonT(30)

(* An event that is queued goes to the end of its mailbox. *)
LEMMA QueueEventPuts ==
  ASSUME IInv, NEW t \in Types, QueueEvent(t)
  PROVE  /\ Mailbox(t)' = Append(Mailbox(t), nextId)
         /\ \A u \in Types \ {t} : Mailbox(u)' = Mailbox(u)
<1>1. /\ queued' = [queued EXCEPT ![active][t] = Append(@, nextId)] /\ phase' = phase
      /\ queued \in [Dispatchers -> [Types -> Seq(Issued)]] /\ active \in Dispatchers
  BY DEF QueueEvent, IInv, Numbered
<1>2. \A u \in Types \ {t} : \A d \in Dispatchers : queued'[d][u] = queued[d][u]
  BY <1>1
<1>3. \A u \in Types \ {t} : Mailbox(u)' = Mailbox(u)
  BY <1>1, <1>2 DEF Mailbox
<1> DEFINE S == Issued'
           s == queued["standard"][t]
           f == queued["forwarding"][t]
<1>4. s \in Seq(S) /\ f \in Seq(S) /\ nextId \in S
  BY MoreIssued, QueuesAreSequences DEF IInv, QueueEvent
<1>5. CASE phase \in {"standard", "timed"}
  <2>1. queued'["standard"][t] = s /\ queued'["forwarding"][t] = Append(f, nextId)
    BY <1>1, <1>5 DEF IInv, Turns
  <2>2. Mailbox(t) = s \o f /\ Mailbox(t)' = s \o Append(f, nextId)
    BY <1>1, <1>5, <2>1, ZenonT(60) DEF Mailbox
  <2> HIDE DEF S, s, f
  <2> QED
    BY <1>3, <1>4, <2>2, AppendAfter, SMTT(60)
<1>6. CASE phase = "forwarding"
  <2>1. queued'["forwarding"][t] = f /\ queued'["standard"][t] = Append(s, nextId)
    BY <1>1, <1>6, SMTT(30), ZenonT(60) DEF IInv, Turns
  <2>2. Mailbox(t) = f \o s /\ Mailbox(t)' = f \o Append(s, nextId)
    BY <1>1, <1>6, <2>1, ZenonT(60) DEF Mailbox
  <2> HIDE DEF S, s, f
  <2> QED
    BY <1>3, <1>4, <2>2, AppendAfter, SMTT(30), ZenonT(30)
<1>7. CASE phase \notin {"standard", "timed", "forwarding"}
  <2>1. f = <<>> /\ queued'["forwarding"][t] = f /\ queued'["standard"][t] = Append(s, nextId)
    BY <1>1, <1>7, SMTT(30), ZenonT(60) DEF IInv, Turns, Emptied
  <2>2. Mailbox(t) = s \o <<>> /\ Mailbox(t)' = Append(s, nextId) \o <<>>
    BY <1>1, <1>7, <2>1, ZenonT(60) DEF Mailbox
  <2> HIDE DEF S, s, f
  <2>3. s \o <<>> = s /\ Append(s, nextId) \o <<>> = Append(s, nextId)
    BY <1>4, ConcatEmptySeq
  <2> QED
    BY <1>3, <2>2, <2>3
<1> QED
  BY <1>5, <1>6, <1>7

LEMMA TakeBefore ==
  ASSUME NEW S, NEW s \in Seq(S), NEW r \in Seq(S), s # <<>>
  PROVE  s \o r # <<>> /\ Tail(s \o r) = Tail(s) \o r
<1>1. Len(s \o r) = Len(s) + Len(r) /\ Len(s) > 0
  OBVIOUS
<1>2. Len(Tail(s \o r)) = Len(Tail(s) \o r)
  BY <1>1
<1>3. \A i \in 1 .. Len(Tail(s) \o r) : Tail(s \o r)[i] = (Tail(s) \o r)[i]
  BY <1>1
<1>4. Tail(s \o r) \in Seq(S) /\ Tail(s) \o r \in Seq(S)
  BY <1>1
<1> QED
  BY <1>1, <1>2, <1>3, <1>4, SeqEqual

(* The dispatcher that publishes takes the first event of a mailbox. *)
LEMMA DispatchTakes ==
  ASSUME IInv, Dispatch
  PROVE  \E t \in Types : /\ Mailbox(t) # <<>> /\ Mailbox(t)' = Tail(Mailbox(t))
                          /\ \A u \in Types \ {t} : Mailbox(u)' = Mailbox(u)
<1>1. PICK t \in Types : t = TypeOrder[pool]
  BY DEF IInv, Numbered
<1> DEFINE other == IF phase = "standard" THEN "forwarding" ELSE "standard"
           q == queued[phase][t]
           r == queued[other][t]
<1>2. /\ phase \in Dispatchers /\ phase' = phase /\ other \in Dispatchers
      /\ queued' = [queued EXCEPT ![phase][t] = Tail(@)]
      /\ queued \in [Dispatchers -> [Types -> Seq(Issued)]] /\ q # <<>>
  BY <1>1, SMTT(30), ZenonT(30) DEF IInv, Numbered, LeftIsThere, Dispatch
<1>3. \A u \in Types \ {t} : Mailbox(u)' = Mailbox(u)
  <2>1. \A u \in Types \ {t} : \A d \in Dispatchers : queued'[d][u] = queued[d][u]
    BY <1>2
  <2> QED
    BY <1>2, <2>1 DEF Mailbox
<1>4. q \in Seq(Issued) /\ r \in Seq(Issued)
  BY <1>2
<1>5. queued'[phase][t] = Tail(q) /\ queued'[other][t] = r
  BY <1>2, SMTT(60)
<1>6. Mailbox(t) = q \o r /\ Mailbox(t)' = Tail(q) \o r
  <2>1. CASE phase = "standard"
    BY <1>2, <1>5, <2>1 DEF Mailbox
  <2>2. CASE phase = "forwarding"
    BY <1>2, <1>5, <2>2 DEF Mailbox
  <2> QED
    BY <1>2, <2>1, <2>2
<1>7. Mailbox(t) # <<>> /\ Mailbox(t)' = Tail(Mailbox(t))
  <2> HIDE DEF q, r
  <2> QED
    BY <1>2, <1>4, <1>6, TakeBefore, SMTT(30), ZenonT(60)
<1> QED
  BY <1>3, <1>7

(* Every step puts one event into a mailbox, takes one out, or neither. *)
LEMMA StepRefines ==
  ASSUME IInv, [Next]_vars
  PROVE  [Abstract!Next]_[t \in Types |-> Mailbox(t)]
<1> DEFINE mail == [t \in Types |-> Mailbox(t)]
<1>1. CASE \E t \in Types : QueueEvent(t)
  <2>1. PICK t \in Types : QueueEvent(t)
    BY <1>1
  <2>2. nextId \in Ids
    BY <2>1 DEF IInv, Numbered, QueueEvent, NewEvent, Ids
  <2>3. mail' = [mail EXCEPT ![t] = Append(@, nextId)]
    BY <2>1, QueueEventPuts
  <2>4. Abstract!Put(t)
    BY <2>2, <2>3 DEF Abstract!Put
  <2> QED
    BY <2>4 DEF Abstract!Next
<1>2. CASE Dispatch
  <2>1. PICK t \in Types : /\ Mailbox(t) # <<>> /\ Mailbox(t)' = Tail(Mailbox(t))
                          /\ \A u \in Types \ {t} : Mailbox(u)' = Mailbox(u)
    BY <1>2, DispatchTakes
  <2>2. mail[t] # <<>> /\ mail' = [mail EXCEPT ![t] = Tail(@)]
    BY <2>1
  <2>3. Abstract!Take(t)
    BY <2>2 DEF Abstract!Take
  <2> QED
    BY <2>3 DEF Abstract!Next
<1>3. CASE ~Dispatch /\ ~\E t \in Types : QueueEvent(t)
  <2>1. /\ queued' = queued
        /\ \/ phase' = "forwarding" <=> phase = "forwarding"
           \/ phase = "timed" /\ phase' = "forwarding"
           \/ EndForwarding
    BY <1>3 DEF Next, UpdateStep, vars, published, QueueTimedEvent, Defer, Later, Tick, BeginUpdate,
       NextPool, EndStandard, TimedStep, EndTimed, EndForwarding, EndSystems, RunAction, EndService,
       RunOperation, EndUpdate
  <2>2. \A t \in Types : Mailbox(t)' = Mailbox(t)
    BY <2>1, SameMail
  <2> QED
    BY <2>2
<1> QED
  BY <1>1, <1>2, <1>3

(* Whatever is queued from wherever, each type is a mailbox, first in first *)
(* out (service.hpp: queue_event; service.cpp: update).                     *)
THEOREM RefinesMailboxes == Spec => ImplementsMailboxes
<1>1. Init => Abstract!Init
  <2> SUFFICES ASSUME Init PROVE Abstract!Init
    OBVIOUS
  <2>1. \A t \in Types : Mailbox(t) = <<>>
    <3>1. \A t \in Types : queued["standard"][t] = <<>> /\ queued["forwarding"][t] = <<>>
      BY DEF Init
    <3>2. <<>> \o <<>> = <<>>
      OBVIOUS
    <3> QED
      BY <3>1, <3>2 DEF Mailbox
  <2> QED
    BY <2>1 DEF Abstract!Init
<1>2. IInv /\ [Next]_vars => [Abstract!Next]_[t \in Types |-> Mailbox(t)]
  BY StepRefines
<1> QED
  BY <1>1, <1>2, Inductive, PTL DEF Spec, ImplementsMailboxes, Abstract!Spec
-----------------------------------------------------------------------------
(* What an update still has to handle. *)

(* Event e is where this update will get to it. *)
Ahead(e) ==
  \/ phase = "standard" /\ e \in Pending("standard")
  \/ phase \in {"standard", "timed", "forwarding"} /\ e \in Pending("forwarding")
  \/ phase = "standard" /\ \E i \in DOMAIN timed : timed[i].id = e /\ Due(timed[i])
  \/ phase = "timed" /\ \E i \in scan .. scan + left - 1 : timed[i].id = e /\ Due(timed[i])
  \/ phase \in {"standard", "timed", "forwarding", "systems"} /\ e \in Members(actions)
  \/ phase = "service" /\ \E i \in 1 .. left : actions[i] = e
  \/ phase \in {"standard", "timed", "forwarding", "systems", "service"} /\ e \in Members(operations)
  \/ phase = "deferred" /\ \E i \in Len(operations) - left + 1 .. Len(operations) : operations[i] = e

Settled == handled \cup risked

OwedAhead == \A e \in owed \ Settled : phase # "outside" /\ Ahead(e)

GrownAreRisked == phase = "timed" /\ grown => TimedIds(timed) \subseteq risked

OwedInv == IInv /\ OwedAhead /\ GrownAreRisked

LEMMA MembersOfAppend ==
  ASSUME NEW S, NEW s \in Seq(S), NEW e
  PROVE  /\ Len(Append(s, e)) = Len(s) + 1
         /\ \A i \in DOMAIN s : i \in DOMAIN Append(s, e) /\ Append(s, e)[i] = s[i]
         /\ Members(s) \subseteq Members(Append(s, e))
         /\ e \in Members(Append(s, e))
<1>1. /\ Len(Append(s, e)) = Len(s) + 1
      /\ DOMAIN Append(s, e) = 1 .. Len(s) + 1 /\ DOMAIN s = 1 .. Len(s) /\ Len(s) \in Nat
  OBVIOUS
<1>2. \A i \in DOMAIN s : Append(s, e)[i] = s[i]
  BY <1>1
<1>3. Append(s, e)[Len(s) + 1] = e
  BY <1>1
<1>4. Members(s) \subseteq Members(Append(s, e))
  BY <1>1, <1>2 DEF Members
<1>5. e \in Members(Append(s, e))
  BY <1>1, <1>3 DEF Members
<1> QED
  BY <1>1, <1>2, <1>4, <1>5

LEMMA MembersOfTail ==
  ASSUME NEW S, NEW s \in Seq(S), s # <<>>
  PROVE  Members(s) \subseteq Members(Tail(s)) \cup {Head(s)}
<1> SUFFICES ASSUME NEW i \in DOMAIN s, i # 1 PROVE s[i] \in Members(Tail(s))
  BY DEF Members
<1>1. i - 1 \in DOMAIN Tail(s) /\ Tail(s)[i - 1] = s[i]
  OBVIOUS
<1> QED
  BY <1>1 DEF Members

LEMMA QueueEventOwed == ASSUME OwedInv, NEW t \in Types, QueueEvent(t) PROVE (OwedAhead /\ GrownAreRisked)'
<1>1. /\ queued' = [queued EXCEPT ![active][t] = Append(@, nextId)] /\ active \in Dispatchers
      /\ queued \in [Dispatchers -> [Types -> Seq(Issued)]]
      /\ UNCHANGED <<phase, left, timed, scan, grown, actions, operations, now, handled, risked>>
  BY DEF QueueEvent, OwedInv, IInv, Numbered, timing, deferral
<1>2. \A d \in Dispatchers : Pending(d) \subseteq Pending(d)'
  <2>1. ASSUME NEW d \in Dispatchers, NEW u \in Types
        PROVE  Members(queued[d][u]) \subseteq Members(queued'[d][u])
    <3>1. queued[d][u] \in Seq(Issued)
      BY <1>1
    <3>2. queued'[d][u] = queued[d][u] \/ queued'[d][u] = Append(queued[d][u], nextId)
      BY <1>1
    <3> QED
      BY <3>1, <3>2, MembersOfAppend, ZenonT(30), SMTT(30)
  <2> SUFFICES ASSUME NEW d \in Dispatchers, NEW e \in Pending(d) PROVE e \in Pending(d)'
    OBVIOUS
  <2>2. PICK u \in Types : e \in Members(queued[d][u])
    BY DEF Pending
  <2>3. e \in Members(queued'[d][u])
    BY <2>1, <2>2
  <2> QED
    BY <2>3 DEF Pending
<1>3. nextId \in Pending(active)'
  <2>1. queued'[active][t] = Append(queued[active][t], nextId) /\ queued[active][t] \in Seq(Issued)
    BY <1>1
  <2>2. nextId \in Members(queued'[active][t])
    BY <2>1, MembersOfAppend
  <2>3. active' = active
    BY DEF QueueEvent
  <2> QED
    BY <1>1, <2>2, <2>3 DEF Pending
<1>4. \A e \in owed \ Settled : phase' # "outside" /\ Ahead(e)'
  BY <1>1, <1>2 DEF OwedInv, OwedAhead, Ahead, Due
<1>5. ASSUME NEW e, e = nextId, phase \in {"standard", "timed"} PROVE phase' # "outside" /\ Ahead(e)'
  <2>1. active = "forwarding" /\ active' = active
    BY <1>5 DEF OwedInv, IInv, Turns, QueueEvent
  <2> QED
    BY <1>1, <1>3, <1>5, <2>1 DEF Ahead
<1>6. OwedAhead'
  BY <1>1, <1>4, <1>5 DEF QueueEvent, OwedAhead, Settled
<1> QED
  BY <1>1, <1>6 DEF OwedInv, GrownAreRisked

LEMMA QueueTimedEventOwed ==
  ASSUME OwedInv, NEW delay \in Delays, QueueTimedEvent(delay)
  PROVE  (OwedAhead /\ GrownAreRisked)'
<1>1. /\ timed \in Seq(TimedEvents) /\ left \in Nat /\ scan \in Nat \ {0}
      /\ phase = "timed" => scan + left <= Len(timed) + 1
      /\ timed' = Append(timed, [id |-> nextId, due |-> now + delay])
      /\ UNCHANGED <<phase, queued, left, scan, actions, operations, now, handled, owed>>
      /\ risked' = IF phase = "timed" THEN risked \cup TimedIds(timed') ELSE risked
  BY DEF QueueTimedEvent, OwedInv, IInv, Numbered, LeftIsThere, published, deferral
<1>2. \A i \in DOMAIN timed : i \in DOMAIN timed' /\ timed'[i] = timed[i]
  BY <1>1, MembersOfAppend
<1>3. phase = "timed" => \A i \in scan .. scan + left - 1 : i \in DOMAIN timed
  BY <1>1
<1>4. \A e : Ahead(e) => Ahead(e)'
  BY ONLY <1>1, <1>2, <1>3, SMTT(30), ZenonT(60) DEF Ahead, Due, Pending
<1>5. OwedAhead'
  BY <1>1, <1>4 DEF OwedInv, OwedAhead, Settled
<1> QED
  BY <1>1, <1>5 DEF GrownAreRisked

LEMMA DeferOwed == ASSUME OwedInv, Defer \/ Later PROVE (OwedAhead /\ GrownAreRisked)'
<1>1. /\ actions \in Seq(Issued) /\ operations \in Seq(Issued) /\ left \in Nat
      /\ phase = "service" => left <= Len(actions)
      /\ phase = "deferred" => left <= Len(operations)
  BY DEF OwedInv, IInv, Numbered, LeftIsThere
<1>2. /\ actions' = actions \/ actions' = Append(actions, nextId)
      /\ operations' = operations \/ (phase # "deferred" /\ operations' = Append(operations, nextId))
      /\ UNCHANGED <<phase, queued, left, timed, scan, grown, now, handled, owed, risked>>
  <2>1. CASE Defer
    BY <2>1 DEF Defer, published, timing, history
  <2>2. CASE Later
    BY <2>2 DEF Later, published, timing, history
  <2> QED
    BY <2>1, <2>2
<1>3. Members(actions) \subseteq Members(actions') /\ Members(operations) \subseteq Members(operations')
  BY <1>1, <1>2, MembersOfAppend
<1>4. \A i \in DOMAIN actions : actions'[i] = actions[i]
  <2>1. \A i \in DOMAIN actions : Append(actions, nextId)[i] = actions[i]
    BY <1>1, MembersOfAppend
  <2> QED
    BY <1>2, <2>1
<1>5. phase = "service" => \A i \in 1 .. left : i \in DOMAIN actions
  BY <1>1
<1>6. phase = "deferred" => operations' = operations
  BY <1>2
<1>7. \A e : Ahead(e) => Ahead(e)'
  BY ONLY <1>1, <1>2, <1>3, <1>4, <1>5, <1>6, ZenonT(60) DEF Ahead, Due, Pending
<1> QED
  BY <1>2, <1>7 DEF OwedInv, OwedAhead, GrownAreRisked, Settled

(* Time only makes more events due. *)
LEMMA TickOwed == ASSUME OwedInv, Tick PROVE (OwedAhead /\ GrownAreRisked)'
<1>1. /\ now \in Nat /\ now' = now + 1
      /\ UNCHANGED <<phase, queued, left, timed, scan, grown, actions, operations, handled, owed, risked>>
  BY DEF Tick, OwedInv, IInv, Numbered, published, timing, deferral, history
<1>2. \A i \in DOMAIN timed : Due(timed[i]) => Due(timed[i])'
  <2>1. \A i \in DOMAIN timed : timed[i].due \in Nat
    <3>1. \A i \in DOMAIN timed : timed[i] \in TimedEvents
      BY Element DEF OwedInv, IInv, Numbered
    <3> QED
      BY <3>1 DEF TimedEvents
  <2> QED
    BY <1>1, <2>1 DEF Due
<1>3. phase = "timed" => \A i \in scan .. scan + left - 1 : i \in DOMAIN timed
  BY DEF OwedInv, IInv, Numbered, LeftIsThere
<1>4. \A e : Ahead(e) => Ahead(e)'
  BY <1>1, <1>2, <1>3, SMTT(30), ZenonT(30) DEF Ahead, Pending
<1> QED
  BY <1>1, <1>4 DEF OwedInv, OwedAhead, GrownAreRisked, Settled

LEMMA BeginUpdateOwed == ASSUME OwedInv, BeginUpdate PROVE (OwedAhead /\ GrownAreRisked)'
<1>1. /\ phase' = "standard" /\ owed' = OwedNow
      /\ UNCHANGED <<queued, timed, actions, operations, now, handled, risked>>
  BY DEF BeginUpdate, timing, deferral
<1>2. \A e \in OwedNow : Ahead(e)'
  BY <1>1 DEF OwedNow, Ahead, Pending, Due
<1> QED
  BY <1>1, <1>2 DEF OwedAhead, GrownAreRisked

LEMMA DispatchOwed == ASSUME OwedInv, Dispatch PROVE (OwedAhead /\ GrownAreRisked)'
<1>1. PICK t \in Types : t = TypeOrder[pool]
  BY DEF OwedInv, IInv, Numbered
<1> DEFINE q == queued[phase][t]
<1>2. /\ phase \in Dispatchers /\ q # <<>> /\ q \in Seq(Issued)
      /\ queued' = [queued EXCEPT ![phase][t] = Tail(@)] /\ handled' = handled \cup {Head(q)}
      /\ queued \in [Dispatchers -> [Types -> Seq(Issued)]]
      /\ UNCHANGED <<phase, timed, actions, operations, now, owed, risked>>
  BY <1>1, SMTT(30), ZenonT(30) DEF Dispatch, OwedInv, IInv, Numbered, LeftIsThere, timing, deferral
<1>3. Members(q) \subseteq Members(Tail(q)) \cup {Head(q)}
  BY <1>2, MembersOfTail
<1>4. \A d \in Dispatchers : Pending(d) \subseteq Pending(d)' \cup {Head(q)}
  <2> SUFFICES ASSUME NEW d \in Dispatchers, NEW e \in Pending(d), e # Head(q) PROVE e \in Pending(d)'
    OBVIOUS
  <2>1. PICK u \in Types : e \in Members(queued[d][u])
    BY DEF Pending
  <2>2. e \in Members(queued'[d][u])
    <3>1. CASE d = phase /\ u = t
      BY <1>2, <1>3, <2>1, <3>1, ZenonT(60)
    <3>2. CASE ~(d = phase /\ u = t)
      BY <1>2, <2>1, <3>2
    <3> QED
      BY <3>1, <3>2
  <2> QED
    BY <2>2 DEF Pending
<1>5. \A e : Ahead(e) /\ e # Head(q) => Ahead(e)'
  BY <1>2, <1>4 DEF Ahead, Due
<1> QED
  BY <1>2, <1>5 DEF OwedInv, OwedAhead, GrownAreRisked, Settled

LEMMA EndStandardOwed == ASSUME OwedInv, EndStandard PROVE (OwedAhead /\ GrownAreRisked)'
<1>1. /\ phase = "standard" /\ phase' = "timed" /\ scan' = 1 /\ left' = Len(timed) /\ grown' = FALSE
      /\ UNCHANGED <<queued, timed, actions, operations, now, handled, owed, risked>>
  BY DEF EndStandard, deferral, history
<1>2. Pending("standard") = {}
  <2>1. \A t \in Types : queued["standard"][t] = <<>>
    BY <1>1, AllPublished DEF OwedInv, EndStandard
  <2> QED
    BY <2>1 DEF Pending, Members
<1>3. \A i \in DOMAIN timed : i \in scan' .. scan' + left' - 1
  BY <1>1 DEF OwedInv, IInv, Numbered
<1>4. \A e : Ahead(e) => Ahead(e)'
  BY ONLY <1>1, <1>2, <1>3, SMTT(30), ZenonT(60) DEF Ahead, Pending, Due
<1> QED
  BY <1>1, <1>4 DEF OwedInv, OwedAhead, GrownAreRisked, Settled

(* A due event that a grown vector drops was put at risk when it grew. *)
LEMMA TimedStepOwed == ASSUME OwedInv, TimedStep PROVE (OwedAhead /\ GrownAreRisked)'
<1>1. /\ phase = "timed" /\ phase' = "timed" /\ scan' = scan + 1 /\ left' = left - 1
      /\ scan \in Nat /\ left \in Nat /\ left > 0 /\ scan \in DOMAIN timed
      /\ UNCHANGED <<queued, timed, grown, actions, operations, now, owed, risked>>
  BY DEF TimedStep, OwedInv, IInv, Numbered, LeftIsThere, deferral
<1>2. \A i \in scan .. scan + left - 1 : i = scan \/ i \in scan' .. scan' + left' - 1
  BY <1>1
<1>3. Due(timed[scan]) => timed[scan].id \in Settled'
  BY <1>1 DEF TimedStep, OwedInv, GrownAreRisked, TimedIds, Settled
<1>4. Settled \subseteq Settled'
  BY <1>1 DEF TimedStep, Settled
<1>5. \A e : Ahead(e) => Ahead(e)' \/ e \in Settled'
  BY <1>1, <1>2, <1>3, ZenonT(30), SMTT(30) DEF Ahead, Pending, Due
<1>6. OwedAhead'
  BY <1>1, <1>4, <1>5 DEF OwedInv, OwedAhead
<1> QED
  BY <1>1, <1>6 DEF OwedInv, GrownAreRisked

(* After the timers, nothing timed is owed any more. *)
LEMMA EndTimedOwed == ASSUME OwedInv, EndTimed PROVE (OwedAhead /\ GrownAreRisked)'
<1>1. /\ phase = "timed" /\ phase' = "forwarding" /\ left = 0 /\ scan \in Nat
      /\ UNCHANGED <<queued, actions, operations, now, handled, owed, risked>>
  BY DEF EndTimed, OwedInv, IInv, Numbered, deferral, history
<1>2. \A e : Ahead(e) => Ahead(e)'
  BY <1>1, SMTT(30), ZenonT(30) DEF Ahead, Pending
<1> QED
  BY <1>1, <1>2 DEF OwedInv, OwedAhead, GrownAreRisked, Settled

LEMMA LateStepsOwed ==
  ASSUME OwedInv, EndForwarding \/ EndSystems \/ EndService \/ EndUpdate
  PROVE  (OwedAhead /\ GrownAreRisked)'
<1>1. /\ phase' # "timed"
      /\ UNCHANGED <<queued, actions, now, handled, owed, risked>>
      /\ actions \in Seq(Issued) /\ operations \in Seq(Issued)
  BY DEF EndForwarding, EndSystems, EndService, EndUpdate, published, deferral, history,
     OwedInv, IInv, Numbered
<1>2. CASE EndForwarding
  <2>1. phase = "forwarding" /\ phase' = "systems" /\ operations' = operations
    BY <1>2 DEF EndForwarding, deferral
  <2>2. Pending("forwarding") = {}
    <3>1. \A t \in Types : queued["forwarding"][t] = <<>>
      BY <1>2, <2>1, AllPublished DEF OwedInv, EndForwarding
    <3> QED
      BY <3>1 DEF Pending, Members
  <2> QED
    BY <1>1, <2>1, <2>2 DEF Ahead, OwedInv, OwedAhead, GrownAreRisked, Settled
<1>3. CASE EndSystems
  <2>1. phase = "systems" /\ phase' = "service" /\ operations' = operations /\ left' = Len(actions)
    BY <1>3 DEF EndSystems, deferral
  <2>2. \A e \in Members(actions) : \E i \in 1 .. left' : actions[i] = e
    BY <1>1, <2>1 DEF Members
  <2> QED
    BY <1>1, <2>1, <2>2 DEF Ahead, OwedInv, OwedAhead, GrownAreRisked, Settled
<1>4. CASE EndService
  <2>1. /\ phase = "service" /\ left = 0 /\ phase' = "deferred" /\ operations' = operations
        /\ left' = Len(operations)
    BY <1>4 DEF EndService, deferral
  <2>2. \A e \in Members(operations) :
          \E i \in Len(operations) - left' + 1 .. Len(operations) : operations[i] = e
    BY <1>1, <2>1 DEF Members
  <2> QED
    BY <1>1, <2>1, <2>2 DEF Ahead, OwedInv, OwedAhead, GrownAreRisked, Settled
<1>5. CASE EndUpdate
  <2>1. phase = "deferred" /\ left = 0
    BY <1>5 DEF EndUpdate
  <2>2. \A e : ~Ahead(e)
    BY <1>1, <2>1 DEF Ahead
  <2> QED
    BY <1>1, <2>2 DEF OwedInv, OwedAhead, GrownAreRisked, Settled
<1> QED
  BY <1>2, <1>3, <1>4, <1>5

LEMMA RunOwed == ASSUME OwedInv, RunAction \/ RunOperation PROVE (OwedAhead /\ GrownAreRisked)'
<1>1. CASE RunAction
  <2>1. /\ phase = "service" /\ phase' = "service" /\ left \in Nat /\ left > 0 /\ left' = left - 1
        /\ actions \in Seq(Issued) /\ left <= Len(actions)
        /\ actions' = Tail(actions) /\ handled' = handled \cup {Head(actions)}
        /\ UNCHANGED <<queued, operations, owed, risked>>
    BY <1>1 DEF RunAction, OwedInv, IInv, Numbered, LeftIsThere
  <2>2. \A i \in 1 .. left : i = 1 \/ (i - 1 \in 1 .. left' /\ Tail(actions)[i - 1] = actions[i])
    <3> SUFFICES ASSUME NEW i \in 1 .. left, i # 1
                 PROVE  i - 1 \in 1 .. left' /\ Tail(actions)[i - 1] = actions[i]
      OBVIOUS
    <3>1. i - 1 \in 1 .. left'
      BY <2>1
    <3>2. i - 1 \in 1 .. Len(Tail(actions))
      BY <2>1
    <3> QED
      BY <2>1, <3>1, <3>2, HeadTailProperties
  <2>3. Head(actions) = actions[1]
    BY <2>1
  <2>4. \A e : Ahead(e) => Ahead(e)' \/ e \in handled'
    BY ONLY <2>1, <2>2, <2>3, ZenonT(30), SMTT(60) DEF Ahead
  <2> QED
    BY <2>1, <2>4 DEF OwedInv, OwedAhead, GrownAreRisked, Settled
<1>2. CASE RunOperation
  <2>1. /\ phase = "deferred" /\ phase' = "deferred" /\ left \in Nat /\ left > 0 /\ left' = left - 1
        /\ operations \in Seq(Issued) /\ left <= Len(operations) /\ operations' = operations
        /\ handled' = handled \cup {operations[Len(operations) - left + 1]}
        /\ UNCHANGED <<owed, risked>>
    BY <1>2 DEF RunOperation, OwedInv, IInv, Numbered, LeftIsThere, deferral
  <2>2. \A e : Ahead(e) => Ahead(e)' \/ e \in handled'
    BY <2>1 DEF Ahead
  <2> QED
    BY <2>1, <2>2 DEF OwedInv, OwedAhead, GrownAreRisked, Settled
<1> QED
  BY <1>1, <1>2

LEMMA RestOwed == ASSUME OwedInv, NextPool \/ UNCHANGED vars PROVE (OwedAhead /\ GrownAreRisked)'
<1>1. phase = "timed" \/ phase = "service" \/ phase = "deferred" => left' = left
  BY DEF NextPool, vars, published
<1>2. UNCHANGED <<phase, queued, timed, scan, grown, actions, operations, now, handled, owed, risked>>
  BY DEF NextPool, vars, published, timing, deferral, history
<1>3. \A e : Ahead(e) => Ahead(e)'
  BY <1>1, <1>2 DEF Ahead, Pending, Due
<1> QED
  BY <1>2, <1>3 DEF OwedInv, OwedAhead, GrownAreRisked, Settled

LEMMA OwedStep == ASSUME OwedInv, [Next]_vars PROVE OwedInv'
<1>1. IInv'
  BY StepInv DEF OwedInv
<1>2. (OwedAhead /\ GrownAreRisked)'
  BY QueueEventOwed, QueueTimedEventOwed, DeferOwed, TickOwed, BeginUpdateOwed, DispatchOwed,
     EndStandardOwed, TimedStepOwed, EndTimedOwed, LateStepsOwed, RunOwed, RestOwed
     DEF Next, UpdateStep
<1> QED
  BY <1>1, <1>2 DEF OwedInv

(* An update handles all that waited when it began and all that its first   *)
(* handlers queued, except for timed events that a growing vector put at    *)
(* risk (service.cpp: update, update_timed_events).                         *)
THEOREM OwedHandled == Spec => []OwedAreHandled
<1>1. Init => OwedInv
  BY InitInv DEF Init, OwedInv, OwedAhead, GrownAreRisked
<1>2. OwedInv /\ [Next]_vars => OwedInv'
  BY OwedStep
<1>3. OwedInv => OwedAreHandled
  BY DEF OwedInv, OwedAhead, OwedAreHandled, Settled
<1> QED
  BY <1>1, <1>2, <1>3, PTL DEF Spec
-----------------------------------------------------------------------------
(* No event is lost and none handled twice: at any time an event number is *)
(* in one place at most, and what was handled is in none, except for what  *)
(* remove_if and the loop over the operations are about to drop.           *)
HIDE DEF Dispatchers, Types, Phases

InQueues == Pending("standard") \cup Pending("forwarding")
Distinct(s) == \A i, j \in DOMAIN s : s[i] = s[j] => i = j
DistinctIds(s) == \A i, j \in DOMAIN s : s[i].id = s[j].id => i = j

(* An event is in one queue, once. *)
QueuedOnce ==
  \A d1, d2 \in Dispatchers : \A t1, t2 \in Types :
    \A i \in DOMAIN queued[d1][t1], j \in DOMAIN queued[d2][t2] :
      queued[d1][t1][i] = queued[d2][t2][j] => d1 = d2 /\ t1 = t2 /\ i = j

(* An event waits in one place. *)
OnePlace ==
  /\ QueuedOnce /\ Distinct(actions) /\ Distinct(operations) /\ DistinctIds(timed)
  /\ InQueues \cap (Members(actions) \cup Members(operations) \cup TimedIds(timed)) = {}
  /\ Members(actions) \cap (Members(operations) \cup TimedIds(timed)) = {}
  /\ Members(operations) \cap TimedIds(timed) = {}

(* Of the timed events, those that remove_if passed are kept or were handled. *)
Scanned ==
  /\ \A i \in scan .. Len(timed) : timed[i].id \notin handled
  /\ \A i \in DOMAIN kept : kept[i].id \notin handled /\ \E j \in 1 .. scan - 1 : kept[i] = timed[j]
  /\ DistinctIds(kept)
  /\ \A i \in 1 .. scan - 1 : timed[i].id \in TimedIds(kept) \cup handled \cup risked
  /\ ~grown => scan + left = Len(timed) + 1

(* Of the operations, those that the loop passed were handled. *)
Performed ==
  \A i \in DOMAIN operations : operations[i] \in handled <=> i <= Len(operations) - left

HandledIsGone ==
  /\ handled \cap (InQueues \cup Members(actions)) = {}
  /\ phase # "timed" => handled \cap TimedIds(timed) = {}
  /\ phase # "deferred" => handled \cap Members(operations) = {}
  /\ phase = "timed" => Scanned
  /\ phase = "deferred" => Performed

Accounted == Issued \subseteq Waiting \cup handled \cup risked

LossInv == OwedInv /\ OnePlace /\ HandledIsGone /\ Accounted

LEMMA QueueOf ==
  /\ \A e : e \in InQueues <=> \E d \in Dispatchers : \E t \in Types : e \in Members(queued[d][t])
  /\ \A e : e \in InQueues' <=> \E d \in Dispatchers : \E t \in Types : e \in Members(queued'[d][t])
<1>1. \A e, d : e \in Pending(d) <=> \E t \in Types : e \in Members(queued[d][t])
  BY DEF Pending
<1>2. \A e, d : e \in Pending(d)' <=> \E t \in Types : e \in Members(queued'[d][t])
  BY DEF Pending
<1> QED
  BY <1>1, <1>2 DEF InQueues, Dispatchers

LEMMA WaitingIsIssued ==
  ASSUME Numbered
  PROVE  /\ InQueues \subseteq Issued /\ Members(actions) \subseteq Issued
         /\ Members(operations) \subseteq Issued /\ TimedIds(timed) \subseteq Issued
<1>1. \A d \in Dispatchers : \A t \in Types : Members(queued[d][t]) \subseteq Issued
  <2> SUFFICES ASSUME NEW d \in Dispatchers, NEW t \in Types
               PROVE  \A i \in DOMAIN queued[d][t] : queued[d][t][i] \in Issued
    BY DEF Members
  <2>1. queued[d][t] \in Seq(Issued)
    BY DEF Numbered
  <2> QED
    BY <2>1, Element
<1>2. \A i \in DOMAIN timed : timed[i].id \in Issued
  <2>1. \A i \in DOMAIN timed : timed[i] \in TimedEvents
    BY Element DEF Numbered
  <2> QED
    BY <2>1 DEF TimedEvents
<1>3. Members(actions) \subseteq Issued /\ Members(operations) \subseteq Issued
  BY Element DEF Numbered, Members
<1>4. InQueues \subseteq Issued
  BY <1>1, QueueOf
<1> QED
  BY <1>2, <1>3, <1>4 DEF TimedIds

LEMMA NewIsNowhere == ASSUME Numbered PROVE nextId \notin Issued
  BY DEF Numbered, Issued

LEMMA AppendDistinct ==
  ASSUME NEW S, NEW s \in Seq(S), NEW e, e \notin Members(s), Distinct(s)
  PROVE  Distinct(Append(s, e)) /\ Members(Append(s, e)) = Members(s) \cup {e}
<1>1. DOMAIN Append(s, e) = DOMAIN s \cup {Len(s) + 1} /\ Len(s) + 1 \notin DOMAIN s
  OBVIOUS
<1>2. (\A i \in DOMAIN s : Append(s, e)[i] = s[i]) /\ Append(s, e)[Len(s) + 1] = e
  OBVIOUS
<1>3. \A i \in DOMAIN s : s[i] # e
  BY DEF Members
<1>4. Distinct(Append(s, e))
  BY <1>1, <1>2, <1>3 DEF Distinct
<1> QED
  BY <1>1, <1>2, <1>4 DEF Members

LEMMA TailDistinct ==
  ASSUME NEW S, NEW s \in Seq(S), s # <<>>, Distinct(s)
  PROVE  Distinct(Tail(s)) /\ Members(Tail(s)) = Members(s) \ {Head(s)}
<1>1. /\ Len(s) \in Nat \ {0} /\ DOMAIN s = 1 .. Len(s) /\ DOMAIN Tail(s) = 1 .. Len(s) - 1
      /\ Head(s) = s[1]
  OBVIOUS
<1>2. \A i \in DOMAIN Tail(s) : Tail(s)[i] = s[i + 1] /\ i + 1 \in DOMAIN s /\ i + 1 # 1
  BY <1>1, HeadTailProperties
<1>3. Distinct(Tail(s))
  BY <1>1, <1>2 DEF Distinct
<1>4. ASSUME NEW i \in DOMAIN s, i # 1 PROVE i - 1 \in DOMAIN Tail(s) /\ Tail(s)[i - 1] = s[i]
  <2>1. i - 1 \in DOMAIN Tail(s) /\ (i - 1) + 1 = i
    BY <1>1, <1>4
  <2> QED
    BY <1>2, <2>1
<1>5. Members(s) \ {Head(s)} \subseteq Members(Tail(s))
  <2> SUFFICES ASSUME NEW i \in DOMAIN s, s[i] # Head(s) PROVE s[i] \in Members(Tail(s))
    BY DEF Members
  <2>1. i - 1 \in DOMAIN Tail(s) /\ Tail(s)[i - 1] = s[i]
    BY <1>1, <1>4
  <2> QED
    BY <2>1 DEF Members
<1>6. Members(Tail(s)) \subseteq Members(s) \ {Head(s)}
  BY <1>1, <1>2 DEF Distinct, Members
<1> QED
  BY <1>3, <1>5, <1>6
-----------------------------------------------------------------------------
(* The queues. *)

LEMMA QueueEventQueues ==
  ASSUME LossInv, NEW t \in Types, QueueEvent(t)
  PROVE  QueuedOnce' /\ InQueues' = InQueues \cup {nextId}
<1>1. /\ active \in Dispatchers /\ queued \in [Dispatchers -> [Types -> Seq(Issued)]]
      /\ queued' = [queued EXCEPT ![active][t] = Append(@, nextId)]
  BY DEF LossInv, OwedInv, IInv, Numbered, QueueEvent
<1> DEFINE q == queued[active][t]
           n == Len(q) + 1
<1>2. /\ queued'[active][t] = Append(q, nextId) /\ q \in Seq(Issued)
      /\ \A d \in Dispatchers : \A u \in Types : d # active \/ u # t => queued'[d][u] = queued[d][u]
  BY <1>1
<1>3. /\ DOMAIN Append(q, nextId) = DOMAIN q \cup {n} /\ n \notin DOMAIN q
      /\ Append(q, nextId)[n] = nextId /\ \A i \in DOMAIN q : Append(q, nextId)[i] = q[i]
  BY ONLY <1>2, SMTT(60)
<1>4. \A d \in Dispatchers : \A u \in Types : \A i \in DOMAIN queued[d][u] : queued[d][u][i] # nextId
  <2>1. InQueues \subseteq Issued /\ nextId \notin Issued
    BY WaitingIsIssued, NewIsNowhere DEF LossInv, OwedInv, IInv
  <2> QED
    BY <2>1, QueueOf DEF Members
<1> HIDE DEF q, n
<1>5. \A d \in Dispatchers : \A u \in Types : \A i \in DOMAIN queued'[d][u] :
        \/ d = active /\ u = t /\ i = n /\ queued'[d][u][i] = nextId
        \/ i \in DOMAIN queued[d][u] /\ queued'[d][u][i] = queued[d][u][i]
  BY ONLY <1>2, <1>3, SMTT(30), ZenonT(60) DEF q
<1>6. QueuedOnce'
  BY <1>4, <1>5 DEF LossInv, OnePlace, QueuedOnce
<1>7. \A d \in Dispatchers : \A u \in Types :
        Members(queued'[d][u]) = IF d = active /\ u = t THEN Members(queued[d][u]) \cup {nextId}
                                                      ELSE Members(queued[d][u])
  <2>1. Members(Append(q, nextId)) = Members(q) \cup {nextId}
    BY <1>3 DEF Members
  <2> QED
    BY <1>2, <2>1 DEF q
<1>8. InQueues' = InQueues \cup {nextId}
  <2>3. \A e : e \in InQueues' <=> e \in InQueues \/ e = nextId
    <3>1. nextId \in InQueues'
      <4>1. t \in Types /\ active \in Dispatchers /\ nextId \in Members(queued'[active][t])
        BY <1>1, <1>7
      <4> QED
        BY <4>1, QueueOf
    <3>2. ASSUME NEW e \in InQueues PROVE e \in InQueues'
      <4>1. PICK d \in Dispatchers, u \in Types : e \in Members(queued[d][u])
        BY <3>2, QueueOf
      <4>2. e \in Members(queued'[d][u])
        BY <1>7, <4>1
      <4> QED
        BY <4>2, QueueOf
    <3>3. ASSUME NEW e \in InQueues', e # nextId PROVE e \in InQueues
      <4>1. PICK d \in Dispatchers, u \in Types : e \in Members(queued'[d][u])
        BY QueueOf
      <4>2. e \in Members(queued[d][u])
        BY <1>7, <3>3, <4>1, ZenonT(30), SMTT(30)
      <4> QED
        BY <4>2, QueueOf
    <3> QED
      BY <3>1, <3>2, <3>3
  <2> QED
    BY <2>3
<1> QED
  BY <1>6, <1>8

LEMMA DispatchQueues ==
  ASSUME LossInv, Dispatch
  PROVE  /\ QueuedOnce'
         /\ \E e \in InQueues : InQueues' = InQueues \ {e} /\ handled' = handled \cup {e}
<1>1. PICK t \in Types : t = TypeOrder[pool]
  BY DEF LossInv, OwedInv, IInv, Numbered, Types
<1> DEFINE q == queued[phase][t]
<1>2. /\ phase \in Dispatchers /\ q # <<>> /\ q \in Seq(Issued)
      /\ queued \in [Dispatchers -> [Types -> Seq(Issued)]]
      /\ queued' = [queued EXCEPT ![phase][t] = Tail(@)] /\ handled' = handled \cup {Head(q)}
  BY <1>1 DEF Dispatch, LossInv, OwedInv, IInv, Numbered, LeftIsThere
<1>3. /\ queued'[phase][t] = Tail(q)
      /\ \A d \in Dispatchers : \A u \in Types : d # phase \/ u # t => queued'[d][u] = queued[d][u]
  BY <1>2
<1>10. QueuedOnce
  BY DEF LossInv, OnePlace
<1>4. Distinct(q)
  BY <1>2, <1>10 DEF QueuedOnce, Distinct
<1>5. \A i \in DOMAIN Tail(q) : i + 1 \in DOMAIN q /\ Tail(q)[i] = q[i + 1] /\ i \in Int
  BY <1>2
<1>6. Members(Tail(q)) = Members(q) \ {Head(q)} /\ Head(q) = q[1] /\ 1 \in DOMAIN q
  BY <1>2, <1>4, TailDistinct
<1> HIDE DEF q
<1>7. QueuedOnce'
  <2>1. \A d \in Dispatchers : \A u \in Types : \A i \in DOMAIN queued'[d][u] :
          IF d = phase /\ u = t
          THEN i \in Int /\ i + 1 \in DOMAIN queued[d][u] /\ queued'[d][u][i] = queued[d][u][i + 1]
          ELSE i \in DOMAIN queued[d][u] /\ queued'[d][u][i] = queued[d][u][i]
    BY <1>3, <1>5, ZenonT(60) DEF q
  <2> QED
    BY ONLY <1>10, <2>1, SMTT(60) DEF QueuedOnce
<1>8. Head(q) \in InQueues
  <2>1. Head(q) \in Members(queued[phase][t])
    BY <1>6 DEF Members, q
  <2> QED
    BY <1>2, <2>1, QueueOf
<1>9. InQueues' = InQueues \ {Head(q)}
  <2>3. \A d \in Dispatchers : \A u \in Types :
          d # phase \/ u # t => Head(q) \notin Members(queued[d][u])
    BY <1>2, <1>6, <1>10 DEF QueuedOnce, Members, q
  <2>4. \A d \in Dispatchers : \A u \in Types :
          Members(queued'[d][u]) = Members(queued[d][u]) \ {Head(q)}
    BY <1>3, <1>6, <2>3 DEF q
  <2>5. ASSUME NEW e PROVE e \in InQueues' <=> e \in InQueues /\ e # Head(q)
    <3>1. e \in InQueues' <=> \E d \in Dispatchers : \E u \in Types : e \in Members(queued'[d][u])
      BY QueueOf
    <3>2. e \in InQueues <=> \E d \in Dispatchers : \E u \in Types : e \in Members(queued[d][u])
      BY QueueOf
    <3>3. \A d \in Dispatchers : \A u \in Types :
            e \in Members(queued'[d][u]) <=> e \in Members(queued[d][u]) /\ e # Head(q)
      BY <2>4
    <3> QED
      BY <3>1, <3>2, <3>3
  <2> QED
    BY <2>5
<1> QED
  BY <1>2, <1>7, <1>8, <1>9 DEF q

LEMMA SameQueues == ASSUME LossInv, queued' = queued PROVE QueuedOnce' /\ InQueues' = InQueues
  BY DEF LossInv, OnePlace, QueuedOnce, InQueues, Pending
-----------------------------------------------------------------------------
(* The steps. *)

Losses == OnePlace /\ HandledIsGone /\ Accounted

LEMMA QueueEventLoss == ASSUME LossInv, NEW t \in Types, QueueEvent(t) PROVE Losses'
<1>1. /\ UNCHANGED <<phase, left, timed, scan, kept, grown, actions, operations, handled, risked>>
      /\ nextId' = nextId + 1 /\ nextId \in Nat \ {0}
  BY DEF QueueEvent, NewEvent, timing, deferral, LossInv, OwedInv, IInv, Numbered
<1>2. QueuedOnce' /\ InQueues' = InQueues \cup {nextId}
  BY QueueEventQueues
<1>3. /\ nextId \notin Members(actions) /\ nextId \notin Members(operations)
      /\ nextId \notin TimedIds(timed) /\ nextId \notin handled
  BY WaitingIsIssued, NewIsNowhere DEF LossInv, OwedInv, IInv, Numbered
<1>4. OnePlace'
  BY <1>1, <1>2, <1>3 DEF LossInv, OnePlace
<1>5. HandledIsGone'
  BY <1>1, <1>2, <1>3 DEF LossInv, HandledIsGone, Scanned, Performed
<1>6. Accounted'
  <2>1. Issued' = Issued \cup {nextId}
    BY <1>1 DEF Issued
  <2>2. Waiting' = Waiting \cup {nextId}
    BY <1>1, <1>2 DEF Waiting, InQueues
  <2> QED
    BY <1>1, <2>1, <2>2 DEF LossInv, Accounted
<1> QED
  BY <1>4, <1>5, <1>6 DEF Losses

LEMMA QueueTimedEventLoss ==
  ASSUME LossInv, NEW delay \in Delays, QueueTimedEvent(delay)
  PROVE  Losses'
<1> DEFINE e == [id |-> nextId, due |-> now + delay]
<1>1. /\ UNCHANGED <<phase, left, scan, kept, queued, actions, operations, handled>>
      /\ timed' = Append(timed, e) /\ nextId' = nextId + 1 /\ nextId \in Nat \ {0}
      /\ timed \in Seq(TimedEvents) /\ left \in Nat /\ scan \in Nat \ {0}
  BY DEF QueueTimedEvent, NewEvent, published, deferral, LossInv, OwedInv, IInv, Numbered
<1>2. QueuedOnce' /\ InQueues' = InQueues
  BY <1>1, SameQueues
<1>3. /\ nextId \notin Members(actions) /\ nextId \notin Members(operations)
      /\ nextId \notin TimedIds(timed) /\ nextId \notin handled /\ nextId \notin InQueues
  BY WaitingIsIssued, NewIsNowhere DEF LossInv, OwedInv, IInv, Numbered
<1>4. /\ Len(timed') = Len(timed) + 1 /\ Len(timed) \in Nat
      /\ DOMAIN timed = 1 .. Len(timed) /\ DOMAIN timed' = 1 .. Len(timed) + 1
      /\ \A i \in DOMAIN timed : timed'[i] = timed[i]
      /\ timed'[Len(timed) + 1] = e
  BY <1>1
<1>5. TimedIds(timed') = TimedIds(timed) \cup {nextId}
  <2>1. DOMAIN timed' = DOMAIN timed \cup {Len(timed) + 1} /\ e.id = nextId
    BY <1>4
  <2> QED
    BY ONLY <1>4, <2>1, SMTT(60) DEF TimedIds
<1>6. DistinctIds(timed')
  <2>1. \A i \in DOMAIN timed : timed[i].id # nextId
    BY <1>3 DEF TimedIds
  <2>2. \A i \in DOMAIN timed' : i \in DOMAIN timed \/ i = Len(timed) + 1
    BY <1>4
  <2>3. DistinctIds(timed)
    BY DEF LossInv, OnePlace
  <2> QED
    BY <1>4, <2>1, <2>2, <2>3 DEF DistinctIds
<1>7. OnePlace'
  BY <1>1, <1>2, <1>3, <1>5, <1>6 DEF LossInv, OnePlace
<1>8. phase = "timed" => Scanned'
  <2> SUFFICES ASSUME phase = "timed" PROVE Scanned'
    OBVIOUS
  <2>1. Scanned /\ grown' = TRUE /\ risked' = risked \cup TimedIds(timed')
    BY DEF LossInv, HandledIsGone, QueueTimedEvent
  <2>2. scan + left <= Len(timed) + 1
    BY DEF LossInv, OwedInv, IInv, LeftIsThere
  <2>3. \A i \in 1 .. scan - 1 : i \in DOMAIN timed
    BY <1>1, <1>4, <2>2
  <2>4. \A i \in scan .. Len(timed') : timed'[i].id \notin handled
    <3>1. \A i \in scan .. Len(timed') : i \in scan .. Len(timed) \/ i = Len(timed) + 1
      BY <1>1, <1>4
    <3>2. \A i \in scan .. Len(timed) : i \in DOMAIN timed
      BY <1>1, <1>4
    <3>3. e.id = nextId
      OBVIOUS
    <3> QED
      BY <1>3, <1>4, <2>1, <3>1, <3>2, <3>3 DEF Scanned
  <2>5. \A i \in DOMAIN kept : kept[i].id \notin handled /\ \E j \in 1 .. scan - 1 : kept[i] = timed'[j]
    BY <1>4, <2>1, <2>3, SMTT(30), ZenonT(30) DEF Scanned
  <2>6. \A i \in 1 .. scan - 1 : timed'[i].id \in TimedIds(kept) \cup handled \cup risked'
    BY <1>4, <2>1, <2>3 DEF Scanned
  <2> QED
    BY <1>1, <2>1, <2>4, <2>5, <2>6 DEF Scanned
<1>9. HandledIsGone'
  BY <1>1, <1>2, <1>3, <1>5, <1>8 DEF LossInv, HandledIsGone, Performed
<1>10. Accounted'
  <2>1. Issued' = Issued \cup {nextId}
    BY <1>1 DEF Issued
  <2>2. Waiting' = Waiting \cup {nextId}
    BY <1>1, <1>5, SMTT(30), ZenonT(30) DEF Waiting, Pending
  <2>3. risked \subseteq risked'
    BY DEF QueueTimedEvent
  <2> QED
    BY <1>1, <2>1, <2>2, <2>3 DEF LossInv, Accounted
<1> QED
  BY <1>7, <1>9, <1>10 DEF Losses

LEMMA DeferLoss == ASSUME LossInv, Defer \/ Later PROVE Losses'
<1>1. nextId' = nextId + 1 /\ nextId \in Nat \ {0} /\ actions \in Seq(Issued) /\ operations \in Seq(Issued)
  BY DEF Defer, Later, NewEvent, LossInv, OwedInv, IInv, Numbered
<1>2. UNCHANGED <<phase, left, queued, timed, scan, kept, grown, handled, risked>>
  BY DEF Defer, Later, published, timing, history
<1>3. \/ actions' = Append(actions, nextId) /\ operations' = operations
      \/ actions' = actions /\ operations' = Append(operations, nextId) /\ phase # "deferred"
  BY DEF Defer, Later
<1>4. QueuedOnce' /\ InQueues' = InQueues
  BY <1>2, SameQueues
<1>5. /\ nextId \notin Members(actions) /\ nextId \notin Members(operations)
      /\ nextId \notin TimedIds(timed) /\ nextId \notin handled /\ nextId \notin InQueues
  BY WaitingIsIssued, NewIsNowhere DEF LossInv, OwedInv, IInv, Numbered
<1>6. /\ Distinct(actions') /\ Distinct(operations')
      /\ \/ Members(actions') = Members(actions) \cup {nextId} /\ Members(operations') = Members(operations)
         \/ /\ Members(actions') = Members(actions) /\ phase # "deferred"
            /\ Members(operations') = Members(operations) \cup {nextId}
  <2>1. /\ Distinct(Append(actions, nextId)) /\ Distinct(actions)
        /\ Members(Append(actions, nextId)) = Members(actions) \cup {nextId}
    BY <1>1, <1>5, AppendDistinct DEF LossInv, OnePlace
  <2>2. /\ Distinct(Append(operations, nextId)) /\ Distinct(operations)
        /\ Members(Append(operations, nextId)) = Members(operations) \cup {nextId}
    BY <1>1, <1>5, AppendDistinct DEF LossInv, OnePlace
  <2> QED
    BY <1>3, <2>1, <2>2
<1>7. OnePlace'
  BY <1>2, <1>4, <1>5, <1>6 DEF LossInv, OnePlace
<1>8. HandledIsGone'
  <2>1. phase = "deferred" => operations' = operations
    BY <1>3
  <2> QED
    BY <1>2, <1>4, <1>5, <1>6, <2>1 DEF LossInv, HandledIsGone, Scanned, Performed
<1>9. Accounted'
  <2>1. Issued' = Issued \cup {nextId}
    BY <1>1 DEF Issued
  <2>2. Waiting' = Waiting \cup {nextId}
    BY <1>2, <1>6 DEF Waiting, Pending
  <2> QED
    BY <1>2, <2>1, <2>2 DEF LossInv, Accounted
<1> QED
  BY <1>7, <1>8, <1>9 DEF Losses

(* Steps that move no event: the lists stay, and no phase with a loop of   *)
(* its own begins or ends.                                                 *)
LEMMA IdleLoss ==
  ASSUME LossInv, UNCHANGED <<queued, timed, actions, operations, handled, risked, nextId>>,
         phase' = "timed" => phase = "timed" /\ UNCHANGED <<scan, kept, grown, left>>,
         phase' = "deferred" => phase = "deferred" /\ UNCHANGED left,
         phase = "timed" => phase' = "timed",
         phase = "deferred" => phase' = "deferred"
  PROVE  Losses'
<1>1. QueuedOnce' /\ InQueues' = InQueues
  BY SameQueues
<1>2. OnePlace'
  BY <1>1 DEF LossInv, OnePlace
<1>3. HandledIsGone'
  BY <1>1 DEF LossInv, HandledIsGone, Scanned, Performed
<1>4. Accounted'
  BY DEF LossInv, Accounted, Waiting, Pending, Issued
<1> QED
  BY <1>2, <1>3, <1>4 DEF Losses

LEMMA QuietStepsLoss ==
  ASSUME LossInv, \/ Tick \/ BeginUpdate \/ NextPool \/ EndForwarding \/ EndSystems \/ UNCHANGED vars
  PROVE  Losses'
<1>1. UNCHANGED <<queued, timed, actions, operations, handled, risked, nextId>>
  BY DEF Tick, BeginUpdate, NextPool, EndForwarding, EndSystems, vars, published, timing, deferral, history
<1>2. \/ phase \notin {"timed", "deferred"} /\ phase' \notin {"timed", "deferred"}
      \/ UNCHANGED <<phase, scan, kept, grown, left>>
  BY DEF Tick, BeginUpdate, NextPool, EndForwarding, EndSystems, vars, published, timing, Dispatchers
<1>3. phase' = "timed" => phase = "timed" /\ UNCHANGED <<scan, kept, grown, left>>
  BY <1>2
<1>4. phase' = "deferred" => phase = "deferred" /\ UNCHANGED left
  BY <1>2
<1>5. (phase = "timed" => phase' = "timed") /\ (phase = "deferred" => phase' = "deferred")
  BY <1>2
<1> QED
  BY <1>1, <1>3, <1>4, <1>5, IdleLoss

LEMMA DispatchLoss == ASSUME LossInv, Dispatch PROVE Losses'
<1>1. QueuedOnce' /\ \E e \in InQueues : InQueues' = InQueues \ {e} /\ handled' = handled \cup {e}
  BY DispatchQueues
<1>2. PICK e \in InQueues : InQueues' = InQueues \ {e} /\ handled' = handled \cup {e}
  BY <1>1
<1>3. /\ phase' = phase /\ phase \notin {"timed", "deferred"}
      /\ UNCHANGED <<timed, actions, operations, risked, nextId>>
  BY DEF Dispatch, timing, deferral, Dispatchers
<1>4. OnePlace'
  BY <1>1, <1>2, <1>3 DEF LossInv, OnePlace
<1>5. HandledIsGone'
  BY <1>2, <1>3 DEF LossInv, OnePlace, HandledIsGone
<1>6. Accounted'
  <2>1. Waiting \subseteq Waiting' \cup {e}
    BY <1>2, <1>3 DEF Waiting, InQueues
  <2> QED
    BY <1>2, <1>3, <2>1 DEF LossInv, Accounted, Issued
<1> QED
  BY <1>4, <1>5, <1>6 DEF Losses

LEMMA EndStandardLoss == ASSUME LossInv, EndStandard PROVE Losses'
<1>1. /\ phase = "standard" /\ phase' = "timed" /\ scan' = 1 /\ kept' = <<>> /\ left' = Len(timed)
      /\ UNCHANGED <<queued, timed, actions, operations, handled, risked, nextId>>
      /\ timed \in Seq(TimedEvents)
  BY DEF EndStandard, deferral, history, LossInv, OwedInv, IInv, Numbered
<1>2. QueuedOnce' /\ InQueues' = InQueues
  BY <1>1, SameQueues
<1>3. OnePlace'
  BY <1>1, <1>2 DEF LossInv, OnePlace
<1>4. Scanned'
  <2>1. DOMAIN kept' = {} /\ Len(timed) \in Nat /\ DOMAIN timed = 1 .. Len(timed)
    BY <1>1
  <2>2. \A i \in 1 .. Len(timed) : timed[i].id \notin handled
    BY <1>1, <2>1, ZenonT(30), SMTT(30) DEF LossInv, HandledIsGone, TimedIds
  <2> QED
    BY <1>1, <2>1, <2>2 DEF Scanned, DistinctIds
<1>5. HandledIsGone'
  BY <1>1, <1>2, <1>4 DEF LossInv, HandledIsGone
<1>6. Accounted'
  BY <1>1 DEF LossInv, Accounted, Waiting, Pending, Issued
<1> QED
  BY <1>3, <1>5, <1>6 DEF Losses

(* The loop over the operations begins with none performed. *)
LEMMA EndServiceLoss == ASSUME LossInv, EndService PROVE Losses'
<1>1. /\ phase = "service" /\ phase' = "deferred" /\ left' = Len(operations)
      /\ UNCHANGED <<queued, timed, actions, operations, handled, risked, nextId>>
      /\ operations \in Seq(Issued)
  BY DEF EndService, deferral, timing, history, LossInv, OwedInv, IInv, Numbered
<1>2. QueuedOnce' /\ InQueues' = InQueues
  BY <1>1, SameQueues
<1>3. OnePlace'
  BY <1>1, <1>2 DEF LossInv, OnePlace
<1>4. Performed'
  BY <1>1 DEF LossInv, HandledIsGone, Members, Performed
<1>5. HandledIsGone'
  BY <1>1, <1>2, <1>4 DEF LossInv, HandledIsGone
<1>6. Accounted'
  BY <1>1 DEF LossInv, Accounted, Waiting, Pending, Issued
<1> QED
  BY <1>3, <1>5, <1>6 DEF Losses

LEMMA RunActionLoss == ASSUME LossInv, RunAction PROVE Losses'
<1>1. /\ phase = "service" /\ phase' = "service" /\ actions' = Tail(actions)
      /\ handled' = handled \cup {Head(actions)} /\ actions \in Seq(Issued) /\ actions # <<>>
      /\ UNCHANGED <<queued, timed, operations, risked, nextId>>
  BY DEF RunAction, timing, LossInv, OwedInv, IInv, Numbered, LeftIsThere
<1>2. QueuedOnce' /\ InQueues' = InQueues
  BY <1>1, SameQueues
<1>3. Distinct(actions') /\ Members(actions') = Members(actions) \ {Head(actions)}
  BY <1>1, TailDistinct DEF LossInv, OnePlace
<1>4. Head(actions) \in Members(actions)
  <2>1. Head(actions) = actions[1] /\ 1 \in DOMAIN actions
    BY <1>1
  <2> QED
    BY <2>1 DEF Members
<1>5. OnePlace'
  BY <1>1, <1>2, <1>3 DEF LossInv, OnePlace
<1>6. HandledIsGone'
  BY <1>1, <1>2, <1>3, <1>4 DEF LossInv, OnePlace, HandledIsGone
<1>7. Accounted'
  <2>1. Waiting \subseteq Waiting' \cup {Head(actions)}
    BY <1>1, <1>3 DEF Waiting, Pending
  <2> QED
    BY <1>1, <2>1 DEF LossInv, Accounted, Issued
<1> QED
  BY <1>5, <1>6, <1>7 DEF Losses

LEMMA RunOperationLoss == ASSUME LossInv, RunOperation PROVE Losses'
<1> DEFINE k == Len(operations) - left + 1
<1>1. /\ phase = "deferred" /\ phase' = "deferred" /\ left' = left - 1 /\ left \in Nat /\ left > 0
      /\ handled' = handled \cup {operations[k]} /\ operations \in Seq(Issued) /\ left <= Len(operations)
      /\ UNCHANGED <<queued, timed, actions, operations, risked, nextId>>
  BY DEF RunOperation, timing, deferral, LossInv, OwedInv, IInv, Numbered, LeftIsThere
<1>2. QueuedOnce' /\ InQueues' = InQueues
  BY <1>1, SameQueues
<1>3. OnePlace'
  BY <1>1, <1>2 DEF LossInv, OnePlace
<1>4. k \in DOMAIN operations /\ k \in Int
  BY <1>1
<1>5. Performed'
  <2>1. Performed /\ Distinct(operations)
    BY <1>1 DEF LossInv, OnePlace, HandledIsGone
  <2>2. \A i \in DOMAIN operations : operations[i] = operations[k] => i = k
    BY <1>4, <2>1 DEF Distinct
  <2> QED
    BY <1>1, <1>4, <2>1, <2>2 DEF Performed
<1>6. HandledIsGone'
  <2>1. operations[k] \in Members(operations)
    BY <1>4 DEF Members
  <2> HIDE DEF k
  <2> QED
    BY <1>1, <1>2, <1>5, <2>1 DEF LossInv, OnePlace, HandledIsGone
<1>7. Accounted'
  BY <1>1, SMTT(60) DEF LossInv, Accounted, Waiting, Pending, Issued
<1> QED
  BY <1>3, <1>6, <1>7 DEF Losses

(* The operations are dropped when all of them were handled. *)
LEMMA EndUpdateLoss == ASSUME LossInv, EndUpdate PROVE Losses'
<1>1. /\ phase = "deferred" /\ phase' = "outside" /\ operations' = <<>> /\ left = 0
      /\ UNCHANGED <<queued, timed, actions, handled, risked, nextId>>
      /\ operations \in Seq(Issued)
  BY DEF EndUpdate, published, timing, history, LossInv, OwedInv, IInv, Numbered
<1>2. QueuedOnce' /\ InQueues' = InQueues
  BY <1>1, SameQueues
<1>3. Distinct(operations') /\ Members(operations') = {}
  BY <1>1 DEF Distinct, Members
<1>4. OnePlace'
  BY <1>1, <1>2, <1>3 DEF LossInv, OnePlace
<1>5. Members(operations) \subseteq handled
  BY <1>1 DEF LossInv, HandledIsGone, Performed, Members
<1>6. HandledIsGone'
  BY <1>1, <1>2, <1>3 DEF LossInv, HandledIsGone
<1>7. Accounted'
  BY <1>1, <1>5 DEF LossInv, Accounted, Waiting, Pending, Issued
<1> QED
  BY <1>4, <1>6, <1>7 DEF Losses

(* remove_if handles the event it looks at, keeps it, or, in a vector that  *)
(* has grown, may drop it: it was put at risk when the vector grew.         *)
LEMMA TimedStepLoss == ASSUME LossInv, TimedStep PROVE Losses'
<1>1. /\ phase = "timed" /\ phase' = "timed" /\ scan' = scan + 1 /\ left' = left - 1
      /\ scan \in Nat \ {0} /\ left \in Nat /\ left > 0
      /\ timed \in Seq(TimedEvents) /\ kept \in Seq(TimedEvents)
      /\ UNCHANGED <<queued, timed, grown, actions, operations, risked, nextId>>
  BY DEF TimedStep, deferral, LossInv, OwedInv, IInv, Numbered
<1>2. scan \in DOMAIN timed /\ DOMAIN timed = 1 .. Len(timed) /\ Len(timed) \in Nat
  BY <1>1 DEF LossInv, OwedInv, IInv, LeftIsThere
<1>3. Scanned /\ DistinctIds(timed)
  BY <1>1 DEF LossInv, OnePlace, HandledIsGone
<1> DEFINE e == timed[scan]
<1>4. \A i \in DOMAIN timed : timed[i].id = e.id => i = scan
  BY <1>2, <1>3 DEF DistinctIds
<1>5. \/ kept' = kept /\ handled' = handled \cup {e.id}
      \/ kept' = kept /\ handled' = handled /\ e.id \in risked
      \/ kept' = Append(kept, e) /\ handled' = handled
  <2>1. e.id \in TimedIds(timed)
    BY <1>2 DEF TimedIds
  <2>2. grown => e.id \in risked
    BY <1>1, <2>1 DEF LossInv, OwedInv, GrownAreRisked
  <2> QED
    BY <2>2 DEF TimedStep
<1>6. e.id \notin handled
  BY <1>1, <1>2, <1>3 DEF Scanned
<1>7. /\ \A i \in 1 .. scan - 1 : i \in DOMAIN timed /\ i # scan
      /\ \A i \in scan + 1 .. Len(timed) : i \in scan .. Len(timed) /\ i # scan /\ i \in DOMAIN timed
      /\ \A i \in 1 .. scan' - 1 : i \in 1 .. scan - 1 \/ i = scan
      /\ \A i \in 1 .. scan - 1 : i \in 1 .. scan' - 1
      /\ scan \in 1 .. scan' - 1
  BY <1>1, <1>2
<1> HIDE DEF e
<1>8. \A i \in DOMAIN kept : kept[i].id # e.id
  BY <1>3, <1>4, <1>7 DEF Scanned
<1>9. /\ DistinctIds(kept') /\ TimedIds(kept) \subseteq TimedIds(kept')
      /\ \A i \in DOMAIN kept' : kept'[i] = e \/ \E j \in DOMAIN kept : kept'[i] = kept[j]
      /\ kept' # kept => e.id \in TimedIds(kept')
      /\ handled' # handled => \A i \in DOMAIN kept' : \E j \in DOMAIN kept : kept'[i] = kept[j]
  <2>1. CASE kept' = kept
    BY <1>3, <2>1 DEF Scanned
  <2>2. CASE kept' = Append(kept, e) /\ handled' = handled
    <3>1. /\ DOMAIN kept' = DOMAIN kept \cup {Len(kept) + 1}
          /\ \A i \in DOMAIN kept : kept'[i] = kept[i]
          /\ kept'[Len(kept) + 1] = e
      BY <1>1, <2>2
    <3> QED
      BY <1>3, <1>8, <2>2, <3>1 DEF Scanned, DistinctIds, TimedIds
  <2> QED
    BY <1>5, <2>1, <2>2
<1>10. Scanned'
  <2>1. \A i \in scan' .. Len(timed') : timed'[i].id \notin handled'
    BY <1>1, <1>3, <1>4, <1>5, <1>7 DEF Scanned
  <2>2. \A i \in DOMAIN kept' : kept'[i].id \notin handled'
    BY <1>3, <1>5, <1>6, <1>8, <1>9 DEF Scanned
  <2>3. \A i \in DOMAIN kept' : \E j \in 1 .. scan' - 1 : kept'[i] = timed'[j]
    BY <1>1, <1>3, <1>7, <1>9 DEF Scanned, e
  <2>4. \A i \in 1 .. scan' - 1 : timed'[i].id \in TimedIds(kept') \cup handled' \cup risked'
    BY <1>1, <1>3, <1>5, <1>7, <1>9 DEF Scanned, e
  <2>5. ~grown' => scan' + left' = Len(timed') + 1
    <3>1. ~grown' => ~grown
      BY <1>1, Zenon
    <3>2. ~grown => scan + left = Len(timed) + 1
      BY <1>3 DEF Scanned
    <3>3. scan' + left' = scan + left /\ timed' = timed
      BY <1>1
    <3> QED
      BY <3>1, <3>2, <3>3
  <2> QED
    BY <1>9, <2>1, <2>2, <2>3, <2>4, <2>5 DEF Scanned
<1>11. QueuedOnce' /\ InQueues' = InQueues
  BY <1>1, SameQueues
<1>12. OnePlace'
  BY <1>1, <1>11 DEF LossInv, OnePlace
<1>13. HandledIsGone'
  <2>1. e.id \in TimedIds(timed)
    BY <1>2 DEF TimedIds, e
  <2> QED
    BY <1>1, <1>5, <1>10, <1>11, <2>1 DEF LossInv, OnePlace, HandledIsGone
<1>14. Accounted'
  <2>1. Waiting' = Waiting /\ handled \subseteq handled'
    BY <1>1, <1>5 DEF Waiting, Pending
  <2> QED
    BY <1>1, <2>1 DEF LossInv, Accounted, Issued
<1> QED
  BY <1>12, <1>13, <1>14 DEF Losses

(* erase leaves what was kept; of a vector that has grown, any part of what *)
(* was kept or added, and all that it may drop was put at risk.             *)
LEMMA EndTimedLoss == ASSUME LossInv, EndTimed PROVE Losses'
<1>1. /\ phase = "timed" /\ phase' = "forwarding" /\ left = 0 /\ scan \in Nat \ {0}
      /\ timed \in Seq(TimedEvents) /\ kept \in Seq(TimedEvents)
      /\ UNCHANGED <<queued, actions, operations, handled, risked, nextId>>
  BY DEF EndTimed, deferral, history, LossInv, OwedInv, IInv, Numbered
<1>2. Scanned /\ DistinctIds(timed) /\ scan <= Len(timed) + 1
  BY <1>1 DEF LossInv, OwedInv, IInv, LeftIsThere, OnePlace, HandledIsGone
<1>3. \A i \in 1 .. scan - 1 : i \in DOMAIN timed
  BY <1>1, <1>2
<1> DEFINE appended == SubSeq(timed, scan, Len(timed))
           remaining == kept \o appended
<1>4. /\ appended \in Seq(TimedEvents) /\ Len(appended) = Len(timed) - scan + 1
      /\ \A i \in 1 .. Len(appended) : appended[i] = timed[i + scan - 1]
  BY <1>1, <1>2
<1>5. /\ remaining \in Seq(TimedEvents) /\ Len(remaining) = Len(kept) + Len(appended)
      /\ \A i \in DOMAIN kept : remaining[i] = kept[i]
      /\ \A i \in DOMAIN remaining \ DOMAIN kept :
            i - Len(kept) \in 1 .. Len(appended) /\ remaining[i] = appended[i - Len(kept)]
  <2>1. Len(kept) \in Nat /\ DOMAIN kept = 1 .. Len(kept) /\ Len(appended) \in Nat
    BY <1>1, <1>4
  <2> HIDE DEF appended
  <2>0. kept \in Seq(TimedEvents) /\ appended \in Seq(TimedEvents)
    BY <1>1, <1>4
  <2>2. /\ remaining \in Seq(TimedEvents) /\ Len(remaining) = Len(kept) + Len(appended)
        /\ \A i \in 1 .. Len(kept) + Len(appended) :
             remaining[i] = IF i <= Len(kept) THEN kept[i] ELSE appended[i - Len(kept)]
    BY <2>0, ConcatProperties, SMTT(60)
  <2> HIDE DEF remaining
  <2>3. DOMAIN remaining = 1 .. Len(kept) + Len(appended)
    BY <2>2
  <2> QED
    BY <2>1, <2>2, <2>3, SMTT(30), ZenonT(30)
<1>6. \A i \in DOMAIN remaining \ DOMAIN kept :
        /\ i - Len(kept) + scan - 1 \in scan .. Len(timed)
        /\ remaining[i] = timed[i - Len(kept) + scan - 1]
  <2>1. Len(kept) \in Nat /\ DOMAIN remaining = 1 .. Len(remaining) /\ Len(timed) \in Nat
    BY <1>1, <1>5
  <2> HIDE DEF remaining, appended
  <2> SUFFICES ASSUME NEW i \in DOMAIN remaining \ DOMAIN kept
               PROVE  /\ i - Len(kept) + scan - 1 \in scan .. Len(timed)
                      /\ remaining[i] = timed[i - Len(kept) + scan - 1]
    OBVIOUS
  <2> DEFINE k == i - Len(kept)
  <2>2. k \in 1 .. Len(appended) /\ remaining[i] = appended[k]
    BY <1>5
  <2>3. remaining[i] = timed[k + scan - 1]
    BY <1>4, <2>2
  <2>4. k + scan - 1 \in scan .. Len(timed)
    <3>1. scan \in Nat /\ Len(timed) \in Nat /\ Len(appended) = Len(timed) - scan + 1
      BY <1>1, <1>4, <2>1
    <3>2. k \in 1 .. Len(appended)
      BY <2>2
    <3> HIDE DEF k
    <3> QED
      BY <3>1, <3>2
  <2> QED
    BY <2>3, <2>4
<1> HIDE DEF appended, remaining
<1>7. DistinctIds(remaining)
  <2> SUFFICES ASSUME NEW i \in DOMAIN remaining, NEW j \in DOMAIN remaining, remaining[i].id = remaining[j].id
               PROVE  i = j
    BY DEF DistinctIds
  <2>0. i \in Int /\ j \in Int /\ Len(kept) \in Int
    BY <1>1, <1>5
  <2>1. CASE i \in DOMAIN kept /\ j \in DOMAIN kept
    BY <1>2, <1>5, <2>1 DEF Scanned, DistinctIds
  <2>2. CASE i \notin DOMAIN kept /\ j \notin DOMAIN kept
    <3> DEFINE m == i - Len(kept) + scan - 1
               n == j - Len(kept) + scan - 1
    <3>1. /\ m \in DOMAIN timed /\ n \in DOMAIN timed
          /\ remaining[i] = timed[m] /\ remaining[j] = timed[n]
      BY <1>1, <1>6, <2>2
    <3>2. m = n
      <4> HIDE DEF m, n
      <4> QED
        BY <1>2, <3>1 DEF DistinctIds
    <3> QED
      BY <1>1, <2>0, <3>2
  <2>3. ASSUME NEW k \in DOMAIN kept, NEW l \in DOMAIN remaining \ DOMAIN kept
        PROVE  remaining[k].id # remaining[l].id
    <3>1. PICK m \in 1 .. scan - 1 : remaining[k] = timed[m]
      BY ONLY <1>2, <1>5, <2>3, ZenonT(30), SMTT(60) DEF Scanned
    <3>2. PICK n \in scan .. Len(timed) : remaining[l] = timed[n]
      BY <1>6, <2>3
    <3>3. m \in DOMAIN timed /\ n \in DOMAIN timed /\ m # n
      BY <1>1, <1>3
    <3> QED
      BY <1>2, <3>1, <3>2, <3>3 DEF DistinctIds
  <2> QED
    BY <2>1, <2>2, <2>3
<1>8. \A i \in DOMAIN remaining :
        remaining[i].id \notin handled /\ remaining[i].id \in TimedIds(timed)
  <2> SUFFICES ASSUME NEW i \in DOMAIN remaining
               PROVE  remaining[i].id \notin handled /\ remaining[i].id \in TimedIds(timed)
    OBVIOUS
  <2>1. CASE i \in DOMAIN kept
    BY <1>2, <1>3, <1>5, <2>1 DEF Scanned, TimedIds
  <2>2. CASE i \notin DOMAIN kept
    <3>1. PICK n \in scan .. Len(timed) : remaining[i] = timed[n]
      BY <1>6, <2>2
    <3>2. n \in DOMAIN timed
      BY <1>1
    <3> QED
      BY <1>2, <3>1, <3>2 DEF Scanned, TimedIds
  <2> QED
    BY <2>1, <2>2
<1>9. /\ DistinctIds(timed')
      /\ \A i \in DOMAIN timed' : timed'[i].id \notin handled /\ timed'[i].id \in TimedIds(timed)
      /\ TimedIds(timed) \subseteq TimedIds(timed') \cup handled \cup risked
  <2>1. CASE grown
    <3>1. PICK n \in 0 .. Len(remaining) : \E place \in [1 .. n -> DOMAIN remaining] :
                 /\ \A i, j \in 1 .. n : i < j => place[i] < place[j]
                 /\ timed' = [i \in 1 .. n |-> remaining[place[i]]]
      BY <2>1 DEF EndTimed, remaining, appended
    <3>2. PICK place \in [1 .. n -> DOMAIN remaining] :
                 /\ \A i, j \in 1 .. n : i < j => place[i] < place[j]
                 /\ timed' = [i \in 1 .. n |-> remaining[place[i]]]
      BY <3>1
    <3>3. \A i, j \in 1 .. n : place[i] = place[j] => i = j
      <4>1. \A i \in 1 .. n : i \in Int /\ place[i] \in Int
        BY <1>5, <3>2
      <4>2. \A i, j \in 1 .. n : i < j \/ j < i \/ i = j
        BY <4>1
      <4> QED
        BY <3>2, <4>1, <4>2
    <3>4. DOMAIN timed' = 1 .. n /\ \A i \in 1 .. n : timed'[i] = remaining[place[i]] /\ place[i] \in DOMAIN remaining
      BY <3>2
    <3>5. DistinctIds(timed')
      BY <1>7, <3>3, <3>4 DEF DistinctIds
    <3>6. TimedIds(timed) \subseteq risked
      BY <1>1, <2>1 DEF LossInv, OwedInv, GrownAreRisked
    <3> QED
      BY <1>8, <3>4, <3>5, <3>6
  <2>2. CASE ~grown
    <3>1. timed' = kept /\ scan = Len(timed) + 1
      <4>1. ~grown => scan + left = Len(timed) + 1
        BY <1>2 DEF Scanned
      <4> QED
        BY <1>1, <2>2, <4>1 DEF EndTimed
    <3>2. \A i \in DOMAIN timed : i \in 1 .. scan - 1
      BY <1>1, <3>1
    <3>3. TimedIds(timed) \subseteq TimedIds(kept) \cup handled \cup risked
      BY <1>2, <3>2 DEF Scanned, TimedIds
    <3>4. \A i \in DOMAIN kept : kept[i].id \in TimedIds(timed)
      BY <1>2, <1>3 DEF Scanned, TimedIds
    <3> QED
      BY <1>2, <3>1, <3>3, <3>4 DEF Scanned
  <2> QED
    BY <2>1, <2>2
<1>10. TimedIds(timed') \subseteq TimedIds(timed) /\ TimedIds(timed') \cap handled = {}
  BY <1>9 DEF TimedIds
<1>11. QueuedOnce' /\ InQueues' = InQueues
  BY <1>1, SameQueues
<1>12. OnePlace'
  BY <1>1, <1>9, <1>10, <1>11 DEF LossInv, OnePlace
<1>13. HandledIsGone'
  BY <1>1, <1>10, <1>11 DEF LossInv, HandledIsGone
<1>14. Accounted'
  BY <1>1, <1>9, SMTT(60) DEF LossInv, Accounted, Waiting, Pending, Issued
<1> QED
  BY <1>12, <1>13, <1>14 DEF Losses

LEMMA InitLoss == ASSUME Init PROVE Losses
<1>1. /\ \A d \in Dispatchers, t \in Types : queued[d][t] = <<>>
      /\ timed = <<>> /\ actions = <<>> /\ operations = <<>> /\ handled = {} /\ nextId = 1
      /\ phase = "outside"
  BY DEF Init
<1>2. OnePlace
  BY <1>1 DEF OnePlace, QueuedOnce, Distinct, DistinctIds, InQueues, Pending, Members, TimedIds, Dispatchers
<1>3. HandledIsGone
  BY <1>1 DEF HandledIsGone
<1>4. Accounted
  BY <1>1 DEF Accounted, Issued
<1> QED
  BY <1>2, <1>3, <1>4 DEF Losses

(* Every event ever queued waits, was handled, or was put at risk by a      *)
(* growing list of timed events; and no event waits again that was handled  *)
(* (service.cpp: update and all it calls).                                  *)
THEOREM NoneIsLost == Spec => []NothingLost
<1>1. Init => LossInv
  BY InitLoss, InitInv DEF Init, LossInv, Losses, OwedInv, OwedAhead, GrownAreRisked
<1>2. LossInv /\ [Next]_vars => LossInv'
  <2> SUFFICES ASSUME LossInv, [Next]_vars PROVE LossInv'
    OBVIOUS
  <2>1. OwedInv'
    BY OwedStep DEF LossInv
  <2>2. Losses'
    BY QueueEventLoss, QueueTimedEventLoss, DeferLoss, QuietStepsLoss, DispatchLoss, EndStandardLoss,
       TimedStepLoss, EndTimedLoss, RunActionLoss, EndServiceLoss, RunOperationLoss, EndUpdateLoss
       DEF Next, UpdateStep
  <2> QED
    BY <2>1, <2>2 DEF LossInv, Losses
<1>3. LossInv => NothingLost
  <2> SUFFICES ASSUME LossInv PROVE NothingLost
    OBVIOUS
  <2>1. phase \notin {"timed", "deferred"} => Waiting \cap handled = {}
    BY DEF LossInv, HandledIsGone, Waiting, InQueues
  <2> QED
    BY <2>1 DEF LossInv, Accounted, Issued, NothingLost
<1> QED
  BY <1>1, <1>2, <1>3, PTL DEF Spec
==============================================================================
