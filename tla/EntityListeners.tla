--------------------------- MODULE EntityListeners ---------------------------
(***************************************************************************)
(* Threads that wait for events: the Yield instruction of EntitySystem::   *)
(* step_thread, the listeners of the system (EntityListener), one for each *)
(* type of event, and what a change of state does to them.                 *)
(*                                                                         *)
(* A listener counts, for each entity, the reasons it has to listen: one   *)
(* for the rules of the state of the entity and one for each mention of    *)
(* the type in a condition that a thread of the entity waits for.  Actions *)
(* of rules are queued; what they do is among the steps of others.         *)
(***************************************************************************)
EXTENDS Integers, Sequences, FiniteSets, SequencesExt

CONSTANTS
  Entities, Threads, Types,
  States,  \* the states of an entity
  Owner,   \* the entity of a thread
  Detached,\* the threads that are started detached from the state
  Code,    \* the instructions of a thread, which it repeats for ever: what they
           \* do and the types a Yield waits for or a capture takes (none: any)
  Rules,   \* the types of events that the rules of a state are about
  Counts,  \* how many values a reference count has: 2^16 in the code
  Initial, \* the state entities are created in
  Mortal,  \* the entities that may be destroyed and the threads that may be
           \* stopped (a bound)
  Nothing

ASSUME OwnerAssumption == Owner \in [Threads -> Entities]
ASSUME RulesAssumption == \A e \in Entities : Initial \in States[e] /\ \A s \in States[e] : Rules[s] \subseteq Types
ASSUME CountsAssumption == Counts \in Nat \ {0, 1}
ASSUME FiniteAssumption == IsFiniteSet(Entities) /\ IsFiniteSet(Threads)

(* What EntityThreadBuilder makes of a script: a capture stands right      *)
(* behind a Yield or another capture, or it is refused.                    *)
ASSUME CodeAssumption ==
  \A t \in Threads :
    /\ Code[t] \in Seq([op : STRING, types : Seq(Types)]) /\ Code[t] # <<>>
    /\ \A i \in DOMAIN Code[t] :
         Code[t][i].op = "capture" => i > 1 /\ Code[t][i - 1].op \in {"yield", "capture"}

VARIABLES
  listeners,  \* EntityListener::listening_entities of each type
  state,      \* StateComponent::state_index
  alive,      \* the entities that exist
  threads,    \* of each thread: its next instruction (0: not running), whether
              \* it waits, and the event that woke it if it is at a capture
  worn,       \* <<type, entity>> whose reference was taken away, or overflowed
  delivery    \* the event being delivered, or Nothing

vars == <<listeners, state, alive, threads, worn, delivery>>

Idle == [at |-> 0, yielding |-> FALSE, woke |-> Nothing]

Position(list, e) == CHOOSE p \in DOMAIN list : list[p].entity = e
Listed(list, e) == \E p \in DOMAIN list : list[p].entity = e

Held(list, e) == IF Listed(list, e) THEN list[Position(list, e)].count ELSE 0

(* add_entity, once for each of so many references *)
Added(list, e, references) ==
  LET count == (Held(list, e) + references) % Counts
  IN  IF references = 0 THEN list
      ELSE IF Listed(list, e) THEN [list EXCEPT ![Position(list, e)] = [entity |-> e, count |-> count]]
      ELSE Append(list, [entity |-> e, count |-> count])

(* Mutant: the entity leaves with its first thread. *)
RemovedAtOnce(list, e, references) ==
  IF Listed(list, e) THEN RemoveAt(list, Position(list, e)) ELSE list

(* remove_entity, once for each of so many references *)
Removed(list, e, references) ==
  IF ~Listed(list, e) \/ references = 0 THEN list
  ELSE LET p == Position(list, e)
       IN  IF list[p].count > references
           THEN [list EXCEPT ![p] = [entity |-> e, count |-> list[p].count - references]]
           ELSE RemoveAt(list, p)

Condition(t) == Code[t][threads[t].at].types
Places(t, type) == {i \in DOMAIN Condition(t) : Condition(t)[i] = type}
Mentions(t, type) == Cardinality(Places(t, type))
Waiting(e) == {t \in Threads : Owner[t] = e /\ threads[t].yielding}
WaitingFor(e, type) == {t \in Waiting(e) : Mentions(t, type) > 0}

Init ==
  /\ \E order \in SetToSeqs(Entities) :
       listeners = [type \in Types |->
         IF type \in Rules[Initial] THEN [p \in DOMAIN order |-> [entity |-> order[p], count |-> 1]] ELSE <<>>]
  /\ state = [e \in Entities |-> Initial]
  /\ alive = Entities
  /\ threads = [t \in Threads |-> [Idle EXCEPT !.at = 1]]
  /\ worn = {}
  /\ delivery = Nothing
-----------------------------------------------------------------------------
(* The steps of a thread.                                                  *)

Between == delivery = Nothing
Awake(t) == Between /\ Owner[t] \in alive /\ threads[t].at # 0 /\ ~threads[t].yielding
Current(t) == Code[t][threads[t].at]
IsCapture(t, i) == Code[t][i].op = "capture"
Around(t, i) == IF i > Len(Code[t]) THEN 1 ELSE i

Start(t) ==
  /\ Between /\ Owner[t] \in alive /\ threads[t].at = 0
  /\ threads' = [threads EXCEPT ![t].at = 1]
  /\ UNCHANGED <<listeners, state, alive, worn, delivery>>

(* An instruction that does not wait; a Yield whose condition holds is one *)
(* of these.  An EventCapture that is reached resets its variable.         *)
Act(t) ==
  /\ Awake(t)
  /\ LET next == Around(t, threads[t].at + 1)
     IN  threads' = [threads EXCEPT ![t].at = next, ![t].woke = IF IsCapture(t, next) THEN @ ELSE Nothing]
  /\ UNCHANGED <<listeners, state, alive, worn, delivery>>

(* Yield, where the condition does not hold: start_listening for each type *)
(* that the condition enumerates, as often as it mentions it.              *)
Overflows(type, e, references) == Held(listeners[type], e) + references >= Counts
Yield(t) ==
  /\ Awake(t) /\ Current(t).op = "yield"
  /\ listeners' = [type \in Types |-> Added(listeners[type], Owner[t], Mentions(t, type))]
  /\ worn' = worn \cup {<<type, Owner[t]>> : type \in {u \in Types : Overflows(u, Owner[t], Mentions(t, u))}}
  /\ threads' = [threads EXCEPT ![t].yielding = TRUE, ![t].woke = Nothing]
  /\ UNCHANGED <<state, alive, delivery>>

(* The thread is stopped: its references stay.                             *)
Stop(t) ==
  /\ Between /\ t \in Mortal /\ Owner[t] \in alive /\ threads[t].at # 0
  /\ threads' = [threads EXCEPT ![t] = Idle]
  /\ UNCHANGED <<listeners, state, alive, worn, delivery>>
-----------------------------------------------------------------------------
(* An event.                                                               *)

(* Mutant: only the Yield is passed. *)
NextOnly(t, type) == Around(t, threads[t].at + 1)

(* update_entity_conditional_yield: if one of the EventCaptures behind the *)
(* Yield takes the event, all of them are passed.                          *)
Behind(t, type) ==
  LET code == Code[t]
      i == threads[t].at
      captures == {j \in i + 1 .. Len(code) : \A k \in i + 1 .. j : code[k].op = "capture"}
      captured == \E j \in captures : code[j].types \in {<<>>, <<type>>}
  IN  Around(t, IF captured THEN i + 1 + Cardinality(captures) ELSE i + 1)

Event(type) ==
  /\ Between /\ listeners[type] # <<>>
  /\ delivery' = [type |-> type, at |-> 1, end |-> Len(listeners[type]), beyond |-> <<>>]
  /\ UNCHANGED <<listeners, state, alive, threads, worn>>

(* on_event goes over the entries with pointers to the first and behind    *)
(* the last.  Taking an entry out moves those behind it up and leaves the  *)
(* last one where it was, behind the new end: the next entry is not heard  *)
(* and the last may be heard twice.                                        *)
EntityAt(p) ==
  LET list == listeners[delivery.type]
  IN  IF p <= Len(list) THEN list[p].entity ELSE delivery.beyond[p - Len(list)]
Asked ==
  IF Between \/ EntityAt(delivery.at) \notin alive THEN {} ELSE WaitingFor(EntityAt(delivery.at), delivery.type)

(* The threads that wait are asked; for some the condition holds.          *)
Hear(woken) ==
  /\ ~Between
  /\ LET type == delivery.type
         list == listeners[type]
         left == Removed(list, EntityAt(delivery.at), Cardinality(woken))
     IN  /\ listeners' = [listeners EXCEPT ![type] = left]
         /\ threads' = [t \in Threads |->
              IF t \notin woken THEN threads[t]
              ELSE [at |-> Behind(t, type), yielding |-> FALSE,
                    woke |-> IF IsCapture(t, Behind(t, type)) THEN type ELSE Nothing]]
         /\ delivery' = IF delivery.at = delivery.end THEN Nothing ELSE
              [delivery EXCEPT !.at = @ + 1,
                 !.beyond = IF Len(left) = Len(list) THEN @ ELSE <<Last(list).entity>> \o @]
  /\ UNCHANGED <<state, alive, worn>>

-----------------------------------------------------------------------------
(* What happens to an entity.                                              *)

(* on_state_update, after the threads of the state that is left were       *)
(* stopped: the entity gives up one reference of every listener, and gets  *)
(* one for the rules of its new state.                                     *)
ChangeState(e, next) ==
  LET stopped == {t \in Threads : Owner[t] = e /\ t \notin Detached}
      stay(type) == WaitingFor(e, type) \ stopped # {}
      owed(type) == type \in Rules[state[e]] \/ WaitingFor(e, type) \cap stopped # {}
      swept(type) == Removed(listeners[type], e, 1)
  IN  /\ Between /\ e \in alive
      /\ state' = [state EXCEPT ![e] = next]
      /\ threads' = [t \in Threads |-> IF t \in stopped THEN Idle ELSE threads[t]]
      /\ listeners' = IF next = state[e] THEN listeners
                      ELSE [type \in Types |-> IF type \in Rules[next] THEN Added(swept(type), e, 1) ELSE swept(type)]
      /\ worn' = IF next = state[e] THEN worn
                 ELSE worn \cup {<<type, e>> : type \in {u \in Types : stay(u) /\ ~owed(u)}}
      /\ UNCHANGED <<alive, delivery>>

(* Nothing looks for it in the listeners.                                  *)
Destroy(e) ==
  /\ Between /\ e \in alive \cap Mortal
  /\ alive' = alive \ {e}
  /\ threads' = [t \in Threads |-> IF Owner[t] = e THEN Idle ELSE threads[t]]
  /\ UNCHANGED <<listeners, state, worn, delivery>>

Next ==
  \/ \E t \in Threads : Start(t) \/ Act(t) \/ Yield(t) \/ Stop(t)
  \/ \E type \in Types : Event(type)
  \/ \E woken \in SUBSET Asked : Hear(woken)
  \/ \E e \in Entities : Destroy(e) \/ \E next \in States[e] : ChangeState(e, next)

(* An event that was fired is delivered by the same call.  Events of every *)
(* type that something listens to keep coming.                             *)
Fairness ==
  /\ WF_vars(\E woken \in SUBSET Asked : Hear(woken))
  /\ \A type \in Types : SF_vars(Event(type))
Spec == Init /\ [][Next]_vars /\ Fairness
-----------------------------------------------------------------------------
(* A delivery stays inside of what was there when it began, whatever it    *)
(* takes out: an entity is in a list once.                                 *)
TypeOK ==
  /\ listeners \in [Types -> Seq([entity : Entities, count : 0 .. Counts - 1])]
  /\ \A type \in Types : \A p, q \in DOMAIN listeners[type] :
       listeners[type][p].entity = listeners[type][q].entity => p = q
  /\ state \in [Entities -> UNION {States[e] : e \in Entities}] /\ \A e \in Entities : state[e] \in States[e]
  /\ alive \subseteq Entities
  /\ threads \in [Threads -> [at : Nat, yielding : BOOLEAN, woke : Types \cup {Nothing}]]
  /\ \A t \in Threads : threads[t].at \in 0 .. Len(Code[t])
                          /\ (threads[t].yielding => threads[t].at # 0 /\ Current(t).op = "yield")
  /\ worn \subseteq Types \X Entities
  /\ ~Between =>
       /\ delivery \in [type : Types, at : Nat, end : Nat, beyond : Seq(Entities)]
       /\ delivery.at \in 1 .. delivery.end
       /\ delivery.end = Len(listeners[delivery.type]) + Len(delivery.beyond)

(* The listeners of a type count at least what an entity listens for, the  *)
(* rules of its state and the waits of its threads, whatever was added and *)
(* removed in between: unless a change of state took a reference that it   *)
(* did not give, or the count overflowed.                                  *)
Waits(type, e) == UNION {{t} \X Places(t, type) : t \in Waiting(e)}
Owed(type, e) == (IF type \in Rules[state[e]] THEN 1 ELSE 0) + Cardinality(Waits(type, e))
WaitersAreListed ==
  \A type \in Types, e \in alive : <<type, e>> \notin worn /\ Owed(type, e) > 0 =>
    Listed(listeners[type], e) /\ Held(listeners[type], e) >= Owed(type, e)

(* The same for every thread that waits, detached ones whose entity changed*)
(* its state included.                                                     *)
DetachedAreListed ==
  \A t \in Threads, type \in Types :
    threads[t].yielding /\ Mentions(t, type) > 0 => Listed(listeners[type], Owner[t])

(* A thread that an event has woken executes no EventCapture that takes    *)
(* this event: that would reset the variable the event was stored in.      *)
CapturesAreKept ==
  \A t \in Threads :
    Awake(t) /\ threads[t].woke # Nothing /\ Current(t).op = "capture" =>
      Current(t).types \notin {<<>>, <<threads[t].woke>>}

(* Although an event passes over some of the entities that listen, a       *)
(* thread that waits is asked in the end.                                  *)
Worn(t) == \A type \in Types : Mentions(t, type) > 0 => <<type, Owner[t]>> \in worn
WaitersAreAsked == \A t \in Threads : threads[t].yielding ~> (~threads[t].yielding \/ t \in Asked \/ Worn(t))
=============================================================================
