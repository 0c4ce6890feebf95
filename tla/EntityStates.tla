---------------------------- MODULE EntityStates ----------------------------
(***************************************************************************)
(* The states of one entity: EntitySystem::set_state_by_id and             *)
(* activate_state, and what EntityState::decay and activate do to the      *)
(* components.  The threads of a state are in EntityThreads.               *)
(*                                                                         *)
(* The value of a component stands for what its descriptions do not set: a *)
(* field assignment leaves it, a construction gives Given.  A storage keeps*)
(* of every component what was stored last, which is what retrieve leaves  *)
(* in the entity.                                                          *)
(***************************************************************************)
EXTENDS Naturals

CONSTANTS
  States, Components, Values,
  Delayed,   \* the states with an activation delay
  (* The component lists of each state; Plain are the persistent components*)
  (* that are described without a field, Fields the added ones that force  *)
  (* field assignment.                                                     *)
  Persist, Plain, Add, Fields, Remove, Freeze, Store, LocalCopy, InitCopy,
  Given,     \* the value that a description constructs
  None,      \* no value, no state
  MaxTimers  \* bound of the model: pending activations of one state

Lists == [States -> SUBSET Components]

ASSUME ListsAssumption ==
  /\ {Persist, Plain, Add, Fields, Remove, Freeze, Store, LocalCopy, InitCopy} \subseteq Lists
  /\ \A s \in States : Plain[s] \subseteq Persist[s] /\ Fields[s] \subseteq Add[s]
ASSUME CopiesAssumption == \* build_local_copy, build_init_copy
  \A s \in States : LocalCopy[s] \subseteq Freeze[s] /\ InitCopy[s] \subseteq Freeze[s] \cap Store[s]
ASSUME ValuesAssumption ==
  Delayed \subseteq States /\ Given \in Values /\ None \notin Values \cup States /\ MaxTimers \in Nat

VARIABLES
  state,     \* StateComponent::state_index, or None before there is one
  registry,  \* the components of the entity
  frozen,    \* FrozenStateComponent
  storage,   \* StateStorageComponent
  timers,    \* the timed StateActivationCommands, by the state they name
  active,    \* history: the current state has been activated
  disturbed  \* history: a state was left unactivated, or activated again

vars == <<state, registry, frozen, storage, timers, active, disturbed>>

Absent == [c \in Components |-> None]
Or(v, w) == IF v # None THEN v ELSE w
With(set, from, to) == [c \in Components |-> IF c \in set THEN Or(from[c], to[c]) ELSE to[c]]
Without(set, components) == [c \in Components |-> IF c \in set THEN None ELSE components[c]]

Init ==
  /\ state = None
  /\ registry \in [Components -> Values \cup {None}]
  /\ frozen = [s \in States |-> Absent]
  /\ storage = [s \in States |-> Absent]
  /\ timers = [s \in States |-> 0]
  /\ active = FALSE
  /\ disturbed = FALSE

(* What an entity has, and what is put away for the state at hand. *)
Contents(components, cold, stored) == [components |-> components, cold |-> cold, stored |-> stored]
Current(s) == Contents(registry, frozen[s], storage[s])

(* Mutant: decay without unfreeze. *)
DecayedFrozen(s, e, persist) ==
  LET stored == With(Store[s], e.components, e.stored)
      left == Without(Store[s] \cup (Add[s] \ (persist \cup Persist[s] \cup Fields[s])), e.components)
  IN  Contents(left, e.cold, stored)

(* decay: store, remove what was added, unfreeze, persist. *)
Decayed(s, e, persist) ==
  LET stored == With(Store[s], e.components, e.stored)
      left == Without(Store[s] \cup (Add[s] \ (persist \cup Persist[s] \cup Fields[s])), e.components)
      thawed == With(Components, e.cold, left)
  IN  Contents([c \in Components |-> IF c \in Persist[s] THEN Or(thawed[c], Given) ELSE thawed[c]],
               Absent, stored)

(* add, which leaves a component alone that is to be updated by its fields,*)
(* and persist, which constructs a component when there is no field to set.*)
Added(s, components) ==
  [c \in Components |-> IF c \in Add[s] \ (Fields[s] \cup Persist[s]) THEN Given ELSE components[c]]
Persisted(s, components) ==
  [c \in Components |->
    IF c \in Persist[s] /\ (components[c] = None \/ c \in Plain[s]) THEN Given ELSE components[c]]

(* Mutant: the versions of the state are retrieved before the others are   *)
(* frozen, which freezes them instead.                                     *)
ActivatedEarly(s, e) ==
  LET retrieved == With(Components, e.stored, e.components)
  IN  Contents(Persisted(s, Added(s, Without(Remove[s] \cup Freeze[s], retrieved))),
               With(Freeze[s], retrieved, e.cold), Absent)

(* activate: copy, freeze, retrieve, remove, add, persist. *)
Activated(s, e) ==
  LET local == With(LocalCopy[s], e.components, e.stored)
      copies == [c \in Components |-> IF c \in InitCopy[s] THEN Or(local[c], e.components[c]) ELSE local[c]]
      retrieved == With(Components, copies, Without(Freeze[s], e.components))
  IN  Contents(Persisted(s, Added(s, Without(Remove[s], retrieved))),
               With(Freeze[s], e.components, e.cold), Absent)

(* What the operations above leave becomes what the entity has. *)
Leaves(s, e) == /\ frozen' = [frozen EXCEPT ![s] = e.cold]
                /\ storage' = [storage EXCEPT ![s] = e.stored]
                /\ registry' = e.components

(* What is left of the state before, if there is one. *)
Departed(s) == IF state = None THEN Current(s) ELSE Decayed(state, Current(state), Persist[s])

(* set_state_by_id of a state with an activation delay. The timer stays    *)
(* when the state is left.                                                 *)
SetDelayed(s) ==
  /\ s \in Delayed /\ timers[s] < MaxTimers
  /\ state # None  \* asserted
  /\ Leaves(state, Departed(s))
  /\ timers' = [timers EXCEPT ![s] = @ + 1]
  /\ state' = s
  /\ active' = FALSE
  /\ disturbed' = (disturbed \/ ~active)

(* set_state_by_id of any other state: decay, then activate. *)
SetAtOnce(s) ==
  /\ s \notin Delayed
  /\ LET before == Departed(s)
         entered == IF s = state THEN Activated(s, before)
                    ELSE Activated(s, Contents(before.components, frozen[s], storage[s]))
         Each(all, new, old) == [t \in States |-> IF t = s THEN new ELSE IF t = state THEN old ELSE all[t]]
     IN  /\ frozen' = Each(frozen, entered.cold, before.cold)
         /\ storage' = Each(storage, entered.stored, before.stored)
         /\ registry' = entered.components
  /\ state' = s
  /\ active' = TRUE
  /\ disturbed' = (disturbed \/ (state # None /\ ~active))
  /\ UNCHANGED timers

(* activate_state, of a StateActivationCommand: whatever state it was timed*)
(* for, the current one is activated.                                      *)
ActivateState ==
  /\ Leaves(state, Activated(state, Current(state)))
  /\ active' = TRUE
  /\ disturbed' = (disturbed \/ active)
  /\ UNCHANGED state

TimerFires(named) ==
  /\ timers[named] > 0
  /\ timers' = [timers EXCEPT ![named] = @ - 1]
  /\ ActivateState

(* The game assigns, adds or removes a component. *)
Write(c, v) ==
  /\ registry[c] # v
  /\ registry' = [registry EXCEPT ![c] = v]
  /\ UNCHANGED <<state, frozen, storage, timers, active, disturbed>>

Next ==
  \/ \E s \in States : SetDelayed(s) \/ SetAtOnce(s) \/ TimerFires(s)
  \/ \E c \in Components, v \in Values \cup {None} : Write(c, v)

Spec == Init /\ [][Next]_vars
-----------------------------------------------------------------------------
Entity == [Components -> Values \cup {None}]

(* Types; a state that is not active yet has its timer, and nothing is     *)
(* activated before the first state.                                       *)
TypeOK ==
  /\ state \in States \cup {None}
  /\ registry \in Entity /\ frozen \in [States -> Entity] /\ storage \in [States -> Entity]
  /\ timers \in [States -> 0 .. MaxTimers]
  /\ active \in BOOLEAN /\ disturbed \in BOOLEAN
  /\ (state # None /\ ~active) => timers[state] > 0
  /\ state = None => ~active /\ \A s \in States : timers[s] = 0

(* What is put away is put away for one purpose: only the active state has *)
(* frozen components, and a state whose versions are in the entity has no  *)
(* second copy of them in its storage (entity_state.cpp:401-425).          *)
PutAwayOnce ==
  \A s \in States, c \in Components :
    /\ frozen[s][c] # None => active /\ s = state /\ c \in Freeze[s]
    /\ storage[s][c] # None => (active => s # state) /\ c \in Store[s]

(* Orderly states are scopes: through decay, freeze, retrieve and delayed  *)
(* activation, the entity gets back what a state froze, and a state its own*)
(* versions (entity_state.hpp:48-70), until a state is left before it was  *)
(* activated, or activated again; but for the components that are Excepted *)
(* in a step, of which nothing is said in it.                              *)
Own(s) == Freeze[s] \cup Store[s]
Base ==
  [c \in Components |->
    IF ~active THEN registry[c]
    ELSE IF c \in Freeze[state] THEN frozen[state][c]
    ELSE IF c \in Store[state] THEN None ELSE registry[c]]
Versions ==
  [s \in States |-> [c \in Components |->
    IF active /\ s = state /\ c \in Own(s) THEN registry[c] ELSE storage[s][c]]]

Scopes == INSTANCE StateScopes WITH
  within <- IF active THEN state ELSE None, base <- Base, own <- Versions

(* Where the code is known to do otherwise than the lists say.  An added   *)
(* component whose description forces field assignment is not removed with *)
(* the state (entity_state.cpp:96), and it is assigned where it should be  *)
(* added or reconstructed (335); a persistent one that is described without*)
(* fields is constructed anew where it should be inherited (369).          *)
LeftBehind ==
  IF active
  THEN {c \in Fields[state] \ (Store[state] \cup Persist[state] \cup Persist[state']) : registry[c] # None}
  ELSE {}
OnlyAssigned == IF active' THEN {c \in Fields[state'] \ Persist[state'] : registry'[c] # Given} ELSE {}
ConstructedAnew == IF active' THEN {c \in Plain[state'] : registry'[c] = Given} ELSE {}
Excepted == LeftBehind \cup OnlyAssigned \cup ConstructedAnew

ImplementsScopes ==
  Scopes!Init /\ [][Scopes!NextBut(Excepted) \/ disturbed']_(Scopes!vars)

(* The same without the exceptions: what entity_state.hpp:48-56 says of the*)
(* lists persist and add holds of every component.                         *)
ListsAreKept == [][Scopes!Next \/ disturbed']_(Scopes!vars)

(* entity_system.cpp:710 reports the state that the command names as the   *)
(* one that was activated.                                                 *)
ActivatesTheNamed == [][\A s \in States : TimerFires(s) => s = state]_vars
=============================================================================
