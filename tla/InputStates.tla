---------------------------- MODULE InputStates -----------------------------
(***************************************************************************)
(* InputSystem (engine/input/input_system.cpp): the events of the devices  *)
(* become the state of the buttons of a player, which is handed to the     *)
(* game at the end of each update.  One player; the keyboard, the mouse    *)
(* and every gamepad are mapped to it by the name of the device.           *)
(*                                                                         *)
(* A frame is the events of SDL, the poll of the devices, the handlers of  *)
(* the queued events in the order of their types, and on_update.  What     *)
(* handlers of the game do comes in between: components are attached and   *)
(* removed, the lock is toggled.                                           *)
(***************************************************************************)
EXTENDS InputDevices, Sequences

CONSTANTS
  Buttons,      \* the buttons of the engine
  KeyButton,    \* the profiles: what a key,
  PadButton,    \* and a button of a gamepad stand for
  Virtual,      \* the virtual button of the stick
  Order,        \* the order in which the queues of the types are published
  MaxListeners  \* bound of the model: InputComponents at a time

ASSUME ProfilesAssumption ==
  /\ KeyButton \in [Keys -> Buttons] /\ PadButton \in [PadButtons -> Buttons]
  /\ Virtual \in Buttons
ASSUME OrderAssumption == {Order[i] : i \in DOMAIN Order} = Kinds
ASSUME BoundAssumption == MaxListeners \in Nat

VARIABLES
  phase,     \* "frame" between two updates, "update" within one
  allocated, \* `states` has the entry of the player
  listeners, \* StateData::active_listeners
  bound,     \* gamepad_assignment: the gamepads of the player
  held, pressed, released,  \* StateData::next
  heldBefore,               \* StateData::previous.held
  changed,   \* StateData::state_has_changed
  orphans    \* history: buttons that were held when the gamepad that may hold
             \* them was taken away, and that nothing released since

devices == <<locked, keyboard, plugged, padNext, padSeen, queue>>
state == <<held, pressed, released, heldBefore, changed>>
vars  == <<devices, phase, allocated, listeners, bound, state, orphans>>

Init ==
  /\ DevicesInit
  /\ phase = "frame" /\ allocated = FALSE /\ listeners = 0 /\ bound = {}
  /\ held = {} /\ pressed = {} /\ released = {} /\ heldBefore = {}
  /\ changed = FALSE /\ orphans = {}

----------------------------------------------------------------------------
(* Mutant: the button is marked as held before it is asked for. *)
ButtonDownHeldFirst(b) ==
  /\ changed' = TRUE
  /\ released' = released \ {b} /\ pressed' = pressed \ {b}
  /\ held' = held \cup {b}
  /\ UNCHANGED <<heldBefore, orphans>>

(* on_button_down and on_button_up; the state of the player is allocated. *)
ButtonDown(b) ==
  /\ changed' = TRUE
  /\ released' = released \ {b}
  /\ pressed' = IF b \in held THEN pressed \ {b} ELSE pressed \cup {b}
  /\ held' = held \cup {b}
  /\ UNCHANGED <<heldBefore, orphans>>

ButtonUp(b) ==
  /\ changed' = TRUE
  /\ held' = held \ {b} /\ pressed' = pressed \ {b} /\ released' = released \cup {b}
  /\ orphans' = orphans \ {b}
  /\ UNCHANGED heldBefore

(* clear_input_data *)
ClearInputData ==
  /\ held' = {} /\ pressed' = {} /\ released' = {} /\ heldBefore' = {}
  /\ changed' = FALSE /\ orphans' = {}

----------------------------------------------------------------------------
(* on_create_input: the first component binds the gamepads that are open. *)
StartListening ==
  /\ listeners < MaxListeners
  /\ allocated' = TRUE
  /\ listeners' = listeners + 1
  /\ bound' = IF listeners = 0 THEN bound \cup plugged ELSE bound
  /\ UNCHANGED <<devices, phase, state, orphans>>

(* on_destroy_input: the last one takes the gamepads and the state away. *)
StopListening ==
  /\ listeners > 0
  /\ listeners' = listeners - 1
  /\ IF listeners = 1 THEN bound' = {} /\ ClearInputData
                      ELSE UNCHANGED <<bound, state, orphans>>
  /\ UNCHANGED <<devices, phase, allocated>>

----------------------------------------------------------------------------
(* The handlers of the events.  A key or a button of a gamepad that is   *)
(* mapped to the player makes a change to the state of its button.       *)
OnKey(change) ==
  /\ IF allocated THEN change ELSE UNCHANGED <<state, orphans>>
  /\ UNCHANGED <<allocated, bound>>

(* on_gamepad_button_down, on_gamepad_button_up: get_profile knows only the *)
(* names of open gamepads.                                                  *)
OnPadButton(p, change) ==
  /\ IF p \in bound \cap plugged THEN change ELSE UNCHANGED <<state, orphans>>
  /\ UNCHANGED <<allocated, bound>>

(* on_gamepad_connected, whether anybody listens or not; the name of a *)
(* gamepad that is gone again is empty, and maps to no player.         *)
OnConnected(p) ==
  /\ IF p \in plugged THEN allocated' = TRUE /\ bound' = bound \cup {p}
                      ELSE UNCHANGED <<allocated, bound>>
  /\ UNCHANGED <<state, orphans>>

OnDisconnected(p) ==
  /\ bound' = bound \ {p}
  /\ orphans' = IF p \in bound
                  THEN orphans \cup (held \cap ({PadButton[b] : b \in PadButtons} \cup {Virtual}))
                  ELSE orphans
  /\ UNCHANGED <<allocated, state>>

(* on_gamepad_analog_input and handle_virtual_button_simulation: the button *)
(* goes up only if it was held in the state last handed out.                *)
OnTilt(p, t) ==
  /\ IF p \notin bound \cap plugged THEN UNCHANGED <<state, orphans>>
     ELSE IF t = Full THEN ButtonDown(Virtual)
     ELSE IF Virtual \in heldBefore THEN ButtonUp(Virtual)
     ELSE changed' = TRUE /\ UNCHANGED <<held, pressed, released, heldBefore, orphans>>
  /\ UNCHANGED <<allocated, bound>>

Handle(t, e) ==
  CASE t = "down" -> OnKey(ButtonDown(KeyButton[e]))
    [] t = "up" -> OnKey(ButtonUp(KeyButton[e]))
    [] t = "connected" -> OnConnected(e)
    [] t = "disconnected" -> OnDisconnected(e)
    [] t = "padDown" -> OnPadButton(e[1], ButtonDown(PadButton[e[2]]))
    [] t = "padUp" -> OnPadButton(e[1], ButtonUp(PadButton[e[2]]))
    [] t = "tilt" -> OnTilt(e[1], e[2])

----------------------------------------------------------------------------
(* The events of SDL, before the update. *)
Play ==
  /\ phase = "frame"
  /\ \/ \E k \in Keys : MoveKey(k)
     \/ \E p \in Pads :
          \/ Plug(p)
          \/ Unplug(p)
          \/ \E b \in PadButtons : PadPress(p, b)
          \/ \E b \in PadButtons : PadRelease(p, b)
          \/ \E t \in Tilts : PadTilt(p, t)
  /\ UNCHANGED <<phase, allocated, listeners, bound, state, orphans>>

(* Game::update *)
BeginUpdate ==
  /\ phase = "frame"
  /\ Poll
  /\ phase' = "update"
  /\ UNCHANGED <<allocated, listeners, bound, state, orphans>>

Lock == ToggleLock /\ UNCHANGED <<phase, allocated, listeners, bound, state, orphans>>

(* The queue of one type is published before that of the next. *)
Turn(i) == queue[Order[i]] # {} /\ \A j \in 1 .. i - 1 : queue[Order[j]] = {}

Publish ==
  /\ phase = "update"
  /\ \E i \in DOMAIN Order : \E e \in queue[Order[i]] :
       /\ Turn(i)
       /\ Handle(Order[i], e)
       /\ queue' = [queue EXCEPT ![Order[i]] = @ \ {e}]
  /\ UNCHANGED <<locked, keyboard, plugged, padNext, padSeen, phase, listeners>>

Drained == phase = "update" /\ \A t \in Kinds : queue[t] = {}

(* on_update: if anything changed, the state is handed out and becomes *)
(* the previous one.                                                    *)
EndUpdate ==
  /\ Drained
  /\ phase' = "frame"
  /\ IF changed
       THEN /\ heldBefore' = held /\ pressed' = {} /\ released' = {} /\ changed' = FALSE
            /\ UNCHANGED held
       ELSE UNCHANGED state
  /\ UNCHANGED <<devices, allocated, listeners, bound, orphans>>

Next ==
  \/ Play \/ BeginUpdate \/ Publish \/ EndUpdate
  \/ StartListening \/ StopListening \/ Lock

Spec == Init /\ [][Next]_vars

----------------------------------------------------------------------------
TypeOK ==
  /\ DevicesTypeOK
  /\ phase \in {"frame", "update"} /\ allocated \in BOOLEAN
  /\ listeners \in 0 .. MaxListeners
  /\ bound \subseteq Pads
  /\ held \subseteq Buttons /\ heldBefore \subseteq Buttons
  /\ pressed \subseteq Buttons /\ released \subseteq Buttons
  /\ orphans \subseteq Buttons
  /\ changed \in BOOLEAN

(* What the last poll saw that holds a button. *)
KeyHolds(b) == \E k \in keysSeen : KeyButton[k] = b
PadHolds(p, b) ==
  \/ \E x \in padSeen[p].buttons : PadButton[x] = b
  \/ b = Virtual /\ padSeen[p].tilt = Full

(* Between two updates a button is held only if something holds it that the *)
(* last poll saw: a key, or a gamepad of the player.  The one exception are *)
(* the buttons that a gamepad held when it was unplugged: no release comes  *)
(* for them (on_gamepad_disconnected).  Taps shorter than a frame, keys     *)
(* that move while the input is unlocked, gamepads that come and go and     *)
(* components that are attached and removed leave no button stuck.          *)
OnlyOrphansStick ==
  phase = "frame" =>
    \A b \in held \ orphans : KeyHolds(b) \/ \E p \in bound : PadHolds(p, b)

(* How many things there are that give the engine this button. *)
Sources(b) ==
  Cardinality({k \in Keys : KeyButton[k] = b})
  + Cardinality(Pads) * (Cardinality({x \in PadButtons : PadButton[x] = b})
                         + (IF b = Virtual THEN 1 ELSE 0))

(* OnInput is handed the edges of the buttons: one that is held now and was *)
(* not in the last OnInput is among the pressed, unless several things give *)
(* this button, and one that is no longer held is among the released; no    *)
(* button is told to be both, in whatever order its events came.            *)
EdgesAreInInput ==
  Drained =>
    /\ \A b \in held \ heldBefore : Sources(b) = 1 => b \in pressed
    /\ heldBefore \ held \subseteq released
    /\ pressed \subseteq held /\ released \cap held = {}
    /\ pressed \cup released # {} => changed
=============================================================================
