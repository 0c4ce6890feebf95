---------------------------- MODULE InputDevices ----------------------------
(***************************************************************************)
(* The devices of app::input: what SDL tells of them, what they keep, and  *)
(* the events that polling them once per frame puts in the queues of the   *)
(* world.  A key stands for a key of the keyboard or a button of the       *)
(* mouse: both are read when they are polled.  A gamepad hears of its      *)
(* buttons from SDL's events; it tells a release at once and a button that *)
(* is down, like a stick that is off its rest, at each poll.               *)
(*                                                                         *)
(* SDL is external: a pad has one index for good, and the events of a pad  *)
(* come while it is plugged in.                                            *)
(***************************************************************************)
EXTENDS Integers, FiniteSets

CONSTANTS
  Keys,      \* keys of the keyboard and buttons of the mouse
  Pads,      \* gamepads
  PadButtons,\* the buttons of a gamepad
  Hats,      \* those that are directions of the D-pad
  Full       \* how far a stick or trigger goes: 0 at rest, then past the dead
             \* zone, and here past the threshold of its virtual button

ASSUME FiniteAssumption == IsFiniteSet(Keys) /\ IsFiniteSet(Pads) /\ IsFiniteSet(PadButtons)
ASSUME HatsAssumption == Hats \subseteq PadButtons
ASSUME FullAssumption == Full \in Nat \ {0}

VARIABLES
  locked,   \* InputHandler::locked: the keyboard and the mouse belong to the game
  keysDown, \* SDL: the keys that are down
  keysSeen, \* InputDevice::state, the last snapshot, of the two; their
            \* next_state is read again before each use
  plugged,  \* the gamepads that are plugged in, which are those with a handle
  padNext,  \* Gamepad::next_state
  padSeen,  \* InputDevice::state of each gamepad
  queue     \* the events queued for the world, by type

Tilts == 0 .. Full

Kinds == {"down", "up", "connected", "disconnected", "padDown", "padUp", "tilt"}

Untouched == [buttons |-> {}, tilt |-> 0]

DevicesInit ==
  /\ locked = TRUE
  /\ keysDown = {} /\ keysSeen = {}
  /\ plugged = {}
  /\ padNext = [p \in Pads |-> Untouched] /\ padSeen = [p \in Pads |-> Untouched]
  /\ queue = [t \in Kinds |-> {}]

keyboard == <<keysDown, keysSeen>>

Enqueue(t, e) == queue' = [queue EXCEPT ![t] = @ \cup {e}]

(* A key moves; nothing of the game hears of it before the next poll. *)
MoveKey(k) ==
  /\ keysDown' = IF k \in keysDown THEN keysDown \ {k} ELSE keysDown \cup {k}
  /\ UNCHANGED <<locked, keysSeen, plugged, padNext, padSeen, queue>>

(* SDL_JOYDEVICEADDED and SDL_JOYDEVICEREMOVED.  The handle is opened, or *)
(* closed; what the gamepad remembers of its buttons stays.               *)
Plug(p) ==
  /\ p \notin plugged
  /\ plugged' = plugged \cup {p}
  /\ Enqueue("connected", p)
  /\ UNCHANGED <<locked, keyboard, padNext, padSeen>>

Unplug(p) ==
  /\ p \in plugged
  /\ plugged' = plugged \ {p}
  /\ Enqueue("disconnected", p)
  /\ UNCHANGED <<locked, keyboard, padNext, padSeen>>

(* Gamepad::process_button_event with the defaults of the constructor: the *)
(* release is an event, the press only a bit of next_state.                *)
PadPress(p, b) ==
  /\ p \in plugged /\ b \notin padNext[p].buttons
  /\ padNext' = [padNext EXCEPT ![p].buttons = @ \cup {b}]
  /\ UNCHANGED <<locked, keyboard, plugged, padSeen, queue>>

(* A direction of the D-pad is told to be up only if the last poll saw it *)
(* down (handle_dpad_changes).                                            *)
PadRelease(p, b) ==
  /\ p \in plugged /\ b \in padNext[p].buttons
  /\ padNext' = [padNext EXCEPT ![p].buttons = @ \ {b}]
  /\ IF b \in Hats => b \in padSeen[p].buttons
       THEN Enqueue("padUp", <<p, b>>)
       ELSE UNCHANGED queue
  /\ UNCHANGED <<locked, keyboard, plugged, padSeen>>

PadTilt(p, t) ==
  /\ p \in plugged /\ t # padNext[p].tilt
  /\ padNext' = [padNext EXCEPT ![p].tilt = t]
  /\ UNCHANGED <<locked, keyboard, plugged, padSeen, queue>>

(* set_lock_status *)
ToggleLock ==
  /\ locked' = ~locked
  /\ UNCHANGED <<keyboard, plugged, padNext, padSeen, queue>>

----------------------------------------------------------------------------
(* Keyboard::poll and handle_manual_event_detection, while the input is *)
(* locked: a key that is down is told at each poll, one that went up    *)
(* since the last snapshot once.                                        *)
KeyDowns == keysDown
KeyUps   == keysSeen \ keysDown

(* Mutant: clear_state clears the snapshot with the next state. *)
SnapshotForgotten == IF locked THEN keysDown ELSE {}

(* clear_state, when the input is not locked, is of the next state alone. *)
Snapshot == IF locked THEN keysDown ELSE keysSeen

(* handle_analog_events, for a gamepad with a profile: when the value is *)
(* not that of the snapshot, or is past the dead zone.                   *)
Tilted == {p \in plugged : padNext[p].tilt # padSeen[p].tilt \/ padNext[p].tilt > 0}

(* InputHandler::poll, and InputDevice::poll of each device.  A gamepad is *)
(* polled even when its handle is closed.                                  *)
Poll ==
  /\ queue' = [queue EXCEPT
       !["down"] = IF locked THEN KeyDowns ELSE {},
       !["up"]   = IF locked THEN KeyUps ELSE {},
       !["padDown"] = {e \in Pads \X PadButtons : e[2] \in padNext[e[1]].buttons},
       !["tilt"] = {<<p, padNext[p].tilt>> : p \in Tilted}]
  /\ keysSeen' = Snapshot
  /\ padSeen' = padNext
  /\ UNCHANGED <<locked, keysDown, plugged, padNext>>

DevicesTypeOK ==
  /\ locked \in BOOLEAN
  /\ keysDown \subseteq Keys /\ keysSeen \subseteq Keys
  /\ plugged \subseteq Pads
  /\ padNext \in [Pads -> [buttons : SUBSET PadButtons, tilt : Tilts]]
  /\ padSeen \in [Pads -> [buttons : SUBSET PadButtons, tilt : Tilts]]
  /\ DOMAIN queue = Kinds
  /\ queue["down"] \subseteq Keys /\ queue["up"] \subseteq Keys
  /\ queue["connected"] \subseteq Pads /\ queue["disconnected"] \subseteq Pads
  /\ queue["padDown"] \subseteq Pads \X PadButtons /\ queue["padUp"] \subseteq Pads \X PadButtons
  /\ queue["tilt"] \subseteq Pads \X Tilts
=============================================================================
