----------------------------- MODULE StateScopes -----------------------------
(***************************************************************************)
(* What the component lists of an EntityState promise (entity_state.hpp):  *)
(* a state sees some components in a version of its own, and what the      *)
(* entity has outside of the state is as it was once the state is left.    *)
(* How a description is written (with fields or without) makes no          *)
(* difference to what the lists say, and there is nothing of it here.      *)
(***************************************************************************)
CONSTANTS
  States, Components, Values,
  Persist, Add, Remove, Freeze, Store, LocalCopy, InitCopy,
  Given, \* the value that a description constructs
  None   \* no value, no state

VARIABLES
  within, \* the state whose versions the entity has, or None
  base,   \* the components outside of the states
  own     \* the versions of each state

vars == <<within, base, own>>

Entity == [Components -> Values \cup {None}]

(* A state has its own version of what it freezes or stores. *)
Own(s) == Freeze[s] \cup Store[s]
Or(v, w) == IF v # None THEN v ELSE w

(* What a state added is removed with it, unless this state's or the next  *)
(* one's persist description includes it (52-56).                          *)
Taken(s, persist) == Add[s] \ (persist \cup Persist[s])

(* A persistent component is inherited, or added if it is not there (48);  *)
(* any other that the state adds is added or reconstructed (52).           *)
Described(s, c, v) ==
  LET left == IF c \in Remove[s] THEN None ELSE v
  IN  IF c \in Persist[s] THEN Or(left, Given)
      ELSE IF c \in Add[s] THEN Given ELSE left

Init == within = None /\ base \in Entity /\ own = [s \in States |-> [c \in Components |-> None]]

(* The entity, and the versions, after state s is left: what it persists   *)
(* is accounted for.                                                       *)
Left(s, persist) ==
  [c \in Components |->
    LET behind == IF c \in Store[s] \cup Taken(s, persist) THEN None
                  ELSE IF c \in Own(s) THEN own[s][c] ELSE base[c]
        outside == IF c \in Freeze[s] THEN Or(base[c], behind) ELSE behind
    IN  IF c \in Persist[s] THEN Or(outside, Given) ELSE outside]

Kept(s) == [own EXCEPT ![s] = [c \in Components |-> IF c \in Store[s] THEN @[c] ELSE None]]

(* State s is entered from the components and versions given: what it does *)
(* not freeze and has no version of is its own from now on.                *)
Outside(s, components) ==
  [c \in Components |->
    IF c \in Freeze[s] THEN components[c]
    ELSE IF c \in Store[s] THEN None ELSE Described(s, c, components[c])]
Inside(s, components, version) ==
  [c \in Components |->
    IF c \notin Own(s) THEN None
    ELSE LET copied == IF c \in LocalCopy[s] \cup InitCopy[s] \/ c \notin Freeze[s]
                       THEN components[c] ELSE None
         IN  Described(s, c, IF c \in LocalCopy[s] THEN Or(copied, version[c]) ELSE Or(version[c], copied))]

(* What becomes of the components, but for some of which nothing is said.  *)
Become(components, versions, but) ==
  /\ base' \in Entity /\ own' \in [States -> Entity]
  /\ \A c \in Components \ but :
       base'[c] = components[c] /\ \A s \in States : own'[s][c] = versions[s][c]

Entered(s, components, versions, but) ==
  /\ within' = s
  /\ Become(Outside(s, components), [versions EXCEPT ![s] = Inside(s, components, @)], but)

Leave(persist, but) ==
  /\ within # None
  /\ within' = None
  /\ Become(Left(within, persist), Kept(within), but)

Enter(s, but) == within = None /\ Entered(s, base, own, but)

Change(s, but) == within # None /\ Entered(s, Left(within, Persist[s]), Kept(within), but)

(* The game changes what the entity has. *)
Write(c, v) ==
  /\ IF within # None /\ c \in Own(within)
     THEN own' = [own EXCEPT ![within][c] = v] /\ UNCHANGED base
     ELSE base' = [base EXCEPT ![c] = v] /\ UNCHANGED own
  /\ UNCHANGED within

NextBut(but) ==
  \/ \E s \in States : Leave(Persist[s], but) \/ Enter(s, but) \/ Change(s, but)
  \/ \E c \in Components, v \in Values \cup {None} : Write(c, v)

Next == NextBut({})

Spec == Init /\ [][Next]_vars
=============================================================================
