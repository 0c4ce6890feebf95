----------------------- MODULE StatesAndScriptsProofs -----------------------
(***************************************************************************)
(* Theorems about what a description of an entity holds: its states and    *)
(* the scripts of the threads that they start.                             *)
(*                                                                         *)
(* EntityStates, for every set of states and components and all lists:     *)
(* decay leaves nothing frozen and stores only what the state stores,      *)
(* activation leaves nothing in its storage and freezes only what the      *)
(* state freezes; both take an entity to an entity.  From that, the        *)
(* refinement of StateScopes, component by component.                      *)
(*                                                                         *)
(* ThreadBuilder, for every set of scripts: a block ends where the level   *)
(* of its opening line is reached again, so the stack of builders is the   *)
(* blocks around the cursor, and the builder of a thread is that of the    *)
(* thread of the lines it reads.  Every line behind the cursor is then in  *)
(* one instruction of its thread or kept back by one builder of it.  And   *)
(* what is kept back was passed by nothing that would have it written.     *)
(***************************************************************************)
EXTENDS EntityStates, ThreadSteps, FiniteSetTheorems, SequenceTheorems, WellFoundedInduction, TLAPS


(* The operations on the components of an entity. *)
LEMMA PutTogether ==
  ASSUME NEW from \in Entity, NEW to \in Entity, NEW set
  PROVE  /\ With(set, from, to) \in Entity
         /\ Without(set, to) \in Entity
         /\ \A c \in Components :
              With(set, from, to)[c] # None => c \in set \/ to[c] # None
BY DEF Entity, With, Without, Or

LEMMA AbsentEntity == Absent \in Entity /\ \A c \in Components : Absent[c] = None
BY DEF Absent, Entity

(* What decay leaves of an entity. *)
LEMMA DecayLeaves ==
  ASSUME NEW s \in States, NEW then \in States,
         NEW components \in Entity, NEW cold \in Entity, NEW stored \in Entity
  PROVE  LET left == Decayed(s, Contents(components, cold, stored), Persist[then])
         IN  /\ left.components \in Entity
             /\ left.cold = Absent
             /\ left.stored \in Entity
<1> DEFINE added == Store[s] \cup (Add[s] \ (Persist[then] \cup Persist[s] \cup Fields[s]))
           put == With(Store[s], components, stored)
           thawed == With(Components, cold, Without(added, components))
           kept == [c \in Components |-> IF c \in Persist[s] THEN Or(thawed[c], Given) ELSE thawed[c]]
<1>1. put \in Entity
  BY PutTogether
<1>2. thawed \in Entity
  <2>1. Without(added, components) \in Entity
    BY PutTogether
  <2> QED
    BY <2>1, PutTogether
<1>3. kept \in Entity
  BY <1>2, ValuesAssumption DEF Entity, Or
<1>4. Decayed(s, Contents(components, cold, stored), Persist[then]) = Contents(kept, Absent, put)
  BY DEF Decayed, Contents
<1> HIDE DEF put, kept
<1> QED
  BY <1>1, <1>3, <1>4 DEF Contents

(* What activation leaves of an entity. *)
LEMMA ActivationLeaves ==
  ASSUME NEW s \in States,
         NEW components \in Entity, NEW cold \in Entity, NEW stored \in Entity
  PROVE  LET left == Activated(s, Contents(components, cold, stored))
         IN  /\ left.components \in Entity
             /\ left.stored = Absent
             /\ left.cold \in Entity
             /\ \A c \in Components :
                  left.cold[c] # None => c \in Freeze[s] \/ cold[c] # None
<1> DEFINE local == With(LocalCopy[s], components, stored)
           copies == [c \in Components |-> IF c \in InitCopy[s] THEN Or(local[c], components[c]) ELSE local[c]]
           retrieved == With(Components, copies, Without(Freeze[s], components))
           entered == Persisted(s, Added(s, Without(Remove[s], retrieved)))
           put == With(Freeze[s], components, cold)
<1>1. /\ put \in Entity
      /\ \A c \in Components : put[c] # None => c \in Freeze[s] \/ cold[c] # None
  BY PutTogether
<1>2. entered \in Entity
  <2>1. local \in Entity
    BY PutTogether
  <2>2. copies \in Entity
    BY <2>1 DEF Entity, Or
  <2>3. Without(Freeze[s], components) \in Entity
    BY PutTogether
  <2>4. retrieved \in Entity
    BY <2>2, <2>3, PutTogether
  <2>5. Without(Remove[s], retrieved) \in Entity
    BY <2>4, PutTogether
  <2>6. Added(s, Without(Remove[s], retrieved)) \in Entity
    BY <2>5, ValuesAssumption DEF Entity, Added
  <2> QED
    BY <2>6, ValuesAssumption DEF Entity, Persisted
<1>3. Activated(s, Contents(components, cold, stored)) = Contents(entered, put, Absent)
  BY DEF Activated, Contents
<1> HIDE DEF put, entered
<1> QED
  BY <1>1, <1>2, <1>3 DEF Contents

Inductive == TypeOK /\ PutAwayOnce

(* The current state and what it has, in the form that the operations take.*)
LEMMA CurrentEntity ==
  ASSUME Inductive, NEW s \in States
  PROVE  /\ Current(s) = Contents(registry, frozen[s], storage[s])
         /\ registry \in Entity /\ frozen[s] \in Entity /\ storage[s] \in Entity
BY DEF Inductive, TypeOK, Current

(* What the current state leaves to the next one. *)
LEMMA Leaving ==
  ASSUME Inductive, state \in States, NEW s \in States
  PROVE  /\ Decayed(state, Current(state), Persist[s]).components \in Entity
         /\ Decayed(state, Current(state), Persist[s]).cold = Absent
         /\ Decayed(state, Current(state), Persist[s]).stored \in Entity
         /\ \A c \in Components :
              Decayed(state, Current(state), Persist[s]).stored[c] # None => c \in Store[state]
<1>1. Current(state) = Contents(registry, frozen[state], storage[state])
  BY CurrentEntity
<1>2. registry \in Entity /\ frozen[state] \in Entity /\ storage[state] \in Entity
  BY CurrentEntity
<1>3. Decayed(state, Current(state), Persist[s]).components \in Entity
  BY <1>1, <1>2, DecayLeaves, SMTT(30), ZenonT(60)
<1>4. Decayed(state, Current(state), Persist[s]).cold = Absent
  BY <1>1, <1>2, DecayLeaves, SMTT(30), ZenonT(60)
<1>5. Decayed(state, Current(state), Persist[s]).stored \in Entity
  BY <1>1, <1>2, DecayLeaves, SMTT(30), ZenonT(60)
<1>6. ASSUME NEW c \in Components, Decayed(state, Current(state), Persist[s]).stored[c] # None
      PROVE  c \in Store[state]
  <2>1. storage[state][c] # None => c \in Store[state]
    BY DEF Inductive, PutAwayOnce
  <2>2. Decayed(state, Current(state), Persist[s]).stored = With(Store[state], registry, storage[state])
    BY <1>1 DEF Decayed, Contents
  <2> QED
    BY <1>2, <1>6, <2>1, <2>2, PutTogether
<1> QED
  BY <1>3, <1>4, <1>5, <1>6

(* A change to a delayed state: the state that is left puts its own away.  *)
LEMMA DelayedChange ==
  ASSUME Inductive, NEW s \in States, SetDelayed(s)
  PROVE  Inductive'
<1>1. state \in States /\ state' = s /\ ~active'
  BY DEF Inductive, TypeOK, SetDelayed
<1> DEFINE left == Decayed(state, Current(state), Persist[s])
<1>2. /\ left.components \in Entity
      /\ left.cold = Absent
      /\ left.stored \in Entity
      /\ \A c \in Components : left.stored[c] # None => c \in Store[state]
  BY <1>1, Leaving
<1>3. /\ registry' = left.components
      /\ frozen' = [frozen EXCEPT ![state] = left.cold]
      /\ storage' = [storage EXCEPT ![state] = left.stored]
  BY <1>1, ValuesAssumption DEF SetDelayed, Leaves, Departed
<1> HIDE DEF left
<1>4. registry' \in Entity /\ frozen' \in [States -> Entity] /\ storage' \in [States -> Entity]
  BY <1>1, <1>2, <1>3, AbsentEntity DEF Inductive, TypeOK
<1>5. timers' \in [States -> 0 .. MaxTimers] /\ timers'[s] > 0
  BY <1>1, ValuesAssumption DEF Inductive, TypeOK, SetDelayed
<1>6. state' # None /\ active' \in BOOLEAN /\ disturbed' \in BOOLEAN
  BY <1>1, ValuesAssumption DEF SetDelayed
<1>7. TypeOK'
  BY <1>1, <1>4, <1>5, <1>6 DEF TypeOK
<1>8. ASSUME NEW t \in States, NEW c \in Components
      PROVE  /\ frozen'[t][c] = None
             /\ storage'[t][c] # None => c \in Store[t]
  <2>1. CASE t = state
    BY <2>1, <1>1, <1>2, <1>3, AbsentEntity DEF Inductive, TypeOK, PutAwayOnce
  <2>2. CASE t # state
    BY <2>2, <1>1, <1>3 DEF Inductive, TypeOK, PutAwayOnce
  <2> QED
    BY <2>1, <2>2
<1> QED
  BY <1>1, <1>7, <1>8 DEF Inductive, PutAwayOnce

(* A change at once: what is left is put away, then the new state is       *)
(* activated from it, be it another one, the same one or the first.        *)
LEMMA ImmediateChange ==
  ASSUME Inductive, NEW s \in States, SetAtOnce(s)
  PROVE  Inductive'
<1> DEFINE before == Departed(s)
           from == IF s = state THEN before ELSE Contents(before.components, frozen[s], storage[s])
           entered == Activated(s, from)
<1>1. /\ before.components \in Entity /\ before.cold \in Entity /\ before.stored \in Entity
      /\ before = Contents(before.components, before.cold, before.stored)
      /\ state # None =>
           \A c \in Components : /\ before.cold[c] = None
                                 /\ before.stored[c] # None => c \in Store[state]
  <2>1. CASE state = None
    BY <2>1, CurrentEntity DEF Departed, Contents
  <2>2. CASE state # None
    <3>1. state \in States
      BY <2>2 DEF Inductive, TypeOK
    <3>2. before = Decayed(state, Current(state), Persist[s])
      BY <2>2 DEF Departed
    <3>3. before = Contents(before.components, before.cold, before.stored)
      BY <3>2 DEF Decayed, Contents
    <3> QED
      BY <3>1, <3>2, <3>3, Leaving, AbsentEntity
  <2> QED
    BY <2>1, <2>2
<1>2. /\ from = Contents(from.components, from.cold, from.stored)
      /\ from.components \in Entity /\ from.cold \in Entity /\ from.stored \in Entity
      /\ \A c \in Components : from.cold[c] = None
  <2>1. CASE s = state
    BY <2>1, <1>1, ValuesAssumption
  <2>2. CASE s # state
    <3>1. \A c \in Components : frozen[s][c] = None
      BY <2>2 DEF Inductive, PutAwayOnce
    <3> HIDE DEF before
    <3> QED
      BY <2>2, <3>1, <1>1, CurrentEntity DEF Contents
  <2> QED
    BY <2>1, <2>2
<1>3. entered = IF s = state THEN Activated(s, before)
                ELSE Activated(s, Contents(before.components, frozen[s], storage[s]))
  OBVIOUS
<1>4. /\ registry' = entered.components
      /\ frozen' = [t \in States |-> IF t = s THEN entered.cold
                                     ELSE IF t = state THEN before.cold ELSE frozen[t]]
      /\ storage' = [t \in States |-> IF t = s THEN entered.stored
                                      ELSE IF t = state THEN before.stored ELSE storage[t]]
  BY <1>3 DEF SetAtOnce
<1> HIDE DEF before, from
<1>5. /\ entered.components \in Entity /\ entered.stored = Absent /\ entered.cold \in Entity
      /\ \A c \in Components : entered.cold[c] # None => c \in Freeze[s]
  BY <1>2, ActivationLeaves
<1> HIDE DEF entered
<1>6. state' = s /\ s # None /\ active' /\ active' \in BOOLEAN /\ disturbed' \in BOOLEAN /\ timers' = timers
  BY ValuesAssumption DEF SetAtOnce
<1>7. registry' \in Entity /\ frozen' \in [States -> Entity] /\ storage' \in [States -> Entity]
  BY <1>1, <1>4, <1>5, AbsentEntity DEF Inductive, TypeOK
<1>8. TypeOK'
  BY <1>6, <1>7 DEF Inductive, TypeOK
<1>9. ASSUME NEW t \in States, NEW c \in Components
      PROVE  /\ frozen'[t][c] # None => t = s /\ c \in Freeze[s]
             /\ storage'[t][c] # None => t # s /\ c \in Store[t]
  <2>1. CASE t = s
    BY <2>1, <1>4, <1>5, AbsentEntity
  <2>2. CASE t # s /\ t = state
    BY <2>2, <1>1, <1>4, ValuesAssumption
  <2>3. CASE t # s /\ t # state
    BY <2>3, <1>4 DEF Inductive, PutAwayOnce
  <2> QED
    BY <2>1, <2>2, <2>3
<1> QED
  BY <1>6, <1>8, <1>9 DEF Inductive, PutAwayOnce

(* The activation of the current state by a timer, its own or an old one. *)
LEMMA TimedActivation ==
  ASSUME Inductive, NEW named \in States, TimerFires(named)
  PROVE  Inductive'
<1>1. state \in States /\ state' = state /\ active' /\ active' \in BOOLEAN /\ disturbed' \in BOOLEAN
  BY DEF Inductive, TypeOK, TimerFires, ActivateState
<1> DEFINE entered == Activated(state, Current(state))
<1>2. /\ entered.components \in Entity /\ entered.stored = Absent /\ entered.cold \in Entity
      /\ \A c \in Components : entered.cold[c] # None => c \in Freeze[state] \/ frozen[state][c] # None
  BY <1>1, CurrentEntity, ActivationLeaves
<1>3. /\ registry' = entered.components
      /\ frozen' = [frozen EXCEPT ![state] = entered.cold]
      /\ storage' = [storage EXCEPT ![state] = entered.stored]
  BY DEF TimerFires, ActivateState, Leaves
<1> HIDE DEF entered
<1>4. registry' \in Entity /\ frozen' \in [States -> Entity] /\ storage' \in [States -> Entity]
  BY <1>1, <1>2, <1>3, AbsentEntity DEF Inductive, TypeOK
<1>5. timers' \in [States -> 0 .. MaxTimers]
  BY ValuesAssumption DEF Inductive, TypeOK, TimerFires
<1>6. TypeOK'
  BY <1>1, <1>4, <1>5, ValuesAssumption DEF TypeOK
<1>7. ASSUME NEW t \in States, NEW c \in Components
      PROVE  /\ frozen'[t][c] # None => t = state /\ c \in Freeze[t]
             /\ storage'[t][c] # None => t # state /\ c \in Store[t]
  <2>1. CASE t = state
    BY <2>1, <1>1, <1>2, <1>3, AbsentEntity DEF Inductive, TypeOK, PutAwayOnce
  <2>2. CASE t # state
    BY <2>2, <1>1, <1>3 DEF Inductive, TypeOK, PutAwayOnce
  <2> QED
    BY <2>1, <2>2
<1> QED
  BY <1>1, <1>6, <1>7 DEF Inductive, PutAwayOnce

(* The game, and steps that change nothing. *)
LEMMA OtherSteps ==
  ASSUME Inductive,
         (\E c \in Components, v \in Values \cup {None} : Write(c, v)) \/ UNCHANGED vars
  PROVE  Inductive'
<1>1. /\ state' = state /\ frozen' = frozen /\ storage' = storage
      /\ timers' = timers /\ active' = active /\ disturbed' = disturbed
  BY DEF Write, vars
<1>2. registry' \in Entity
  BY DEF Inductive, TypeOK, Entity, Write, vars
<1>3. TypeOK'
  BY <1>1, <1>2 DEF Inductive, TypeOK
<1>4. PutAwayOnce'
  BY <1>1 DEF Inductive, PutAwayOnce
<1> QED
  BY <1>3, <1>4 DEF Inductive

(* Both conjuncts of Inductive hold in every reachable state. *)
LEMMA AlwaysInductive == Spec => []Inductive
<1>1. Init => Inductive
  <2> SUFFICES ASSUME Init PROVE Inductive
    OBVIOUS
  <2>1. frozen \in [States -> Entity] /\ storage \in [States -> Entity] /\ registry \in Entity
    BY AbsentEntity DEF Init, Entity
  <2>2. active \in BOOLEAN /\ ~active /\ disturbed \in BOOLEAN /\ state = None
    BY DEF Init
  <2>3. timers \in [States -> 0 .. MaxTimers] /\ \A s \in States : timers[s] = 0
    BY ValuesAssumption DEF Init
  <2>4. PutAwayOnce
    BY AbsentEntity DEF Init, PutAwayOnce
  <2> QED
    BY <2>1, <2>2, <2>3, <2>4 DEF Inductive, TypeOK
<1>2. Inductive /\ [Next]_vars => Inductive'
  <2> SUFFICES ASSUME Inductive, [Next]_vars PROVE Inductive'
    OBVIOUS
  <2>1. ASSUME NEW s \in States, SetDelayed(s) PROVE Inductive'
    BY <2>1, DelayedChange
  <2>2. ASSUME NEW s \in States, SetAtOnce(s) PROVE Inductive'
    BY <2>2, ImmediateChange
  <2>3. ASSUME NEW s \in States, TimerFires(s) PROVE Inductive'
    BY <2>3, TimedActivation
  <2> QED
    BY <2>1, <2>2, <2>3, OtherSteps DEF Next
<1> QED
  BY <1>1, <1>2, PTL DEF Spec

(* Type correctness; a state that is not active yet has its timer, whatever*)
(* changes of state and old timers come in between.                        *)
THEOREM TypeCorrect == Spec => []TypeOK
<1>1. Inductive => TypeOK
  BY DEF Inductive
<1> QED
  BY <1>1, AlwaysInductive, PTL

(* Nothing is put away twice: only the active state has frozen components, *)
(* only what it freezes, and an active state has nothing in its storage.   *)
THEOREM NothingPutAwayTwice == Spec => []PutAwayOnce
<1>1. Inductive => PutAwayOnce
  BY DEF Inductive
<1> QED
  BY <1>1, AlwaysInductive, PTL
-----------------------------------------------------------------------------
(* The refinement of StateScopes: component by component, decay leaves     *)
(* what leaving the scope of the state does, and activation what entering  *)
(* it does.  While a state is active, what it does not freeze was not put  *)
(* away and its storage is empty, by Inductive.                            *)

(* What the versions and the base are, by component. *)
LEMMA Scoped ==
  ASSUME Inductive, state \in States, active
  PROVE  /\ \A c \in Components :
              /\ Base[c] = IF c \in Freeze[state] THEN frozen[state][c]
                           ELSE IF c \in Store[state] THEN None ELSE registry[c]
              /\ Versions[state][c] = IF c \in Own(state) THEN registry[c] ELSE None
              /\ storage[state][c] = None
              /\ c \notin Freeze[state] => frozen[state][c] = None
         /\ \A t \in States \ {state} : Versions[t] = storage[t]
         /\ Versions \in [States -> Entity] /\ Base \in Entity
<1>1. /\ registry \in Entity /\ \A t \in States : frozen[t] \in Entity /\ storage[t] \in Entity
      /\ \A c \in Components :
           /\ storage[state][c] = None
           /\ c \notin Freeze[state] => frozen[state][c] = None
  BY DEF Inductive, TypeOK, PutAwayOnce
<1>2. \A c \in Components :
        Base[c] = IF c \in Freeze[state] THEN frozen[state][c]
                  ELSE IF c \in Store[state] THEN None ELSE registry[c]
  BY DEF Base
<1>3. \A c \in Components : Versions[state][c] = IF c \in Own(state) THEN registry[c] ELSE None
  BY <1>1 DEF Versions
<1>4. ASSUME NEW t \in States \ {state} PROVE Versions[t] = storage[t]
  <2>1. Versions[t] = [c \in Components |-> storage[t][c]]
    BY DEF Versions
  <2> QED
    BY <1>1, <2>1 DEF Entity
<1>5. Versions \in [States -> Entity] /\ Base \in Entity
  BY <1>1 DEF Versions, Base, Entity
<1> QED
  BY <1>1, <1>2, <1>3, <1>4, <1>5

(* The same of the state after a step.                                     *)
LEMMA ScopedAfter ==
  ASSUME Inductive', state' \in States, active'
  PROVE  /\ \A c \in Components :
              /\ Base'[c] = IF c \in Freeze[state'] THEN frozen'[state'][c]
                            ELSE IF c \in Store[state'] THEN None ELSE registry'[c]
              /\ Versions'[state'][c] = IF c \in Own(state') THEN registry'[c] ELSE None
         /\ \A t \in States \ {state'} : Versions'[t] = storage'[t]
         /\ Versions' \in [States -> Entity] /\ Base' \in Entity
<1>1. /\ registry' \in Entity /\ \A t \in States : frozen'[t] \in Entity /\ storage'[t] \in Entity
      /\ \A c \in Components : storage'[state'][c] = None
  BY DEF Inductive, TypeOK, PutAwayOnce
<1>2. \A c \in Components : Versions'[state'][c] = IF c \in Own(state') THEN registry'[c] ELSE None
  BY <1>1 DEF Versions
<1>3. ASSUME NEW t \in States \ {state'} PROVE Versions'[t] = storage'[t]
  <2>1. Versions'[t] = [c \in Components |-> storage'[t][c]]
    BY DEF Versions
  <2> QED
    BY <1>1, <2>1 DEF Entity
<1>4. Versions' \in [States -> Entity] /\ Base' \in Entity
  BY <1>1 DEF Versions, Base, Entity
<1> QED
  BY <1>2, <1>3, <1>4 DEF Base

(* While no state is active the entity is outside of all of them. *)
LEMMA Unscoped ==
  ASSUME Inductive, ~active
  PROVE  Base = registry /\ Versions = storage
<1>1. registry \in Entity /\ storage \in [States -> Entity]
  BY DEF Inductive, TypeOK
<1>2. Base = [c \in Components |-> registry[c]]
  BY DEF Base
<1>3. Versions = [t \in States |-> [c \in Components |-> storage[t][c]]]
  BY DEF Versions
<1> QED
  BY <1>1, <1>2, <1>3 DEF Entity

(* The same of the state after a step.                                     *)
LEMMA UnscopedAfter ==
  ASSUME Inductive', ~active'
  PROVE  Base' = registry' /\ Versions' = storage'
<1>1. registry' \in Entity /\ storage' \in [States -> Entity]
  BY DEF Inductive, TypeOK
<1>2. Base' = [c \in Components |-> registry'[c]]
  BY DEF Base
<1>3. Versions' = [t \in States |-> [c \in Components |-> storage'[t][c]]]
  BY DEF Versions
<1> QED
  BY <1>1, <1>2, <1>3 DEF Entity

(* Becoming something, component by component.                             *)
LEMMA Becoming ==
  ASSUME Base' \in Entity, Versions' \in [States -> Entity],
         NEW components, NEW versions, NEW but,
         \A c \in Components \ but :
           Base'[c] = components[c] /\ \A t \in States : Versions'[t][c] = versions[t][c]
  PROVE  Scopes!Become(components, versions, but)
BY DEF Scopes!Become, Scopes!Entity, Entity

(* What decay leaves is what leaving the scope leaves, but for what was    *)
(* added with fields and is still there.                                   *)
LEMMA DecayIsLeaving ==
  ASSUME Inductive, state \in States, active, NEW s \in States
  PROVE  LET left == Decayed(state, Current(state), Persist[s])
         IN  /\ \A c \in Components :
                  (c \in Fields[state] \ (Store[state] \cup Persist[state] \cup Persist[s]) => registry[c] = None)
                    => left.components[c] = Scopes!Left(state, Persist[s])[c]
             /\ Scopes!Kept(state) = [Versions EXCEPT ![state] = left.stored]
<1> DEFINE left == Decayed(state, Current(state), Persist[s])
<1>1. left.components \in Entity /\ left.stored \in Entity
  BY Leaving
<1>2. Current(state) = Contents(registry, frozen[state], storage[state])
  BY CurrentEntity
<1>3. ASSUME NEW c \in Components,
             c \in Fields[state] \ (Store[state] \cup Persist[state] \cup Persist[s]) => registry[c] = None
      PROVE  left.components[c] = Scopes!Left(state, Persist[s])[c]
  <2>1. left.components[c] =
          LET gone == c \in Store[state] \/ c \in Add[state] \ (Persist[s] \cup Persist[state] \cup Fields[state])
              thawed == Or(frozen[state][c], IF gone THEN None ELSE registry[c])
          IN  IF c \in Persist[state] THEN Or(thawed, Given) ELSE thawed
    BY <1>2 DEF Decayed, Contents, With, Without
  <2>2. /\ Base[c] = IF c \in Freeze[state] THEN frozen[state][c]
                     ELSE IF c \in Store[state] THEN None ELSE registry[c]
        /\ Versions[state][c] = IF c \in Own(state) THEN registry[c] ELSE None
        /\ c \notin Freeze[state] => frozen[state][c] = None
    BY Scoped
  <2>3. Scopes!Left(state, Persist[s])[c] =
          LET behind == IF c \in Store[state] \cup Scopes!Taken(state, Persist[s]) THEN None
                        ELSE IF c \in Scopes!Own(state) THEN Versions[state][c] ELSE Base[c]
              outside == IF c \in Freeze[state] THEN Scopes!Or(Base[c], behind) ELSE behind
          IN  IF c \in Persist[state] THEN Scopes!Or(outside, Given) ELSE outside
    BY DEF Scopes!Left
  <2>4. Fields[state] \subseteq Add[state]
    BY ListsAssumption
  <2> HIDE DEF left
  <2> QED
    BY <1>3, <2>1, <2>2, <2>3, <2>4 DEF Scopes!Taken, Scopes!Own, Scopes!Or, Or, Own
<1>5. left.stored = [c \in Components |-> IF c \in Store[state] THEN Versions[state][c] ELSE None]
  <2>1. ASSUME NEW c \in Components
        PROVE  left.stored[c] = IF c \in Store[state] THEN Versions[state][c] ELSE None
    <3>1. left.stored[c] = IF c \in Store[state] THEN Or(registry[c], storage[state][c]) ELSE storage[state][c]
      BY <1>2 DEF Decayed, Contents, With
    <3>2. storage[state][c] = None /\ Versions[state][c] = IF c \in Own(state) THEN registry[c] ELSE None
      BY Scoped
    <3> HIDE DEF left
    <3> QED
      BY <3>1, <3>2 DEF Or, Own
  <2>2. left.stored = [c \in Components |-> left.stored[c]]
    BY <1>1 DEF Entity
  <2> HIDE DEF left
  <2> QED
    BY <2>1, <2>2
<1>6. Versions \in [States -> Entity]
  BY Scoped
<1> HIDE DEF left
<1>7. Scopes!Kept(state) = [Versions EXCEPT ![state] = left.stored]
  BY <1>5, <1>6 DEF Scopes!Kept
<1> QED
  BY <1>3, <1>7 DEF left

(* What activation makes of an entity for which nothing is frozen, and of  *)
(* which the state stored no more than it stores: of a component that it   *)
(* neither assigns only nor constructs anew, what the lists say.           *)
LEMMA ActivationDescribes ==
  ASSUME NEW s \in States, NEW components \in Entity, NEW cold \in Entity, NEW stored \in Entity,
         \A c \in Components : cold[c] = None,
         \A c \in Components : stored[c] # None => c \in Store[s],
         NEW c \in Components,
         c \in Fields[s] \ Persist[s] => Activated(s, Contents(components, cold, stored)).components[c] = Given,
         c \in Plain[s] => Activated(s, Contents(components, cold, stored)).components[c] # Given
  PROVE  LET a == Activated(s, Contents(components, cold, stored))
             copied == IF c \in LocalCopy[s] \cup InitCopy[s] \/ c \notin Freeze[s] THEN components[c] ELSE None
         IN  /\ a.cold[c] = IF c \in Freeze[s] THEN components[c] ELSE None
             /\ c \notin Own(s) => a.components[c] = Scopes!Described(s, c, components[c])
             /\ c \in Own(s) => a.components[c] =
                  Scopes!Described(s, c, IF c \in LocalCopy[s] THEN Or(copied, stored[c]) ELSE Or(stored[c], copied))
<1> DEFINE a == Activated(s, Contents(components, cold, stored))
           local == With(LocalCopy[s], components, stored)
           copies == [d \in Components |-> IF d \in InitCopy[s] THEN Or(local[d], components[d]) ELSE local[d]]
           retrieved == With(Components, copies, Without(Freeze[s], components))
           entered == Persisted(s, Added(s, Without(Remove[s], retrieved)))
<1>1. a.cold = With(Freeze[s], components, cold) /\ a.components = entered
  BY DEF Activated, Contents
<1>2. local[c] = IF c \in LocalCopy[s] THEN Or(components[c], stored[c]) ELSE stored[c]
  BY DEF With
<1>3. copies[c] = IF c \in InitCopy[s] THEN Or(local[c], components[c]) ELSE local[c]
  OBVIOUS
<1>4. retrieved[c] = Or(copies[c], IF c \in Freeze[s] THEN None ELSE components[c])
  BY DEF With, Without
<1> HIDE DEF retrieved
<1>5. entered[c] = Scopes!Described(s, c, retrieved[c])
  <2>1. Without(Remove[s], retrieved)[c] = IF c \in Remove[s] THEN None ELSE retrieved[c]
    BY DEF Without
  <2>2. Added(s, Without(Remove[s], retrieved))[c] =
          IF c \in Add[s] \ (Fields[s] \cup Persist[s]) THEN Given ELSE Without(Remove[s], retrieved)[c]
    BY DEF Added
  <2>3. entered[c] = IF c \in Persist[s] /\ (Added(s, Without(Remove[s], retrieved))[c] = None \/ c \in Plain[s])
                     THEN Given ELSE Added(s, Without(Remove[s], retrieved))[c]
    BY DEF Persisted
  <2>4. Plain[s] \subseteq Persist[s] /\ Fields[s] \subseteq Add[s]
    BY ListsAssumption
  <2>5. c \notin Plain[s] /\ (c \in Fields[s] \ Persist[s] => entered[c] = Given)
    <3>1. (c \in Fields[s] \ Persist[s] => entered[c] = Given) /\ (c \in Plain[s] => entered[c] # Given)
      BY <1>1
    <3> HIDE DEF entered
    <3> QED
      BY <2>3, <2>4, <3>1
  <2> HIDE DEF entered
  <2> QED
    BY <2>1, <2>2, <2>3, <2>4, <2>5 DEF Scopes!Described, Scopes!Or
<1>6. a.cold[c] = IF c \in Freeze[s] THEN components[c] ELSE None
  BY <1>1 DEF With, Or
<1> HIDE DEF entered, a, copies, local
<1>7. LocalCopy[s] \subseteq Freeze[s] /\ InitCopy[s] \subseteq Freeze[s] \cap Store[s]
  BY CopiesAssumption
<1>8. CASE c \notin Own(s)
  <2>1. stored[c] = None /\ c \notin Freeze[s] /\ c \notin LocalCopy[s] /\ c \notin InitCopy[s]
    BY <1>7, <1>8 DEF Own
  <2>2. retrieved[c] = components[c]
    BY <1>2, <1>3, <1>4, <2>1 DEF Or
  <2> QED
    BY <1>1, <1>5, <1>6, <1>8, <2>2 DEF a
<1>9. CASE c \in Own(s)
  <2> DEFINE copied == IF c \in LocalCopy[s] \cup InitCopy[s] \/ c \notin Freeze[s] THEN components[c] ELSE None
  <2>1. retrieved[c] = IF c \in LocalCopy[s] THEN Or(copied, stored[c]) ELSE Or(stored[c], copied)
    BY <1>2, <1>3, <1>4, <1>7 DEF Or
  <2> QED
    BY <1>1, <1>5, <1>6, <1>9, <2>1 DEF a
<1> QED
  BY <1>8, <1>9

(* A step that activates s from the components and the stored versions at  *)
(* hand enters the scope of s from them, or from what should be there.     *)
LEMMA ActivationIsEntering ==
  ASSUME Inductive', NEW s \in States, NEW components \in Entity, NEW cold \in Entity, NEW kept \in [States -> Entity],
         \A c \in Components : cold[c] = None,
         \A c \in Components : kept[s][c] # None => c \in Store[s],
         active', state' = s,
         registry' = Activated(s, Contents(components, cold, kept[s])).components,
         frozen'[s] = Activated(s, Contents(components, cold, kept[s])).cold,
         \A t \in States \ {s} : storage'[t] = kept[t],
         NEW promised, NEW but, OnlyAssigned \cup ConstructedAnew \subseteq but,
         \A c \in Components \ but : components[c] = promised[c]
  PROVE  Scopes!Entered(s, promised, kept, but)
<1> DEFINE a == Activated(s, Contents(components, cold, kept[s]))
<1>1. registry' = a.components /\ frozen'[s] = a.cold
  OBVIOUS
<1>2. ASSUME NEW c \in Components \ but
      PROVE  LET copied == IF c \in LocalCopy[s] \cup InitCopy[s] \/ c \notin Freeze[s] THEN components[c] ELSE None
             IN  /\ a.cold[c] = IF c \in Freeze[s] THEN components[c] ELSE None
                 /\ c \notin Own(s) => a.components[c] = Scopes!Described(s, c, components[c])
                 /\ c \in Own(s) => a.components[c] =
                      Scopes!Described(s, c, IF c \in LocalCopy[s] THEN Or(copied, kept[s][c]) ELSE Or(kept[s][c], copied))
  <2>1. /\ c \in Fields[s] \ Persist[s] => registry'[c] = Given
        /\ c \in Plain[s] => registry'[c] # Given
    <3>1. OnlyAssigned = {d \in Fields[s] \ Persist[s] : registry'[d] # Given}
      BY DEF OnlyAssigned
    <3>2. ConstructedAnew = {d \in Plain[s] : registry'[d] = Given}
      BY DEF ConstructedAnew
    <3> QED
      BY <3>1, <3>2
  <2>2. /\ c \in Fields[s] \ Persist[s] => a.components[c] = Given
        /\ c \in Plain[s] => a.components[c] # Given
    BY <1>1, <2>1
  <2>3. kept[s] \in Entity /\ c \in Components
    OBVIOUS
  <2> QED
    BY <2>2, <2>3, ActivationDescribes
<1> HIDE DEF a
<1>3. /\ \A c \in Components :
           /\ Base'[c] = IF c \in Freeze[s] THEN frozen'[s][c] ELSE IF c \in Store[s] THEN None ELSE registry'[c]
           /\ Versions'[s][c] = IF c \in Own(s) THEN registry'[c] ELSE None
      /\ \A t \in States \ {s} : Versions'[t] = storage'[t]
      /\ Versions' \in [States -> Entity] /\ Base' \in Entity
  BY ScopedAfter
<1> DEFINE outside == Scopes!Outside(s, promised)
           inside == Scopes!Inside(s, promised, kept[s])
<1>4. ASSUME NEW c \in Components \ but PROVE Base'[c] = outside[c]
  <2>1. outside[c] = IF c \in Freeze[s] THEN promised[c]
                     ELSE IF c \in Store[s] THEN None ELSE Scopes!Described(s, c, promised[c])
    BY DEF Scopes!Outside
  <2> HIDE DEF outside
  <2> QED
    BY <1>1, <1>2, <1>3, <2>1 DEF Own
<1>5. ASSUME NEW c \in Components \ but PROVE Versions'[s][c] = inside[c]
  <2>1. Scopes!Own(s) = Own(s) /\ \A v, w : Scopes!Or(v, w) = Or(v, w)
    BY DEF Scopes!Own, Scopes!Or, Own, Or
  <2>2. inside[c] =
          IF c \notin Scopes!Own(s) THEN None
          ELSE LET copied == IF c \in LocalCopy[s] \cup InitCopy[s] \/ c \notin Freeze[s]
                             THEN promised[c] ELSE None
               IN  Scopes!Described(s, c, IF c \in LocalCopy[s] THEN Scopes!Or(copied, kept[s][c])
                                          ELSE Scopes!Or(kept[s][c], copied))
    BY DEF Scopes!Inside
  <2> HIDE DEF inside
  <2> QED
    BY <1>1, <1>2, <1>3, <2>1, <2>2
<1> HIDE DEF outside, inside
<1>6. \A t \in States \ {s} : Versions'[t] = kept[t]
  BY <1>3
<1> DEFINE versions == [kept EXCEPT ![s] = inside]
<1>7. ASSUME NEW c \in Components \ but, NEW t \in States PROVE Versions'[t][c] = versions[t][c]
  BY <1>5, <1>6
<1> HIDE DEF versions
<1>8. Scopes!Become(outside, versions, but)
  BY <1>3, <1>4, <1>7, Becoming
<1> QED
  BY <1>8 DEF Scopes!Entered, versions, outside, inside

(* Every operation is one of the scopes', but for what is excepted and     *)
(* unless it disturbs them: a delayed change leaves the scope of the state.*)
LEMMA DelayedLeaves ==
  ASSUME Inductive, Inductive', NEW s \in States, SetDelayed(s), ~disturbed'
  PROVE  Scopes!Leave(Persist[s], Excepted)
<1>1. active /\ ~active' /\ state \in States /\ state # None /\ state' = s
  BY DEF Inductive, TypeOK, SetDelayed
<1> DEFINE left == Decayed(state, Current(state), Persist[s])
<1>2. registry' = left.components /\ storage' = [storage EXCEPT ![state] = left.stored]
  BY <1>1 DEF SetDelayed, Leaves, Departed
<1>3. /\ \A c \in Components \ LeftBehind : left.components[c] = Scopes!Left(state, Persist[s])[c]
      /\ Scopes!Kept(state) = [Versions EXCEPT ![state] = left.stored]
  <2>1. LeftBehind = {c \in Fields[state] \ (Store[state] \cup Persist[state] \cup Persist[s]) : registry[c] # None}
    BY <1>1 DEF LeftBehind
  <2>2. /\ \A c \in Components :
             (c \in Fields[state] \ (Store[state] \cup Persist[state] \cup Persist[s]) => registry[c] = None)
               => left.components[c] = Scopes!Left(state, Persist[s])[c]
        /\ Scopes!Kept(state) = [Versions EXCEPT ![state] = left.stored]
    BY <1>1, DecayIsLeaving
  <2> HIDE DEF left
  <2> QED
    BY <2>1, <2>2
<1> HIDE DEF left
<1>4. Base' = registry' /\ Versions' = storage' /\ registry' \in Entity /\ storage' \in [States -> Entity]
  BY <1>1, UnscopedAfter DEF Inductive, TypeOK
<1>5. storage' = [Versions EXCEPT ![state] = left.stored]
  <2>1. Versions \in [States -> Entity] /\ \A t \in States \ {state} : Versions[t] = storage[t]
    BY <1>1, Scoped
  <2>2. storage \in [States -> Entity]
    BY DEF Inductive, TypeOK
  <2> QED
    BY <1>1, <1>2, <2>1, <2>2
<1>6. Scopes!Become(Scopes!Left(state, Persist[s]), Scopes!Kept(state), Excepted)
  <2>1. \A c \in Components \ Excepted :
          /\ Base'[c] = Scopes!Left(state, Persist[s])[c]
          /\ \A t \in States : Versions'[t][c] = Scopes!Kept(state)[t][c]
    BY <1>2, <1>3, <1>4, <1>5 DEF Excepted
  <2> QED
    BY <1>4, <2>1, Becoming
<1> QED
  BY <1>1, <1>6 DEF Scopes!Leave

(* A change at once leaves the scope of the state, if there is one, and    *)
(* enters that of the next.                                                *)
LEMMA ImmediateEnters ==
  ASSUME Inductive, Inductive', NEW s \in States, SetAtOnce(s), ~disturbed'
  PROVE  Scopes!Enter(s, Excepted) \/ Scopes!Change(s, Excepted)
<1>1. active' /\ state' = s /\ s # None /\ (state = None \/ active)
  BY ValuesAssumption DEF SetAtOnce
<1>2. registry \in Entity /\ storage \in [States -> Entity] /\ frozen \in [States -> Entity]
  BY DEF Inductive, TypeOK
<1> DEFINE but == Excepted
<1>3. LeftBehind \cup OnlyAssigned \cup ConstructedAnew = but
  BY DEF Excepted
<1> HIDE DEF but
<1>4. CASE state = None
  <2>1. ~active /\ state # s
    BY <1>1, <1>4 DEF Inductive, TypeOK
  <2>2. Base = registry /\ Versions = storage
    BY <2>1, Unscoped
  <2>3. Departed(s).components = registry
    BY <1>4 DEF Departed, Current, Contents
  <2> DEFINE entered == Activated(s, Contents(registry, frozen[s], storage[s]))
  <2>4. registry' = entered.components /\ frozen'[s] = entered.cold /\ \A t \in States \ {s} : storage'[t] = storage[t]
    BY <1>4, <2>1, <2>3, ValuesAssumption DEF SetAtOnce
  <2>5. \A c \in Components : frozen[s][c] = None /\ (storage[s][c] # None => c \in Store[s])
    BY <2>1 DEF Inductive, PutAwayOnce
  <2>6. frozen[s] \in Entity
    BY <1>2
  <2>7. Scopes!Entered(s, registry, storage, but)
    BY <1>1, <1>2, <1>3, <2>4, <2>5, <2>6, ActivationIsEntering
  <2> QED
    BY <2>1, <2>2, <2>7 DEF Scopes!Enter, but
<1>5. CASE state # None
  <2>1. state \in States /\ active
    BY <1>1, <1>5 DEF Inductive, TypeOK
  <2> DEFINE left == Decayed(state, Current(state), Persist[s])
             kept == [Versions EXCEPT ![state] = left.stored]
             cold == IF s = state THEN left.cold ELSE frozen[s]
             entered == Activated(s, Contents(left.components, cold, kept[s]))
  <2>2. /\ left.components \in Entity /\ left.cold = Absent /\ left.stored \in Entity
        /\ \A c \in Components : left.stored[c] # None => c \in Store[state]
    BY <2>1, Leaving
  <2>3. /\ \A c \in Components \ but : left.components[c] = Scopes!Left(state, Persist[s])[c]
        /\ Scopes!Kept(state) = kept
    <3>1. LeftBehind = {c \in Fields[state] \ (Store[state] \cup Persist[state] \cup Persist[s]) : registry[c] # None}
      BY <1>1, <2>1 DEF LeftBehind
    <3>2. /\ \A c \in Components :
               (c \in Fields[state] \ (Store[state] \cup Persist[state] \cup Persist[s]) => registry[c] = None)
                 => left.components[c] = Scopes!Left(state, Persist[s])[c]
          /\ Scopes!Kept(state) = kept
      BY <2>1, DecayIsLeaving
    <3> HIDE DEF left, kept
    <3> QED
      BY <1>3, <3>1, <3>2
  <2>4. left = Contents(left.components, left.cold, left.stored)
    BY DEF Decayed, Contents
  <2>5. Departed(s) = left
    BY <1>5 DEF Departed
  <2>6. /\ Versions \in [States -> Entity]
        /\ \A t \in States \ {state} : Versions[t] = storage[t]
    BY <2>1, Scoped
  <2> HIDE DEF left
  <2>7. /\ kept \in [States -> Entity] /\ kept[state] = left.stored
        /\ \A t \in States \ {state} : kept[t] = storage[t]
    BY <2>1, <2>2, <2>6
  <2>8. (IF s = state THEN Activated(s, Departed(s))
         ELSE Activated(s, Contents(Departed(s).components, frozen[s], storage[s]))) = entered
    BY <2>4, <2>5, <2>7
  <2>9. /\ registry' = entered.components /\ frozen'[s] = entered.cold
        /\ \A t \in States \ {s} : storage'[t] = IF t = state THEN left.stored ELSE storage[t]
    BY <2>5, <2>8 DEF SetAtOnce
  <2>10. cold \in Entity /\ \A c \in Components : cold[c] = None
    BY <1>2, <2>2, AbsentEntity DEF Inductive, PutAwayOnce
  <2>11. \A c \in Components : kept[s][c] # None => c \in Store[s]
    <3>1. CASE s = state
      BY <2>2, <2>7, <3>1
    <3>2. CASE s # state
      BY <2>7, <3>2 DEF Inductive, PutAwayOnce
    <3> QED
      BY <3>1, <3>2
  <2> HIDE DEF kept, cold
  <2>12. \A t \in States \ {s} : storage'[t] = kept[t]
    BY <2>7, <2>9
  <2>13. Scopes!Entered(s, Scopes!Left(state, Persist[s]), kept, but)
    <3>1. /\ registry' = Activated(s, Contents(left.components, cold, kept[s])).components
          /\ frozen'[s] = Activated(s, Contents(left.components, cold, kept[s])).cold
      BY <2>9
    <3>2. /\ OnlyAssigned \cup ConstructedAnew \subseteq but
          /\ \A c \in Components \ but : left.components[c] = Scopes!Left(state, Persist[s])[c]
      BY <1>3, <2>3
    <3> QED
      BY ONLY <1>1, <2>2, <2>7, <2>10, <2>11, <2>12, <3>1, <3>2, ActivationIsEntering, Inductive',
              s \in States, ZenonT(60), SMTT(60)
  <2> QED
    BY <1>5, <2>1, <2>3, <2>13 DEF Scopes!Change, but
<1> QED
  BY <1>4, <1>5

(* The activation of a state that waited for it.                           *)
LEMMA TimerEnters ==
  ASSUME Inductive, Inductive', NEW named \in States, TimerFires(named), ~disturbed'
  PROVE  \E s \in States : Scopes!Enter(s, Excepted)
<1>1. ~active /\ active' /\ state \in States /\ state' = state
  BY DEF Inductive, TypeOK, TimerFires, ActivateState
<1>2. registry \in Entity /\ storage \in [States -> Entity] /\ frozen[state] \in Entity /\ frozen \in [States -> Entity]
  BY <1>1 DEF Inductive, TypeOK
<1> DEFINE entered == Activated(state, Contents(registry, frozen[state], storage[state]))
<1>3. /\ registry' = entered.components /\ frozen'[state] = entered.cold
      /\ \A t \in States \ {state} : storage'[t] = storage[t]
  BY <1>1, <1>2 DEF TimerFires, ActivateState, Leaves, Current
<1>4. \A c \in Components : frozen[state][c] = None /\ (storage[state][c] # None => c \in Store[state])
  BY <1>1 DEF Inductive, PutAwayOnce
<1> DEFINE but == Excepted
<1>5. OnlyAssigned \cup ConstructedAnew \subseteq but
  BY DEF Excepted
<1> HIDE DEF but
<1>6. ASSUME NEW s \in States, s = state PROVE Scopes!Entered(s, registry, storage, but)
  <2>1. /\ registry' = Activated(s, Contents(registry, frozen[s], storage[s])).components
        /\ frozen'[s] = Activated(s, Contents(registry, frozen[s], storage[s])).cold
        /\ \A t \in States \ {s} : storage'[t] = storage[t]
        /\ \A c \in Components : frozen[s][c] = None /\ (storage[s][c] # None => c \in Store[s])
        /\ state' = s /\ frozen[s] \in Entity
    BY <1>1, <1>2, <1>3, <1>4, <1>6
  <2> QED
    BY <1>1, <1>2, <1>5, <2>1, ActivationIsEntering
<1>7. Base = registry /\ Versions = storage
  BY <1>1, Unscoped
<1> QED
  BY <1>1, <1>6, <1>7 DEF Scopes!Enter, but

(* A write goes to the version of the active state or to the base.         *)
LEMMA WriteWrites ==
  ASSUME Inductive, Inductive', NEW c \in Components, NEW v \in Values \cup {None}, Write(c, v)
  PROVE  Scopes!Write(c, v)
<1>1. /\ registry \in Entity /\ registry' = [registry EXCEPT ![c] = v]
      /\ UNCHANGED <<state, frozen, storage, active>>
  BY DEF Write, Inductive, TypeOK
<1>2. CASE active
  <2>1. state \in States /\ state # None
    BY <1>2, ValuesAssumption DEF Inductive, TypeOK
  <2>2. /\ Versions \in [States -> Entity] /\ Base \in Entity
        /\ Versions' \in [States -> Entity] /\ Base' \in Entity
    BY <1>1, <1>2, <2>1, Scoped, ScopedAfter
  <2>3. \A d \in Components \ {c} : registry'[d] = registry[d]
    BY <1>1 DEF Entity
  <2>4. registry'[c] = v
    BY <1>1 DEF Entity
  <2>5. \A d \in Components :
          /\ Base[d] = IF d \in Freeze[state] THEN frozen[state][d]
                       ELSE IF d \in Store[state] THEN None ELSE registry[d]
          /\ Base'[d] = IF d \in Freeze[state] THEN frozen[state][d]
                        ELSE IF d \in Store[state] THEN None ELSE registry'[d]
    BY <1>1, <1>2 DEF Base
  <2>6. /\ \A t \in States \ {state} : Versions'[t] = Versions[t]
        /\ \A d \in Components :
             /\ Versions[state][d] = IF d \in Own(state) THEN registry[d] ELSE None
             /\ Versions'[state][d] = IF d \in Own(state) THEN registry'[d] ELSE None
    BY <1>1, <1>2, <2>1, Scoped, ScopedAfter
  <2>7. CASE c \in Own(state)
    <3>1. Base' = Base
      <4>1. \A d \in Components : Base'[d] = Base[d]
        BY <2>3, <2>5, <2>7 DEF Own
      <4> QED
        BY <2>2, <4>1 DEF Entity
    <3>2. Versions'[state] = [Versions[state] EXCEPT ![c] = v]
      <4>1. Versions[state] \in Entity /\ Versions'[state] \in Entity
        BY <2>1, <2>2
      <4>2. Versions'[state][c] = v /\ \A d \in Components \ {c} : Versions'[state][d] = Versions[state][d]
        BY <2>3, <2>4, <2>6, <2>7
      <4> QED
        BY <4>1, <4>2 DEF Entity
    <3>3. Versions' = [Versions EXCEPT ![state][c] = v]
      BY <2>1, <2>2, <2>6, <3>2
    <3> QED
      BY <1>1, <1>2, <2>1, <2>7, <3>1, <3>3 DEF Scopes!Write, Scopes!Own, Own
  <2>8. CASE c \notin Own(state)
    <3>1. Versions' = Versions
      <4>1. Versions[state] \in Entity /\ Versions'[state] \in Entity
        BY <2>1, <2>2
      <4>2. \A d \in Components : Versions'[state][d] = Versions[state][d]
        BY <2>3, <2>6, <2>8
      <4>3. Versions'[state] = Versions[state]
        BY <4>1, <4>2 DEF Entity
      <4> QED
        BY <2>2, <2>6, <4>3
    <3>2. Base' = [Base EXCEPT ![c] = v]
      <4>1. Base'[c] = v /\ \A d \in Components \ {c} : Base'[d] = Base[d]
        BY <2>3, <2>4, <2>5, <2>8 DEF Own
      <4> QED
        BY <2>2, <4>1 DEF Entity
    <3> QED
      BY <1>1, <1>2, <2>1, <2>8, <3>1, <3>2 DEF Scopes!Write, Scopes!Own, Own
  <2> QED
    BY <2>7, <2>8
<1>3. CASE ~active
  <2>1. Base = registry /\ Versions = storage /\ Base' = registry' /\ Versions' = storage'
    BY <1>1, <1>3, Unscoped, UnscopedAfter
  <2> QED
    BY <1>1, <1>3, <2>1 DEF Scopes!Write
<1> QED
  BY <1>2, <1>3

(* Freeze, retrieve and the rest of decay and activate give each state the *)
(* versions that its lists promise and leave the entity outside of it as   *)
(* it was (entity_state.hpp:48-70), for all states and lists, as long as   *)
(* no state is left before it was activated or activated twice.  Excepted  *)
(* are, in the step in which it happens, components added with fields that *)
(* are only assigned or left behind, and persistent ones without fields    *)
(* that are constructed anew.                                              *)
THEOREM RefinesScopes == Spec => ImplementsScopes
<1>1. Init => Scopes!Init
  <2> SUFFICES ASSUME Init PROVE Scopes!Init
    OBVIOUS
  <2>1. ~active /\ registry \in [Components -> Values \cup {None}] /\ storage = [s \in States |-> [c \in Components |-> None]]
    BY DEF Init, Absent
  <2>2. Base = registry
    <3>1. Base = [c \in Components |-> registry[c]]
      BY <2>1 DEF Base
    <3> QED
      BY <2>1, <3>1
  <2>3. Versions = [s \in States |-> [c \in Components |-> None]]
    BY <2>1 DEF Versions
  <2> QED
    BY <2>1, <2>2, <2>3 DEF Scopes!Init, Scopes!Entity
<1>2. Inductive /\ Inductive' /\ [Next]_vars => [Scopes!NextBut(Excepted) \/ disturbed']_(Scopes!vars)
  <2> SUFFICES ASSUME Inductive, Inductive', [Next]_vars, ~disturbed'
               PROVE  Scopes!NextBut(Excepted) \/ UNCHANGED Scopes!vars
    OBVIOUS
  <2>1. ASSUME NEW s \in States, SetDelayed(s) PROVE Scopes!NextBut(Excepted)
    BY <2>1, DelayedLeaves DEF Scopes!NextBut
  <2>2. ASSUME NEW s \in States, SetAtOnce(s) PROVE Scopes!NextBut(Excepted)
    BY <2>2, ImmediateEnters DEF Scopes!NextBut
  <2>3. ASSUME NEW s \in States, TimerFires(s) PROVE Scopes!NextBut(Excepted)
    BY <2>3, TimerEnters DEF Scopes!NextBut
  <2>4. ASSUME NEW c \in Components, NEW v \in Values \cup {None}, Write(c, v) PROVE Scopes!NextBut(Excepted)
    BY <2>4, WriteWrites DEF Scopes!NextBut
  <2>5. CASE UNCHANGED vars
    BY <2>5 DEF vars, Scopes!vars, Base, Versions
  <2> QED
    BY <2>1, <2>2, <2>3, <2>4, <2>5 DEF Next
<1> QED
  BY <1>1, <1>2, AlwaysInductive, PTL DEF Spec, ImplementsScopes
-----------------------------------------------------------------------------
(* The builder of threads. *)

LEMMA Least == ASSUME NEW T \in SUBSET Nat, T # {} PROVE \E m \in T : \A n \in T : m <= n
<1>1. PICK m \in T : \A n \in T : ~(<<n, m>> \in OpToRel(<, Nat))
  BY NatLessThanWellFounded, WFMin
<1>2. ASSUME NEW n \in T PROVE m <= n
  <2>1. <<n, m>> \notin OpToRel(<, Nat)
    BY <1>1
  <2>2. n \in Nat /\ m \in Nat
    OBVIOUS
  <2>3. ~(n < m)
    BY <2>1, <2>2 DEF OpToRel
  <2> QED
    BY <2>2, <2>3
<1> QED
  BY <1>2
-----------------------------------------------------------------------------
(* Scripts: the blocks of a balanced script, by levels. *)

Script(s) == s \in Seq(Kinds)

(* How many blocks are open behind line i. *)
Level(s, i) == Count(s, Openers, 1, i) - Count(s, {"end"}, 1, i)

LEMMA LinesAre ==
  ASSUME NEW s, Script(s)
  PROVE  /\ Len(s) \in Nat
         /\ Lines(s) = 1 .. Len(s)
         /\ \A i \in Lines(s) : s[i] \in Kinds
BY LenProperties DEF Script, Lines

LEMMA Counted ==
  ASSUME NEW s, NEW kinds, NEW a \in Int, NEW b \in Int
  PROVE  /\ Count(s, kinds, a, b) \in Nat
         /\ IsFiniteSet({i \in a .. b : s[i] \in kinds})
<1> DEFINE set == {i \in a .. b : s[i] \in kinds}
<1>1. IsFiniteSet(a .. b) /\ set \in SUBSET (a .. b)
  BY FS_Interval
<1>2. IsFiniteSet(set)
  BY <1>1, FS_Subset
<1>3. Cardinality(set) \in Nat
  BY <1>2, FS_CardinalityType
<1> QED
  BY <1>2, <1>3 DEF Count

LEMMA CountNone ==
  ASSUME NEW s, NEW kinds, NEW a \in Int, NEW b \in Int, \A i \in a .. b : s[i] \notin kinds
  PROVE  Count(s, kinds, a, b) = 0
<1>1. {i \in a .. b : s[i] \in kinds} = {}
  OBVIOUS
<1> QED
  BY <1>1, FS_EmptySet, Zenon DEF Count

LEMMA CountSplit ==
  ASSUME NEW s, NEW kinds, NEW a \in Int, NEW b \in Int, NEW c \in Int, a <= b + 1, b <= c
  PROVE  Count(s, kinds, a, c) = Count(s, kinds, a, b) + Count(s, kinds, b + 1, c)
<1> DEFINE left == {i \in a .. b : s[i] \in kinds}
           right == {i \in b + 1 .. c : s[i] \in kinds}
           all == {i \in a .. c : s[i] \in kinds}
<1>1. IsFiniteSet(left) /\ IsFiniteSet(right)
  <2>1. b + 1 \in Int
    OBVIOUS
  <2> QED
    BY <2>1, Counted
<1>2. all = left \cup right /\ left \cap right = {}
  OBVIOUS
<1>3. Cardinality(left \cup right) = Cardinality(left) + Cardinality(right) - Cardinality(left \cap right)
  BY <1>1, FS_Union
<1>4. Cardinality({}) = 0 /\ Cardinality(left) \in Nat /\ Cardinality(right) \in Nat
  BY <1>1, FS_EmptySet, FS_CardinalityType
<1>5. Cardinality(all) = Cardinality(left) + Cardinality(right)
  <2> HIDE DEF left, right, all
  <2>1. Cardinality(all) = Cardinality(left \cup right) /\ Cardinality(left \cap right) = Cardinality({})
    BY <1>2, Zenon
  <2> QED
    BY <1>3, <1>4, <2>1
<1> QED
  BY <1>5 DEF Count

LEMMA CountOne ==
  ASSUME NEW s, NEW kinds, NEW a \in Int
  PROVE  Count(s, kinds, a, a) = IF s[a] \in kinds THEN 1 ELSE 0
<1> DEFINE set == {i \in a .. a : s[i] \in kinds}
<1>1. set = IF s[a] \in kinds THEN {a} ELSE {}
  OBVIOUS
<1>2. Cardinality({a}) = 1 /\ Cardinality({}) = 0
  BY FS_Singleton, FS_EmptySet
<1> QED
  BY <1>1, <1>2 DEF Count

LEMMA LevelType == ASSUME NEW s, NEW i \in Int PROVE Level(s, i) \in Int
<1>1. 1 \in Int
  OBVIOUS
<1>2. Count(s, Openers, 1, i) \in Nat /\ Count(s, {"end"}, 1, i) \in Nat
  BY <1>1, Counted
<1> QED
  BY <1>2 DEF Level

(* A line that opens a block raises the level, one that ends one lowers it.*)
LEMMA LevelStep ==
  ASSUME NEW s, NEW i \in Nat \ {0}
  PROVE  /\ Level(s, i) \in Int
         /\ Level(s, i - 1) \in Int
         /\ s[i] \in Openers => Level(s, i) = Level(s, i - 1) + 1
         /\ s[i] = "end" => Level(s, i) = Level(s, i - 1) - 1
         /\ s[i] \notin Openers \cup {"end"} => Level(s, i) = Level(s, i - 1)
<1>1. 1 \in Int /\ i \in Int /\ i - 1 \in Int /\ 1 <= (i - 1) + 1 /\ i - 1 <= i /\ (i - 1) + 1 = i
  OBVIOUS
<1>2. ASSUME NEW kinds
      PROVE  /\ Count(s, kinds, 1, i) = Count(s, kinds, 1, i - 1) + (IF s[i] \in kinds THEN 1 ELSE 0)
             /\ Count(s, kinds, 1, i - 1) \in Nat
  <2>1. Count(s, kinds, 1, i) = Count(s, kinds, 1, i - 1) + Count(s, kinds, (i - 1) + 1, i)
    BY <1>1, CountSplit
  <2>2. Count(s, kinds, (i - 1) + 1, i) = IF s[i] \in kinds THEN 1 ELSE 0
    BY <1>1, CountOne
  <2> QED
    BY <1>1, <2>1, <2>2, Counted
<1>3. /\ Count(s, Openers, 1, i) = Count(s, Openers, 1, i - 1) + (IF s[i] \in Openers THEN 1 ELSE 0)
      /\ Count(s, {"end"}, 1, i) = Count(s, {"end"}, 1, i - 1) + (IF s[i] = "end" THEN 1 ELSE 0)
      /\ Count(s, Openers, 1, i - 1) \in Nat /\ Count(s, {"end"}, 1, i - 1) \in Nat
  BY <1>2
<1>4. s[i] = "end" => s[i] \notin Openers
  BY DEF Openers, Cadences, SubThreads
<1> QED
  BY <1>3, <1>4 DEF Level

LEMMA LevelFlat ==
  ASSUME NEW s, NEW a \in Nat \ {0}, NEW b \in Nat, a <= b + 1,
         \A i \in a .. b : s[i] \notin Openers \cup {"end"}
  PROVE  Level(s, b) = Level(s, a - 1)
<1>1. 1 \in Int /\ b \in Int /\ a - 1 \in Int /\ 1 <= (a - 1) + 1 /\ a - 1 <= b /\ (a - 1) + 1 = a
  OBVIOUS
<1>2. ASSUME NEW kinds, \A i \in a .. b : s[i] \notin kinds
      PROVE  Count(s, kinds, 1, b) = Count(s, kinds, 1, a - 1)
  <2>1. Count(s, kinds, 1, b) = Count(s, kinds, 1, a - 1) + Count(s, kinds, (a - 1) + 1, b)
    BY <1>1, CountSplit
  <2>2. Count(s, kinds, a, b) = 0
    <3>1. a \in Int
      OBVIOUS
    <3> QED
      BY <1>1, <1>2, <3>1, CountNone
  <2>3. Count(s, kinds, 1, a - 1) \in Nat
    BY <1>1, Counted
  <2> QED
    BY <1>1, <2>1, <2>2, <2>3
<1>3. Count(s, Openers, 1, b) = Count(s, Openers, 1, a - 1)
  BY <1>2
<1>4. Count(s, {"end"}, 1, b) = Count(s, {"end"}, 1, a - 1)
  BY <1>2
<1> QED
  BY <1>3, <1>4 DEF Level

LEMMA Levels ==
  ASSUME NEW s, Script(s), Balanced(s)
  PROVE  /\ \A i \in 0 .. Len(s) : Level(s, i) \in Nat
         /\ Level(s, 0) = 0
         /\ Level(s, Len(s)) = 0
<1>1. Len(s) \in Nat /\ Lines(s) = 1 .. Len(s)
  BY LinesAre
<1>2. ASSUME NEW kinds PROVE Count(s, kinds, 1, 0) = 0
  <2>1. \A i \in 1 .. 0 : s[i] \notin kinds
    OBVIOUS
  <2>2. 1 \in Int /\ 0 \in Int
    OBVIOUS
  <2> QED
    BY <2>1, <2>2, CountNone
<1>3. Level(s, 0) = 0
  <2>1. Count(s, Openers, 1, 0) = 0 /\ Count(s, {"end"}, 1, 0) = 0
    BY <1>2
  <2> QED
    BY <2>1 DEF Level
<1>4. ASSUME NEW i \in 1 .. Len(s) PROVE Level(s, i) \in Nat
  <2>0. 1 \in Int /\ i \in Int
    BY <1>1
  <2>1. Count(s, Openers, 1, i) \in Nat /\ Count(s, {"end"}, 1, i) \in Nat
    BY <2>0, Counted
  <2>2. Count(s, {"end"}, 1, i) <= Count(s, Openers, 1, i)
    BY <1>1 DEF Balanced
  <2> QED
    BY <2>1, <2>2 DEF Level
<1>5. Level(s, Len(s)) = 0
  <2>0. 1 \in Int /\ Len(s) \in Int
    BY <1>1
  <2>1. Count(s, Openers, 1, Len(s)) \in Nat /\ Count(s, {"end"}, 1, Len(s)) \in Nat
    BY <2>0, Counted
  <2> QED
    BY <2>1 DEF Balanced, Level
<1> QED
  BY <1>1, <1>3, <1>4, <1>5

(* The end of a block is where the level is back to what it was before.    *)
LEMMA EndLevel ==
  ASSUME NEW s, NEW o \in Nat \ {0}, NEW e \in Nat, o <= e
  PROVE  IsEnd(s, o, e) <=> s[e] = "end" /\ Level(s, e) = Level(s, o - 1)
<1>1. 1 \in Int /\ e \in Int /\ o \in Int /\ o - 1 \in Int /\ 1 <= (o - 1) + 1 /\ o - 1 <= e /\ (o - 1) + 1 = o
  OBVIOUS
<1>2. ASSUME NEW kinds
      PROVE  /\ Count(s, kinds, 1, e) = Count(s, kinds, 1, o - 1) + Count(s, kinds, o, e)
             /\ Count(s, kinds, o, e) \in Nat /\ Count(s, kinds, 1, o - 1) \in Nat
  <2>1. Count(s, kinds, 1, e) = Count(s, kinds, 1, o - 1) + Count(s, kinds, (o - 1) + 1, e)
    BY <1>1, CountSplit
  <2> QED
    BY <1>1, <2>1, Counted
<1>3. /\ Count(s, Openers, 1, e) = Count(s, Openers, 1, o - 1) + Count(s, Openers, o, e)
      /\ Count(s, {"end"}, 1, e) = Count(s, {"end"}, 1, o - 1) + Count(s, {"end"}, o, e)
      /\ Count(s, Openers, o, e) \in Nat /\ Count(s, Openers, 1, o - 1) \in Nat
      /\ Count(s, {"end"}, o, e) \in Nat /\ Count(s, {"end"}, 1, o - 1) \in Nat
  BY <1>2
<1>4. IsEnd(s, o, e) <=> s[e] = "end" /\ Count(s, Openers, o, e) = Count(s, {"end"}, o, e)
  BY DEF IsEnd
<1>5. /\ Level(s, e) = Count(s, Openers, 1, e) - Count(s, {"end"}, 1, e)
      /\ Level(s, o - 1) = Count(s, Openers, 1, o - 1) - Count(s, {"end"}, 1, o - 1)
  BY DEF Level
<1> QED
  BY <1>3, <1>4, <1>5

Ends(s, o, e) ==
  /\ o < e /\ e <= Len(s) /\ s[e] = "end"
  /\ Level(s, e) = Level(s, o - 1)
  /\ \A f \in o .. e - 1 : Level(s, f) > Level(s, o - 1)

LEMMA EndExists ==
  ASSUME NEW s, Script(s), Balanced(s), NEW o \in Lines(s), s[o] \in Openers
  PROVE  \E e \in Lines(s) : Ends(s, o, e)
<1> DEFINE T == {e \in o .. Len(s) : Level(s, e) <= Level(s, o - 1)}
<1>1. Len(s) \in Nat /\ o \in 1 .. Len(s) /\ Lines(s) = 1 .. Len(s)
  BY LinesAre
<1>2. \A i \in 0 .. Len(s) : Level(s, i) \in Nat
  BY Levels
<1>3. Len(s) \in T
  BY <1>1, <1>2, Levels
<1>4. T \in SUBSET Nat
  BY <1>1
<1>5. PICK e \in T : \A f \in T : e <= f
  <2> HIDE DEF T
  <2> QED
    BY <1>3, <1>4, Least
<1>6. e \in 1 .. Len(s) /\ o <= e /\ Level(s, e) <= Level(s, o - 1)
  BY <1>1
<1>7. ASSUME NEW f \in o .. e - 1 PROVE Level(s, f) > Level(s, o - 1)
  <2>1. f \notin T /\ f \in o .. Len(s)
    BY <1>1, <1>5, <1>6
  <2>2. Level(s, f) \in Nat /\ Level(s, o - 1) \in Nat
    BY <1>1, <1>2, <2>1, SMTT(30), ZenonT(30)
  <2> QED
    BY <2>1, <2>2
<1>8. Level(s, o) = Level(s, o - 1) + 1 /\ Level(s, o - 1) \in Nat
  BY <1>1, <1>2, LevelStep, SMTT(30), ZenonT(30)
<1>9. o < e
  BY <1>1, <1>6, <1>8
<1>10. Level(s, e - 1) > Level(s, o - 1) /\ Level(s, e - 1) \in Nat
  BY <1>1, <1>2, <1>6, <1>7, <1>9
<1>11. /\ Level(s, e) \in Int
       /\ s[e] \in Openers => Level(s, e) = Level(s, e - 1) + 1
       /\ s[e] = "end" => Level(s, e) = Level(s, e - 1) - 1
       /\ s[e] \notin Openers \cup {"end"} => Level(s, e) = Level(s, e - 1)
  BY <1>6, LevelStep
<1>12. s[e] = "end" /\ Level(s, e) = Level(s, o - 1)
  BY <1>6, <1>8, <1>10, <1>11, SMTT(30), ZenonT(30)
<1> QED
  BY <1>1, <1>6, <1>7, <1>9, <1>12 DEF Ends

LEMMA EndIs ==
  ASSUME NEW s, Script(s), NEW o \in Lines(s), NEW e \in Lines(s), Ends(s, o, e)
  PROVE  EndOf(s, o) = e
<1>1. Len(s) \in Nat /\ o \in 1 .. Len(s) /\ e \in 1 .. Len(s)
  BY LinesAre
<1> DEFINE Ending(x) == IsEnd(s, o, x) /\ \A f \in o .. x - 1 : ~IsEnd(s, o, f)
<1>2. e \in o .. Len(s) /\ Ending(e)
  <2>1. IsEnd(s, o, e)
    BY <1>1, EndLevel DEF Ends
  <2>2. ASSUME NEW f \in o .. e - 1 PROVE ~IsEnd(s, o, f)
    <3>1. Level(s, f) > Level(s, o - 1) /\ f \in Nat /\ o <= f /\ f # 0
      BY <1>1 DEF Ends
    <3>2. f \in Int /\ o - 1 \in Int
      BY <1>1
    <3>3. Level(s, f) \in Int /\ Level(s, o - 1) \in Int
      BY <3>2, LevelType
    <3>4. IsEnd(s, o, f) => Level(s, f) = Level(s, o - 1)
      BY <1>1, <3>1, EndLevel
    <3> QED
      BY <3>1, <3>3, <3>4
  <2> QED
    BY <1>1, <2>1, <2>2 DEF Ends
<1>3. ASSUME NEW x \in o .. Len(s), Ending(x) PROVE x = e
  BY <1>1, <1>2, <1>3
<1>4. EndOf(s, o) = CHOOSE x \in o .. Len(s) : Ending(x)
  BY DEF EndOf
<1> HIDE DEF Ending
<1> QED
  BY <1>2, <1>3, <1>4

(* Every block of a balanced script ends.                                  *)
LEMMA EndOfBlock ==
  ASSUME NEW s, Script(s), Balanced(s), NEW o \in Lines(s), s[o] \in Openers
  PROVE  EndOf(s, o) \in Lines(s) /\ Ends(s, o, EndOf(s, o))
BY EndExists, EndIs

LEMMA InnermostIs ==
  ASSUME NEW s, Script(s), NEW i \in Nat, NEW kinds,
         NEW w \in Around(s, i), s[w] \in kinds, \A p \in Around(s, i) : s[p] \in kinds => p <= w
  PROVE  Innermost(s, i, kinds) = w
<1> DEFINE around == {o \in Around(s, i) : s[o] \in kinds}
<1>1. around \in SUBSET Nat /\ w \in around /\ around # {}
  BY DEF Around
<1>2. \A p \in around : p <= w
  OBVIOUS
<1>3. Innermost(s, i, kinds) = CHOOSE o \in around : \A p \in around : p <= o
  BY <1>1 DEF Innermost
<1> HIDE DEF around
<1>4. \A o \in around : (\A p \in around : p <= o) => o = w
  BY <1>1, <1>2
<1> QED
  BY <1>1, <1>2, <1>3, <1>4

LEMMA InnermostNone ==
  ASSUME NEW s, NEW i, NEW kinds, \A p \in Around(s, i) : s[p] \notin kinds
  PROVE  Innermost(s, i, kinds) = 0
BY DEF Innermost

(* The innermost block is one around the line, or none is.                 *)
LEMMA InnermostCases ==
  ASSUME NEW s, Script(s), NEW i \in Nat, NEW kinds
  PROVE  LET w == Innermost(s, i, kinds)
         IN  \/ w = 0 /\ \A p \in Around(s, i) : s[p] \notin kinds
             \/ w \in Around(s, i) /\ s[w] \in kinds /\ \A p \in Around(s, i) : s[p] \in kinds => p <= w
<1> DEFINE around == {o \in Around(s, i) : s[o] \in kinds}
<1>1. CASE around = {}
  BY <1>1 DEF Innermost
<1>2. CASE around # {}
  <2> DEFINE T == {i - o : o \in around}
  <2>1. \A o \in around : o \in 1 .. i - 1
    BY DEF Around
  <2>2. T \in SUBSET Nat /\ T # {}
    BY <1>2, <2>1
  <2>3. PICK m \in T : \A n \in T : m <= n
    <3> HIDE DEF T
    <3> QED
      BY <2>2, Least
  <2>4. PICK w \in around : m = i - w
    OBVIOUS
  <2>5. ASSUME NEW p \in around PROVE p <= w
    <3>1. i - p \in T
      OBVIOUS
    <3> QED
      BY <2>1, <2>3, <2>4, <3>1
  <2>6. Innermost(s, i, kinds) = w
    <3>1. w \in Around(s, i) /\ s[w] \in kinds /\ \A p \in Around(s, i) : s[p] \in kinds => p <= w
      BY <2>5
    <3> QED
      BY <3>1, InnermostIs
  <2> QED
    BY <2>5, <2>6
<1> QED
  BY <1>1, <1>2
-----------------------------------------------------------------------------
(* The stack of builders. *)

Flows == Cadences \cup {"update"}
Instrs == [op : Ops, lines : SUBSET Nat, size : Int, cadence : Flows]
Builders == [kind : Kinds \cup {"thread"}, thread : Nat, begin : Nat, done : Nat, place : Nat, count : Nat,
             known : Nat, pending : SUBSET Nat, cadence : Flows, first : Nat]
Threads == [owner : Nat, cadence : Flows]

(* The line that opens the block of builder d, the line it reads.          *)
Opener(bs, d) == IF bs[d].kind = "else" THEN bs[d].begin - bs[d].first ELSE bs[d].begin - 1
At(bs, d) == bs[d].begin + bs[d].done

(* What a builder of a block builds.                                       *)
Kindly(s, bs, d) ==
  LET o == Opener(bs, d)
  IN  \/ bs[d].kind = s[o]
      \/ /\ bs[d].kind = "else" /\ s[o] = "if"
         /\ o < bs[d].begin - 1 /\ s[bs[d].begin - 1] = "else"
         /\ Innermost(s, bs[d].begin - 1, Openers) = o

(* The builders stand one inside of the other, each at the line where the  *)
(* block of the next one opens; all other blocks behind are complete.      *)
Nested(s, bs, c) ==
  /\ \A d \in 2 .. Len(bs) :
       /\ Opener(bs, d) \in 1 .. c - 1
       /\ s[Opener(bs, d)] \in Openers
       /\ Level(s, Opener(bs, d) - 1) = d - 2
       /\ c <= EndOf(s, Opener(bs, d))
       /\ \A e \in d + 1 .. Len(bs) : Opener(bs, d) < Opener(bs, e)
  /\ Level(s, c - 1) = Len(bs) - 1
  /\ \A o \in 1 .. c - 1 :
       s[o] \in Openers /\ (\A d \in 2 .. Len(bs) : o # Opener(bs, d)) => EndOf(s, o) < c

Stacked(s, bs) ==
  /\ bs \in Seq(Builders) /\ Len(bs) > 0
  /\ bs[1].kind = "thread"
  /\ \A d \in 2 .. Len(bs) : Opener(bs, d) = At(bs, d - 1) /\ Kindly(s, bs, d)
  /\ At(bs, Len(bs)) \in 1 .. Len(s) + 1
  /\ Nested(s, bs, At(bs, Len(bs)))

LEMMA StackType ==
  ASSUME NEW s, NEW bs, Stacked(s, bs)
  PROVE  /\ Len(bs) \in Nat \ {0}
         /\ DOMAIN bs = 1 .. Len(bs)
         /\ \A d \in 1 .. Len(bs) : bs[d] \in Builders /\ At(bs, d) \in Nat /\ Opener(bs, d) \in Int
<1>1. bs \in Seq(Builders)
  BY DEF Stacked
<1>2. Len(bs) \in Nat \ {0} /\ DOMAIN bs = 1 .. Len(bs) /\ bs \in [1 .. Len(bs) -> Builders]
  BY <1>1, LenProperties DEF Stacked
<1> QED
  BY <1>2, SMTT(60) DEF Builders, At, Opener

(* The blocks around the line that is read are those of the builders.      *)
LEMMA AroundTheCursor ==
  ASSUME NEW s, Script(s), Balanced(s), NEW bs, NEW c \in Lines(s), Len(bs) \in Nat, Nested(s, bs, c), s[c] # "end"
  PROVE  Around(s, c) = {Opener(bs, d) : d \in 2 .. Len(bs)}
<1>1. Len(s) \in Nat /\ Lines(s) = 1 .. Len(s) /\ c \in 1 .. Len(s)
  BY LinesAre
<1>2. ASSUME NEW d \in 2 .. Len(bs) PROVE Opener(bs, d) \in Around(s, c)
  <2>1. Opener(bs, d) \in 1 .. c - 1 /\ s[Opener(bs, d)] \in Openers /\ c <= EndOf(s, Opener(bs, d))
    BY DEF Nested
  <2>2. Opener(bs, d) \in Lines(s)
    BY <1>1, <2>1
  <2>3. EndOf(s, Opener(bs, d)) \in Lines(s) /\ s[EndOf(s, Opener(bs, d))] = "end"
    BY <2>1, <2>2, EndOfBlock DEF Ends
  <2>4. EndOf(s, Opener(bs, d)) # c
    BY <2>3
  <2> QED
    BY <1>1, <2>1, <2>3, <2>4 DEF Around
<1>3. ASSUME NEW o \in Around(s, c) PROVE \E d \in 2 .. Len(bs) : o = Opener(bs, d)
  <2>1. o \in 1 .. c - 1 /\ s[o] \in Openers /\ c < EndOf(s, o)
    BY DEF Around
  <2>2. EndOf(s, o) \in Nat
    <3>1. o \in Lines(s)
      BY <1>1, <2>1
    <3> QED
      BY <1>1, <2>1, <3>1, EndOfBlock
  <2>3. ~(EndOf(s, o) < c)
    BY <1>1, <2>1, <2>2
  <2> QED
    BY <2>1, <2>3 DEF Nested
<1> QED
  BY <1>2, <1>3

(* Lines that neither open nor end a block.                                *)
LEMMA NestedAlong ==
  ASSUME NEW s, Script(s), Balanced(s), NEW bs, Len(bs) \in Nat \ {0},
         NEW c \in Lines(s), NEW c2 \in Nat, c <= c2, c2 <= Len(s) + 1, Nested(s, bs, c),
         \A i \in c .. c2 - 1 : s[i] \notin Openers \cup {"end"}
  PROVE  Nested(s, bs, c2)
<1>1. Len(s) \in Nat /\ Lines(s) = 1 .. Len(s) /\ c \in 1 .. Len(s)
  BY LinesAre
<1>2. Level(s, c2 - 1) = Level(s, c - 1)
  <2>1. c \in Nat \ {0} /\ c2 - 1 \in Nat /\ c <= (c2 - 1) + 1
    BY <1>1
  <2> QED
    BY <2>1, LevelFlat
<1>3. ASSUME NEW d \in 2 .. Len(bs) PROVE c2 <= EndOf(s, Opener(bs, d))
  <2>1. Opener(bs, d) \in 1 .. c - 1 /\ s[Opener(bs, d)] \in Openers /\ c <= EndOf(s, Opener(bs, d))
    BY DEF Nested
  <2>2. Opener(bs, d) \in Lines(s)
    BY <1>1, <2>1
  <2>3. EndOf(s, Opener(bs, d)) \in Lines(s) /\ s[EndOf(s, Opener(bs, d))] = "end"
    BY <2>1, <2>2, EndOfBlock DEF Ends
  <2> QED
    BY <1>1, <2>1, <2>3
<1>4. ASSUME NEW o \in 1 .. c2 - 1, s[o] \in Openers, \A d \in 2 .. Len(bs) : o # Opener(bs, d)
      PROVE  EndOf(s, o) < c2
  <2>1. o \in 1 .. c - 1
    BY <1>1, <1>4
  <2>2. EndOf(s, o) < c
    BY <1>4, <2>1 DEF Nested
  <2>3. EndOf(s, o) \in Lines(s)
    <3>1. o \in Lines(s)
      BY <1>1, <2>1
    <3> QED
      BY <1>4, <3>1, EndOfBlock
  <2> QED
    BY <1>1, <2>2, <2>3
<1>5. \A d \in 2 .. Len(bs) : Opener(bs, d) \in 1 .. c2 - 1
  BY <1>1, SMTT(30), ZenonT(30) DEF Nested
<1> QED
  BY <1>2, <1>3, <1>4, <1>5 DEF Nested

(* The stack of openers is what matters. *)
LEMMA NestedSame ==
  ASSUME NEW s, NEW bs, NEW bs2, NEW c, Nested(s, bs, c), Len(bs2) = Len(bs),
         \A d \in 2 .. Len(bs) : Opener(bs2, d) = Opener(bs, d)
  PROVE  Nested(s, bs2, c)
BY SMTT(30), ZenonT(30) DEF Nested

(* A line that opens a block.                                              *)
LEMMA NestedDeeper ==
  ASSUME NEW s, Script(s), Balanced(s), NEW bs, Len(bs) \in Nat \ {0}, NEW bs2,
         NEW c \in Lines(s), Nested(s, bs, c), s[c] \in Openers,
         Len(bs2) = Len(bs) + 1, \A d \in 2 .. Len(bs) : Opener(bs2, d) = Opener(bs, d), Opener(bs2, Len(bs2)) = c
  PROVE  Nested(s, bs2, c + 1)
<1>1. Len(s) \in Nat /\ Lines(s) = 1 .. Len(s) /\ c \in 1 .. Len(s)
  BY LinesAre
<1>2. EndOf(s, c) \in Lines(s) /\ c < EndOf(s, c)
  BY EndOfBlock DEF Ends
<1>3. Level(s, c) = Len(bs2) - 1 /\ Level(s, c - 1) = Len(bs2) - 2
  <2>1. c \in Nat \ {0}
    BY <1>1
  <2>2. Level(s, c) = Level(s, c - 1) + 1
    BY <2>1, LevelStep
  <2> QED
    BY <2>2 DEF Nested
<1>4. s[c] # "end"
  BY DEF Openers, Cadences, SubThreads
<1>5. ASSUME NEW d \in 2 .. Len(bs)
      PROVE  /\ Opener(bs2, d) \in 1 .. c - 1
             /\ s[Opener(bs2, d)] \in Openers
             /\ Level(s, Opener(bs2, d) - 1) = d - 2
             /\ c + 1 <= EndOf(s, Opener(bs2, d))
             /\ \A e \in d + 1 .. Len(bs2) : Opener(bs2, d) < Opener(bs2, e)
  <2>1. /\ Opener(bs, d) \in 1 .. c - 1 /\ s[Opener(bs, d)] \in Openers /\ c <= EndOf(s, Opener(bs, d))
        /\ Level(s, Opener(bs, d) - 1) = d - 2
        /\ \A e \in d + 1 .. Len(bs) : Opener(bs, d) < Opener(bs, e)
    BY DEF Nested
  <2>2. Opener(bs, d) \in Lines(s)
    BY <1>1, <2>1
  <2>3. EndOf(s, Opener(bs, d)) \in Lines(s) /\ s[EndOf(s, Opener(bs, d))] = "end"
    BY <2>1, <2>2, EndOfBlock DEF Ends
  <2>4. c + 1 <= EndOf(s, Opener(bs, d))
    BY <1>1, <1>4, <2>1, <2>3, SMTT(60)
  <2>5. ASSUME NEW e \in d + 1 .. Len(bs2) PROVE Opener(bs2, d) < Opener(bs2, e)
    <3>1. CASE e = Len(bs2)
      BY <1>1, <2>1, <3>1
    <3>2. CASE e # Len(bs2)
      <4>1. e \in d + 1 .. Len(bs) /\ e \in 2 .. Len(bs)
        BY <3>2
      <4> QED
        BY <2>1, <4>1
    <3> QED
      BY <3>1, <3>2
  <2> QED
    BY <2>1, <2>4, <2>5
<1>6. ASSUME NEW o \in 1 .. c, s[o] \in Openers, \A d \in 2 .. Len(bs2) : o # Opener(bs2, d)
      PROVE  EndOf(s, o) < c + 1
  <2>1. o # c
    BY <1>6
  <2>2. o \in 1 .. c - 1 /\ \A d \in 2 .. Len(bs) : o # Opener(bs, d)
    BY <1>1, <1>6, <2>1
  <2>3. EndOf(s, o) < c
    BY <1>6, <2>2 DEF Nested
  <2>4. EndOf(s, o) \in Lines(s)
    <3>1. o \in Lines(s)
      BY <1>1, <2>2
    <3> QED
      BY <1>6, <3>1, EndOfBlock
  <2> QED
    BY <1>1, <2>3, <2>4
<1>7. (c + 1) - 1 = c
  BY <1>1
<1>8. ASSUME NEW d \in 2 .. Len(bs2)
      PROVE  /\ Opener(bs2, d) \in 1 .. c
             /\ s[Opener(bs2, d)] \in Openers
             /\ Level(s, Opener(bs2, d) - 1) = d - 2
             /\ c + 1 <= EndOf(s, Opener(bs2, d))
             /\ \A e \in d + 1 .. Len(bs2) : Opener(bs2, d) < Opener(bs2, e)
  <2>1. CASE d = Len(bs2)
    BY <1>1, <1>2, <1>3, <2>1, SMTT(60)
  <2>2. CASE d # Len(bs2)
    <3>1. d \in 2 .. Len(bs)
      BY <2>2
    <3> QED
      BY <1>1, <1>5, <3>1, SMTT(30), ZenonT(30)
  <2> QED
    BY <2>1, <2>2
<1> QED
  BY <1>3, <1>6, <1>7, <1>8 DEF Nested

(* The end of the innermost block, and only an end is one.                 *)
LEMMA TopEnds ==
  ASSUME NEW s, Script(s), Balanced(s), NEW bs, Len(bs) \in Nat \ {0},
         NEW c \in Lines(s), Nested(s, bs, c), s[c] = "end"
  PROVE  /\ Len(bs) > 1
         /\ EndOf(s, Opener(bs, Len(bs))) = c
         /\ \A d \in 2 .. Len(bs) - 1 : c < EndOf(s, Opener(bs, d))
<1>1. Len(s) \in Nat /\ Lines(s) = 1 .. Len(s) /\ c \in 1 .. Len(s)
  BY LinesAre
<1>2. Level(s, c) = Len(bs) - 2
  <2>1. c \in Nat \ {0}
    BY <1>1
  <2>2. Level(s, c) = Level(s, c - 1) - 1
    BY <2>1, LevelStep
  <2> QED
    BY <2>2 DEF Nested
<1>3. Len(bs) > 1
  <2>1. Level(s, c) \in Nat
    BY <1>1, Levels
  <2> QED
    BY <1>2, <2>1
<1>4. ASSUME NEW d \in 2 .. Len(bs)
      PROVE  /\ c <= EndOf(s, Opener(bs, d)) /\ EndOf(s, Opener(bs, d)) \in Nat
             /\ EndOf(s, Opener(bs, d)) = c <=> d = Len(bs)
  <2>1. Opener(bs, d) \in 1 .. c - 1 /\ s[Opener(bs, d)] \in Openers /\ c <= EndOf(s, Opener(bs, d))
        /\ Level(s, Opener(bs, d) - 1) = d - 2
    BY DEF Nested
  <2>2. Opener(bs, d) \in Lines(s)
    BY <1>1, <2>1
  <2>3. EndOf(s, Opener(bs, d)) \in Lines(s) /\ Ends(s, Opener(bs, d), EndOf(s, Opener(bs, d)))
    BY <2>1, <2>2, EndOfBlock
  <2>4. EndOf(s, Opener(bs, d)) = c => d = Len(bs)
    BY <1>2, <2>1, <2>3 DEF Ends
  <2>5. c < EndOf(s, Opener(bs, d)) => Level(s, c) > d - 2
    <3>1. c < EndOf(s, Opener(bs, d)) => c \in Opener(bs, d) .. EndOf(s, Opener(bs, d)) - 1
      BY <1>1, <2>1, <2>3, SMTT(30), ZenonT(30)
    <3> QED
      BY <2>1, <2>3, <3>1 DEF Ends
  <2>6. d = Len(bs) => ~(c < EndOf(s, Opener(bs, d)))
    BY <1>2, <2>5
  <2> QED
    BY <1>1, <2>1, <2>3, <2>4, <2>6
<1>5. EndOf(s, Opener(bs, Len(bs))) = c
  BY <1>3, <1>4
<1>6. ASSUME NEW d \in 2 .. Len(bs) - 1 PROVE c < EndOf(s, Opener(bs, d))
  <2>1. d \in 2 .. Len(bs) /\ d # Len(bs)
    OBVIOUS
  <2> QED
    BY <1>1, <1>4, <2>1
<1> QED
  BY <1>3, <1>5, <1>6

LEMMA NestedOut ==
  ASSUME NEW s, Script(s), Balanced(s), NEW bs, Len(bs) \in Nat \ {0}, NEW bs2,
         NEW c \in Lines(s), Nested(s, bs, c), s[c] = "end",
         Len(bs2) = Len(bs) - 1, \A d \in 2 .. Len(bs2) : Opener(bs2, d) = Opener(bs, d)
  PROVE  Nested(s, bs2, c + 1)
<1>1. Len(s) \in Nat /\ Lines(s) = 1 .. Len(s) /\ c \in 1 .. Len(s)
  BY LinesAre
<1>2. /\ Len(bs) > 1
      /\ EndOf(s, Opener(bs, Len(bs))) = c
      /\ \A d \in 2 .. Len(bs) - 1 : c < EndOf(s, Opener(bs, d))
  BY TopEnds
<1>3. Level(s, c) = Len(bs2) - 1
  <2>1. c \in Nat \ {0}
    BY <1>1
  <2>2. Level(s, c) = Level(s, c - 1) - 1
    BY <2>1, LevelStep
  <2> QED
    BY <2>2 DEF Nested
<1>4. (c + 1) - 1 = c
  BY <1>1
<1>5. ASSUME NEW d \in 2 .. Len(bs2)
      PROVE  /\ Opener(bs2, d) \in 1 .. c
             /\ s[Opener(bs2, d)] \in Openers
             /\ Level(s, Opener(bs2, d) - 1) = d - 2
             /\ c + 1 <= EndOf(s, Opener(bs2, d))
             /\ \A e \in d + 1 .. Len(bs2) : Opener(bs2, d) < Opener(bs2, e)
  <2>0. d \in 2 .. Len(bs) /\ d \in 2 .. Len(bs) - 1
    OBVIOUS
  <2>1. /\ Opener(bs, d) \in 1 .. c - 1 /\ s[Opener(bs, d)] \in Openers
        /\ Level(s, Opener(bs, d) - 1) = d - 2
        /\ \A e \in d + 1 .. Len(bs) : Opener(bs, d) < Opener(bs, e)
    BY <2>0 DEF Nested
  <2>2. EndOf(s, Opener(bs, d)) \in Lines(s)
    <3>1. Opener(bs, d) \in Lines(s)
      BY <1>1, <2>1
    <3> QED
      BY <2>1, <3>1, EndOfBlock
  <2>3. c + 1 <= EndOf(s, Opener(bs, d))
    BY <1>1, <1>2, <2>0, <2>2
  <2>4. ASSUME NEW e \in d + 1 .. Len(bs2) PROVE Opener(bs2, d) < Opener(bs2, e)
    <3>1. e \in d + 1 .. Len(bs) /\ e \in 2 .. Len(bs2)
      OBVIOUS
    <3> QED
      BY <2>1, <3>1
  <2> QED
    BY <1>1, <2>1, <2>3, <2>4, SMTT(30), ZenonT(30)
<1>6. ASSUME NEW o \in 1 .. c, s[o] \in Openers, \A d \in 2 .. Len(bs2) : o # Opener(bs2, d)
      PROVE  EndOf(s, o) < c + 1
  <2>1. CASE o = Opener(bs, Len(bs))
    BY <1>1, <1>2, <2>1
  <2>2. CASE o # Opener(bs, Len(bs))
    <3>1. o # c
      BY <1>6 DEF Openers, Cadences, SubThreads
    <3>2. o \in 1 .. c - 1
      BY <1>1, <3>1
    <3>3. ASSUME NEW d \in 2 .. Len(bs) PROVE o # Opener(bs, d)
      <4>1. d = Len(bs) \/ d \in 2 .. Len(bs2)
        OBVIOUS
      <4> QED
        BY <1>6, <2>2, <4>1
    <3>4. EndOf(s, o) < c
      BY <1>6, <3>2, <3>3 DEF Nested
    <3>5. EndOf(s, o) \in Lines(s)
      <4>1. o \in Lines(s)
        BY <1>1, <3>2
      <4> QED
        BY <1>6, <4>1, EndOfBlock
    <3> QED
      BY <1>1, <3>4, <3>5
  <2> QED
    BY <2>1, <2>2
<1> QED
  BY <1>3, <1>4, <1>5, <1>6 DEF Nested

(* The same at a line that ends the innermost block.                       *)
LEMMA AroundTheEnd ==
  ASSUME NEW s, Script(s), Balanced(s), NEW bs, Len(bs) \in Nat \ {0},
         NEW c \in Lines(s), Nested(s, bs, c), s[c] = "end"
  PROVE  Around(s, c) = {Opener(bs, d) : d \in 2 .. Len(bs) - 1}
<1>1. Len(s) \in Nat /\ Lines(s) = 1 .. Len(s) /\ c \in 1 .. Len(s)
  BY LinesAre
<1>2. /\ EndOf(s, Opener(bs, Len(bs))) = c
      /\ \A d \in 2 .. Len(bs) - 1 : c < EndOf(s, Opener(bs, d))
  BY TopEnds
<1>3. ASSUME NEW d \in 2 .. Len(bs) - 1 PROVE Opener(bs, d) \in Around(s, c)
  <2>1. d \in 2 .. Len(bs)
    OBVIOUS
  <2>2. Opener(bs, d) \in 1 .. c - 1 /\ s[Opener(bs, d)] \in Openers
    BY <2>1 DEF Nested
  <2> QED
    BY <1>2, <2>2 DEF Around
<1>4. ASSUME NEW o \in Around(s, c) PROVE \E d \in 2 .. Len(bs) - 1 : o = Opener(bs, d)
  <2>1. o \in 1 .. c - 1 /\ s[o] \in Openers /\ c < EndOf(s, o)
    BY DEF Around
  <2>2. EndOf(s, o) \in Nat
    <3>1. o \in Lines(s)
      BY <1>1, <2>1
    <3> QED
      BY <1>1, <2>1, <3>1, EndOfBlock
  <2>3. ~(EndOf(s, o) < c) /\ EndOf(s, o) # c
    BY <1>1, <2>1, <2>2
  <2>4. PICK d \in 2 .. Len(bs) : o = Opener(bs, d)
    BY <2>1, <2>3 DEF Nested
  <2>5. d # Len(bs)
    BY <1>2, <2>3, <2>4
  <2>6. d \in 2 .. Len(bs) - 1
    BY <2>4, <2>5
  <2> QED
    BY <2>4, <2>6
<1> QED
  BY <1>3, <1>4
-----------------------------------------------------------------------------
(* The threads, and the lines that open them.                              *)

(* The innermost of the first d builders that builds a thread of its own   *)
(* is that of line w, or none is.                                          *)
OwnerIs(s, bs, d, w) ==
  /\ w = 0 \/ \E e \in 2 .. d : w = Opener(bs, e) /\ s[w] \in SubThreads
  /\ \A e \in 2 .. d : s[Opener(bs, e)] \in SubThreads => Opener(bs, e) <= w

Owned(s, ths, bs, c) ==
  /\ ths \in Seq(Threads)
  /\ \A t, u \in DOMAIN ths : ths[t].owner = ths[u].owner => t = u
  /\ \A t \in DOMAIN ths : ths[t].owner < c
  /\ \A d \in 1 .. Len(bs) : bs[d].thread \in DOMAIN ths /\ OwnerIs(s, bs, d, ths[bs[d].thread].owner)
  /\ \A d \in 2 .. Len(bs) : ThreadOf(s, Opener(bs, d)) = ths[bs[d - 1].thread].owner

LEMMA OwnersAre ==
  ASSUME NEW s, NEW ths, NEW bs, NEW c, Owned(s, ths, bs, c)
  PROVE  /\ Len(ths) \in Nat /\ DOMAIN ths = 1 .. Len(ths)
         /\ \A t \in DOMAIN ths : ths[t] \in Threads /\ ths[t].owner \in Nat
<1>1. ths \in Seq(Threads)
  BY DEF Owned
<1>2. Len(ths) \in Nat /\ DOMAIN ths = 1 .. Len(ths) /\ ths \in [1 .. Len(ths) -> Threads]
  BY <1>1, LenProperties
<1> QED
  BY <1>2 DEF Threads

(* The innermost builder builds the thread in which its line stands.       *)
LEMMA CursorThread ==
  ASSUME NEW s, Script(s), Balanced(s), NEW bs, Len(bs) \in Nat \ {0}, NEW ths,
         NEW c \in Lines(s), Nested(s, bs, c), Owned(s, ths, bs, c),
         s[c] = "end" => s[Opener(bs, Len(bs))] \notin SubThreads
  PROVE  ThreadOf(s, c) = ths[bs[Len(bs)].thread].owner
<1> DEFINE w == ths[bs[Len(bs)].thread].owner
           top == IF s[c] = "end" THEN Len(bs) - 1 ELSE Len(bs)
<1>1. Len(s) \in Nat /\ Lines(s) = 1 .. Len(s) /\ c \in 1 .. Len(s)
  BY LinesAre
<1>2. Around(s, c) = {Opener(bs, d) : d \in 2 .. top}
  BY AroundTheCursor, AroundTheEnd
<1>3. OwnerIs(s, bs, Len(bs), w)
  BY DEF Owned
<1>4. \A e \in 2 .. top : s[Opener(bs, e)] \in SubThreads => Opener(bs, e) <= w
  BY <1>3 DEF OwnerIs
<1>5. CASE w = 0
  <2>1. \A p \in Around(s, c) : s[p] \notin SubThreads
    <3>1. \A e \in 2 .. Len(bs) : Opener(bs, e) \in 1 .. c - 1
      BY DEF Nested
    <3> QED
      BY <1>1, <1>2, <1>4, <1>5, <3>1
  <2> QED
    BY <1>5, <2>1, InnermostNone DEF ThreadOf
<1>6. CASE w # 0
  <2>1. PICK e \in 2 .. Len(bs) : w = Opener(bs, e) /\ s[w] \in SubThreads
    BY <1>3, <1>6 DEF OwnerIs
  <2>2. e \in 2 .. top
    BY <2>1
  <2>3. w \in Around(s, c) /\ \A p \in Around(s, c) : s[p] \in SubThreads => p <= w
    BY <1>2, <1>4, <2>1, <2>2
  <2> HIDE DEF w
  <2>4. Innermost(s, c, SubThreads) = w
    BY <1>1, <2>1, <2>3, InnermostIs
  <2> QED
    BY <2>4, SMTT(30), ZenonT(60) DEF ThreadOf, w
<1> QED
  BY <1>5, <1>6

LEMMA OwnedAlong ==
  ASSUME NEW s, NEW ths, NEW bs, NEW bs2, NEW c \in Nat, NEW c2 \in Nat, c <= c2, Owned(s, ths, bs, c),
         Len(bs2) = Len(bs), Len(bs) \in Nat,
         \A d \in 1 .. Len(bs) : Opener(bs2, d) = Opener(bs, d) /\ bs2[d].thread = bs[d].thread
  PROVE  Owned(s, ths, bs2, c2)
<1>1. \A t \in DOMAIN ths : ths[t].owner < c2
  <2>1. \A t \in DOMAIN ths : ths[t].owner \in Nat /\ ths[t].owner < c
    BY OwnersAre DEF Owned
  <2> QED
    BY <2>1
<1>2. ASSUME NEW d \in 1 .. Len(bs)
      PROVE  bs2[d].thread \in DOMAIN ths /\ OwnerIs(s, bs2, d, ths[bs2[d].thread].owner)
  <2>1. \A e \in 2 .. d : Opener(bs2, e) = Opener(bs, e)
    OBVIOUS
  <2>2. bs[d].thread \in DOMAIN ths /\ OwnerIs(s, bs, d, ths[bs[d].thread].owner) /\ bs2[d].thread = bs[d].thread
    BY DEF Owned
  <2> QED
    BY <2>1, <2>2 DEF OwnerIs
<1>3. ASSUME NEW d \in 2 .. Len(bs) PROVE ThreadOf(s, Opener(bs2, d)) = ths[bs2[d - 1].thread].owner
  <2>1. d \in 1 .. Len(bs) /\ d - 1 \in 1 .. Len(bs)
    OBVIOUS
  <2>2. ThreadOf(s, Opener(bs, d)) = ths[bs[d - 1].thread].owner
    BY DEF Owned
  <2> QED
    BY <2>1, <2>2
<1> QED
  BY <1>1, <1>2, <1>3 DEF Owned

(* A builder of a block of the same thread. *)
LEMMA OwnedDeeper ==
  ASSUME NEW s, NEW ths, NEW bs, NEW bs2, NEW c \in Nat, Owned(s, ths, bs, c), Len(bs) \in Nat \ {0},
         Len(bs2) = Len(bs) + 1, Opener(bs2, Len(bs2)) = c,
         \A d \in 1 .. Len(bs) : Opener(bs2, d) = Opener(bs, d) /\ bs2[d].thread = bs[d].thread,
         s[c] \notin SubThreads, bs2[Len(bs2)].thread = bs[Len(bs)].thread,
         ThreadOf(s, c) = ths[bs[Len(bs)].thread].owner
  PROVE  Owned(s, ths, bs2, c + 1)
<1>1. \A t \in DOMAIN ths : ths[t].owner < c + 1
  <2>1. \A t \in DOMAIN ths : ths[t].owner \in Nat /\ ths[t].owner < c
    BY OwnersAre DEF Owned
  <2> QED
    BY <2>1
<1>2. ASSUME NEW d \in 1 .. Len(bs)
      PROVE  bs2[d].thread \in DOMAIN ths /\ OwnerIs(s, bs2, d, ths[bs2[d].thread].owner)
  <2>1. \A e \in 2 .. d : Opener(bs2, e) = Opener(bs, e)
    OBVIOUS
  <2>2. bs[d].thread \in DOMAIN ths /\ OwnerIs(s, bs, d, ths[bs[d].thread].owner) /\ bs2[d].thread = bs[d].thread
    BY DEF Owned
  <2> QED
    BY <2>1, <2>2 DEF OwnerIs
<1>3. OwnerIs(s, bs2, Len(bs2), ths[bs2[Len(bs2)].thread].owner) /\ bs2[Len(bs2)].thread \in DOMAIN ths
  <2>1. OwnerIs(s, bs2, Len(bs), ths[bs2[Len(bs2)].thread].owner) /\ bs2[Len(bs2)].thread \in DOMAIN ths
    BY <1>2
  <2>2. \A e \in 2 .. Len(bs2) : e \in 2 .. Len(bs) \/ e = Len(bs2)
    OBVIOUS
  <2>3. \A e \in 2 .. Len(bs) : e \in 2 .. Len(bs2)
    OBVIOUS
  <2> QED
    BY <2>1, <2>2, <2>3 DEF OwnerIs
<1>4. ASSUME NEW d \in 2 .. Len(bs2) PROVE ThreadOf(s, Opener(bs2, d)) = ths[bs2[d - 1].thread].owner
  <2>1. d - 1 \in 1 .. Len(bs) /\ bs2[d - 1].thread = bs[d - 1].thread
    OBVIOUS
  <2>2. CASE d = Len(bs2)
    BY <2>1, <2>2
  <2>3. CASE d # Len(bs2)
    <3>1. d \in 2 .. Len(bs) /\ d \in 1 .. Len(bs)
      BY <2>3
    <3>2. ThreadOf(s, Opener(bs, d)) = ths[bs[d - 1].thread].owner
      BY <3>1 DEF Owned
    <3> QED
      BY <2>1, <3>1, <3>2
  <2> QED
    BY <2>2, <2>3
<1>5. \A d \in 1 .. Len(bs2) : d \in 1 .. Len(bs) \/ d = Len(bs2)
  OBVIOUS
<1>6. \A d \in 1 .. Len(bs2) : bs2[d].thread \in DOMAIN ths /\ OwnerIs(s, bs2, d, ths[bs2[d].thread].owner)
  BY <1>2, <1>3, <1>5
<1> QED
  BY <1>1, <1>4, <1>6 DEF Owned

(* A builder of a thread of its own. *)
LEMMA OwnedNew ==
  ASSUME NEW s, NEW ths, NEW ths2, NEW bs, NEW bs2, NEW c \in Nat \ {0}, Owned(s, ths, bs, c), Len(bs) \in Nat \ {0},
         Len(bs2) = Len(bs) + 1, Opener(bs2, Len(bs2)) = c,
         \A d \in 1 .. Len(bs) : Opener(bs2, d) = Opener(bs, d) /\ bs2[d].thread = bs[d].thread,
         \A d \in 2 .. Len(bs) : Opener(bs, d) < c /\ Opener(bs, d) \in Nat,
         NEW w \in Threads, w.owner = c, ths2 = Append(ths, w),
         s[c] \in SubThreads, bs2[Len(bs2)].thread = Len(ths) + 1,
         ThreadOf(s, c) = ths[bs[Len(bs)].thread].owner
  PROVE  Owned(s, ths2, bs2, c + 1)
<1>0. Len(ths) \in Nat /\ DOMAIN ths = 1 .. Len(ths) /\ ths \in Seq(Threads)
  BY OwnersAre DEF Owned
<1>1. /\ ths2 \in Seq(Threads)
      /\ DOMAIN ths2 = 1 .. Len(ths) + 1
      /\ \A t \in 1 .. Len(ths) : ths2[t] = ths[t]
      /\ ths2[Len(ths) + 1].owner = c
  BY <1>0
<1>2. \A t \in 1 .. Len(ths) : ths[t].owner \in Nat /\ ths[t].owner < c
  BY <1>0, OwnersAre DEF Owned
<1>3. \A t \in DOMAIN ths2 : ths2[t].owner < c + 1
  <2>1. ASSUME NEW t \in DOMAIN ths2 PROVE ths2[t].owner < c + 1
    <3>1. t \in 1 .. Len(ths) \/ t = Len(ths) + 1
      BY <1>0, <1>1, SMTT(30), ZenonT(30)
    <3> QED
      BY <1>1, <1>2, <3>1, SMTT(30), ZenonT(30)
  <2> QED
    BY <2>1
<1>4. \A t, u \in DOMAIN ths2 : ths2[t].owner = ths2[u].owner => t = u
  <2>1. ASSUME NEW t \in DOMAIN ths2, NEW u \in DOMAIN ths2, ths2[t].owner = ths2[u].owner PROVE t = u
    <3>1. t \in 1 .. Len(ths) \/ t = Len(ths) + 1
      BY <1>0, <1>1, SMTT(30), ZenonT(30)
    <3>2. u \in 1 .. Len(ths) \/ u = Len(ths) + 1
      BY <1>0, <1>1
    <3>3. CASE t \in 1 .. Len(ths) /\ u \in 1 .. Len(ths)
      BY <1>0, <1>1, <2>1, <3>3 DEF Owned
    <3> QED
      BY <1>1, <1>2, <2>1, <3>1, <3>2, <3>3
  <2> QED
    BY <2>1
<1>5. ASSUME NEW d \in 1 .. Len(bs)
      PROVE  /\ bs2[d].thread \in DOMAIN ths2 /\ OwnerIs(s, bs2, d, ths2[bs2[d].thread].owner)
             /\ ths2[bs2[d].thread] = ths[bs[d].thread]
  <2>1. \A e \in 2 .. d : Opener(bs2, e) = Opener(bs, e)
    OBVIOUS
  <2>2. bs[d].thread \in DOMAIN ths /\ OwnerIs(s, bs, d, ths[bs[d].thread].owner) /\ bs2[d].thread = bs[d].thread
    BY DEF Owned
  <2>3. ths2[bs2[d].thread] = ths[bs[d].thread] /\ bs2[d].thread \in DOMAIN ths2
    BY <1>0, <1>1, <2>2
  <2> QED
    BY <2>1, <2>2, <2>3 DEF OwnerIs
<1>6. OwnerIs(s, bs2, Len(bs2), ths2[bs2[Len(bs2)].thread].owner) /\ bs2[Len(bs2)].thread \in DOMAIN ths2
  <2>1. ASSUME NEW e \in 2 .. Len(bs2) PROVE Opener(bs2, e) <= c
    <3>1. CASE e = Len(bs2)
      BY <3>1
    <3>2. CASE e # Len(bs2)
      <4>1. e \in 2 .. Len(bs)
        BY <3>2
      <4>2. Opener(bs2, e) = Opener(bs, e) /\ Opener(bs, e) < c /\ Opener(bs, e) \in Nat
        BY <4>1
      <4> QED
        BY <4>2
    <3> QED
      BY <3>1, <3>2
  <2>2. ths2[bs2[Len(bs2)].thread].owner = c /\ bs2[Len(bs2)].thread \in DOMAIN ths2
    BY <1>0, <1>1
  <2>3. Len(bs2) \in 2 .. Len(bs2)
    OBVIOUS
  <2> QED
    BY <2>1, <2>2, <2>3 DEF OwnerIs
<1>7. ASSUME NEW d \in 2 .. Len(bs2) PROVE ThreadOf(s, Opener(bs2, d)) = ths2[bs2[d - 1].thread].owner
  <2>1. d - 1 \in 1 .. Len(bs) /\ ths2[bs2[d - 1].thread] = ths[bs[d - 1].thread]
    <3>1. d - 1 \in 1 .. Len(bs)
      OBVIOUS
    <3> QED
      BY <3>1, <1>5
  <2>2. CASE d = Len(bs2)
    <3>1. d - 1 = Len(bs)
      BY <2>2
    <3> QED
      BY <2>1, <2>2, <3>1
  <2>3. CASE d # Len(bs2)
    <3>1. d \in 2 .. Len(bs) /\ d \in 1 .. Len(bs)
      BY <2>3, SMTT(30), ZenonT(60)
    <3>2. ThreadOf(s, Opener(bs, d)) = ths[bs[d - 1].thread].owner
      BY <3>1 DEF Owned
    <3> QED
      BY <2>1, <3>1, <3>2
  <2> QED
    BY <2>2, <2>3
<1>8. \A d \in 1 .. Len(bs2) : d \in 1 .. Len(bs) \/ d = Len(bs2)
  OBVIOUS
<1>9. \A d \in 1 .. Len(bs2) : bs2[d].thread \in DOMAIN ths2 /\ OwnerIs(s, bs2, d, ths2[bs2[d].thread].owner)
  BY <1>5, <1>6, <1>8
<1> QED
  BY <1>1, <1>3, <1>4, <1>7, <1>9 DEF Owned

LEMMA OwnedOut ==
  ASSUME NEW s, NEW ths, NEW bs, NEW bs2, NEW c \in Nat, Owned(s, ths, bs, c), Len(bs) \in Nat \ {0},
         Len(bs2) = Len(bs) - 1,
         \A d \in 1 .. Len(bs2) : Opener(bs2, d) = Opener(bs, d) /\ bs2[d].thread = bs[d].thread
  PROVE  Owned(s, ths, bs2, c + 1)
<1>1. \A t \in DOMAIN ths : ths[t].owner < c + 1
  <2>1. \A t \in DOMAIN ths : ths[t].owner \in Nat /\ ths[t].owner < c
    BY OwnersAre DEF Owned
  <2> QED
    BY <2>1
<1>2. ASSUME NEW d \in 1 .. Len(bs2)
      PROVE  bs2[d].thread \in DOMAIN ths /\ OwnerIs(s, bs2, d, ths[bs2[d].thread].owner)
  <2>1. \A e \in 2 .. d : Opener(bs2, e) = Opener(bs, e)
    OBVIOUS
  <2>0. d \in 1 .. Len(bs)
    OBVIOUS
  <2>2. bs[d].thread \in DOMAIN ths /\ OwnerIs(s, bs, d, ths[bs[d].thread].owner) /\ bs2[d].thread = bs[d].thread
    BY <2>0 DEF Owned
  <2> QED
    BY <2>1, <2>2 DEF OwnerIs
<1>3. ASSUME NEW d \in 2 .. Len(bs2) PROVE ThreadOf(s, Opener(bs2, d)) = ths[bs2[d - 1].thread].owner
  <2>1. d \in 1 .. Len(bs2) /\ d - 1 \in 1 .. Len(bs2) /\ d \in 2 .. Len(bs)
    OBVIOUS
  <2>2. ThreadOf(s, Opener(bs, d)) = ths[bs[d - 1].thread].owner
    BY <2>1 DEF Owned
  <2> QED
    BY <2>1, <2>2
<1> QED
  BY <1>1, <1>2, <1>3 DEF Owned
-----------------------------------------------------------------------------
(* What may become of the code of the threads. *)

Codes == Seq(Seq(Instrs))

LEMMA CodesAre ==
  ASSUME NEW co \in Codes
  PROVE  /\ Len(co) \in Nat /\ DOMAIN co = 1 .. Len(co)
         /\ \A t \in 1 .. Len(co) :
              /\ co[t] \in Seq(Instrs) /\ Len(co[t]) \in Nat /\ DOMAIN co[t] = 1 .. Len(co[t])
              /\ \A k \in 1 .. Len(co[t]) : co[t][k] \in Instrs /\ co[t][k].lines \in SUBSET Nat
<1>1. Len(co) \in Nat /\ DOMAIN co = 1 .. Len(co) /\ co \in [1 .. Len(co) -> Seq(Instrs)]
  BY LenProperties DEF Codes
<1>2. ASSUME NEW t \in 1 .. Len(co)
      PROVE  /\ co[t] \in Seq(Instrs) /\ Len(co[t]) \in Nat /\ DOMAIN co[t] = 1 .. Len(co[t])
             /\ \A k \in 1 .. Len(co[t]) : co[t][k] \in Instrs /\ co[t][k].lines \in SUBSET Nat
  <2>1. co[t] \in Seq(Instrs)
    BY <1>1
  <2>2. Len(co[t]) \in Nat /\ DOMAIN co[t] = 1 .. Len(co[t]) /\ co[t] \in [1 .. Len(co[t]) -> Instrs]
    BY <2>1, LenProperties
  <2> QED
    BY <2>1, <2>2 DEF Instrs
<1> QED
  BY <1>1, <1>2

Replaced(q, i, e, r) == r = [q EXCEPT ![i] = e]

LEMMA ExceptIs ==
  ASSUME NEW S, NEW q \in Seq(S), NEW i \in 1 .. Len(q), NEW e \in S, NEW r, Replaced(q, i, e, r)
  PROVE  /\ r \in Seq(S) /\ Len(r) = Len(q)
         /\ \A j \in 1 .. Len(q) : r[j] = IF j = i THEN e ELSE q[j]
BY ExceptSeq DEF Replaced

(* Thread t has the instructions xs more, behind those it had.             *)
Extended(co, co2, t, xs) ==
  /\ Len(co2) = Len(co)
  /\ \A u \in 1 .. Len(co) : u # t => co2[u] = co[u]
  /\ Len(co2[t]) = Len(co[t]) + Len(xs)
  /\ \A k \in 1 .. Len(co[t]) : co2[t][k] = co[t][k]
  /\ \A k \in 1 .. Len(xs) : co2[t][Len(co[t]) + k] = xs[k]

LEMMA ExtendedBy ==
  ASSUME NEW co \in Codes, NEW t \in 1 .. Len(co), NEW xs \in Seq(Instrs), NEW co2, Replaced(co, t, co[t] \o xs, co2)
  PROVE  co2 \in Codes /\ Extended(co, co2, t, xs)
<1>1. co[t] \in Seq(Instrs) /\ Len(co[t]) \in Nat
  BY CodesAre
<1>2. /\ co[t] \o xs \in Seq(Instrs)
      /\ Len(co[t] \o xs) = Len(co[t]) + Len(xs)
      /\ \A k \in 1 .. Len(co[t]) + Len(xs) :
           (co[t] \o xs)[k] = IF k <= Len(co[t]) THEN co[t][k] ELSE xs[k - Len(co[t])]
  BY <1>1, ConcatProperties
<1>3. co \in Seq(Seq(Instrs))
  BY DEF Codes
<1> DEFINE y == co[t] \o xs
<1>4. y \in Seq(Instrs) /\ Replaced(co, t, y, co2)
  BY <1>2
<1> HIDE DEF y
<1>5. /\ co2 \in Seq(Seq(Instrs)) /\ Len(co2) = Len(co)
      /\ \A j \in 1 .. Len(co) : co2[j] = IF j = t THEN y ELSE co[j]
  <2> DEFINE S == Seq(Instrs)
  <2>1. co \in Seq(S) /\ y \in S
    BY <1>3, <1>4
  <2> HIDE DEF S
  <2>2. co2 \in Seq(S) /\ Len(co2) = Len(co) /\ \A j \in 1 .. Len(co) : co2[j] = IF j = t THEN y ELSE co[j]
    BY <1>4, <2>1, ExceptIs
  <2> QED
    BY <2>2 DEF S
<1>6. Len(xs) \in Nat
  BY LenProperties
<1>7. ASSUME NEW k \in 1 .. Len(co[t]) PROVE co2[t][k] = co[t][k]
  <2>1. k \in 1 .. Len(co[t]) + Len(xs) /\ k <= Len(co[t])
    BY <1>1, <1>6
  <2> QED
    BY <1>2, <1>5, <2>1 DEF y
<1>8. ASSUME NEW k \in 1 .. Len(xs) PROVE co2[t][Len(co[t]) + k] = xs[k]
  <2>1. Len(co[t]) + k \in 1 .. Len(co[t]) + Len(xs) /\ ~(Len(co[t]) + k <= Len(co[t])) /\ (Len(co[t]) + k) - Len(co[t]) = k
    BY <1>1, <1>6
  <2> QED
    BY <1>2, <1>5, <2>1 DEF y
<1>9. Len(co2[t]) = Len(co[t]) + Len(xs)
  BY <1>2, <1>5 DEF y
<1> QED
  BY <1>5, <1>7, <1>8, <1>9 DEF Codes, Extended

(* The instructions are the same but for the sizes of their blocks.        *)
Relined(co, co2) ==
  /\ Len(co2) = Len(co)
  /\ \A t \in 1 .. Len(co) :
       /\ Len(co2[t]) = Len(co[t])
       /\ \A k \in 1 .. Len(co[t]) :
            co2[t][k].lines = co[t][k].lines /\ co2[t][k].op = co[t][k].op /\ co2[t][k].cadence = co[t][k].cadence

(* One size is set. *)
Sized(co, co2, t, p, size) ==
  /\ Relined(co, co2)
  /\ \A u \in 1 .. Len(co) : \A k \in 1 .. Len(co[u]) :
       co2[u][k].size = IF u = t /\ k = p THEN size ELSE co[u][k].size

LEMMA SizedBy ==
  ASSUME NEW co \in Codes, NEW t \in 1 .. Len(co), NEW p, NEW size \in Int, NEW co2, co2 = [co EXCEPT ![t][p].size = size]
  PROVE  co2 \in Codes /\ Sized(co, co2, t, p, size)
<1>1. co[t] \in Seq(Instrs) /\ Len(co[t]) \in Nat /\ co \in Seq(Seq(Instrs)) /\ DOMAIN co[t] = 1 .. Len(co[t])
  BY CodesAre DEF Codes
<1> DEFINE y == [co[t] EXCEPT ![p].size = size]
<1>2. y \in Seq(Instrs) /\ Len(y) = Len(co[t])
      /\ \A k \in 1 .. Len(co[t]) : y[k] = IF k = p THEN [co[t][k] EXCEPT !.size = size] ELSE co[t][k]
  <2>1. CASE p \in 1 .. Len(co[t])
    <3>1. co[t][p] \in Instrs
      BY <2>1, CodesAre
    <3>2. [co[t][p] EXCEPT !.size = size] \in Instrs
      BY <3>1 DEF Instrs
    <3>3. y = [co[t] EXCEPT ![p] = [co[t][p] EXCEPT !.size = size]]
      OBVIOUS
    <3> DEFINE z == [co[t][p] EXCEPT !.size = size]
    <3>4. z \in Instrs /\ y = [co[t] EXCEPT ![p] = z]
      BY <3>2, <3>3
    <3> HIDE DEF z, y
    <3>5. y \in Seq(Instrs) /\ Len(y) = Len(co[t]) /\ \A k \in 1 .. Len(co[t]) : y[k] = IF k = p THEN z ELSE co[t][k]
      BY <1>1, <2>1, <3>4, ExceptSeq
    <3> QED
      BY <3>5 DEF z
  <2>2. CASE p \notin 1 .. Len(co[t])
    <3>1. co[t] \in [1 .. Len(co[t]) -> Instrs]
      BY <1>1, LenProperties
    <3>2. y = co[t]
      BY <2>2, <3>1
    <3> HIDE DEF y
    <3> QED
      BY <1>1, <2>2, <3>2
  <2> QED
    BY <2>1, <2>2
<1>3. Replaced(co, t, y, co2)
  BY DEF Replaced
<1> HIDE DEF y
<1>4. /\ co2 \in Seq(Seq(Instrs)) /\ Len(co2) = Len(co)
      /\ \A j \in 1 .. Len(co) : co2[j] = IF j = t THEN y ELSE co[j]
  <2> DEFINE S == Seq(Instrs)
  <2>1. co \in Seq(S) /\ y \in S
    BY <1>1, <1>2, <1>3
  <2> HIDE DEF S
  <2>2. co2 \in Seq(S) /\ Len(co2) = Len(co) /\ \A j \in 1 .. Len(co) : co2[j] = IF j = t THEN y ELSE co[j]
    BY ONLY <1>3, <2>1, ExceptIs, SMTT(60)
  <2> QED
    BY <2>2 DEF S
<1>5. ASSUME NEW u \in 1 .. Len(co)
      PROVE  /\ Len(co2[u]) = Len(co[u])
             /\ \A k \in 1 .. Len(co[u]) :
                  /\ co2[u][k].lines = co[u][k].lines /\ co2[u][k].op = co[u][k].op
                  /\ co2[u][k].cadence = co[u][k].cadence
                  /\ co2[u][k].size = IF u = t /\ k = p THEN size ELSE co[u][k].size
  <2>1. CASE u = t
    <3>1. co2[u] = y
      BY <1>4, <2>1
    <3>2. ASSUME NEW k \in 1 .. Len(co[u])
          PROVE  /\ co2[u][k].lines = co[u][k].lines /\ co2[u][k].op = co[u][k].op
                 /\ co2[u][k].cadence = co[u][k].cadence
                 /\ co2[u][k].size = IF u = t /\ k = p THEN size ELSE co[u][k].size
      <4>1. co[u][k] \in Instrs
        BY CodesAre
      <4>2. co2[u][k] = IF k = p THEN [co[u][k] EXCEPT !.size = size] ELSE co[u][k]
        BY <1>2, <2>1, <3>1
      <4> QED
        BY <2>1, <4>1, <4>2 DEF Instrs
    <3> QED
      BY <1>2, <2>1, <3>1, <3>2
  <2>2. CASE u # t
    BY <1>4, <2>2
  <2> QED
    BY <2>1, <2>2
<1> QED
  BY <1>4, <1>5, SMTT(30), ZenonT(60) DEF Codes, Sized, Relined
-----------------------------------------------------------------------------
(* Every line behind the cursor that does something is in one instruction  *)
(* of its thread, or kept back by one builder of its thread.               *)

Does == {"do", "set", "pause"}

InNone(co, t, i) == \A k \in 1 .. Len(co[t]) : i \notin co[t][k].lines
InOne(co, t, i) ==
  \E k \in 1 .. Len(co[t]) : i \in co[t][k].lines /\ \A l \in 1 .. Len(co[t]) : i \in co[t][l].lines => l = k
NoneWaits(bs, t, i) == \A d \in 1 .. Len(bs) : bs[d].thread = t => i \notin bs[d].pending
OneWaits(bs, t, i) ==
  \E d \in 1 .. Len(bs) : /\ bs[d].thread = t /\ i \in bs[d].pending
                          /\ \A e \in 1 .. Len(bs) : bs[e].thread = t /\ i \in bs[e].pending => e = d

Never(co, bs, t, i) == InNone(co, t, i) /\ NoneWaits(bs, t, i)
Once(co, bs, t, i) == \/ InOne(co, t, i) /\ NoneWaits(bs, t, i)
                      \/ InNone(co, t, i) /\ OneWaits(bs, t, i)

Placed(s, co, ths, bs, c) ==
  /\ co \in Codes /\ Len(co) = Len(ths)
  /\ \A t \in 1 .. Len(co) : \A k \in 1 .. Len(co[t]) : \A i \in co[t][k].lines : i \in 1 .. c - 1
  /\ \A d \in 1 .. Len(bs) : \A i \in bs[d].pending : i \in 1 .. c - 1 /\ s[i] = "set"
  /\ \A i \in 1 .. c - 1 : s[i] \in Does =>
       \A t \in 1 .. Len(co) :
         IF ths[t].owner = ThreadOf(s, i) THEN Once(co, bs, t, i) ELSE Never(co, bs, t, i)

(* Builders come and go, if they keep nothing back. *)
Slots(bs, bs2) ==
  /\ \A d \in 1 .. Len(bs) : bs[d].pending # {} =>
       d \in 1 .. Len(bs2) /\ bs2[d].pending = bs[d].pending /\ bs2[d].thread = bs[d].thread
  /\ \A d \in 1 .. Len(bs2) : bs2[d].pending # {} =>
       d \in 1 .. Len(bs) /\ bs2[d].pending = bs[d].pending /\ bs2[d].thread = bs[d].thread

LEMMA PlacedSlots ==
  ASSUME NEW s, NEW co, NEW ths, NEW bs, NEW bs2, NEW c, Placed(s, co, ths, bs, c), Slots(bs, bs2)
  PROVE  Placed(s, co, ths, bs2, c)
<1>1. ASSUME NEW d \in 1 .. Len(bs2), NEW i \in bs2[d].pending PROVE i \in 1 .. c - 1 /\ s[i] = "set"
  <2>1. d \in 1 .. Len(bs) /\ i \in bs[d].pending
    BY DEF Slots
  <2> QED
    BY <2>1 DEF Placed
<1>2. ASSUME NEW t, NEW i PROVE NoneWaits(bs, t, i) => NoneWaits(bs2, t, i)
  BY DEF NoneWaits, Slots
<1>3. ASSUME NEW t, NEW i, OneWaits(bs, t, i) PROVE OneWaits(bs2, t, i)
  <2>1. PICK d \in 1 .. Len(bs) : /\ bs[d].thread = t /\ i \in bs[d].pending
                                  /\ \A e \in 1 .. Len(bs) : bs[e].thread = t /\ i \in bs[e].pending => e = d
    BY <1>3 DEF OneWaits
  <2>2. d \in 1 .. Len(bs2) /\ bs2[d].thread = t /\ i \in bs2[d].pending
    BY <2>1 DEF Slots
  <2>3. \A e \in 1 .. Len(bs2) : bs2[e].thread = t /\ i \in bs2[e].pending => e = d
    BY <2>1 DEF Slots
  <2> QED
    BY <2>2, <2>3 DEF OneWaits
<1>4. ASSUME NEW t, NEW i
      PROVE  /\ Never(co, bs, t, i) => Never(co, bs2, t, i)
             /\ Once(co, bs, t, i) => Once(co, bs2, t, i)
  BY <1>2, <1>3 DEF Never, Once
<1> QED
  BY <1>1, <1>4 DEF Placed

(* Lines that do nothing. *)
LEMMA PlacedAlong ==
  ASSUME NEW s, NEW co, NEW ths, NEW bs, NEW c \in Nat, NEW c2 \in Nat, c <= c2, Placed(s, co, ths, bs, c),
         \A i \in c .. c2 - 1 : s[i] \notin Does
  PROVE  Placed(s, co, ths, bs, c2)
<1>1. \A i \in 1 .. c2 - 1 : s[i] \in Does => i \in 1 .. c - 1
  OBVIOUS
<1>2. \A i \in 1 .. c - 1 : i \in 1 .. c2 - 1
  OBVIOUS
<1> QED
  BY <1>1, <1>2 DEF Placed

(* Instructions of such lines. *)
LEMMA PlacedExtended ==
  ASSUME NEW s, NEW co, NEW co2 \in Codes, NEW ths, NEW bs, NEW c, NEW t \in 1 .. Len(co), NEW xs \in Seq(Instrs),
         Placed(s, co, ths, bs, c), Extended(co, co2, t, xs),
         \A k \in 1 .. Len(xs) : \A i \in xs[k].lines : i \in 1 .. c - 1 /\ s[i] \notin Does
  PROVE  Placed(s, co2, ths, bs, c)
<1>0. Len(co[t]) \in Nat /\ Len(xs) \in Nat /\ co \in Codes
  BY CodesAre, LenProperties DEF Placed
<1>1. ASSUME NEW k \in 1 .. Len(co2[t])
      PROVE  \/ k \in 1 .. Len(co[t]) /\ co2[t][k] = co[t][k]
             \/ k > Len(co[t]) /\ \A i \in co2[t][k].lines : i \in 1 .. c - 1 /\ s[i] \notin Does
  <2>1. CASE k \in 1 .. Len(co[t])
    BY <2>1 DEF Extended
  <2>2. CASE k \notin 1 .. Len(co[t])
    <3>1. k - Len(co[t]) \in 1 .. Len(xs) /\ Len(co[t]) + (k - Len(co[t])) = k /\ k > Len(co[t])
      BY <1>0, <2>2 DEF Extended
    <3>2. co2[t][k] = xs[k - Len(co[t])]
      BY <3>1 DEF Extended
    <3> QED
      BY <3>1, <3>2
  <2> QED
    BY <2>1, <2>2
<1>2. ASSUME NEW u \in 1 .. Len(co), NEW k \in 1 .. Len(co2[u]), NEW i \in co2[u][k].lines PROVE i \in 1 .. c - 1
  <2>1. CASE u = t
    BY <1>1, <2>1 DEF Placed
  <2>2. CASE u # t
    BY <2>2 DEF Placed, Extended
  <2> QED
    BY <2>1, <2>2
<1>3. \A k \in 1 .. Len(co[t]) : k \in 1 .. Len(co2[t]) /\ co2[t][k] = co[t][k]
  BY <1>0 DEF Extended
<1>4. ASSUME NEW i, s[i] \in Does, NEW u \in 1 .. Len(co)
      PROVE  (InNone(co, u, i) => InNone(co2, u, i)) /\ (InOne(co, u, i) => InOne(co2, u, i))
  <2>1. CASE u = t
    <3>1. \A l \in 1 .. Len(co2[t]) : i \in co2[t][l].lines => l \in 1 .. Len(co[t]) /\ i \in co[t][l].lines
      BY <1>1, <1>4
    <3>2. InNone(co, t, i) => InNone(co2, t, i)
      BY <3>1 DEF InNone
    <3>3. InOne(co, t, i) => InOne(co2, t, i)
      BY <1>3, <3>1 DEF InOne
    <3> QED
      BY <2>1, <3>2, <3>3
  <2>2. CASE u # t
    BY <2>2 DEF InNone, InOne, Extended
  <2> QED
    BY <2>1, <2>2
<1>5. ASSUME NEW i, s[i] \in Does, NEW u \in 1 .. Len(co)
      PROVE  /\ Never(co, bs, u, i) => Never(co2, bs, u, i)
             /\ Once(co, bs, u, i) => Once(co2, bs, u, i)
  BY <1>4, <1>5 DEF Never, Once
<1>6. Len(co2) = Len(co)
  BY DEF Extended
<1> QED
  BY <1>2, <1>5, <1>6 DEF Placed

(* flush_update_instruction *)
LEMMA PlacedFlush ==
  ASSUME NEW s, NEW co, NEW co2 \in Codes, NEW ths, NEW bs, NEW bs2, NEW c, NEW d \in 1 .. Len(bs), NEW x \in Instrs,
         bs[d].thread \in 1 .. Len(co), Placed(s, co, ths, bs, c), Extended(co, co2, bs[d].thread, <<x>>),
         x.lines = bs[d].pending, Len(bs2) = Len(bs), bs2[d].pending = {},
         \A e \in 1 .. Len(bs) : bs2[e].thread = bs[e].thread /\ (e # d => bs2[e].pending = bs[e].pending)
  PROVE  Placed(s, co2, ths, bs2, c)
<1> DEFINE t == bs[d].thread
           m == Len(co[t]) + 1
<1>0. Len(co[t]) \in Nat /\ co \in Codes
  BY CodesAre DEF Placed
<1>1. Len(<<x>>) = 1 /\ <<x>>[1] = x
  OBVIOUS
<1>2. /\ Len(co2) = Len(co)
      /\ \A u \in 1 .. Len(co) : u # t => co2[u] = co[u]
      /\ \A k \in 1 .. Len(co[t]) : co2[t][k] = co[t][k]
  BY DEF Extended
<1>3. Len(co2[t]) = m /\ co2[t][m] = x
  BY <1>0, <1>1 DEF Extended
<1>4. \A k \in 1 .. m : k \in 1 .. Len(co[t]) \/ k = m
  BY <1>0
<1>5. \A k \in 1 .. Len(co[t]) : k \in 1 .. m /\ k # m
  BY <1>0
<1>6. m \in 1 .. m
  BY <1>0
<1> HIDE DEF m
<1>7. ASSUME NEW u \in 1 .. Len(co), NEW k \in 1 .. Len(co2[u]), NEW i \in co2[u][k].lines PROVE i \in 1 .. c - 1
  <2>1. CASE u = t
    <3>1. CASE k \in 1 .. Len(co[t])
      BY <1>2, <2>1, <3>1 DEF Placed
    <3>2. CASE k = m
      BY <1>3, <2>1, <3>2 DEF Placed
    <3> QED
      BY <1>3, <1>4, <2>1, <3>1, <3>2
  <2>2. CASE u # t
    BY <1>2, <2>2 DEF Placed
  <2> QED
    BY <2>1, <2>2
<1>8. ASSUME NEW e \in 1 .. Len(bs2), NEW i \in bs2[e].pending PROVE i \in 1 .. c - 1 /\ s[i] = "set"
  BY DEF Placed
<1>9. ASSUME NEW i, NEW u \in 1 .. Len(co), ~(i \in x.lines /\ u = t)
      PROVE  /\ Never(co, bs, u, i) => Never(co2, bs2, u, i)
             /\ Once(co, bs, u, i) => Once(co2, bs2, u, i)
  <2>1. \A e \in 1 .. Len(bs) : (bs2[e].thread = u /\ i \in bs2[e].pending) <=> (bs[e].thread = u /\ i \in bs[e].pending)
    BY <1>9
  <2>2. (NoneWaits(bs, u, i) => NoneWaits(bs2, u, i)) /\ (OneWaits(bs, u, i) => OneWaits(bs2, u, i))
    BY <2>1, SMTT(30), ZenonT(60) DEF NoneWaits, OneWaits
  <2>3. (InNone(co, u, i) => InNone(co2, u, i)) /\ (InOne(co, u, i) => InOne(co2, u, i))
    <3>1. CASE u = t
      <4>1. \A l \in 1 .. Len(co2[t]) : i \in co2[t][l].lines => l \in 1 .. Len(co[t]) /\ i \in co[t][l].lines
        BY <1>2, <1>3, <1>4, <1>9, <3>1
      <4>2. \A l \in 1 .. Len(co[t]) : l \in 1 .. Len(co2[t]) /\ co2[t][l] = co[t][l]
        BY <1>2, <1>3, <1>5
      <4>3. InNone(co, t, i) => InNone(co2, t, i)
        BY <4>1 DEF InNone
      <4>4. InOne(co, t, i) => InOne(co2, t, i)
        BY <4>1, <4>2 DEF InOne
      <4> QED
        BY <3>1, <4>3, <4>4
    <3>2. CASE u # t
      BY ONLY <1>2, <3>2, ZenonT(30), SMTT(60) DEF InNone, InOne
    <3> QED
      BY <3>1, <3>2
  <2> QED
    BY <2>2, <2>3 DEF Never, Once
<1>10. ASSUME NEW i \in x.lines
       PROVE  ~Never(co, bs, t, i) /\ (Once(co, bs, t, i) => Once(co2, bs2, t, i))
  <2>1. ~NoneWaits(bs, t, i)
    BY DEF NoneWaits
  <2>2. ASSUME InNone(co, t, i) PROVE InOne(co2, t, i)
    <3>1. \A l \in 1 .. Len(co2[t]) : i \in co2[t][l].lines => l = m
      BY <1>2, <1>3, <1>4, <2>2 DEF InNone
    <3>2. m \in 1 .. Len(co2[t]) /\ i \in co2[t][m].lines
      BY <1>3, <1>6
    <3> QED
      BY <3>1, <3>2 DEF InOne
  <2>3. ASSUME OneWaits(bs, t, i) PROVE NoneWaits(bs2, t, i)
    <3>1. \A e \in 1 .. Len(bs) : bs[e].thread = t /\ i \in bs[e].pending => e = d
      BY <2>3 DEF OneWaits
    <3> QED
      BY <3>1 DEF NoneWaits
  <2> QED
    BY <2>1, <2>2, <2>3 DEF Never, Once
<1>11. ASSUME NEW i, NEW u \in 1 .. Len(co)
       PROVE  /\ Never(co, bs, u, i) => Never(co2, bs2, u, i)
              /\ Once(co, bs, u, i) => Once(co2, bs2, u, i)
  BY <1>9, <1>10
<1> QED
  BY <1>2, <1>7, <1>8, <1>11 DEF Placed

(* Nothing stands for the lines from the cursor on. *)
LEMMA Untouched ==
  ASSUME NEW s, NEW co, NEW ths, NEW bs, NEW c \in Nat, Placed(s, co, ths, bs, c), NEW t \in 1 .. Len(co)
  PROVE  InNone(co, t, c) /\ NoneWaits(bs, t, c)
BY SMTT(30), ZenonT(30) DEF Placed, InNone, NoneWaits

(* A command, or a pause. *)
LEMMA PlacedDone ==
  ASSUME NEW s, NEW co, NEW co2 \in Codes, NEW ths, NEW bs, NEW c \in Nat \ {0}, NEW t \in 1 .. Len(co), NEW x \in Instrs,
         Placed(s, co, ths, bs, c), Extended(co, co2, t, <<x>>), x.lines = {c}, ths[t].owner = ThreadOf(s, c),
         \A u, v \in 1 .. Len(co) : ths[u].owner = ths[v].owner => u = v
  PROVE  Placed(s, co2, ths, bs, c + 1)
<1> DEFINE m == Len(co[t]) + 1
<1>0. Len(co[t]) \in Nat /\ co \in Codes
  BY CodesAre DEF Placed
<1>1. Len(<<x>>) = 1 /\ <<x>>[1] = x
  OBVIOUS
<1>2. /\ Len(co2) = Len(co)
      /\ \A u \in 1 .. Len(co) : u # t => co2[u] = co[u]
      /\ \A k \in 1 .. Len(co[t]) : co2[t][k] = co[t][k]
  BY DEF Extended
<1>3. Len(co2[t]) = m /\ co2[t][m] = x
  BY <1>0, <1>1 DEF Extended
<1>4. \A k \in 1 .. m : k \in 1 .. Len(co[t]) \/ k = m
  BY <1>0
<1>5. \A k \in 1 .. Len(co[t]) : k \in 1 .. m
  BY <1>0
<1>6. m \in 1 .. m
  BY <1>0
<1> HIDE DEF m
<1>7. ASSUME NEW u \in 1 .. Len(co), NEW k \in 1 .. Len(co2[u]), NEW i \in co2[u][k].lines PROVE i \in 1 .. c
  <2>1. CASE u = t
    <3>1. CASE k \in 1 .. Len(co[t])
      <4>1. i \in 1 .. c - 1
        BY <1>2, <2>1, <3>1 DEF Placed
      <4> QED
        BY <4>1
    <3>2. CASE k = m
      BY <1>3, <2>1, <3>2
    <3> QED
      BY <1>3, <1>4, <2>1, <3>1, <3>2
  <2>2. CASE u # t
    <3>1. i \in 1 .. c - 1
      BY <1>2, <2>2 DEF Placed
    <3> QED
      BY <3>1
  <2> QED
    BY <2>1, <2>2
<1>8. ASSUME NEW e \in 1 .. Len(bs), NEW i \in bs[e].pending PROVE i \in 1 .. c /\ s[i] = "set"
  <2>1. i \in 1 .. c - 1 /\ s[i] = "set"
    BY DEF Placed
  <2> QED
    BY <2>1
<1>9. ASSUME NEW i \in 1 .. c, NEW u \in 1 .. Len(co), ~(i = c /\ u = t)
      PROVE  (InNone(co, u, i) => InNone(co2, u, i)) /\ (InOne(co, u, i) => InOne(co2, u, i))
  <2>1. CASE u = t
    <3>1. \A l \in 1 .. Len(co2[t]) : i \in co2[t][l].lines => l \in 1 .. Len(co[t]) /\ i \in co[t][l].lines
      BY <1>2, <1>3, <1>4, <1>9, <2>1
    <3>2. \A l \in 1 .. Len(co[t]) : l \in 1 .. Len(co2[t]) /\ co2[t][l] = co[t][l]
      BY <1>2, <1>3, <1>5
    <3>3. InNone(co, t, i) => InNone(co2, t, i)
      BY <3>1 DEF InNone
    <3>4. InOne(co, t, i) => InOne(co2, t, i)
      BY <3>1, <3>2 DEF InOne
    <3> QED
      BY <2>1, <3>3, <3>4
  <2>2. CASE u # t
    BY <1>2, <2>2 DEF InNone, InOne
  <2> QED
    BY <2>1, <2>2
<1>10. InOne(co2, t, c)
  <2>1. InNone(co, t, c)
    BY Untouched
  <2>2. \A l \in 1 .. Len(co2[t]) : c \in co2[t][l].lines => l = m
    BY <1>2, <1>3, <1>4, <2>1 DEF InNone
  <2>3. m \in 1 .. Len(co2[t]) /\ c \in co2[t][m].lines
    BY <1>3, <1>6
  <2> QED
    BY <2>2, <2>3 DEF InOne
<1>11. ASSUME NEW i \in 1 .. c, s[i] \in Does, NEW u \in 1 .. Len(co)
       PROVE  IF ths[u].owner = ThreadOf(s, i) THEN Once(co2, bs, u, i) ELSE Never(co2, bs, u, i)
  <2>1. CASE i # c
    <3>1. i \in 1 .. c - 1
      BY <2>1
    <3>2. IF ths[u].owner = ThreadOf(s, i) THEN Once(co, bs, u, i) ELSE Never(co, bs, u, i)
      BY <1>11, <3>1 DEF Placed
    <3> QED
      BY <1>9, <2>1, <3>2 DEF Once, Never
  <2>2. CASE i = c
    <3>1. InNone(co, u, i) /\ NoneWaits(bs, u, i)
      BY <2>2, Untouched
    <3>2. CASE u = t
      BY <1>10, <2>2, <3>1, <3>2 DEF Once
    <3>3. CASE u # t
      <4>1. ths[u].owner # ThreadOf(s, i)
        BY <2>2, <3>3
      <4> QED
        BY <1>9, <3>1, <3>3, <4>1 DEF Never
    <3> QED
      BY <3>2, <3>3
  <2> QED
    BY <2>1, <2>2
<1>12. (c + 1) - 1 = c
  OBVIOUS
<1>13. Len(co2) = Len(ths)
  BY <1>2 DEF Placed
<1> QED
  BY <1>2, <1>7, <1>8, <1>11, <1>12, <1>13 DEF Placed

(* An update that is kept back. *)
LEMMA PlacedSet ==
  ASSUME NEW s, NEW co, NEW ths, NEW bs, NEW bs2, NEW c \in Nat \ {0}, NEW d \in 1 .. Len(bs),
         Placed(s, co, ths, bs, c), s[c] = "set", bs[d].thread \in 1 .. Len(co), ths[bs[d].thread].owner = ThreadOf(s, c),
         \A u, v \in 1 .. Len(co) : ths[u].owner = ths[v].owner => u = v,
         Len(bs2) = Len(bs), bs2[d].pending = bs[d].pending \cup {c},
         \A e \in 1 .. Len(bs) : bs2[e].thread = bs[e].thread /\ (e # d => bs2[e].pending = bs[e].pending)
  PROVE  Placed(s, co, ths, bs2, c + 1)
<1>1. ASSUME NEW u \in 1 .. Len(co), NEW k \in 1 .. Len(co[u]), NEW i \in co[u][k].lines PROVE i \in 1 .. c
  <2>1. i \in 1 .. c - 1
    BY DEF Placed
  <2> QED
    BY <2>1
<1>2. ASSUME NEW e \in 1 .. Len(bs2), NEW i \in bs2[e].pending PROVE i \in 1 .. c /\ s[i] = "set"
  <2>1. CASE i = c
    BY <2>1
  <2>2. CASE i # c
    <3>1. i \in bs[e].pending
      BY <2>2
    <3>2. i \in 1 .. c - 1 /\ s[i] = "set"
      BY <3>1 DEF Placed
    <3> QED
      BY <3>2
  <2> QED
    BY <2>1, <2>2
<1>3. ASSUME NEW i, NEW u \in 1 .. Len(co), i # c \/ u # bs[d].thread
      PROVE  (NoneWaits(bs, u, i) => NoneWaits(bs2, u, i)) /\ (OneWaits(bs, u, i) => OneWaits(bs2, u, i))
  <2>1. \A e \in 1 .. Len(bs) : (bs2[e].thread = u /\ i \in bs2[e].pending) <=> (bs[e].thread = u /\ i \in bs[e].pending)
    BY <1>3
  <2> QED
    BY <2>1, SMTT(30), ZenonT(60) DEF NoneWaits, OneWaits
<1>4. OneWaits(bs2, bs[d].thread, c)
  <2>1. NoneWaits(bs, bs[d].thread, c)
    BY Untouched
  <2>2. \A e \in 1 .. Len(bs2) : bs2[e].thread = bs[d].thread /\ c \in bs2[e].pending => e = d
    BY <2>1 DEF NoneWaits
  <2>3. bs2[d].thread = bs[d].thread /\ c \in bs2[d].pending
    OBVIOUS
  <2> QED
    BY <2>2, <2>3 DEF OneWaits
<1>5. ASSUME NEW i \in 1 .. c, s[i] \in Does, NEW u \in 1 .. Len(co)
      PROVE  IF ths[u].owner = ThreadOf(s, i) THEN Once(co, bs2, u, i) ELSE Never(co, bs2, u, i)
  <2>1. CASE i # c
    <3>1. i \in 1 .. c - 1
      BY <2>1
    <3>2. IF ths[u].owner = ThreadOf(s, i) THEN Once(co, bs, u, i) ELSE Never(co, bs, u, i)
      BY <1>5, <3>1 DEF Placed
    <3> QED
      BY <1>3, <2>1, <3>2 DEF Once, Never
  <2>2. CASE i = c
    <3>1. InNone(co, u, i) /\ NoneWaits(bs, u, i)
      BY <2>2, Untouched
    <3>2. CASE u = bs[d].thread
      BY <1>4, <2>2, <3>1, <3>2 DEF Once
    <3>3. CASE u # bs[d].thread
      <4>1. ths[u].owner # ThreadOf(s, i)
        BY <2>2, <3>3
      <4> QED
        BY <1>3, <3>1, <3>3, <4>1 DEF Never
    <3> QED
      BY <3>2, <3>3
  <2> QED
    BY <2>1, <2>2
<1>6. (c + 1) - 1 = c
  OBVIOUS
<1> QED
  BY <1>1, <1>2, <1>5, <1>6 DEF Placed

(* Another thread. *)
LEMMA PlacedThread ==
  ASSUME NEW s, NEW co, NEW ths \in Seq(Threads), NEW bs, NEW c \in Nat, NEW q \in Seq(Instrs), NEW w \in Threads,
         Placed(s, co, ths, bs, c),
         \A k \in 1 .. Len(q) : \A i \in q[k].lines : i \in 1 .. c - 1 /\ s[i] \notin Does,
         \A i \in 1 .. c - 1 : s[i] \in Does => ThreadOf(s, i) # w.owner,
         \A d \in 1 .. Len(bs) : bs[d].thread \in 1 .. Len(co)
  PROVE  Placed(s, Append(co, q), Append(ths, w), bs, c)
<1> DEFINE co2 == Append(co, q)
           ths2 == Append(ths, w)
           n == Len(co) + 1
<1>0. co \in Codes /\ Len(co) \in Nat /\ Len(co) = Len(ths)
  BY CodesAre DEF Placed
<1>1. /\ co2 \in Codes /\ Len(co2) = n /\ co2[n] = q
      /\ \A t \in 1 .. Len(co) : co2[t] = co[t]
  <2> DEFINE S == Seq(Instrs)
  <2>1. co \in Seq(S) /\ q \in S
    BY <1>0 DEF Codes
  <2> HIDE DEF S
  <2>2. /\ co2 \in Seq(S) /\ Len(co2) = n /\ co2[n] = q
        /\ \A t \in 1 .. Len(co) : co2[t] = co[t]
    BY <2>1, AppendProperties
  <2> QED
    BY <2>2 DEF S, Codes
<1>2. /\ Len(ths2) = n /\ ths2[n] = w
      /\ \A t \in 1 .. Len(co) : ths2[t] = ths[t]
  BY <1>0, AppendProperties
<1>4. \A t \in 1 .. n : t \in 1 .. Len(co) \/ (t = n /\ t \notin 1 .. Len(co))
  BY <1>0
<1> HIDE DEF co2, ths2, n
<1>5. ASSUME NEW t \in 1 .. Len(co2), NEW k \in 1 .. Len(co2[t]), NEW i \in co2[t][k].lines PROVE i \in 1 .. c - 1
  <2>1. CASE t \in 1 .. Len(co)
    BY <1>1, <2>1 DEF Placed
  <2>2. CASE t = n
    BY <1>1, <2>2
  <2> QED
    BY <1>1, <1>4, <2>1, <2>2
<1>6. ASSUME NEW i \in 1 .. c - 1, s[i] \in Does, NEW t \in 1 .. Len(co2)
      PROVE  IF ths2[t].owner = ThreadOf(s, i) THEN Once(co2, bs, t, i) ELSE Never(co2, bs, t, i)
  <2>1. CASE t \in 1 .. Len(co)
    <3>1. IF ths[t].owner = ThreadOf(s, i) THEN Once(co, bs, t, i) ELSE Never(co, bs, t, i)
      BY <1>6, <2>1 DEF Placed
    <3>2. InNone(co2, t, i) <=> InNone(co, t, i)
      BY <1>1, <2>1 DEF InNone
    <3>3. InOne(co2, t, i) <=> InOne(co, t, i)
      BY <1>1, <2>1 DEF InOne
    <3> QED
      BY <1>2, <2>1, <3>1, <3>2, <3>3 DEF Once, Never
  <2>2. CASE t = n /\ t \notin 1 .. Len(co)
    <3>1. ths2[t].owner # ThreadOf(s, i)
      BY <1>2, <1>6, <2>2
    <3>2. InNone(co2, t, i)
      BY <1>1, <1>6, <2>2 DEF InNone
    <3>3. NoneWaits(bs, t, i)
      BY <2>2 DEF NoneWaits
    <3> QED
      BY <3>1, <3>2, <3>3 DEF Never
  <2> QED
    BY <1>1, <1>4, <2>1, <2>2
<1>7. Placed(s, co2, ths2, bs, c)
  BY <1>1, <1>2, <1>5, <1>6 DEF Placed
<1> QED
  BY <1>7 DEF co2, ths2

LEMMA PlacedRelined ==
  ASSUME NEW s, NEW co, NEW co2 \in Codes, NEW ths, NEW bs, NEW c, Placed(s, co, ths, bs, c), Relined(co, co2)
  PROVE  Placed(s, co2, ths, bs, c)
<1>1. ASSUME NEW t \in 1 .. Len(co), NEW i
      PROVE  (InNone(co2, t, i) <=> InNone(co, t, i)) /\ (InOne(co2, t, i) <=> InOne(co, t, i))
  <2>1. Len(co2[t]) = Len(co[t])
    BY DEF Relined
  <2>2. \A k \in 1 .. Len(co[t]) : (i \in co2[t][k].lines) <=> (i \in co[t][k].lines)
    BY DEF Relined
  <2>3. InNone(co2, t, i) <=> InNone(co, t, i)
    BY <2>1, <2>2 DEF InNone
  <2>4. InOne(co2, t, i) <=> InOne(co, t, i)
    BY <2>1, <2>2 DEF InOne
  <2> QED
    BY <2>3, <2>4
<1>2. ASSUME NEW t \in 1 .. Len(co), NEW i
      PROVE  (Never(co2, bs, t, i) <=> Never(co, bs, t, i)) /\ (Once(co2, bs, t, i) <=> Once(co, bs, t, i))
  BY <1>1 DEF Never, Once
<1>3. Len(co2) = Len(co)
  BY DEF Relined
<1>4. ASSUME NEW t \in 1 .. Len(co2), NEW k \in 1 .. Len(co2[t]), NEW i \in co2[t][k].lines PROVE i \in 1 .. c - 1
  <2>1. t \in 1 .. Len(co) /\ k \in 1 .. Len(co[t]) /\ i \in co[t][k].lines
    BY DEF Relined
  <2> QED
    BY <2>1 DEF Placed
<1>5. ASSUME NEW i \in 1 .. c - 1, s[i] \in Does, NEW t \in 1 .. Len(co2)
      PROVE  IF ths[t].owner = ThreadOf(s, i) THEN Once(co2, bs, t, i) ELSE Never(co2, bs, t, i)
  <2>1. t \in 1 .. Len(co)
    BY <1>3
  <2>2. IF ths[t].owner = ThreadOf(s, i) THEN Once(co, bs, t, i) ELSE Never(co, bs, t, i)
    BY <1>5, <2>1 DEF Placed
  <2> QED
    BY <1>2, <2>1, <2>2
<1> QED
  BY <1>3, <1>4, <1>5 DEF Placed

(* What the placement comes to when the last builder is done.              *)
LEMMA PlacedIsBuilt ==
  ASSUME NEW s, Script(s), NEW co, NEW ths, Placed(s, co, ths, <<>>, Len(s) + 1), NEW i \in Lines(s), s[i] \in Does,
         NEW t \in 1 .. Len(co), NEW of, of = {k \in 1 .. Len(co[t]) : i \in co[t][k].lines}
  PROVE  Cardinality(of) = (IF ths[t].owner = ThreadOf(s, i) THEN 1 ELSE 0)
<1>1. Len(s) \in Nat /\ i \in 1 .. (Len(s) + 1) - 1
  BY LinesAre
<1>2. IF ths[t].owner = ThreadOf(s, i) THEN Once(co, <<>>, t, i) ELSE Never(co, <<>>, t, i)
  BY <1>1 DEF Placed
<1>3. ~OneWaits(<<>>, t, i)
  BY DEF OneWaits
<1>4. CASE ths[t].owner = ThreadOf(s, i)
  <2>1. InOne(co, t, i)
    BY <1>2, <1>3, <1>4 DEF Once
  <2>2. PICK k \in 1 .. Len(co[t]) : i \in co[t][k].lines /\ \A l \in 1 .. Len(co[t]) : i \in co[t][l].lines => l = k
    BY <2>1 DEF InOne
  <2>3. {l \in 1 .. Len(co[t]) : i \in co[t][l].lines} = {k}
    BY <2>2
  <2>4. Cardinality({k}) = 1
    BY FS_Singleton
  <2> QED
    BY <1>4, <2>3, <2>4, Zenon
<1>5. CASE ths[t].owner # ThreadOf(s, i)
  <2>1. InNone(co, t, i)
    BY <1>2, <1>5 DEF Never
  <2>2. {l \in 1 .. Len(co[t]) : i \in co[t][l].lines} = {}
    BY <2>1 DEF InNone
  <2>3. Cardinality({}) = 0
    BY FS_EmptySet
  <2> QED
    BY <1>5, <2>2, <2>3, Zenon
<1> QED
  BY <1>4, <1>5
-----------------------------------------------------------------------------
(* How the stack of builders changes. *)

Cur(bs) == At(bs, Len(bs))

(* The innermost builder is replaced. *)
Onto(bs, bs2, b) ==
  /\ bs2 \in Seq(Builders) /\ Len(bs2) = Len(bs)
  /\ \A d \in 1 .. Len(bs) - 1 : bs2[d] = bs[d]
  /\ bs2[Len(bs)] = b

LEMMA OntoBy ==
  ASSUME NEW bs \in Seq(Builders), Len(bs) > 0, NEW b \in Builders, NEW bs2, Replaced(bs, Len(bs), b, bs2)
  PROVE  Onto(bs, bs2, b)
<1>1. Len(bs) \in Nat
  BY LenProperties
<1>2. Len(bs) \in 1 .. Len(bs)
  BY <1>1
<1>3. bs2 \in Seq(Builders) /\ Len(bs2) = Len(bs) /\ \A j \in 1 .. Len(bs) : bs2[j] = IF j = Len(bs) THEN b ELSE bs[j]
  BY <1>2, ExceptIs
<1> QED
  BY <1>1, <1>3 DEF Onto

(* The cursor is on a line of the script, or behind all, where no block is *)
(* open.                                                                   *)
LEMMA CursorIs ==
  ASSUME NEW s, Script(s), Balanced(s), NEW bs, Stacked(s, bs)
  PROVE  /\ Cur(bs) \in Nat \ {0} /\ Nested(s, bs, Cur(bs))
         /\ Cur(bs) \in Lines(s) \/ (Cur(bs) = Len(s) + 1 /\ Len(bs) = 1)
<1>1. Len(s) \in Nat /\ Lines(s) = 1 .. Len(s)
  BY LinesAre
<1>2. Cur(bs) \in 1 .. Len(s) + 1 /\ Nested(s, bs, Cur(bs))
  BY DEF Stacked, Cur
<1>3. ASSUME Cur(bs) = Len(s) + 1 PROVE Len(bs) = 1
  <2>1. Level(s, Len(s)) = Len(bs) - 1 /\ Level(s, Len(s)) = 0
    <3>1. (Len(s) + 1) - 1 = Len(s)
      BY <1>1
    <3>2. Level(s, Cur(bs) - 1) = Len(bs) - 1
      BY <1>2 DEF Nested
    <3> QED
      BY <1>3, <3>1, <3>2, Levels
  <2>2. Len(bs) \in Nat
    BY StackType
  <2>3. Len(bs) - 1 = 0
    BY <2>1
  <2> QED
    BY <2>2, <2>3
<1> QED
  BY <1>1, <1>2, <1>3

(* Only the first builder builds no block. *)
LEMMA KindOfBuilder ==
  ASSUME NEW s, NEW bs, Stacked(s, bs), NEW d \in 1 .. Len(bs)
  PROVE  bs[d].kind = "thread" <=> d = 1
<1>1. Len(bs) \in Nat
  BY StackType
<1>2. CASE d = 1
  BY <1>2 DEF Stacked
<1>3. CASE d # 1
  <2>1. d \in 2 .. Len(bs)
    BY <1>1, <1>3
  <2>2. Kindly(s, bs, d) /\ s[Opener(bs, d)] \in Openers
    BY <2>1 DEF Stacked, Nested
  <2>3. bs[d].kind \in Openers \cup {"else"}
    BY <2>2 DEF Kindly
  <2> QED
    BY <1>3, <2>3 DEF Openers, Cadences, SubThreads
<1> QED
  BY <1>2, <1>3

(* It processed lines of no other block. *)
LEMMA StackedAlong ==
  ASSUME NEW s, Script(s), Balanced(s), NEW bs, Stacked(s, bs), NEW ths, Owned(s, ths, bs, Cur(bs)),
         NEW b, NEW bs2, Onto(bs, bs2, b), NEW k \in Nat, Cur(bs) \in Lines(s), Cur(bs) + k <= Len(s) + 1,
         \A i \in Cur(bs) .. (Cur(bs) + k) - 1 : s[i] \notin Openers \cup {"end"},
         b.kind = bs[Len(bs)].kind, b.thread = bs[Len(bs)].thread, b.begin = bs[Len(bs)].begin,
         b.first = bs[Len(bs)].first, b.done = bs[Len(bs)].done + k
  PROVE  Stacked(s, bs2) /\ Cur(bs2) = Cur(bs) + k /\ Owned(s, ths, bs2, Cur(bs) + k)
<1> DEFINE n == Len(bs)
           c == Cur(bs)
<1>1. n \in Nat \ {0} /\ \A d \in 1 .. n : bs[d] \in Builders
  BY StackType
<1>2. Len(s) \in Nat /\ c \in 1 .. Len(s)
  BY LinesAre
<1>3. /\ bs2 \in Seq(Builders) /\ Len(bs2) = n
      /\ \A d \in 1 .. n - 1 : bs2[d] = bs[d]
      /\ bs2[n] = b
  BY DEF Onto
<1>4. \A d \in 1 .. n : d = n \/ d \in 1 .. n - 1
  BY <1>1
<1>5. ASSUME NEW d \in 1 .. n
      PROVE  /\ Opener(bs2, d) = Opener(bs, d) /\ bs2[d].thread = bs[d].thread
             /\ bs2[d].kind = bs[d].kind /\ bs2[d].begin = bs[d].begin
             /\ d # n => At(bs2, d) = At(bs, d)
  BY <1>3, <1>4 DEF Opener, At
<1>6. Cur(bs2) = c + k /\ At(bs2, n) = c + k
  <2>1. bs[n].begin \in Nat /\ bs[n].done \in Nat
    BY <1>1 DEF Builders
  <2>2. bs2[n].begin + bs2[n].done = (bs[n].begin + bs[n].done) + k
    BY <1>3, <2>1
  <2> QED
    BY <1>3, <2>2 DEF Cur, At
<1>7. Nested(s, bs2, c + k)
  <2>1. Nested(s, bs, c) /\ c \in Lines(s)
    BY CursorIs
  <2>2. Nested(s, bs, c + k)
    <3>1. c + k \in Nat /\ c <= c + k /\ c + k <= Len(s) + 1
      BY <1>2
    <3> HIDE DEF c
    <3>2. \A i \in c .. (c + k) - 1 : s[i] \notin Openers \cup {"end"}
      BY DEF c
    <3> QED
      BY <1>1, <2>1, <3>1, <3>2, NestedAlong
  <2> QED
    BY <1>3, <1>5, <2>2, NestedSame
<1>8. ASSUME NEW d \in 2 .. n PROVE Opener(bs2, d) = At(bs2, d - 1) /\ Kindly(s, bs2, d)
  <2>1. Opener(bs, d) = At(bs, d - 1) /\ Kindly(s, bs, d)
    BY DEF Stacked
  <2>2. d \in 1 .. n /\ d - 1 \in 1 .. n /\ d - 1 # n
    BY <1>1
  <2> QED
    BY <1>5, <2>1, <2>2 DEF Kindly
<1>9. bs2[1].kind = "thread"
  <2>1. 1 \in 1 .. n
    BY <1>1
  <2> QED
    BY <1>5, <2>1 DEF Stacked
<1>10. Stacked(s, bs2)
  <2>1. c + k \in 1 .. Len(s) + 1
    BY <1>2
  <2>2. Nested(s, bs2, At(bs2, Len(bs2))) /\ At(bs2, Len(bs2)) \in 1 .. Len(s) + 1
    BY <1>3, <1>6, <1>7, <2>1
  <2>3. \A d \in 2 .. Len(bs2) : Opener(bs2, d) = At(bs2, d - 1) /\ Kindly(s, bs2, d)
    BY <1>3, <1>8
  <2>4. Len(bs2) > 0
    BY <1>1, <1>3
  <2> QED
    BY <1>3, <1>9, <2>2, <2>3, <2>4 DEF Stacked
<1>11. Owned(s, ths, bs2, c + k)
  <2>1. c \in Nat /\ c + k \in Nat /\ c <= c + k
    BY <1>2
  <2> QED
    BY <1>1, <1>3, <1>5, <2>1, OwnedAlong
<1> QED
  BY <1>6, <1>10, <1>11

(* The second part of an if. *)
LEMMA StackedElse ==
  ASSUME NEW s, Script(s), Balanced(s), NEW bs, Stacked(s, bs), NEW ths, Owned(s, ths, bs, Cur(bs)),
         NEW b, NEW bs2, Onto(bs, bs2, b), Cur(bs) \in Lines(s), s[Cur(bs)] = "else", bs[Len(bs)].kind = "if",
         b.kind = "else", b.thread = bs[Len(bs)].thread, b.begin = Cur(bs) + 1,
         b.first = bs[Len(bs)].done + 2, b.done = 0
  PROVE  Stacked(s, bs2) /\ Cur(bs2) = Cur(bs) + 1 /\ Owned(s, ths, bs2, Cur(bs) + 1)
<1> DEFINE n == Len(bs)
           c == Cur(bs)
<1>1. n \in Nat \ {0} /\ \A d \in 1 .. n : bs[d] \in Builders
  BY StackType
<1>2. Len(s) \in Nat /\ c \in 1 .. Len(s)
  BY LinesAre
<1>3. /\ bs2 \in Seq(Builders) /\ Len(bs2) = n
      /\ \A d \in 1 .. n - 1 : bs2[d] = bs[d]
      /\ bs2[n] = b
  BY DEF Onto
<1>4. \A d \in 1 .. n : d = n \/ d \in 1 .. n - 1
  BY <1>1
<1>5. bs[n].begin \in Nat /\ bs[n].done \in Nat /\ c = bs[n].begin + bs[n].done
  BY <1>1 DEF Builders, Cur, At
<1>6. Opener(bs2, n) = Opener(bs, n) /\ Opener(bs, n) = bs[n].begin - 1
  <2>1. Opener(bs, n) = bs[n].begin - 1
    BY DEF Opener
  <2>2. Opener(bs2, n) = (c + 1) - (bs[n].done + 2)
    BY <1>3 DEF Opener
  <2> QED
    BY <1>5, <2>1, <2>2, SMTT(30), ZenonT(30)
<1>7. ASSUME NEW d \in 1 .. n - 1
      PROVE  Opener(bs2, d) = Opener(bs, d) /\ bs2[d].kind = bs[d].kind /\ At(bs2, d) = At(bs, d) /\ Kindly(s, bs2, d) = Kindly(s, bs, d)
  <2>1. bs2[d] = bs[d]
    BY <1>3
  <2> QED
    BY <2>1 DEF Opener, At, Kindly
<1>8. Cur(bs2) = c + 1 /\ At(bs2, n) = c + 1
  BY <1>2, <1>3 DEF Cur, At
<1>9. s[c] \notin Openers \cup {"end"}
  BY DEF Openers, Cadences, SubThreads
<1>10. Nested(s, bs, c)
  BY CursorIs
<1>11. Nested(s, bs2, c + 1)
  <2>1. Nested(s, bs, c + 1)
    <3>1. c + 1 \in Nat /\ c <= c + 1 /\ c + 1 <= Len(s) + 1 /\ c \in Lines(s)
      BY <1>2
    <3>2. \A i \in c .. (c + 1) - 1 : i = c
      BY <1>2
    <3> HIDE DEF c
    <3>3. \A i \in c .. (c + 1) - 1 : s[i] \notin Openers \cup {"end"}
      BY <1>9, <3>2
    <3> QED
      BY <1>1, <1>10, <3>1, <3>3, NestedAlong
  <2> QED
    BY <1>3, <1>4, <1>6, <1>7, <2>1, NestedSame
<1>12. n # 1 /\ n \in 2 .. n
  <2>1. n \in 1 .. n /\ bs[n].kind # "thread"
    BY <1>1
  <2>2. n # 1
    BY <2>1, KindOfBuilder
  <2> HIDE DEF n
  <2> QED
    BY <1>1, <2>2
<1>13. Innermost(s, c, Openers) = Opener(bs, n)
  <2>1. Around(s, c) = {Opener(bs, d) : d \in 2 .. n}
    <3>1. s[c] # "end" /\ n \in Nat /\ c \in Lines(s)
      BY <1>1
    <3> QED
      BY <1>10, <3>1, AroundTheCursor
  <2>2. \A d \in 2 .. n : Opener(bs, d) \in 1 .. c - 1 /\ (d # n => Opener(bs, d) < Opener(bs, n)) /\ s[Opener(bs, d)] \in Openers
    BY <1>1, <1>10 DEF Nested
  <2>3. Opener(bs, n) \in Around(s, c)
    BY <1>12, <2>1
  <2>4. s[Opener(bs, n)] \in Openers /\ Opener(bs, n) \in Nat
    BY <1>12, <2>2
  <2>5. ASSUME NEW p \in Around(s, c) PROVE p <= Opener(bs, n)
    <3>1. PICK d \in 2 .. n : p = Opener(bs, d)
      BY <2>1
    <3> QED
      BY <2>2, <2>4, <3>1
  <2> HIDE DEF c
  <2>6. c \in Nat
    BY <1>2 DEF c
  <2> QED
    BY <2>3, <2>4, <2>5, <2>6, InnermostIs
<1>14. ASSUME NEW d \in 2 .. n PROVE Opener(bs2, d) = At(bs2, d - 1) /\ Kindly(s, bs2, d)
  <2>1. Opener(bs, d) = At(bs, d - 1) /\ Kindly(s, bs, d)
    BY DEF Stacked
  <2>2. d - 1 \in 1 .. n - 1 /\ d \in 1 .. n
    BY <1>1
  <2>3. CASE d = n
    <3>1. s[Opener(bs, n)] = "if"
      BY <2>1, <2>3 DEF Kindly
    <3>2. bs2[n].kind = "else" /\ bs2[n].begin = c + 1 /\ (c + 1) - 1 = c
      BY <1>2, <1>3
    <3>3. Opener(bs, n) < c
      BY <1>5, <1>6
    <3> QED
      BY <1>6, <1>7, <1>13, <2>1, <2>2, <2>3, <3>1, <3>2, <3>3 DEF Kindly
  <2>4. CASE d # n
    <3>1. d \in 1 .. n - 1
      BY <1>4, <2>2, <2>4
    <3> QED
      BY <1>7, <2>1, <2>2, <3>1
  <2> QED
    BY <2>3, <2>4
<1>15. bs2[1].kind = "thread"
  <2>1. 1 \in 1 .. n - 1
    BY <1>1, <1>12
  <2> QED
    BY <1>7, <2>1 DEF Stacked
<1>16. Stacked(s, bs2)
  <2>1. c + 1 \in 1 .. Len(s) + 1
    BY <1>2
  <2>2. Nested(s, bs2, At(bs2, Len(bs2))) /\ At(bs2, Len(bs2)) \in 1 .. Len(s) + 1
    BY <1>3, <1>8, <1>11, <2>1
  <2>3. \A d \in 2 .. Len(bs2) : Opener(bs2, d) = At(bs2, d - 1) /\ Kindly(s, bs2, d)
    BY <1>3, <1>14
  <2>4. Len(bs2) > 0
    BY <1>1, <1>3
  <2> QED
    BY <1>3, <1>15, <2>2, <2>3, <2>4 DEF Stacked
<1>17. Owned(s, ths, bs2, c + 1)
  <2>1. c \in Nat /\ c + 1 \in Nat /\ c <= c + 1
    BY <1>2
  <2>2. \A d \in 1 .. n : Opener(bs2, d) = Opener(bs, d) /\ bs2[d].thread = bs[d].thread
    BY <1>3, <1>4, <1>6, <1>7
  <2> QED
    BY <1>1, <1>3, <2>1, <2>2, OwnedAlong
<1> QED
  BY <1>8, <1>16, <1>17

(* A builder of a block that opens at the cursor; below goes for the one   *)
(* that has read the line, which is as it was but for what it keeps back.  *)
Pushed(bs, bs2, below, b) ==
  /\ bs2 \in Seq(Builders) /\ Len(bs2) = Len(bs) + 1
  /\ \A d \in 1 .. Len(bs) - 1 : bs2[d] = bs[d]
  /\ bs2[Len(bs)] = below /\ bs2[Len(bs) + 1] = b

SameBut(b, below) ==
  /\ below.kind = b.kind /\ below.thread = b.thread /\ below.begin = b.begin
  /\ below.first = b.first /\ below.done = b.done

LEMMA PushedBy ==
  ASSUME NEW bs \in Seq(Builders), Len(bs) > 0, NEW below \in Builders, NEW b \in Builders, NEW mid,
         Replaced(bs, Len(bs), below, mid)
  PROVE  Pushed(bs, Append(mid, b), below, b)
<1>1. Onto(bs, mid, below) /\ Len(bs) \in Nat
  BY OntoBy, LenProperties
<1>2. mid \in Seq(Builders) /\ Len(mid) = Len(bs) /\ (\A d \in 1 .. Len(bs) - 1 : mid[d] = bs[d]) /\ mid[Len(bs)] = below
  BY <1>1 DEF Onto
<1>3. /\ Append(mid, b) \in Seq(Builders) /\ Len(Append(mid, b)) = Len(bs) + 1
      /\ \A d \in 1 .. Len(bs) : Append(mid, b)[d] = mid[d]
      /\ Append(mid, b)[Len(bs) + 1] = b
  BY <1>2, AppendProperties
<1>4. Len(bs) \in 1 .. Len(bs) /\ \A d \in 1 .. Len(bs) - 1 : d \in 1 .. Len(bs)
  BY <1>1
<1> QED
  BY <1>2, <1>3, <1>4 DEF Pushed

LEMMA StackedDeeper ==
  ASSUME NEW s, Script(s), Balanced(s), NEW bs, Stacked(s, bs),
         NEW below, NEW b, NEW bs2, Pushed(bs, bs2, below, b), SameBut(bs[Len(bs)], below),
         Cur(bs) \in Lines(s), s[Cur(bs)] \in Openers,
         b.kind = s[Cur(bs)], b.begin = Cur(bs) + 1, b.done = 0
  PROVE  /\ Stacked(s, bs2) /\ Cur(bs2) = Cur(bs) + 1
         /\ Len(bs2) = Len(bs) + 1 /\ Opener(bs2, Len(bs2)) = Cur(bs)
         /\ \A d \in 1 .. Len(bs) : Opener(bs2, d) = Opener(bs, d) /\ bs2[d].thread = bs[d].thread
<1> DEFINE n == Len(bs)
           c == Cur(bs)
<1>1. n \in Nat \ {0} /\ \A d \in 1 .. n : bs[d] \in Builders
  BY StackType
<1>2. Len(s) \in Nat /\ c \in 1 .. Len(s)
  BY LinesAre
<1>3. /\ bs2 \in Seq(Builders) /\ Len(bs2) = n + 1
      /\ \A d \in 1 .. n - 1 : bs2[d] = bs[d]
      /\ bs2[n] = below /\ bs2[n + 1] = b
  BY DEF Pushed
<1>4. \A d \in 1 .. n : d = n \/ d \in 1 .. n - 1
  BY <1>1
<1>5. ASSUME NEW d \in 1 .. n
      PROVE  /\ Opener(bs2, d) = Opener(bs, d) /\ bs2[d].thread = bs[d].thread
             /\ bs2[d].kind = bs[d].kind /\ bs2[d].begin = bs[d].begin
             /\ At(bs2, d) = At(bs, d)
  BY <1>3, <1>4 DEF Opener, At, SameBut
<1>6. Opener(bs2, n + 1) = c /\ At(bs2, n + 1) = c + 1 /\ Cur(bs2) = c + 1 /\ Opener(bs2, Len(bs2)) = c
  <2>1. b.kind # "else"
    BY DEF Openers, Cadences, SubThreads
  <2>2. Opener(bs2, n + 1) = (c + 1) - 1
    BY <1>3, <2>1 DEF Opener
  <2>3. At(bs2, n + 1) = (c + 1) + 0
    BY <1>3 DEF At
  <2> QED
    BY <1>2, <1>3, <2>2, <2>3 DEF Cur
<1>7. Nested(s, bs2, c + 1)
  <2>1. Nested(s, bs, c) /\ c \in Lines(s) /\ s[c] \in Openers
    BY CursorIs
  <2>2. \A d \in 2 .. n : Opener(bs2, d) = Opener(bs, d)
    BY <1>5
  <2> HIDE DEF c, n
  <2>3. Len(bs) \in Nat \ {0} /\ Len(bs2) = Len(bs) + 1 /\ \A d \in 2 .. Len(bs) : Opener(bs2, d) = Opener(bs, d)
    BY <1>1, <1>3, <2>2 DEF n
  <2> QED
    BY <1>6, <2>1, <2>3, NestedDeeper
<1>8. ASSUME NEW d \in 2 .. n + 1 PROVE Opener(bs2, d) = At(bs2, d - 1) /\ Kindly(s, bs2, d)
  <2>1. CASE d = n + 1
    <3>1. At(bs2, n) = c /\ d - 1 = n
      BY <1>1, <1>5, <2>1 DEF Cur
    <3>2. bs2[n + 1].kind = s[Opener(bs2, n + 1)]
      BY <1>3, <1>6
    <3> QED
      BY <1>6, <2>1, <3>1, <3>2 DEF Kindly
  <2>2. CASE d # n + 1
    <3>1. d \in 2 .. n /\ d \in 1 .. n /\ d - 1 \in 1 .. n
      BY <1>1, <2>2
    <3>2. Opener(bs, d) = At(bs, d - 1) /\ Kindly(s, bs, d)
      BY <3>1 DEF Stacked
    <3> QED
      BY <1>5, <3>1, <3>2 DEF Kindly
  <2> QED
    BY <2>1, <2>2
<1>9. bs2[1].kind = "thread"
  <2>1. 1 \in 1 .. n
    BY <1>1
  <2> QED
    BY <1>5, <2>1 DEF Stacked
<1>10. Stacked(s, bs2)
  <2>1. c + 1 \in 1 .. Len(s) + 1
    BY <1>2
  <2>2. Nested(s, bs2, At(bs2, Len(bs2))) /\ At(bs2, Len(bs2)) \in 1 .. Len(s) + 1
    BY <1>3, <1>6, <1>7, <2>1
  <2>3. \A d \in 2 .. Len(bs2) : Opener(bs2, d) = At(bs2, d - 1) /\ Kindly(s, bs2, d)
    BY <1>3, <1>8
  <2>4. Len(bs2) > 0
    BY <1>1, <1>3
  <2> QED
    BY <1>3, <1>9, <2>2, <2>3, <2>4 DEF Stacked
<1> QED
  BY <1>3, <1>5, <1>6, <1>10

(* The innermost builder is done; the one around it goes on behind.        *)
Popped(bs, bs2, b) ==
  /\ bs2 \in Seq(Builders) /\ Len(bs2) = Len(bs) - 1
  /\ \A d \in 1 .. Len(bs) - 2 : bs2[d] = bs[d]
  /\ bs2[Len(bs) - 1] = b

LEMMA PoppedBy ==
  ASSUME NEW bs \in Seq(Builders), Len(bs) > 1, NEW b \in Builders, NEW bs2,
         Replaced(SubSeq(bs, 1, Len(bs) - 1), Len(bs) - 1, b, bs2)
  PROVE  Popped(bs, bs2, b)
<1> DEFINE n == Len(bs) - 1
           short == SubSeq(bs, 1, n)
<1>1. Len(bs) \in Nat /\ n \in Nat \ {0} /\ n \in Int /\ 1 \in Int /\ \A i \in 1 .. n : bs[i] \in Builders
  <2>1. Len(bs) \in Nat /\ bs \in [1 .. Len(bs) -> Builders]
    BY LenProperties
  <2> QED
    BY <2>1, SMTT(30), ZenonT(30)
<1>2. short \in Seq(Builders) /\ Len(short) = n /\ \A i \in 1 .. n : short[i] = bs[i]
  <2>1. /\ SubSeq(bs, 1, n) \in Seq(Builders)
        /\ Len(SubSeq(bs, 1, n)) = IF 1 <= n THEN n - 1 + 1 ELSE 0
        /\ \A i \in 1 .. n - 1 + 1 : SubSeq(bs, 1, n)[i] = bs[1 + i - 1]
    <3> HIDE DEF n
    <3> QED
      BY <1>1, SubSeqProperties
  <2>2. 1 <= n /\ (n - 1) + 1 = n /\ \A i \in 1 .. n : (1 + i) - 1 = i
    BY <1>1
  <2> HIDE DEF n
  <2> QED
    BY <2>1, <2>2
<1> HIDE DEF short
<1>3. n \in 1 .. Len(short) /\ Replaced(short, n, b, bs2)
  BY <1>1, <1>2 DEF short
<1>4. bs2 \in Seq(Builders) /\ Len(bs2) = n /\ \A j \in 1 .. n : bs2[j] = IF j = n THEN b ELSE short[j]
  <2> HIDE DEF n
  <2> QED
    BY <1>2, <1>3, ExceptIs
<1>5. ASSUME NEW d \in 1 .. Len(bs) - 2 PROVE bs2[d] = bs[d]
  <2>1. d \in 1 .. n /\ d # n
    BY <1>1
  <2> QED
    BY <1>2, <1>4, <2>1
<1>6. bs2[n] = b
  BY <1>1, <1>4
<1> QED
  BY <1>4, <1>5, <1>6 DEF Popped

LEMMA StackedOut ==
  ASSUME NEW s, Script(s), Balanced(s), NEW bs, Stacked(s, bs), NEW ths, Owned(s, ths, bs, Cur(bs)),
         NEW b, NEW bs2, Len(bs) > 1, Popped(bs, bs2, b), Cur(bs) \in Lines(s), s[Cur(bs)] = "end",
         b.kind = bs[Len(bs) - 1].kind, b.thread = bs[Len(bs) - 1].thread, b.begin = bs[Len(bs) - 1].begin,
         b.first = bs[Len(bs) - 1].first, b.begin + b.done = Cur(bs) + 1
  PROVE  Stacked(s, bs2) /\ Cur(bs2) = Cur(bs) + 1 /\ Owned(s, ths, bs2, Cur(bs) + 1)
<1> DEFINE n == Len(bs) - 1
           c == Cur(bs)
<1>1. n \in Nat \ {0} /\ Len(bs) \in Nat \ {0} /\ Len(bs) = n + 1
  BY StackType
<1>2. Len(s) \in Nat /\ c \in 1 .. Len(s)
  BY LinesAre
<1>3. /\ bs2 \in Seq(Builders) /\ Len(bs2) = n
      /\ \A d \in 1 .. n - 1 : bs2[d] = bs[d]
      /\ bs2[n] = b
  <2>1. Len(bs) - 2 = n - 1
    BY <1>1
  <2> QED
    BY <2>1 DEF Popped
<1>4. \A d \in 1 .. n : d = n \/ d \in 1 .. n - 1
  <2> HIDE DEF n
  <2> QED
    BY <1>1
<1>5. ASSUME NEW d \in 1 .. n
      PROVE  /\ Opener(bs2, d) = Opener(bs, d) /\ bs2[d].thread = bs[d].thread
             /\ bs2[d].kind = bs[d].kind /\ bs2[d].begin = bs[d].begin
             /\ d # n => At(bs2, d) = At(bs, d)
  BY <1>3, <1>4 DEF Opener, At
<1>6. Cur(bs2) = c + 1 /\ At(bs2, n) = c + 1
  BY <1>3 DEF Cur, At
<1>7. Nested(s, bs2, c + 1)
  <2>1. Nested(s, bs, c) /\ c \in Lines(s) /\ s[c] = "end"
    BY CursorIs
  <2>2. \A d \in 2 .. Len(bs2) : Opener(bs2, d) = Opener(bs, d)
    BY <1>3, <1>5
  <2>3. Len(bs) \in Nat \ {0} /\ Len(bs2) = Len(bs) - 1
    BY <1>1, <1>3
  <2> HIDE DEF c, n
  <2> QED
    BY <2>1, <2>2, <2>3, NestedOut
<1>8. ASSUME NEW d \in 2 .. n PROVE Opener(bs2, d) = At(bs2, d - 1) /\ Kindly(s, bs2, d)
  <2>1. Opener(bs, d) = At(bs, d - 1) /\ Kindly(s, bs, d)
    <3>1. d \in 2 .. Len(bs)
      BY <1>1
    <3> QED
      BY <3>1 DEF Stacked
  <2>2. d \in 1 .. n /\ d - 1 \in 1 .. n /\ d - 1 # n
    <3> HIDE DEF n
    <3> QED
      BY <1>1
  <2> QED
    BY <1>5, <2>1, <2>2 DEF Kindly
<1>9. bs2[1].kind = "thread"
  <2>1. 1 \in 1 .. n
    BY <1>1
  <2> QED
    BY <1>5, <2>1 DEF Stacked
<1>10. Stacked(s, bs2)
  <2>1. c + 1 \in 1 .. Len(s) + 1
    BY <1>2
  <2>2. Nested(s, bs2, At(bs2, Len(bs2))) /\ At(bs2, Len(bs2)) \in 1 .. Len(s) + 1
    BY <1>3, <1>6, <1>7, <2>1
  <2>3. \A d \in 2 .. Len(bs2) : Opener(bs2, d) = At(bs2, d - 1) /\ Kindly(s, bs2, d)
    BY <1>3, <1>8
  <2>4. Len(bs2) > 0
    BY <1>1, <1>3
  <2> QED
    BY <1>3, <1>9, <2>2, <2>3, <2>4 DEF Stacked
<1>11. Owned(s, ths, bs2, c + 1)
  <2>1. c \in Nat /\ Len(bs2) = Len(bs) - 1
    BY <1>1, <1>2, <1>3
  <2>2. \A d \in 1 .. Len(bs2) : Opener(bs2, d) = Opener(bs, d) /\ bs2[d].thread = bs[d].thread
    BY <1>3, <1>5
  <2> HIDE DEF c, n
  <2>3. Owned(s, ths, bs, c)
    BY DEF c
  <2> QED
    BY <1>1, <2>1, <2>2, <2>3, OwnedOut
<1> QED
  BY <1>6, <1>10, <1>11

(* A block ends at an end; no second else is in an if.                     *)
AtEnd(s, bs) ==
  Cur(bs) \in Lines(s) => s[Cur(bs)] \in (IF bs[Len(bs)].kind = "else" THEN {"end", "else"} ELSE {"end"})

LEMMA EndedAt ==
  ASSUME NEW s, Script(s), Balanced(s), NEW bs, Stacked(s, bs), Len(bs) > 1, AtEnd(s, bs)
  PROVE  Cur(bs) \in Lines(s) /\ s[Cur(bs)] = "end"
<1> DEFINE n == Len(bs)
           c == Cur(bs)
           o == Opener(bs, n)
           e == bs[n].begin - 1
<1>1. Cur(bs) \in Lines(s) /\ Nested(s, bs, c)
  <2>0. Len(bs) \in Nat
    BY StackType
  <2>1. Len(bs) # 1
    <3>1. \A m \in Nat : m > 1 => m # 1
      OBVIOUS
    <3> QED
      BY <2>0, <3>1, Zenon
  <2>2. Cur(bs) \in Lines(s) \/ (Cur(bs) = Len(s) + 1 /\ Len(bs) = 1)
    BY CursorIs
  <2>3. Nested(s, bs, Cur(bs))
    BY CursorIs
  <2> QED
    BY <2>1, <2>2, <2>3
<1>2. n \in Nat /\ n \in 2 .. n /\ bs[n] \in Builders
  BY StackType
<1>3. SUFFICES ASSUME bs[n].kind = "else", s[c] = "else" PROVE FALSE
  BY <1>1 DEF AtEnd
<1>4. Len(s) \in Nat /\ Lines(s) = 1 .. Len(s) /\ c \in 1 .. Len(s)
  BY <1>1, LinesAre
<1>5. /\ s[o] = "if" /\ o < e /\ s[e] = "else" /\ Innermost(s, e, Openers) = o
      /\ o \in 1 .. c - 1 /\ c <= EndOf(s, o) /\ s[o] \in Openers
  <2>1. Kindly(s, bs, n)
    BY <1>2 DEF Stacked
  <2>2. s[o] \in Openers /\ o \in 1 .. c - 1 /\ c <= EndOf(s, o)
    BY <1>1, <1>2 DEF Nested
  <2>3. s[o] # "else"
    BY <2>2 DEF Openers, Cadences, SubThreads
  <2> QED
    BY <1>3, <2>1, <2>2, <2>3 DEF Kindly
<1>6. Innermost(s, c, Openers) = o
  <2>1. Around(s, c) = {Opener(bs, d) : d \in 2 .. n}
    <3>1. s[c] # "end"
      BY <1>3
    <3> QED
      BY <1>1, <1>2, <3>1, AroundTheCursor
  <2>2. \A d \in 2 .. n : Opener(bs, d) \in 1 .. c - 1 /\ (d # n => Opener(bs, d) < Opener(bs, n)) /\ s[Opener(bs, d)] \in Openers
    BY <1>1, <1>2 DEF Nested
  <2>3. Opener(bs, n) \in Around(s, c)
    BY <1>2, <2>1
  <2>4. s[Opener(bs, n)] \in Openers /\ Opener(bs, n) \in Nat
    BY <1>2, <2>2
  <2>5. ASSUME NEW p \in Around(s, c) PROVE p <= Opener(bs, n)
    <3>1. PICK d \in 2 .. n : p = Opener(bs, d)
      BY <2>1
    <3> QED
      BY <2>2, <2>4, <3>1
  <2> HIDE DEF c
  <2>6. c \in Nat
    BY <1>4 DEF c
  <2> QED
    BY <2>3, <2>4, <2>5, <2>6, InnermostIs
<1>7. EndOf(s, o) \in Lines(s)
  <2>1. o \in Lines(s)
    BY <1>4, <1>5
  <2> QED
    BY <1>5, <2>1, EndOfBlock
<1>8. e < c /\ e \in Nat
  <2>1. bs[n].begin \in Nat /\ bs[n].done \in Nat /\ c = bs[n].begin + bs[n].done
    BY <1>2 DEF Builders, Cur, At
  <2>2. e = bs[n].begin - 1 /\ o < e /\ o \in 1 .. c - 1
    BY <1>5
  <2> HIDE DEF n, c, o, e
  <2> QED
    BY <2>1, <2>2
<1>9. e \in Lines(s) /\ e \in o .. EndOf(s, o) /\ c \in o .. EndOf(s, o)
  BY <1>4, <1>5, <1>7, <1>8
<1> HIDE DEF e, c, o
<1>10. \A f \in o .. EndOf(s, o) : (s[f] = "else" /\ Innermost(s, f, Openers) = o) => f = e
  <2>1. LET p == Innermost(s, e, Openers)
        IN  \A f \in p .. EndOf(s, p) : (s[f] = "else" /\ Innermost(s, f, Openers) = p) => f = e
    BY <1>5, <1>9 DEF Balanced
  <2> QED
    BY <1>5, <2>1
<1>11. c = e
  BY <1>3, <1>6, <1>9, <1>10
<1> QED
  BY <1>8, <1>11
-----------------------------------------------------------------------------
(* The order of the lines.  What a builder keeps back are updates of its   *)
(* own block, and no line of this block behind them would have it write    *)
(* them; so wherever they will stand, what they were passed by may pass    *)
(* them.                                                                   *)

Stopping == Commands \cup {"else"}
Block(bs, d) == IF d = 1 THEN 0 ELSE Opener(bs, d)

Waiting(s, bs, c) ==
  \A d \in 1 .. Len(bs) : \A i \in bs[d].pending :
    /\ Innermost(s, i, Openers) = Block(bs, d)
    /\ \A k \in i .. c - 1 : Innermost(s, k, Openers) = Block(bs, d) => s[k] \notin Stopping

Threaded(s, co, ths) ==
  \A t \in 1 .. Len(co) : \A k \in 1 .. Len(co[t]) : \A i \in co[t][k].lines :
    ThreadOf(s, i) = ths[t].owner \/ i = ths[t].owner

Ordered(s, co) ==
  \A t \in 1 .. Len(co) : \A k, l \in 1 .. Len(co[t]) : \A i \in co[t][k].lines, j \in co[t][l].lines :
    i < j /\ l < k => KeptBack(s, i, j)

Arranged(s, co, ths) == Threaded(s, co, ths) /\ Ordered(s, co)

(* What the instructions xs must be like to stand behind the others. *)
Behind(s, co, t, w, xs) ==
  /\ \A k \in 1 .. Len(xs) : \A i \in xs[k].lines : ThreadOf(s, i) = w \/ i = w
  /\ \A k \in 1 .. Len(xs) : \A i \in xs[k].lines : \A l \in 1 .. Len(co[t]) : \A j \in co[t][l].lines :
       i < j => KeptBack(s, i, j)
  /\ \A k, l \in 1 .. Len(xs) : \A i \in xs[k].lines, j \in xs[l].lines : ~(i < j /\ l < k)

LEMMA ArrangedExtended ==
  ASSUME NEW s, NEW co \in Codes, NEW co2 \in Codes, NEW ths, NEW t \in 1 .. Len(co), NEW xs \in Seq(Instrs),
         Arranged(s, co, ths), Extended(co, co2, t, xs), Behind(s, co, t, ths[t].owner, xs)
  PROVE  Arranged(s, co2, ths)
<1> DEFINE m == Len(co[t])
<1>0. m \in Nat /\ Len(xs) \in Nat
  BY CodesAre, LenProperties
<1>1. ASSUME NEW k \in 1 .. Len(co2[t])
      PROVE  \/ k \in 1 .. m /\ co2[t][k] = co[t][k]
             \/ k > m /\ k - m \in 1 .. Len(xs) /\ co2[t][k] = xs[k - m]
  <2>1. CASE k \in 1 .. m
    BY <2>1 DEF Extended
  <2>2. CASE k \notin 1 .. m
    <3>1. k - m \in 1 .. Len(xs) /\ m + (k - m) = k /\ k > m
      BY <1>0, <2>2 DEF Extended
    <3>2. co2[t][m + (k - m)] = xs[k - m]
      BY <3>1 DEF Extended
    <3> QED
      BY <3>1, <3>2
  <2> QED
    BY <2>1, <2>2
<1> HIDE DEF m
<1>2. /\ Len(co2) = Len(co)
      /\ \A u \in 1 .. Len(co) : u # t => co2[u] = co[u]
  BY DEF Extended
<1>3. ASSUME NEW u \in 1 .. Len(co), NEW k \in 1 .. Len(co2[u]), NEW i \in co2[u][k].lines
      PROVE  ThreadOf(s, i) = ths[u].owner \/ i = ths[u].owner
  <2>1. CASE u # t
    BY <1>2, <2>1 DEF Arranged, Threaded
  <2>2. CASE u = t /\ k \in 1 .. m /\ co2[t][k] = co[t][k]
    BY <2>2 DEF Arranged, Threaded, m
  <2>3. CASE u = t /\ k - m \in 1 .. Len(xs) /\ co2[t][k] = xs[k - m]
    BY <2>3 DEF Behind
  <2> QED
    BY <1>1, <2>1, <2>2, <2>3
<1>4. ASSUME NEW u \in 1 .. Len(co), NEW k \in 1 .. Len(co2[u]), NEW l \in 1 .. Len(co2[u]),
             NEW i \in co2[u][k].lines, NEW j \in co2[u][l].lines, i < j, l < k
      PROVE  KeptBack(s, i, j)
  <2>1. CASE u # t
    BY <1>2, <1>4, <2>1 DEF Arranged, Ordered
  <2>2. CASE u = t
    <3>1. CASE k \in 1 .. m /\ co2[t][k] = co[t][k]
      <4>1. l \in 1 .. m /\ co2[t][l] = co[t][l]
        <5>1. ~(l > m)
          BY <1>0, <1>4, <2>2, <3>1
        <5> QED
          BY <1>1, <2>2, <5>1
      <4> QED
        BY <1>4, <2>2, <3>1, <4>1 DEF Arranged, Ordered, m
    <3>2. CASE k > m /\ k - m \in 1 .. Len(xs) /\ co2[t][k] = xs[k - m]
      <4>1. i \in xs[k - m].lines
        BY <2>2, <3>2
      <4>2. CASE l \in 1 .. m /\ co2[t][l] = co[t][l]
        <5>1. j \in co[t][l].lines /\ l \in 1 .. Len(co[t])
          BY <2>2, <4>2 DEF m
        <5> QED
          BY <1>4, <3>2, <4>1, <5>1 DEF Behind
      <4>3. CASE l > m /\ l - m \in 1 .. Len(xs) /\ co2[t][l] = xs[l - m]
        <5>1. j \in xs[l - m].lines
          BY <2>2, <4>3
        <5>2. l - m < k - m
          BY <1>0, <1>4
        <5> QED
          BY <1>4, <3>2, <4>1, <4>3, <5>1, <5>2 DEF Behind
      <4> QED
        BY <1>1, <2>2, <4>2, <4>3
    <3> QED
      BY <1>1, <2>2, <3>1, <3>2
  <2> QED
    BY <2>1, <2>2
<1> QED
  BY <1>2, <1>3, <1>4 DEF Arranged, Threaded, Ordered

(* Instructions of one line that stands behind all others. *)
LEMMA BehindAll ==
  ASSUME NEW s, NEW co, NEW t, NEW w, NEW xs, NEW p \in Int,
         \A k \in 1 .. Len(xs) : \A i \in xs[k].lines : i = p,
         ThreadOf(s, p) = w \/ p = w,
         \A k \in 1 .. Len(co[t]) : \A j \in co[t][k].lines : j \in Int /\ j <= p
  PROVE  Behind(s, co, t, w, xs)
BY DEF Behind

LEMMA ArrangedRelined ==
  ASSUME NEW s, NEW co, NEW co2, NEW ths, Arranged(s, co, ths), Relined(co, co2)
  PROVE  Arranged(s, co2, ths)
<1>1. /\ Len(co2) = Len(co)
      /\ \A t \in 1 .. Len(co) : /\ Len(co2[t]) = Len(co[t])
                                 /\ \A k \in 1 .. Len(co[t]) : co2[t][k].lines = co[t][k].lines
  BY DEF Relined
<1>2. Threaded(s, co2, ths)
  BY <1>1 DEF Arranged, Threaded
<1>3. Ordered(s, co2)
  <2> SUFFICES ASSUME NEW t \in 1 .. Len(co2), NEW k \in 1 .. Len(co2[t]), NEW l \in 1 .. Len(co2[t]),
                      NEW i \in co2[t][k].lines, NEW j \in co2[t][l].lines, i < j, l < k
               PROVE  KeptBack(s, i, j)
    BY DEF Ordered
  <2>1. t \in 1 .. Len(co) /\ k \in 1 .. Len(co[t]) /\ l \in 1 .. Len(co[t]) /\ i \in co[t][k].lines /\ j \in co[t][l].lines
    BY <1>1
  <2> QED
    BY <2>1 DEF Arranged, Ordered
<1> QED
  BY <1>2, <1>3 DEF Arranged

(* A thread that is new. *)
LEMMA ArrangedThread ==
  ASSUME NEW s, NEW co \in Codes, NEW ths \in Seq(Threads), Len(ths) = Len(co), NEW q \in Seq(Instrs), NEW w \in Threads,
         Arranged(s, co, ths), \A k \in 1 .. Len(q) : \A i \in q[k].lines : i = w.owner
  PROVE  Arranged(s, Append(co, q), Append(ths, w))
<1> DEFINE co2 == Append(co, q)
           ths2 == Append(ths, w)
           n == Len(co) + 1
<1>0. Len(co) \in Nat /\ w.owner \in Nat
  BY CodesAre DEF Threads
<1>1. Len(co2) = n /\ co2[n] = q /\ \A t \in 1 .. Len(co) : co2[t] = co[t]
  <2> DEFINE S == Seq(Instrs)
  <2>1. co \in Seq(S) /\ q \in S
    BY DEF Codes
  <2> HIDE DEF S
  <2> QED
    BY <2>1, AppendProperties
<1>2. ths2[n] = w /\ \A t \in 1 .. Len(co) : ths2[t] = ths[t]
  BY AppendProperties
<1>3. \A t \in 1 .. n : t = n \/ t \in 1 .. Len(co)
  BY <1>0
<1> HIDE DEF co2, ths2, n
<1>4. ASSUME NEW t \in 1 .. n, NEW k \in 1 .. Len(co2[t]), NEW i \in co2[t][k].lines
      PROVE  ThreadOf(s, i) = ths2[t].owner \/ i = ths2[t].owner
  <2>1. CASE t = n
    BY <1>1, <1>2, <2>1
  <2>2. CASE t \in 1 .. Len(co)
    BY <1>1, <1>2, <2>2, SMTT(30), ZenonT(60) DEF Arranged, Threaded
  <2> QED
    BY <1>3, <2>1, <2>2
<1>5. ASSUME NEW t \in 1 .. n, NEW k \in 1 .. Len(co2[t]), NEW l \in 1 .. Len(co2[t]),
             NEW i \in co2[t][k].lines, NEW j \in co2[t][l].lines, i < j, l < k
      PROVE  KeptBack(s, i, j)
  <2>1. CASE t = n
    <3>1. i = w.owner /\ j = w.owner
      BY <1>1, <2>1
    <3> QED
      BY <1>0, <1>5, <3>1
  <2>2. CASE t \in 1 .. Len(co)
    <3>1. co2[t] = co[t]
      BY <1>1, <2>2
    <3> QED
      BY <1>5, <2>2, <3>1 DEF Arranged, Ordered
  <2> QED
    BY <1>3, <2>1, <2>2
<1> QED
  BY <1>1, <1>4, <1>5 DEF Arranged, Threaded, Ordered, co2, ths2

(* Builders come and go, if they keep nothing back. *)
Stays(bs, bs2) ==
  \A d \in 1 .. Len(bs2) : bs2[d].pending # {} =>
    d \in 1 .. Len(bs) /\ bs2[d].pending = bs[d].pending /\ Block(bs2, d) = Block(bs, d)

LEMMA StaysOnto ==
  ASSUME NEW bs, NEW bs2, NEW b, Len(bs) \in Nat \ {0}, Onto(bs, bs2, b),
         b.pending = {} \/ (b.pending = bs[Len(bs)].pending /\ Opener(bs2, Len(bs)) = Opener(bs, Len(bs)))
  PROVE  Stays(bs, bs2)
<1>1. \A d \in 1 .. Len(bs) : d = Len(bs) \/ d \in 1 .. Len(bs) - 1
  OBVIOUS
<1>2. Len(bs2) = Len(bs) /\ bs2[Len(bs)] = b /\ \A d \in 1 .. Len(bs) - 1 : bs2[d] = bs[d]
  BY DEF Onto
<1>3. \A d \in 1 .. Len(bs) - 1 : Opener(bs2, d) = Opener(bs, d)
  BY <1>2 DEF Opener
<1>4. ASSUME NEW d \in 1 .. Len(bs2), bs2[d].pending # {}
      PROVE  d \in 1 .. Len(bs) /\ bs2[d].pending = bs[d].pending /\ Opener(bs2, d) = Opener(bs, d)
  <2>1. CASE d = Len(bs)
    BY <1>2, <1>4, <2>1
  <2>2. CASE d \in 1 .. Len(bs) - 1
    BY <1>2, <1>3, <2>2
  <2> QED
    BY <1>1, <1>2, <2>1, <2>2
<1> QED
  BY <1>4 DEF Stays, Block

LEMMA StaysPushed ==
  ASSUME NEW bs, NEW bs2, NEW below, NEW b, Len(bs) \in Nat \ {0}, Pushed(bs, bs2, below, b), b.pending = {},
         SameBut(bs[Len(bs)], below), below.pending \in {{}, bs[Len(bs)].pending}
  PROVE  Stays(bs, bs2)
<1>1. \A d \in 1 .. Len(bs) + 1 : d = Len(bs) + 1 \/ d = Len(bs) \/ d \in 1 .. Len(bs) - 1
  OBVIOUS
<1>2. Len(bs) \in 1 .. Len(bs) /\ \A d \in 1 .. Len(bs) - 1 : d \in 1 .. Len(bs)
  OBVIOUS
<1>3. /\ Len(bs2) = Len(bs) + 1 /\ bs2[Len(bs) + 1] = b /\ bs2[Len(bs)] = below
      /\ \A d \in 1 .. Len(bs) - 1 : bs2[d] = bs[d]
  BY DEF Pushed
<1>4. Opener(bs2, Len(bs)) = Opener(bs, Len(bs)) /\ \A d \in 1 .. Len(bs) - 1 : Opener(bs2, d) = Opener(bs, d)
  BY <1>3 DEF Opener, SameBut
<1>5. ASSUME NEW d \in 1 .. Len(bs2), bs2[d].pending # {}
      PROVE  d \in 1 .. Len(bs) /\ bs2[d].pending = bs[d].pending /\ Opener(bs2, d) = Opener(bs, d)
  <2>1. CASE d = Len(bs)
    <3>1. below.pending # {}
      BY <1>3, <1>5, <2>1
    <3>2. below.pending = bs[Len(bs)].pending
      BY <3>1
    <3> QED
      BY <1>2, <1>3, <1>4, <2>1, <3>2
  <2>2. CASE d \in 1 .. Len(bs) - 1
    BY <1>2, <1>3, <1>4, <2>2
  <2> QED
    BY <1>1, <1>3, <1>5, <2>1, <2>2
<1> QED
  BY <1>5 DEF Stays, Block

LEMMA StaysPopped ==
  ASSUME NEW bs, NEW bs2, NEW b, Len(bs) \in Nat, Len(bs) > 1, Popped(bs, bs2, b),
         b.kind = bs[Len(bs) - 1].kind, b.begin = bs[Len(bs) - 1].begin,
         b.first = bs[Len(bs) - 1].first, b.pending = bs[Len(bs) - 1].pending
  PROVE  Stays(bs, bs2)
<1> DEFINE n == Len(bs) - 1
<1>1. n \in Nat \ {0} /\ (\A d \in 1 .. n : d = n \/ d \in 1 .. n - 1) /\ \A d \in 1 .. n : d \in 1 .. Len(bs)
  <2>1. Len(bs) \in Nat /\ Len(bs) > 1
    OBVIOUS
  <2> QED
    BY ONLY <2>1, SMTT(30), ZenonT(60)
<1>2. Len(bs2) = n /\ bs2[n] = b /\ \A d \in 1 .. n - 1 : bs2[d] = bs[d]
  <2>1. n - 1 = Len(bs) - 2
    OBVIOUS
  <2> QED
    BY <2>1 DEF Popped
<1>3. b.kind = bs[n].kind /\ b.begin = bs[n].begin /\ b.first = bs[n].first /\ b.pending = bs[n].pending
  OBVIOUS
<1> HIDE DEF n
<1>4. \A d \in 1 .. n : bs2[d].pending = bs[d].pending /\ Opener(bs2, d) = Opener(bs, d)
  BY <1>1, <1>2, <1>3 DEF Opener
<1> QED
  BY <1>1, <1>2, <1>4 DEF Stays, Block

(* No two builders are in one block, and the line that is read is in that  *)
(* of the innermost.                                                       *)
LEMMA BlocksApart ==
  ASSUME NEW s, NEW bs, NEW c, Len(bs) \in Nat, Nested(s, bs, c), NEW d \in 1 .. Len(bs), NEW e \in 1 .. Len(bs),
         Block(bs, d) = Block(bs, e)
  PROVE  d = e
<1>1. ASSUME NEW f \in 1 .. Len(bs), NEW g \in 1 .. Len(bs), f < g PROVE Block(bs, f) # Block(bs, g)
  <2>1. g \in 2 .. Len(bs) /\ Opener(bs, g) \in 1 .. c - 1 /\ Block(bs, g) = Opener(bs, g)
    <3>1. g \in 2 .. Len(bs)
      BY <1>1
    <3> QED
      BY <3>1 DEF Nested, Block
  <2>2. CASE f = 1
    <3>1. Block(bs, f) = 0
      BY <2>2 DEF Block
    <3> QED
      BY <2>1, <3>1
  <2>3. CASE f # 1
    <3>1. f \in 2 .. Len(bs) /\ g \in f + 1 .. Len(bs)
      BY <1>1, <2>3
    <3>2. Opener(bs, f) < Opener(bs, g) /\ Opener(bs, f) \in 1 .. c - 1 /\ Block(bs, f) = Opener(bs, f)
      BY <2>3, <3>1 DEF Nested, Block
    <3> QED
      BY <2>1, <3>2
  <2> QED
    BY <2>2, <2>3
<1> QED
  BY <1>1

LEMMA CursorBlock ==
  ASSUME NEW s, Script(s), Balanced(s), NEW bs, NEW c \in Lines(s), Len(bs) \in Nat \ {0}, Nested(s, bs, c), s[c] # "end"
  PROVE  Innermost(s, c, Openers) = Block(bs, Len(bs))
<1> DEFINE n == Len(bs)
<1>1. Around(s, c) = {Opener(bs, d) : d \in 2 .. n}
  BY AroundTheCursor
<1>2. c \in Nat
  BY LinesAre
<1>3. CASE n = 1
  <2>1. Around(s, c) = {}
    BY <1>1, <1>3
  <2> QED
    BY <1>3, <2>1, InnermostNone DEF Block
<1>4. CASE n # 1
  <2>1. n \in 2 .. n
    <3>1. n \in Nat \ {0}
      OBVIOUS
    <3> QED
      BY ONLY <1>4, <3>1
  <2>2. Opener(bs, n) \in Around(s, c) /\ s[Opener(bs, n)] \in Openers
    <3>1. Opener(bs, n) \in {Opener(bs, d) : d \in 2 .. n}
      BY <2>1
    <3> QED
      BY <1>1, <2>1, <3>1 DEF Nested
  <2>3. ASSUME NEW d \in 2 .. n PROVE Opener(bs, d) <= Opener(bs, n)
    <3>1. Opener(bs, d) \in 1 .. c - 1 /\ Opener(bs, n) \in 1 .. c - 1
      BY <2>1 DEF Nested
    <3>2. CASE d = n
      BY <3>1, <3>2
    <3>3. CASE d # n
      <4>1. n \in d + 1 .. n
        BY <3>3
      <4>2. Opener(bs, d) < Opener(bs, n)
        BY <4>1 DEF Nested
      <4> QED
        BY <3>1, <4>2
    <3> QED
      BY <3>2, <3>3
  <2>4. \A p \in Around(s, c) : p <= Opener(bs, n)
    BY <1>1, <2>3
  <2>5. Innermost(s, c, Openers) = Opener(bs, n)
    BY <1>2, <2>2, <2>4, InnermostIs
  <2> QED
    BY <1>4, <2>5 DEF Block
<1> QED
  BY <1>3, <1>4
-----------------------------------------------------------------------------
(* The builder's steps, in these terms. *)

(* flush_update_instruction, for a builder that may have nothing to flush. *)
FlushedTo(co, co2, b) ==
  IF b.pending = {} THEN co2 = co
  ELSE \E x \in Instrs : x.op = "set" /\ x.size = 0 /\ x.lines = b.pending /\ Extended(co, co2, b.thread, <<x>>)

Good(s, co, ths, bs) ==
  /\ Stacked(s, bs)
  /\ Owned(s, ths, bs, Cur(bs))
  /\ Placed(s, co, ths, bs, Cur(bs))
  /\ Arranged(s, co, ths)
  /\ Waiting(s, bs, Cur(bs))

(* What is kept back may be passed by everything that was read since.      *)
LEMMA KeptWaiting ==
  ASSUME NEW s, Script(s), Balanced(s), NEW co, NEW ths, NEW bs, Good(s, co, ths, bs),
         NEW d \in 1 .. Len(bs), NEW i \in bs[d].pending, NEW j \in 1 .. Cur(bs) - 1, i < j
  PROVE  KeptBack(s, i, j)
<1> DEFINE c == Cur(bs)
           block == Innermost(s, i, Openers)
<1>1. c \in Nat \ {0} /\ Nested(s, bs, c) /\ c \in 1 .. Len(s) + 1 /\ Len(s) \in Nat /\ Lines(s) = 1 .. Len(s)
  BY CursorIs, LinesAre DEF Good, Stacked, Cur
<1>2. i \in 1 .. c - 1 /\ s[i] = "set"
  BY DEF Good, Placed
<1>3. /\ block = Block(bs, d)
      /\ \A k \in i .. c - 1 : Innermost(s, k, Openers) = block => s[k] \notin Stopping
  BY DEF Good, Waiting
<1> HIDE DEF block, c
<1>4. block = 0 \/ j < EndOf(s, block)
  <2>1. CASE d = 1
    BY <1>3, <2>1 DEF Block
  <2>2. CASE d # 1
    <3>1. d \in 2 .. Len(bs)
      <4>1. Len(bs) \in Nat /\ d \in 1 .. Len(bs)
        BY StackType DEF Good
      <4> QED
        BY ONLY <2>2, <4>1
    <3>2. block = Opener(bs, d) /\ block \in 1 .. c - 1 /\ s[block] \in Openers /\ c <= EndOf(s, block)
      BY <1>1, <1>3, <2>2, <3>1 DEF Nested, Block
    <3>3. EndOf(s, block) \in Nat
      <4>1. block \in Lines(s)
        BY <1>1, <3>2
      <4> QED
        BY <1>1, <3>2, <4>1, EndOfBlock
    <3>4. j \in 1 .. c - 1
      BY DEF c
    <3> QED
      BY <1>1, <3>2, <3>3, <3>4
  <2> QED
    BY <2>1, <2>2
<1>5. \A k \in i .. j : Innermost(s, k, Openers) = block => s[k] \notin Stopping
  <2>1. \A k \in i .. j : k \in i .. c - 1
    <3>1. j \in 1 .. c - 1 /\ c \in Nat
      BY <1>1 DEF c
    <3> QED
      BY ONLY <1>2, <3>1
  <2> QED
    BY <1>3, <2>1
<1> QED
  BY <1>2, <1>4, <1>5 DEF KeptBack, Stopping, block

(* It is of the thread that the builder builds. *)
LEMMA ThreadWaiting ==
  ASSUME NEW s, NEW co, NEW ths, NEW bs, NEW c, Placed(s, co, ths, bs, c),
         NEW d \in 1 .. Len(bs), bs[d].thread \in 1 .. Len(co), NEW i \in bs[d].pending
  PROVE  ThreadOf(s, i) = ths[bs[d].thread].owner
<1> DEFINE t == bs[d].thread
<1>1. i \in 1 .. c - 1 /\ s[i] \in Does
  BY DEF Placed, Does
<1>2. ASSUME ths[t].owner # ThreadOf(s, i) PROVE FALSE
  <2>1. Never(co, bs, t, i)
    BY <1>1, <1>2 DEF Placed
  <2> QED
    BY <2>1 DEF Never, NoneWaits
<1> QED
  BY <1>2

LEMMA ArrangedFlushed ==
  ASSUME NEW s, Script(s), Balanced(s), NEW co, NEW co2 \in Codes, NEW ths, NEW bs, Good(s, co, ths, bs),
         NEW d \in 1 .. Len(bs), bs[d].thread \in 1 .. Len(co), FlushedTo(co, co2, bs[d])
  PROVE  Arranged(s, co2, ths)
<1> DEFINE t == bs[d].thread
<1>1. Placed(s, co, ths, bs, Cur(bs)) /\ Arranged(s, co, ths) /\ co \in Codes
  BY DEF Good, Placed
<1>2. CASE bs[d].pending = {}
  BY <1>1, <1>2 DEF FlushedTo
<1>3. CASE bs[d].pending # {}
  <2>1. PICK x \in Instrs : x.lines = bs[d].pending /\ Extended(co, co2, t, <<x>>)
    BY <1>3 DEF FlushedTo
  <2>2. <<x>> \in Seq(Instrs) /\ Len(<<x>>) = 1 /\ <<x>>[1] = x /\ \A k \in 1 .. 1 : k = 1
    OBVIOUS
  <2>3. \A i \in x.lines : ThreadOf(s, i) = ths[t].owner
    BY <1>1, <2>1, ThreadWaiting
  <2>4. ASSUME NEW i \in x.lines, NEW l \in 1 .. Len(co[t]), NEW j \in co[t][l].lines, i < j PROVE KeptBack(s, i, j)
    <3>1. j \in 1 .. Cur(bs) - 1
      BY <1>1 DEF Placed
    <3> QED
      BY <2>1, <2>4, <3>1, KeptWaiting
  <2>5. Behind(s, co, t, ths[t].owner, <<x>>)
    <3>1. \A k \in 1 .. 1 : <<x>>[k] = x
      BY <2>2
    <3>2. \A k, l \in 1 .. 1 : ~(l < k)
      OBVIOUS
    <3> QED
      BY <2>2, <2>3, <2>4, <3>1, <3>2 DEF Behind
  <2> QED
    BY <1>1, <2>1, <2>2, <2>5, ArrangedExtended
<1> QED
  BY <1>2, <1>3

(* The builders go on behind the line that is read.                        *)
LEMMA WaitingOn ==
  ASSUME NEW s, Script(s), Balanced(s), NEW co, NEW ths, NEW bs, Good(s, co, ths, bs), NEW c \in Lines(s), c = Cur(bs),
         NEW bs2, Stays(bs, bs2), NEW c2 \in Nat, \A k \in c + 1 .. c2 - 1 : s[k] \notin Stopping,
         s[c] \in Stopping => \A d \in 1 .. Len(bs2) : bs2[d].pending # {} => d # Len(bs)
  PROVE  Waiting(s, bs2, c2)
<1>1. c \in Nat \ {0} /\ Nested(s, bs, c) /\ Len(bs) \in Nat \ {0}
  BY CursorIs, StackType DEF Good
<1>2. Placed(s, co, ths, bs, c) /\ Waiting(s, bs, c)
  BY DEF Good
<1>3. s[c] \in Stopping => Innermost(s, c, Openers) = Block(bs, Len(bs))
  BY <1>1, CursorBlock DEF Stopping, Commands
<1> SUFFICES ASSUME NEW d \in 1 .. Len(bs2), NEW i \in bs2[d].pending
             PROVE  /\ Innermost(s, i, Openers) = Block(bs2, d)
                    /\ \A k \in i .. c2 - 1 : Innermost(s, k, Openers) = Block(bs2, d) => s[k] \notin Stopping
  BY DEF Waiting
<1>4. d \in 1 .. Len(bs) /\ i \in bs[d].pending /\ Block(bs2, d) = Block(bs, d)
  BY DEF Stays
<1>5. /\ Innermost(s, i, Openers) = Block(bs, d) /\ i \in 1 .. c - 1
      /\ \A k \in i .. c - 1 : Innermost(s, k, Openers) = Block(bs, d) => s[k] \notin Stopping
  BY <1>2, <1>4 DEF Waiting, Placed
<1>6. ASSUME NEW k \in i .. c2 - 1, Innermost(s, k, Openers) = Block(bs, d) PROVE s[k] \notin Stopping
  <2>1. k \in i .. c - 1 \/ k = c \/ k \in c + 1 .. c2 - 1
    <3>1. k \in i .. c2 - 1 /\ c2 \in Nat /\ c \in Nat /\ i \in 1 .. c - 1
      BY <1>1, <1>5
    <3> QED
      BY ONLY <3>1
  <2>2. CASE k = c
    <3>1. ASSUME s[c] \in Stopping PROVE FALSE
      <4>1. d # Len(bs)
        BY <3>1
      <4>2. Block(bs, d) = Block(bs, Len(bs)) /\ Len(bs) \in 1 .. Len(bs)
        BY <1>1, <1>3, <1>6, <2>2, <3>1
      <4> QED
        BY <1>1, <1>4, <4>1, <4>2, BlocksApart
    <3> QED
      BY <2>2, <3>1
  <2> QED
    BY <1>5, <1>6, <2>1, <2>2
<1> QED
  BY <1>4, <1>5, <1>6

LEMMA WaitingNext ==
  ASSUME NEW s, Script(s), Balanced(s), NEW co, NEW ths, NEW bs, Good(s, co, ths, bs), NEW c \in Lines(s), c = Cur(bs),
         NEW bs2, Stays(bs, bs2),
         s[c] \in Stopping => \A d \in 1 .. Len(bs2) : bs2[d].pending # {} => d # Len(bs)
  PROVE  Waiting(s, bs2, c + 1)
<1>1. c \in Nat /\ c + 1 \in Nat /\ \A k \in c + 1 .. (c + 1) - 1 : FALSE
  <2>1. c \in Nat
    BY LinesAre
  <2> QED
    BY ONLY <2>1
<1> DEFINE c2 == c + 1
<1>2. c2 \in Nat /\ \A k \in c + 1 .. c2 - 1 : s[k] \notin Stopping
  BY <1>1
<1> HIDE DEF c2
<1>3. Waiting(s, bs2, c2)
  BY <1>2, WaitingOn
<1> QED
  BY <1>3 DEF c2

BuilderInv ==
  /\ script \in Scripts
  /\ Clean(script) =>
       IF Built
       THEN /\ threads \in Seq(Threads)
            /\ Placed(script, code, threads, <<>>, Len(script) + 1)
            /\ Arranged(script, code, threads)
       ELSE Good(script, code, threads, builders)

(* What a step starts from. *)
Working == script \in Scripts /\ Clean(script) /\ Good(script, code, threads, builders)

LEMMA StepFrom ==
  ASSUME Working
  PROVE  /\ Script(script) /\ Balanced(script)
         /\ Depth \in Nat \ {0} /\ Depth = Len(builders) /\ Top = builders[Len(builders)]
         /\ builders \in Seq(Builders) /\ Len(builders) > 0 /\ builders # <<>>
         /\ Top \in Builders /\ Top.begin \in Nat /\ Top.done \in Nat /\ Top.first \in Nat
         /\ Cursor = Cur(builders) /\ Cursor \in Nat \ {0} /\ Cursor = Top.begin + Top.done
         /\ code \in Codes /\ Len(code) = Len(threads) /\ Len(code) \in Nat
         /\ Top.thread \in 1 .. Len(code)
         /\ \A d \in 1 .. Depth : builders[d] \in Builders /\ builders[d].thread \in 1 .. Len(code)
         /\ \A u, v \in 1 .. Len(code) : threads[u].owner = threads[v].owner => u = v
<1>1. Script(script) /\ Balanced(script)
  BY ScriptsAssumption DEF Working, Script, Clean
<1>2. Stacked(script, builders) /\ Owned(script, threads, builders, Cur(builders)) /\ Placed(script, code, threads, builders, Cur(builders))
  BY DEF Working, Good
<1>3. /\ Len(builders) \in Nat \ {0}
      /\ \A d \in 1 .. Len(builders) : builders[d] \in Builders
      /\ builders \in Seq(Builders) /\ Len(builders) > 0
  BY <1>2, StackType DEF Stacked
<1>4. Len(builders) \in 1 .. Len(builders)
  BY <1>3
<1>5. builders # <<>>
  BY <1>3
<1>6. Cursor = Cur(builders) /\ Cursor \in Nat \ {0} /\ Cursor = Top.begin + Top.done
  BY <1>1, <1>2, CursorIs DEF Cursor, Cur, At, Top, Depth
<1>7. code \in Codes /\ Len(code) = Len(threads) /\ Len(code) \in Nat
  BY <1>2, CodesAre DEF Placed
<1>8. DOMAIN threads = 1 .. Len(code)
  BY <1>2, <1>7, OwnersAre
<1>9. \A d \in 1 .. Len(builders) : builders[d].thread \in 1 .. Len(code)
  BY <1>2, <1>8 DEF Owned
<1>10. \A u, v \in 1 .. Len(code) : threads[u].owner = threads[v].owner => u = v
  BY <1>2, <1>8 DEF Owned
<1>11. Top = builders[Len(builders)] /\ Depth = Len(builders)
  BY DEF Top, Depth
<1>12. Top \in Builders /\ Top.thread \in 1 .. Len(code)
  BY <1>3, <1>4, <1>9, <1>11
<1>13. Top.begin \in Nat /\ Top.done \in Nat /\ Top.first \in Nat
  BY <1>12 DEF Builders
<1> QED
  BY <1>1, <1>3, <1>5, <1>6, <1>7, <1>9, <1>10, <1>11, <1>12, <1>13

LEMMA FlushShape ==
  ASSUME NEW co \in Codes, NEW b \in Builders, b.thread \in 1 .. Len(co), NEW co2, Replaced(co, b.thread, co[b.thread] \o Flushed(b), co2)
  PROVE  co2 \in Codes /\ FlushedTo(co, co2, b) /\ Len(co2) = Len(co)
<1>1. CASE b.pending = {}
  <2>1. co[b.thread] \in Seq(Instrs)
    BY CodesAre
  <2>2. Flushed(b) = <<>> /\ co[b.thread] \o <<>> = co[b.thread]
    BY <1>1, <2>1, ConcatEmptySeq DEF Flushed
  <2>3. DOMAIN co = 1 .. Len(co) /\ co \in [1 .. Len(co) -> Seq(Instrs)]
    BY LenProperties DEF Codes
  <2>4. Replaced(co, b.thread, co[b.thread], co2)
    BY <2>2, Zenon
  <2>5. co2 = co
    BY <2>3, <2>4 DEF Replaced
  <2> QED
    BY <1>1, <2>5 DEF FlushedTo
<1>2. CASE b.pending # {}
  <2> DEFINE x == Instruction("set", b.pending, 0, "update")
  <2>1. x \in Instrs /\ x.op = "set" /\ x.size = 0 /\ x.lines = b.pending
    BY DEF Instruction, Instrs, Ops, Flows, Builders
  <2>2. Flushed(b) = <<x>>
    BY <1>2 DEF Flushed
  <2> HIDE DEF x
  <2>3. <<x>> \in Seq(Instrs)
    BY <2>1
  <2>4. Replaced(co, b.thread, co[b.thread] \o <<x>>, co2)
    BY <2>2, Zenon
  <2>5. co2 \in Codes /\ Extended(co, co2, b.thread, <<x>>)
    BY <2>3, <2>4, ExtendedBy
  <2> QED
    BY <1>2, <2>1, <2>5 DEF FlushedTo, Extended
<1> QED
  BY <1>1, <1>2

LEMMA PlacedFlushed ==
  ASSUME NEW s, NEW co, NEW co2 \in Codes, NEW ths, NEW bs, NEW bs2, NEW c, NEW d \in 1 .. Len(bs),
         bs[d].thread \in 1 .. Len(co), Placed(s, co, ths, bs, c), FlushedTo(co, co2, bs[d]),
         Len(bs2) = Len(bs), bs2[d].pending = {},
         \A e \in 1 .. Len(bs) : bs2[e].thread = bs[e].thread /\ (e # d => bs2[e].pending = bs[e].pending)
  PROVE  Placed(s, co2, ths, bs2, c)
<1>1. CASE bs[d].pending = {}
  <2>1. Slots(bs, bs2)
    BY <1>1 DEF Slots
  <2>2. co2 = co
    BY <1>1 DEF FlushedTo
  <2> QED
    BY <2>1, <2>2, PlacedSlots
<1>2. CASE bs[d].pending # {}
  <2>1. PICK x \in Instrs : x.lines = bs[d].pending /\ Extended(co, co2, bs[d].thread, <<x>>)
    BY <1>2 DEF FlushedTo
  <2> QED
    BY <2>1, PlacedFlush, ZenonT(30), SMTT(30)
<1> QED
  BY <1>1, <1>2

(* emit *)
EmittedTo(co, mid, b, kind) == IF kind \in Commands THEN FlushedTo(co, mid, b) ELSE mid = co

LEMMA EmitShape ==
  ASSUME code \in Codes, NEW b \in Builders, b.thread \in 1 .. Len(code), NEW kind, NEW xs \in Seq(Instrs)
  PROVE  /\ Emit(b.thread, b, kind, xs) \in Codes
         /\ \E mid \in Codes : /\ EmittedTo(code, mid, b, kind) /\ Len(mid) = Len(code)
                               /\ Extended(mid, Emit(b.thread, b, kind, xs), b.thread, xs)
<1> DEFINE t == b.thread
           ys == IF kind \in Commands THEN Flushed(b) ELSE <<>>
           mid == [code EXCEPT ![t] = code[t] \o ys]
           now == Emit(t, b, kind, xs)
<1>1. code[t] \in Seq(Instrs) /\ DOMAIN code = 1 .. Len(code) /\ code \in [1 .. Len(code) -> Seq(Instrs)]
  BY CodesAre, LenProperties DEF Codes
<1>2. mid \in Codes /\ EmittedTo(code, mid, b, kind) /\ Len(mid) = Len(code)
  <2>1. CASE kind \in Commands
    <3>1. Replaced(code, t, code[t] \o Flushed(b), mid)
      BY <2>1 DEF Replaced
    <3> HIDE DEF mid
    <3> QED
      BY <2>1, <3>1, FlushShape DEF EmittedTo
  <2>2. CASE kind \notin Commands
    <3>1. ys = <<>> /\ code[t] \o <<>> = code[t]
      BY <1>1, <2>2, ConcatEmptySeq
    <3>2. mid = [code EXCEPT ![t] = code[t]]
      BY <3>1, Zenon
    <3>3. mid = code
      BY <1>1, <3>2
    <3> HIDE DEF mid
    <3> QED
      BY <2>2, <3>3 DEF EmittedTo
  <2> QED
    BY <2>1, <2>2
<1>3. ys \in Seq(Instrs)
  <2> DEFINE x == Instruction("set", b.pending, 0, "update")
  <2>1. x \in Instrs
    BY DEF Instruction, Instrs, Ops, Flows, Builders
  <2> HIDE DEF x
  <2>2. <<x>> \in Seq(Instrs) /\ <<>> \in Seq(Instrs)
    BY <2>1
  <2>3. CASE kind \notin Commands
    BY <2>2, <2>3
  <2>4. CASE kind \in Commands /\ b.pending = {}
    <3>1. ys = <<>>
      BY <2>4 DEF Flushed
    <3> QED
      BY <2>2, <3>1
  <2>5. CASE kind \in Commands /\ b.pending # {}
    <3>1. ys = <<x>>
      BY <2>5 DEF Flushed, x
    <3> QED
      BY <2>2, <3>1
  <2> QED
    BY <2>3, <2>4, <2>5
<1>4. mid[t] = code[t] \o ys
  BY <1>1
<1>6. now = [code EXCEPT ![t] = (code[t] \o ys) \o xs]
  BY DEF Emit
<1>7. now = [mid EXCEPT ![t] = (code[t] \o ys) \o xs]
  BY <1>1, <1>6
<1>8. Replaced(mid, t, mid[t] \o xs, now)
  BY <1>4, <1>7 DEF Replaced
<1> HIDE DEF mid, now
<1>9. now \in Codes /\ Extended(mid, now, t, xs)
  BY <1>2, <1>8, ExtendedBy
<1> QED
  BY <1>2, <1>9 DEF now

(* What the builder keeps back, when it emits. *)
LEMMA EmittingShape ==
  ASSUME NEW b \in Builders, NEW kind
  PROVE  /\ Emitting(b, kind) \in Builders /\ SameBut(b, Emitting(b, kind))
         /\ Emitting(b, kind).cadence = b.cadence /\ Emitting(b, kind).place = b.place
         /\ Emitting(b, kind).count = b.count /\ Emitting(b, kind).known = b.known
         /\ Emitting(b, kind).pending = IF kind \in Commands THEN {} ELSE b.pending
<1>1. Flush(b) = [b EXCEPT !.pending = {}]
  BY DEF Flush
<1>2. /\ Flush(b) \in Builders /\ SameBut(b, Flush(b))
      /\ Flush(b).cadence = b.cadence /\ Flush(b).place = b.place
      /\ Flush(b).count = b.count /\ Flush(b).known = b.known
      /\ Flush(b).pending = {}
  BY <1>1 DEF Builders, SameBut
<1>3. SameBut(b, b)
  BY DEF SameBut
<1> QED
  BY <1>2, <1>3 DEF Emitting

LEMMA PlacedEmitted ==
  ASSUME NEW s, NEW co, NEW mid \in Codes, NEW ths, NEW bs, NEW c, Len(bs) \in Nat \ {0}, NEW bs2, NEW kind, NEW b,
         bs[Len(bs)].thread \in 1 .. Len(co), Placed(s, co, ths, bs, c), EmittedTo(co, mid, bs[Len(bs)], kind),
         Onto(bs, bs2, b), b.thread = bs[Len(bs)].thread,
         b.pending = IF kind \in Commands THEN {} ELSE bs[Len(bs)].pending
  PROVE  Placed(s, mid, ths, bs2, c)
<1> DEFINE n == Len(bs)
<1>1. n \in Nat \ {0} /\ n \in 1 .. n /\ \A d \in 1 .. n : d = n \/ d \in 1 .. n - 1
  OBVIOUS
<1>2. Len(bs2) = n /\ bs2[n] = b /\ \A e \in 1 .. n - 1 : bs2[e] = bs[e]
  BY DEF Onto
<1>3. \A e \in 1 .. n : bs2[e].thread = bs[e].thread /\ (e # n => bs2[e].pending = bs[e].pending)
  BY <1>1, <1>2
<1>4. CASE kind \in Commands
  BY <1>1, <1>2, <1>3, <1>4, PlacedFlushed DEF EmittedTo
<1>5. CASE kind \notin Commands
  <2>1. Slots(bs, bs2)
    <3>1. \A e \in 1 .. n : bs2[e].pending = bs[e].pending
      BY <1>1, <1>2, <1>3, <1>5
    <3> QED
      BY <1>2, <1>3, <3>1 DEF Slots
  <2>2. mid = co
    BY <1>5 DEF EmittedTo
  <2> QED
    BY <2>1, <2>2, PlacedSlots
<1> QED
  BY <1>4, <1>5

(* A size that is filled in, where there is such an instruction. *)
LEMMA RelinedBy ==
  ASSUME NEW co \in Codes, NEW t \in 1 .. Len(co), NEW p, NEW size, p \in 1 .. Len(co[t]) => size \in Int,
         NEW co2, co2 = [co EXCEPT ![t][p].size = size]
  PROVE  co2 \in Codes /\ Relined(co, co2)
<1>1. CASE p \in 1 .. Len(co[t])
  <2>1. size \in Int
    BY <1>1
  <2>2. co2 \in Codes /\ Sized(co, co2, t, p, size)
    BY <2>1, SizedBy
  <2> QED
    BY <2>2 DEF Sized
<1>2. CASE p \notin 1 .. Len(co[t])
  <2>1. DOMAIN co = 1 .. Len(co) /\ DOMAIN co[t] = 1 .. Len(co[t]) /\ co[t] \in Seq(Instrs)
    BY CodesAre
  <2>2. co[t] = [j \in DOMAIN co[t] |-> co[t][j]] /\ co = [j \in DOMAIN co |-> co[j]]
    BY <2>1, LenProperties DEF Codes
  <2>3. [co[t] EXCEPT ![p].size = size] = co[t]
    BY <1>2, <2>1, <2>2
  <2>4. co2 = [co EXCEPT ![t] = co[t]]
    BY <2>3, Zenon
  <2>5. co2 = co
    BY <2>2, <2>4
  <2> QED
    BY <2>5 DEF Relined
<1> QED
  BY <1>1, <1>2

LEMMA ResizedShape ==
  ASSUME NEW co \in Codes, NEW b, b.thread \in 1 .. Len(co), NEW size \in Int, NEW co2, co2 = Resized(co, b, size)
  PROVE  co2 \in Codes /\ Relined(co, co2)
<1>1. CASE Moved(b, co)
  <2>1. co2 = co
    BY <1>1 DEF Resized
  <2> QED
    BY <2>1 DEF Relined
<1>2. CASE ~Moved(b, co)
  <2>1. co2 = [co EXCEPT ![b.thread][b.place].size = size]
    BY <1>2 DEF Resized
  <2> QED
    BY <2>1, RelinedBy
<1> QED
  BY <1>1, <1>2

(* One instruction more. *)
LEMMA AppendedBy ==
  ASSUME NEW co \in Codes, NEW t \in 1 .. Len(co), NEW x \in Instrs, NEW co2, Replaced(co, t, Append(co[t], x), co2)
  PROVE  co2 \in Codes /\ Extended(co, co2, t, <<x>>)
<1>1. co[t] \in Seq(Instrs) /\ <<x>> \in Seq(Instrs)
  BY CodesAre
<1>2. Append(co[t], x) = co[t] \o <<x>>
  BY <1>1, AppendIsConcat
<1>3. Replaced(co, t, co[t] \o <<x>>, co2)
  BY <1>2, Zenon
<1> QED
  BY <1>1, <1>3, ExtendedBy

(* A builder that goes on. *)
LEMMA PassedShape ==
  ASSUME NEW b \in Builders, NEW lines \in Nat, NEW p, p = Passed(b, lines)
  PROVE  /\ p \in Builders /\ p.kind = b.kind /\ p.thread = b.thread /\ p.begin = b.begin /\ p.first = b.first
         /\ p.done = b.done + lines /\ p.pending = b.pending
<1>1. p = [b EXCEPT !.done = b.done + lines]
  BY DEF Passed
<1>2. b.done + lines \in Nat
  BY DEF Builders
<1> QED
  BY <1>1, <1>2 DEF Builders

(* A builder that starts. *)
LEMMA BuilderShape ==
  ASSUME NEW kind \in Kinds \cup {"thread"}, NEW thread \in Nat, NEW begin \in Nat, NEW place \in Nat, NEW count \in Nat,
         NEW known \in Nat, NEW c \in Flows, NEW first \in Nat,
         NEW b, b = Builder(kind, thread, begin, place, count, known, c, first)
  PROVE  /\ b \in Builders /\ b.kind = kind /\ b.thread = thread /\ b.begin = begin /\ b.first = first
         /\ b.done = 0 /\ b.pending = {} /\ b.cadence = c
BY DEF Builder, Builders

LEMMA SlotsOnto ==
  ASSUME NEW bs, NEW bs2, NEW b, Len(bs) \in Nat \ {0}, Onto(bs, bs2, b),
         b.thread = bs[Len(bs)].thread, b.pending = bs[Len(bs)].pending
  PROVE  Slots(bs, bs2)
<1> DEFINE n == Len(bs)
<1>1. n \in Nat \ {0} /\ \A d \in 1 .. n : d = n \/ d \in 1 .. n - 1
  OBVIOUS
<1>2. Len(bs2) = n /\ bs2[n] = b /\ \A e \in 1 .. n - 1 : bs2[e] = bs[e]
  BY DEF Onto
<1>3. \A e \in 1 .. n : bs2[e].thread = bs[e].thread /\ bs2[e].pending = bs[e].pending
  BY <1>1, <1>2
<1> QED
  BY <1>2, <1>3 DEF Slots

LEMMA SlotsPushed ==
  ASSUME NEW bs, NEW bs2, NEW b, Len(bs) \in Nat, Len(bs2) = Len(bs) + 1,
         \A d \in 1 .. Len(bs) : bs2[d] = bs[d], bs2[Len(bs) + 1] = b, b.pending = {}
  PROVE  Slots(bs, bs2)
<1>1. \A d \in 1 .. Len(bs2) : d = Len(bs) + 1 \/ d \in 1 .. Len(bs)
  OBVIOUS
<1>2. \A d \in 1 .. Len(bs) : d \in 1 .. Len(bs2)
  OBVIOUS
<1> QED
  BY <1>1, <1>2 DEF Slots

LEMMA SlotsPopped ==
  ASSUME NEW bs, NEW bs1, NEW bs2, NEW b, NEW top, Len(bs) \in Nat, Len(bs) > 1, Popped(bs, bs2, b), Onto(bs, bs1, top),
         top.pending = {}, b.thread = bs[Len(bs) - 1].thread, b.pending = bs[Len(bs) - 1].pending
  PROVE  Slots(bs1, bs2)
<1> DEFINE n == Len(bs)
<1>1. \A d \in 1 .. n : d = n \/ d = n - 1 \/ d \in 1 .. n - 2
  OBVIOUS
<1>2. \A d \in 1 .. n - 1 : d \in 1 .. n /\ (d = n - 1 \/ d \in 1 .. n - 2)
  OBVIOUS
<1>3. n - 1 \in 1 .. n - 1 /\ \A d \in 1 .. n - 2 : d \in 1 .. n - 1
  OBVIOUS
<1>4. Len(bs1) = n /\ Len(bs2) = n - 1 /\ bs1[n] = top /\ bs2[n - 1] = b
  BY DEF Onto, Popped
<1>5. \A d \in 1 .. n - 1 : bs1[d] = bs[d]
  BY DEF Onto
<1>6. \A d \in 1 .. n - 2 : bs2[d] = bs[d]
  BY DEF Popped
<1>7. ASSUME NEW d \in 1 .. n - 1 PROVE bs2[d].pending = bs1[d].pending /\ bs2[d].thread = bs1[d].thread
  BY <1>2, <1>4, <1>5, <1>6
<1> HIDE DEF n
<1>8. \A d \in 1 .. n : bs1[d].pending # {} => d \in 1 .. n - 1
  BY <1>1, <1>3, <1>4
<1> QED
  BY <1>2, <1>4, <1>7, <1>8 DEF Slots

(* The line that is read. *)
LEMMA Reads ==
  ASSUME Working, Reading
  PROVE  /\ Cursor \in Lines(script) /\ Len(script) \in Nat /\ Lines(script) = 1 .. Len(script)
         /\ Cursor \in 1 .. Len(script) /\ Cursor \in Nat \ {0} /\ Cur(builders) \in Lines(script)
         /\ Line = script[Cursor] /\ Line = script[Cur(builders)]
         /\ Line # "end" => ThreadOf(script, Cursor) = threads[Top.thread].owner
<1>1. Cursor \in Lines(script) /\ Cursor = Cur(builders) /\ Line = script[Cursor]
  BY StepFrom DEF Reading, Line
<1>2. Script(script) /\ Balanced(script) /\ Len(builders) \in Nat \ {0} /\ Top = builders[Len(builders)]
  BY StepFrom
<1>3. Len(script) \in Nat /\ Lines(script) = 1 .. Len(script)
  BY <1>2, LinesAre
<1>4. Nested(script, builders, Cur(builders)) /\ Owned(script, threads, builders, Cur(builders))
  BY <1>2, CursorIs DEF Working, Good
<1>5. Line # "end" => ThreadOf(script, Cursor) = threads[Top.thread].owner
  BY <1>1, <1>2, <1>4, CursorThread
<1> QED
  BY <1>1, <1>3, <1>5

(* A builder of the same block that has read k lines more. *)
LEMMA ReadsOn ==
  ASSUME Working, Reading, NEW b \in Builders, NEW bs2, Replaced(builders, Depth, b, bs2), NEW k \in Nat,
         Cursor + k <= Len(script) + 1,
         \A i \in Cursor .. (Cursor + k) - 1 : script[i] \notin Openers \cup {"end"},
         b.kind = Top.kind, b.thread = Top.thread, b.begin = Top.begin, b.first = Top.first, b.done = Top.done + k
  PROVE  /\ Onto(builders, bs2, b)
         /\ Stacked(script, bs2) /\ Cur(bs2) = Cursor + k /\ Owned(script, threads, bs2, Cursor + k)
<1>1. /\ Script(script) /\ Balanced(script) /\ Len(builders) \in Nat \ {0} /\ Len(builders) > 0
      /\ Top = builders[Len(builders)] /\ Depth = Len(builders) /\ builders \in Seq(Builders) /\ Cursor = Cur(builders)
  BY StepFrom
<1>2. Onto(builders, bs2, b)
  BY <1>1, OntoBy
<1>3. Stacked(script, builders) /\ Owned(script, threads, builders, Cur(builders))
  BY DEF Working, Good
<1>4. Cur(builders) \in Lines(script)
  BY Reads
<1>5. /\ b.kind = builders[Len(builders)].kind /\ b.thread = builders[Len(builders)].thread
      /\ b.begin = builders[Len(builders)].begin /\ b.first = builders[Len(builders)].first
      /\ b.done = builders[Len(builders)].done + k
  BY <1>1
<1>6. Cur(builders) + k <= Len(script) + 1 /\ \A i \in Cur(builders) .. (Cur(builders) + k) - 1 : script[i] \notin Openers \cup {"end"}
  BY <1>1
<1>7. Stacked(script, bs2) /\ Cur(bs2) = Cur(builders) + k /\ Owned(script, threads, bs2, Cur(builders) + k)
  BY <1>1, <1>2, <1>3, <1>4, <1>5, <1>6, StackedAlong
<1> QED
  BY <1>1, <1>2, <1>7

(* What it has kept back waits on, or it has written it.                   *)
LEMMA WaitsOn ==
  ASSUME Working, Reading, NEW b, NEW bs2, Onto(builders, bs2, b),
         \/ b.pending = {}
         \/ /\ b.kind = Top.kind /\ b.begin = Top.begin /\ b.first = Top.first /\ b.pending = Top.pending
            /\ script[Cursor] \notin Stopping,
         NEW c2 \in Nat, \A k \in Cursor + 1 .. c2 - 1 : script[k] \notin Stopping
  PROVE  Waiting(script, bs2, c2)
<1>1. /\ Script(script) /\ Balanced(script) /\ Len(builders) \in Nat \ {0} /\ Top = builders[Len(builders)]
      /\ Cursor = Cur(builders) /\ Good(script, code, threads, builders)
  BY StepFrom DEF Working
<1>2. Cursor \in Lines(script)
  BY Reads
<1>3. bs2[Len(builders)] = b
  BY DEF Onto
<1>4. Stays(builders, bs2)
  <2>1. b.pending = {} \/ (b.pending = builders[Len(builders)].pending /\ Opener(bs2, Len(builders)) = Opener(builders, Len(builders)))
    BY <1>1, <1>3 DEF Opener
  <2> QED
    BY <1>1, <2>1, StaysOnto
<1>5. script[Cursor] \in Stopping => \A d \in 1 .. Len(bs2) : bs2[d].pending # {} => d # Len(builders)
  BY <1>3
<1> QED
  BY <1>1, <1>2, <1>4, <1>5, WaitingOn

LEMMA WaitsNext ==
  ASSUME Working, Reading, NEW b, NEW bs2, Onto(builders, bs2, b),
         \/ b.pending = {}
         \/ /\ b.kind = Top.kind /\ b.begin = Top.begin /\ b.first = Top.first /\ b.pending = Top.pending
            /\ script[Cursor] \notin Stopping
  PROVE  Waiting(script, bs2, Cursor + 1)
<1> DEFINE c2 == Cursor + 1
<1>1. c2 \in Nat /\ \A k \in Cursor + 1 .. c2 - 1 : script[k] \notin Stopping
  <2>1. Cursor \in Nat
    BY StepFrom
  <2> QED
    BY ONLY <2>1
<1> HIDE DEF c2
<1>2. Waiting(script, bs2, c2)
  BY <1>1, WaitsOn
<1> QED
  BY <1>2 DEF c2

LEMMA WaitsDeeper ==
  ASSUME Working, Reading, NEW below, NEW b, NEW bs2, Pushed(builders, bs2, below, b), SameBut(Top, below), b.pending = {},
         below.pending = (IF Line \in Commands THEN {} ELSE Top.pending), Line # "else"
  PROVE  Waiting(script, bs2, Cursor + 1)
<1>1. /\ Script(script) /\ Balanced(script) /\ Len(builders) \in Nat \ {0} /\ Top = builders[Len(builders)]
      /\ Cursor = Cur(builders) /\ Good(script, code, threads, builders)
  BY StepFrom DEF Working
<1>2. Cursor \in Lines(script) /\ Line = script[Cursor]
  BY Reads
<1>3. Stays(builders, bs2)
  <2>1. below.pending \in {{}, builders[Len(builders)].pending}
    BY <1>1
  <2> QED
    BY <1>1, <2>1, StaysPushed
<1>4. script[Cursor] \in Stopping => \A d \in 1 .. Len(bs2) : bs2[d].pending # {} => d # Len(builders)
  <2>1. bs2[Len(builders)] = below
    BY DEF Pushed
  <2> QED
    BY <1>2, <2>1 DEF Stopping
<1> QED
  BY <1>1, <1>2, <1>3, <1>4, WaitingNext

(* One instruction behind what was emitted, for the line that is read.     *)
LEMMA ArrangedLine ==
  ASSUME Working, NEW co \in Codes, NEW co2 \in Codes, NEW t \in 1 .. Len(co), NEW xs \in Seq(Instrs),
         Arranged(script, co, threads), Extended(co, co2, t, xs), NEW bs, NEW c2, c2 - 1 <= Cursor, Placed(script, co, threads, bs, c2),
         \A k \in 1 .. Len(xs) : \A i \in xs[k].lines : i = Cursor,
         c2 \in Nat, ThreadOf(script, Cursor) = threads[t].owner
  PROVE  Arranged(script, co2, threads)
<1>1. Cursor \in Int
  BY StepFrom
<1>2. \A k \in 1 .. Len(co[t]) : \A j \in co[t][k].lines : j \in 1 .. c2 - 1
  BY DEF Placed
<1>3. \A k \in 1 .. Len(co[t]) : \A j \in co[t][k].lines : j \in Int /\ j <= Cursor
  BY <1>1, <1>2
<1> DEFINE p == Cursor
<1> HIDE DEF p
<1>4. /\ p \in Int /\ (\A k \in 1 .. Len(xs) : \A i \in xs[k].lines : i = p) /\ ThreadOf(script, p) = threads[t].owner
      /\ \A k \in 1 .. Len(co[t]) : \A j \in co[t][k].lines : j \in Int /\ j <= p
  BY <1>1, <1>3 DEF p
<1>5. Behind(script, co, t, threads[t].owner, xs)
  BY <1>4, BehindAll
<1> QED
  BY <1>5, ArrangedExtended

LEMMA BlankStep ==
  ASSUME Working, Blank
  PROVE  Good(script, code', threads', builders')
<1> PICK bs2 : bs2 = builders'
  OBVIOUS
<1> DEFINE b == Passed(Top, 1)
<1>1. Reading /\ Line \in {"blank", "else"} /\ Replaced(builders, Depth, b, bs2) /\ code' = code /\ threads' = threads
  BY DEF Blank, Onward, Replaced
<1>2. /\ Cursor \in 1 .. Len(script) /\ Len(script) \in Nat /\ Cursor \in Nat \ {0} /\ Line = script[Cursor]
  BY <1>1, Reads
<1>3. /\ b \in Builders /\ b.kind = Top.kind /\ b.thread = Top.thread /\ b.begin = Top.begin /\ b.first = Top.first
      /\ b.done = Top.done + 1 /\ b.pending = Top.pending
  BY StepFrom, PassedShape
<1> HIDE DEF b
<1>4. Cursor + 1 <= Len(script) + 1 /\ \A i \in Cursor .. (Cursor + 1) - 1 : i = Cursor
  BY <1>2
<1>5. script[Cursor] \notin Openers \cup {"end"} /\ script[Cursor] \notin Does
  BY <1>1, <1>2 DEF Openers, Cadences, SubThreads, Does
<1>6. /\ Onto(builders, bs2, b)
      /\ Stacked(script, bs2) /\ Cur(bs2) = Cursor + 1 /\ Owned(script, threads, bs2, Cursor + 1)
  BY <1>1, <1>3, <1>4, <1>5, ReadsOn
<1>7. Placed(script, code, threads, builders, Cursor) /\ Len(builders) \in Nat \ {0} /\ Top = builders[Len(builders)]
  BY StepFrom DEF Working, Good
<1>8. Slots(builders, bs2)
  BY <1>3, <1>6, <1>7, SlotsOnto
<1>9. Placed(script, code, threads, bs2, Cursor)
  BY <1>7, <1>8, PlacedSlots
<1>10. Cursor \in Nat /\ Cursor + 1 \in Nat /\ Cursor <= Cursor + 1
  BY <1>2
<1>11. Placed(script, code, threads, bs2, Cursor + 1)
  BY <1>4, <1>5, <1>9, <1>10, PlacedAlong
<1>12. script[Cursor] \notin Stopping
  <2>1. CASE Line = "blank"
    BY <1>2, <2>1 DEF Stopping, Commands
  <2>2. CASE Line = "else"
    <3>1. Top.kind \notin {"if", "else"}
      BY <2>2 DEF Blank
    <3>2. Script(script) /\ Balanced(script) /\ Stacked(script, builders) /\ Nested(script, builders, Cursor) /\ Cursor \in Lines(script)
      <4>1. Script(script) /\ Balanced(script) /\ Stacked(script, builders) /\ Cursor = Cur(builders)
        BY StepFrom DEF Working, Good
      <4>2. Cursor \in Lines(script)
        BY <1>1, Reads
      <4> QED
        BY <4>1, <4>2, CursorIs
    <3> PICK n, o : n = Len(builders) /\ o = Innermost(script, Cursor, Openers)
      OBVIOUS
    <3>3. o = Block(builders, n)
      BY <1>2, <1>7, <2>2, <3>2, CursorBlock
    <3>4. o # 0 /\ script[o] = "if"
      BY <1>2, <2>2, <3>2 DEF Balanced
    <3>5. n # 1 /\ n \in Nat \ {0}
      BY <1>7, <3>3, <3>4 DEF Block
    <3>6. n \in 2 .. n
      BY ONLY <3>5
    <3>7. Kindly(script, builders, n) /\ o = Opener(builders, n)
      BY <3>2, <3>3, <3>5, <3>6 DEF Stacked, Block
    <3> QED
      BY <1>7, <3>1, <3>4, <3>7 DEF Kindly
  <2> QED
    BY <1>1, <2>1, <2>2
<1>13. Waiting(script, bs2, Cursor + 1)
  BY <1>1, <1>3, <1>6, <1>12, WaitsNext
<1>14. Arranged(script, code, threads)
  BY DEF Working, Good
<1>15. Good(script, code, threads, bs2)
  BY <1>6, <1>11, <1>13, <1>14 DEF Good
<1> QED
  BY <1>1, <1>15

LEMMA UpdateStep ==
  ASSUME Working, Update
  PROVE  Good(script, code', threads', builders')
<1> PICK bs2 : bs2 = builders'
  OBVIOUS
<1> DEFINE p == Passed(Top, 1)
           b == [p EXCEPT !.pending = p.pending \cup {Cursor}]
<1>1. Reading /\ Line = "set" /\ Replaced(builders, Depth, b, bs2) /\ code' = code /\ threads' = threads
  BY DEF Update, Onward, Replaced
<1>2. /\ Cursor \in 1 .. Len(script) /\ Len(script) \in Nat /\ Cursor \in Nat \ {0} /\ Line = script[Cursor]
      /\ ThreadOf(script, Cursor) = threads[Top.thread].owner
  BY <1>1, Reads
<1>3. /\ p \in Builders /\ p.kind = Top.kind /\ p.thread = Top.thread /\ p.begin = Top.begin /\ p.first = Top.first
      /\ p.done = Top.done + 1 /\ p.pending = Top.pending
  BY StepFrom, PassedShape
<1> HIDE DEF p
<1>4. /\ b \in Builders /\ b.kind = Top.kind /\ b.thread = Top.thread /\ b.begin = Top.begin /\ b.first = Top.first
      /\ b.done = Top.done + 1 /\ b.pending = Top.pending \cup {Cursor}
  BY <1>2, <1>3 DEF Builders
<1> HIDE DEF b
<1>5. Cursor + 1 <= Len(script) + 1 /\ \A i \in Cursor .. (Cursor + 1) - 1 : i = Cursor
  BY <1>2
<1>6. script[Cursor] \notin Openers \cup {"end"}
  BY <1>1, <1>2 DEF Openers, Cadences, SubThreads
<1>7. /\ Onto(builders, bs2, b)
      /\ Stacked(script, bs2) /\ Cur(bs2) = Cursor + 1 /\ Owned(script, threads, bs2, Cursor + 1)
  BY <1>1, <1>4, <1>5, <1>6, ReadsOn
<1>8. Placed(script, code, threads, builders, Cursor) /\ Len(builders) \in Nat \ {0} /\ Top = builders[Len(builders)]
  BY StepFrom DEF Working, Good
<1> DEFINE n == Len(builders)
<1>9. n \in 1 .. n /\ \A e \in 1 .. n : e = n \/ e \in 1 .. n - 1
  BY <1>8
<1>10. Len(bs2) = n /\ bs2[n] = b /\ \A e \in 1 .. n - 1 : bs2[e] = builders[e]
  BY <1>7 DEF Onto
<1>11. bs2[n].pending = builders[n].pending \cup {Cursor} /\ builders[n] = Top
  BY <1>4, <1>8, <1>10
<1>12. \A e \in 1 .. n : bs2[e].thread = builders[e].thread /\ (e # n => bs2[e].pending = builders[e].pending)
  BY <1>4, <1>8, <1>9, <1>10
<1>13. /\ builders[n].thread \in 1 .. Len(code) /\ threads[builders[n].thread].owner = ThreadOf(script, Cursor)
       /\ \A u, v \in 1 .. Len(code) : threads[u].owner = threads[v].owner => u = v
  BY <1>2, <1>11, StepFrom
<1> HIDE DEF n
<1>14. script[Cursor] = "set" /\ Placed(script, code, threads, builders, Cursor)
  BY <1>1, <1>2, <1>8
<1>15. Len(bs2) = Len(builders) /\ n \in 1 .. Len(builders)
  BY <1>9, <1>10 DEF n
<1>16. \A e \in 1 .. Len(builders) : bs2[e].thread = builders[e].thread /\ (e # n => bs2[e].pending = builders[e].pending)
  BY <1>12 DEF n
<1>17. Placed(script, code, threads, bs2, Cursor + 1)
  BY <1>2, <1>11, <1>13, <1>14, <1>15, <1>16, PlacedSet, ZenonT(30), SMTT(60)
<1>18. Waiting(script, bs2, Cursor + 1)
  <2> DEFINE bs1 == [builders EXCEPT ![Depth] = p]
             c2 == Cursor + 1
  <2>1. Onto(builders, bs1, p) /\ Len(bs1) = n /\ bs1[n] = p /\ (\A e \in 1 .. n - 1 : bs1[e] = builders[e])
    <3>1. Replaced(builders, Len(builders), p, bs1) /\ builders \in Seq(Builders) /\ Len(builders) > 0
      BY StepFrom DEF Replaced
    <3> HIDE DEF bs1
    <3>2. Onto(builders, bs1, p)
      BY <1>3, <3>1, OntoBy
    <3> QED
      BY <3>2 DEF Onto, n
  <2> HIDE DEF bs1
  <2>2. script[Cursor] \notin Stopping
    BY <1>14 DEF Stopping, Commands
  <2>3. Waiting(script, bs1, c2)
    BY <1>1, <1>3, <2>1, <2>2, WaitsNext
  <2>4. /\ Innermost(script, Cursor, Openers) = Block(builders, n) /\ Block(bs1, n) = Block(builders, n)
        /\ \A e \in 1 .. n : Block(bs2, e) = Block(bs1, e)
    <3>1. Script(script) /\ Balanced(script) /\ Nested(script, builders, Cursor) /\ Cursor \in Lines(script)
      <4>1. Script(script) /\ Balanced(script) /\ Stacked(script, builders) /\ Cursor = Cur(builders)
        BY StepFrom DEF Working, Good
      <4>2. Cursor \in Lines(script)
        BY <1>1, Reads
      <4> QED
        BY <4>1, <4>2, CursorIs
    <3>2. Innermost(script, Cursor, Openers) = Block(builders, n)
      BY <1>8, <1>14, <3>1, CursorBlock DEF n
    <3>3. bs1[n].kind = builders[n].kind /\ bs1[n].begin = builders[n].begin /\ bs1[n].first = builders[n].first
      BY <1>3, <1>11, <2>1
    <3>4. bs2[n].kind = p.kind /\ bs2[n].begin = p.begin /\ bs2[n].first = p.first
      BY <1>3, <1>4, <1>10
    <3>5. \A e \in 1 .. n : Opener(bs2, e) = Opener(bs1, e)
      BY <1>9, <1>10, <2>1, <3>4 DEF Opener
    <3> QED
      BY <3>2, <3>3, <3>5 DEF Block, Opener
  <2>5. \A e \in 1 .. n : bs2[e].pending = IF e = n THEN bs1[e].pending \cup {Cursor} ELSE bs1[e].pending
    BY <1>3, <1>4, <1>9, <1>10, <2>1
  <2>6. ASSUME NEW k \in Cursor .. c2 - 1 PROVE k = Cursor
    <3>1. Cursor \in Nat
      BY <1>2
    <3> QED
      BY ONLY <2>6, <3>1
  <2> HIDE DEF c2
  <2>7. ASSUME NEW d \in 1 .. n, NEW i \in bs2[d].pending
        PROVE  /\ Innermost(script, i, Openers) = Block(bs2, d)
               /\ \A k \in i .. c2 - 1 : Innermost(script, k, Openers) = Block(bs2, d) => script[k] \notin Stopping
    <3>1. CASE i \in bs1[d].pending
      BY <2>1, <2>3, <2>4, <3>1 DEF Waiting
    <3>2. CASE i \notin bs1[d].pending
      <4>1. d = n /\ i = Cursor
        BY <2>5, <3>2
      <4> QED
        BY <2>2, <2>4, <2>6, <4>1
    <3> QED
      BY <3>1, <3>2
  <2>8. Waiting(script, bs2, c2)
    BY <1>10, <2>7 DEF Waiting
  <2> QED
    BY <2>8 DEF c2
<1>19. Arranged(script, code, threads)
  BY DEF Working, Good
<1>20. Good(script, code, threads, bs2)
  BY <1>7, <1>17, <1>18, <1>19 DEF Good
<1> QED
  BY <1>1, <1>20

(* What an emitting step starts with: the builder that emits has nothing   *)
(* left but what directives pass by.                                       *)
LEMMA EmittingStep ==
  ASSUME Working, Reading, NEW xs \in Seq(Instrs), NEW bs1, Replaced(builders, Depth, Emitting(Top, Line), bs1)
  PROVE  /\ Onto(builders, bs1, Emitting(Top, Line))
         /\ Emit(Top.thread, Top, Line, xs) \in Codes
         /\ \E mid \in Codes : /\ Len(mid) = Len(code) /\ Extended(mid, Emit(Top.thread, Top, Line, xs), Top.thread, xs)
                               /\ Placed(script, mid, threads, bs1, Cursor) /\ Arranged(script, mid, threads)
<1>1. /\ Len(builders) \in Nat \ {0} /\ Len(builders) > 0 /\ Top = builders[Len(builders)] /\ Depth = Len(builders)
      /\ builders \in Seq(Builders) /\ code \in Codes /\ Top \in Builders /\ Top.thread \in 1 .. Len(code)
  BY StepFrom
<1>2. /\ Emitting(Top, Line) \in Builders /\ SameBut(Top, Emitting(Top, Line))
      /\ Emitting(Top, Line).pending = IF Line \in Commands THEN {} ELSE Top.pending
  BY <1>1, EmittingShape
<1>3. Onto(builders, bs1, Emitting(Top, Line))
  BY <1>1, <1>2, OntoBy
<1>4. Emit(Top.thread, Top, Line, xs) \in Codes
  BY <1>1, EmitShape
<1>5. PICK mid \in Codes : /\ EmittedTo(code, mid, Top, Line) /\ Len(mid) = Len(code)
                           /\ Extended(mid, Emit(Top.thread, Top, Line, xs), Top.thread, xs)
  BY <1>1, EmitShape
<1>6. Placed(script, code, threads, builders, Cursor)
  BY StepFrom DEF Working, Good
<1>7. Emitting(Top, Line).thread = Top.thread
  BY <1>2 DEF SameBut
<1>8. EmittedTo(code, mid, builders[Len(builders)], Line) /\ builders[Len(builders)].thread \in 1 .. Len(code)
  BY <1>1, <1>5
<1>9. /\ Emitting(Top, Line).thread = builders[Len(builders)].thread
      /\ Emitting(Top, Line).pending = IF Line \in Commands THEN {} ELSE builders[Len(builders)].pending
  BY <1>1, <1>2, <1>7
<1>10. Placed(script, mid, threads, bs1, Cursor)
  BY <1>1, <1>3, <1>6, <1>8, <1>9, PlacedEmitted
<1>11. Arranged(script, mid, threads)
  <2>1. Good(script, code, threads, builders) /\ Script(script) /\ Balanced(script) /\ Len(builders) \in 1 .. Len(builders)
    BY StepFrom DEF Working
  <2>2. CASE Line \in Commands
    BY <1>8, <2>1, <2>2, ArrangedFlushed DEF EmittedTo
  <2>3. CASE Line \notin Commands
    BY <1>8, <2>1, <2>3 DEF EmittedTo, Good
  <2> QED
    BY <2>2, <2>3
<1> QED
  BY <1>3, <1>4, <1>5, <1>10, <1>11

LEMMA SimpleStep ==
  ASSUME Working, Simple
  PROVE  Good(script, code', threads', builders')
<1> PICK bs2, co2 : bs2 = builders' /\ co2 = code'
  OBVIOUS
<1> DEFINE x == Bare(IF Line = "do" THEN "act" ELSE "pause", Cursor)
           q == Emitting(Top, Line)
           b == Passed(q, 1)
           bs1 == [builders EXCEPT ![Depth] = q]
<1>1. /\ Reading /\ Line \in {"do", "pause"} /\ threads' = threads
      /\ co2 = Emit(Top.thread, Top, Line, <<x>>) /\ Replaced(builders, Depth, b, bs2) /\ Replaced(builders, Depth, q, bs1)
  BY DEF Simple, Onward, Replaced
<1>2. /\ Cursor \in 1 .. Len(script) /\ Len(script) \in Nat /\ Cursor \in Nat \ {0} /\ Line = script[Cursor]
      /\ ThreadOf(script, Cursor) = threads[Top.thread].owner
  BY <1>1, Reads
<1>3. /\ Top \in Builders /\ Len(builders) \in Nat \ {0} /\ Top = builders[Len(builders)] /\ Top.thread \in 1 .. Len(code)
      /\ \A u, v \in 1 .. Len(code) : threads[u].owner = threads[v].owner => u = v
  BY StepFrom
<1>4. q \in Builders /\ SameBut(Top, q)
  BY <1>3, EmittingShape
<1>5. x \in Instrs /\ x.lines = {Cursor}
  BY <1>2 DEF Bare, Instruction, Instrs, Ops, Flows
<1> HIDE DEF x
<1>6. <<x>> \in Seq(Instrs)
  BY <1>5
<1>7. /\ b \in Builders /\ b.kind = q.kind /\ b.thread = q.thread /\ b.begin = q.begin /\ b.first = q.first
      /\ b.done = q.done + 1 /\ b.pending = q.pending
  BY <1>4, PassedShape
<1> HIDE DEF q, b, bs1
<1>8. Onto(builders, bs1, q) /\ co2 \in Codes
  BY <1>1, <1>6, EmittingStep DEF q
<1>9. PICK mid \in Codes : /\ Len(mid) = Len(code) /\ Extended(mid, co2, Top.thread, <<x>>)
                           /\ Placed(script, mid, threads, bs1, Cursor) /\ Arranged(script, mid, threads)
  BY <1>1, <1>6, EmittingStep DEF q
<1>10. Cursor + 1 <= Len(script) + 1 /\ \A i \in Cursor .. (Cursor + 1) - 1 : i = Cursor
  BY <1>2
<1>11. script[Cursor] \notin Openers \cup {"end"}
  BY <1>1, <1>2 DEF Openers, Cadences, SubThreads
<1>12. /\ b.kind = Top.kind /\ b.thread = Top.thread /\ b.begin = Top.begin /\ b.first = Top.first
       /\ b.done = Top.done + 1
  BY <1>4, <1>7 DEF SameBut
<1>13. /\ Onto(builders, bs2, b)
       /\ Stacked(script, bs2) /\ Cur(bs2) = Cursor + 1 /\ Owned(script, threads, bs2, Cursor + 1)
  BY <1>1, <1>7, <1>10, <1>11, <1>12, ReadsOn
<1>14. Slots(bs1, bs2)
  <2>1. Onto(bs1, bs2, b) /\ Len(bs1) = Len(builders) /\ bs1[Len(bs1)] = q
    BY <1>8, <1>13 DEF Onto
  <2> QED
    BY <1>3, <1>7, <2>1, SlotsOnto
<1>15. Placed(script, mid, threads, bs2, Cursor)
  BY <1>9, <1>14, PlacedSlots
<1>16. Placed(script, co2, threads, bs2, Cursor + 1)
  BY <1>2, <1>3, <1>5, <1>8, <1>9, <1>15, PlacedDone
<1>17. Waiting(script, bs2, Cursor + 1)
  <2>1. q.pending = IF Line \in Commands THEN {} ELSE Top.pending
    BY <1>3, EmittingShape DEF q
  <2>2. Line \notin Commands => script[Cursor] \notin Stopping
    BY <1>1, <1>2 DEF Stopping, Commands
  <2>3. \/ b.pending = {}
        \/ /\ b.kind = Top.kind /\ b.begin = Top.begin /\ b.first = Top.first /\ b.pending = Top.pending
           /\ script[Cursor] \notin Stopping
    BY <1>7, <1>12, <2>1, <2>2
  <2> QED
    BY <1>1, <1>13, <2>3, WaitsNext
<1>18. Arranged(script, co2, threads)
  <2>1. \A k \in 1 .. Len(<<x>>) : \A i \in <<x>>[k].lines : i = Cursor
    BY <1>5
  <2>2. Cursor - 1 <= Cursor /\ Cursor \in Nat
    BY <1>2
  <2> QED
    BY <1>2, <1>3, <1>6, <1>8, <1>9, <2>1, <2>2, ArrangedLine
<1>19. Good(script, co2, threads, bs2)
  BY <1>13, <1>16, <1>17, <1>18 DEF Good
<1> QED
  BY <1>1, <1>19

LEMMA IncludeStep ==
  ASSUME Working, Include
  PROVE  Good(script, code', threads', builders')
<1> PICK bs2, co2 : bs2 = builders' /\ co2 = code'
  OBVIOUS
<1> DEFINE xs == [i \in 1 .. FileLines |-> Bare("act", Cursor)]
           q == Emitting(Top, Line)
           b == Passed(q, FileLines)
           bs1 == [builders EXCEPT ![Depth] = q]
<1>1. /\ Reading /\ Line = "include" /\ threads' = threads
      /\ co2 = Emit(Top.thread, Top, Line, xs) /\ Replaced(builders, Depth, b, bs2) /\ Replaced(builders, Depth, q, bs1)
  BY DEF Include, Onward, Replaced
<1>2. /\ Cursor \in 1 .. Len(script) /\ Len(script) \in Nat /\ Cursor \in Nat \ {0} /\ Line = script[Cursor]
      /\ Lines(script) = 1 .. Len(script) /\ Cursor \in Lines(script)
  BY <1>1, Reads
<1>3. /\ Top \in Builders /\ Len(builders) \in Nat \ {0} /\ Top = builders[Len(builders)] /\ Top.thread \in 1 .. Len(code)
  BY StepFrom
<1>4. q \in Builders /\ SameBut(Top, q)
  BY <1>3, EmittingShape
<1>5. FileLines \in Nat \ {0} /\ FileLines \in Nat
  BY SizesAssumption
<1>6. xs \in Seq(Instrs) /\ Len(xs) = FileLines /\ \A k \in 1 .. Len(xs) : xs[k].lines = {Cursor}
  <2>1. Bare("act", Cursor) \in Instrs /\ Bare("act", Cursor).lines = {Cursor}
    BY <1>2 DEF Bare, Instruction, Instrs, Ops, Flows
  <2> QED
    BY <1>5, <2>1
<1> HIDE DEF xs
<1>7. /\ b \in Builders /\ b.kind = q.kind /\ b.thread = q.thread /\ b.begin = q.begin /\ b.first = q.first
      /\ b.done = q.done + FileLines /\ b.pending = q.pending
  BY <1>4, <1>5, PassedShape
<1> HIDE DEF q, b, bs1
<1>8. Onto(builders, bs1, q) /\ co2 \in Codes
  BY <1>1, <1>6, EmittingStep DEF q
<1>9. PICK mid \in Codes : /\ Len(mid) = Len(code) /\ Extended(mid, co2, Top.thread, xs)
                           /\ Placed(script, mid, threads, bs1, Cursor) /\ Arranged(script, mid, threads)
  BY <1>1, <1>6, EmittingStep DEF q
<1>10. \A j \in Cursor + 1 .. Cursor + FileLines - 1 : j \in Lines(script) /\ script[j] = "blank"
  BY <1>1, <1>2 DEF Working, Clean
<1>11. Cursor + FileLines <= Len(script) + 1
  <2>1. CASE FileLines = 1
    BY <1>2, <2>1
  <2>2. CASE FileLines # 1
    <3>1. Cursor + FileLines - 1 \in Cursor + 1 .. Cursor + FileLines - 1
      BY <1>2, <1>5, <2>2
    <3>2. Cursor + FileLines - 1 \in Lines(script)
      BY <1>10, <3>1
    <3> QED
      BY <1>2, <1>5, <3>2
  <2> QED
    BY <2>1, <2>2
<1>12. \A i \in Cursor .. (Cursor + FileLines) - 1 : script[i] \in {"include", "blank"}
  <2>1. \A i \in Cursor .. (Cursor + FileLines) - 1 : i = Cursor \/ i \in Cursor + 1 .. Cursor + FileLines - 1
    BY <1>2, <1>5
  <2> QED
    BY <1>1, <1>2, <1>10, <2>1
<1>13. \A i \in Cursor .. (Cursor + FileLines) - 1 : script[i] \notin Openers \cup {"end"} /\ script[i] \notin Does
  BY <1>12 DEF Openers, Cadences, SubThreads, Does
<1>14. /\ b.kind = Top.kind /\ b.thread = Top.thread /\ b.begin = Top.begin /\ b.first = Top.first
       /\ b.done = Top.done + FileLines
  BY <1>4, <1>7 DEF SameBut
<1>15. /\ Onto(builders, bs2, b)
       /\ Stacked(script, bs2) /\ Cur(bs2) = Cursor + FileLines /\ Owned(script, threads, bs2, Cursor + FileLines)
  BY <1>1, <1>5, <1>7, <1>11, <1>13, <1>14, ReadsOn
<1>16. Slots(bs1, bs2)
  <2>1. Onto(bs1, bs2, b) /\ Len(bs1) = Len(builders) /\ bs1[Len(bs1)] = q
    BY <1>8, <1>15 DEF Onto
  <2> QED
    BY <1>3, <1>7, <2>1, SlotsOnto
<1>17. Placed(script, mid, threads, bs2, Cursor)
  BY <1>9, <1>16, PlacedSlots
<1>18. Cursor \in Nat /\ Cursor + FileLines \in Nat /\ Cursor <= Cursor + FileLines
  BY <1>2, <1>5
<1>19. Placed(script, mid, threads, bs2, Cursor + FileLines)
  BY <1>13, <1>17, <1>18, PlacedAlong
<1>20. Cursor \in 1 .. (Cursor + FileLines) - 1 /\ Cursor \in Cursor .. (Cursor + FileLines) - 1
  BY <1>2, <1>5
<1>21. \A k \in 1 .. Len(xs) : \A i \in xs[k].lines : i \in 1 .. (Cursor + FileLines) - 1 /\ script[i] \notin Does
  BY <1>6, <1>13, <1>20
<1>22. Placed(script, co2, threads, bs2, Cursor + FileLines)
  BY <1>3, <1>6, <1>8, <1>9, <1>19, <1>21, PlacedExtended
<1>23. Waiting(script, bs2, Cursor + FileLines)
  <2>1. b.pending = {}
    BY <1>1, <1>3, <1>7, EmittingShape DEF q, Commands
  <2> DEFINE c2 == Cursor + FileLines
  <2>2. c2 \in Nat /\ \A k \in Cursor + 1 .. c2 - 1 : script[k] \notin Stopping
    <3>1. "blank" \notin Stopping
      BY DEF Stopping, Commands
    <3>2. c2 \in Nat
      BY <1>18
    <3>3. c2 - 1 = Cursor + FileLines - 1
      BY <1>2, <1>5
    <3>4. \A k \in Cursor + 1 .. c2 - 1 : script[k] = "blank"
      BY <1>10, <3>3, Zenon
    <3> QED
      BY <3>1, <3>2, <3>4, Zenon
  <2> HIDE DEF c2
  <2>3. Waiting(script, bs2, c2)
    BY <1>1, <1>15, <2>1, <2>2, WaitsOn
  <2> QED
    BY <2>3 DEF c2
<1>24. Arranged(script, co2, threads)
  <2>1. \A k \in 1 .. Len(xs) : \A i \in xs[k].lines : i = Cursor
    BY <1>6
  <2>2. Cursor - 1 <= Cursor /\ Cursor \in Nat
    BY <1>2
  <2>3. ThreadOf(script, Cursor) = threads[Top.thread].owner
    BY <1>1, Reads
  <2> QED
    BY <1>3, <1>6, <1>8, <1>9, <2>1, <2>2, <2>3, ArrangedLine
<1>25. Good(script, co2, threads, bs2)
  BY <1>15, <1>22, <1>23, <1>24 DEF Good
<1> QED
  BY <1>1, <1>25

LEMMA OpenStep ==
  ASSUME Working, Open
  PROVE  Good(script, code', threads', builders')
<1> PICK bs2, co2 : bs2 = builders' /\ co2 = code'
  OBVIOUS
<1> DEFINE x == Control(Line, Cursor)
           q == Emitting(Top, Line)
           c == IF Line \in Cadences THEN Line ELSE Top.cadence
           b == Builder(Line, Top.thread, Cursor + 1, Len(co2[Top.thread]), Len(co2[Top.thread]), Len(code), c, 0)
           bs1 == [builders EXCEPT ![Depth] = q]
<1>1. /\ Reading /\ Line \in {"if", "while", "multi"} \cup Cadences /\ threads' = threads
      /\ co2 = Emit(Top.thread, Top, Line, <<x>>) /\ bs2 = Append(bs1, b) /\ Replaced(builders, Depth, q, bs1)
  BY DEF Open, Onward, Replaced
<1>2. /\ Cursor \in 1 .. Len(script) /\ Len(script) \in Nat /\ Cursor \in Nat \ {0} /\ Line = script[Cursor]
      /\ Cur(builders) \in Lines(script)
  BY <1>1, Reads
<1>3. ThreadOf(script, Cursor) = threads[Top.thread].owner
  BY <1>1, Reads DEF Cadences
<1>4. /\ Top \in Builders /\ Len(builders) \in Nat \ {0} /\ Top = builders[Len(builders)] /\ Top.thread \in 1 .. Len(code)
      /\ Depth = Len(builders) /\ builders \in Seq(Builders) /\ Len(builders) > 0 /\ Len(code) \in Nat /\ Cursor = Cur(builders)
      /\ Script(script) /\ Balanced(script)
  BY StepFrom
<1>5. q \in Builders /\ SameBut(Top, q)
  BY <1>4, EmittingShape
<1>6. x \in Instrs /\ x.lines = {Cursor}
  BY <1>1, <1>2 DEF Control, Bare, Instruction, Instrs, Ops, Flows, Cadences
<1> HIDE DEF x
<1>7. <<x>> \in Seq(Instrs)
  BY <1>6
<1> HIDE DEF q, bs1
<1>8. Onto(builders, bs1, q) /\ co2 \in Codes
  BY <1>1, <1>7, EmittingStep DEF q
<1>9. PICK mid \in Codes : /\ Len(mid) = Len(code) /\ Extended(mid, co2, Top.thread, <<x>>)
                           /\ Placed(script, mid, threads, bs1, Cursor) /\ Arranged(script, mid, threads)
  BY <1>1, <1>7, EmittingStep DEF q
<1>10. Len(co2[Top.thread]) \in Nat
  <2>1. Len(co2) = Len(mid)
    BY <1>9 DEF Extended
  <2> QED
    BY <1>4, <1>8, <1>9, <2>1, CodesAre
<1>11. /\ b \in Builders /\ b.kind = Line /\ b.thread = Top.thread /\ b.begin = Cursor + 1
       /\ b.done = 0 /\ b.pending = {}
  <2>1. Line \in Kinds \cup {"thread"} /\ c \in Flows
    BY <1>1, <1>4 DEF Kinds, Commands, Directives, Cadences, Flows, Builders
  <2>2. Top.thread \in Nat /\ Cursor + 1 \in Nat /\ 0 \in Nat
    BY <1>2, <1>4
  <2>3. b = Builder(Line, Top.thread, Cursor + 1, Len(co2[Top.thread]), Len(co2[Top.thread]), Len(code), c, 0)
    OBVIOUS
  <2> DEFINE size == Len(co2[Top.thread])
             known == Len(code)
  <2> HIDE DEF c, b, size, known
  <2>4. b = Builder(Line, Top.thread, Cursor + 1, size, size, known, c, 0)
    BY <2>3 DEF size, known
  <2>5. size \in Nat /\ known \in Nat
    BY <1>4, <1>10 DEF size, known
  <2> QED
    BY <2>1, <2>2, <2>4, <2>5, StepFrom DEF Builder, Builders
<1> HIDE DEF b, c
<1>12. Pushed(builders, bs2, q, b)
  BY <1>1, <1>4, <1>5, <1>11, PushedBy
<1>13. Line \in Openers /\ Line \notin SubThreads /\ Line \notin Does
  BY <1>1 DEF Openers, Cadences, SubThreads, Does
<1>14. Stacked(script, builders) /\ Owned(script, threads, builders, Cur(builders))
  BY DEF Working, Good
<1>15. SameBut(builders[Len(builders)], q) /\ b.kind = script[Cur(builders)] /\ b.begin = Cur(builders) + 1 /\ script[Cur(builders)] \in Openers
  BY <1>2, <1>4, <1>5, <1>11, <1>13
<1>16. /\ Stacked(script, bs2) /\ Cur(bs2) = Cursor + 1
       /\ Len(bs2) = Len(builders) + 1 /\ Opener(bs2, Len(bs2)) = Cursor
       /\ \A d \in 1 .. Len(builders) : Opener(bs2, d) = Opener(builders, d) /\ bs2[d].thread = builders[d].thread
  BY <1>2, <1>4, <1>11, <1>12, <1>14, <1>15, StackedDeeper, SMTT(60)
<1>17. Owned(script, threads, bs2, Cursor + 1)
  <2>1. bs2[Len(bs2)] = b
    BY <1>12, <1>16 DEF Pushed
  <2>2. bs2[Len(bs2)].thread = builders[Len(builders)].thread
    BY <1>4, <1>11, <2>1
  <2>3. ThreadOf(script, Cursor) = threads[builders[Len(builders)].thread].owner /\ script[Cursor] \notin SubThreads
    BY <1>2, <1>3, <1>4, <1>13
  <2>4. Owned(script, threads, builders, Cursor) /\ Cursor \in Nat
    BY <1>2, <1>4, <1>14
  <2> QED
    BY <1>4, <1>16, <2>2, <2>3, <2>4, OwnedDeeper
<1>18. Slots(bs1, bs2)
  <2>1. Len(bs1) = Len(builders) /\ bs1 \in Seq(Builders)
    BY <1>8 DEF Onto
  <2>2. Len(bs2) = Len(bs1) + 1 /\ bs2[Len(bs1) + 1] = b /\ \A d \in 1 .. Len(bs1) : bs2[d] = bs1[d]
    BY <1>1, <1>11, <2>1, AppendProperties
  <2> QED
    BY <1>4, <1>11, <2>1, <2>2, SlotsPushed
<1>19. Placed(script, mid, threads, bs2, Cursor)
  BY <1>9, <1>18, PlacedSlots
<1>20. Cursor \in Nat /\ Cursor + 1 \in Nat /\ Cursor <= Cursor + 1 /\ (\A i \in Cursor .. (Cursor + 1) - 1 : i = Cursor)
       /\ Cursor \in 1 .. (Cursor + 1) - 1
  BY <1>2
<1>21. Placed(script, mid, threads, bs2, Cursor + 1)
  BY <1>2, <1>13, <1>19, <1>20, PlacedAlong
<1>22. \A k \in 1 .. Len(<<x>>) : \A i \in <<x>>[k].lines : i \in 1 .. (Cursor + 1) - 1 /\ script[i] \notin Does
  <2>1. Len(<<x>>) = 1 /\ <<x>>[1] = x
    OBVIOUS
  <2> QED
    BY <1>2, <1>6, <1>13, <1>20, <2>1
<1>23. Placed(script, co2, threads, bs2, Cursor + 1)
  BY <1>4, <1>7, <1>8, <1>9, <1>21, <1>22, PlacedExtended
<1>24. Waiting(script, bs2, Cursor + 1)
  <2>1. q.pending = IF Line \in Commands THEN {} ELSE Top.pending
    BY <1>4, EmittingShape DEF q
  <2>2. Line # "else"
    BY <1>1 DEF Cadences
  <2> QED
    BY <1>1, <1>5, <1>11, <1>12, <2>1, <2>2, WaitsDeeper
<1>25. Arranged(script, co2, threads)
  <2>1. \A k \in 1 .. Len(<<x>>) : \A i \in <<x>>[k].lines : i = Cursor
    BY <1>6
  <2>2. Cursor - 1 <= Cursor /\ Cursor \in Nat
    BY <1>2
  <2> QED
    BY <1>3, <1>4, <1>7, <1>8, <1>9, <2>1, <2>2, ArrangedLine
<1>26. Good(script, co2, threads, bs2)
  BY <1>16, <1>17, <1>23, <1>24, <1>25 DEF Good
<1> QED
  BY <1>1, <1>26

LEMMA OpenThreadStep ==
  ASSUME Working, OpenThread
  PROVE  Good(script, code', threads', builders')
<1> PICK bs2, co2, ths2 : bs2 = builders' /\ co2 = code' /\ ths2 = threads'
  OBVIOUS
<1> DEFINE co1 == Emit(Top.thread, Top, Line, <<>>)
           q == Emitting(Top, Line)
           p == Prologue(Line, Cursor)
           w == [owner |-> Cursor, cadence |-> Top.cadence]
           b == Builder(Line, Len(code) + 1, Cursor + 1, 0, 0, Len(code), Top.cadence, 0)
           bs1 == [builders EXCEPT ![Depth] = q]
<1>1. /\ Reading /\ Line \in SubThreads /\ ths2 = Append(threads, w) /\ co2 = Append(co1, p)
      /\ bs2 = Append(bs1, b) /\ Replaced(builders, Depth, q, bs1)
  BY DEF OpenThread, Onward, Replaced
<1>2. /\ Cursor \in 1 .. Len(script) /\ Len(script) \in Nat /\ Cursor \in Nat \ {0} /\ Line = script[Cursor]
      /\ Cur(builders) \in Lines(script) /\ Lines(script) = 1 .. Len(script)
  BY <1>1, Reads
<1>3. ThreadOf(script, Cursor) = threads[Top.thread].owner
  BY <1>1, Reads DEF SubThreads
<1>4. /\ Top \in Builders /\ Len(builders) \in Nat \ {0} /\ Top = builders[Len(builders)] /\ Top.thread \in 1 .. Len(code)
      /\ Depth = Len(builders) /\ builders \in Seq(Builders) /\ Len(builders) > 0 /\ Len(code) \in Nat /\ Cursor = Cur(builders)
      /\ Script(script) /\ Balanced(script) /\ Len(code) = Len(threads)
      /\ \A d \in 1 .. Depth : builders[d] \in Builders /\ builders[d].thread \in 1 .. Len(code)
  BY StepFrom
<1>5. q \in Builders /\ SameBut(Top, q)
  BY <1>4, EmittingShape
<1>6. p \in Seq(Instrs) /\ \A k \in 1 .. Len(p) : p[k].lines = {Cursor}
  <2>1. Bare("yield", Cursor) \in Instrs /\ Bare("yield", Cursor).lines = {Cursor}
    BY <1>2 DEF Bare, Instruction, Instrs, Ops, Flows
  <2> QED
    BY <2>1 DEF Prologue
<1>7. <<>> \in Seq(Instrs)
  OBVIOUS
<1> HIDE DEF q, bs1, co1, p
<1>8. Onto(builders, bs1, q) /\ co1 \in Codes
  BY <1>1, <1>7, EmittingStep DEF q, co1
<1>9. PICK mid \in Codes : /\ Len(mid) = Len(code) /\ Extended(mid, co1, Top.thread, <<>>)
                           /\ Placed(script, mid, threads, bs1, Cursor) /\ Arranged(script, mid, threads)
  BY <1>1, <1>7, EmittingStep DEF q, co1
<1>10. /\ b \in Builders /\ b.kind = Line /\ b.thread = Len(code) + 1 /\ b.begin = Cursor + 1
       /\ b.done = 0 /\ b.pending = {}
  <2>1. Line \in Kinds \cup {"thread"} /\ Top.cadence \in Flows
    BY <1>1, <1>4 DEF Kinds, Commands, Directives, SubThreads, Builders
  <2> DEFINE known == Len(code)
             thread == Len(code) + 1
             begin == Cursor + 1
  <2>2. thread \in Nat /\ begin \in Nat /\ 0 \in Nat /\ known \in Nat
    BY <1>2, <1>4
  <2>3. b = Builder(Line, thread, begin, 0, 0, known, Top.cadence, 0)
    OBVIOUS
  <2> HIDE DEF b, known, thread, begin
  <2>4. /\ b \in Builders /\ b.kind = Line /\ b.thread = thread /\ b.begin = begin
        /\ b.done = 0 /\ b.pending = {}
    BY <2>1, <2>2, <2>3, StepFrom DEF Builder, Builders
  <2> QED
    BY <2>4 DEF thread, begin
<1>11. w \in Threads /\ w.owner = Cursor
  BY <1>2, <1>4 DEF Threads, Builders
<1> HIDE DEF b, w
<1>12. Pushed(builders, bs2, q, b)
  BY <1>1, <1>4, <1>5, <1>10, PushedBy
<1>13. Line \in Openers /\ Line \notin Does
  BY <1>1 DEF Openers, SubThreads, Does
<1>14. Stacked(script, builders) /\ Owned(script, threads, builders, Cursor)
  BY <1>4 DEF Working, Good
<1>15. SameBut(builders[Len(builders)], q) /\ b.kind = script[Cur(builders)] /\ b.begin = Cur(builders) + 1 /\ script[Cur(builders)] \in Openers
  BY <1>2, <1>4, <1>5, <1>10, <1>13
<1>16. /\ Stacked(script, bs2) /\ Cur(bs2) = Cursor + 1
       /\ Len(bs2) = Len(builders) + 1 /\ Opener(bs2, Len(bs2)) = Cursor
       /\ \A d \in 1 .. Len(builders) : Opener(bs2, d) = Opener(builders, d) /\ bs2[d].thread = builders[d].thread
  BY <1>2, <1>4, <1>10, <1>12, <1>14, <1>15, StackedDeeper, SMTT(60)
<1>17. Owned(script, ths2, bs2, Cursor + 1)
  <2>1. bs2[Len(bs2)] = b
    BY <1>12, <1>16 DEF Pushed
  <2>2. bs2[Len(bs2)].thread = Len(threads) + 1
    BY <1>4, <1>10, <2>1
  <2>3. ThreadOf(script, Cursor) = threads[builders[Len(builders)].thread].owner /\ script[Cursor] \in SubThreads
    BY <1>1, <1>2, <1>3, <1>4
  <2>4. Nested(script, builders, Cursor)
    BY <1>4, <1>14, CursorIs
  <2>5. \A d \in 2 .. Len(builders) : Opener(builders, d) < Cursor /\ Opener(builders, d) \in Nat
    <3>1. \A d \in 2 .. Len(builders) : Opener(builders, d) \in 1 .. Cursor - 1
      BY <2>4 DEF Nested
    <3> QED
      BY <1>2, <3>1
  <2> QED
    BY ONLY <1>1, <1>2, <1>4, <1>11, <1>14, <1>16, <2>2, <2>3, <2>5, OwnedNew, ZenonT(60)
<1>18. Placed(script, co1, threads, bs1, Cursor + 1)
  <2>1. Cursor \in Nat /\ Cursor + 1 \in Nat /\ Cursor <= Cursor + 1 /\ (\A i \in Cursor .. (Cursor + 1) - 1 : i = Cursor)
    BY <1>2
  <2>2. Placed(script, mid, threads, bs1, Cursor + 1)
    BY <1>2, <1>9, <1>13, <2>1, PlacedAlong
  <2>3. \A k \in 1 .. Len(<<>>) : \A i \in <<>>[k].lines : i \in 1 .. (Cursor + 1) - 1 /\ script[i] \notin Does
    OBVIOUS
  <2> QED
    BY <1>4, <1>7, <1>8, <1>9, <2>2, <2>3, PlacedExtended
<1>19. Placed(script, co2, ths2, bs1, Cursor + 1)
  <2>1. \A k \in 1 .. Len(p) : \A i \in p[k].lines : i \in 1 .. (Cursor + 1) - 1 /\ script[i] \notin Does
    <3>1. Cursor \in 1 .. (Cursor + 1) - 1
      BY <1>2
    <3> QED
      BY <1>2, <1>6, <1>13, <3>1
  <2>2. ASSUME NEW i \in 1 .. (Cursor + 1) - 1 PROVE ThreadOf(script, i) # w.owner
    <3>1. ThreadOf(script, i) = 0 \/ ThreadOf(script, i) \in Around(script, i)
      BY <1>4, InnermostCases DEF ThreadOf
    <3>2. ThreadOf(script, i) = 0 \/ ThreadOf(script, i) \in 1 .. i - 1
      BY <3>1 DEF Around
    <3>3. ThreadOf(script, i) # Cursor
      BY <1>2, <3>2
    <3> QED
      BY <1>11, <3>3
  <2>3. threads \in Seq(Threads)
    BY <1>14 DEF Owned
  <2>4. Len(co1) = Len(code)
    BY <1>9 DEF Extended
  <2>5. Len(bs1) = Len(builders) /\ \A d \in 1 .. Len(builders) : d = Len(builders) \/ d \in 1 .. Len(builders) - 1
    BY <1>4, <1>8 DEF Onto
  <2>6. q.thread = Top.thread
    BY <1>5 DEF SameBut
  <2>7. \A d \in 1 .. Len(builders) : bs1[d].thread = builders[d].thread
    BY <1>4, <1>8, <2>5, <2>6 DEF Onto
  <2>8. \A d \in 1 .. Len(bs1) : bs1[d].thread \in 1 .. Len(co1)
    BY <1>4, <2>4, <2>5, <2>7
  <2>9. Cursor + 1 \in Nat
    BY <1>2
  <2>10. co2 = Append(co1, p) /\ ths2 = Append(threads, w)
    BY <1>1
  <2> DEFINE c == Cursor + 1
  <2>11. /\ c \in Nat /\ Placed(script, co1, threads, bs1, c)
         /\ \A k \in 1 .. Len(p) : \A i \in p[k].lines : i \in 1 .. c - 1 /\ script[i] \notin Does
         /\ \A i \in 1 .. c - 1 : script[i] \in Does => ThreadOf(script, i) # w.owner
    BY <1>18, <2>1, <2>2, <2>9
  <2> HIDE DEF c
  <2>12. Placed(script, Append(co1, p), Append(threads, w), bs1, c)
    BY <1>6, <1>11, <2>3, <2>8, <2>11, PlacedThread
  <2> QED
    BY <2>10, <2>12 DEF c
<1>20. Slots(bs1, bs2)
  <2>1. Len(bs1) = Len(builders) /\ bs1 \in Seq(Builders)
    BY <1>8 DEF Onto
  <2>2. Len(bs2) = Len(bs1) + 1 /\ bs2[Len(bs1) + 1] = b /\ \A d \in 1 .. Len(bs1) : bs2[d] = bs1[d]
    BY <1>1, <1>10, <2>1, AppendProperties
  <2> QED
    BY <1>4, <1>10, <2>1, <2>2, SlotsPushed
<1>21. Placed(script, co2, ths2, bs2, Cursor + 1)
  BY <1>19, <1>20, PlacedSlots
<1>22. Waiting(script, bs2, Cursor + 1)
  <2>1. q.pending = IF Line \in Commands THEN {} ELSE Top.pending
    BY <1>4, EmittingShape DEF q
  <2>2. Line # "else"
    BY <1>1 DEF SubThreads
  <2> QED
    BY <1>1, <1>5, <1>10, <1>12, <2>1, <2>2, WaitsDeeper
<1>23. Arranged(script, co2, ths2)
  <2>1. Arranged(script, co1, threads)
    <3>1. \A k \in 1 .. Len(<<>>) : \A i \in <<>>[k].lines : i = Cursor
      OBVIOUS
    <3>2. Cursor - 1 <= Cursor /\ Cursor \in Nat
      BY <1>2
    <3> QED
      BY <1>3, <1>4, <1>7, <1>8, <1>9, <3>1, <3>2, ArrangedLine
  <2>2. threads \in Seq(Threads) /\ Len(threads) = Len(co1)
    BY <1>4, <1>9, <1>14 DEF Owned, Extended
  <2>3. \A k \in 1 .. Len(p) : \A i \in p[k].lines : i = w.owner
    BY <1>6, <1>11
  <2>4. Arranged(script, Append(co1, p), Append(threads, w))
    BY <1>6, <1>8, <1>11, <2>1, <2>2, <2>3, ArrangedThread
  <2> QED
    BY <1>1, <2>4
<1>24. Good(script, co2, ths2, bs2)
  BY <1>16, <1>17, <1>21, <1>22, <1>23 DEF Good
<1> QED
  BY <1>24

(* What ends a block starts with: the builder writes what it kept back.    *)
LEMMA FinalStep ==
  ASSUME Working, NEW bs1, Replaced(builders, Depth, Flush(Top), bs1)
  PROVE  /\ Final \in Codes /\ Len(Final) = Len(code) /\ Placed(script, Final, threads, bs1, Cursor) /\ Arranged(script, Final, threads)
         /\ Onto(builders, bs1, Flush(Top)) /\ Flush(Top).pending = {}
<1>1. /\ Len(builders) \in Nat \ {0} /\ Len(builders) > 0 /\ Top = builders[Len(builders)] /\ Depth = Len(builders)
      /\ builders \in Seq(Builders) /\ code \in Codes /\ Top \in Builders /\ Top.thread \in 1 .. Len(code)
  BY StepFrom
<1>2. Flush(Top) \in Builders /\ Flush(Top).pending = {} /\ Flush(Top).thread = Top.thread
  BY <1>1 DEF Flush, Builders
<1>3. Onto(builders, bs1, Flush(Top))
  BY <1>1, <1>2, OntoBy
<1>4. Replaced(code, Top.thread, code[Top.thread] \o Flushed(Top), Final)
  BY DEF Final, Replaced
<1>5. Final \in Codes /\ FlushedTo(code, Final, Top) /\ Len(Final) = Len(code)
  BY <1>1, <1>4, FlushShape
<1>6. Placed(script, code, threads, builders, Cursor)
  BY StepFrom DEF Working, Good
<1> DEFINE n == Len(builders)
<1>7. n \in 1 .. n /\ \A e \in 1 .. n : e = n \/ e \in 1 .. n - 1
  BY <1>1
<1>8. Len(bs1) = n /\ bs1[n] = Flush(Top) /\ \A e \in 1 .. n - 1 : bs1[e] = builders[e]
  BY <1>3 DEF Onto
<1>9. \A e \in 1 .. n : bs1[e].thread = builders[e].thread /\ (e # n => bs1[e].pending = builders[e].pending)
  BY <1>1, <1>2, <1>7, <1>8
<1>10. FlushedTo(code, Final, builders[n]) /\ builders[n].thread \in 1 .. Len(code) /\ bs1[n].pending = {}
  BY <1>1, <1>2, <1>5, <1>8
<1>11. Placed(script, Final, threads, bs1, Cursor)
  BY <1>5, <1>6, <1>7, <1>8, <1>9, <1>10, PlacedFlushed
<1>12. Arranged(script, Final, threads)
  <2>1. Good(script, code, threads, builders) /\ Script(script) /\ Balanced(script)
    BY StepFrom DEF Working
  <2> QED
    BY <1>5, <1>7, <1>10, <2>1, ArrangedFlushed
<1> QED
  BY <1>2, <1>3, <1>5, <1>11, <1>12

LEMMA SizeIs ==
  ASSUME NEW co \in Codes, NEW b \in Builders, b.thread \in 1 .. Len(co)
  PROVE  Size(co, b) \in Int
BY CodesAre, SMTT(60) DEF Size, Builders

(* The end of a block. *)
LEMMA Closes ==
  ASSUME Working, Ended, Top.kind # "thread", NEW lines,
         lines = (IF Top.kind = "else" THEN Top.first + Top.done + 1 ELSE Top.done + 2), NEW bs2, bs2 = Return(lines)
  PROVE  /\ Len(builders) > 1 /\ Cursor \in Lines(script) /\ script[Cursor] = "end"
         /\ Stacked(script, bs2) /\ Cur(bs2) = Cursor + 1 /\ Owned(script, threads, bs2, Cursor + 1)
         /\ Final \in Codes /\ Len(Final) = Len(code) /\ Placed(script, Final, threads, bs2, Cursor + 1)
         /\ Waiting(script, bs2, Cursor + 1) /\ Arranged(script, Final, threads) /\ Placed(script, Final, threads, bs2, Cursor)
<1> DEFINE n == Len(builders)
           below == builders[n - 1]
           b == Passed(below, lines)
           bs1 == [builders EXCEPT ![Depth] = Flush(Top)]
<1>1. /\ n \in Nat \ {0} /\ Top = builders[n] /\ Depth = n
      /\ builders \in Seq(Builders) /\ Cursor = Cur(builders) /\ Cursor = Top.begin + Top.done
      /\ Script(script) /\ Balanced(script) /\ builders # <<>> /\ Top.begin \in Nat /\ Top.done \in Nat /\ Top.first \in Nat
      /\ \A d \in 1 .. n : builders[d] \in Builders
  BY StepFrom
<1>2. Stacked(script, builders) /\ Owned(script, threads, builders, Cur(builders))
  BY DEF Working, Good
<1>3. n > 1
  <2>1. n \in 1 .. Len(builders)
    BY <1>1
  <2>2. n # 1
    BY <1>1, <1>2, <2>1, KindOfBuilder
  <2> QED
    BY <1>1, <2>2
<1>4. Cursor \in Lines(script) /\ script[Cursor] = "end"
  <2>1. AtEnd(script, builders)
    BY <1>1 DEF Ended, AtEnd, Line
  <2> QED
    BY <1>1, <1>2, <1>3, <2>1, EndedAt
<1>5. lines \in Nat
  BY <1>1, SMTT(30), ZenonT(60)
<1>6. below \in Builders /\ n - 1 \in 1 .. n /\ n \in 2 .. n
  BY <1>1, <1>3
<1>7. At(builders, n - 1) + lines = Cursor + 1
  <2>1. Opener(builders, n) = At(builders, n - 1)
    BY <1>1, <1>2, <1>6 DEF Stacked
  <2>2. Opener(builders, n) = IF Top.kind = "else" THEN Top.begin - Top.first ELSE Top.begin - 1
    BY <1>1 DEF Opener
  <2>3. Top.begin \in Nat /\ Top.done \in Nat /\ Top.first \in Nat /\ Cursor = Top.begin + Top.done
    BY <1>1
  <2> HIDE DEF n
  <2>4. CASE Top.kind = "else"
    <3>1. Opener(builders, n) = Top.begin - Top.first /\ lines = Top.first + Top.done + 1
      BY <2>2, <2>4
    <3>2. Opener(builders, n) + lines = Cursor + 1
      BY <2>3, <3>1
    <3> QED
      BY <2>1, <3>2
  <2>5. CASE Top.kind # "else"
    <3>1. Opener(builders, n) = Top.begin - 1 /\ lines = Top.done + 2
      BY <2>2, <2>5
    <3>2. Opener(builders, n) + lines = Cursor + 1
      BY <2>3, <3>1
    <3> QED
      BY <2>1, <3>2
  <2> QED
    BY <2>4, <2>5
<1>8. /\ b \in Builders /\ b.kind = below.kind /\ b.thread = below.thread /\ b.begin = below.begin /\ b.first = below.first
      /\ b.done = below.done + lines /\ b.pending = below.pending
  <2>1. b = Passed(below, lines) /\ below \in Builders
    BY <1>6
  <2> HIDE DEF b, below, n
  <2>2. \A p : p = Passed(below, lines) =>
          /\ p \in Builders /\ p.kind = below.kind /\ p.thread = below.thread /\ p.begin = below.begin /\ p.first = below.first
          /\ p.done = below.done + lines /\ p.pending = below.pending
    BY ONLY <1>5, <2>1, PassedShape, Zenon
  <2> QED
    BY ONLY <2>1, <2>2, Zenon
<1>9. Replaced(SubSeq(builders, 1, n - 1), n - 1, b, bs2)
  <2>1. SubSeq(builders, 1, n - 1)[n - 1] = below
    <3>1. SubSeq(builders, 1, n - 1)[n - 1] = builders[1 + (n - 1) - 1]
      BY <1>1, <1>3, SubSeqProperties
    <3>2. 1 + (n - 1) - 1 = n - 1
      BY <1>1
    <3> QED
      BY <3>1, <3>2
  <2>2. bs2 = [SubSeq(builders, 1, n - 1) EXCEPT ![n - 1] = Passed(SubSeq(builders, 1, n - 1)[n - 1], lines)]
    BY <1>1 DEF Return
  <2> QED
    BY <2>1, <2>2 DEF Replaced
<1>10. Replaced(builders, Depth, Flush(Top), bs1)
  BY DEF Replaced
<1> HIDE DEF b, bs1
<1>11. Popped(builders, bs2, b)
  BY <1>1, <1>3, <1>8, <1>9, PoppedBy
<1>12. /\ Final \in Codes /\ Len(Final) = Len(code) /\ Placed(script, Final, threads, bs1, Cursor) /\ Arranged(script, Final, threads)
       /\ Onto(builders, bs1, Flush(Top)) /\ Flush(Top).pending = {}
  BY <1>10, FinalStep
<1>13. b.begin + b.done = Cur(builders) + 1
  <2>1. At(builders, n - 1) = below.begin + below.done
    BY DEF At
  <2>2. below.begin \in Nat /\ below.done \in Nat
    BY <1>6 DEF Builders
  <2>3. At(builders, n - 1) + lines = Cur(builders) + 1
    BY <1>1, <1>7
  <2>4. b.begin = below.begin /\ b.done = below.done + lines
    BY <1>8
  <2> HIDE DEF n, below
  <2> QED
    BY <1>5, <2>1, <2>2, <2>3, <2>4
<1>14. Cur(builders) \in Lines(script) /\ script[Cur(builders)] = "end"
  BY <1>1, <1>4
<1>15. Stacked(script, bs2) /\ Cur(bs2) = Cur(builders) + 1 /\ Owned(script, threads, bs2, Cur(builders) + 1)
  BY ONLY <1>1, <1>2, <1>3, <1>8, <1>11, <1>13, <1>14, StackedOut, ZenonT(60)
<1>16. Slots(bs1, bs2)
  BY <1>1, <1>3, <1>8, <1>11, <1>12, SlotsPopped
<1>17. Placed(script, Final, threads, bs2, Cursor)
  BY <1>12, <1>16, PlacedSlots
<1>18. Cursor \in Nat /\ Cursor + 1 \in Nat /\ Cursor <= Cursor + 1 /\ \A i \in Cursor .. (Cursor + 1) - 1 : i = Cursor
  BY ONLY <1>1, SMTT(30), ZenonT(60)
<1>19. script[Cursor] \notin Does
  BY <1>4 DEF Does
<1>20. Placed(script, Final, threads, bs2, Cursor + 1)
  BY <1>17, <1>18, <1>19, PlacedAlong
<1>21. Waiting(script, bs2, Cursor + 1)
  <2>1. Stays(builders, bs2)
    BY <1>1, <1>3, <1>8, <1>11, StaysPopped
  <2>2. script[Cursor] \notin Stopping
    BY <1>4 DEF Stopping, Commands
  <2>3. Good(script, code, threads, builders)
    BY DEF Working
  <2> QED
    BY <1>1, <1>4, <2>1, <2>2, <2>3, WaitingNext
<1> QED
  BY <1>1, <1>3, <1>4, <1>12, <1>15, <1>17, <1>20, <1>21

(* The size of the block. *)
LEMMA ResizedStep ==
  ASSUME NEW s, NEW co \in Codes, NEW ths, NEW bs, NEW c, NEW b \in Builders, b.thread \in 1 .. Len(co),
         Placed(s, co, ths, bs, c), NEW co2, co2 = Resized(co, b, Size(co, b))
  PROVE  /\ co2 \in Codes /\ Placed(s, co2, ths, bs, c) /\ Len(co2) = Len(co)
         /\ Arranged(s, co, ths) => Arranged(s, co2, ths)
<1>1. Size(co, b) \in Int
  BY SizeIs
<1>2. co2 \in Codes /\ Relined(co, co2)
  BY <1>1, ResizedShape
<1>3. Placed(s, co2, ths, bs, c)
  BY <1>2, PlacedRelined
<1>4. ASSUME Arranged(s, co, ths) PROVE Arranged(s, co2, ths)
  BY <1>2, <1>4, ArrangedRelined
<1>5. Len(co2) = Len(co)
  BY ONLY <1>2 DEF Relined
<1> QED
  BY <1>2, <1>3, <1>4, <1>5, Zenon

LEMMA ResizedFinal ==
  ASSUME Working, NEW bs, NEW c, Final \in Codes, Len(Final) = Len(code), Placed(script, Final, threads, bs, c),
         NEW co2, co2 = Resized(Final, Top, Size(Final, Top))
  PROVE  /\ co2 \in Codes /\ Placed(script, co2, threads, bs, c) /\ Len(co2) = Len(Final)
         /\ Arranged(script, Final, threads) => Arranged(script, co2, threads)
<1>1. Top \in Builders /\ Top.thread \in 1 .. Len(Final)
  BY StepFrom
<1> QED
  BY <1>1, ResizedStep, SMTT(30), ZenonT(30)

LEMMA CloseIfStep ==
  ASSUME Working, CloseIf \/ CloseMulti
  PROVE  Good(script, code', threads', builders')
<1> PICK bs2, co2 : bs2 = builders' /\ co2 = code'
  OBVIOUS
<1> DEFINE lines == IF Top.kind = "else" THEN Top.first + Top.done + 1 ELSE Top.done + 2
<1>1. /\ Ended /\ Top.kind \in {"if", "else", "multi"} /\ threads' = threads
      /\ co2 = Resized(Final, Top, Size(Final, Top)) /\ bs2 = Return(lines)
  BY DEF CloseIf, CloseMulti
<1>2. Top.kind # "thread"
  BY <1>1
<1> HIDE DEF lines
<1>3. /\ Stacked(script, bs2) /\ Cur(bs2) = Cursor + 1 /\ Owned(script, threads, bs2, Cursor + 1)
      /\ Final \in Codes /\ Len(Final) = Len(code) /\ Placed(script, Final, threads, bs2, Cursor + 1)
      /\ Waiting(script, bs2, Cursor + 1) /\ Arranged(script, Final, threads)
  BY <1>1, <1>2, Closes DEF lines
<1>4. Top \in Builders /\ Top.thread \in 1 .. Len(Final)
  BY <1>3, StepFrom
<1>5. Placed(script, co2, threads, bs2, Cursor + 1) /\ Arranged(script, co2, threads)
  BY <1>1, <1>3, <1>4, ResizedStep
<1> QED
  BY <1>1, <1>3, <1>5 DEF Good

(* An instruction more, of a line behind. *)
LEMMA AppendedStep ==
  ASSUME NEW s, NEW co \in Codes, NEW ths, NEW bs, NEW c, NEW t \in 1 .. Len(co), NEW x \in Instrs,
         Placed(s, co, ths, bs, c), NEW co2, Replaced(co, t, Append(co[t], x), co2),
         \A i \in x.lines : i \in 1 .. c - 1 /\ s[i] \notin Does
  PROVE  /\ co2 \in Codes /\ Placed(s, co2, ths, bs, c) /\ Len(co2) = Len(co)
         /\ Arranged(s, co, ths) /\ Behind(s, co, t, ths[t].owner, <<x>>) => Arranged(s, co2, ths)
<1>1. co2 \in Codes /\ Extended(co, co2, t, <<x>>)
  BY AppendedBy
<1>2. <<x>> \in Seq(Instrs) /\ \A k \in 1 .. Len(<<x>>) : <<x>>[k] = x
  OBVIOUS
<1>3. \A k \in 1 .. Len(<<x>>) : \A i \in <<x>>[k].lines : i \in 1 .. c - 1 /\ s[i] \notin Does
  BY <1>2
<1>4. co2 \in Codes /\ Placed(s, co2, ths, bs, c) /\ Len(co2) = Len(co)
  <2>1. Placed(s, co2, ths, bs, c)
    BY <1>1, <1>2, <1>3, PlacedExtended
  <2>2. Len(co2) = Len(co)
    BY ONLY <1>1 DEF Extended
  <2> QED
    BY <1>1, <2>1, <2>2
<1>5. ASSUME Arranged(s, co, ths), Behind(s, co, t, ths[t].owner, <<x>>) PROVE Arranged(s, co2, ths)
  BY <1>1, <1>2, <1>5, ArrangedExtended
<1> QED
  BY <1>4, <1>5

(* The line that ends a block within a thread is of this thread.           *)
LEMMA EndIsOfThread ==
  ASSUME Working, Cursor \in Lines(script), script[Cursor] = "end", Top.kind \in {"while"} \cup Cadences
  PROVE  ThreadOf(script, Cursor) = threads[Top.thread].owner
<1>1. /\ Script(script) /\ Balanced(script) /\ Len(builders) \in Nat \ {0} /\ Top = builders[Len(builders)] /\ Cursor = Cur(builders)
  BY StepFrom
<1>2. Stacked(script, builders) /\ Owned(script, threads, builders, Cursor)
  BY <1>1 DEF Working, Good
<1>3. Nested(script, builders, Cursor)
  BY <1>1, <1>2, CursorIs
<1> PICK n : n = Len(builders)
  OBVIOUS
<1>4. n # 1
  BY <1>1, <1>2 DEF Stacked, Cadences
<1>5. n \in 2 .. n
  <2>1. n \in Nat \ {0}
    BY <1>1
  <2> QED
    BY ONLY <1>4, <2>1
<1>6. Kindly(script, builders, n)
  BY <1>2, <1>5 DEF Stacked
<1>7. script[Opener(builders, Len(builders))] \notin SubThreads
  BY <1>1, <1>6 DEF Kindly, SubThreads, Cadences
<1> QED
  BY <1>1, <1>2, <1>3, <1>7, CursorThread

(* An instruction of the line that is read stands behind all others.       *)
LEMMA BehindLine ==
  ASSUME Working, NEW co, NEW t \in 1 .. Len(co), NEW bs, Placed(script, co, threads, bs, Cursor),
         NEW x, x.lines = {Cursor}, ThreadOf(script, Cursor) = threads[t].owner
  PROVE  Behind(script, co, t, threads[t].owner, <<x>>)
<1>1. Cursor \in Int
  BY StepFrom
<1>2. ASSUME NEW k \in 1 .. Len(co[t]), NEW j \in co[t][k].lines PROVE j \in Int /\ j <= Cursor
  <2>1. j \in 1 .. Cursor - 1
    BY DEF Placed
  <2> QED
    BY <1>1, <2>1
<1>3. \A k \in 1 .. Len(<<x>>) : \A i \in <<x>>[k].lines : i = Cursor
  OBVIOUS
<1> DEFINE p == Cursor
<1> HIDE DEF p
<1>4. /\ p \in Int /\ (\A k \in 1 .. Len(<<x>>) : \A i \in <<x>>[k].lines : i = p) /\ ThreadOf(script, p) = threads[t].owner
      /\ \A k \in 1 .. Len(co[t]) : \A j \in co[t][k].lines : j \in Int /\ j <= p
  BY <1>1, <1>2, <1>3 DEF p
<1> QED
  BY <1>4, BehindAll

(* What a sub-thread is launched by stands behind all that is of its       *)
(* thread: no line in between is.                                          *)
LEMMA BehindSpawn ==
  ASSUME Working, Cursor \in Lines(script), script[Cursor] = "end", Len(builders) > 1, Top.kind \in SubThreads,
         NEW co, NEW bs, Placed(script, co, threads, bs, Cursor), Threaded(script, co, threads),
         NEW t \in 1 .. Len(co), t = builders[Len(builders) - 1].thread,
         NEW x, x.lines = {Top.begin - 1}
  PROVE  Behind(script, co, t, threads[t].owner, <<x>>)
<1> PICK n, p, c : n = Len(builders) /\ p = Top.begin - 1 /\ c = Cursor
  OBVIOUS
<1> DEFINE w == threads[t].owner
<1>1. /\ Script(script) /\ Balanced(script) /\ n \in Nat \ {0} /\ Top = builders[n] /\ c = Cur(builders) /\ c \in Nat \ {0}
  BY StepFrom
<1>2. Stacked(script, builders) /\ Owned(script, threads, builders, c)
  BY <1>1 DEF Working, Good
<1>3. Nested(script, builders, c)
  BY <1>1, <1>2, CursorIs
<1>4. n \in 2 .. n /\ n - 1 \in 1 .. n
  <2>1. n \in Nat /\ n > 1
    BY <1>1
  <2> QED
    BY ONLY <2>1
<1>5. Opener(builders, n) = p
  BY <1>1 DEF Opener, SubThreads
<1>6. p \in 1 .. c - 1
  BY <1>3, <1>4, <1>5 DEF Nested
<1>7. script[p] \in SubThreads
  <2>1. Kindly(script, builders, n)
    BY <1>2, <1>4 DEF Stacked
  <2> QED
    BY <1>1, <1>5, <2>1 DEF Kindly, SubThreads
<1>8. EndOf(script, p) = c
  <2>1. Len(builders) \in Nat \ {0} /\ c \in Lines(script) /\ script[c] = "end"
    BY <1>1
  <2>2. EndOf(script, Opener(builders, Len(builders))) = c
    BY <1>1, <1>3, <2>1, TopEnds
  <2> QED
    BY <1>5, <2>2
<1>9. ThreadOf(script, p) = w
  BY <1>2, <1>4, <1>5 DEF Owned
<1>10. w \in Nat /\ w < p
  <2>1. OwnerIs(script, builders, n - 1, w)
    BY <1>2, <1>4 DEF Owned
  <2>2. CASE w = 0
    BY <1>6, <2>2
  <2>3. CASE w # 0
    <3>1. PICK e \in 2 .. n - 1 : w = Opener(builders, e)
      BY <2>1, <2>3 DEF OwnerIs
    <3>2. e \in 2 .. n /\ n \in e + 1 .. n
      <4>1. e \in 2 .. n - 1 /\ n \in Nat
        BY <1>1
      <4> QED
        BY ONLY <4>1
    <3>3. Opener(builders, e) < Opener(builders, n) /\ Opener(builders, e) \in 1 .. c - 1
      BY <1>3, <3>2 DEF Nested
    <3> QED
      BY <1>5, <3>1, <3>3
  <2> QED
    BY <2>2, <2>3
<1> HIDE DEF w
<1>11. ASSUME NEW k \in 1 .. Len(co[t]), NEW j \in co[t][k].lines PROVE j \in Int /\ j <= p
  <2>1. j \in 1 .. c - 1
    BY DEF Placed
  <2>2. ThreadOf(script, j) = w \/ j = w
    BY DEF Threaded, w
  <2>3. ASSUME j > p, ThreadOf(script, j) = w PROVE FALSE
    <3>1. p \in Around(script, j) /\ script[p] \in SubThreads
      <4>1. p \in 1 .. j - 1 /\ j < EndOf(script, p)
        BY ONLY <1>1, <1>6, <1>8, <2>1, <2>3, SMTT(60)
      <4> QED
        BY <1>7, <4>1 DEF Around, Openers
    <3>2. j \in Nat
      BY <2>1
    <3>3. w # 0 /\ p <= w
      <4>1. LET v == Innermost(script, j, SubThreads)
            IN  \/ v = 0 /\ \A q \in Around(script, j) : script[q] \notin SubThreads
                \/ v \in Around(script, j) /\ script[v] \in SubThreads /\ \A q \in Around(script, j) : script[q] \in SubThreads => q <= v
        BY <1>1, <3>2, InnermostCases
      <4>2. Innermost(script, j, SubThreads) = w
        BY <2>3 DEF ThreadOf
      <4> QED
        BY <1>6, <1>10, <3>1, <4>1, <4>2
    <3> QED
      BY <1>6, <1>10, <3>3
  <2> QED
    BY <1>6, <1>10, <2>1, <2>2, <2>3
<1>12. /\ p \in Int /\ (\A k \in 1 .. Len(<<x>>) : \A i \in <<x>>[k].lines : i = p) /\ ThreadOf(script, p) = w
  BY <1>6, <1>9
<1>13. Behind(script, co, t, w, <<x>>)
  BY <1>11, <1>12, BehindAll
<1> QED
  BY <1>13 DEF w

LEMMA CloseWhileStep ==
  ASSUME Working, CloseWhile
  PROVE  Good(script, code', threads', builders')
<1> PICK bs2, co2 : bs2 = builders' /\ co2 = code'
  OBVIOUS
<1> DEFINE x == Instruction("rewind", {Cursor}, Size(Final, Top) + 1, "update")
           now == [Final EXCEPT ![Top.thread] = Append(Final[Top.thread], x)]
           lines == IF Top.kind = "else" THEN Top.first + Top.done + 1 ELSE Top.done + 2
<1>1. /\ Ended /\ Top.kind = "while" /\ threads' = threads
      /\ co2 = Resized(now, Top, Size(now, Top)) /\ bs2 = Return(lines) /\ Replaced(Final, Top.thread, Append(Final[Top.thread], x), now)
  BY DEF CloseWhile, Replaced
<1>2. Top.kind # "thread"
  BY <1>1
<1> HIDE DEF lines
<1>3. /\ Stacked(script, bs2) /\ Cur(bs2) = Cursor + 1 /\ Owned(script, threads, bs2, Cursor + 1)
      /\ Cursor \in Lines(script) /\ script[Cursor] = "end"
      /\ Final \in Codes /\ Len(Final) = Len(code) /\ Placed(script, Final, threads, bs2, Cursor + 1)
      /\ Waiting(script, bs2, Cursor + 1) /\ Arranged(script, Final, threads) /\ Placed(script, Final, threads, bs2, Cursor)
  BY <1>1, <1>2, Closes DEF lines
<1>4. Top \in Builders /\ Top.thread \in 1 .. Len(Final) /\ Cursor \in Nat \ {0}
  BY <1>3, StepFrom
<1>5. x \in Instrs /\ x.lines = {Cursor}
  <2>1. Size(Final, Top) + 1 \in Int
    BY <1>3, <1>4, SizeIs
  <2> QED
    BY <1>4, <2>1 DEF Instruction, Instrs, Ops, Flows
<1> HIDE DEF x
<1>6. \A i \in x.lines : i \in 1 .. (Cursor + 1) - 1 /\ script[i] \notin Does
  <2>1. Cursor \in 1 .. (Cursor + 1) - 1
    BY <1>4
  <2>2. script[Cursor] \notin Does
    BY <1>3 DEF Does
  <2> QED
    BY <1>5, <2>1, <2>2
<1> HIDE DEF now
<1>7. now \in Codes /\ Placed(script, now, threads, bs2, Cursor + 1) /\ Len(now) = Len(Final) /\ Arranged(script, now, threads)
  <2>0. Behind(script, Final, Top.thread, threads[Top.thread].owner, <<x>>)
    BY <1>1, <1>3, <1>4, <1>5, EndIsOfThread, BehindLine
  <2> DEFINE c == Cursor + 1
  <2>1. Placed(script, Final, threads, bs2, c) /\ \A i \in x.lines : i \in 1 .. c - 1 /\ script[i] \notin Does
    BY <1>3, <1>6
  <2> HIDE DEF c
  <2>2. now \in Codes /\ Placed(script, now, threads, bs2, c) /\ Len(now) = Len(Final) /\ Arranged(script, now, threads)
    <3>1. PICK f, u : f = Final /\ u = Top.thread
      OBVIOUS
    <3>2. /\ f \in Codes /\ u \in 1 .. Len(f) /\ x \in Instrs /\ Placed(script, f, threads, bs2, c)
          /\ Replaced(f, u, Append(f[u], x), now) /\ \A i \in x.lines : i \in 1 .. c - 1 /\ script[i] \notin Does
          /\ Arranged(script, f, threads) /\ Behind(script, f, u, threads[u].owner, <<x>>)
      BY <1>1, <1>3, <1>4, <1>5, <2>0, <2>1, <3>1
    <3>3. now \in Codes /\ Extended(f, now, u, <<x>>)
      BY ONLY <3>2, AppendedBy
    <3>4. <<x>> \in Seq(Instrs) /\ \A k \in 1 .. Len(<<x>>) : \A i \in <<x>>[k].lines : i \in 1 .. c - 1 /\ script[i] \notin Does
      BY ONLY <3>2
    <3>5. Placed(script, now, threads, bs2, c)
      BY ONLY <3>2, <3>3, <3>4, PlacedExtended
    <3>6. Arranged(script, now, threads)
      BY ONLY <3>2, <3>3, <3>4, ArrangedExtended
    <3> QED
      BY <3>1, <3>3, <3>5, <3>6 DEF Extended
  <2> QED
    BY <2>2 DEF c
<1>8. Placed(script, co2, threads, bs2, Cursor + 1) /\ Arranged(script, co2, threads)
  BY <1>1, <1>4, <1>7, ResizedStep
<1> QED
  BY <1>1, <1>3, <1>8 DEF Good

LEMMA CloseCadenceStep ==
  ASSUME Working, CloseCadence
  PROVE  Good(script, code', threads', builders')
<1> PICK bs2, co2 : bs2 = builders' /\ co2 = code'
  OBVIOUS
<1> DEFINE x == Instruction("cadence", {Cursor}, 0, builders[Depth - 1].cadence)
           now == Resized(Final, Top, Size(Final, Top))
           lines == IF Top.kind = "else" THEN Top.first + Top.done + 1 ELSE Top.done + 2
<1>1. /\ Ended /\ Top.kind \in Cadences /\ threads' = threads
      /\ Replaced(now, Top.thread, Append(now[Top.thread], x), co2) /\ bs2 = Return(lines)
  BY DEF CloseCadence, Replaced, Cadences
<1>2. Top.kind # "thread"
  BY <1>1 DEF Cadences
<1> HIDE DEF lines
<1>3. /\ Stacked(script, bs2) /\ Cur(bs2) = Cursor + 1 /\ Owned(script, threads, bs2, Cursor + 1)
      /\ Cursor \in Lines(script) /\ script[Cursor] = "end" /\ Len(builders) > 1
      /\ Final \in Codes /\ Len(Final) = Len(code) /\ Placed(script, Final, threads, bs2, Cursor + 1)
      /\ Waiting(script, bs2, Cursor + 1) /\ Arranged(script, Final, threads) /\ Placed(script, Final, threads, bs2, Cursor)
  BY <1>1, <1>2, Closes DEF lines
<1>4. Top \in Builders /\ Top.thread \in 1 .. Len(Final) /\ Cursor \in Nat \ {0} /\ Depth = Len(builders) /\ Depth \in Nat
      /\ \A d \in 1 .. Depth : builders[d] \in Builders
  BY <1>3, StepFrom
<1>5. x \in Instrs /\ x.lines = {Cursor}
  <2>1. Depth - 1 \in 1 .. Depth
    BY <1>3, <1>4
  <2>2. builders[Depth - 1].cadence \in Flows
    BY <1>4, <2>1 DEF Builders
  <2> QED
    BY <1>4, <2>2 DEF Instruction, Instrs, Ops
<1> HIDE DEF x
<1>6. \A i \in x.lines : i \in 1 .. (Cursor + 1) - 1 /\ script[i] \notin Does
  <2>1. Cursor \in 1 .. (Cursor + 1) - 1
    BY <1>4
  <2>2. script[Cursor] \notin Does
    BY <1>3 DEF Does
  <2> QED
    BY <1>5, <2>1, <2>2
<1>7. /\ now \in Codes /\ Placed(script, now, threads, bs2, Cursor + 1) /\ Len(now) = Len(Final)
      /\ Arranged(script, now, threads) /\ Placed(script, now, threads, bs2, Cursor)
  <2>1. PICK y : y = now
    OBVIOUS
  <2>2. y = Resized(Final, Top, Size(Final, Top))
    BY <2>1
  <2> HIDE DEF now
  <2>3. y \in Codes /\ Placed(script, y, threads, bs2, Cursor + 1) /\ Len(y) = Len(Final) /\ Arranged(script, y, threads)
    BY <1>3, <2>2, ResizedFinal
  <2>4. Placed(script, y, threads, bs2, Cursor)
    BY <1>3, <2>2, ResizedFinal
  <2> QED
    BY <2>1, <2>3, <2>4
<1> HIDE DEF now
<1>8. Placed(script, co2, threads, bs2, Cursor + 1) /\ Arranged(script, co2, threads)
  <2>0. Behind(script, now, Top.thread, threads[Top.thread].owner, <<x>>)
    BY <1>1, <1>3, <1>4, <1>5, <1>7, EndIsOfThread, BehindLine
  <2> DEFINE c == Cursor + 1
  <2>1. Placed(script, now, threads, bs2, c) /\ \A i \in x.lines : i \in 1 .. c - 1 /\ script[i] \notin Does
    BY <1>6, <1>7
  <2> HIDE DEF c
  <2>2. Placed(script, co2, threads, bs2, c) /\ Arranged(script, co2, threads)
    BY <2>0, <1>1, <1>4, <1>5, <1>7, <2>1, AppendedStep
  <2> QED
    BY <2>2 DEF c
<1> QED
  BY <1>1, <1>3, <1>8 DEF Good

LEMMA CloseThreadStep ==
  ASSUME Working, CloseThread
  PROVE  Good(script, code', threads', builders')
<1> PICK bs2, co2 : bs2 = builders' /\ co2 = code'
  OBVIOUS
<1> DEFINE x == Bare("spawn", Top.begin - 1)
           parent == builders[Depth - 1].thread
           lines == IF Top.kind = "else" THEN Top.first + Top.done + 1 ELSE Top.done + 2
<1>1. /\ Ended /\ Top.kind \in SubThreads /\ threads' = threads
      /\ Replaced(Final, parent, Append(Final[parent], x), co2) /\ bs2 = Return(lines)
  BY DEF CloseThread, Replaced, SubThreads
<1>2. Top.kind # "thread"
  BY <1>1 DEF SubThreads
<1> HIDE DEF lines
<1>3. /\ Stacked(script, bs2) /\ Cur(bs2) = Cursor + 1 /\ Owned(script, threads, bs2, Cursor + 1)
      /\ Len(builders) > 1 /\ Cursor \in Lines(script) /\ script[Cursor] = "end"
      /\ Final \in Codes /\ Len(Final) = Len(code) /\ Placed(script, Final, threads, bs2, Cursor + 1)
      /\ Waiting(script, bs2, Cursor + 1) /\ Arranged(script, Final, threads) /\ Placed(script, Final, threads, bs2, Cursor)
  BY <1>1, <1>2, Closes DEF lines
<1>4. /\ Depth = Len(builders) /\ Depth \in Nat \ {0} /\ Top = builders[Len(builders)] /\ Cursor \in Nat \ {0}
      /\ Cursor = Cur(builders) /\ Script(script) /\ Balanced(script)
      /\ \A d \in 1 .. Depth : builders[d].thread \in 1 .. Len(code)
  BY StepFrom
<1>5. parent \in 1 .. Len(Final)
  <2>1. Depth - 1 \in 1 .. Depth
    BY <1>3, <1>4
  <2> QED
    BY <1>3, <1>4, <2>1
<1>6. Top.begin - 1 \in 1 .. Cursor - 1 /\ script[Top.begin - 1] \in Openers
  <2>1. Stacked(script, builders)
    BY DEF Working, Good
  <2>2. Nested(script, builders, Cursor)
    BY <1>4, <2>1, CursorIs
  <2>3. Depth \in 2 .. Len(builders)
    BY <1>3, <1>4
  <2>4. Opener(builders, Depth) \in 1 .. Cursor - 1 /\ script[Opener(builders, Depth)] \in Openers
    BY <2>2, <2>3 DEF Nested
  <2>5. Opener(builders, Depth) = Top.begin - 1
    BY <1>1, <1>4 DEF Opener, SubThreads
  <2> QED
    BY <2>4, <2>5
<1>7. x \in Instrs /\ x.lines = {Top.begin - 1}
  <2>1. Top.begin - 1 \in Nat
    BY <1>6
  <2> QED
    BY <2>1 DEF Bare, Instruction, Instrs, Ops, Flows
<1> HIDE DEF x, parent
<1>8. Placed(script, co2, threads, bs2, Cursor + 1) /\ Arranged(script, co2, threads)
  <2>0. Behind(script, Final, parent, threads[parent].owner, <<x>>)
    <3>1. parent = builders[Len(builders) - 1].thread /\ Threaded(script, Final, threads)
      BY <1>3, <1>4 DEF parent, Arranged
    <3> QED
      BY <1>1, <1>3, <1>5, <1>7, <3>1, BehindSpawn
  <2> DEFINE c == Cursor + 1
  <2>1. Top.begin - 1 \in 1 .. c - 1 /\ script[Top.begin - 1] \notin Does
    BY <1>4, <1>6 DEF Does, Openers, Cadences, SubThreads
  <2>2. Placed(script, Final, threads, bs2, c) /\ \A i \in x.lines : i \in 1 .. c - 1 /\ script[i] \notin Does
    BY <1>3, <1>7, <2>1
  <2> HIDE DEF c
  <2>3. Placed(script, co2, threads, bs2, c) /\ Arranged(script, co2, threads)
    BY ONLY <2>0, <1>1, <1>3, <1>5, <1>7, <2>2, AppendedStep, ZenonT(60)
  <2> QED
    BY <2>3 DEF c
<1> QED
  BY <1>1, <1>3, <1>8 DEF Good

(* In a clean script, no builder of a thread has read nothing.             *)
LEMMA NothingIsEmpty ==
  ASSUME Working, CloseNothing
  PROVE  FALSE
<1> DEFINE lines == IF Top.kind = "else" THEN Top.first + Top.done + 1 ELSE Top.done + 2
           bs2 == Return(lines)
<1>1. Ended /\ Top.kind \in SubThreads /\ Top.done = 0 /\ Top.kind # "thread"
  BY DEF CloseNothing, SubThreads
<1> HIDE DEF lines, bs2
<1>2. Len(builders) > 1 /\ script[Cursor] = "end"
  BY <1>1, Closes DEF lines, bs2
<1>3. /\ Depth = Len(builders) /\ Depth \in Nat \ {0} /\ Top = builders[Len(builders)] /\ Cursor \in Nat \ {0}
      /\ Cursor = Cur(builders) /\ Script(script) /\ Balanced(script) /\ Cursor = Top.begin + Top.done /\ Top.begin \in Nat
  BY StepFrom
<1>4. Stacked(script, builders)
  BY DEF Working, Good
<1>5. Nested(script, builders, Cursor) /\ Cursor \in 1 .. Len(script) + 1 /\ Len(script) \in Nat /\ Lines(script) = 1 .. Len(script)
  BY <1>3, <1>4, CursorIs, LinesAre DEF Stacked, Cur
<1>6. Depth \in 2 .. Len(builders)
  BY <1>2, <1>3
<1>7. Opener(builders, Depth) = Top.begin - 1
  BY <1>1, <1>3 DEF Opener, SubThreads
<1>8. Opener(builders, Depth) \in 1 .. Cursor - 1
  BY <1>5, <1>6 DEF Nested
<1>9. script[Top.begin - 1] \in SubThreads
  <2>1. Kindly(script, builders, Depth)
    BY <1>4, <1>6 DEF Stacked
  <2> QED
    BY <1>1, <1>3, <1>7, <2>1 DEF Kindly, SubThreads
<1>10. Top.begin - 1 \in Lines(script) /\ (Top.begin - 1) + 1 = Cursor
  BY <1>1, <1>3, <1>5, <1>7, <1>8
<1>11. \A o \in Lines(script) : script[o] \in SubThreads => script[o + 1] # "end"
  BY DEF Working, Clean
<1>12. script[(Top.begin - 1) + 1] # "end"
  BY <1>9, <1>10, <1>11
<1> QED
  BY <1>2, <1>10, <1>12

LEMMA CompleteStep ==
  ASSUME Working, Complete
  PROVE  /\ builders' = <<>> /\ threads' = threads /\ threads \in Seq(Threads) /\ Placed(script, code', threads, <<>>, Len(script) + 1)
         /\ Arranged(script, code', threads)
<1> PICK co2 : co2 = code'
  OBVIOUS
<1> DEFINE bs1 == [builders EXCEPT ![Depth] = Flush(Top)]
<1>1. Ended /\ Top.kind = "thread" /\ co2 = Final /\ builders' = <<>> /\ threads' = threads
  BY DEF Complete
<1>2. /\ Depth = Len(builders) /\ Depth \in Nat \ {0} /\ Top = builders[Len(builders)] /\ Cursor \in Nat \ {0}
      /\ Cursor = Cur(builders) /\ Script(script) /\ Balanced(script)
  BY StepFrom
<1>3. Stacked(script, builders) /\ Owned(script, threads, builders, Cursor)
  BY <1>2 DEF Working, Good
<1>4. Len(builders) = 1
  <2>1. Len(builders) \in 1 .. Len(builders)
    BY <1>2
  <2> QED
    BY <1>1, <1>2, <1>3, <2>1, KindOfBuilder
<1>5. Cursor = Len(script) + 1
  <2>1. Nested(script, builders, Cursor) /\ (Cursor \in Lines(script) \/ Cursor = Len(script) + 1)
    BY <1>2, <1>3, CursorIs
  <2>2. ASSUME Cursor \in Lines(script) PROVE FALSE
    <3>1. script[Cursor] = "end"
      BY <1>1, <2>2 DEF Ended, Line
    <3>2. Len(builders) > 1
      BY <1>2, <2>1, <2>2, <3>1, TopEnds
    <3> QED
      BY <1>4, <3>2
  <2> QED
    BY <2>1, <2>2
<1>6. Replaced(builders, Depth, Flush(Top), bs1)
  BY DEF Replaced
<1> HIDE DEF bs1
<1>7. Placed(script, Final, threads, bs1, Cursor) /\ Arranged(script, Final, threads) /\ Onto(builders, bs1, Flush(Top)) /\ Flush(Top).pending = {}
  BY <1>6, FinalStep
<1>8. Slots(bs1, <<>>)
  <2>1. Len(bs1) = 1 /\ bs1[1].pending = {}
    BY <1>4, <1>7 DEF Onto
  <2>2. \A d \in 1 .. Len(bs1) : d = 1
    BY <2>1
  <2>3. \A d \in 1 .. Len(<<>>) : FALSE
    OBVIOUS
  <2> QED
    BY <2>1, <2>2, <2>3 DEF Slots
<1>9. Placed(script, Final, threads, <<>>, Cursor)
  BY <1>7, <1>8, PlacedSlots
<1> QED
  BY <1>1, <1>3, <1>5, <1>7, <1>9 DEF Owned

LEMMA ElseStep ==
  ASSUME Working, Else
  PROVE  Good(script, code', threads', builders')
<1> PICK bs2, co2 : bs2 = builders' /\ co2 = code'
  OBVIOUS
<1> DEFINE t == Top.thread
           sized == Resized(Final, Top, Size(Final, Top))
           x == Bare("skip", Cursor)
           now == [sized EXCEPT ![t] = Append(sized[t], x)]
           at == Len(now[t])
           b == Builder("else", t, Cursor + 1, at, at, Len(code), Top.cadence, Top.done + 2)
           bs1 == [builders EXCEPT ![Depth] = Flush(Top)]
<1>1. /\ Reading /\ Line = "else" /\ Top.kind = "if" /\ threads' = threads
      /\ Replaced(sized, t, Append(sized[t], x), now)
      /\ co2 = IF Moved(Top, now) THEN now ELSE [now EXCEPT ![t][Top.place].size = now[t][Top.place].size + 1]
  BY SMTT(30), ZenonT(60) DEF Else, Replaced
<1>2. Replaced(builders, Depth, b, bs2) /\ Replaced(builders, Depth, Flush(Top), bs1)
  <2>1. Top.begin + Top.done + 1 = Cursor + 1
    BY StepFrom
  <2> QED
    BY <2>1 DEF Else, Replaced
<1>3. /\ Cursor \in 1 .. Len(script) /\ Len(script) \in Nat /\ Cursor \in Nat \ {0} /\ Line = script[Cursor]
      /\ Cur(builders) \in Lines(script)
  BY <1>1, Reads
<1>4. /\ Top \in Builders /\ Len(builders) \in Nat \ {0} /\ Top = builders[Len(builders)] /\ t \in 1 .. Len(code)
      /\ Depth = Len(builders) /\ builders \in Seq(Builders) /\ Len(builders) > 0 /\ Len(code) \in Nat /\ Cursor = Cur(builders)
      /\ Script(script) /\ Balanced(script) /\ Top.done \in Nat
  BY StepFrom
<1> HIDE DEF bs1
<1>5. /\ Final \in Codes /\ Len(Final) = Len(code) /\ Placed(script, Final, threads, bs1, Cursor) /\ Arranged(script, Final, threads)
      /\ Onto(builders, bs1, Flush(Top)) /\ Flush(Top).pending = {} /\ Flush(Top).thread = t
  BY <1>2, <1>4, FinalStep DEF Flush, Builders
<1>6. sized \in Codes /\ Placed(script, sized, threads, bs1, Cursor) /\ Len(sized) = Len(code) /\ Arranged(script, sized, threads)
  <2>1. PICK y : y = sized
    OBVIOUS
  <2>2. y = Resized(Final, Top, Size(Final, Top)) /\ t \in 1 .. Len(Final)
    BY <1>4, <1>5, <2>1
  <2> HIDE DEF sized
  <2>3. y \in Codes /\ Placed(script, y, threads, bs1, Cursor) /\ Len(y) = Len(Final) /\ Arranged(script, y, threads)
    BY <1>4, <1>5, <2>2, ResizedFinal
  <2> QED
    BY <1>5, <2>1, <2>3
<1>7. x \in Instrs /\ x.lines = {Cursor}
  BY <1>3 DEF Bare, Instruction, Instrs, Ops, Flows
<1> HIDE DEF x, sized, now
<1>8. now \in Codes /\ Extended(sized, now, t, <<x>>) /\ Len(now) = Len(code) /\ at \in Nat
  <2>1. now \in Codes /\ Extended(sized, now, t, <<x>>)
    BY <1>1, <1>4, <1>6, <1>7, AppendedBy
  <2>2. Len(now) = Len(code)
    BY <1>6, <2>1 DEF Extended
  <2> QED
    BY <1>4, <2>1, <2>2, CodesAre, SMTT(30), ZenonT(60)
<1>9. /\ b \in Builders /\ b.kind = "else" /\ b.thread = t /\ b.begin = Cursor + 1
      /\ b.done = 0 /\ b.pending = {} /\ b.first = Top.done + 2
  <2>0. Top.cadence \in Flows
    BY <1>4 DEF Builders
  <2>1. /\ t \in Nat /\ Cursor + 1 \in Nat /\ at \in Nat /\ Len(code) \in Nat /\ Top.cadence \in Flows
        /\ Top.done + 2 \in Nat
    <3> HIDE DEF at
    <3> QED
      BY <1>3, <1>4, <1>8, <2>0, SMTT(60)
  <2>2. "else" \in Kinds
    BY DEF Kinds
  <2> HIDE DEF t, at
  <2> QED
    BY <2>1, <2>2 DEF Builder, Builders
<1> HIDE DEF b, at
<1>10. Onto(builders, bs2, b)
  BY <1>2, <1>4, <1>9, OntoBy
<1>11. Stacked(script, bs2) /\ Cur(bs2) = Cursor + 1 /\ Owned(script, threads, bs2, Cursor + 1)
  <2>1. Stacked(script, builders) /\ Owned(script, threads, builders, Cur(builders))
    BY SMTT(30), ZenonT(60) DEF Working, Good
  <2>2. /\ script[Cur(builders)] = "else" /\ builders[Len(builders)].kind = "if"
        /\ b.thread = builders[Len(builders)].thread /\ b.begin = Cur(builders) + 1
        /\ b.first = builders[Len(builders)].done + 2
    BY <1>1, <1>3, <1>4, <1>9
  <2>3. Stacked(script, bs2) /\ Cur(bs2) = Cur(builders) + 1 /\ Owned(script, threads, bs2, Cur(builders) + 1)
    BY <1>3, <1>4, <1>9, <1>10, <2>1, <2>2, StackedElse, SMTT(30), ZenonT(30)
  <2> QED
    BY <1>4, <2>3
<1>12. Slots(bs1, bs2)
  <2>1. Onto(bs1, bs2, b) /\ Len(bs1) = Len(builders) /\ bs1[Len(bs1)] = Flush(Top)
    BY <1>5, <1>10 DEF Onto
  <2> QED
    BY <1>4, <1>5, <1>9, <2>1, SlotsOnto
<1>13. Placed(script, now, threads, bs2, Cursor + 1)
  <2> DEFINE c == Cursor + 1
  <2>1. Cursor \in Nat /\ c \in Nat /\ Cursor <= c /\ (\A i \in Cursor .. c - 1 : i = Cursor) /\ Cursor \in 1 .. c - 1
    BY <1>3
  <2>2. script[Cursor] \notin Does
    BY <1>1, <1>3 DEF Does
  <2>3. \A k \in 1 .. Len(<<x>>) : \A i \in <<x>>[k].lines : i \in 1 .. c - 1 /\ script[i] \notin Does
    <3>1. Len(<<x>>) = 1 /\ <<x>>[1] = x
      OBVIOUS
    <3> QED
      BY <1>7, <2>1, <2>2, <3>1
  <2> HIDE DEF c
  <2>4. Placed(script, sized, threads, bs2, Cursor)
    BY <1>6, <1>12, PlacedSlots
  <2>5. Placed(script, sized, threads, bs2, c)
    BY <2>1, <2>2, <2>4, PlacedAlong
  <2>6. <<x>> \in Seq(Instrs) /\ t \in 1 .. Len(sized)
    BY <1>4, <1>6, <1>7
  <2>7. Placed(script, now, threads, bs2, c)
    BY <1>6, <1>8, <2>3, <2>5, <2>6, PlacedExtended
  <2> QED
    BY <2>7 DEF c
<1>14. co2 \in Codes /\ Relined(now, co2)
  <2>1. CASE Moved(Top, now)
    <3>1. co2 = now
      BY <1>1, <2>1
    <3> QED
      BY <1>8, <3>1 DEF Relined
  <2>2. CASE ~Moved(Top, now)
    <3> DEFINE p == Top.place
               size == now[t][p].size + 1
    <3>1. co2 = [now EXCEPT ![t][p].size = size]
      BY <1>1, <2>2
    <3>2. t \in 1 .. Len(now)
      BY <1>4, <1>8
    <3>3. p \in 1 .. Len(now[t]) => size \in Int
      BY <1>8, <3>2, CodesAre DEF Instrs
    <3> HIDE DEF p, size
    <3> QED
      BY <1>8, <3>1, <3>2, <3>3, RelinedBy
  <2> QED
    BY <2>1, <2>2
<1>15. Placed(script, co2, threads, bs2, Cursor + 1)
  BY <1>13, <1>14, PlacedRelined
<1>16. Waiting(script, bs2, Cursor + 1)
  BY <1>1, <1>9, <1>10, WaitsNext
<1>17. Arranged(script, co2, threads)
  <2>1. Arranged(script, now, threads)
    <3>1. ThreadOf(script, Cursor) = threads[t].owner /\ t \in 1 .. Len(sized)
      BY <1>1, <1>4, <1>6, Reads
    <3>2. Behind(script, sized, t, threads[t].owner, <<x>>) /\ <<x>> \in Seq(Instrs)
      BY <1>6, <1>7, <3>1, BehindLine
    <3> QED
      BY <1>6, <1>8, <3>1, <3>2, ArrangedExtended
  <2> QED
    BY <1>14, <2>1, ArrangedRelined
<1> QED
  BY <1>1, <1>11, <1>15, <1>16, <1>17, SMTT(30), ZenonT(60) DEF Good
-----------------------------------------------------------------------------
(* The invariant. *)

LEMMA BuilderInit ==
  ASSUME BuildInit
  PROVE  BuilderInv
<1> DEFINE b == Builder("thread", 1, 1, 0, 0, 1, "update", 0)
           w == [owner |-> 0, cadence |-> "update"]
<1>1. script \in Scripts /\ code = <<<<>>>> /\ threads = <<w>> /\ builders = <<b>>
  BY DEF BuildInit
<1>2. /\ b \in Builders /\ b.kind = "thread" /\ b.thread = 1 /\ b.begin = 1 /\ b.done = 0 /\ b.pending = {}
  BY DEF Builder, Builders, Flows
<1>3. w \in Threads /\ w.owner = 0
  BY DEF Threads, Flows
<1> HIDE DEF b, w
<1>4. Script(script)
  BY <1>1, ScriptsAssumption DEF Script
<1>5. Len(script) \in Nat /\ Lines(script) = 1 .. Len(script)
  BY <1>4, LinesAre
<1>6. Len(builders) = 1 /\ builders[1] = b /\ builders \in Seq(Builders) /\ (\A d \in 1 .. Len(builders) : d = 1)
      /\ \A d \in 2 .. Len(builders) : FALSE
  BY <1>1, <1>2
<1>7. At(builders, Len(builders)) = 1 /\ Cur(builders) = 1
  BY <1>2, <1>6 DEF At, Cur
<1>8. Stacked(script, builders)
  <2>1. Level(script, 1 - 1) = Len(builders) - 1
    <3>1. Level(script, 0) = 0
      <4>1. \A i \in 1 .. 0 : FALSE
        OBVIOUS
      <4>2. Count(script, Openers, 1, 0) = 0 /\ Count(script, {"end"}, 1, 0) = 0
        BY <4>1, CountNone
      <4> QED
        BY <4>2 DEF Level
    <3> QED
      BY <1>6, <3>1
  <2>2. \A o \in 1 .. 1 - 1 : FALSE
    OBVIOUS
  <2>3. Nested(script, builders, 1)
    BY <1>6, <2>1, <2>2 DEF Nested
  <2> QED
    BY <1>2, <1>5, <1>6, <1>7, <2>3 DEF Stacked
<1>9. threads \in Seq(Threads) /\ Len(threads) = 1 /\ DOMAIN threads = 1 .. 1 /\ threads[1].owner = 0
  BY <1>1, <1>3
<1>10. Owned(script, threads, builders, 1)
  <2>1. OwnerIs(script, builders, 1, 0)
    BY DEF OwnerIs
  <2> QED
    BY <1>2, <1>6, <1>9, <2>1 DEF Owned
<1>11. code \in Codes /\ Len(code) = 1 /\ code[1] = <<>>
  <2>1. <<>> \in Seq(Instrs)
    OBVIOUS
  <2> DEFINE S == Seq(Instrs)
  <2>2. <<>> \in S
    BY <2>1
  <2> HIDE DEF S
  <2>3. <<<<>>>> \in Seq(S)
    BY <2>2
  <2> QED
    BY <1>1, <2>3 DEF S, Codes
<1>12. Placed(script, code, threads, builders, 1)
  <2>1. \A t \in 1 .. Len(code) : \A k \in 1 .. Len(code[t]) : FALSE
    BY <1>11
  <2>2. \A d \in 1 .. Len(builders) : builders[d].pending = {}
    BY <1>2, <1>6
  <2>3. \A i \in 1 .. 1 - 1 : FALSE
    OBVIOUS
  <2> QED
    BY <1>9, <1>11, <2>1, <2>2, <2>3 DEF Placed
<1>13. Good(script, code, threads, builders)
  <2>1. \A t \in 1 .. Len(code) : \A k \in 1 .. Len(code[t]) : FALSE
    BY <1>11
  <2>2. Arranged(script, code, threads)
    BY <2>1 DEF Arranged, Threaded, Ordered
  <2>3. Waiting(script, builders, 1)
    BY <1>2, <1>6 DEF Waiting
  <2> QED
    BY <1>7, <1>8, <1>10, <1>12, <2>2, <2>3 DEF Good
<1>14. ~Built
  BY <1>6, SMTT(60) DEF Built
<1> QED
  BY <1>1, <1>13, <1>14 DEF BuilderInv

LEMMA BuilderStep ==
  ASSUME BuilderInv, [StepsNext]_stepsVars
  PROVE  BuilderInv'
<1>1. CASE UNCHANGED building
  BY <1>1 DEF building, BuilderInv, Built
<1>2. CASE Build
  <2>1. script' = script /\ script \in Scripts
    BY <1>2, SMTT(30), ZenonT(60) DEF Build, Blank, Update, Simple, Include, Open, Else, CloseIf, CloseWhile, CloseMulti,
       CloseCadence, OpenThread, CloseThread, CloseNothing, Complete, BuilderInv
  <2>2. ~Built
    BY <1>2 DEF Build, Blank, Update, Simple, Include, Open, Else, CloseIf, CloseWhile, CloseMulti, CloseCadence,
               OpenThread, CloseThread, CloseNothing, Complete, Built, Reading, Ended
  <2>3. CASE ~Clean(script)
    BY <2>1, <2>3 DEF BuilderInv
  <2>4. CASE Clean(script)
    <3>1. Working
      BY <2>1, <2>2, <2>4 DEF BuilderInv, Working
    <3>2. CASE Complete
      <4>1. /\ builders' = <<>> /\ threads' = threads /\ threads \in Seq(Threads) /\ Placed(script, code', threads, <<>>, Len(script) + 1)
            /\ Arranged(script, code', threads)
        BY <3>1, <3>2, CompleteStep
      <4> QED
        BY <2>1, <4>1 DEF BuilderInv, Built
    <3>3. CASE ~Complete
      <4>1. Good(script, code', threads', builders')
        BY <1>2, <3>1, <3>3, BlankStep, UpdateStep, SimpleStep, IncludeStep, OpenStep, ElseStep, CloseIfStep,
           CloseWhileStep, CloseCadenceStep, OpenThreadStep, CloseThreadStep, NothingIsEmpty DEF Build
      <4>2. ~Built'
        <5>1. Stacked(script, builders')
          BY <4>1 DEF Good
        <5>2. Len(builders') > 0
          BY <5>1 DEF Stacked
        <5> QED
          BY <5>2 DEF Built
      <4> QED
        BY <2>1, <4>1, <4>2 DEF BuilderInv
    <3> QED
      BY <3>2, <3>3
  <2> QED
    BY <2>3, <2>4, SMTT(30), ZenonT(60)
<1>3. Build \/ UNCHANGED building
  BY DEF StepsNext, Building, StartThread, Begin, Resume, Wake, Unlink, StepBeyond, StepInto, Step, stepsVars
<1> QED
  BY <1>1, <1>2, <1>3

LEMMA BuilderIsRight ==
  ASSUME BuilderInv
  PROVE  EveryLineIsBuilt
<1> SUFFICES ASSUME Built, Clean(script), NEW i \in Lines(script), script[i] \in {"do", "set", "pause"}, NEW t \in DOMAIN code
             PROVE  Cardinality(Of(t, i)) = (IF threads[t].owner = ThreadOf(script, i) THEN 1 ELSE 0)
  BY DEF EveryLineIsBuilt
<1>1. Script(script) /\ Placed(script, code, threads, <<>>, Len(script) + 1)
  BY ScriptsAssumption DEF BuilderInv, Script
<1>2. code \in Codes
  BY <1>1 DEF Placed
<1>3. t \in 1 .. Len(code) /\ DOMAIN code[t] = 1 .. Len(code[t])
  BY <1>2, CodesAre
<1>4. Of(t, i) = {k \in 1 .. Len(code[t]) : i \in code[t][k].lines}
  BY <1>3 DEF Of
<1>5. script[i] \in Does
  BY DEF Does
<1> QED
  BY <1>1, <1>3, <1>4, <1>5, PlacedIsBuilt

LEMMA OrderIsRight ==
  ASSUME BuilderInv
  PROVE  OvertakenByDirectives
<1> SUFFICES ASSUME Built, Clean(script), NEW t \in DOMAIN code, NEW k \in DOMAIN code[t], NEW l \in DOMAIN code[t],
                    NEW i \in code[t][k].lines, NEW j \in code[t][l].lines, i < j, l < k
             PROVE  KeptBack(script, i, j)
  BY DEF OvertakenByDirectives
<1>1. Placed(script, code, threads, <<>>, Len(script) + 1) /\ Ordered(script, code)
  BY DEF BuilderInv, Arranged
<1>2. code \in Codes
  BY <1>1 DEF Placed
<1>3. t \in 1 .. Len(code) /\ DOMAIN code[t] = 1 .. Len(code[t])
  BY <1>2, CodesAre
<1> QED
  BY <1>1, <1>3 DEF Ordered

(* Whatever the script, as long as it is clean: when it is built, every    *)
(* command, update and pause in it stands once in the thread whose block   *)
(* it stands in, and in no other thread.                                   *)
THEOREM LinesBuilt == StepsSpec => []EveryLineIsBuilt
<1>1. StepsInit => BuilderInv
  BY BuilderInit DEF StepsInit
<1>2. BuilderInv /\ [StepsNext]_stepsVars => BuilderInv'
  BY BuilderStep
<1>3. BuilderInv => EveryLineIsBuilt
  BY BuilderIsRight
<1> QED
  BY <1>1, <1>2, <1>3, PTL DEF StepsSpec

(* Whatever the script, as long as it is clean: where an instruction       *)
(* stands before that of an earlier line, the earlier line is an update    *)
(* that no command of its block and no end of its block came behind        *)
(* before the later line.                                                  *)
THEOREM OrderKept == StepsSpec => []OvertakenByDirectives
<1>1. StepsInit => BuilderInv
  BY BuilderInit DEF StepsInit
<1>2. BuilderInv /\ [StepsNext]_stepsVars => BuilderInv'
  BY BuilderStep
<1>3. BuilderInv => OvertakenByDirectives
  BY OrderIsRight
<1> QED
  BY <1>1, <1>2, <1>3, PTL DEF StepsSpec
=============================================================================
