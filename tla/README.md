# Glare: TLA+ models and proofs

TLA+ models of the engine core of Glare (`glare/src/engine`, `glare/src/util`):
what the entity, service and history code does on every interleaving of its
callers, checked with TLC on small instances and, for the theorems listed
below, proved with TLAPS for every value of the constants.

Source paths in this file are relative to `src/glare/src/`. Line numbers are
those of the commit the models were written against.

## The system

Glare is a data-driven game engine in C++ on top of the EnTT registry. It runs
on one thread: a main loop calls `Service::update` once per frame, and all else
happens in event handlers, either at once or from a queue. What is hard about
it is therefore not parallelism but *order*: handlers that queue more events,
commands whose target has changed when they are handled, timers that fire into
a state nobody expected, and containers that change while they are iterated.

| Component | State it keeps | Operations | Talks to | Hard part | What makes it correct |
|---|---|---|---|---|---|
| **Service** (`engine/service.cpp`) | two dispatchers, timed events, deferred actions and operations, the entity tree's root | `queue_event`, `timed_event`, `defer`, `later`, `update`, `destroy` | every system, by callback | handlers that queue during publication | nothing is lost or handled twice, order within a type, an update handles what it owes |
| **Timer** (`engine/timer.cpp`) | length, start, end and pause points | `start`, `stop`, `pause`, `resume`, `restart`, `set_duration` | timed events, cadences | pauses add up | never early, exact remainder |
| **Relationship tree** (`engine/components/relationship_component.cpp`) | per entity: parent, first child, prev, next, count | `set_parent`, `remove_child`, destruction | service, transforms | one pointer of many forgotten | chains, parents and counts agree |
| **Entity threads** (`engine/entity/components/entity_thread_component.cpp`, `entity_system.cpp`) | a vector of threads per entity with flags | spawn, stop, pause, resume, attach, detach, unlink, step, erase | service (commands, timed resumes), states | commands by name, change while iterating | one linked instance, sleepers wake, detached threads survive |
| **Entity states** (`engine/entity/entity_state.cpp`, `entity_system.cpp`) | current state, frozen and stored components | `set_state_by_id`, `activate_state`, decay, activate | service (delayed activation), threads, registry | order of six component operations, delayed activation | a state is a scope: what is outside of it comes back |
| **History** (`util/history_log.hpp`, `engine/history`) | a log of snapshots and a cursor per component | store, undo, redo, truncate | delta system, commands | the live value joins the log at the first undo | undo and redo are inverse, the future is dropped by a write |
| **Thread instructions** (`engine/entity/entity_thread_builder.cpp`, `entity_system.cpp` 1511-2960) | the instructions of a thread, its position, updates kept back by `multi` and cadences | build a script line by line; step, skip, rewind, sub-threads | threads, entity commands | blocks are patched with a length after their lines are built | the running thread walks the lines the script has, in the order of its blocks |
| **Expressions** (`engine/meta/serial.cpp` 2500-3397, `meta_value_operation.cpp`) | a tree of operations | group the text, evaluate | instructions (assignments, conditions) | precedence is decided left to right by splicing a list | each operator applies to the terms that its precedence gives it |
| **Entity listeners and captures** (`engine/entity/entity_listener.cpp`, `entity_system.cpp` 543-681, 1232-1313) | per event type the entities that want it, with a count; per thread the events it waits for | add, remove, enumerate, deliver, capture, wake | threads, states, service | counts are given and taken in different places, and while the map is iterated | who waits stays listed and is asked |
| **Transforms** (`engine/transform.cpp`, `engine/components/transform_component.*`, `engine/world/world.cpp`) | local transform, three cached matrices and their flags | view, set, invalidate, validate, reparent, sweep | tree, world | caches along a tree that changes under them | nothing marked valid is out of date, what moved is told |
| **Input** (`app/input/*`, `engine/input/*`) | devices with two snapshots, queued events, held buttons of the player | poll, connect, remap, lock, update | service | releases that come after the device left | nothing stays held that nothing holds, no edge is missed |
| Contexts and variables (`engine/entity/entity_context.cpp`) | shared scopes | resolve, inherit | threads, scripts | who shares with whom | not modelled |
| Delta system (`engine/world/delta`) | per-frame deltas of transforms | freeze, advance, restart | history | restart truncates the log | not modelled: nothing in the repository creates it |
| Resource manager (`engine/resource_manager`) | shared models and callbacks | load, look up | world | expiry | not modelled |
| Scripts (`engine/script`) | coroutines, what they wait for | yield, resume, await a thread | threads | completion by name only | not modelled |
| Meta (all but expressions), reflection, serialisation, parsing | type tables | (de)serialise, call | all | sequential | not modelled: wide and without interleavings |
| Rendering, physics, motion, camera, editor, game, platform | — | per frame | world | numeric or pure I/O | not modelled |

`PROJECT.json` lists every component with its status, and the hazards of the
code line by line.

How the modelled parts interact: `EntitySystem` handles commands that the
service publishes; a delayed activation and the resume of a sleeping thread are
timed events; a state that decays stops its threads and one that activates
starts some; the children of a destroyed entity go to the service's root; an
event that a listener heard wakes threads of the entities listed for it; input
is polled before the service updates and told during the update.
The models meet at those points through nondeterminism: `EntityThreads` lets any
command come at any time between two updates, `EntityStates` lets a pending
timer fire at any time, and `EntityListeners` lets any event be heard at any
time. That is weaker than what `ServiceEvents` guarantees, so nothing is assumed
of the service that is not shown there. `ThreadSteps` takes its programs from
`ThreadBuilder`: what is run is what was built from the script.

## Modules

| Module | Models | Lines of code it stands for |
|---|---|---|
| `HistoryLogOps` | the member functions of `util::HistoryLog` as operators on a record | `util/history_log.hpp` |
| `HistoryLog` | one component with its `HistoryComponent`: an action per member function | `engine/history/components/history_component.hpp` |
| `UndoStacks` | abstract: a past and a future, and how far the cursor lags behind the log | |
| `Relationship` | every entity's `RelationshipComponent`; `set_parent`, `remove`, `destroy` of the service | `engine/components/relationship_component.*`, `engine/service.cpp` 253-305, 405-462 |
| `OrderedForest` | abstract: a function from parents to lists of children | |
| `Timer` | one `engine::Timer` and the clock | `engine/timer.*` |
| `ServiceEvents` | `Service::update` as a sequence of steps; the calls of a handler are actions of their own | `engine/service.cpp` 342-398, 653-732, `engine/service.hpp` |
| `Mailboxes` | abstract: one first-in-first-out mailbox per event type | |
| `EntityThreads` | the threads of one entity: each command, each instruction that reaches another thread, sleeping, completion, erasure | `entity_thread_component.cpp`, `entity_system.cpp` 681-1232, 1511-1713, 1985-2206 |
| `EntityStates` | the component lists and delayed activation of the states of one entity | `entity_state.cpp`, `entity_system.cpp` 357-543, `component_storage.cpp` |
| `StateScopes` | abstract: a state as a scope with versions of its own, as the comments on the lists describe it | `entity_state.hpp` 46-72 |
| `ThreadScript` | the lines of a script and what their structure means | how `entity_thread_builder.cpp` 1186-2570 tells commands, directives and updates apart |
| `ThreadBuilder` | one line at a time: the instruction it becomes, the blocks it opens and closes, merged and included scripts | `entity_thread_builder.*`, `entity_thread_description.hpp`, `entity_instruction.hpp` |
| `StructuredThread` | abstract: a thread that walks the lines as their blocks say | |
| `ThreadSteps` | the steps of the threads that were built: control blocks, sub-threads, `multi`, cadences, updates kept back | `entity_system.cpp` 968-2963, `entity_thread.cpp`, `entity_thread_flags.hpp` |
| `Expressions` | how terms and operators become a tree, and what evaluating it uses | `meta/serial.cpp` 2524-3397, `meta/meta_value_operation.cpp` 341-490, `meta/meta_value_operator.cpp` |
| `EntityListeners` | counted references per event type, delivery while entities are erased, waking, captures, states | `entity_listener.cpp`, `entity_system.cpp` 473-722, 1232-1313, 2680-2713, `event_trigger_condition.hpp`, `entity_thread.cpp` |
| `InputDevices` | keyboard and gamepads: snapshots, what polling queues, plugging in and out | `app/input/` keyboard, mouse, gamepad, gamepad manager, input handler |
| `InputStates` | the player's buttons: binding, down, up, virtual buttons, `OnInput`, the lock | `engine/input/input_system.cpp`, `game/game.cpp` 93-138 |
| `TransformCache` | the cached matrices and flags over a tree that is rearranged, and the sweep that tells what moved | `transform.cpp`, `transform_component.hpp`, `relationship_component.cpp` 42-223, `world/world.cpp` 110-604 |
| `HistoryAndInputProofs` (of `HistoryLog` and of `InputStates`), `StatesAndScriptsProofs` (of `EntityStates` and of `ThreadBuilder`), `ScriptBlocksProofs` (of `ThreadBuilder` and `ThreadSteps`, on top of it), `EntityThreadsProofs`, `EntityListenersProofs`, `ServiceEventsProofs` (with those of `Timer`), `RelationshipProofs`, `TransformCacheProofs` | theorems | |
| `MC...` | the instances that TLC checks | |

Conventions. A variable or field keeps the name it has in the source where TLA+
allows it. A variable marked *history* is not in the code: it remembers what a
property needs (`active`, `disturbed`, `owed`, `risked`, `spliced`, `dropped`).
A bound of the model is a constant named `Max...`. Operators marked *Mutant* are
plausible bugs; they are not part of a specification and stand for the claim
that the property named in `PROJECT.json` would notice them.

What is abstracted. Components are values without structure. The vector of
threads of an entity is a set of records ordered by a `seat` that only grows:
`erase` keeps the order and nothing else looks at positions, except the
compaction of `std::remove_if`, which `StillSeen` reconstructs from the seats.
The name of a thread is its index in the descriptor; fibers have neither name
nor index, and no command reaches them. What instructions compute is left out;
any thread may execute any instruction. In `EntityStates` the value of a
component stands for what its descriptions do not set: assigning fields leaves
it, constructing gives `Given`; and a storage keeps of each component only what
was stored last, because `emplace_or_replace` lets the last one win.
`set_state_by_id` for a delayed first state is guarded by the code's assertion
(`entity_system.cpp:410`).

A script is a sequence of line kinds (`set`, `pause`, `if`, `while`, `when`,
`multi`, `do`, `end`, ...) without text; conditions are nondeterministic and the
commands that lines give are markers. An expression is a list of terms with an
operator in front of each (or none) and one operator per level of precedence;
its value is the set of groups that evaluation forms. In `EntityListeners` an
entity has a few threads with fixed events to wait for; a reference count is
taken modulo `Counts` where the code has 2^16, and storing an event in the
variable of its capture succeeds. In `InputDevices` a stick is at
rest, past its dead zone or past the threshold of its virtual button; a key or a button of a gamepad is
bound to one button of the player. In `TransformCache` a matrix is a half turn
or none and a place on a ring: these compose without commuting, as rotations and
translations do, and comparing them is exact.

## Runs

The times are those of two workers; the longest run takes about two minutes.

| Run | Question | Bounds and why they are enough |
|---|---|---|
| `history_log` | Does the log implement undo and redo stacks, and is an undone value kept until it is given up? | two values, four snapshots: an undo past a stored live value, a redo back to it, and a cursor that `truncate_back` leaves beyond the end |
| `relationship` | Do chains, parents and counts agree as long as no child left from the middle and nobody was destroyed whose parent survives, and are the steps those of a forest? | three entities below the root, the smallest family with a middle child. 28,423 states, one minute. The instance is too small for everything: with five entities below the root a spliced chain can lead the destruction of children to a child of another parent, which then counts one too many (`dropped` in the model); the proof found that, and `RelationshipProofs` covers every number of entities |
| `timer` | Is a timer never early, and exact when it kept its length? | two lengths, seven ticks: three runs of the shorter length with pauses |
| `service_events` | Does the pump keep, order and finally handle every event? | two types, four events, two timers (one due at once): an event for each of queue, timer, action and operation |
| `entity_threads` | One linked instance; sleepers wake; detached threads outlive; the vector is steady | two threads of a descriptor, one state, one timed resume: restart, unlink, sleep and stop of one thread by the other |
| `entity_threads_erase` | What does erasing remove? | three threads, one of them a possible parent: a parent and two children in any order of the vector |
| `entity_states` | Is an orderly sequence of states a sequence of scopes that keep what the lists say, but for the three named differences, and is nothing put away twice whatever the order? | three states, one delayed, three components that between them are in every list; components do not influence each other, so three cover the combinations |
| `thread_script` | Is every line built, do blocks span their lines, do updates end, does the running thread walk its lines as the structure says, and do the expressions whose groups close mean what their precedence says? | all scripts of up to four lines, of up to six lines over the seven kinds whose blocks nest, of up to five over those of cadences and `multi` (a `realtime` block inside of a `fixed` one), and eight longer ones (a block in a block in a block, sub-threads in both); `Inline` 6 and `Moves` 2, 3 and 5 make descriptions and threads move in scripts of that length (64 and the growth of the vector in the code); files of two lines; five terms with one operator of each precedence. 147,591 states, one minute |
| `entity_listeners` | Does an entity that something waits for stay listed, is each waiting thread asked in the end, are captures kept? | three entities, so that a delivery that passes over one has another behind it; two threads detached from their state, two event types, counts modulo 3 in place of 2^16, one entity and one thread that go. 171,172 states, two minutes. `CHECK_DEADLOCK FALSE`: the entities may all be done |
| `input` | Is anything held that nothing holds, and is every edge handed over? | a key, a gamepad with a button that the key is bound to as well, a D-pad direction and a stick with a virtual button; two listeners; the queues in the order in which `on_subscribe` registers them. 1,520,948 states, half a minute |
| `transforms` | Is any matrix that counts as valid out of date, is all that moved told, and do reparenting and moves arrive where they should? | a root and two entities (a chain of three), three places on the ring, two moves, symmetry of the entities. 386,581 states, two minutes |

One run is expected to find a violation: `relationship_splice`. Removing a
middle child leaves the next sibling's `prev` stale; a later removal makes the
chain pass an entity that left. It contradicts `relationship_component.hpp:64`
and is listed under "findings" in `PROJECT.json`.

### More disagreements with a configuration

Each of these configurations is kept beside the runs; `tlc -config <cfg>
<module>` finds the violation.

| Configuration, module | Violated | What the code says | What it does |
|---|---|---|---|
| `RelationshipDestroy.cfg`, `MCRelationship` | `EnumerationMeetsLiveChildren` | "Enumerates children, calling `fn` on each child." (`relationship_component.hpp:64`) | the destroy handler (`service.cpp:253`) never takes an entity out of its parent, which goes on enumerating it |
| `ServiceTimed.cfg`, `MCServiceEvents` | `TimedEventsAreKept` | a timed event is triggered "once the `delay` timer has been completed" (`timed_event.hpp:11`) | a handler that queues another timed event changes the vector under `std::remove_if` (`service.cpp:676`) |
| `EntityThreadsStay.cfg`, `MCEntityThreads` | `OnlyParentsStay` | "only erase this thread if there are no sub-threads claiming us as their parent" (`entity_thread_component.cpp:556`) | an unnamed fiber that completes is found to be its own child (line 563) and is never erased |
| `EntityStatesNamed.cfg`, `MCEntityStates` | `ActivatesTheNamed` | the activation command names a state (`entity_state.hpp:77`, `entity_system.cpp:528`) | the timer of a delayed state that was left activates whatever state the entity is in (`entity_system.cpp:713`) |
| `EntityStatesLists.cfg`, `MCEntityStates` | `ListsAreKept` | persistent components are "inherited from a previous state", added ones are "added or reconstructed" and "removed automatically" (`entity_state.hpp:48`, 52-56) | what `persist` describes without fields is constructed anew at every activation (`entity_state.cpp:369`): the entity writes to its `body`, enters `walking`, and `body` has its described value again |
| `ThreadMoved.cfg`, `MCThreadSteps` | `BlocksAreSized` | a control block gets its size once its lines are built (`entity_thread_builder.cpp:1920`) | the reference to the block dangles if the instructions moved meanwhile (1995, `entity_thread_builder.hpp:537`): `if`, `when`, `do`, `end`, `do`, `end`, `do` |
| `ThreadPrecedence.cfg`, `MCThreadSteps` | `PrecedenceHolds` | "For operation precedence rules, see" the C++ table (`meta_value_operator.hpp:73`) | `a + b * c` is `(a + b) * c`; `a * b - c - d < e` is `a * b - (c - d) < e`. `ValuesMeanWhatTheySay` states the same of the expressions whose groups close, of which the one test of it (`meta.cpp:2621`) is, and nothing of the others |

### Disagreements and oddities without one

* Timers. `Timer::elapsed` after a second pause counts from the last start only
  (`timer.hpp:173`), and `set_duration` leaves the end of a running timer where
  it was (`timer.cpp:257`). `NeverCompletesEarly` and `RemainingIsExact` are
  stated for timers to which that did not happen.
* Threads. The timer of a sleep ends a pause that came later
  (`entity_thread_flags.hpp:35`); an unlinked sleeper with `check_linked` is not
  paused at all (`entity_system.cpp:2180`); fibers started twice under one name
  are both linked (`entity_thread_flags.hpp:24`, not in the model, whose fibers
  are unnamed); the `*_threads` member functions return the size of the range
  where the header says how many threads were affected
  (`entity_thread_component.hpp:158`).
* States. `StateScopes` says what `entity_state.hpp:48-70` says of the lists. The
  code differs in three places, each of which `ImplementsScopes` excepts, for the
  one component, in the one step: what the old state added with fields is left
  behind instead of removed (`LeftBehind`, `entity_state.cpp:96`; by a policy, at
  `entity_state.hpp:84`, that is on and that nothing sets); it is assigned to
  instead of reconstructed if it is there already (`OnlyAssigned`, 335); and a
  persistent component described without fields is constructed anew instead of
  inherited (`ConstructedAnew`, 369). Each of
  the three is needed: without any one of them TLC finds the refinement violated.
  With the three lines of the model changed to do what the comments say it holds
  without exceptions, and with only the last one changed it goes on holding with
  them, so the property neither relies on the differences nor asks for them.
  A delayed activation never queues
  `OnStateActivate`, which `events.hpp:28` says "triggers after a state has
  finished activating".
* Scripts. Directives and expression statements do not flush the updates that
  are pending, so an update takes effect after them (`OvertakenByDirectives`;
  `entity_thread_description.hpp:23` says "in-order"). The block of a sub-thread
  without lines returns 0, "not understood", so that its `end` closes the block
  around it. Lines of an included file count as lines of the script. What an
  unlinked thread commands itself (skip, pause) is looked up among the linked
  ones: both parts of its `if` run. `fixed` inside of `multi` or `realtime` runs
  outside of fixed updates; `realtime` inside of `fixed` begins in the fixed
  update that reaches it, because it is run like a `multi` block
  (`entity_system.cpp:2345`). `progress_threads` assigns `next_instruction` after
  a completion (`entity_system.cpp:1572`), against the comments at 1701, 2940.
* Expressions. `a == -1` evaluates to `a`, and `!!a` to nothing.
* Listeners. The range-for of `on_event` erases while it iterates
  (`entity_listener.cpp:166`): the next entity is passed over and one is read
  twice; waiting threads are asked at the next event of the type
  (`WaitersAreAsked`). Waking takes one reference where waiting gave one for each
  mention of the type: counts leak, and after 2^16 of them the count of a waiter
  can be 0. A change of state takes one from every listener
  (`entity_system.cpp:613`), also from those of detached threads, against
  `entity_thread_flags.hpp:9` (`DetachedAreListed`, defined and not checked).
* Input. A gamepad that is unplugged while a button is held gives no release
  (`OnlyOrphansStick` leaves that out, nothing else); plugged in again within a
  frame it ends unbound, because the queue of connections is published first; a
  tap shorter than a frame is a release without a press; two sources of one
  button share its state: the release of one ends the hold.
* Transforms. Reparenting below an entity without a transform, or of one that
  never had a parent, moves it in the world (comment in
  `relationship_component.cpp:123`); children of an entity that is moved get no
  `OnTransformChanged` (`transform_component.hpp:28`). Views that are held while
  the tree changes are excluded, as `transform.hpp:22` says that they have side
  effects.

## Fairness

* `service_events`: `FairSpec` assumes `WF(UpdateStep)`: the application calls
  `update` again and again and `update` is a finite sequence of steps
  (`app/application.cpp`). It assumes `SF(Tick)` because the clock does not
  stop; weak fairness would do on a clock that ticks in every phase, but the
  model lets it advance only where the code reads it. Calls of handlers are not
  fair: nobody has to queue anything.
* `thread_script`: weak fairness of the steps of the running thread and of the
  beginning of the next update, which `progress_threads` calls once per frame.
  What other code does to the thread is not fair.
* `entity_listeners`: weak fairness of the delivery that has begun, which is a
  loop; strong fairness of an event of each type. The latter is about the
  environment: a thread that waits for an event that never comes again waits.

## Proofs

| Theorem | Says | Argument |
|---|---|---|
| `HistoryAndInputProofs!LogTypeCorrect`, `UndoneValueIsKept` | types; the value the first undo took away stays the newest snapshot until a write gives it up | `UndoneValueKept` needs that the cursor lies within the log while a value is undone; one lemma per operation of the log says what it does to length and prefix |
| `HistoryAndInputProofs!RedoRestoresUndone` | a redo that reaches the end of the log brings back what the first undo took away | a corollary of `UndoneValueKept`: the end of the log is where that value is |
| `HistoryAndInputProofs!RefinesUndoStacks` | `LogSpec => ImplementsUndoStacks`, for every set of values and every size of the log | both stacks are pieces of the sequence of snapshots (`Within`, `Beyond`): each operation of the log appends to a piece, shortens one or moves the border between them, which one lemma per form says |
| `ServiceEventsProofs!TimerTypeCorrect`, `NotEarly`, `RemainingExact` | for every set of lengths and any sequence of calls | the inductive invariant relates the end point to what ran before: end − now + ran = length, for running and for paused timers |
| `StatesAndScriptsProofs!TypeCorrect`, `NothingPutAwayTwice` | for every set of states and components and all lists | `TypeOK` and `PutAwayOnce` are inductive together: decay leaves nothing frozen and stores only what the state stores, activation empties the storage and freezes only what the state freezes |
| `StatesAndScriptsProofs!RefinesScopes` | `Spec => ImplementsScopes`: every change of state, activation and write is one of the scopes', for all lists of all states | what the comments on the lists say (`entity_state.hpp:48-70`), component by component: what decay leaves of one is what leaving the scope leaves, what activation makes of it is what entering makes, unless it is one of the components that `Excepted` names in that step. It needs `PutAwayOnce`: nothing is frozen but what the active state freezes, and its storage is empty |
| `StatesAndScriptsProofs!LinesBuilt` | `StepsSpec => []EveryLineIsBuilt`: a command or update of a clean script of any length and nesting is in one instruction of the thread it stands in, and in none of any other | the level of open blocks finds where a block ends (`Balanced`: it returns to where it was). Strengthened by three facts about every moment of the building: the builders are the blocks around the cursor, innermost last, and each is in the thread of the lines it reads (`Stacked`); every thread was opened by a line of its own, and has the lines whose `ThreadOf` that is (`Owned`); a line behind the cursor is in one instruction or kept back by one builder of its thread, a line ahead in none (`Placed`). A builder that returns counts the lines of its block, which is why what follows is read from behind its `end` |
| `StatesAndScriptsProofs!OrderKept` | `StepsSpec => []OvertakenByDirectives`: in a clean script of any length and nesting, the only line whose instruction comes behind that of a later line is an update that no command and no end of its block came behind before that line | what a builder keeps back are updates of its own block, and since the first of them it has read no command of that block and no `else` (`Waiting`); writing them where they are written breaks no order that they were to keep (`Ordered`). An instruction stands in the thread of its lines, or is the prologue of that thread (`Threaded`), so that a spawn, which is written at the `end` of its sub-thread with the number of the opening line, passes nothing: between the two lines no instruction of the parent exists |
| `ScriptBlocksProofs!BlocksSpan` | `StepsSpec => []BlocksSpanTheirLines`: in a clean script of any length and nesting, while no reference to a control block dangles (`Unmoved`), each block covers exactly the instructions of its lines, and a `while` goes back to its own condition | on top of the invariant of the two theorems above. While the builders work, the size of a control block is either right and stays right, because no line that may still be written is one of the block's (`Fresh`, `Closed`), or still to be filled in by its builder, and then everything behind it in its thread was written since the block opened (`Held`). That a builder ends where its block does, that what it kept back is written before it measures, and that the spawn of a sub-thread counts as a line of the block around it, is what the steps need. The reference of a builder dangles when the instructions outgrew the storage inside of the description, or when the description, with the instructions in it, was moved to make room for a sub-thread of the block; `Unmoved`, said of the whole script at its end, rules both out for every moment before (`StayBack`, `Unmoves`) |
| `ScriptBlocksProofs!MultiIsOne` | `StepsSpec => []MultiIsOneUpdate`: while a thread walks a clean script of any length and nesting whose references did not dangle, a block that is one update is not interrupted by another one, whatever the blocks inside of it are and however often they repeat | what the code keeps of a block while it runs is a loop of indices, what the script says is a nesting of lines. `RunInv` relates them: the loops are nested control blocks before the next instruction, each covering exactly its lines (from `BlocksSpan`), and whenever the thread is in a block that is one update with no cadence of another kind between, that block's loop is among them and the update is still the one that began it. It needs that what a finished instruction did is what its line says (`TellInv`), which the builder's invariant gives |
| `EntityThreadsProofs!TypeCorrect`, `OneLinkedInstance` | types; for any number of threads, names and states: never two linked threads of one name | needs that seats are distinct and below the next one. All operations but spawning and linking leave threads *derived* from the old ones (same seat, same name, linked only if it was); spawning counts seats upward, linking looks for another first |
| `EntityThreadsProofs!SteadyVector`, `DetachedStay` | no thread joins or leaves the vector while it is iterated; a detached thread leaves only when it is complete | both follow the set of seats that are taken: a change of a thread keeps its seat, so an instruction leaves the taken seats as they are, and a command removes only what `Stopped` and the erasure name |
| `EntityThreadsProofs!ParentsStay`, `CompletedLeave` | what an erasure keeps and what it takes, for any family of threads | only `EraseCompleted` clears `updated`, and what it leaves is a fixed point of `Keeps`; a thread that stays is seen by the predicate wherever `remove_if` has moved it |
| `EntityThreadsProofs!SleepersAreWoken` | `SleepersWake` for both kinds of `check_linked` and any number of timers and sleepers | what `Found` returns is not inductive: it is a timer of the sleeper's name that asks for the linked thread, or a sleeper that is the first of its name. The first stays the first because no thread is ever placed before another; the linked one is the only one by `LinkedOnce`; one timer finds one thread, so a timer that fires for another leaves the sleeper's own |
| `EntityListenersProofs!TypeCorrect`, `WaitersListed` | for any entities, threads, scripts, rules and size of the counts: a list holds an entity once, a delivery stays inside of what was there, and nobody who listens is dropped | what the property says of a listed entity is inductive once an unlisted one counts as holding 0 (`HeldEnough`), for the destroyed ones too. What is owed is the cardinality of the pairs of a waiting thread and a place in its condition: a thread that begins to wait adds as many as it takes references (`YieldWaits`), each thread that is woken had at least the one that is given back (`WokenCount`), and a sweep takes one where a rule or a stopped thread leaves one over, or marks the entry `worn` |
| `EntityListenersProofs!CapturesKept` | no `EventCapture` that a woken thread executes next takes the event that woke it | that is not inductive: of *all* captures that follow without a gap, none takes it (`PassedOver`). Passing the series ends behind its last, because the captures are an interval as long as their number, and a script does not begin with one (`NoCaptureBehind`) |
| `HistoryAndInputProofs!TypeCorrect`, `NothingSticks` | for any keys, gamepads, profiles and order of the queues: between updates every held button is held by something the last poll saw, or was left by an unplugged gamepad | during an update a button may be held by nothing, because its release is still queued. The inductive invariant gives every held button a *reason*: a key or gamepad of the snapshot, or a release that a queue still holds. It needs that releases since the snapshot are queued, that the unplugged are about to be unbound, and that the queues of presses name only what the snapshot shows |
| `HistoryAndInputProofs!EdgesAreTold` | for any finite set of keys and gamepads: a button with one source that is newly held is among the pressed, one no longer held among the released, none in both | the state alone is not inductive: a second event for a button that is held takes it from the pressed. With one source there is one event that tells the button to be down (`OneSource`), and while it is newly held that event is not queued any more |
| `ServiceEventsProofs!TypeCorrect`, `TakeTurns` | the pump for any types, timers and numbers of events | the dispatcher in use follows from the phase; the queues that were published stay empty until the other dispatcher had its turn; what a loop counts down is there |
| `ServiceEventsProofs!RefinesMailboxes` | `Spec => ImplementsMailboxes`, the refinement, not only on small instances | with the invariant above: queueing appends to the mailbox because the dispatcher in use is the later part of it, dispatching takes from the earlier part, and a change of turns happens only when one part is empty |
| `ServiceEventsProofs!OwedHandled` | an update handles what it owes | every owed event that was not handled is *ahead*: in a place that this update will get to, phase by phase |
| `ServiceEventsProofs!NoneIsLost` | nothing is lost, nothing waits that was handled | an event is in one place at most; of the timed events those that `remove_if` passed are kept, handled or at risk; of the operations exactly those were handled that the loop passed |
| `RelationshipProofs!TypeCorrect`, `ChildrenAreCounted` | types; for any finite set of entities, and however chains were spliced, a parent counts exactly the entities that name it until one of its children is destroyed that it survives | needs no chain to be right: every operation changes `parent` and `child_count` together (`RemovedAs`, `LinkedAs`). That the count does not wrap needs the weaker half, *at least as many*, which survives everything |
| `RelationshipProofs!TreeIsKept`, `ChainsAreSound`, `ParentsSurvive` | while no chain was spliced the registry is explained by one list of children per entity; while it is intact the chains are those lists and nothing faults; no survivor has a destroyed parent | the lists are the strengthening: they keep a destroyed child where its parent still has it, so that `first`, `prev` and `next` of the others stay explained (`Tree`). `set_parent` takes a child from the end of a list and appends it to another; giving the children of an entity away is that many times over. The new home must not be one of the children, which is why `Acyclic` is part of the invariant |
| `RelationshipProofs!ImplementsOrderedForest` | `Spec => IntactStepsAreForestSteps`, for any finite set of entities | the lists before and after each step are the forest's; that a destroyed entity that nobody survives had no parent makes `Dissolve` go to the root |
| `TransformCacheProofs!TypeCorrect`, `ValidMatricesAreCurrent` | types; for any entities and trees of any depth: a matrix that counts as valid is the product of all above it | the inductive invariant `Sound` adds what the operations look at: an entity with a valid world matrix has a parent with one and was in a relationship, a valid inverse goes with a valid matrix, and the tree has a bounded depth. Then below an invalid entity all are invalid, which is why `invalidate_world` may turn back there; what it leaves alone is not below what moved (`StaleSound`), and what is recalculated is closed upwards (`UpdatedBetter`) |
| `TransformCacheProofs!MovedAreMarked` | what moved is marked for the next sweep | every operation only adds components and event flags, and flags what it gives another local transform (`Grows`), which composes |
| `TransformCacheProofs!AttachedStay`, `MovesDoArrive` | `Spec => AttachingKeepsTheWorld`, `Spec => MovesArrive` | each operation ends as one that gives a single entity another parent or local transform (`Moved`); what is not below it stays, it goes where the product with its parent says (`MovedWorld`), and a matrix undoes its inverse (`ProductBack`, from division with remainder by any ring) |

The chains of siblings, lineages and subtrees are functions defined by
recursion, on as many places as there are entities, and matrices are functions
defined by recursion along the tree. `RelationshipProofs` and
`TransformCacheProofs` begin with induction over a measure and the existence of
such functions, both from the well-foundedness of < (`Least`, `Steps`,
`Measured`, `Recursion`); `StatesAndScriptsProofs` finds the end of a block the
same way. Induction rules that take an operator as a parameter are beyond the
provers that are used here.

Assumptions are the named `ASSUME`s of the modules: sets of values are sets that
do not contain the markers `None`, `Null` or `Absent`, bounds are naturals, the
lists of a state are sets of components, keys, gamepads, threads
and the entities that listen are finitely many, the order of event types names
each once; and a script has an `EventCapture` only right behind a `Yield` or
another capture (`CodeAssumption`), because the builder refuses any other
(`entity_thread_builder.cpp` 905-954, 1459-1510). TLC evaluates them in every run. The bounds `Max...` are constants like
the others: the theorems hold for every value of them.

Model-checked only: the refinement `FollowsItsLines` and `CadenceIsHonoured`
of `ThreadSteps`, the properties of `Expressions`, and
liveness, `WaitersAreAsked` among it, which is out of the prover's reach.
Besides its exceptions (see the oddities of states above)
`ImplementsScopes` is stated until a state is left before it was activated, or
activated twice (`disturbed`): what the entity should have then is stated
nowhere, and the code does surprising things (a second local copy loses the
first original).

## Not modelled

See the table above and "components" in `PROJECT.json`. Within the modelled
components:

* threads: variables; coroutine fibers that wait; the immediate step of
  `OnThreadEventCaptured`; events nested in the delivery of another event; an
  entity that is destroyed while commands for it are queued;
* scripts: the JSON form of a thread; conditions that begin with a member of an
  event, which are read by other code (`process_unified_condition_block`);
* expressions: casts, strings, members and calls, the retry of an operation that
  fails, two operators in front of one term, the comma;
* input: several players, analog values, hats made of buttons, motion and wheel
  of the mouse, the loading of profiles, the difference between the instance and
  the index of an SDL device;
* transforms: scale and shear, interpolation, entities that are destroyed, a
  parent that is a descendant (`set_parent` accepts it and makes a cycle).

## Plan

1. `EntityContexts`: the scopes of variables that states and threads share
   (`entity_system.cpp` 1313-1477).
2. `StatesAndThreads`: composes `EntityStates` and `EntityThreads` with the
   order of the service's queues: a state that is left while its spawn commands
   are queued.
3. `ResourceCache`: expiry of shared resources and the callbacks that wait.
4. Proofs: `CadenceIsHonoured` and `FollowsItsLines` of `ThreadSteps`, from the
   sizes of the blocks that `BlocksSpan` states.
