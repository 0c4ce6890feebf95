---------------------------- MODULE ThreadSteps ----------------------------
(***************************************************************************)
(* How a thread runs what its builder made: EntitySystem::progress_threads *)
(* and step_thread (entity_system.cpp), for one thread of the descriptor.  *)
(*                                                                         *)
(* An update is made of the steps of one call of progress_threads: one, or *)
(* all those of a multi block, or all of a realtime thread.  Commands of   *)
(* others come between updates.  Commands of the thread to itself          *)
(* (Pause, Skip, Rewind) are looked up by its name or index, among the     *)
(* linked threads only.                                                    *)
(***************************************************************************)
EXTENDS ThreadBuilder

CONSTANT Nowhere

VARIABLES
  run,     \* the thread that runs, Nowhere while the script is being built
  next,    \* EntityThread::next_instruction
  flags,   \* EntityThreadFlags: paused, yielding, complete, linked
  cadence, \* EntityThreadFlags::cadence
  update,  \* the cadence the thread had when this update reached it, or Nowhere
  loops    \* the multi blocks being executed, the innermost last

running == <<run, next, flags, cadence, update, loops>>
stepsVars == <<building, running>>

NewFlags == [paused |-> FALSE, yielding |-> FALSE, complete |-> FALSE, linked |-> TRUE]

StepsInit ==
  /\ BuildInit
  /\ run = Nowhere
  /\ next = 1
  /\ flags = NewFlags
  /\ cadence = "update"
  /\ update = Nowhere
  /\ loops = <<>>

Suspended(f) == f.paused \/ f.yielding \/ f.complete
Instructions == code[run]
CurrentInstruction == Instructions[next]
InUpdate == update # Nowhere
Between == run # Nowhere /\ ~InUpdate

(* A thread of the descriptor is started. *)
StartThread ==
  /\ Built /\ run = Nowhere
  /\ run' \in DOMAIN code
  /\ cadence' = threads[run'].cadence
  /\ UNCHANGED <<building, next, flags, update, loops>>

Building == Build /\ UNCHANGED running

(* progress_threads, on_update for the cadences Update and Realtime,       *)
(* on_fixed_update for Fixed.                                              *)
Begin ==
  /\ Between /\ ~Suspended(flags)
  /\ update' = cadence
  /\ UNCHANGED <<building, run, next, flags, cadence, loops>>

(* Others resume the thread, wake it, or unlink it. *)
Resume ==
  /\ Between /\ flags.paused
  /\ flags' = [flags EXCEPT !.paused = FALSE]
  /\ UNCHANGED <<building, run, next, cadence, update, loops>>

(* unyield: the instruction that waited is passed. *)
Wake ==
  /\ Between /\ flags.yielding
  /\ flags' = [flags EXCEPT !.yielding = FALSE]
  /\ next' = next + 1
  /\ UNCHANGED <<building, run, cadence, update, loops>>

Unlink ==
  /\ Between /\ flags.linked
  /\ flags' = [flags EXCEPT !.linked = FALSE]
  /\ UNCHANGED <<building, run, next, cadence, update, loops>>
-----------------------------------------------------------------------------
(* step_thread.  An instruction says where its execution leaves the thread *)
(* (`from`, which commands to itself change), how far it strides, and what *)
(* it makes of the flags and of the cadence.  A loop is a multi block that *)
(* step_thread executes by recursion: it stands at the block, ends at its  *)
(* target, and a realtime block sets the cadence when it ends.             *)

Outcome(from, stride, f, c) == [from |-> from, stride |-> stride, flags |-> f, cadence |-> c]
Plainly == Outcome(next, 1, flags, cadence)

Inside(i) == i.op = "multi" \/ (i.op = "cadence" /\ i.cadence = "realtime" /\ i.size > 0)

Executed(i) ==
  CASE i.op \in {"act", "set", "spawn"} -> {Plainly}
    [] i.op = "pause" -> {[Plainly EXCEPT !.flags.paused = flags.linked]}
    [] i.op = "yield" -> {Plainly, [Plainly EXCEPT !.stride = 0, !.flags.yielding = TRUE]}
    [] i.op = "if" -> {Plainly, [Plainly EXCEPT !.stride = 1 + i.size]}
    [] i.op = "skip" -> {[Plainly EXCEPT !.from = IF flags.linked THEN next + i.size ELSE next]}
    [] i.op = "rewind" -> {[Plainly EXCEPT !.stride = 0, !.from = IF flags.linked THEN next - i.size ELSE next]}
    [] i.op = "multi" -> {Plainly}
    [] i.op = "cadence" -> {[Plainly EXCEPT !.cadence = i.cadence]}

(* Mutant: an instruction of a multi block goes on from wherever it is. *)
GoesOnAlways(loop, active, to, f) == to < loop.target /\ ~Suspended(f)

(* A multi block goes on until its end, unless the thread is suspended or  *)
(* went back.                                                              *)
GoesOn(loop, active, to, f) == to < loop.target /\ ~Suspended(f) /\ active <= to

(* The loops that go on: those inside of one that does ended before. *)
Active(l) == IF l = Len(loops) THEN next ELSE loops[l + 1].at
Kept(to, f) ==
  LET going == {l \in DOMAIN loops : GoesOn(loops[l], Active(l), to, f)}
  IN  IF going = {} THEN 0 ELSE CHOOSE l \in going : \A m \in going : m <= l

(* progress_threads steps a realtime thread again, unless it stood still,  *)
(* is suspended, went back or changed its cadence.                         *)
NextOfMany(first, to, f) ==
  /\ update = "realtime"
  /\ to # first
  /\ ~Suspended(f)
  /\ first \in DOMAIN Instructions =>
       /\ Instructions[first].op # "rewind"
       /\ ~(Instructions[first].op = "cadence" /\ Instructions[first].cadence # update)

(* The end of a step, and of the loops around it that do not go on.  A     *)
(* step that would leave the thread completes it where it stands; the      *)
(* outermost hands the index it would have moved to progress_threads.      *)
Settle(o) ==
  LET to == o.from + o.stride
      ends == ~Suspended(o.flags) /\ to > Len(Instructions)
      f == IF ends THEN [o.flags EXCEPT !.complete = TRUE] ELSE o.flags
      rest == IF ends /\ loops # <<>> THEN o.from ELSE to
      kept == Kept(rest, f)
      ended == {loops[l] : l \in kept + 1 .. Len(loops)}
      first == IF loops = <<>> THEN next ELSE loops[1].at
  IN  /\ next' = rest
      /\ flags' = f
      /\ cadence' = IF \E l \in ended : l.realtime THEN "realtime" ELSE o.cadence
      /\ loops' = SubSeq(loops, 1, kept)
      /\ update' = IF kept > 0 \/ NextOfMany(first, rest, f) THEN update ELSE Nowhere

(* The index was beyond the instructions: the thread is marked, and points *)
(* at the last one.                                                        *)
StepBeyond ==
  /\ InUpdate /\ next > Len(Instructions)
  /\ flags' = [flags EXCEPT !.complete = TRUE]
  /\ next' = IF Instructions = <<>> THEN next ELSE Len(Instructions)
  /\ update' = Nowhere
  /\ loops' = <<>>
  /\ UNCHANGED <<building, run, cadence>>

(* Mutant: the update ends one instruction short of the block. *)
StepIntoShort ==
  /\ InUpdate /\ next <= Len(Instructions) /\ Inside(CurrentInstruction) /\ CurrentInstruction.size > 0
  /\ loops' = Append(loops, [at |-> next, target |-> next + CurrentInstruction.size, realtime |-> CurrentInstruction.op = "cadence"])
  /\ next' = next + 1
  /\ UNCHANGED <<building, run, flags, cadence, update>>

(* A multi block, or a realtime one: its first instruction is next.        *)
StepInto ==
  /\ InUpdate /\ next <= Len(Instructions) /\ Inside(CurrentInstruction) /\ CurrentInstruction.size > 0
  /\ loops' = Append(loops, [at |-> next, target |-> next + 1 + CurrentInstruction.size, realtime |-> CurrentInstruction.op = "cadence"])
  /\ next' = next + 1
  /\ UNCHANGED <<building, run, flags, cadence, update>>

Step ==
  /\ InUpdate /\ next <= Len(Instructions) /\ ~(Inside(CurrentInstruction) /\ CurrentInstruction.size > 0)
  /\ \E o \in Executed(CurrentInstruction) : Settle(o)
  /\ UNCHANGED <<building, run>>

StepsNext ==
  \/ Building \/ StartThread
  \/ Begin \/ Resume \/ Wake \/ Unlink
  \/ StepBeyond \/ StepInto \/ Step

(* A thread is stepped to the end of its update, by one thread of the      *)
(* program; updates keep coming.                                           *)
Fairness ==
  /\ WF_stepsVars(StepBeyond \/ StepInto \/ Step)
  /\ WF_stepsVars(Begin)

StepsSpec == StepsInit /\ [][StepsNext]_stepsVars /\ Fairness
-----------------------------------------------------------------------------
(* What the steps promise.                                                 *)

StepsTypeOK ==
  /\ \A t \in DOMAIN code : \A k \in DOMAIN code[t] :
       /\ code[t][k].op \in Ops
       /\ code[t][k].lines \subseteq Nat \ {0}
       /\ code[t][k].size \in Nat
  /\ run \in DOMAIN code \cup {Nowhere}
  /\ run # Nowhere => next \in 1 .. Len(Instructions) + 1
  /\ flags \in [DOMAIN NewFlags -> BOOLEAN]
  /\ cadence \in Cadences \cup {"update"}
  /\ update \in Cadences \cup {"update", Nowhere}
  /\ \A l \in DOMAIN loops : loops[l].at < loops[l].target

(* The script is one the builder reads as it is meant, nobody has unlinked *)
(* the thread.                                                             *)
Faithful == run # Nowhere /\ Clean(script) /\ Unmoved /\ flags.linked
LineOf(i) == CHOOSE l \in i.lines : \A m \in i.lines : l <= m

(* The detailed thread implements the structured one: an instruction at a  *)
(* time, it walks its lines.                                               *)
Here ==
  IF ~(Faithful /\ InOrder(script)) THEN Nowhere
  ELSE IF flags.complete \/ next > Len(Instructions) THEN Finished(script) ELSE LineOf(CurrentInstruction)
Owner == IF Here = Nowhere THEN 0 ELSE threads[run].owner
Structured == INSTANCE StructuredThread WITH text <- script, owner <- Owner, at <- Here
FollowsItsLines == Structured!Spec

(* A multi block without loops and pauses is one update: between updates   *)
(* no thread is in the middle of it.                                       *)
Straight(o) == \A i \in o .. EndOf(script, o) : script[i] \notin {"while", "pause"}
MultiIsOneUpdate ==
  Between /\ Faithful /\ ~flags.complete =>
    \A k \in DOMAIN Instructions :
      Inside(Instructions[k]) /\ Instructions[k].size > 0 /\ Straight(LineOf(Instructions[k])) =>
        next \notin Covered(run, k)

(* What stands in a fixed block runs in fixed updates, unless the fixed    *)
(* block is itself inside of a block that is one update.  Everything else  *)
(* runs in the others; only a realtime block, which begins in the update   *)
(* that reaches it, may run in a fixed one, if a fixed block of its thread *)
(* is around it, or its thread began in one.                               *)
CadenceOf(i) == Innermost(script, i, Cadences)
IsFixed(i) == CadenceOf(i) # 0 /\ script[CadenceOf(i)] = "fixed"
Unbroken(o) == \A p \in Around(script, o) :
                 script[p] \in {"multi", "realtime"} => ThreadOf(script, p) # ThreadOf(script, o)
FixedAround(i) ==
  \/ \E o \in Around(script, i) : script[o] = "fixed" /\ ThreadOf(script, o) = ThreadOf(script, i)
  \/ ThreadOf(script, i) # 0 /\ IsFixed(ThreadOf(script, i))
CadenceIsHonoured ==
  InUpdate /\ Faithful /\ next <= Len(Instructions) /\ CurrentInstruction.op # "cadence" =>
    \A i \in CurrentInstruction.lines :
      /\ IsFixed(i) /\ Unbroken(CadenceOf(i)) => update = "fixed"
      /\ update = "fixed" => FixedAround(i)

(* Continuous loops do not stall the program: every update of a thread     *)
(* that nobody unlinked ends.                                              *)
UpdatesEnd == []<>(~InUpdate \/ ~flags.linked)
=============================================================================
