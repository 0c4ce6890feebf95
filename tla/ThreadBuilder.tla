---------------------------- MODULE ThreadBuilder ----------------------------
(***************************************************************************)
(* EntityThreadBuilder: how the lines of a script become the instructions  *)
(* of one or more threads (entity_thread_builder.cpp).                     *)
(*                                                                         *)
(* A block is built by a builder of its own, which reads the same lines    *)
(* from behind the line that opens it until a directive ends it and then   *)
(* says how many lines it processed; the builder of the enclosing block    *)
(* goes on behind these.  The nested calls are the stack `builders`.       *)
(* What a command does, conditions and variables are left out.             *)
(***************************************************************************)
EXTENDS ThreadScript

CONSTANTS
  Scripts,   \* the scripts that may be built
  Inline,    \* instructions a description holds before they move (64 in the code)
  Moves,     \* the counts of threads at which the descriptor moves its threads
  FileLines  \* lines of a file that is included

ASSUME ScriptsAssumption == Scripts \subseteq Seq(Kinds)
ASSUME SizesAssumption == Inline \in Nat /\ Moves \subseteq Nat /\ FileLines \in Nat \ {0}

VARIABLES
  script,    \* the lines
  code,      \* EntityThreadDescription::instructions, of every thread
  threads,   \* of every thread: the line that opened it, or 0, and its first cadence
  builders   \* the active builders, the innermost last

building == <<script, code, threads, builders>>

(* An instruction, the lines it stands for, and the size of its block or   *)
(* of its stride.                                                          *)
Ops == {"act", "set", "pause", "yield", "spawn", "if", "skip", "rewind", "multi", "cadence"}
Instruction(op, lines, size, cadence) == [op |-> op, lines |-> lines, size |-> size, cadence |-> cadence]
Bare(op, line) == Instruction(op, {line}, 0, "update")

(* A builder: what it builds, in which thread, the first line it reads and *)
(* how many it has processed; the control block it has to fill in, the     *)
(* instructions and threads there were when it took the reference to it;   *)
(* the updates it keeps back; and the lines of the first part of an if.    *)
Builder(kind, thread, begin, place, count, known, cadence, first) ==
  [kind |-> kind, thread |-> thread, begin |-> begin, done |-> 0, place |-> place, count |-> count,
   known |-> known, pending |-> {}, cadence |-> cadence, first |-> first]

BuildInit ==
  /\ script \in Scripts
  /\ code = <<<<>>>>
  /\ threads = <<[owner |-> 0, cadence |-> "update"]>>
  /\ builders = <<Builder("thread", 1, 1, 0, 0, 1, "update", 0)>>

Depth == Len(builders)
Top == builders[Depth]
Cursor == Top.begin + Top.done
Reading == builders # <<>> /\ Cursor \in Lines(script)
Line == script[Cursor]

(* flush_update_instruction *)
Flushed(b) == IF b.pending = {} THEN <<>> ELSE <<Instruction("set", b.pending, 0, "update")>>
Flush(b) == [b EXCEPT !.pending = {}]

(* Mutant: a command flushes the updates before it too late. *)
FlushedLate(thread, b, kind, instructions) ==
  [code EXCEPT ![thread] = @ \o instructions \o (IF kind \in Commands THEN Flushed(b) ELSE <<>>)]

(* on_instruction_change and emit: a command flushes what the builder kept *)
(* back, a directive does not.                                             *)
Emit(thread, b, kind, instructions) ==
  [code EXCEPT ![thread] = @ \o (IF kind \in Commands THEN Flushed(b) ELSE <<>>) \o instructions]
Emitting(b, kind) == IF kind \in Commands THEN Flush(b) ELSE b

(* Mutant: a line more. *)
PassedOneMore(b, lines) == [b EXCEPT !.done = @ + lines + 1]
Passed(b, lines) == [b EXCEPT !.done = @ + lines]
Onward(b) == [builders EXCEPT ![Depth] = b]
-----------------------------------------------------------------------------
(* Lines that open no block. *)

Blank ==
  /\ Reading
  /\ Line = "blank" \/ (Line = "else" /\ Top.kind \notin {"if", "else"})
  /\ builders' = Onward(Passed(Top, 1))
  /\ UNCHANGED <<script, code, threads>>

Update ==
  /\ Reading /\ Line = "set"
  /\ builders' = Onward([Passed(Top, 1) EXCEPT !.pending = @ \cup {Cursor}])
  /\ UNCHANGED <<script, code, threads>>

Simple ==
  /\ Reading /\ Line \in {"do", "pause"}
  /\ code' = Emit(Top.thread, Top, Line, <<Bare(IF Line = "do" THEN "act" ELSE "pause", Cursor)>>)
  /\ builders' = Onward(Passed(Emitting(Top, Line), 1))
  /\ UNCHANGED <<script, threads>>

(* from_file: the lines of the file count as lines of this script. *)
Include ==
  /\ Reading /\ Line = "include"
  /\ code' = Emit(Top.thread, Top, Line, [i \in 1 .. FileLines |-> Bare("act", Cursor)])
  /\ builders' = Onward(Passed(Emitting(Top, Line), FileLines))
  /\ UNCHANGED <<script, threads>>
-----------------------------------------------------------------------------
(* Blocks within a thread.  The builder of the block keeps a reference to  *)
(* the control block, to write its size when the block has ended.          *)

Control(kind, line) ==
  CASE kind \in {"if", "while"} -> Bare("if", line)
    [] kind = "multi" -> Bare("multi", line)
    [] kind \in Cadences -> Instruction("cadence", {line}, 0, kind)

Open ==
  /\ Reading /\ Line \in {"if", "while", "multi"} \cup Cadences
  /\ LET now == Emit(Top.thread, Top, Line, <<Control(Line, Cursor)>>)
         size == Len(now[Top.thread])
         cadence == IF Line \in Cadences THEN Line ELSE Top.cadence
     IN  /\ code' = now
         /\ builders' = Append(Onward(Emitting(Top, Line)),
              Builder(Line, Top.thread, Cursor + 1, size, size, Len(code), cadence, 0))
  /\ UNCHANGED <<script, threads>>

(* The reference dangles once the instructions left the description for    *)
(* the heap, or the description, with the instructions in it, was moved.   *)
(* What is written there is lost at best.                                  *)
Moved(b, now) ==
  /\ b.count <= Inline
  /\ \/ Len(now[b.thread]) > Inline
     \/ \E m \in Moves : b.known < m /\ m <= Len(now)

(* Mutant: one instruction too few. *)
ResizedShort(now, b, size) ==
  IF Moved(b, now) THEN now ELSE [now EXCEPT ![b.thread][b.place].size = size - 1]
Resized(now, b, size) ==
  IF Moved(b, now) THEN now ELSE [now EXCEPT ![b.thread][b.place].size = size]

(* The builder has read all it should: to the end of its block, or of the  *)
(* script.  `process` flushes.                                             *)
Ended ==
  /\ builders # <<>>
  /\ Cursor \in Lines(script) => Line \in (IF Top.kind = "else" THEN {"end", "else"} ELSE {"end"})
Final == [code EXCEPT ![Top.thread] = @ \o Flushed(Top)]
Size(now, b) == Len(now[b.thread]) - b.count
Return(lines) == [SubSeq(builders, 1, Depth - 1) EXCEPT ![Depth - 1] = Passed(@, lines)]

(* generate_if_block: at an else, a Skip for those who come from above,    *)
(* which the first part includes; the same builder reads the second part.  *)
Else ==
  /\ Reading /\ Line = "else" /\ Top.kind = "if"
  /\ LET sized == Resized(Final, Top, Size(Final, Top))
         now == [sized EXCEPT ![Top.thread] = Append(@, Bare("skip", Cursor))]
         at == Len(now[Top.thread])
     IN  /\ code' = IF Moved(Top, now) THEN now ELSE [now EXCEPT ![Top.thread][Top.place].size = @ + 1]
         /\ builders' = [builders EXCEPT ![Depth] =
              Builder("else", Top.thread, Top.begin + Top.done + 1, at, at, Len(code), Top.cadence, Top.done + 2)]
  /\ UNCHANGED <<script, threads>>

CloseIf ==
  /\ Ended /\ Top.kind \in {"if", "else"}
  /\ code' = Resized(Final, Top, Size(Final, Top))
  /\ builders' = Return(IF Top.kind = "if" THEN Top.done + 2 ELSE Top.first + Top.done + 1)
  /\ UNCHANGED <<script, threads>>

(* Mutant: the condition is not checked again. *)
CloseWhileShort ==
  /\ Ended /\ Top.kind = "while"
  /\ LET now == [Final EXCEPT ![Top.thread] =
                   Append(@, Instruction("rewind", {Cursor}, Size(Final, Top), "update"))]
     IN  code' = Resized(now, Top, Size(now, Top))
  /\ builders' = Return(Top.done + 2)
  /\ UNCHANGED <<script, threads>>

(* generate_while_block: an if around the body and a Rewind to it. *)
CloseWhile ==
  /\ Ended /\ Top.kind = "while"
  /\ LET now == [Final EXCEPT ![Top.thread] =
                   Append(@, Instruction("rewind", {Cursor}, Size(Final, Top) + 1, "update"))]
     IN  code' = Resized(now, Top, Size(now, Top))
  /\ builders' = Return(Top.done + 2)
  /\ UNCHANGED <<script, threads>>

CloseMulti ==
  /\ Ended /\ Top.kind = "multi"
  /\ code' = Resized(Final, Top, Size(Final, Top))
  /\ builders' = Return(Top.done + 2)
  /\ UNCHANGED <<script, threads>>

(* Mutant: the cadence of the enclosing block is not restored. *)
CloseCadenceOpen ==
  /\ Ended /\ Top.kind \in Cadences
  /\ code' = [Resized(Final, Top, Size(Final, Top)) EXCEPT
                ![Top.thread] = Append(@, Instruction("cadence", {Cursor}, 0, Top.cadence))]
  /\ builders' = Return(Top.done + 2)
  /\ UNCHANGED <<script, threads>>

(* generate_cadence_block: the instruction behind restores the cadence of  *)
(* the enclosing block.                                                    *)
CloseCadence ==
  /\ Ended /\ Top.kind \in Cadences
  /\ code' = [Resized(Final, Top, Size(Final, Top)) EXCEPT
                ![Top.thread] = Append(@, Instruction("cadence", {Cursor}, 0, builders[Depth - 1].cadence))]
  /\ builders' = Return(Top.done + 2)
  /\ UNCHANGED <<script, threads>>
-----------------------------------------------------------------------------
(* Blocks that are threads: sub_thread adds one to the descriptor; a when  *)
(* waits for its condition first.                                          *)

Prologue(kind, line) == IF kind = "when" THEN <<Bare("yield", line)>> ELSE <<>>

OpenThread ==
  /\ Reading /\ Line \in SubThreads
  /\ code' = Append(Emit(Top.thread, Top, Line, <<>>), Prologue(Line, Cursor))
  /\ threads' = Append(threads, [owner |-> Cursor, cadence |-> Top.cadence])
  /\ builders' = Append(Onward(Emitting(Top, Line)),
       Builder(Line, Len(code) + 1, Cursor + 1, 0, 0, Len(code), Top.cadence, 0))
  /\ UNCHANGED script

(* The enclosing thread launches it. *)
CloseThread ==
  /\ Ended /\ Top.kind \in SubThreads /\ Top.done > 0
  /\ LET parent == builders[Depth - 1].thread
     IN  code' = [Final EXCEPT ![parent] = Append(@, Bare("spawn", Top.begin - 1))]
  /\ builders' = Return(Top.done + 2)
  /\ UNCHANGED <<script, threads>>

(* No line was processed: 0 is also how the line says that it was not      *)
(* understood.  The command is tried again in lower case, which leaves     *)
(* another thread behind; then one line counts as processed, and the `end` *)
(* of the empty block is read as that of the enclosing one.                *)
CloseNothing ==
  /\ Ended /\ Top.kind \in SubThreads /\ Top.done = 0
  /\ LET again == {Top.begin - 1} \cap {o \in Lines(script) : script[o] = "when"}
     IN  /\ code' = IF again = {} THEN code ELSE Append(code, Prologue("when", Top.begin - 1))
         /\ threads' = IF again = {} THEN threads ELSE Append(threads, threads[Top.thread])
  /\ builders' = Return(1)
  /\ UNCHANGED script

(* The rest of the script is not read when an `end` ends the first builder.*)
Complete ==
  /\ Ended /\ Top.kind = "thread"
  /\ code' = Final
  /\ builders' = <<>>
  /\ UNCHANGED <<script, threads>>

Build ==
  \/ Blank \/ Update \/ Simple \/ Include
  \/ Open \/ Else \/ CloseIf \/ CloseWhile \/ CloseMulti \/ CloseCadence
  \/ OpenThread \/ CloseThread \/ CloseNothing \/ Complete
-----------------------------------------------------------------------------
(* What the builder promises.                                              *)

Built == builders = <<>>

(* Every block ends; an empty thread ends the block around it, and a file  *)
(* stands for as many lines of the script as it has itself; the rest is    *)
(* what the scripts of the repository look like.                           *)
Clean(s) ==
  /\ Balanced(s)
  /\ \A o \in Lines(s) : s[o] \in SubThreads => s[o + 1] # "end"
  /\ \A i \in Lines(s) : s[i] = "include" =>
       \A j \in i + 1 .. i + FileLines - 1 : j \in Lines(s) /\ s[j] = "blank"

(* No reference to a control block dangled.                                *)
Shelters(s, i) == {o \in Around(s, i) : s[o] \notin SubThreads}
Unmoved ==
  /\ \A t \in DOMAIN code : Len(code[t]) <= Inline
  /\ \A t \in DOMAIN code : threads[t].owner # 0 => Shelters(script, threads[t].owner) = {}

Of(t, i) == {k \in DOMAIN code[t] : i \in code[t][k].lines}

(* Every line that does something is built once, in the thread it stands   *)
(* in, and in no other.                                                    *)
EveryLineIsBuilt ==
  Built /\ Clean(script) =>
    \A i \in Lines(script) : script[i] \in {"do", "set", "pause"} =>
      \A t \in DOMAIN code : Cardinality(Of(t, i)) = (IF threads[t].owner = ThreadOf(script, i) THEN 1 ELSE 0)

(* Instructions stand in the order of their lines, except for updates that *)
(* directives overtake: an update that is kept back never passes a command *)
(* of its block, nor the end of its block.                                 *)
OvertakenByDirectives ==
  Built /\ Clean(script) =>
    \A t \in DOMAIN code : \A k, l \in DOMAIN code[t] :
      \A i \in code[t][k].lines, j \in code[t][l].lines :
        (i < j /\ l < k) => KeptBack(script, i, j)

(* A control block covers the instructions of the lines of its block: no   *)
(* branch ends inside of another block, or one instruction short.  A while *)
(* goes back to its own condition.                                         *)
Part(o, to) == {i \in o + 1 .. to - 1 : ThreadOf(script, i) = ThreadOf(script, o)}
PartEnd(o) ==
  CASE script[o] = "while" -> EndOf(script, o) + 1
    [] script[o] = "if" /\ HasElse(script, o) -> ElseOf(script, o) + 1
    [] script[o] = "else" -> EndOf(script, Innermost(script, o, Openers))
    [] OTHER -> EndOf(script, o)
Covered(t, k) == {l \in DOMAIN code[t] : k < l /\ l <= k + code[t][k].size}
Within(t, part) == {l \in DOMAIN code[t] : code[t][l].lines \cap part # {}}
Spans(t, k) ==
  LET i == code[t][k]
      line == CHOOSE o \in i.lines : TRUE
  IN  CASE i.op \in {"if", "skip", "multi"} \/ (i.op = "cadence" /\ script[line] \in Cadences) ->
             Covered(t, k) = Within(t, Part(line, PartEnd(line)))
        [] i.op = "rewind" ->
             k > i.size /\ code[t][k - i.size].op = "if" /\ code[t][k - i.size].lines = {OpenerOf(script, line)}
        [] OTHER -> TRUE
BlocksAreSized == Built /\ Clean(script) => \A t \in DOMAIN code : \A k \in DOMAIN code[t] : Spans(t, k)

(* The same, where no reference to a control block dangled.                *)
BlocksSpanTheirLines == Unmoved => BlocksAreSized
=============================================================================
