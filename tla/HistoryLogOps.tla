--------------------------- MODULE HistoryLogOps ---------------------------
(***************************************************************************)
(* The member functions of util::HistoryLog (util/history_log.hpp) as      *)
(* operators on the value of a log: a record of the snapshots stored and   *)
(* of the cursor into them.  The code counts from 0, so snapshots[c] of    *)
(* the code is snapshots[c + 1] here.  A function that answers false and   *)
(* changes nothing is an operator whose Can... guard is FALSE.             *)
(***************************************************************************)
EXTENDS Integers, Sequences

EmptyLog == [snapshots |-> << >>, cursor |-> 0]

Size(log) == Len(log.snapshots)

AtLiveValue(log) == log.cursor = Size(log)

(* The guards. *)
CanTruncate(log) == log.cursor + 1 <= Size(log)
CanUndo(log)     == log.cursor > 0 /\ log.cursor <= Size(log)
CanRedo(log)     == log.cursor < Size(log)
CanClear(log)    == log.snapshots # << >>

StoreBack(log, value) == [log EXCEPT !.snapshots = Append(@, value)]

Truncate(log) == [log EXCEPT !.snapshots = SubSeq(@, 1, log.cursor)]

SetLatest(log) == [log EXCEPT !.cursor = Size(log)]

(* Mutant: the future is kept behind the value stored. *)
StoreWithoutTruncation(log, value) == SetLatest(StoreBack(log, value))

(* store_impl: the future, when there is one, is given up first. *)
Store(log, value) ==
  SetLatest(StoreBack(IF CanTruncate(log) THEN Truncate(log) ELSE log, value))

(* pop_back: the cursor stays where it is unless the caller asks. *)
TruncateBack(log, updateCursor) ==
  LET popped == [log EXCEPT !.snapshots = SubSeq(@, 1, Len(@) - 1)]
  IN  IF updateCursor THEN SetLatest(popped) ELSE popped

(* What undo passes to its output, and the log it leaves. *)
UndoValue(log) == log.snapshots[log.cursor]

UndoLog(log) == [log EXCEPT !.cursor = @ - 1]

(* What redo passes to its output: the snapshot AT the cursor. *)
RedoValue(log) == log.snapshots[log.cursor + 1]
RedoLog(log)   == [log EXCEPT !.cursor = @ + 1]
=============================================================================
