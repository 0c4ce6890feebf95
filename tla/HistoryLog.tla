----------------------------- MODULE HistoryLog -----------------------------
(***************************************************************************)
(* One component of one entity and its HistoryComponent                    *)
(* (engine/history/components/history_component.hpp), which wraps a        *)
(* util::HistoryLog of the component's values.  Any caller may store,      *)
(* truncate, undo and redo in any order; nothing outside the log enforces  *)
(* a protocol, so LogNext offers every member function in every state.     *)
(***************************************************************************)
EXTENDS HistoryLogOps

CONSTANTS
  Values,       \* the values the component can take
  MaxSnapshots  \* bound of the model: the log is not grown past this size

ASSUME ValuesAssumption == Values # {}
ASSUME MaxSnapshotsAssumption == MaxSnapshots \in Nat

VARIABLES
  log,    \* the HistoryLog: snapshots and cursor
  live,   \* the component in the registry
  undone  \* history variable: <<the value the first undo of a series left>>,
          \* or << >> when the log's newest snapshot is not such a value

logVars == <<log, live, undone>>

Log == [snapshots : Seq(Values), cursor : Nat]

LogTypeOK ==
  /\ log \in Log
  /\ live \in Values
  /\ undone \in {<< >>} \cup {<<v>> : v \in Values}

LogInit ==
  /\ log = EmptyLog
  /\ live \in Values
  /\ undone = << >>

HasRoom == Size(log) < MaxSnapshots

(* The game, the editor or a script changes the component. *)
WriteComponent(value) ==
  /\ live' = value
  /\ UNCHANGED <<log, undone>>

StoreComponent ==
  /\ HasRoom \/ CanTruncate(log)
  /\ log' = Store(log, live)
  /\ undone' = << >>
  /\ UNCHANGED live

StoreBackComponent ==
  /\ HasRoom
  /\ log' = StoreBack(log, live)
  /\ undone' = << >>
  /\ UNCHANGED live

TruncateLog ==
  /\ CanTruncate(log)
  /\ log' = Truncate(log)
  /\ undone' = << >>
  /\ UNCHANGED live

TruncateBackLog(updateCursor) ==
  /\ log.snapshots # << >>
  /\ log' = TruncateBack(log, updateCursor)
  /\ undone' = << >>
  /\ UNCHANGED live

ClearLog ==
  /\ CanClear(log)
  /\ log' = EmptyLog
  /\ undone' = << >>
  /\ UNCHANGED live

(* Mutant: the component is stored after it was overwritten. *)
FirstUndoStoresTooLate ==
  /\ AtLiveValue(log)
  /\ CanUndo(log)
  /\ HasRoom
  /\ live' = UndoValue(log)
  /\ log' = UndoLog(StoreBack(log, live'))
  /\ undone' = <<live>>

(* HistoryComponent::undo from the live value: on_first_undo stores the    *)
(* component behind the cursor, then the snapshot before it is restored.   *)
FirstUndo ==
  /\ AtLiveValue(log)
  /\ CanUndo(log)
  /\ HasRoom
  /\ LET saved == StoreBack(log, live)
     IN  /\ live' = UndoValue(saved)
         /\ log' = UndoLog(saved)
  /\ undone' = <<live>>

(* undo when the log is already behind the live value. *)
FurtherUndo ==
  /\ ~AtLiveValue(log)
  /\ CanUndo(log)
  /\ live' = UndoValue(log)
  /\ log' = UndoLog(log)
  /\ UNCHANGED undone

Redo ==
  /\ CanRedo(log)
  /\ live' = RedoValue(log)
  /\ log' = RedoLog(log)
  /\ UNCHANGED undone

LogNext ==
  \/ \E value \in Values : WriteComponent(value)
  \/ StoreComponent
  \/ StoreBackComponent
  \/ TruncateLog
  \/ \E updateCursor \in BOOLEAN : TruncateBackLog(updateCursor)
  \/ ClearLog
  \/ FirstUndo
  \/ FurtherUndo
  \/ Redo

LogSpec == LogInit /\ [][LogNext]_logVars

-----------------------------------------------------------------------------
(* The value the first undo took away stays the newest snapshot of the log *)
(* for as long as a redo can reach it, whatever mix of undos, redos and    *)
(* writes to the component follows (HistoryComponent::undo, on_first_undo; *)
(* HistoryLog::redo).                                                      *)
UndoneValueKept ==
  undone # << >> =>
    /\ log.snapshots # << >>
    /\ log.snapshots[Size(log)] = undone[1]
    /\ log.cursor <= Size(log)

(* A redo that reaches the end of the log brings back exactly the value    *)
(* the component had when the series of undos began, even if the component *)
(* was written in between (HistoryLog::redo, apply_snapshot).              *)
LastRedoRestoresUndone ==
  [][(Redo /\ ~CanRedo(log') /\ undone # << >>) => live' = undone[1]]_logVars

-----------------------------------------------------------------------------
(* The abstract history: what can be undone, what can be redone, and how   *)
(* far truncate_back has left the cursor beyond the end of the log.        *)
Least(a, b) == IF a <= b THEN a ELSE b

Stacks == INSTANCE UndoStacks WITH
  past   <- SubSeq(log.snapshots, 1, Least(log.cursor, Size(log))),
  future <- SubSeq(log.snapshots, log.cursor + 1, Size(log)),
  lag    <- log.cursor - Least(log.cursor, Size(log))

(* The log implements a pair of undo and redo stacks. *)
ImplementsUndoStacks == Stacks!Spec
=============================================================================
