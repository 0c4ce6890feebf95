----------------------------- MODULE UndoStacks -----------------------------
(***************************************************************************)
(* What util::HistoryLog promises to the code that uses it: a value, the   *)
(* stack of earlier values that undo returns to, and the stack of later    *)
(* values that redo returns to.  Storing pushes on the first stack and     *)
(* gives up the second; undo and redo move one value across.  lag counts   *)
(* the removals from the back (truncate_back) that the reader of the       *)
(* history has not been told about: until stores have made up for them     *)
(* nothing can be undone or redone.                                        *)
(***************************************************************************)
EXTENDS Integers, Sequences

CONSTANT Values

VARIABLES past, future, lag, live

vars == <<past, future, lag, live>>

Init ==
  /\ past = << >>
  /\ future = << >>
  /\ lag = 0
  /\ live \in Values

LastOf(s) == s[Len(s)]
AllButLast(s) == SubSeq(s, 1, Len(s) - 1)

Write ==
  /\ live' \in Values
  /\ UNCHANGED <<past, future, lag>>

Store ==
  /\ past' = Append(past, live)
  /\ future' = << >>
  /\ lag' = 0
  /\ UNCHANGED live

(* The value is kept for redo, behind everything else. *)
StoreBehind ==
  /\ lag = 0
  /\ future' = Append(future, live)
  /\ UNCHANGED <<past, lag, live>>

CatchUp ==
  /\ lag > 0
  /\ past' = Append(past, live)
  /\ lag' = lag - 1
  /\ UNCHANGED <<future, live>>

GiveUpFuture ==
  /\ future' = << >>
  /\ UNCHANGED <<past, lag, live>>

DropNewest ==
  /\ future # << >>
  /\ future' = AllButLast(future)
  /\ UNCHANGED <<past, lag, live>>

DropStored ==
  /\ future = << >>
  /\ past # << >>
  /\ past' = AllButLast(past)
  /\ lag' \in {0, lag + 1}
  /\ UNCHANGED <<future, live>>

(* truncate_back(true): everything that is left becomes the past. *)
DropNewestAndCatchUp ==
  /\ future # << >>
  /\ past' = AllButLast(past \o future)
  /\ future' = << >>
  /\ UNCHANGED <<lag, live>>

Forget ==
  /\ past' = << >>
  /\ future' = << >>
  /\ lag' = 0
  /\ UNCHANGED live

Undo ==
  /\ lag = 0
  /\ past # << >>
  /\ live' = LastOf(past)
  /\ past' = AllButLast(past)
  /\ \/ future' = <<LastOf(past)>> \o future
     \/ future = << >> /\ future' = <<LastOf(past), live>>
  /\ UNCHANGED lag

Redo ==
  /\ future # << >>
  /\ live' = Head(future)
  /\ past' = Append(past, Head(future))
  /\ future' = Tail(future)
  /\ UNCHANGED lag

Next ==
  \/ Write \/ Store \/ StoreBehind \/ CatchUp \/ GiveUpFuture \/ DropNewest
  \/ DropStored \/ DropNewestAndCatchUp \/ Forget \/ Undo \/ Redo

Spec == Init /\ [][Next]_vars
=============================================================================
