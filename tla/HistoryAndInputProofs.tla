----------------------- MODULE HistoryAndInputProofs ------------------------
(***************************************************************************)
(* Theorems about two components that the others do not depend on: the log *)
(* behind undo and redo, and the input of a player.                        *)
(*                                                                         *)
(* HistoryLog, for every set of values and every bound: its types, what    *)
(* becomes of the value the first undo takes away, and that the log is a   *)
(* pair of stacks.                                                         *)
(*                                                                         *)
(* InputStates: a button stays held only while something that the last     *)
(* poll saw holds it, whatever the devices, profiles and orders.  During   *)
(* an update a held button need not have a holder: the release may still   *)
(* be in the queue.  The inductive invariant gives the reason why a button *)
(* is still held, and what the queues owe to the snapshots.  The edges     *)
(* need one more: a button with one source that is newly held has been     *)
(* told so, and no other event can tell it again (see below).              *)
(***************************************************************************)
EXTENDS HistoryLog, InputStates, FiniteSetTheorems, SequenceTheorems, TLAPS

(* Replacing the snapshots of a log keeps its cursor. *)
LEMMA WithSnapshots ==
  ASSUME NEW l \in Log, NEW s
  PROVE  [l EXCEPT !.snapshots = s] = [snapshots |-> s, cursor |-> l.cursor]
BY DEF Log

(* What each operation of the log does to its two fields. *)
LEMMA LogOperations ==
  ASSUME NEW l \in Log, NEW value \in Values
  PROVE  /\ Size(l) \in Nat
         /\ StoreBack(l, value) \in Log
         /\ StoreBack(l, value).cursor = l.cursor
         /\ Size(StoreBack(l, value)) = Size(l) + 1
         /\ StoreBack(l, value).snapshots[Size(l) + 1] = value
         /\ \A i \in 1..Size(l) :
              StoreBack(l, value).snapshots[i] = l.snapshots[i]
         /\ CanTruncate(l) => /\ Truncate(l) \in Log
                              /\ Size(Truncate(l)) = l.cursor
                              /\ \A i \in 1..l.cursor :
                                   Truncate(l).snapshots[i] = l.snapshots[i]
         /\ SetLatest(l) \in Log
<1>1. l.snapshots \in Seq(Values) /\ l.cursor \in Nat
  BY DEF Log
<1>2. Size(l) \in Nat
  BY <1>1 DEF Size
<1>3. StoreBack(l, value) = [snapshots |-> Append(l.snapshots, value),
                             cursor |-> l.cursor]
  BY SMTT(60) DEF StoreBack, Log
<1>4. /\ Append(l.snapshots, value) \in Seq(Values)
      /\ Len(Append(l.snapshots, value)) = Len(l.snapshots) + 1
      /\ Append(l.snapshots, value)[Len(l.snapshots) + 1] = value
      /\ \A i \in 1..Len(l.snapshots) :
           Append(l.snapshots, value)[i] = l.snapshots[i]
  BY <1>1
<1>5. ASSUME CanTruncate(l)
      PROVE  /\ Truncate(l) \in Log
             /\ Size(Truncate(l)) = l.cursor
             /\ \A i \in 1..l.cursor :
                  Truncate(l).snapshots[i] = l.snapshots[i]
  <2>1. l.cursor <= Len(l.snapshots)
    BY <1>1, <1>5 DEF CanTruncate, Size
  <2>2. Truncate(l) = [snapshots |-> SubSeq(l.snapshots, 1, l.cursor),
                       cursor |-> l.cursor]
    BY WithSnapshots DEF Truncate
  <2>3. /\ SubSeq(l.snapshots, 1, l.cursor) \in Seq(Values)
        /\ Len(SubSeq(l.snapshots, 1, l.cursor)) = l.cursor
        /\ \A i \in 1..l.cursor :
             SubSeq(l.snapshots, 1, l.cursor)[i] = l.snapshots[i]
    BY <1>1, <2>1
  <2> QED
    BY <1>1, <2>2, <2>3 DEF Log, Size
<1>6. SetLatest(l) \in Log
  BY <1>1, <1>2 DEF SetLatest, Log
<1> QED
  BY <1>1, <1>2, <1>3, <1>4, <1>5, <1>6 DEF Log, Size

LEMMA TruncateBackType ==
  ASSUME NEW l \in Log, l.snapshots # << >>, NEW b \in BOOLEAN
  PROVE  TruncateBack(l, b) \in Log
<1> DEFINE s == SubSeq(l.snapshots, 1, Len(l.snapshots) - 1)
           popped == [l EXCEPT !.snapshots = s]
<1>1. l.snapshots \in Seq(Values) /\ l.cursor \in Nat
  BY DEF Log
<1>2. Len(l.snapshots) \in Nat \ {0}
  BY <1>1
<1>3. s \in Seq(Values) /\ Len(s) \in Nat
  BY <1>1, <1>2
<1>4. popped = [snapshots |-> s, cursor |-> l.cursor]
  BY WithSnapshots
<1>5. popped \in Log
  BY <1>1, <1>3, <1>4 DEF Log
<1>6. SetLatest(popped) \in Log
  BY <1>3, <1>4 DEF SetLatest, Size, Log
<1>7. TruncateBack(l, b) = IF b THEN SetLatest(popped) ELSE popped
  BY DEF TruncateBack
<1> QED
  BY <1>5, <1>6, <1>7

LEMMA StoreType ==
  ASSUME NEW l \in Log, NEW value \in Values
  PROVE  Store(l, value) \in Log
<1>1. CASE CanTruncate(l)
  <2>1. Truncate(l) \in Log
    BY <1>1, LogOperations
  <2>2. StoreBack(Truncate(l), value) \in Log
    BY <2>1, LogOperations
  <2> QED
    BY <1>1, <2>2, LogOperations DEF Store
<1>2. CASE ~CanTruncate(l)
  <2>1. StoreBack(l, value) \in Log
    BY LogOperations
  <2> QED
    BY <1>2, <2>1, LogOperations DEF Store
<1> QED
  BY <1>1, <1>2

(* A snapshot that undo or redo restores is a value, and the cursor they   *)
(* leave is a cursor.                                                      *)
LEMMA SeekOperations ==
  ASSUME NEW l \in Log
  PROVE  /\ CanUndo(l) => UndoValue(l) \in Values /\ UndoLog(l) \in Log
         /\ CanRedo(l) => RedoValue(l) \in Values /\ RedoLog(l) \in Log
<1>1. l.snapshots \in Seq(Values) /\ l.cursor \in Nat
  BY DEF Log
<1>2. UndoLog(l) = [snapshots |-> l.snapshots, cursor |-> l.cursor - 1]
  BY DEF UndoLog, Log
<1>3. RedoLog(l) = [snapshots |-> l.snapshots, cursor |-> l.cursor + 1]
  BY DEF RedoLog, Log
<1>4. CanUndo(l) => l.cursor \in 1..Len(l.snapshots)
  BY <1>1 DEF CanUndo, Size
<1>5. CanRedo(l) => l.cursor + 1 \in 1..Len(l.snapshots)
  BY <1>1 DEF CanRedo, Size
<1> QED
  BY <1>1, <1>2, <1>3, <1>4, <1>5 DEF UndoValue, RedoValue, Log

(* The log only ever holds values of the component, its cursor is a        *)
(* natural number, and undo and redo only ever write such values into the  *)
(* component.                                                              *)
THEOREM LogTypeCorrect == LogSpec => []LogTypeOK
<1>1. LogInit => LogTypeOK
  BY DEF LogInit, LogTypeOK, Log, EmptyLog
<1>2. LogTypeOK /\ [LogNext]_logVars => LogTypeOK'
  <2> SUFFICES ASSUME LogTypeOK, [LogNext]_logVars
               PROVE  LogTypeOK'
    OBVIOUS
  <2>t. log \in Log /\ live \in Values
        /\ undone \in {<< >>} \cup {<<v>> : v \in Values}
    BY DEF LogTypeOK
  <2>1. ASSUME NEW value \in Values, WriteComponent(value) PROVE LogTypeOK'
    BY <2>1 DEF LogTypeOK, WriteComponent
  <2>2. CASE StoreComponent
    BY <2>2, <2>t, StoreType DEF LogTypeOK, StoreComponent
  <2>3. CASE StoreBackComponent
    BY <2>3, <2>t, LogOperations DEF LogTypeOK, StoreBackComponent
  <2>4. CASE TruncateLog
    BY <2>4, <2>t, LogOperations DEF LogTypeOK, TruncateLog
  <2>5. ASSUME NEW b \in BOOLEAN, TruncateBackLog(b) PROVE LogTypeOK'
    BY <2>5, <2>t, TruncateBackType DEF LogTypeOK, TruncateBackLog
  <2>6. CASE ClearLog
    BY <2>6, <2>t DEF LogTypeOK, ClearLog, EmptyLog, Log
  <2>7. CASE FirstUndo
    <3> DEFINE saved == StoreBack(log, live)
    <3>1. saved \in Log /\ Size(saved) = Size(log) + 1
          /\ saved.cursor = log.cursor
      BY <2>t, LogOperations
    <3>2. CanUndo(saved)
      BY <2>7, <2>t, <3>1, LogOperations DEF FirstUndo, CanUndo, Log
    <3>3. UndoValue(saved) \in Values /\ UndoLog(saved) \in Log
      BY <3>1, <3>2, SeekOperations
    <3>4. live' = UndoValue(saved) /\ log' = UndoLog(saved)
          /\ undone' = <<live>>
      BY <2>7 DEF FirstUndo
    <3> QED
      BY <2>t, <3>3, <3>4 DEF LogTypeOK
  <2>8. CASE FurtherUndo
    BY <2>8, <2>t, SeekOperations DEF LogTypeOK, FurtherUndo
  <2>9. CASE Redo
    BY <2>9, <2>t, SeekOperations DEF LogTypeOK, Redo
  <2>10. CASE UNCHANGED logVars
    BY <2>10 DEF LogTypeOK, logVars
  <2> QED
    BY <2>1, <2>2, <2>3, <2>4, <2>5, <2>6, <2>7, <2>8, <2>9, <2>10 DEF LogNext
<1> QED
  BY <1>1, <1>2, PTL DEF LogSpec

(* The value that the first undo took away is the newest snapshot until a  *)
(* store, a truncation or a clear gives it up.                             *)
THEOREM UndoneValueIsKept == LogSpec => []UndoneValueKept
<1>1. LogInit => UndoneValueKept
  BY DEF LogInit, UndoneValueKept
<1>2. LogTypeOK /\ LogTypeOK' /\ UndoneValueKept /\ [LogNext]_logVars => UndoneValueKept'
  <2> SUFFICES ASSUME LogTypeOK, LogTypeOK', UndoneValueKept, [LogNext]_logVars,
                      undone' # << >>
               PROVE  /\ log'.snapshots # << >>
                      /\ log'.snapshots[Size(log')] = undone'[1]
                      /\ log'.cursor <= Size(log')
    BY DEF UndoneValueKept
  <2>t. /\ log \in Log /\ live \in Values
        /\ log.snapshots \in Seq(Values) /\ log.cursor \in Nat
        /\ Size(log) \in Nat
    BY DEF LogTypeOK, Log, Size
  <2>1. CASE FirstUndo
    <3> DEFINE saved == StoreBack(log, live)
    <3>1. /\ saved \in Log
          /\ Size(saved) = Size(log) + 1
          /\ saved.cursor = log.cursor
          /\ saved.snapshots[Size(log) + 1] = live
      BY <2>t, LogOperations
    <3>2. log' = [snapshots |-> saved.snapshots, cursor |-> log.cursor - 1]
      BY <2>1, <3>1 DEF FirstUndo, UndoLog, Log
    <3>3. Size(log') = Size(log) + 1 /\ log'.snapshots = saved.snapshots
      BY <3>1, <3>2 DEF Size
    <3>4. log.cursor = Size(log) /\ undone' = <<live>>
      BY <2>1 DEF FirstUndo, AtLiveValue
    <3>5. log'.snapshots[Size(log')] = undone'[1]
      BY <3>1, <3>3, <3>4
    <3>6. log'.snapshots # << >>
      BY <2>t, <3>3 DEF Size
    <3>7. log'.cursor <= Size(log')
      BY <2>t, <3>2, <3>3, <3>4
    <3> QED
      BY <3>5, <3>6, <3>7
  <2>2. CASE FurtherUndo
    <3>1. log' = [snapshots |-> log.snapshots, cursor |-> log.cursor - 1]
          /\ undone' = undone
      BY <2>2, <2>t DEF FurtherUndo, UndoLog, Log
    <3> QED
      BY <3>1, <2>t DEF UndoneValueKept, Size
  <2>3. CASE Redo
    <3>1. log' = [snapshots |-> log.snapshots, cursor |-> log.cursor + 1]
          /\ undone' = undone /\ log.cursor < Size(log)
      BY <2>3, <2>t DEF Redo, RedoLog, CanRedo, Log
    <3> QED
      BY <3>1, <2>t DEF UndoneValueKept, Size
  <2>4. ASSUME NEW value \in Values, WriteComponent(value)
        PROVE  log' = log /\ undone' = undone
    BY <2>4 DEF WriteComponent
  <2>5. CASE log' = log /\ undone' = undone
    BY <2>5 DEF UndoneValueKept
  <2>6. CASE UNCHANGED logVars
    BY <2>5, <2>6 DEF logVars
  <2>7. CASE \/ StoreComponent \/ StoreBackComponent \/ TruncateLog \/ ClearLog
             \/ \E b \in BOOLEAN : TruncateBackLog(b)
    BY <2>7 DEF StoreComponent, StoreBackComponent, TruncateLog, ClearLog,
                TruncateBackLog
  <2> QED
    BY <2>1, <2>2, <2>3, <2>4, <2>5, <2>6, <2>7 DEF LogNext
<1> QED
  BY <1>1, <1>2, LogTypeCorrect, PTL DEF LogSpec

(* A redo that reaches the end of the log brings back the value that the   *)
(* first undo took away: it is the newest snapshot still.                  *)
THEOREM RedoRestoresUndone == LogSpec => LastRedoRestoresUndone
<1>1. LogTypeOK /\ UndoneValueKept /\ [LogNext]_logVars =>
        [(Redo /\ ~CanRedo(log') /\ undone # << >>) => live' = undone[1]]_logVars
  <2> SUFFICES ASSUME LogTypeOK, UndoneValueKept, Redo, ~CanRedo(log'), undone # << >>
               PROVE  live' = undone[1]
    OBVIOUS
  <2>1. log \in Log /\ log.cursor \in Nat /\ Size(log) \in Nat
    BY DEF LogTypeOK, Log, Size
  <2>2. log' = [snapshots |-> log.snapshots, cursor |-> log.cursor + 1]
        /\ live' = log.snapshots[log.cursor + 1] /\ log.cursor < Size(log)
    BY <2>1 DEF Redo, RedoLog, RedoValue, CanRedo, Log
  <2>3. Size(log) = log.cursor + 1
    BY <2>1, <2>2 DEF CanRedo, Size
  <2> QED
    BY <2>2, <2>3 DEF UndoneValueKept
<1> QED
  BY <1>1, LogTypeCorrect, UndoneValueIsKept, PTL DEF LogSpec, LastRedoRestoresUndone
-----------------------------------------------------------------------------
(* The log implements a pair of stacks.  The past is what lies before the  *)
(* cursor, the future what lies behind it; a cursor beyond the end has     *)
(* everything in the past.                                                 *)

Past(s, c) == SubSeq(s, 1, Least(c, Len(s)))
Future(s, c) == SubSeq(s, c + 1, Len(s))
Lag(s, c) == c - Least(c, Len(s))

(* The stacks of a cursor within the log, and of one at its end or beyond. *)
LEMMA Within ==
  ASSUME NEW s \in Seq(Values), NEW c \in Nat, c <= Len(s)
  PROVE  Past(s, c) = SubSeq(s, 1, c) /\ Lag(s, c) = 0
<1>1. Least(c, Len(s)) = c
  BY DEF Least
<1> QED
  BY <1>1 DEF Past, Lag

LEMMA Beyond ==
  ASSUME NEW s \in Seq(Values), NEW c \in Nat, c >= Len(s)
  PROVE  Past(s, c) = s /\ Future(s, c) = << >> /\ Lag(s, c) = c - Len(s)
<1>1. Least(c, Len(s)) = Len(s) /\ Len(s) \in Nat
  BY DEF Least
<1>2. SubSeq(s, 1, Len(s)) = s
  BY SubSeqFull
<1>3. SubSeq(s, c + 1, Len(s)) = << >>
  BY <1>1, SubSeqEmpty
<1> QED
  BY <1>1, <1>2, <1>3 DEF Past, Future, Lag

(* A piece of a sequence of values. *)
LEMMA Piece ==
  ASSUME NEW s \in Seq(Values), NEW m \in Nat \ {0}, NEW n \in Nat, n <= Len(s), m <= n + 1
  PROVE  /\ SubSeq(s, m, n) \in Seq(Values)
         /\ Len(SubSeq(s, m, n)) = n - m + 1
         /\ \A i \in 1 .. n - m + 1 : SubSeq(s, m, n)[i] = s[m + i - 1]
<1>1. \A i \in m .. n : s[i] \in Values
  <2> TAKE i \in m .. n
  <2>1. i \in 1 .. Len(s)
    OBVIOUS
  <2> QED
    BY <2>1, ElementOfSeq
<1> QED
  BY <1>1, SubSeqProperties

(* A value that is appended joins the future, or the past when there is no *)
(* future.                                                                 *)
LEMMA AppendedTo ==
  ASSUME NEW s \in Seq(Values), NEW v \in Values, NEW c \in Nat, c <= Len(s)
  PROVE  /\ SubSeq(Append(s, v), 1, c) = SubSeq(s, 1, c)
         /\ Future(Append(s, v), c) = Append(Future(s, c), v)
<1> DEFINE t == Append(s, v)
           n == Len(s)
<1>1. t \in Seq(Values) /\ Len(t) = n + 1 /\ n \in Nat
      /\ t[n + 1] = v /\ \A i \in 1 .. n : t[i] = s[i]
  BY AppendProperties
<1> HIDE DEF t
<1>2. SubSeq(t, 1, c) = SubSeq(s, 1, c)
  <2>1. /\ SubSeq(t, 1, c) \in Seq(Values) /\ Len(SubSeq(t, 1, c)) = c
        /\ \A i \in 1 .. c : SubSeq(t, 1, c)[i] = t[i]
    BY <1>1, Piece
  <2>2. /\ SubSeq(s, 1, c) \in Seq(Values) /\ Len(SubSeq(s, 1, c)) = c
        /\ \A i \in 1 .. c : SubSeq(s, 1, c)[i] = s[i]
    BY <1>1, Piece
  <2>3. \A i \in 1 .. c : t[i] = s[i]
    BY <1>1
  <2> QED
    BY <2>1, <2>2, <2>3, SeqEqual
<1>3. SubSeq(t, c + 1, n + 1) = Append(SubSeq(s, c + 1, n), v)
  <2> DEFINE f == SubSeq(s, c + 1, n)
             g == SubSeq(t, c + 1, n + 1)
  <2>1. /\ f \in Seq(Values) /\ Len(f) = n - c
        /\ \A i \in 1 .. n - c : f[i] = s[c + i]
    <3>0. c \in Nat /\ n \in Nat
      BY <1>1
    <3>1. c + 1 \in Nat \ {0} /\ n - (c + 1) + 1 = n - c /\ \A i \in 1 .. n - c : c + 1 + i - 1 = c + i
      BY <3>0
    <3>2. /\ f \in Seq(Values) /\ Len(f) = n - (c + 1) + 1
          /\ \A i \in 1 .. n - (c + 1) + 1 : f[i] = s[c + 1 + i - 1]
      BY <1>1, Piece
    <3> QED
      BY <3>1, <3>2, ZenonT(30), SMTT(60)
  <2>2. /\ g \in Seq(Values) /\ Len(g) = n - c + 1
        /\ \A i \in 1 .. n - c + 1 : g[i] = t[c + i]
    <3>0. c \in Nat /\ n \in Nat
      BY <1>1
    <3>1. n + 1 - (c + 1) + 1 = n - c + 1 /\ \A i \in 1 .. n - c + 1 : c + 1 + i - 1 = c + i
      BY <3>0
    <3>2. /\ g \in Seq(Values) /\ Len(g) = n + 1 - (c + 1) + 1
          /\ \A i \in 1 .. n + 1 - (c + 1) + 1 : g[i] = t[c + 1 + i - 1]
      BY <1>1, Piece
    <3> QED
      BY <3>1, <3>2
  <2> HIDE DEF f, g
  <2>3. /\ Append(f, v) \in Seq(Values) /\ Len(Append(f, v)) = n - c + 1
        /\ Append(f, v)[n - c + 1] = v /\ \A i \in 1 .. n - c : Append(f, v)[i] = f[i]
    BY <2>1, AppendProperties
  <2>4. ASSUME NEW i \in 1 .. n - c + 1 PROVE g[i] = Append(f, v)[i]
    <3>1. CASE i = n - c + 1
      <4>1. c + i = n + 1
        BY <1>1, <3>1
      <4> QED
        BY <1>1, <2>2, <2>3, <3>1, <4>1
    <3>2. CASE i # n - c + 1
      <4>1. i \in 1 .. n - c /\ c + i \in 1 .. n
        BY <1>1, <3>2
      <4> QED
        BY <1>1, <2>1, <2>2, <2>3, <4>1
    <3> QED
      BY <3>1, <3>2
  <2>5. g = Append(f, v)
    BY <2>2, <2>3, <2>4, SeqEqual
  <2> QED
    BY <2>5 DEF f, g
<1> QED
  BY <1>1, <1>2, <1>3 DEF Future, t

(* The newest snapshot is dropped. *)
LEMMA ShortenedTo ==
  ASSUME NEW s \in Seq(Values), Len(s) > 0, NEW c \in Nat, c < Len(s)
  PROVE  /\ SubSeq(s, 1, Len(s) - 1) \in Seq(Values)
         /\ Len(SubSeq(s, 1, Len(s) - 1)) = Len(s) - 1
         /\ SubSeq(SubSeq(s, 1, Len(s) - 1), 1, c) = SubSeq(s, 1, c)
         /\ Future(SubSeq(s, 1, Len(s) - 1), c) = Stacks!AllButLast(Future(s, c))
         /\ Len(Future(s, c)) = Len(s) - c
         /\ Past(s, c) \o Future(s, c) = s
<1> DEFINE n == Len(s)
           t == SubSeq(s, 1, n - 1)
           f == SubSeq(s, c + 1, n)
<1>1. n \in Nat /\ n - 1 \in Nat /\ n - 1 - 1 + 1 = n - 1
  OBVIOUS
<1>2. /\ t \in Seq(Values) /\ Len(t) = n - 1
      /\ \A i \in 1 .. n - 1 : t[i] = s[i]
  <2>1. /\ t \in Seq(Values) /\ Len(t) = n - 1 - 1 + 1
        /\ \A i \in 1 .. n - 1 - 1 + 1 : t[i] = s[1 + i - 1]
    BY <1>1, Piece
  <2>2. \A i \in 1 .. n - 1 : 1 + i - 1 = i
    BY SMTT(60)
  <2> QED
    BY <1>1, <2>1, <2>2
<1>3. /\ f \in Seq(Values) /\ Len(f) = n - c
      /\ \A i \in 1 .. n - c : f[i] = s[c + i]
  <2>1. c + 1 \in Nat \ {0} /\ n - (c + 1) + 1 = n - c /\ \A i \in 1 .. n - c : c + 1 + i - 1 = c + i
    BY <1>1
  <2>2. /\ f \in Seq(Values) /\ Len(f) = n - (c + 1) + 1
        /\ \A i \in 1 .. n - (c + 1) + 1 : f[i] = s[c + 1 + i - 1]
    <3> DEFINE m == c + 1
    <3>1. m \in Nat \ {0} /\ n \in Nat /\ n <= Len(s) /\ m <= n + 1
      BY <1>1
    <3> HIDE DEF m
    <3>2. /\ SubSeq(s, m, n) \in Seq(Values) /\ Len(SubSeq(s, m, n)) = n - m + 1
          /\ \A i \in 1 .. n - m + 1 : SubSeq(s, m, n)[i] = s[m + i - 1]
      BY <3>1, Piece
    <3> QED
      BY <3>2 DEF m
  <2> QED
    BY <2>1, <2>2, SMTT(30), ZenonT(60)
<1> HIDE DEF t, f
<1>4. SubSeq(t, 1, c) = SubSeq(s, 1, c)
  <2>1. /\ SubSeq(t, 1, c) \in Seq(Values) /\ Len(SubSeq(t, 1, c)) = c
        /\ \A i \in 1 .. c : SubSeq(t, 1, c)[i] = t[i]
    BY <1>1, <1>2, Piece
  <2>2. /\ SubSeq(s, 1, c) \in Seq(Values) /\ Len(SubSeq(s, 1, c)) = c
        /\ \A i \in 1 .. c : SubSeq(s, 1, c)[i] = s[i]
    BY <1>1, Piece
  <2>3. \A i \in 1 .. c : t[i] = s[i]
    BY <1>1, <1>2
  <2> QED
    BY <2>1, <2>2, <2>3, SeqEqual
<1>5. SubSeq(t, c + 1, n - 1) = SubSeq(f, 1, n - c - 1)
  <2> DEFINE g == SubSeq(t, c + 1, n - 1)
             h == SubSeq(f, 1, n - c - 1)
  <2>1. /\ g \in Seq(Values) /\ Len(g) = n - c - 1
        /\ \A i \in 1 .. n - c - 1 : g[i] = t[c + i]
    <3>1. c + 1 \in Nat \ {0} /\ n - 1 - (c + 1) + 1 = n - c - 1 /\ \A i \in 1 .. n - c - 1 : c + 1 + i - 1 = c + i
      BY <1>1
    <3>2. /\ g \in Seq(Values) /\ Len(g) = n - 1 - (c + 1) + 1
          /\ \A i \in 1 .. n - 1 - (c + 1) + 1 : g[i] = t[c + 1 + i - 1]
      <4> DEFINE m == c + 1
                 k == n - 1
      <4>1. m \in Nat \ {0} /\ k \in Nat /\ k <= Len(t) /\ m <= k + 1
        BY <1>1, <1>2
      <4> HIDE DEF m, k
      <4>2. /\ SubSeq(t, m, k) \in Seq(Values) /\ Len(SubSeq(t, m, k)) = k - m + 1
            /\ \A i \in 1 .. k - m + 1 : SubSeq(t, m, k)[i] = t[m + i - 1]
        BY <1>2, <4>1, Piece, SMTT(30), ZenonT(60)
      <4> QED
        BY <4>2, SMTT(30), ZenonT(60) DEF m, k
    <3> QED
      BY <3>1, <3>2, ZenonT(30), SMTT(60)
  <2>2. /\ h \in Seq(Values) /\ Len(h) = n - c - 1
        /\ \A i \in 1 .. n - c - 1 : h[i] = f[i]
    <3>1. n - c - 1 \in Nat /\ n - c - 1 <= Len(f) /\ n - c - 1 - 1 + 1 = n - c - 1
          /\ \A i \in 1 .. n - c - 1 : 1 + i - 1 = i
      BY <1>1, <1>3
    <3>2. /\ h \in Seq(Values) /\ Len(h) = n - c - 1 - 1 + 1
          /\ \A i \in 1 .. n - c - 1 - 1 + 1 : h[i] = f[1 + i - 1]
      BY <1>3, <3>1, Piece
    <3> QED
      BY <3>1, <3>2, ZenonT(30), SMTT(60)
  <2> HIDE DEF g, h
  <2>3. ASSUME NEW i \in 1 .. n - c - 1 PROVE g[i] = h[i]
    <3>1. i \in 1 .. n - c /\ c + i \in 1 .. n - 1
      BY <1>1
    <3> QED
      BY <1>2, <1>3, <2>1, <2>2, <3>1
  <2>4. g = h
    BY <2>1, <2>2, <2>3, SeqEqual, SMTT(30), ZenonT(60)
  <2> QED
    BY <2>4, SMTT(30), ZenonT(60) DEF g, h
<1>6. Past(s, c) \o f = s
  <2>1. SubSeq(s, 1, c) \o SubSeq(s, c + 1, n) = SubSeq(s, 1, n)
    <3>1. 1 \in 1 .. Len(s) + 1 /\ c \in 1 - 1 .. Len(s) /\ n \in c .. Len(s)
      BY <1>1
    <3> QED
      BY <3>1, ConcatAdjacentSubSeq
  <2>2. SubSeq(s, 1, n) = s
    BY SubSeqFull
  <2>3. Past(s, c) = SubSeq(s, 1, c)
    BY Within
  <2> QED
    BY <2>1, <2>2, <2>3, ZenonT(60) DEF f
<1>7. f = Future(s, c) /\ SubSeq(t, c + 1, n - 1) = Future(t, c)
  BY <1>2 DEF Future, f
<1>8. Stacks!AllButLast(f) = SubSeq(f, 1, n - c - 1)
  BY <1>3 DEF Stacks!AllButLast
<1> QED
  BY <1>2, <1>3, <1>4, <1>5, <1>6, <1>7, <1>8 DEF t

(* The cursor moves over one snapshot. *)
LEMMA MovedOver ==
  ASSUME NEW s \in Seq(Values), NEW c \in Nat, c < Len(s)
  PROVE  /\ Future(s, c) # << >>
         /\ Head(Future(s, c)) = s[c + 1]
         /\ Tail(Future(s, c)) = Future(s, c + 1)
         /\ Future(s, c) = <<s[c + 1]>> \o Future(s, c + 1)
         /\ SubSeq(s, 1, c + 1) = Append(SubSeq(s, 1, c), s[c + 1])
         /\ SubSeq(s, 1, c) = Stacks!AllButLast(SubSeq(s, 1, c + 1))
         /\ SubSeq(s, 1, c + 1) # << >>
         /\ Stacks!LastOf(SubSeq(s, 1, c + 1)) = s[c + 1]
<1> DEFINE n == Len(s)
           k == c + 1
<1>1. n \in Nat /\ k \in 1 .. Len(s) /\ n \in k .. Len(s) /\ k - 1 = c /\ k - 1 \in Nat /\ k \in Nat \ {0} /\ k <= n
  OBVIOUS
<1>2. s[k] \in Values
  BY <1>1, ElementOfSeq
<1> DEFINE p == SubSeq(s, 1, c)
           q == SubSeq(s, 1, k)
           f == SubSeq(s, k, n)
<1>3. Head(f) = s[k] /\ Tail(f) = SubSeq(s, k + 1, n) /\ f = <<s[k]>> \o SubSeq(s, k + 1, n)
  BY <1>1, HeadTailOfSubSeq, SubSeqRecursiveFirst
<1>4. p \in Seq(Values) /\ Len(p) = c
  BY <1>1, Piece
<1>5. q = SubSeq(s, 1, k - 1) \o <<s[k]>>
  <2>1. 1 \in 1 .. Len(s) /\ k \in 1 .. Len(s)
    BY <1>1
  <2> QED
    BY <2>1, SubSeqRecursiveSecond
<1>6. q = Append(p, s[k])
  BY <1>1, <1>2, <1>4, <1>5, AppendIsConcat
<1>7. /\ q \in Seq(Values) /\ q # << >> /\ Len(q) = c + 1
      /\ \A i \in 1 .. c : q[i] = p[i]
      /\ q[c + 1] = s[k]
  BY <1>2, <1>4, <1>6, AppendProperties
<1>8. Len(f) = n - k + 1 /\ n - k + 1 > 0
  BY <1>1, Piece
<1> HIDE DEF p, q, f, k, n
<1>9. f # << >>
  <2> SUFFICES ASSUME f = << >> PROVE FALSE
    OBVIOUS
  <2>1. Len(f) = 0
    BY EmptySeq
  <2> QED
    BY <1>8, <2>1
<1>10. SubSeq(q, 1, c) = p
  <2>1. /\ SubSeq(q, 1, c) \in Seq(Values) /\ Len(SubSeq(q, 1, c)) = c
        /\ \A i \in 1 .. c : SubSeq(q, 1, c)[i] = q[i]
    BY <1>7, Piece
  <2> QED
    BY <1>4, <1>7, <2>1, SeqEqual
<1>11. Stacks!AllButLast(q) = p /\ Stacks!LastOf(q) = s[k]
  BY <1>7, <1>10 DEF Stacks!AllButLast, Stacks!LastOf
<1>12. f = Future(s, c) /\ SubSeq(s, k + 1, n) = Future(s, c + 1)
  BY DEF f, k, n, Future
<1> QED
  BY <1>3, <1>6, <1>7, <1>9, <1>11, <1>12 DEF p, q, k

(* What the operations make of the two fields of a log. *)
LEMMA TruncateFields ==
  ASSUME NEW l \in Log
  PROVE  Truncate(l).snapshots = SubSeq(l.snapshots, 1, l.cursor) /\ Truncate(l).cursor = l.cursor
BY DEF Truncate, Log

LEMMA StoreBackFields ==
  ASSUME NEW l \in Log, NEW v
  PROVE  StoreBack(l, v).snapshots = Append(l.snapshots, v) /\ StoreBack(l, v).cursor = l.cursor
BY DEF StoreBack, Log

LEMMA SetLatestFields ==
  ASSUME NEW l \in Log
  PROVE  SetLatest(l).snapshots = l.snapshots /\ SetLatest(l).cursor = Len(l.snapshots)
BY DEF SetLatest, Size, Log

LEMMA SeekFields ==
  ASSUME NEW l \in Log
  PROVE  /\ UndoLog(l).snapshots = l.snapshots /\ UndoLog(l).cursor = l.cursor - 1
         /\ RedoLog(l).snapshots = l.snapshots /\ RedoLog(l).cursor = l.cursor + 1
BY DEF UndoLog, RedoLog, Log

(* truncate_back, which moves the cursor to the new end if it is told to. *)
LEMMA TruncateBackFields ==
  ASSUME NEW l \in Log, l.snapshots # << >>, NEW b \in BOOLEAN
  PROVE  /\ TruncateBack(l, b).snapshots = SubSeq(l.snapshots, 1, Len(l.snapshots) - 1)
         /\ TruncateBack(l, b).cursor =
              IF b THEN Len(SubSeq(l.snapshots, 1, Len(l.snapshots) - 1)) ELSE l.cursor
<1> DEFINE t == SubSeq(l.snapshots, 1, Len(l.snapshots) - 1)
           popped == [l EXCEPT !.snapshots = t]
<1>1. popped = [snapshots |-> t, cursor |-> l.cursor]
  BY WithSnapshots
<1>2. l.snapshots \in Seq(Values) /\ Len(l.snapshots) > 0
  BY EmptySeq DEF Log
<1>3. t \in Seq(Values)
  <2>1. /\ 1 \in Nat \ {0} /\ Len(l.snapshots) - 1 \in Nat
        /\ Len(l.snapshots) - 1 <= Len(l.snapshots) /\ 1 <= Len(l.snapshots) - 1 + 1
    BY <1>2
  <2> QED
    BY <1>2, <2>1, Piece
<1>4. TruncateBack(l, b) = IF b THEN SetLatest(popped) ELSE popped
  BY DEF TruncateBack
<1> HIDE DEF t
<1>5. popped \in Log /\ popped.snapshots = t /\ popped.cursor = l.cursor
  BY <1>1, <1>3 DEF Log
<1> HIDE DEF popped
<1>6. SetLatest(popped).snapshots = t /\ SetLatest(popped).cursor = Len(t)
  BY <1>5, SetLatestFields
<1>7. CASE b
  <2>1. TruncateBack(l, b) = SetLatest(popped)
    BY <1>4, <1>7
  <2> QED
    BY <1>6, <1>7, <2>1 DEF t
<1>8. CASE ~b
  <2>1. TruncateBack(l, b) = popped
    BY <1>4, <1>8
  <2> QED
    BY <1>5, <1>8, <2>1 DEF t
<1> QED
  BY <1>7, <1>8

(* What the stacks are before and after a step, for the logs it takes.     *)
LEMMA StackStep ==
  ASSUME LogTypeOK, LogTypeOK', [LogNext]_logVars,
         NEW s, NEW c, NEW r, NEW d,
         s = log.snapshots, c = log.cursor, r = log'.snapshots, d = log'.cursor
  PROVE  \/ live' = live /\ Past(r, d) = Past(s, c) /\ Future(r, d) = Future(s, c) /\ Lag(r, d) = Lag(s, c)
         \/ Stacks!Next
<1>1. /\ s \in Seq(Values) /\ c \in Nat /\ r \in Seq(Values) /\ d \in Nat
      /\ Len(s) \in Nat /\ Len(r) \in Nat
      /\ live \in Values /\ live' \in Values
  BY DEF LogTypeOK, Log
<1>0. log \in Log /\ Size(log) = Len(s)
  BY DEF LogTypeOK, Size
<1>2. /\ Past(s, c) = SubSeq(log.snapshots, 1, Least(log.cursor, Size(log)))
      /\ Future(s, c) = SubSeq(log.snapshots, log.cursor + 1, Size(log))
      /\ Lag(s, c) = log.cursor - Least(log.cursor, Size(log))
      /\ Past(r, d) = SubSeq(log.snapshots, 1, Least(log.cursor, Size(log)))'
      /\ Future(r, d) = SubSeq(log.snapshots, log.cursor + 1, Size(log))'
      /\ Lag(r, d) = (log.cursor - Least(log.cursor, Size(log)))'
  BY <1>1 DEF Past, Future, Lag, Size, Least
<1>3. CASE UNCHANGED logVars
  BY <1>1, <1>3 DEF logVars
<1>4. ASSUME NEW value \in Values, WriteComponent(value) PROVE Stacks!Write
  BY <1>1, <1>2, <1>4 DEF WriteComponent, Stacks!Write
<1>5. CASE StoreComponent
  <2>1. live' = live /\ log' = Store(log, live)
    BY <1>5 DEF StoreComponent
  <2>2. CASE CanTruncate(log)
    <3>1. c < Len(s)
      BY <1>0, <1>1, <2>2 DEF CanTruncate
    <3> DEFINE q == SubSeq(s, 1, c)
    <3>2. q \in Seq(Values) /\ Len(q) = c
      BY <1>1, <3>1, Piece, SMTT(40)
    <3>3. /\ Append(q, live) \in Seq(Values) /\ Len(Append(q, live)) = c + 1
      BY <1>1, <3>2, AppendProperties, SMTT(40)
    <3>4. r = Append(q, live) /\ d = c + 1
      <4>1. Truncate(log) \in Log /\ Truncate(log).snapshots = q
        BY <1>0, <1>1, <2>2, LogOperations, TruncateFields
      <4> HIDE DEF q
      <4>2. /\ StoreBack(Truncate(log), live) \in Log
            /\ StoreBack(Truncate(log), live).snapshots = Append(q, live)
        BY <1>1, <4>1, LogOperations, StoreBackFields, SMTT(30), ZenonT(60)
      <4>3. log' = SetLatest(StoreBack(Truncate(log), live))
        BY <2>1, <2>2 DEF Store
      <4> QED
        BY <3>3, <4>2, <4>3, SetLatestFields
    <3> HIDE DEF q
    <3>7. Len(r) = d /\ d >= Len(r)
      BY <1>1, <3>3, <3>4
    <3>5. Past(r, d) = r /\ Future(r, d) = << >> /\ Lag(r, d) = 0
      BY <1>1, <3>7, Beyond, SMTT(40)
    <3>6. Past(s, c) = q
      <4>1. s \in Seq(Values) /\ c \in Nat /\ c <= Len(s)
        BY <1>1, <3>1
      <4>2. Past(s, c) = SubSeq(s, 1, c)
        BY <4>1, Within
      <4> QED
        BY <4>2 DEF q
    <3> QED
      BY <1>2, <2>1, <3>4, <3>5, <3>6 DEF Stacks!Next, Stacks!Store
  <2>3. CASE ~CanTruncate(log)
    <3>1. c >= Len(s)
      BY <1>0, <1>1, <2>3 DEF CanTruncate
    <3>2. /\ Append(s, live) \in Seq(Values) /\ Len(Append(s, live)) = Len(s) + 1
      BY <1>1, AppendProperties, SMTT(40)
    <3>3. r = Append(s, live) /\ d = Len(s) + 1
      <4>1. StoreBack(log, live) \in Log /\ StoreBack(log, live).snapshots = Append(s, live)
        BY <1>0, <1>1, LogOperations, StoreBackFields
      <4>2. log' = SetLatest(StoreBack(log, live))
        BY <2>1, <2>3 DEF Store
      <4> QED
        BY <3>2, <4>1, <4>2, SetLatestFields
    <3>6. Len(r) = d /\ d >= Len(r)
      BY <1>1, <3>2, <3>3
    <3>4. Past(r, d) = r /\ Future(r, d) = << >> /\ Lag(r, d) = 0
      BY <1>1, <3>6, Beyond, SMTT(40)
    <3>5. Past(s, c) = s
      BY <1>1, <3>1, Beyond, SMTT(40)
    <3> QED
      BY <1>2, <2>1, <3>3, <3>4, <3>5 DEF Stacks!Next, Stacks!Store
  <2> QED
    BY <2>2, <2>3
<1>6. CASE StoreBackComponent
  <2>1. live' = live /\ log' = StoreBack(log, live)
    BY <1>6 DEF StoreBackComponent
  <2>2. r = Append(s, live) /\ d = c
    BY <1>0, <2>1, StoreBackFields
  <2>3. Len(r) = Len(s) + 1
    BY <1>1, <2>2, AppendProperties, SMTT(40)
  <2>4. CASE c <= Len(s)
    <3>1. /\ Past(s, c) = SubSeq(s, 1, c) /\ Past(r, d) = SubSeq(r, 1, d)
          /\ Lag(s, c) = 0 /\ Lag(r, d) = 0
      <4>1. /\ s \in Seq(Values) /\ c \in Nat /\ c <= Len(s)
            /\ r \in Seq(Values) /\ d \in Nat /\ d <= Len(r)
        BY <1>1, <2>2, <2>3, <2>4
      <4>2. Past(s, c) = SubSeq(s, 1, c) /\ Lag(s, c) = 0
        BY <4>1, Within
      <4>3. Past(r, d) = SubSeq(r, 1, d) /\ Lag(r, d) = 0
        BY <4>1, Within
      <4> QED
        BY <4>2, <4>3
    <3>2. SubSeq(r, 1, d) = SubSeq(s, 1, c) /\ Future(r, d) = Append(Future(s, c), live)
      BY ONLY <1>1, <2>2, <2>4, AppendedTo, SMTT(30), ZenonT(60)
    <3> QED
      BY <1>2, <2>1, <3>1, <3>2, ZenonT(30), SMTT(30) DEF Stacks!Next, Stacks!StoreBehind
  <2>5. CASE c > Len(s)
    <3>1. Past(s, c) = s /\ Future(s, c) = << >> /\ Lag(s, c) = c - Len(s)
      BY <1>1, <2>5, Beyond, SMTT(40)
    <3>2. Past(r, d) = r /\ Future(r, d) = << >> /\ Lag(r, d) = c - (Len(s) + 1)
      <4>1. d >= Len(r)
        BY <1>1, <2>2, <2>3, <2>5
      <4>2. Past(r, d) = r /\ Future(r, d) = << >> /\ Lag(r, d) = d - Len(r)
        BY <1>1, <4>1, Beyond, SMTT(40)
      <4> QED
        BY <2>2, <2>3, <4>2
    <3>3. Lag(s, c) > 0 /\ Lag(r, d) = Lag(s, c) - 1
      BY <1>1, <2>5, <3>1, <3>2
    <3> QED
      BY <1>2, <2>1, <2>2, <3>1, <3>2, <3>3 DEF Stacks!Next, Stacks!CatchUp
  <2> QED
    BY <1>1, <2>4, <2>5
<1>7. CASE TruncateLog
  <2>1. live' = live /\ log' = Truncate(log) /\ c < Len(s)
    BY <1>0, <1>1, <1>7 DEF TruncateLog, CanTruncate
  <2>2. r = SubSeq(s, 1, c) /\ d = c
    BY <1>0, <2>1, TruncateFields
  <2>3. Len(r) = d /\ d >= Len(r)
    BY <1>1, <2>1, <2>2, Piece, SMTT(40)
  <2>4. Past(r, d) = r /\ Future(r, d) = << >> /\ Lag(r, d) = 0
    BY <1>1, <2>3, Beyond, SMTT(40)
  <2>5. Past(s, c) = SubSeq(s, 1, c) /\ Lag(s, c) = 0
    <3>1. s \in Seq(Values) /\ c \in Nat /\ c <= Len(s)
      BY <1>1, <2>1
    <3> QED
      BY <3>1, Within
  <2> QED
    BY <1>2, <2>1, <2>2, <2>4, <2>5 DEF Stacks!Next, Stacks!GiveUpFuture
<1>8. ASSUME NEW b \in BOOLEAN, TruncateBackLog(b) PROVE Stacks!Next
  <2> DEFINE t == SubSeq(s, 1, Len(s) - 1)
  <2>1. live' = live /\ log' = TruncateBack(log, b) /\ s # << >>
    BY <1>8 DEF TruncateBackLog
  <2>2. Len(s) > 0
    BY <1>1, <2>1, EmptySeq
  <2>3. t \in Seq(Values) /\ Len(t) = Len(s) - 1 /\ Stacks!AllButLast(s) = t
    BY <1>1, <2>2, ShortenedTo, SMTT(40) DEF Stacks!AllButLast
  <2>4. r = t /\ d = IF b THEN Len(s) - 1 ELSE c
    <3>1. r = t /\ d = IF b THEN Len(t) ELSE c
      BY <1>0, <2>1, TruncateBackFields
    <3> HIDE DEF t
    <3> QED
      BY <2>3, <3>1
  <2> HIDE DEF t
  <2>5. CASE c < Len(s)
    <3>1. /\ SubSeq(t, 1, c) = SubSeq(s, 1, c)
          /\ Future(t, c) = Stacks!AllButLast(Future(s, c))
          /\ Len(Future(s, c)) = Len(s) - c
          /\ Past(s, c) \o Future(s, c) = s
      BY ONLY <1>1, <2>2, <2>5, ShortenedTo, ZenonT(30), SMTT(60) DEF t
    <3>2. Past(s, c) = SubSeq(s, 1, c) /\ Lag(s, c) = 0 /\ Past(t, c) = SubSeq(t, 1, c) /\ Lag(t, c) = 0
      <4>1. /\ s \in Seq(Values) /\ c \in Nat /\ c <= Len(s)
            /\ t \in Seq(Values) /\ c <= Len(t)
        BY <1>1, <2>3, <2>5
      <4>2. Past(s, c) = SubSeq(s, 1, c) /\ Lag(s, c) = 0
        BY <4>1, Within
      <4>3. Past(t, c) = SubSeq(t, 1, c) /\ Lag(t, c) = 0
        BY <4>1, Within
      <4> QED
        BY <4>2, <4>3
    <3>3. Future(s, c) # << >>
      <4> SUFFICES ASSUME Future(s, c) = << >> PROVE FALSE
        OBVIOUS
      <4>1. Len(Future(s, c)) = 0
        BY EmptySeq
      <4> QED
        BY <1>1, <2>5, <3>1, <4>1
    <3>4. CASE b
      <4>1. Past(r, d) = t /\ Future(r, d) = << >> /\ Lag(r, d) = 0
        <5>1. Len(r) = d /\ d >= Len(r) /\ r = t
          BY <1>1, <2>3, <2>4, <3>4
        <5> QED
          BY <1>1, <5>1, Beyond, SMTT(40)
      <4>2. Lag(r, d) = Lag(s, c)
        BY <3>2, <4>1
      <4> QED
        BY ONLY <1>2, <2>1, <2>3, <3>1, <3>3, <4>1, <4>2, ZenonT(60) DEF Stacks!Next, Stacks!DropNewestAndCatchUp
    <3>5. CASE ~b
      <4>1. r = t /\ d = c
        BY <2>4, <3>5
      <4> QED
        BY <1>2, <2>1, <3>1, <3>2, <3>3, <4>1, ZenonT(60) DEF Stacks!Next, Stacks!DropNewest
    <3> QED
      BY <3>4, <3>5
  <2>6. CASE c >= Len(s)
    <3>1. Past(s, c) = s /\ Future(s, c) = << >> /\ Lag(s, c) = c - Len(s)
      BY <1>1, <2>6, Beyond, SMTT(40)
    <3>2. Past(r, d) = t /\ Future(r, d) = << >> /\ Lag(r, d) = d - (Len(s) - 1)
      <4>1. Len(r) = Len(s) - 1 /\ d >= Len(r) /\ r = t
        BY <1>1, <2>3, <2>4, <2>6
      <4> QED
        BY <1>1, <4>1, Beyond, SMTT(40)
    <3>3. Lag(r, d) \in {0, Lag(s, c) + 1}
      BY <1>1, <2>4, <3>1, <3>2, SMTT(30), ZenonT(30)
    <3> QED
      BY <1>2, <2>1, <2>3, <3>1, <3>2, <3>3, ZenonT(30), SMTT(30) DEF Stacks!Next, Stacks!DropStored
  <2> QED
    BY <1>1, <2>5, <2>6
<1>9. CASE ClearLog
  <2>1. live' = live /\ r = << >> /\ d = 0
    BY <1>9 DEF ClearLog, EmptyLog
  <2>2. Len(r) = 0 /\ d >= Len(r)
    BY <2>1, EmptySeq
  <2>3. Past(r, d) = r /\ Future(r, d) = << >> /\ Lag(r, d) = d - Len(r)
    BY <1>1, <2>2, Beyond
  <2>4. Lag(r, d) = 0
    BY <2>1, <2>2, <2>3
  <2> QED
    BY <1>2, <2>1, <2>3, <2>4 DEF Stacks!Next, Stacks!Forget
<1>10. CASE FirstUndo
  <2> DEFINE t == Append(s, live)
             b == c - 1
  <2>1. c = Len(s) /\ c > 0 /\ live' = UndoValue(StoreBack(log, live)) /\ log' = UndoLog(StoreBack(log, live))
    BY <1>0, <1>1, <1>10 DEF FirstUndo, AtLiveValue, CanUndo
  <2>2. StoreBack(log, live) \in Log /\ StoreBack(log, live).snapshots = t /\ StoreBack(log, live).cursor = c
    BY <1>0, <1>1, LogOperations, StoreBackFields
  <2>3. /\ t \in Seq(Values) /\ Len(t) = c + 1 /\ t[c] = s[c] /\ t[c + 1] = live
    <3>1. c \in 1 .. Len(s)
      BY <1>1, <2>1
    <3> QED
      BY <1>1, <2>1, <3>1, AppendProperties, SMTT(40)
  <2>4. b \in Nat /\ b < Len(s) /\ b < Len(t) /\ b + 1 = c /\ b <= Len(s)
    BY <1>1, <2>1, <2>3
  <2>5. SubSeq(t, 1, b) = SubSeq(s, 1, b)
    BY <1>1, <2>4, AppendedTo, SMTT(40)
  <2> HIDE DEF t, b
  <2>6. r = t /\ d = b /\ live' = s[c]
    <3>1. b = c - 1
      BY DEF b
    <3>2. r = t /\ d = b
      BY <2>1, <2>2, <3>1, SeekFields
    <3>3. live' = t[c]
      BY <2>1, <2>2 DEF UndoValue
    <3> QED
      BY <2>3, <3>2, <3>3
  <2>7. Past(s, c) = s /\ Future(s, c) = << >> /\ Lag(s, c) = 0
    BY <1>1, <2>1, Beyond, SMTT(40)
  <2>8. Past(r, d) = SubSeq(t, 1, b) /\ Lag(r, d) = 0
    <3>1. t \in Seq(Values) /\ b \in Nat /\ b <= Len(t)
      BY <2>3, <2>4
    <3>2. Past(t, b) = SubSeq(t, 1, b) /\ Lag(t, b) = 0
      BY <3>1, Within, SMTT(40)
    <3> QED
      BY <2>6, <3>2
  <2>9. /\ SubSeq(s, 1, c) = s
        /\ SubSeq(s, 1, b) = Stacks!AllButLast(s)
        /\ s # << >>
        /\ Stacks!LastOf(s) = s[c]
    <3>1. SubSeq(s, 1, c) = s
      BY <1>1, <2>1, SubSeqFull
    <3>2. /\ SubSeq(s, 1, b) = Stacks!AllButLast(SubSeq(s, 1, b + 1))
          /\ SubSeq(s, 1, b + 1) # << >>
          /\ Stacks!LastOf(SubSeq(s, 1, b + 1)) = s[b + 1]
      BY ONLY <1>1, <2>4, MovedOver, ZenonT(60)
    <3> QED
      BY <2>4, <3>1, <3>2
  <2>10. Future(r, d) = <<s[c], live>>
    <3>1. c \in Nat \ {0} /\ c + 1 \in Nat /\ c + 1 <= Len(t) /\ c <= c + 1 + 1
          /\ c + 1 - c + 1 = 2 /\ c + 1 - 1 = c /\ c + 2 - 1 = c + 1 /\ Len(t) = c + 1
      BY <1>1, <2>1, <2>3
    <3> DEFINE g == SubSeq(t, c, c + 1)
    <3>2. g \in Seq(Values) /\ Len(g) = 2 /\ g[1] = t[c] /\ g[2] = t[c + 1]
      <4>1. /\ g \in Seq(Values) /\ Len(g) = c + 1 - c + 1
            /\ \A i \in 1 .. c + 1 - c + 1 : g[i] = t[c + i - 1]
        <5> DEFINE k == c + 1
        <5>1. c \in Nat \ {0} /\ k \in Nat /\ k <= Len(t) /\ c <= k + 1
          BY <3>1
        <5> HIDE DEF k
        <5>2. /\ SubSeq(t, c, k) \in Seq(Values) /\ Len(SubSeq(t, c, k)) = k - c + 1
              /\ \A i \in 1 .. k - c + 1 : SubSeq(t, c, k)[i] = t[c + i - 1]
          <6>1. t \in Seq(Values)
            BY <2>3
          <6> QED
            BY ONLY <5>1, <6>1, Piece, SMTT(30), ZenonT(60)
        <5> QED
          BY <5>2 DEF k
      <4>2. 1 \in 1 .. 2 /\ 2 \in 1 .. 2
        OBVIOUS
      <4> HIDE DEF g
      <4> QED
        BY ONLY <3>1, <4>1, <4>2, SMTT(30), ZenonT(60)
    <3>3. Future(r, d) = g
      BY <2>4, <2>6, <3>1 DEF Future
    <3>4. s[c] \in Values
      <4>1. c \in 1 .. Len(s)
        BY <1>1, <2>1
      <4> QED
        BY <1>1, <4>1, ElementOfSeq
    <3> DEFINE h == <<s[c], live>>
    <3>5. h \in Seq(Values) /\ Len(h) = 2 /\ h[1] = s[c] /\ h[2] = live
      BY <1>1, <3>4
    <3> HIDE DEF g, h
    <3>6. \A i \in 1 .. 2 : i = 1 \/ i = 2
      OBVIOUS
    <3>7. \A i \in 1 .. Len(g) : g[i] = h[i]
      BY <2>3, <3>2, <3>5, <3>6
    <3>8. g = h
      BY <3>2, <3>5, <3>7, SeqEqual, SMTT(30), ZenonT(30)
    <3> QED
      BY <3>3, <3>8 DEF h
  <2> QED
    BY <1>2, <2>5, <2>6, <2>7, <2>8, <2>9, <2>10 DEF Stacks!Next, Stacks!Undo
<1>11. CASE FurtherUndo
  <2> DEFINE b == c - 1
  <2>1. c < Len(s) /\ c > 0 /\ live' = s[c] /\ r = s /\ d = b
    <3>1. c < Len(s) /\ c > 0 /\ log' = UndoLog(log) /\ live' = s[c]
      BY <1>0, <1>1, <1>11 DEF FurtherUndo, AtLiveValue, CanUndo, UndoValue
    <3> QED
      BY <1>0, <3>1, SeekFields
  <2>2. b \in Nat /\ b < Len(s) /\ b + 1 = c
    BY <1>1, <2>1
  <2> HIDE DEF b
  <2>3. /\ Future(s, b) = <<s[c]>> \o Future(s, c)
        /\ SubSeq(s, 1, b) = Stacks!AllButLast(SubSeq(s, 1, c))
        /\ SubSeq(s, 1, c) # << >>
        /\ Stacks!LastOf(SubSeq(s, 1, c)) = s[c]
    <3>1. /\ Future(s, b) = <<s[b + 1]>> \o Future(s, b + 1)
          /\ SubSeq(s, 1, b) = Stacks!AllButLast(SubSeq(s, 1, b + 1))
          /\ SubSeq(s, 1, b + 1) # << >>
          /\ Stacks!LastOf(SubSeq(s, 1, b + 1)) = s[b + 1]
      BY ONLY <1>1, <2>2, MovedOver, ZenonT(60)
    <3> QED
      BY <2>2, <3>1
  <2>4. Past(s, c) = SubSeq(s, 1, c) /\ Past(s, b) = SubSeq(s, 1, b) /\ Lag(s, c) = 0 /\ Lag(s, b) = 0
    <3>1. s \in Seq(Values) /\ c \in Nat /\ c <= Len(s) /\ b \in Nat /\ b <= Len(s)
      BY <1>1, <2>1, <2>2
    <3>2. Past(s, c) = SubSeq(s, 1, c) /\ Lag(s, c) = 0
      BY <3>1, Within
    <3>3. Past(s, b) = SubSeq(s, 1, b) /\ Lag(s, b) = 0
      BY <3>1, Within
    <3> QED
      BY <3>2, <3>3
  <2> QED
    BY <1>2, <2>1, <2>3, <2>4 DEF Stacks!Next, Stacks!Undo
<1>12. CASE Redo
  <2>1. c < Len(s) /\ live' = s[c + 1] /\ r = s /\ d = c + 1
    <3>1. c < Len(s) /\ live' = s[c + 1] /\ log' = RedoLog(log)
      BY <1>0, <1>1, <1>12 DEF Redo, CanRedo, RedoValue
    <3> QED
      BY <1>0, <3>1, SeekFields
  <2>2. /\ Future(s, c) # << >>
        /\ Head(Future(s, c)) = s[c + 1]
        /\ Tail(Future(s, c)) = Future(s, c + 1)
        /\ SubSeq(s, 1, c + 1) = Append(SubSeq(s, 1, c), s[c + 1])
    BY <1>1, <2>1, MovedOver, ZenonT(30), SMTT(30)
  <2>3. Past(s, c) = SubSeq(s, 1, c) /\ Lag(s, c) = 0
    <3>1. s \in Seq(Values) /\ c \in Nat /\ c <= Len(s)
      BY <1>1, <2>1
    <3> QED
      BY <3>1, Within
  <2>4. Past(s, c + 1) = SubSeq(s, 1, c + 1) /\ Lag(s, c + 1) = 0
    <3>1. s \in Seq(Values) /\ c + 1 \in Nat /\ c + 1 <= Len(s)
      BY <1>1, <2>1
    <3> DEFINE e == c + 1
    <3> HIDE DEF e
    <3>2. e \in Nat /\ e <= Len(s)
      BY <3>1 DEF e
    <3>3. Past(s, e) = SubSeq(s, 1, e) /\ Lag(s, e) = 0
      BY <3>1, <3>2, Within
    <3> QED
      BY <3>3 DEF e
  <2> QED
    BY ONLY <1>2, <2>1, <2>2, <2>3, <2>4, ZenonT(60) DEF Stacks!Next, Stacks!Redo
<1> QED
  BY <1>3, <1>4, <1>5, <1>6, <1>7, <1>8, <1>9, <1>10, <1>11, <1>12 DEF LogNext, Stacks!Next

(* util::HistoryLog is a pair of undo and redo stacks: every member        *)
(* function of the log does to what lies before and behind the cursor what *)
(* the stacks allow, whatever the values and in whatever order.            *)
THEOREM RefinesUndoStacks == LogSpec => ImplementsUndoStacks
<1>1. LogInit => Stacks!Init
  <2> SUFFICES ASSUME LogInit PROVE Stacks!Init
    OBVIOUS
  <2>1. log.snapshots = << >> /\ log.cursor = 0 /\ live \in Values
    BY DEF LogInit, EmptyLog
  <2> DEFINE e == << >>
             z == 0
  <2>2. Len(e) = z /\ e \in Seq(Values) /\ z \in Nat /\ z - z = z
    BY EmptySeq
  <2> HIDE DEF e, z
  <2>3. z >= Len(e) /\ z - Len(e) = z
    BY <2>2
  <2>4. Past(e, z) = e /\ Future(e, z) = << >> /\ Lag(e, z) = z
    BY <2>2, <2>3, Beyond, SMTT(40)
  <2>5. Past(e, 0) = e /\ Future(e, 0) = << >> /\ Lag(e, 0) = 0
    BY <2>4 DEF z
  <2>6. log.snapshots = e
    BY <2>1 DEF e
  <2>7. /\ Past(log.snapshots, log.cursor) = << >> /\ Future(log.snapshots, log.cursor) = << >>
        /\ Lag(log.snapshots, log.cursor) = 0
    BY <2>1, <2>5, <2>6
  <2> QED
    BY <2>1, <2>7 DEF Stacks!Init, Past, Future, Lag, Size
<1>2. LogTypeOK /\ LogTypeOK' /\ [LogNext]_logVars => [Stacks!Next]_(Stacks!vars)
  <2> SUFFICES ASSUME LogTypeOK, LogTypeOK', [LogNext]_logVars, ~Stacks!Next
               PROVE  UNCHANGED Stacks!vars
    OBVIOUS
  <2> DEFINE s == log.snapshots
             c == log.cursor
  <2>1. live' = live /\ Past(s', c') = Past(s, c) /\ Future(s', c') = Future(s, c) /\ Lag(s', c') = Lag(s, c)
    BY StackStep
  <2> QED
    BY <2>1 DEF Stacks!vars, Past, Future, Lag, Size, Least
<1> QED
  BY <1>1, <1>2, LogTypeCorrect, PTL DEF LogSpec, ImplementsUndoStacks, Stacks!Spec
-----------------------------------------------------------------------------
(* The input of a player.                                                  *)

PadRange == {PadButton[x] : x \in PadButtons} \cup {Virtual}

(* A release of button b that a gamepad p of the player still owes. *)
OwedBy(p, b) ==
  \/ \E x \in PadButtons : <<p, x>> \in queue["padUp"] /\ PadButton[x] = b
  \/ b = Virtual /\ Virtual \in heldBefore /\ \E t \in Tilts \ {Full} : <<p, t>> \in queue["tilt"]
  \/ p \in queue["disconnected"] /\ b \in PadRange

Reason(b) ==
  \/ KeyHolds(b)
  \/ \E p \in bound : PadHolds(p, b)
  \/ /\ phase = "update"
     /\ \/ \E k \in queue["up"] : KeyButton[k] = b
        \/ \E p \in bound : OwedBy(p, b)

Reasons == \A b \in held \ orphans : Reason(b)

(* Nothing changes the state of the player between two updates. *)
Settled ==
  /\ phase = "frame" => heldBefore = held
  /\ ~changed => heldBefore = held

(* Every release since the snapshot is queued. *)
ReleasesQueued ==
  /\ phase = "frame" =>
       \A p \in Pads : \A x \in padSeen[p].buttons \ padNext[p].buttons : <<p, x>> \in queue["padUp"]
  /\ phase = "update" => padSeen = padNext

UnbindingQueued == bound \ plugged \subseteq queue["disconnected"]

QueuesFollow ==
  /\ queue["down"] \subseteq keysSeen
  /\ \A p \in Pads : \A x \in PadButtons :
       <<p, x>> \in queue["padDown"] => x \in padSeen[p].buttons
  /\ \A p \in Pads : \A t \in Tilts :
       <<p, t>> \in queue["tilt"] => t = padSeen[p].tilt
  /\ phase = "frame" => queue["down"] = {} /\ queue["padDown"] = {} /\ queue["tilt"] = {}

Unallocated == ~allocated => held = {} /\ bound = {}

IInv ==
  /\ TypeOK /\ Settled /\ ReleasesQueued /\ UnbindingQueued
  /\ QueuesFollow /\ Unallocated /\ Reasons

USE ProfilesAssumption, OrderAssumption, HatsAssumption, FullAssumption, BoundAssumption
    DEF Kinds, Tilts

LEMMA InitInv == ASSUME Init PROVE IInv
<1>1. DevicesTypeOK
  <2>1. Untouched \in [buttons : SUBSET PadButtons, tilt : Tilts]
    BY DEF Untouched
  <2>2. \A t \in Kinds : queue[t] = {}
    BY DEF Init, DevicesInit
  <2> QED
    BY <2>1, <2>2 DEF Init, DevicesInit, DevicesTypeOK
<1>2. TypeOK
  <2>1. listeners \in 0 .. MaxListeners
    BY DEF Init
  <2> QED
    BY <1>1, <2>1 DEF Init, TypeOK
<1> QED
  BY <1>2 DEF Init, DevicesInit, IInv, Settled, ReleasesQueued, UnbindingQueued, QueuesFollow,
     Unallocated, Reasons

(* Steps that change neither the state of the player nor what the last poll *)
(* saw, and take nothing from the queues that the state depends on.         *)
LEMMA ListenInv == ASSUME IInv, StartListening \/ StopListening PROVE IInv'
<1>1. CASE StartListening
  <2>1. TypeOK'
    BY <1>1 DEF IInv, TypeOK, DevicesTypeOK, StartListening, devices, keyboard, state
  <2>2. bound \subseteq bound'
    BY <1>1 DEF StartListening
  <2>3. Reasons'
    BY <1>1, <2>2, ZenonT(30), SMTT(60) DEF IInv, StartListening, devices, keyboard, state, Reasons, Reason, OwedBy, KeyHolds,
       PadHolds
  <2> QED
    BY <1>1, <2>1, <2>3 DEF IInv, StartListening, devices, keyboard, state, Settled, ReleasesQueued,
       UnbindingQueued, QueuesFollow, Unallocated
<1>2. CASE StopListening
  <2>1. CASE listeners = 1
    <3>1. DevicesTypeOK' /\ listeners' \in 0 .. MaxListeners
      BY <1>2, <2>1 DEF IInv, StopListening, TypeOK, DevicesTypeOK, devices, keyboard
    <3>2. TypeOK'
      BY <1>2, <2>1, <3>1 DEF IInv, StopListening, TypeOK, ClearInputData
    <3> QED
      BY <1>2, <2>1, <3>2 DEF IInv, StopListening, ClearInputData, devices, keyboard,
         Settled, ReleasesQueued, UnbindingQueued, QueuesFollow, Unallocated, Reasons
  <2>2. CASE listeners # 1
    <3>1. TypeOK'
      BY <1>2, <2>2 DEF IInv, TypeOK, DevicesTypeOK, StopListening, devices, keyboard, state
    <3>2. Reasons'
      BY <1>2, <2>2 DEF IInv, StopListening, devices, keyboard, state, Reasons, Reason, OwedBy, KeyHolds, PadHolds
    <3> QED
      BY <1>2, <2>2, <3>1, <3>2 DEF IInv, StopListening, devices, keyboard, state, Settled, ReleasesQueued,
         UnbindingQueued, QueuesFollow, Unallocated
  <2> QED
    BY <2>1, <2>2
<1> QED
  BY <1>1, <1>2

LEMMA LockInv == ASSUME IInv, Lock PROVE IInv'
<1>1. TypeOK'
  BY DEF IInv, TypeOK, DevicesTypeOK, Lock, ToggleLock, keyboard, state
<1>2. Reasons'
  BY ZenonT(30), SMTT(60) DEF IInv, Lock, ToggleLock, keyboard, state, Reasons, Reason, OwedBy, KeyHolds, PadHolds
<1> QED
  BY <1>1, <1>2 DEF IInv, Lock, ToggleLock, keyboard, state, Settled, ReleasesQueued,
     UnbindingQueued, QueuesFollow, Unallocated

(* An update begins: what a snapshot held and the next one does not is a *)
(* release in the queues, or belongs to a gamepad that is gone.          *)
LEMMA BeginInv == ASSUME IInv, BeginUpdate PROVE IInv'
<1> USE DEF IInv, BeginUpdate, Poll, keyboard, state
<1>1. TypeOK'
  <2>1. DOMAIN queue' = Kinds
    BY DEF TypeOK, DevicesTypeOK
  <2>2. /\ queue'["down"] \subseteq Keys /\ queue'["up"] \subseteq Keys
        /\ queue'["connected"] \subseteq Pads /\ queue'["disconnected"] \subseteq Pads
        /\ queue'["padUp"] \subseteq Pads \X PadButtons
    BY DEF TypeOK, DevicesTypeOK, KeyDowns, KeyUps
  <2>3. queue'["padDown"] \subseteq Pads \X PadButtons /\ queue'["tilt"] \subseteq Pads \X Tilts
    BY DEF TypeOK, DevicesTypeOK, Tilted
  <2>4. keysSeen' \subseteq Keys
    BY DEF TypeOK, DevicesTypeOK, Snapshot
  <2> QED
    BY <2>1, <2>2, <2>3, <2>4 DEF TypeOK, DevicesTypeOK
<1>2. Settled' /\ ReleasesQueued' /\ UnbindingQueued' /\ Unallocated'
  BY DEF TypeOK, DevicesTypeOK, Settled, ReleasesQueued, UnbindingQueued, Unallocated
<1>3. QueuesFollow'
  BY DEF TypeOK, DevicesTypeOK, QueuesFollow, KeyDowns, Snapshot, Tilted
<1>4. Reasons'
  <2> SUFFICES ASSUME NEW b \in held \ orphans PROVE Reason(b)'
    BY DEF Reasons
  <2>1. heldBefore = held /\ held' = held /\ heldBefore' = heldBefore /\ phase' = "update" /\ bound' = bound
    BY DEF Settled
  <2>2. CASE KeyHolds(b)
    BY <2>1, <2>2 DEF Reason, KeyHolds, Snapshot, KeyUps, TypeOK, DevicesTypeOK
  <2>3. ASSUME NEW p \in bound, PadHolds(p, b) PROVE Reason(b)'
    <3>1. p \in Pads /\ padSeen' = padNext
      BY DEF TypeOK
    <3>2. CASE \E x \in padSeen[p].buttons : PadButton[x] = b
      <4>1. PICK x \in padSeen[p].buttons : PadButton[x] = b
        BY <3>2
      <4>2. x \in PadButtons
        BY <3>1 DEF TypeOK, DevicesTypeOK
      <4>3. CASE x \in padNext[p].buttons
        BY <2>1, <3>1, <4>1, <4>3 DEF Reason, PadHolds
      <4>4. CASE x \notin padNext[p].buttons
        <5>1. <<p, x>> \in queue'["padUp"]
          BY <3>1, <4>1, <4>4 DEF ReleasesQueued, TypeOK, DevicesTypeOK
        <5> QED
          BY <2>1, <4>1, <4>2, <5>1 DEF Reason, OwedBy
      <4> QED
        BY <4>3, <4>4
    <3>3. CASE b = Virtual /\ padSeen[p].tilt = Full
      <4>1. CASE padNext[p].tilt = Full
        BY <2>1, <3>1, <3>3, <4>1 DEF Reason, PadHolds
      <4>2. CASE padNext[p].tilt # Full /\ p \in plugged
        <5>1. <<p, padNext[p].tilt>> \in queue'["tilt"]
          BY <3>1, <3>3, <4>2 DEF Tilted, TypeOK, DevicesTypeOK
        <5>2. padNext[p].tilt \in Tilts \ {Full}
          BY <3>1, <4>2 DEF TypeOK, DevicesTypeOK
        <5> QED
          BY <2>1, <3>3, <5>1, <5>2 DEF Reason, OwedBy
      <4>3. CASE p \notin plugged
        <5>1. p \in queue'["disconnected"]
          BY <4>3 DEF UnbindingQueued, TypeOK, DevicesTypeOK
        <5> QED
          BY <2>1, <3>3, <5>1 DEF Reason, OwedBy, PadRange
      <4> QED
        BY <4>1, <4>2, <4>3
    <3> QED
      BY <2>3, <3>2, <3>3 DEF PadHolds
  <2> QED
    BY <2>1, <2>2, <2>3 DEF Reasons, Reason
<1> QED
  BY <1>1, <1>2, <1>3, <1>4
(* The events of SDL: a release is queued if the snapshot saw the button. *)
LEMMA PlayInv == ASSUME IInv, Play PROVE IInv'
<1> USE DEF IInv, Play, keyboard, state
<1>1. phase = "frame" /\ phase' = "frame" /\ keysSeen' = keysSeen /\ padSeen' = padSeen /\ bound' = bound
      /\ held' = held /\ orphans' = orphans /\ heldBefore' = heldBefore /\ changed' = changed /\ allocated' = allocated
      /\ listeners' = listeners /\ pressed' = pressed /\ released' = released
  BY DEF MoveKey, Plug, Unplug, PadPress, PadRelease, PadTilt
<1>2. Settled' /\ Unallocated' /\ Reasons'
  BY <1>1 DEF Settled, Unallocated, Reasons, Reason, KeyHolds, PadHolds
<1>3. DevicesTypeOK' /\ ReleasesQueued' /\ UnbindingQueued' /\ QueuesFollow'
  <2> USE DEF TypeOK, DevicesTypeOK, ReleasesQueued, UnbindingQueued, QueuesFollow, Enqueue
  <2>1. ASSUME NEW k \in Keys, MoveKey(k) PROVE <1>3!:
    BY <1>1, <2>1 DEF MoveKey
  <2>2. ASSUME NEW p \in Pads, Plug(p) PROVE <1>3!:
    BY <1>1, <2>2 DEF Plug
  <2>3. ASSUME NEW p \in Pads, Unplug(p) PROVE <1>3!:
    BY <1>1, <2>3 DEF Unplug
  <2>4. ASSUME NEW p \in Pads, NEW x \in PadButtons, PadPress(p, x) PROVE <1>3!:
    BY <1>1, <2>4, SMTT(60) DEF PadPress
  <2>5. ASSUME NEW p \in Pads, NEW x \in PadButtons, PadRelease(p, x) PROVE <1>3!:
    <3>1. /\ DOMAIN queue' = Kinds
          /\ \A t \in Kinds \ {"padUp"} : queue'[t] = queue[t]
          /\ queue["padUp"] \subseteq queue'["padUp"] /\ queue'["padUp"] \subseteq queue["padUp"] \cup {<<p, x>>}
          /\ x \in padSeen[p].buttons => <<p, x>> \in queue'["padUp"]
      BY <2>5 DEF PadRelease
    <3>2. padNext' = [padNext EXCEPT ![p].buttons = @ \ {x}] /\ UNCHANGED <<locked, keysDown, plugged>>
      BY <2>5 DEF PadRelease
    <3>3. padNext' \in [Pads -> [buttons : SUBSET PadButtons, tilt : Tilts]]
      BY <3>2
    <3>4. DevicesTypeOK'
      <4>1. queue'["padUp"] \subseteq Pads \X PadButtons
        BY <3>1
      <4>2. \A t \in Kinds \ {"padUp"} : queue'[t] = queue[t]
        BY <3>1
      <4> QED
        BY <1>1, <3>1, <3>2, <3>3, <4>1, <4>2
    <3>5. ReleasesQueued'
      <4> SUFFICES ASSUME NEW q \in Pads, NEW y \in padSeen[q].buttons, y \notin padNext'[q].buttons
                   PROVE  <<q, y>> \in queue'["padUp"]
        BY <1>1
      <4>1. CASE y \in padNext[q].buttons
        <5>1. q = p /\ y = x
          BY <3>2, <4>1
        <5> QED
          BY <3>1, <5>1
      <4>2. CASE y \notin padNext[q].buttons
        BY <1>1, <3>1, <4>2
      <4> QED
        BY <4>1, <4>2
    <3> QED
      BY <1>1, <3>1, <3>2, <3>4, <3>5
  <2>6. ASSUME NEW p \in Pads, NEW t \in Tilts, PadTilt(p, t) PROVE <1>3!:
    BY <1>1, <2>6, SMTT(60) DEF PadTilt
  <2> QED
    BY <2>1, <2>2, <2>3, <2>4, <2>5, <2>6
<1> QED
  BY <1>1, <1>2, <1>3 DEF TypeOK

LEMMA EndInv == ASSUME IInv, EndUpdate PROVE IInv'
<1> USE DEF IInv, EndUpdate, Drained, devices, keyboard, state
<1>1. TypeOK'
  BY DEF TypeOK, DevicesTypeOK
<1>2. Settled' /\ ReleasesQueued' /\ UnbindingQueued' /\ Unallocated' /\ QueuesFollow'
  BY DEF Settled, ReleasesQueued, UnbindingQueued, Unallocated, QueuesFollow
<1>3. Reasons'
  BY ZenonT(30), SMTT(30) DEF Settled, Reasons, Reason, OwedBy, KeyHolds, PadHolds
<1> QED
  BY <1>1, <1>2, <1>3
(* The handlers.  Each is given the facts about the rest of the step: the   *)
(* event leaves its queue and what the last poll saw is left alone.         *)
Published(t, e) ==
  /\ phase = "update"
  /\ e \in queue[t]
  /\ queue' = [queue EXCEPT ![t] = @ \ {e}]
  /\ UNCHANGED <<locked, keyboard, plugged, padNext, padSeen, phase, listeners>>

(* Nothing is queued, and all a held button rests on but the event stays. *)
LEMMA QueueShrinks ==
  ASSUME IInv, NEW t \in Kinds, NEW e, Published(t, e)
  PROVE  /\ DevicesTypeOK'
         /\ DOMAIN queue' = Kinds
         /\ \A u \in Kinds \ {t} : queue'[u] = queue[u]
         /\ queue'[t] = queue[t] \ {e}
         /\ QueuesFollow' /\ ReleasesQueued'
<1> USE DEF IInv, Published, keyboard
<1>1. /\ DOMAIN queue' = Kinds
      /\ \A u \in Kinds \ {t} : queue'[u] = queue[u]
      /\ queue'[t] = queue[t] \ {e}
  BY DEF TypeOK, DevicesTypeOK
<1>2. \A u \in Kinds : queue'[u] \subseteq queue[u]
  BY <1>1
<1>3. DevicesTypeOK'
  BY <1>1, <1>2 DEF TypeOK, DevicesTypeOK
<1>4. QueuesFollow'
  BY <1>2 DEF QueuesFollow
<1>5. ReleasesQueued'
  BY DEF ReleasesQueued
<1> QED
  BY <1>1, <1>3, <1>4, <1>5

(* What an event is the reason of: the button it releases. *)
Concerns(t, e, b) ==
  \/ t = "up" /\ KeyButton[e] = b
  \/ t = "padUp" /\ PadButton[e[2]] = b
  \/ t = "tilt" /\ b = Virtual /\ e \notin Pads \X {Full}
  \/ t = "disconnected"

LEMMA ReasonStays ==
  ASSUME IInv, NEW t \in Kinds, NEW e, Published(t, e), NEW b, ~Concerns(t, e, b),
         Reason(b), UNCHANGED <<bound, heldBefore>>
  PROVE  Reason(b)'
<1> USE DEF IInv, Published, keyboard
<1>1. CASE KeyHolds(b) \/ \E p \in bound : PadHolds(p, b)
  BY <1>1 DEF Reason, KeyHolds, PadHolds
<1>2. ASSUME NEW k \in queue["up"], KeyButton[k] = b PROVE Reason(b)'
  <2>1. k \in queue'["up"]
    BY <1>2, QueueShrinks DEF Concerns
  <2> QED
    BY <1>2, <2>1 DEF Reason
<1>3. ASSUME NEW p \in bound, OwedBy(p, b) PROVE Reason(b)'
  <2>1. OwedBy(p, b)'
    <3>1. ASSUME NEW x \in PadButtons, <<p, x>> \in queue["padUp"], PadButton[x] = b
          PROVE  <<p, x>> \in queue'["padUp"]
      BY <3>1, QueueShrinks DEF Concerns
    <3>2. ASSUME b = Virtual, NEW u \in Tilts \ {Full}, <<p, u>> \in queue["tilt"]
          PROVE  <<p, u>> \in queue'["tilt"]
      BY <3>2, QueueShrinks DEF Concerns
    <3>3. p \in queue["disconnected"] => p \in queue'["disconnected"]
      BY QueueShrinks DEF Concerns
    <3> QED
      BY <1>3, <3>1, <3>2, <3>3 DEF OwedBy
  <2> QED
    BY <1>3, <2>1 DEF Reason
<1> QED
  BY <1>1, <1>2, <1>3 DEF Reason

(* A button that goes down has a holder. *)
LEMMA DownInv ==
  ASSUME IInv, NEW t \in Kinds, t # "disconnected", t # "up", t # "padUp", NEW e, Published(t, e),
         NEW b \in Buttons, ButtonDown(b), KeyHolds(b) \/ \E p \in bound : PadHolds(p, b),
         t = "tilt" => e \in Pads \X {Full},
         allocated, UNCHANGED <<allocated, bound>>
  PROVE  IInv'
<1> USE DEF IInv, Published, keyboard, ButtonDown
<1>1. TypeOK'
  BY QueueShrinks, ZenonT(60) DEF TypeOK
<1>2. Settled' /\ UnbindingQueued' /\ Unallocated'
  BY QueueShrinks DEF Settled, UnbindingQueued, Unallocated
<1>3. Reasons'
  <2> SUFFICES ASSUME NEW c \in held' \ orphans PROVE Reason(c)'
    BY DEF Reasons
  <2>1. CASE c = b
    BY <2>1 DEF Reason, KeyHolds, PadHolds
  <2>2. CASE c # b
    <3>1. Reason(c)
      BY <2>2 DEF Reasons
    <3> QED
      BY <3>1, ReasonStays DEF Concerns
  <2> QED
    BY <2>1, <2>2
<1> QED
  BY <1>1, <1>2, <1>3, QueueShrinks

(* A button that goes up needs no reason any more; the event was none for *)
(* any other button.                                                       *)
LEMMA UpInv ==
  ASSUME IInv, NEW t \in Kinds, t # "disconnected", NEW e, Published(t, e),
         NEW b \in Buttons, ButtonUp(b),
         t = "up" => KeyButton[e] = b,
         t = "padUp" => PadButton[e[2]] = b,
         t = "tilt" => b = Virtual,
         allocated, UNCHANGED <<allocated, bound>>
  PROVE  IInv'
<1> USE DEF IInv, Published, keyboard, ButtonUp
<1>1. TypeOK'
  BY QueueShrinks, ZenonT(60) DEF TypeOK
<1>2. Settled' /\ UnbindingQueued' /\ Unallocated'
  BY QueueShrinks DEF Settled, UnbindingQueued, Unallocated
<1>3. Reasons'
  <2> SUFFICES ASSUME NEW c \in held' \ orphans' PROVE Reason(c)'
    BY DEF Reasons
  <2>1. c # b /\ Reason(c)
    BY DEF Reasons
  <2> QED
    <3>1. ~Concerns(t, e, c)
      BY <2>1 DEF Concerns
    <3> QED
      BY <2>1, <3>1, ReasonStays
<1> QED
  BY <1>1, <1>2, <1>3, QueueShrinks
LEMMA ConnectedInv ==
  ASSUME IInv, NEW p \in queue["connected"], Published("connected", p), OnConnected(p)
  PROVE  IInv'
<1> USE DEF IInv, Published, keyboard, OnConnected, state
<1>1. p \in Pads /\ bound \subseteq bound'
  BY DEF TypeOK, DevicesTypeOK
<1>2. TypeOK'
  <2>1. DevicesTypeOK'
    BY QueueShrinks
  <2> QED
    BY <1>1, <2>1 DEF TypeOK
<1>3. Settled' /\ UnbindingQueued' /\ Unallocated'
  BY QueueShrinks DEF Settled, UnbindingQueued, Unallocated
<1>4. \A u \in {"up", "padUp", "tilt", "disconnected"} : queue'[u] = queue[u]
  BY QueueShrinks
<1>5. Reasons'
  BY <1>1, <1>4 DEF Reasons, Reason, OwedBy, KeyHolds, PadHolds
<1> QED
  BY <1>2, <1>3, <1>5, QueueShrinks

LEMMA DisconnectedInv ==
  ASSUME IInv, NEW p \in queue["disconnected"], Published("disconnected", p), OnDisconnected(p)
  PROVE  IInv'
<1> USE DEF IInv, Published, keyboard, OnDisconnected, state
<1>1. TypeOK'
  BY QueueShrinks DEF TypeOK
<1>2. Settled' /\ UnbindingQueued' /\ Unallocated'
  BY QueueShrinks DEF Settled, UnbindingQueued, Unallocated
<1>3. /\ \A u \in {"up", "padUp", "tilt"} : queue'[u] = queue[u]
      /\ queue'["disconnected"] = queue["disconnected"] \ {p}
  BY QueueShrinks
<1>4. Reasons'
  <2> SUFFICES ASSUME NEW b \in held \ orphans, b \notin orphans' PROVE Reason(b)'
    BY DEF Reasons
  <2>1. Reason(b) /\ (p \in bound => b \notin PadRange)
    BY DEF Reasons, PadRange
  <2>2. CASE KeyHolds(b) \/ \E k \in queue["up"] : KeyButton[k] = b
    BY <2>2, <1>3 DEF Reason, KeyHolds
  <2>3. ASSUME NEW q \in bound, PadHolds(q, b) \/ OwedBy(q, b) PROVE Reason(b)'
    <3>1. b \in PadRange
      BY <2>3 DEF PadHolds, OwedBy, PadRange, TypeOK, DevicesTypeOK
    <3>2. q # p /\ q \in bound'
      BY <2>1, <2>3, <3>1
    <3>3. (PadHolds(q, b) \/ OwedBy(q, b))'
      BY <2>3, <1>3, <3>2 DEF PadHolds, OwedBy
    <3> QED
      BY <3>2, <3>3 DEF Reason
  <2> QED
    BY <2>1, <2>2, <2>3 DEF Reason
<1> QED
  BY <1>1, <1>2, <1>4, QueueShrinks

(* The keys: an event for a player without a state comes when no button is held. *)
LEMMA KeysInv ==
  ASSUME IInv, NEW t \in {"down", "up"}, NEW k \in queue[t], Published(t, k),
         t = "down" => OnKey(ButtonDown(KeyButton[k])), t = "up" => OnKey(ButtonUp(KeyButton[k]))
  PROVE  IInv'
<1> USE DEF OnKey
<1>1. k \in Keys /\ KeyButton[k] \in Buttons
  BY DEF IInv, TypeOK, DevicesTypeOK
<1>2. CASE allocated /\ t = "down"
  <2>1. KeyHolds(KeyButton[k])
    BY <1>2 DEF IInv, QueuesFollow, KeyHolds
  <2> QED
    BY <1>1, <1>2, <2>1, DownInv
<1>3. CASE allocated /\ t = "up"
  BY <1>1, <1>3, UpInv
<1>4. CASE ~allocated
  <2>1. UNCHANGED <<state, orphans, allocated, bound>>
    BY <1>4
  <2> QED
    BY <1>4, <2>1, QueueShrinks DEF IInv, Published, keyboard, state, TypeOK, Settled, UnbindingQueued, Unallocated, Reasons
<1> QED
  BY <1>2, <1>3, <1>4

(* The buttons of a gamepad: what is not the player's, or has gone, is no *)
(* reason, or has its removal in the queue.                               *)
LEMMA PadButtonsInv ==
  ASSUME IInv, NEW t \in {"padDown", "padUp"}, NEW p \in Pads, NEW x \in PadButtons,
         <<p, x>> \in queue[t], Published(t, <<p, x>>),
         t = "padDown" => OnPadButton(p, ButtonDown(PadButton[x])), t = "padUp" => OnPadButton(p, ButtonUp(PadButton[x]))
  PROVE  IInv'
<1> USE DEF OnPadButton
<1>1. PadButton[x] \in Buttons /\ (p \in bound => allocated)
  BY DEF IInv, Unallocated
<1>2. CASE p \in bound \cap plugged /\ t = "padDown"
  <2>1. PadHolds(p, PadButton[x])
    BY <1>2 DEF IInv, QueuesFollow, PadHolds
  <2> QED
    BY <1>1, <1>2, <2>1, DownInv
<1>3. CASE p \in bound \cap plugged /\ t = "padUp"
  BY <1>1, <1>3, UpInv
<1>4. CASE p \notin bound \cap plugged
  <2> USE DEF IInv, Published, keyboard, state
  <2>1. UNCHANGED <<state, orphans, allocated, bound>>
    BY <1>4
  <2>2. /\ queue'["up"] = queue["up"] /\ queue'["tilt"] = queue["tilt"]
        /\ queue'["disconnected"] = queue["disconnected"]
        /\ queue["padUp"] \ {<<p, x>>} \subseteq queue'["padUp"]
    BY QueueShrinks
  <2>3. ASSUME NEW b \in held \ orphans PROVE Reason(b)'
    <3>1. Reason(b)
      BY DEF Reasons
    <3>2. ASSUME p \in bound, PadButton[x] = b PROVE Reason(b)'
      <4>1. p \in queue'["disconnected"]
        BY <1>4, <2>2, <3>2 DEF UnbindingQueued
      <4> QED
        BY <2>1, <3>2, <4>1 DEF Reason, OwedBy, PadRange
    <3>3. ASSUME NEW q \in bound, OwedBy(q, b), ~(q = p /\ PadButton[x] = b) PROVE OwedBy(q, b)'
      BY <2>1, <2>2, <3>3 DEF OwedBy
    <3> QED
      BY <2>1, <2>2, <3>1, <3>2, <3>3 DEF Reason, KeyHolds, PadHolds
  <2> QED
    BY <2>1, <2>3, QueueShrinks DEF TypeOK, Settled, UnbindingQueued, Unallocated, Reasons
<1> QED
  BY <1>2, <1>3, <1>4

(* The sticks: a return to rest releases what was held before the update. *)
LEMMA TiltInv ==
  ASSUME IInv, NEW p \in Pads, NEW t \in Tilts, <<p, t>> \in queue["tilt"],
         Published("tilt", <<p, t>>), OnTilt(p, t)
  PROVE  IInv'
<1> USE DEF OnTilt
<1>1. p \in bound => allocated
  BY DEF IInv, Unallocated
<1>2. CASE p \in bound \cap plugged /\ t = Full
  <2>1. PadHolds(p, Virtual)
    BY <1>2 DEF IInv, QueuesFollow, PadHolds
  <2> QED
    BY <1>1, <1>2, <2>1, DownInv
<1>3. CASE p \in bound \cap plugged /\ t # Full /\ Virtual \in heldBefore
  BY <1>1, <1>3, UpInv
<1>4. CASE p \notin bound \cap plugged \/ (t # Full /\ Virtual \notin heldBefore)
  <2> USE DEF IInv, Published, keyboard, state
  <2>1. /\ UNCHANGED <<held, pressed, released, heldBefore, orphans, allocated, bound>>
        /\ changed' \in BOOLEAN /\ (~changed' => ~changed)
    BY <1>4 DEF TypeOK
  <2>2. /\ queue'["up"] = queue["up"] /\ queue'["padUp"] = queue["padUp"]
        /\ queue'["disconnected"] = queue["disconnected"]
        /\ queue["tilt"] \ {<<p, t>>} \subseteq queue'["tilt"]
    BY QueueShrinks
  <2>3. ASSUME NEW b \in held \ orphans PROVE Reason(b)'
    <3>1. Reason(b)
      BY DEF Reasons
    <3>2. ASSUME p \in bound \ plugged, b = Virtual PROVE Reason(b)'
      <4>1. p \in queue'["disconnected"]
        BY <2>2, <3>2 DEF UnbindingQueued
      <4> QED
        BY <2>1, <3>2, <4>1 DEF Reason, OwedBy, PadRange
    <3>3. ASSUME NEW q \in bound, OwedBy(q, b), ~(p \in bound \ plugged /\ b = Virtual) PROVE OwedBy(q, b)'
      BY <1>4, <2>1, <2>2, <3>3 DEF OwedBy
    <3> QED
      BY <2>1, <2>2, <3>1, <3>2, <3>3 DEF Reason, KeyHolds, PadHolds
  <2>4. TypeOK'
    <3>1. DevicesTypeOK'
      BY QueueShrinks
    <3> QED
      BY <2>1, <3>1 DEF TypeOK
  <2>5. Settled' /\ UnbindingQueued' /\ Unallocated' /\ Reasons'
    BY <2>1, <2>2, <2>3 DEF Settled, UnbindingQueued, Unallocated, Reasons
  <2> QED
    BY <2>4, <2>5, QueueShrinks
<1> QED
  BY <1>2, <1>3, <1>4

LEMMA PublishInv == ASSUME IInv, Publish PROVE IInv'
<1>1. PICK i \in DOMAIN Order : \E e \in queue[Order[i]] :
        /\ Turn(i) /\ Handle(Order[i], e)
        /\ queue' = [queue EXCEPT ![Order[i]] = @ \ {e}]
  BY DEF Publish
<1> DEFINE t == Order[i]
<1>2. PICK e \in queue[t] : Handle(t, e) /\ queue' = [queue EXCEPT ![t] = @ \ {e}]
  BY <1>1
<1>3. t \in Kinds
  OBVIOUS
<1> HIDE DEF t
<1>4. Published(t, e)
  BY <1>2 DEF Publish, Published
<1>5. CASE t \in {"down", "up"}
  BY <1>2, <1>4, <1>5, KeysInv DEF Handle
<1>6. CASE t = "connected"
  BY <1>2, <1>4, <1>6, ConnectedInv DEF Handle
<1>7. CASE t = "disconnected"
  BY <1>2, <1>4, <1>7, DisconnectedInv DEF Handle
<1>8. CASE t \in {"padDown", "padUp"}
  <2>1. e \in Pads \X PadButtons
    BY <1>2, <1>8 DEF IInv, TypeOK, DevicesTypeOK
  <2>2. PICK p \in Pads, x \in PadButtons : e = <<p, x>>
    BY <2>1
  <2> QED
    BY <1>2, <1>4, <1>8, <2>2, PadButtonsInv DEF Handle
<1>9. CASE t = "tilt"
  <2>1. e \in Pads \X Tilts
    BY <1>2, <1>9 DEF IInv, TypeOK, DevicesTypeOK
  <2>2. PICK p \in Pads, u \in Tilts : e = <<p, u>>
    BY <2>1
  <2> QED
    BY <1>2, <1>4, <1>9, <2>2, TiltInv DEF Handle
<1> QED
  BY <1>3, <1>5, <1>6, <1>7, <1>8, <1>9

(* The invariant holds of every behavior. *)
LEMMA Inductive == Spec => []IInv
<1>1. IInv /\ [Next]_vars => IInv'
  <2> SUFFICES ASSUME IInv, [Next]_vars PROVE IInv'
    OBVIOUS
  <2>1. CASE Next
    BY <2>1, PlayInv, BeginInv, PublishInv, EndInv, ListenInv, LockInv DEF Next
  <2>2. CASE UNCHANGED vars
    BY <2>2, ZenonT(60) DEF vars, devices, keyboard, state, IInv, TypeOK, DevicesTypeOK, Settled, ReleasesQueued,
       UnbindingQueued, QueuesFollow, Unallocated, Reasons, Reason, OwedBy, KeyHolds, PadHolds
  <2> QED
    BY <2>1, <2>2
<1> QED
  BY <1>1, InitInv, PTL DEF Spec

(* Type correctness of the input state, for all devices and profiles. *)
THEOREM TypeCorrect == Spec => []TypeOK
<1>1. IInv => TypeOK
  BY DEF IInv
<1> QED
  BY <1>1, Inductive, PTL

(* Between two updates only what something still holds is held, except for *)
(* the buttons of gamepads that were unplugged (InputSystem::on_update):    *)
(* whatever the devices, the profiles and the order of the queues.          *)
THEOREM NothingSticks == Spec => []OnlyOrphansStick
<1>1. IInv => OnlyOrphansStick
  BY DEF IInv, OnlyOrphansStick, Reasons, Reason
<1> QED
  BY <1>1, Inductive, PTL
----------------------------------------------------------------------------
(* The edges.  A button that several things give may be told to be down    *)
(* again while it is held, and then is no longer among the pressed.  With  *)
(* one source there is one event that tells it, until the next poll: while *)
(* the button is newly held that event is no longer queued.                *)

Pending(b) ==
  \/ \E k \in queue["down"] : KeyButton[k] = b
  \/ \E p \in Pads, x \in PadButtons : <<p, x>> \in queue["padDown"] /\ PadButton[x] = b
  \/ b = Virtual /\ \E p \in Pads : <<p, Full>> \in queue["tilt"]

Told ==
  /\ heldBefore \ held \subseteq released
  /\ pressed \subseteq held /\ released \cap held = {}
  /\ pressed \cup released # {} => changed

ToldOnce ==
  \A b \in held \ heldBefore : Sources(b) = 1 => b \in pressed /\ ~Pending(b)

(* The event e of the queue t is one that tells the button to be down. *)
Tells(t, e, b) ==
  \/ t = "down" /\ e \in Keys /\ KeyButton[e] = b
  \/ t = "padDown" /\ \E p \in Pads, x \in PadButtons : e = <<p, x>> /\ PadButton[x] = b
  \/ t = "tilt" /\ b = Virtual /\ \E p \in Pads : e = <<p, Full>>

(* The number of sources is a sum of a product: it is one in two ways.     *)
LEMMA One == ASSUME NEW a \in Nat, NEW b \in Nat, NEW c \in Nat, a + b * c = 1
             PROVE  \/ a = 1 /\ (b = 0 \/ c = 0)
                    \/ a = 0 /\ b = 1 /\ c = 1
<1>1. CASE b = 0
  BY <1>1
<1>2. CASE b = 1
  BY <1>2
<1>3. CASE b > 1
  <2>1. CASE c = 0
    BY <2>1
  <2>2. CASE c >= 1
    <3>1. b * c >= b * 1
      BY <2>2
    <3> QED
      BY <1>3, <3>1
  <2> QED
    BY <2>1, <2>2
<1> QED
  BY <1>1, <1>2, <1>3

(* Finite sets with no element or one.                                     *)
LEMMA AtMostOne == ASSUME NEW S, IsFiniteSet(S)
                   PROVE  /\ Cardinality(S) \in Nat
                          /\ Cardinality(S) = 0 => S = {}
                          /\ Cardinality(S) = 1 => \A x, y \in S : x = y
BY FS_CardinalityType, FS_EmptySet, FS_Singleton

(* A button with one source is told to be down by one event only. *)
LEMMA OneSource ==
  ASSUME NEW b \in Buttons, Sources(b) = 1, NEW t, NEW u, NEW e, NEW f, Tells(t, e, b), Tells(u, f, b)
  PROVE  t = u /\ e = f
<1> DEFINE keys == {k \in Keys : KeyButton[k] = b}
           buttons == {x \in PadButtons : PadButton[x] = b}
           stick == IF b = Virtual THEN 1 ELSE 0
<1>1. IsFiniteSet(keys) /\ IsFiniteSet(buttons) /\ IsFiniteSet(Pads)
  BY FiniteAssumption, FS_Subset
<1>2. /\ Cardinality(keys) \in Nat /\ Cardinality(buttons) \in Nat /\ Cardinality(Pads) \in Nat
      /\ Cardinality(keys) = 0 => keys = {}
      /\ Cardinality(buttons) = 0 => buttons = {}
      /\ Cardinality(Pads) = 0 => Pads = {}
      /\ Cardinality(keys) = 1 => \A x, y \in keys : x = y
      /\ Cardinality(buttons) = 1 => \A x, y \in buttons : x = y
      /\ Cardinality(Pads) = 1 => \A x, y \in Pads : x = y
  BY <1>1, AtMostOne
<1>3. Cardinality(keys) + Cardinality(Pads) * (Cardinality(buttons) + stick) = 1
  BY DEF Sources
<1>4. (stick = 0 \/ stick = 1) /\ (stick = 0 <=> b # Virtual)
  OBVIOUS
<1>5. /\ t = "down" => e \in keys
      /\ t = "padDown" => \E p \in Pads, x \in buttons : e = <<p, x>>
      /\ t = "tilt" => b = Virtual /\ \E p \in Pads : e = <<p, Full>>
      /\ t \in {"down", "padDown", "tilt"}
  BY DEF Tells
<1>6. /\ u = "down" => f \in keys
      /\ u = "padDown" => \E p \in Pads, x \in buttons : f = <<p, x>>
      /\ u = "tilt" => b = Virtual /\ \E p \in Pads : f = <<p, Full>>
      /\ u \in {"down", "padDown", "tilt"}
  BY DEF Tells
<1> HIDE DEF keys, buttons, stick
<1>7. \/ Cardinality(keys) = 1 /\ (Cardinality(Pads) = 0 \/ Cardinality(buttons) + stick = 0)
      \/ Cardinality(keys) = 0 /\ Cardinality(Pads) = 1 /\ Cardinality(buttons) + stick = 1
  <2>1. Cardinality(buttons) + stick \in Nat
    BY <1>2, <1>4
  <2> QED
    BY <1>2, <1>3, <2>1, One
<1>8. CASE Cardinality(keys) = 1
  <2>1. Pads = {} \/ (buttons = {} /\ b # Virtual)
    BY <1>2, <1>4, <1>7, <1>8
  <2>2. t = "down" /\ u = "down"
    BY <1>5, <1>6, <2>1
  <2> QED
    BY <1>2, <1>5, <1>6, <1>8, <2>2
<1>9. CASE Cardinality(keys) = 0
  <2>1. keys = {} /\ (\A p, q \in Pads : p = q) /\ Cardinality(buttons) + stick = 1
    BY <1>2, <1>7, <1>9
  <2>2. CASE stick = 1
    <3>1. buttons = {}
      BY <1>2, <2>1, <2>2
    <3>2. t = "tilt" /\ u = "tilt"
      BY <1>5, <1>6, <2>1, <3>1
    <3> QED
      BY <1>5, <1>6, <2>1, <3>2
  <2>3. CASE stick = 0
    <3>1. b # Virtual /\ \A x, y \in buttons : x = y
      BY <1>2, <1>4, <2>1, <2>3
    <3>2. t = "padDown" /\ u = "padDown"
      BY <1>5, <1>6, <2>1, <3>1
    <3> QED
      BY <1>5, <1>6, <2>1, <3>1, <3>2
  <2> QED
    BY <1>4, <2>2, <2>3
<1> QED
  BY <1>7, <1>8, <1>9

(* What is pending is an event of a queue; the queues only shrink. *)
LEMMA PendingShrinks ==
  ASSUME IInv, NEW t \in Kinds, NEW e, Published(t, e), NEW b, Pending(b)'
  PROVE  \E u \in Kinds : \E f : f \in queue'[u] /\ f \in queue[u] /\ Tells(u, f, b)
<1>1. \A u \in Kinds : queue'[u] \subseteq queue[u]
  BY QueueShrinks
<1>2. queue["down"] \subseteq Keys
  BY DEF IInv, TypeOK, DevicesTypeOK
<1>3. CASE \E k \in queue'["down"] : KeyButton[k] = b
  BY <1>1, <1>2, <1>3 DEF Tells
<1>4. CASE \E p \in Pads, x \in PadButtons : <<p, x>> \in queue'["padDown"] /\ PadButton[x] = b
  BY <1>1, <1>4 DEF Tells
<1>5. CASE b = Virtual /\ \E p \in Pads : <<p, Full>> \in queue'["tilt"]
  BY <1>1, <1>5 DEF Tells
<1> QED
  BY <1>3, <1>4, <1>5 DEF Pending

(* The event that tells a button to be down is what is pending for it.     *)
LEMMA TellsIsPending ==
  ASSUME NEW t, NEW e, e \in queue[t], NEW b, Tells(t, e, b)
  PROVE  Pending(b)
BY DEF Tells, Pending

(* Publishing makes nothing pending.                                       *)
LEMMA PendingStays ==
  ASSUME IInv, NEW t \in Kinds, NEW e, Published(t, e), NEW b, ~Pending(b)
  PROVE  ~Pending(b)'
BY PendingShrinks, TellsIsPending

(* A handler that leaves the buttons alone. *)
LEMMA QuietEdges ==
  ASSUME IInv, Told, ToldOnce, NEW t \in Kinds, NEW e, Published(t, e),
         UNCHANGED <<held, pressed, released, heldBefore>>, changed => changed'
  PROVE  Told' /\ ToldOnce'
<1>1. Told'
  BY DEF Told
<1>2. ToldOnce'
  <2> SUFFICES ASSUME NEW b \in held \ heldBefore, Sources(b) = 1 PROVE b \in pressed /\ ~Pending(b)'
    BY DEF ToldOnce, Sources
  <2>1. b \in pressed /\ ~Pending(b)
    BY DEF ToldOnce
  <2> QED
    BY <2>1, PendingStays
<1> QED
  BY <1>1, <1>2

(* A button goes down: the event that told it was the only one to.         *)
LEMMA DownEdges ==
  ASSUME IInv, Told, ToldOnce, NEW t \in Kinds, NEW e, Published(t, e),
         NEW b \in Buttons, ButtonDown(b), Tells(t, e, b)
  PROVE  Told' /\ ToldOnce'
<1>1. Told'
  BY DEF Told, ButtonDown
<1>2. ToldOnce'
  <2> SUFFICES ASSUME NEW c \in held' \ heldBefore, Sources(c) = 1 PROVE c \in pressed' /\ ~Pending(c)'
    BY DEF ToldOnce, Sources, ButtonDown
  <2>1. CASE c # b
    <3>1. c \in pressed /\ ~Pending(c)
      BY <2>1 DEF ToldOnce, ButtonDown
    <3> QED
      BY <2>1, <3>1, PendingStays DEF ButtonDown
  <2>2. CASE c = b
    <3>1. Pending(b)
      BY TellsIsPending DEF Published
    <3>2. b \notin held
      BY <2>2, <3>1 DEF ToldOnce
    <3>3. ~Pending(b)'
      <4> SUFFICES ASSUME Pending(b)' PROVE FALSE
        OBVIOUS
      <4>1. PICK u \in Kinds : \E f \in queue'[u] : Tells(u, f, b)
        BY PendingShrinks
      <4> PICK f \in queue'[u] : Tells(u, f, b)
        BY <4>1
      <4>2. u = t /\ f = e
        BY <2>2, <4>1, OneSource
      <4>3. e \notin queue'[t]
        BY QueueShrinks
      <4> QED
        BY <4>1, <4>2, <4>3
    <3> QED
      BY <2>2, <3>2, <3>3 DEF ButtonDown
  <2> QED
    BY <2>1, <2>2
<1> QED
  BY <1>1, <1>2

(* A button goes up: it is no longer held, and the others are as before.   *)
LEMMA UpEdges ==
  ASSUME IInv, Told, ToldOnce, NEW t \in Kinds, NEW e, Published(t, e), NEW b \in Buttons, ButtonUp(b)
  PROVE  Told' /\ ToldOnce'
<1>1. Told'
  BY DEF Told, ButtonUp
<1>2. ToldOnce'
  <2> SUFFICES ASSUME NEW c \in held' \ heldBefore, Sources(c) = 1 PROVE c \in pressed' /\ ~Pending(c)'
    BY DEF ToldOnce, Sources, ButtonUp
  <2>1. c # b /\ c \in pressed /\ ~Pending(c)
    BY DEF ToldOnce, ButtonUp
  <2> QED
    BY <2>1, PendingStays DEF ButtonUp
<1> QED
  BY <1>1, <1>2

(* Each handler presses a button, releases one, or leaves them alone.      *)
LEMMA PublishEdges == ASSUME IInv, Told, ToldOnce, Publish PROVE Told' /\ ToldOnce'
<1>1. PICK i \in DOMAIN Order : \E e \in queue[Order[i]] :
        /\ Turn(i) /\ Handle(Order[i], e)
        /\ queue' = [queue EXCEPT ![Order[i]] = @ \ {e}]
  BY DEF Publish
<1> DEFINE t == Order[i]
<1>2. PICK e \in queue[t] : Handle(t, e) /\ queue' = [queue EXCEPT ![t] = @ \ {e}]
  BY <1>1
<1>3. t \in Kinds
  OBVIOUS
<1> HIDE DEF t
<1>4. Published(t, e)
  BY <1>2 DEF Publish, Published
<1>5. ASSUME UNCHANGED <<held, pressed, released, heldBefore>>, changed => changed'
      PROVE  Told' /\ ToldOnce'
  BY <1>3, <1>4, <1>5, QuietEdges
<1>6. CASE t \in {"down", "up"}
  <2>1. e \in Keys /\ KeyButton[e] \in Buttons
    BY <1>2, <1>6 DEF IInv, TypeOK, DevicesTypeOK
  <2>2. \/ UNCHANGED <<state, orphans>>
        \/ t = "down" /\ ButtonDown(KeyButton[e])
        \/ t = "up" /\ ButtonUp(KeyButton[e])
    BY <1>2, <1>6 DEF Handle, OnKey
  <2>3. t = "down" => Tells(t, e, KeyButton[e])
    BY <2>1 DEF Tells
  <2>4. CASE UNCHANGED <<state, orphans>>
    BY <1>5, <2>4 DEF state
  <2> QED
    BY <1>3, <1>4, <2>1, <2>2, <2>3, <2>4, DownEdges, UpEdges
<1>7. CASE t \in {"connected", "disconnected"}
  BY <1>2, <1>5, <1>7 DEF Handle, OnConnected, OnDisconnected, state
<1>8. CASE t \in {"padDown", "padUp"}
  <2>1. e \in Pads \X PadButtons
    BY <1>2, <1>8 DEF IInv, TypeOK, DevicesTypeOK
  <2>2. PICK p \in Pads, x \in PadButtons : e = <<p, x>>
    BY <2>1
  <2>3. \/ UNCHANGED <<state, orphans>>
        \/ t = "padDown" /\ ButtonDown(PadButton[x])
        \/ t = "padUp" /\ ButtonUp(PadButton[x])
    BY <1>2, <1>8, <2>2 DEF Handle, OnPadButton
  <2>4. t = "padDown" => Tells(t, e, PadButton[x])
    BY <2>2 DEF Tells
  <2>5. CASE UNCHANGED <<state, orphans>>
    BY <1>5, <2>5 DEF state
  <2>6. PadButton[x] \in Buttons
    OBVIOUS
  <2> QED
    BY <1>3, <1>4, <2>3, <2>4, <2>5, <2>6, DownEdges, UpEdges
<1>9. CASE t = "tilt"
  <2>1. e \in Pads \X Tilts
    BY <1>2, <1>9 DEF IInv, TypeOK, DevicesTypeOK
  <2>2. PICK p \in Pads, v \in Tilts : e = <<p, v>>
    BY <2>1
  <2>3. \/ UNCHANGED <<state, orphans>>
        \/ v = Full /\ ButtonDown(Virtual)
        \/ ButtonUp(Virtual)
        \/ changed' = TRUE /\ UNCHANGED <<held, pressed, released, heldBefore, orphans>>
    BY <1>2, <1>9, <2>2 DEF Handle, OnTilt
  <2>4. v = Full => Tells(t, e, Virtual)
    BY <1>9, <2>2 DEF Tells
  <2>5. CASE UNCHANGED <<state, orphans>>
    BY <1>5, <2>5 DEF state
  <2>6. CASE changed' = TRUE /\ UNCHANGED <<held, pressed, released, heldBefore, orphans>>
    BY <1>5, <2>6
  <2> QED
    BY <1>3, <1>4, <2>3, <2>4, <2>5, <2>6, DownEdges, UpEdges
<1> QED
  BY <1>3, <1>6, <1>7, <1>8, <1>9

(* Between two updates nothing is newly held, so what was told before is   *)
(* of no concern; within one, only handlers and listeners do something.    *)
LEMMA EdgesInductive == Spec => [](Told /\ ToldOnce)
<1>1. Init => Told /\ ToldOnce
  BY DEF Init, Told, ToldOnce
<1>2. IInv /\ IInv' /\ Told /\ ToldOnce /\ [Next]_vars => Told' /\ ToldOnce'
  <2> SUFFICES ASSUME IInv, IInv', Told, ToldOnce, [Next]_vars PROVE Told' /\ ToldOnce'
    OBVIOUS
  <2>1. phase' = "frame" => ToldOnce'
    BY DEF IInv, Settled, ToldOnce
  <2>2. phase = "frame" /\ UNCHANGED state => ToldOnce'
    BY DEF IInv, Settled, ToldOnce, state
  <2>3. CASE Play \/ BeginUpdate
    BY <2>2, <2>3 DEF Play, BeginUpdate, Told, state
  <2>4. CASE EndUpdate
    BY <2>1, <2>4 DEF EndUpdate, Told, state
  <2>5. CASE StartListening \/ Lock \/ UNCHANGED vars
    BY <2>5 DEF StartListening, Lock, ToggleLock, vars, devices, state, Told, ToldOnce, Pending, Sources
  <2>6. CASE StopListening
    <3>1. CASE listeners = 1
      BY <2>6, <3>1 DEF StopListening, ClearInputData, Told, ToldOnce
    <3>2. CASE listeners # 1
      BY <2>6, <3>2 DEF StopListening, devices, state, Told, ToldOnce, Pending, Sources
    <3> QED
      BY <3>1, <3>2
  <2> QED
    BY <2>3, <2>4, <2>5, <2>6, PublishEdges DEF Next
<1> QED
  BY <1>1, <1>2, Inductive, PTL DEF Spec

(* on_update hands out the edges of the buttons: a button with one source  *)
(* that is newly held is among the pressed, one that is no longer held is  *)
(* among the released, and none is both; whatever is plugged, locked,      *)
(* attached or removed, and in whatever order the queues are published.    *)
THEOREM EdgesAreTold == Spec => []EdgesAreInInput
<1>1. Told /\ ToldOnce => EdgesAreInInput
  BY DEF Told, ToldOnce, EdgesAreInInput
<1> QED
  BY <1>1, EdgesInductive, PTL
=============================================================================
