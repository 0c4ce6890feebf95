---------------------------- MODULE ThreadScript ----------------------------
(***************************************************************************)
(* The scripts of entity threads, line by line, and what their block       *)
(* structure says: which line ends a block, which thread a line belongs    *)
(* to, which line comes after which.  It says nothing of how the builder   *)
(* reads a script: the properties compare the builder with these.          *)
(*                                                                         *)
(* A line is its kind.  A command is written with arguments ("do", "if",   *)
(* "while", "when", "include"), a directive is a bare word; "set" is an    *)
(* inline update of a member of a component, each of another member.       *)
(***************************************************************************)
EXTENDS Integers, Sequences, FiniteSets

Commands == {"do", "if", "while", "when", "include"}
Directives == {"pause", "multi", "begin", "fixed", "realtime"}

SubThreads == {"begin", "when"}               \* a block that is a thread of its own
Cadences == {"fixed", "realtime"}
Openers == {"if", "while", "multi"} \cup Cadences \cup SubThreads
Kinds == Commands \cup Directives \cup {"set", "blank", "else", "end"}

Lines(s) == DOMAIN s
Count(s, kinds, from, to) == Cardinality({i \in from .. to : s[i] \in kinds})

(* The end of the block that line o opens. *)
IsEnd(s, o, e) == s[e] = "end" /\ Count(s, Openers, o, e) = Count(s, {"end"}, o, e)
EndOf(s, o) == CHOOSE e \in o .. Len(s) :
                 IsEnd(s, o, e) /\ \A f \in o .. e - 1 : ~IsEnd(s, o, f)
OpenerOf(s, e) == CHOOSE o \in Lines(s) : s[o] \in Openers /\ EndOf(s, o) = e

(* The blocks around a line, the innermost of some kinds, and the lines    *)
(* directly inside of one.                                                 *)
Around(s, i) == {o \in 1 .. i - 1 : s[o] \in Openers /\ i < EndOf(s, o)}
Innermost(s, i, kinds) ==
  LET around == {o \in Around(s, i) : s[o] \in kinds}
  IN  IF around = {} THEN 0 ELSE CHOOSE o \in around : \A p \in around : p <= o
HasElse(s, o) == \E e \in o .. EndOf(s, o) : s[e] = "else" /\ Innermost(s, e, Openers) = o
ElseOf(s, o) == CHOOSE e \in o .. EndOf(s, o) : s[e] = "else" /\ Innermost(s, e, Openers) = o

(* Every block ends, every end has a block, an if has at most one else.    *)
Balanced(s) ==
  /\ \A i \in Lines(s) : Count(s, {"end"}, 1, i) <= Count(s, Openers, 1, i)
  /\ Count(s, {"end"}, 1, Len(s)) = Count(s, Openers, 1, Len(s))
  /\ \A e \in Lines(s) : s[e] = "else" =>
       LET o == Innermost(s, e, Openers)
       IN  o # 0 /\ s[o] = "if" /\ \A f \in o .. EndOf(s, o) :
             (s[f] = "else" /\ Innermost(s, f, Openers) = o) => f = e

(* The thread a line belongs to, named by the line that opens it; 0 is the *)
(* thread of the script.                                                   *)
ThreadOf(s, i) == Innermost(s, i, SubThreads)

(* Adjacent updates make one instruction, which stands at the first.       *)
Joined(s, i, j) == s[i] = "set" /\ s[j] = "set" /\ \A k \in i .. j : s[k] \in {"set", "blank"}

(* An update is kept back until a command, or the end, of its own block.   *)
KeptBack(s, i, j) ==
  LET block == Innermost(s, i, Openers)
  IN  /\ s[i] = "set" /\ i < j
      /\ block = 0 \/ j < EndOf(s, block)
      /\ \A k \in i .. j : Innermost(s, k, Openers) = block => s[k] \notin Commands \cup {"else"}

(* No directive comes between an update and the command after it.          *)
InOrder(s) == \A i, j \in Lines(s) :
  (s[i] = "set" /\ i < j /\ s[j] \in Directives) =>
     \E k \in i + 1 .. j - 1 : s[k] \in Commands \cup {"else", "end"}

(* The lines a thread stops at.  The end of an if and of a multi is no     *)
(* step; the end of a while goes back, that of a cadence restores the one  *)
(* around it, and an else that is reached from above goes to the end.      *)
Stops(s, t) ==
  {i \in Lines(s) :
     /\ ThreadOf(s, i) = t \/ (i = t /\ s[t] = "when")
     /\ \/ s[i] \in (Openers \cup {"do", "pause", "else", "include"})
        \/ s[i] = "set" /\ \A h \in 1 .. i - 1 : ~Joined(s, h, i)
        \/ s[i] = "end" /\ s[OpenerOf(s, i)] \in Cadences \cup {"while"}}

Finished(s) == Len(s) + 1
Follow(s, t, i) ==
  LET later == {j \in Stops(s, t) : j > i}
  IN  IF later = {} THEN Finished(s) ELSE CHOOSE j \in later : \A k \in later : j <= k

First(s, t) == IF t # 0 /\ s[t] = "when" THEN t ELSE Follow(s, t, t)

(* Where thread t may be after line i; line t itself is the wait of a when.*)
After(s, t, i) ==
  IF i = t THEN {Follow(s, t, i)}
  ELSE CASE s[i] = "if" ->
              {Follow(s, t, i), Follow(s, t, IF HasElse(s, i) THEN ElseOf(s, i) ELSE EndOf(s, i))}
         [] s[i] = "while" -> {Follow(s, t, i), Follow(s, t, EndOf(s, i))}
         [] s[i] = "else" -> {Follow(s, t, EndOf(s, Innermost(s, i, Openers)))}
         [] s[i] = "end" /\ s[OpenerOf(s, i)] = "while" -> {OpenerOf(s, i)}
         [] OTHER -> {Follow(s, t, i)}
=============================================================================
