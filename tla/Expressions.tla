---------------------------- MODULE Expressions ----------------------------
(***************************************************************************)
(* How an expression of a script (a value to assign, a condition, an       *)
(* argument) is read, in one pass from left to right, and evaluated later, *)
(* also from left to right: `serial.cpp` groups the operands by the        *)
(* precedence of their operators as it meets them and                      *)
(* `meta_value_operation.cpp` applies the operators.  A term is a name (a  *)
(* literal, a variable, a call, an expression in parentheses); what the    *)
(* operators compute is left out: a value is the way it was computed, in   *)
(* prefix form.                                                            *)
(***************************************************************************)
EXTENDS Integers, Sequences, SequencesExt

CONSTANT Terms                       \* the names of the terms, in their order

ASSUME TermsAssumption == Terms \in Seq(STRING)

(* One operator of each precedence that the properties tell apart.         *)
Precedence == [neg |-> 3, mul |-> 5, add |-> 6, less |-> 9, and |-> 14, set |-> 16]
Binary == DOMAIN Precedence \ {"neg"}

(* An expression is a sequence of operands, each with the operator that    *)
(* follows it; an operator in front of a term follows the empty operand.   *)
(* Nothing follows the last operand.                                       *)
Operand(value, op) == [value |-> value, op |-> op]
Empty == <<>>
Nothing == "nothing"
Prefixed(x) == x.value = Empty

Operands(negated, ops) ==
  LET Follows(i) == IF i \in DOMAIN ops THEN ops[i] ELSE Nothing
      Of(i) == (IF negated[i] THEN <<Operand(Empty, "neg")>> ELSE <<>>) \o <<Operand(<<Terms[i]>>, Follows(i))>>
  IN  FlattenSeq([i \in DOMAIN negated |-> Of(i)])

(* All expressions of one to all terms.                                    *)
Expressions ==
  UNION {{Operands(n, o) : n \in [1 .. m -> BOOLEAN], o \in [1 .. m - 1 -> Binary]} : m \in 1 .. Len(Terms)}

-----------------------------------------------------------------------------
(* Evaluation.                                                             *)

(* An empty operand ends the evaluation, unless it is the first.           *)
Reached(segments) ==
  LET empty == {i \in 2 .. Len(segments) : Prefixed(segments[i])}
  IN  IF empty = {} THEN Len(segments) ELSE (CHOOSE i \in empty : \A j \in empty : i <= j) - 1

Apply(op, left, right) == <<op>> \o left \o right

(* From left to right, each result by the operator of the last segment.    *)
Evaluate(segments) ==
  LET result[i \in 1 .. Reached(segments)] ==
        IF i = 1 THEN segments[1].value ELSE Apply(segments[i - 1].op, result[i - 1], segments[i].value)
  IN  result[Reached(segments)]

-----------------------------------------------------------------------------
(* Reading: the segments so far, how many of them are finalized, and the   *)
(* operator before the operand.                                            *)

Unread == [segments |-> <<>>, finalized |-> 0, prev |-> Nothing]

Push(r, x) == [r EXCEPT !.segments = Append(@, x)]

(* A tighter operator: all that was read so far is its own operand of the  *)
(* operator before.                                                        *)
MutantWrapKeeps(r, x) == [r EXCEPT !.segments = <<Operand(Evaluate(@), r.prev), x>>]
Wrap(r, x) == [r EXCEPT !.segments = <<Operand(Evaluate(@), r.prev), x>>, !.finalized = 1]

(* A looser operator: what is not finalized yet, and the operand, are one  *)
(* operand of it.                                                          *)
MutantCloseCopies(r, x) ==
  LET open == SubSeq(r.segments, r.finalized + 1, Len(r.segments))
  IN  [r EXCEPT !.segments = Append(@, Operand(Evaluate(Append(open, x)), x.op)), !.finalized = @ + 1]
Close(r, x) ==
  LET open == SubSeq(r.segments, r.finalized + 1, Len(r.segments))
      closed == Operand(Evaluate(Append(open, x)), x.op)
  IN  [r EXCEPT !.segments = Append(SubSeq(@, 1, r.finalized), closed), !.finalized = @ + 1]

(* One iteration.  The last operand is read with the operator before it,   *)
(* the first with its own; a single term has none and is the value itself. *)
Read(r, x) ==
  LET current == IF x.op = Nothing THEN r.prev ELSE x.op
      this == Operand(x.value, current)
      before == [r EXCEPT !.prev = IF @ = Nothing THEN current ELSE @]
      step == IF \/ r.segments = <<>>
                 \/ Precedence[current] = Precedence[before.prev] THEN Push(before, this)
              ELSE IF Precedence[current] < Precedence[before.prev] THEN Wrap(before, this)
              ELSE Close(before, this)
  IN  [step EXCEPT !.prev = current]

(* The operand before the first assignment is the last that is read here:  *)
(* what follows is an expression of its own.                               *)
Assignments(e) == {i \in DOMAIN e : e[i].op = "set"}
FirstAssignment(e) == CHOOSE i \in Assignments(e) : \A j \in Assignments(e) : i <= j

RECURSIVE Value(_)
Value(e) ==
  IF Assignments(e) = {}
  THEN Evaluate(FoldLeft(Read, Unread, e).segments)
  ELSE LET k == FirstAssignment(e)
           target == FoldLeft(Read, Unread, SubSeq(e, 1, k)).segments
       IN  Evaluate(Append(target, Operand(Value(SubSeq(e, k + 1, Len(e))), "set")))

-----------------------------------------------------------------------------
(* What the precedence of C++ makes of an expression: the loosest operator *)
(* is applied last, of several equal ones the last, of assignments the     *)
(* first.                                                                  *)
RECURSIVE Meant(_)
Meant(e) ==
  LET joints == {i \in 1 .. Len(e) - 1 : ~Prefixed(e[i])}
      loosest == {i \in joints : \A j \in joints : Precedence[e[j].op] <= Precedence[e[i].op]}
      root == IF \E i \in loosest : e[i].op = "set" THEN CHOOSE i \in loosest : \A j \in loosest : i <= j
              ELSE CHOOSE i \in loosest : \A j \in loosest : j <= i
  IN  IF joints # {} THEN Apply(e[root].op, Meant(SubSeq(e, 1, root)), Meant(SubSeq(e, root + 1, Len(e))))
      ELSE IF Prefixed(e[1]) THEN Apply("neg", Empty, e[2].value)
      ELSE e[1].value

(* The expressions that are read as they are meant, which the property is  *)
(* stated for: where an operator is tighter than the one before, it is     *)
(* followed by its equals only and then by one that is as loose as the one *)
(* before; where it is looser, no equal of it stands before a looser one.  *)
(* Of the others nothing is said.                                          *)
RECURSIVE GroupsClose(_)
GroupsClose(e) ==
  LET end == IF Assignments(e) = {} THEN Len(e) - 1 ELSE FirstAssignment(e)
      level == [i \in 1 .. end |-> Precedence[e[i].op]]
      Alike(i, k) == \A j \in i .. k : level[j] = level[i]
      TightCloses(i) == \E k \in i + 1 .. end : Alike(i, k - 1) /\ level[k] >= level[i - 1]
      LooseStaysOpen(i) == \A k \in i + 2 .. end : Alike(i, k - 1) => level[k] <= level[i]
  IN  /\ \A i \in 2 .. end : /\ level[i] < level[i - 1] => TightCloses(i)
                             /\ level[i] > level[i - 1] => LooseStaysOpen(i)
      /\ Assignments(e) # {} => GroupsClose(SubSeq(e, end + 1, Len(e)))

(* An expression whose groups close has the value that the precedence of   *)
(* its operators in C++ gives it (meta_value_operator.hpp:73): `a * b + c` *)
(* and `a + b * c + d` are such, `a + b * c` and `a * b - c - d < e` not.  *)
PrecedenceWhereClosed == \A e \in Expressions : GroupsClose(e) => Value(e) = Meant(e)

(* Grouping neither loses, repeats nor reorders a term: those evaluated    *)
(* are the ones written, except that a last term with an operator in front *)
(* of it is not reached unless it begins the expression or an assignment.  *)
TermsIn(value) == SelectSeq(value, LAMBDA x : x \notin DOMAIN Precedence)
LastIsLost(e) == Len(e) > 2 /\ Prefixed(e[Len(e) - 1]) /\ e[Len(e) - 2].op # "set"
TermsKeepTheirOrder ==
  \A e \in Expressions :
    LET written == FlattenSeq([i \in DOMAIN e |-> e[i].value])
    IN  TermsIn(Value(e)) = IF LastIsLost(e) THEN Front(written) ELSE written

(* What meta_value_operator.hpp:73 says, for every expression, which does  *)
(* not hold.                                                               *)
PrecedenceHolds == \A e \in Expressions : Value(e) = Meant(e)
=============================================================================
