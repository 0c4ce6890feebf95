------------------------------ MODULE Mailboxes ------------------------------
(***************************************************************************)
(* What queue_event and update promise of the queued events: each type has *)
(* a mailbox of its own, first in first out.  Nothing is promised of the   *)
(* order between two types.                                                *)
(***************************************************************************)
EXTENDS Integers, Sequences

CONSTANTS Types, Events
VARIABLE mail

Init == mail = [t \in Types |-> <<>>]

Put(t) == \E e \in Events : mail' = [mail EXCEPT ![t] = Append(@, e)]

Take(t) ==
  /\ mail[t] # <<>>
  /\ mail' = [mail EXCEPT ![t] = Tail(@)]

Next == \E t \in Types : Put(t) \/ Take(t)

Spec == Init /\ [][Next]_mail
=============================================================================
