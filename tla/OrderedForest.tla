---------------------------- MODULE OrderedForest ----------------------------
(***************************************************************************)
(* What the entity tree promises: every entity has an ordered list of      *)
(* children, an entity is in at most one list, and a new child goes last.  *)
(***************************************************************************)
EXTENDS Sequences, SequencesExt

CONSTANTS Entities, Root

VARIABLE kids  \* entity -> its children, oldest first

Init == kids = [e \in Entities |-> << >>]

(* A list has an entity once at most. *)
Without(list, x) ==
  IF x \notin ToSet(list) THEN list
  ELSE LET at == CHOOSE i \in DOMAIN list : list[i] = x
       IN  [i \in 1..Len(list) - 1 |-> list[IF i < at THEN i ELSE i + 1]]

Move(child, parent) ==
  LET lists == kids
  IN  /\ child # parent
      /\ kids' = [e \in Entities |->
                    LET others == Without(lists[e], child)
                    IN  IF e = parent THEN Append(others, child) ELSE others]

(* A parentless entity is destroyed: its subtree, a set of entities closed *)
(* under taking children, goes with it, ...                                *)
Prune(gone) ==
  LET lists == kids
  IN  /\ \A e \in gone : ToSet(lists[e]) \subseteq gone
      /\ kids' = [e \in Entities |-> IF e \in gone THEN << >> ELSE lists[e]]

(* ... or its children become the root's last children.                    *)
Dissolve(e) ==
  LET lists == kids
  IN  kids' = [lists EXCEPT ![Root] = @ \o lists[e], ![e] = << >>]

Next ==
  \/ \E child, parent \in Entities : Move(child, parent)
  \/ \E gone \in SUBSET Entities : Prune(gone)
  \/ \E e \in Entities : Dissolve(e)

Step == Next \/ UNCHANGED kids
=============================================================================
