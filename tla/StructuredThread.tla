-------------------------- MODULE StructuredThread --------------------------
(***************************************************************************)
(* What a thread promises its author: it walks the lines of its script     *)
(* from one to the next as the blocks say, whatever instructions, strides  *)
(* and updates the walk is made of.                                        *)
(***************************************************************************)
EXTENDS ThreadScript

CONSTANT Nowhere

VARIABLES
  text,   \* the script
  owner,  \* the line that opened the thread
  at      \* the line it is at; Nowhere before it starts or once it is left alone

Init == at = Nowhere

Start == at = Nowhere /\ at' = First(text, owner') /\ UNCHANGED text
Walk == at \in Lines(text) /\ at' \in After(text, owner, at) /\ UNCHANGED <<text, owner>>
Leave == at # Nowhere /\ at' = Nowhere /\ UNCHANGED text

Next == Start \/ Walk \/ Leave
Spec == Init /\ [][Next]_<<text, owner, at>>
=============================================================================
