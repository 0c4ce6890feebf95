-------------------------- MODULE MCEntityListeners --------------------------
EXTENDS EntityListeners

CONSTANTS a, b, c, a1, b1, c1, x, y, calm, alert

MCOwner == (a1 :> a) @@ (b1 :> b) @@ (c1 :> c)
Do(op, types) == [op |-> op, types |-> types]
MCCode ==
  (a1 :> <<Do("yield", <<x, y>>), Do("capture", <<y>>)>>) @@
  (b1 :> <<Do("yield", <<x>>)>>) @@
  (c1 :> <<Do("yield", <<x>>)>>)
MCStates == [e \in {b, c} |-> {calm}] @@ (a :> {calm, alert})
MCRules == (calm :> {}) @@ (alert :> {x})
=============================================================================
