--------------------------- MODULE TransformCache ---------------------------
(***************************************************************************)
(* The matrices that transforms keep (engine/transform.cpp) over a tree of *)
(* entities that is rearranged under them                                  *)
(* (engine/components/relationship_component.cpp), and the sweep that      *)
(* tells what moved (World::handle_transform_events).                      *)
(*                                                                         *)
(* A TransformComponent keeps a local transform, three matrices made of it *)
(* and of its parents, and a flag for each that is out of date.  A         *)
(* Transform is a view of it that lives on a stack: constructing it gives  *)
(* the entity's parent a component, destroying it recalculates what is out *)
(* of date.  Views are not held here while the tree changes: the header    *)
(* says that their copy of the relationship has side effects then.         *)
(*                                                                         *)
(* A matrix is a half turn or none, and a place on a ring: they compose as *)
(* rotations and translations do, and the order matters.                   *)
(***************************************************************************)
EXTENDS Integers, FiniteSets

CONSTANTS
  Entities,
  Root,      \* the world's root, which has a transform from the start
  Null,
  Ring,      \* the number of places
  MaxMoves,  \* bound: how often a transform is set
  Given      \* the matrices that callers pass

ASSUME RootAssumption == Root \in Entities /\ Null \notin Entities
ASSUME RingAssumption == Ring \in Nat \ {0}
ASSUME MaxMovesAssumption == MaxMoves \in Nat

Matrices == [turned : BOOLEAN, at : 0..Ring-1]

ASSUME GivenAssumption == Given \subseteq Matrices

VARIABLES
  scene,    \* the components: who is related, to which parent, which transforms
  open,     \* the entities that a view is held of
  telling,  \* the entity whose OnTransformChanged is being handled, or Null
  untold,   \* history: entities moved since their last OnTransformChanged
  moves     \* how often a transform was set

vars == <<scene, open, telling, untold, moves>>

-----------------------------------------------------------------------------
(* Matrices. *)

Identity == [turned |-> FALSE, at |-> 0]

(* The place p in the coordinates of a, brought to those around a. *)
Placed(a, p) == (IF a.turned THEN a.at - p ELSE a.at + p) % Ring

Product(a, b) == [turned |-> a.turned # b.turned, at |-> Placed(a, b.at)]

Inverse(a) == [a EXCEPT !.at = IF a.turned THEN @ ELSE (0 - @) % Ring]

-----------------------------------------------------------------------------
(* Reading a scene. *)

Flags == {"M", "W", "IW", "EventFlag"}

(* A TransformComponent as emplaced: Dirty::All does not ask for an event. *)
Fresh == [local |-> Identity, m |-> Identity, w |-> Identity, iw |-> Identity,
          dirty |-> {"M", "W", "IW"}]

Has(s, e) == e \in DOMAIN s.tf

Of(s, e) == IF Has(s, e) THEN s.tf[e] ELSE Fresh

(* The components, a fresh one for each of the entities that has none.     *)
Emplaced(s, entities) == [x \in DOMAIN s.tf \cup entities |-> Of(s, x)]

Invalid(s, e, flag) == flag \in Of(s, e).dirty

(* An entity with all above it. *)
Lineage(s, e) ==
  LET up[x \in Entities] ==
        {x} \cup IF s.parent[x] = Null THEN {} ELSE up[s.parent[x]]
  IN  up[e]

(* What the matrices stand for: the product of the local transforms from   *)
(* the top.                                                                *)
World(s) ==
  LET w[x \in Entities] ==
        IF s.parent[x] = Null THEN Of(s, x).local
        ELSE Product(w[s.parent[x]], Of(s, x).local)
  IN  w

(* get_local_matrix and get_matrix: the cached one unless it is invalid. *)
LocalMatrix(s, e) == IF Invalid(s, e, "M") THEN Of(s, e).local ELSE Of(s, e).m

Matrix(s) ==
  LET w[x \in Entities] ==
        IF ~Invalid(s, x, "W") THEN Of(s, x).w
        ELSE IF s.parent[x] = Null THEN LocalMatrix(s, x)
        ELSE Product(w[s.parent[x]], LocalMatrix(s, x))
  IN  w

(* The entities that recalculating e constructs views of: up to the first  *)
(* whose world matrix is valid.                                            *)
Reached(s, e) ==
  LET up[x \in Entities] ==
        {x} \cup IF s.parent[x] = Null \/ ~Invalid(s, x, "W") THEN {}
                 ELSE up[s.parent[x]]
  IN  up[e]

-----------------------------------------------------------------------------
(* Changing a scene: operators from scene to scene. *)

(* Views of the entities views were constructed and destroyed: their       *)
(* matrices are valid, and their parents have components.                  *)
Updated(s, views, local, world) ==
  LET met == views \cup ({s.parent[x] : x \in views} \ {Null})
  IN  [s EXCEPT
         !.related = @ \cup met,
         !.tf = [x \in DOMAIN s.tf \cup met |->
                   IF x \notin views THEN Of(s, x)
                   ELSE [Of(s, x) EXCEPT
                           !.m = local[x],
                           !.w = world[x],
                           !.iw = IF Invalid(s, x, "IW") THEN Inverse(world[x])
                                  ELSE @,
                           !.dirty = @ \ {"M", "W", "IW"}]]]

RecalculatedAll(s, entities) ==
  Updated(s, UNION {Reached(s, x) : x \in entities},
          [x \in Entities |-> LocalMatrix(s, x)], Matrix(s))

(* A view of e, from its construction to recalculate(false). *)
Recalculated(s, e) == RecalculatedAll(s, {e})

(* get_inverse_matrix(true): all above is computed anew. *)
Forced(s, e) ==
  LET out == [x \in DOMAIN s.tf |->
                IF x \notin Lineage(s, e) THEN s.tf[x]
                ELSE [s.tf[x] EXCEPT !.dirty = @ \cup {"M", "W", "IW"}]]
  IN  Recalculated([s EXCEPT !.tf = out], e)

ChildrenWith(s, e) == {c \in DOMAIN s.tf : s.parent[c] = e}

(* The entities that invalidate_world enters: it turns back at one that is *)
(* invalid already, and does not enter one without a transform.            *)
Entered(s, e) ==
  LET down[x \in Entities] ==
        {x} \cup UNION {IF Invalid(s, c, "W") THEN {c} ELSE down[c] :
                          c \in ChildrenWith(s, x)}
  IN  down[e]

(* Mutant: the flags of the children are left alone. *)
InvalidatedAlone(s, e) ==
  [s EXCEPT !.tf[e].dirty = @ \cup Flags]

(* invalidate.  The views of the children are destroyed on the way back,   *)
(* which recalculates them and all above: with a child that has a          *)
(* transform nothing stays invalid.                                        *)
Invalidated(s, e) ==
  LET flagged == [s EXCEPT !.tf[e].dirty = @ \cup {"M", "EventFlag"}]
      entered == Entered(flagged, e)
      marked  == [flagged EXCEPT !.tf =
                    [x \in DOMAIN flagged.tf |->
                       IF x \notin entered THEN flagged.tf[x]
                       ELSE [flagged.tf[x] EXCEPT
                               !.dirty = @ \cup {"W", "IW"}]]]
  IN  IF Invalid(s, e, "W") THEN flagged
      ELSE RecalculatedAll(marked, entered \ {e})

(* set_local_matrix, set_local_position, set_local_basis. *)
SetLocal(s, e, m) == Invalidated([s EXCEPT !.tf[e].local = m], e)

(* Mutant: the parent's matrix instead of its inverse. *)
SetMatrixNotInverted(s, e, m) ==
  LET p == s.parent[e]
      r == Recalculated(s, p)
  IN  IF p = Null THEN SetLocal(s, e, m)
      ELSE SetLocal(r, e, Product(r.tf[p].w, m))

(* set_matrix. *)
SetMatrix(s, e, m) ==
  LET p == s.parent[e]
      r == Recalculated(s, p)
  IN  IF p = Null THEN SetLocal(s, e, m)
      ELSE SetLocal(r, e, Product(r.tf[p].iw, m))

(* set_position: through the forced inverse of the parent. *)
SetPosition(s, e, at) ==
  LET p == s.parent[e]
      f == Forced(s, p)
  IN  IF p = Null THEN SetLocal(s, e, [s.tf[e].local EXCEPT !.at = at])
      ELSE SetLocal(f, e,
                    [s.tf[e].local EXCEPT !.at = Placed(f.tf[p].iw, at)])

(* set_basis: get_basis multiplies the bases of all above. *)
SetBasis(s, e, turned) ==
  LET p     == s.parent[e]
      above == RecalculatedAll(s, Lineage(s, p))
  IN  IF p = Null THEN SetLocal(s, e, [s.tf[e].local EXCEPT !.turned = turned])
      ELSE SetLocal(above, e,
             [s.tf[e].local EXCEPT !.turned = World(s)[p].turned # turned])

(* remove_child, if c has a parent: the matrix in the world is kept. *)
Left(s, c) ==
  LET before == Recalculated(s, c)
      cut    == [before EXCEPT !.parent[c] = Null]
  IN  IF s.parent[c] = Null THEN s
      ELSE IF ~Has(s, c) THEN [s EXCEPT !.parent[c] = Null]
      ELSE Recalculated(SetMatrix(cut, c, before.tf[c].w), c)

(* Mutant: the transform is assigned before the tree is changed. *)
JoinedTooLate(s, c, p) ==
  LET known == [Recalculated(s, c) EXCEPT !.related = @ \cup {p}]
      under == IF Has(known, p) THEN Recalculated(known, p) ELSE known
      local == IF Has(known, p)
               THEN Product(under.tf[p].iw, known.tf[c].w) ELSE known.tf[c].w
  IN  IF c \in s.related /\ Has(s, c)
      THEN [Recalculated(SetLocal(under, c, local), c) EXCEPT !.parent[c] = p]
      ELSE [s EXCEPT !.parent[c] = p, !.related = @ \cup {c, p}]

(* add_child after remove_previous_parent.  Only a child that was in a     *)
(* relationship before keeps its matrix in the world, and only a parent    *)
(* with a transform is taken into account.                                 *)
Joined(s, c, p) ==
  LET known == [Recalculated(s, c) EXCEPT !.related = @ \cup {p}]
      under == IF Has(known, p) THEN Recalculated(known, p) ELSE known
      local == IF Has(known, p)
               THEN Product(under.tf[p].iw, known.tf[c].w) ELSE known.tf[c].w
  IN  IF c \in s.related /\ Has(s, c)
      THEN Recalculated(SetLocal([under EXCEPT !.parent[c] = p], c, local), c)
      ELSE [s EXCEPT !.parent[c] = p, !.related = @ \cup {c, p}]

-----------------------------------------------------------------------------
TypeOK ==
  /\ scene.parent \in [Entities -> Entities \cup {Null}]
  /\ scene.related \subseteq Entities
  /\ DOMAIN scene.tf \subseteq Entities
  /\ \A e \in DOMAIN scene.tf :
       scene.tf[e] \in [local : Matrices, m : Matrices, w : Matrices,
                        iw : Matrices, dirty : SUBSET Flags]
  /\ open \subseteq DOMAIN scene.tf
  /\ telling \in DOMAIN scene.tf \cup {Null}
  /\ untold \subseteq DOMAIN scene.tf
  /\ moves \in 0..MaxMoves

(* Any of the entities may have a transform from the start. *)
Init ==
  /\ \E with \in SUBSET Entities :
       scene = [parent  |-> [e \in Entities |-> Null],
                related |-> {Root},
                tf      |-> [e \in with \cup {Root} |-> Fresh]]
  /\ open = {}
  /\ telling = Null
  /\ untold = {}
  /\ moves = 0

Becomes(s) ==
  /\ scene' = s
  /\ untold' = untold \cup
       {e \in DOMAIN scene.tf : s.tf[e].local # scene.tf[e].local}

(* A TransformComponent is emplaced. *)
Emplace(e) ==
  /\ ~Has(scene, e)
  /\ Becomes([scene EXCEPT !.tf = Emplaced(scene, {e})])
  /\ UNCHANGED <<open, telling, moves>>

(* A view is constructed: its parent_data need components of the parent. *)
Open(e) ==
  LET met == {e, scene.parent[e]} \ {Null}
  IN  /\ Has(scene, e)
      /\ e \notin open
      /\ Becomes([scene EXCEPT
                    !.related = @ \cup met,
                    !.tf = Emplaced(scene, met)])
      /\ open' = open \cup {e}
      /\ UNCHANGED <<telling, moves>>

Close(e) ==
  /\ e \in open
  /\ Becomes(Recalculated(scene, e))
  /\ open' = open \ {e}
  /\ UNCHANGED <<telling, moves>>

(* get_matrix: the inverse is left for later. *)
GetMatrix(e) ==
  LET r   == Recalculated(scene, e)
      got == [r.tf[e] EXCEPT
                !.iw = scene.tf[e].iw,
                !.dirty = @ \cup (scene.tf[e].dirty \cap {"IW"})]
  IN  /\ e \in open
      /\ Invalid(scene, e, "W")
      /\ Becomes([r EXCEPT !.tf[e] = got])
      /\ UNCHANGED <<open, telling, moves>>

Move(e, m) ==
  /\ e \in open
  /\ moves < MaxMoves
  /\ moves' = moves + 1
  /\ \/ Becomes(SetLocal(scene, e, m))
     \/ Becomes(SetMatrix(scene, e, m))
     \/ Becomes(SetPosition(scene, e, m.at))
     \/ Becomes(SetBasis(scene, e, m.turned))
  /\ UNCHANGED <<open, telling>>

(* set_parent.  It does not look whether the parent is a descendant: that  *)
(* is left to the callers.                                                 *)
SetParent(c, p) ==
  /\ open = {}
  /\ c \notin Lineage(scene, p)
  /\ scene.parent[c] # p
  /\ Becomes(Joined(Left(scene, c), c, p))
  /\ UNCHANGED <<open, telling, moves>>

(* handle_transform_events comes to e, sooner or later and in any order:   *)
(* on_flag clears the flag, then the event is handled.                     *)
Visit(e) ==
  /\ telling = Null /\ open = {}
  /\ Has(scene, e)
  /\ Invalid(scene, e, "EventFlag")
  /\ scene' = [scene EXCEPT !.tf[e].dirty = @ \ {"EventFlag"}]
  /\ telling' = e
  /\ untold' = untold \ {e}
  /\ UNCHANGED <<open, moves>>

(* Mutant: the flag is cleared after the event. *)
ToldAndCleared ==
  /\ telling # Null /\ open = {}
  /\ telling' = Null
  /\ scene' = [scene EXCEPT !.tf[telling].dirty = @ \ {"EventFlag"}]
  /\ UNCHANGED <<open, untold, moves>>

(* The handlers have returned. *)
Told ==
  /\ telling # Null /\ open = {}
  /\ telling' = Null
  /\ UNCHANGED <<scene, open, untold, moves>>

Next ==
  \/ Told
  \/ \E e \in Entities :
       \/ Emplace(e) \/ Open(e) \/ Close(e) \/ GetMatrix(e) \/ Visit(e)
       \/ \E m \in Given : Move(e, m)
       \/ \E p \in Entities : SetParent(e, p)

Spec == Init /\ [][Next]_vars

-----------------------------------------------------------------------------
(* A matrix that is not marked invalid is the product of the local         *)
(* transforms above it, whatever was moved, attached elsewhere or given a  *)
(* transform meanwhile: no reader sees a matrix from before.               *)
(* (transform.cpp: invalidate_world, update_matrix.)                       *)
CachesAreCurrent ==
  LET world == World(scene)
  IN  \A e \in DOMAIN scene.tf :
        /\ ~Invalid(scene, e, "M") => scene.tf[e].m = scene.tf[e].local
        /\ ~Invalid(scene, e, "W") => scene.tf[e].w = world[e]
        /\ ~Invalid(scene, e, "IW") => scene.tf[e].iw = Inverse(world[e])

(* An entity that moved since its last OnTransformChanged is marked for    *)
(* the next sweep, also when it moved while that event was handled or      *)
(* because it got another parent.  (transform_component.hpp: on_flag.)     *)
ChangesAreMarked ==
  \A e \in untold : Invalid(scene, e, "EventFlag")

(* An entity that changes its parent stays where it is in the world, with  *)
(* all below it, if it has a transform, was in a relationship before, and  *)
(* its new parent has a transform.                                         *)
(* (relationship_component.cpp: add_child, remove_child.)                  *)
AttachingKeepsTheWorld ==
  [][\A c \in scene.related \cap DOMAIN scene.tf :
       /\ scene'.parent[c] # scene.parent[c]
       /\ Has(scene, scene'.parent[c])
       => LET before == World(scene)
              after  == World(scene)'
          IN  \A e \in DOMAIN scene.tf : after[e] = before[e]]_vars

(* Setting a matrix, a position or an orientation in the world gives just  *)
(* that, whatever is out of date above.  (transform.cpp: set_matrix,       *)
(* set_position, set_basis.)                                               *)
MovesArrive ==
  [][\A e \in open, m \in Given :
       moves' # moves =>
         LET arrived == World(scene)'[e]
         IN  /\ scene' = SetMatrix(scene, e, m) => arrived = m
             /\ scene' = SetPosition(scene, e, m.at) => arrived.at = m.at
             /\ scene' = SetBasis(scene, e, m.turned)
                  => arrived.turned = m.turned]_vars
=============================================================================
