---------------------------- MODULE Relationship ----------------------------
(***************************************************************************)
(* The entity tree: RelationshipComponent                                  *)
(* (engine/components/relationship_component.cpp, .hpp) and the service    *)
(* functions that change it (engine/service.cpp).  A parent knows how many *)
(* children it has and the first of them; the children are chained by prev *)
(* and next.  The code never checks that a new parent is not a descendant; *)
(* that is left to its callers, and here to the guard of SetParent.        *)
(***************************************************************************)
EXTENDS Integers, Sequences, FiniteSets, SequencesExt

CONSTANTS
  Entities,  \* every entity the registry ever holds
  Root,      \* the entity the service allocates for itself
  Null,      \* the null entity
  Absent     \* stands for a RelationshipComponent an entity does not have

ASSUME EntitiesAssumption == IsFiniteSet(Entities)
ASSUME RootAssumption == Root \in Entities
ASSUME NullAssumption == Null \notin Entities

VARIABLES
  rel,              \* the registry's RelationshipComponents
  alive,            \* the valid entities
  destroyChildren,  \* ServicePolicy::destroy_children_with_parent
  aborted,          \* a component that does not exist was dereferenced
  spliced,          \* history: a child was removed from between two siblings
  dropped           \* history: an entity was destroyed that its parent survived

vars == <<rel, alive, destroyChildren, aborted, spliced, dropped>>

Links == Entities \cup {Null}

Relation == [child_count : Nat, parent : Links,
             first : Links, prev : Links, next : Links]

ASSUME AbsentAssumption == Absent \notin Relation

RelationOf(parent) ==
  [child_count |-> 0, parent |-> parent,
   first |-> Null, prev |-> Null, next |-> Null]

Has(r, e) == e \in Entities /\ r[e] # Absent

TypeOK ==
  /\ rel \in [Entities -> Relation \cup {Absent}]
  /\ alive \subseteq Entities
  /\ destroyChildren \in BOOLEAN
  /\ aborted \in BOOLEAN
  /\ spliced \in BOOLEAN
  /\ dropped \in BOOLEAN

Init ==
  /\ rel = [e \in Entities |-> Absent]
  /\ alive = Entities
  /\ destroyChildren \in BOOLEAN
  /\ aborted = FALSE
  /\ spliced = FALSE
  /\ dropped = FALSE

-----------------------------------------------------------------------------
(* Reading the tree. *)

(* The links from first along next; null and an entity without a component *)
(* lead to null.                                                           *)
Along(r, e) ==
  LET next == [c \in Links |-> IF Has(r, c) THEN r[c].next ELSE Null]
      nth[n \in 0..Cardinality(Entities)] ==
        IF n = 0 THEN r[e].first ELSE next[nth[n - 1]]
  IN  nth

(* The entities met on the way, each once. *)
Chain(r, e) ==
  LET nth == Along(r, e)
      met == {nth[n] : n \in DOMAIN nth} \ {Null}
  IN  [i \in 1..Cardinality(met) |-> nth[i - 1]]

(* The last entity of the chain is its own next: enumeration breaks off    *)
(* without visiting it.                                                    *)
SelfLinked(r, e) ==
  LET w == Chain(r, e)
  IN  w # << >> /\ Has(r, Last(w)) /\ r[Last(w)].next = Last(w)

(* enumerate_children: the entities passed to the callback, in order. *)
Children(r, e) == IF SelfLinked(r, e) THEN Front(Chain(r, e)) ELSE Chain(r, e)

(* An enumeration to the end dereferences a missing component, or goes     *)
(* round for ever.                                                         *)
Broken(r, e) ==
  LET w == Chain(r, e)
  IN  /\ w # << >>
      /\ \/ ~Has(r, Last(w))
         \/ r[Last(w)].next \notin {Null, Last(w)}

ParentOf(r, e) == IF Has(r, e) THEN r[e].parent ELSE Null

(* The ancestors of e, e included. *)
Lineage(r, e) ==
  LET up[n \in 0..Cardinality(Entities)] ==
        IF n = 0 THEN {e}
        ELSE up[n - 1] \cup {ParentOf(r, x) : x \in up[n - 1]}
  IN  up[Cardinality(Entities)] \ {Null}

-----------------------------------------------------------------------------
(* Changing the tree: operators from registry to registry. *)

(* Mutant: the sibling that becomes the first keeps its prev. *)
RemoveChildKeepsPrev(r, self, child) ==
  LET c     == r[child]
      chain == IF c.prev # Null THEN [r EXCEPT ![c.prev].next = c.next] ELSE r
      owner == [chain EXCEPT
                  ![self].first = IF @ = child THEN c.next ELSE @,
                  ![self].child_count = @ - 1]
  IN  [owner EXCEPT ![child] =
         [@ EXCEPT !.parent = Null, !.prev = Null, !.next = Null]]

(* remove_child(registry, child, self): forward_previous and               *)
(* collapse_child.  With a previous sibling, only that sibling is told.    *)
RemoveChild(r, self, child) ==
  LET c     == r[child]
      chain == IF c.prev # Null THEN [r EXCEPT ![c.prev].next = c.next]
               ELSE IF c.next # Null THEN [r EXCEPT ![c.next].prev = Null]
               ELSE r
      owner == [chain EXCEPT
                  ![self].first = IF @ = child THEN c.next ELSE @,
                  ![self].child_count = @ - 1]
  IN  [owner EXCEPT ![child] =
         [@ EXCEPT !.parent = Null, !.prev = Null, !.next = Null]]

(* Mutant: the child is not taken from its previous parent. *)
NotDetached(r, child) == r

(* remove_previous_parent. *)
Detached(r, child) ==
  IF ParentOf(r, child) # Null THEN RemoveChild(r, r[child].parent, child)
  ELSE r

(* Mutant: the child goes before the first child. *)
LinkedFirst(r, self, child) ==
  LET kept == IF Has(r, child) THEN [r[child] EXCEPT !.parent = self]
              ELSE RelationOf(self)
      old  == r[self].first
      moved == IF old = Null THEN r ELSE [r EXCEPT ![old].prev = child]
  IN  [moved EXCEPT ![self].first = child, ![self].child_count = @ + 1,
                    ![child] = [kept EXCEPT !.next = old]]

(* The tail of add_child: the child goes behind the last child. *)
Linked(r, self, child) ==
  LET kept     == IF Has(r, child) THEN [r[child] EXCEPT !.parent = self]
                  ELSE RelationOf(self)
      siblings == Children(r, self)
      placed   == IF r[self].child_count = 0
                  THEN [r EXCEPT ![self].first = child, ![child] = kept]
                  ELSE [r EXCEPT ![Last(siblings)].next = child,
                                 ![child] = [kept EXCEPT !.prev = Last(siblings)]]
  IN  [placed EXCEPT ![self].child_count = @ + 1]

(* set_parent: get_or_emplace the parent's component, then add_child. *)
WithComponent(r, e) == IF Has(r, e) THEN r ELSE [r EXCEPT ![e] = RelationOf(Null)]

Parented(r, child, parent) ==
  LET emplaced == WithComponent(r, parent)
  IN  IF child = parent \/ parent = Null THEN r
      ELSE IF Contains(Children(emplaced, parent), child) THEN emplaced
      ELSE Linked(Detached(emplaced, child), parent, child)

(* set_parent does not come to its end: it dereferences a component that   *)
(* does not exist (beside the child it takes out, or as the last child of  *)
(* a parent that counts children but reaches none), or never stops.        *)
Faults(r, child, parent) ==
  LET emplaced   == WithComponent(r, parent)
      after      == Detached(emplaced, child)
      Missing(e) == e # Null /\ ~Has(emplaced, e)
  IN  /\ child # parent
      /\ parent # Null
      /\ ~Contains(Children(emplaced, parent), child)
      /\ \/ Broken(emplaced, parent)
         \/ /\ ParentOf(emplaced, child) # Null
            /\ \/ Missing(emplaced[child].parent)
               \/ Missing(emplaced[child].prev)
               \/ emplaced[child].prev = Null /\ Missing(emplaced[child].next)
         \/ /\ after[parent].child_count # 0
            /\ \/ Children(after, parent) = << >>
               \/ Broken(after, parent)
               \/ SelfLinked(after, parent)

(* The relationship_destroyed_handler's two policies. *)

(* Mutant: the children are not destroyed. *)
SubtreeOfOne(r, e) == {e}

Descent(r, e) ==
  LET down[n \in 0..Cardinality(Entities)] ==
        IF n = 0 THEN {e}
        ELSE down[n - 1] \cup
             UNION {ToSet(Children(r, x)) : x \in {y \in down[n - 1] : Has(r, y)}}
  IN  down
Subtree(r, e) == Descent(r, e)[Cardinality(Entities)]

(* Destroying the children recursively meets an entity a second time, or   *)
(* one without a component.                                                *)
SubtreeFaults(r, e) ==
  LET listing == {x \in Subtree(r, e) : Has(r, x)}
  IN  \/ \E x \in listing : Broken(r, x)
      \/ \E x, y \in listing :
           x # y /\ ToSet(Children(r, x)) \cap ToSet(Children(r, y)) # {}

(* A child goes to its new home, unless the enumeration came to a halt. *)
Moved(acc, child, home) ==
  IF acc.fault \/ Faults(acc.r, child, home) THEN [acc EXCEPT !.fault = TRUE]
  ELSE [acc EXCEPT !.r = Parented(acc.r, child, home)]

(* The children of e move to its parent, or to the root, one by one. *)
HomeOf(r, e) == IF r[e].parent = Null THEN Root ELSE r[e].parent
Rehoming(r, e) ==
  LET list == Children(r, e)
      home == HomeOf(r, e)
      after[n \in 0..Len(list)] ==
        IF n = 0 THEN [r |-> r, fault |-> Broken(r, e) \/ home \notin alive]
        ELSE Moved(after[n - 1], list[n], home)
  IN  after
Rehomed(r, e) == Rehoming(r, e)[Len(Children(r, e))]

-----------------------------------------------------------------------------
(* The operations of the service. *)

(* A child is about to be taken out from between two siblings. *)
Splices(child, parent) ==
  /\ ParentOf(rel, child) # Null
  /\ ~Contains(Children(WithComponent(rel, parent), parent), child)
  /\ rel[child].prev # Null
  /\ rel[child].next # Null

Abort ==
  /\ aborted' = TRUE
  /\ UNCHANGED <<rel, alive, destroyChildren, spliced, dropped>>

(* Service::set_parent.  Callers keep the tree acyclic and the root at the *)
(* top; the code relies on both and checks neither.                        *)
SetParent(child, parent) ==
  /\ ~aborted
  /\ {child, parent} \subseteq alive
  /\ child # Root
  /\ child \notin Lineage(rel, parent)
  /\ IF Faults(rel, child, parent) THEN Abort
     ELSE /\ rel' = Parented(rel, child, parent)
          /\ spliced' = (spliced \/ Splices(child, parent))
          /\ UNCHANGED <<alive, destroyChildren, aborted, dropped>>

(* Service::remove_parent: the root takes the child in. *)
RemoveParent(child) == SetParent(child, Root)

(* Some of the entities are taken from a parent that stays. *)
Drops(r, gone) == \E x \in gone : ParentOf(r, x) \notin gone \cup {Null}

(* registry.destroy(e), with the handler connected to on_destroy.  Nothing *)
(* takes e, or what it takes along, out of the chain of its own parent.    *)
Destroy(e) ==
  /\ ~aborted
  /\ e \in alive \ {Root}
  /\ \/ /\ ~Has(rel, e)
        /\ alive' = alive \ {e}
        /\ UNCHANGED <<rel, aborted, dropped>>
     \/ /\ Has(rel, e)
        /\ destroyChildren
        /\ aborted' = SubtreeFaults(rel, e)
        /\ LET gone == IF SubtreeFaults(rel, e) THEN {} ELSE Subtree(rel, e)
           IN  /\ alive' = alive \ gone
               /\ rel' = [x \in Entities |-> IF x \in gone THEN Absent ELSE rel[x]]
               /\ dropped' = (dropped \/ Drops(rel, gone))
     \/ /\ Has(rel, e)
        /\ ~destroyChildren
        /\ LET result == Rehomed(rel, e)
               gone   == IF result.fault THEN {} ELSE {e}
           IN  /\ aborted' = result.fault
               /\ alive' = alive \ gone
               /\ rel' = IF result.fault THEN rel ELSE [result.r EXCEPT ![e] = Absent]
               /\ dropped' = (dropped \/ Drops(result.r, gone))
  /\ UNCHANGED <<destroyChildren, spliced>>

Next ==
  \/ \E child, parent \in Entities : SetParent(child, parent)
  \/ \E child \in Entities : RemoveParent(child)
  \/ \E e \in Entities : Destroy(e)

Spec == Init /\ [][Next]_vars

-----------------------------------------------------------------------------
(* What the chains mean while they are sound. *)

ChildrenOf(r, p) == {c \in Entities : ParentOf(r, c) = p}

(* p counts its children, meets each exactly once, and each child's prev   *)
(* is the child before it.                                                 *)
ChainIsSound(r, p) ==
  LET w == Children(r, p)
  IN  /\ ~Broken(r, p)
      /\ ~SelfLinked(r, p)
      /\ ToSet(w) = ChildrenOf(r, p)
      /\ r[p].child_count = Len(w)
      /\ \A i \in DOMAIN w : r[w[i]].prev = IF i = 1 THEN Null ELSE w[i - 1]

Intact == ~spliced /\ ~dropped

(* As long as no child was removed from between two siblings and no        *)
(* entity was destroyed that its parent survived, every chain of siblings  *)
(* is sound in both directions, entities without a parent are linked to    *)
(* nobody, and no operation meets a missing component                      *)
(* (relationship_component.cpp: add_child, remove_child, forward_previous; *)
(* service.cpp: relationship_destroyed_handler).                           *)
IntactChainsAreSound ==
  Intact =>
    /\ ~aborted
    /\ \A p \in Entities : Has(rel, p) => ChainIsSound(rel, p)
    /\ \A e \in Entities : Has(rel, e) /\ rel[e].parent = Null =>
         rel[e].prev = Null /\ rel[e].next = Null

(* child_count is right even when the chain is not: as long as no entity   *)
(* was destroyed that its parent survived, every entity counts exactly the *)
(* entities that name it as their parent (add_child and collapse_child     *)
(* change the count together with the child's parent).                     *)
CountMatchesParents ==
  ~dropped => \A p \in Entities :
                Has(rel, p) => rel[p].child_count = Cardinality(ChildrenOf(rel, p))

(* Destroying an entity leaves no survivor with a destroyed parent, under  *)
(* either policy, as long as the sibling chains were not spliced           *)
(* (relationship_destroyed_handler).                                       *)
ParentsAreAlive ==
  ~spliced => \A e \in alive : ParentOf(rel, e) \in alive \cup {Null}

Forest == INSTANCE OrderedForest WITH
  kids <- [e \in Entities |-> IF Has(rel, e) THEN Children(rel, e) ELSE << >>]

(* Every step that leaves the tree intact is a step of the ordered forest: *)
(* it moves one child to the end of another list, prunes a subtree or      *)
(* hands the children of a destroyed entity to the root in their order,    *)
(* and leaves every other list of siblings as it was (set_parent,          *)
(* relationship_destroyed_handler).                                        *)
IntactStepsAreForestSteps ==
  Forest!Init /\ [][Intact' => Forest!Step]_vars

(* Documented at relationship_component.hpp:64, "Enumerates children,     *)
(* calling `fn` on each child": the entities met are the entities whose   *)
(* parent this is.  The code does not keep it when a child leaves from     *)
(* between two siblings: forward_previous never updates the next sibling's *)
(* prev.                                                                   *)
EnumerationMeetsEveryChild ==
  ~dropped /\ ~aborted =>
    \A p \in Entities : Has(rel, p) => ToSet(Children(rel, p)) = ChildrenOf(rel, p)

(* The same promise for a parent whose child was destroyed: enumeration    *)
(* must not meet an entity that has no component any more.  Nothing in     *)
(* relationship_destroyed_handler takes the entity out of its parent.      *)
EnumerationMeetsLiveChildren ==
  ~spliced => \A p \in alive : Has(rel, p) => ~Broken(rel, p)
=============================================================================
