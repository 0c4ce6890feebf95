------------------------- MODULE RelationshipProofs -------------------------
(***************************************************************************)
(* Theorems about Relationship, for any finite set of entities.            *)
(*                                                                         *)
(* The chains of siblings are functions defined by recursion along next,   *)
(* so the proofs first get induction over the naturals and the existence   *)
(* of such functions from the well-foundedness of < (Least, Steps,         *)
(* Recursion).  Then every operator from registry to registry is described *)
(* field by field (WithComponentAs, RemovedAs, LinkedAs), and what the     *)
(* tree means is said without chains:                                      *)
(*                                                                         *)
(*  - Counted: a parent counts at least the entities that name it, exactly *)
(*    those while no destroyed entity was survived by its parent, and the  *)
(*    parent of a valid entity has a component.  It needs nothing of the   *)
(*    chains and is inductive alone (CountInv).                            *)
(*                                                                         *)
(*  - Tree(r, k, live): the lists k of children, one per entity, explain   *)
(*    every first, prev, next, parent and child_count of the registry r.   *)
(*    Destroyed entities may still be in the list of a parent that         *)
(*    survived; without any (Complete) nothing can fault.  set_parent      *)
(*    takes a child out of its list and appends it to another (TreeParented*)
(*    for the ends of a list, NoFaults), giving the children away one by   *)
(*    one is the same n times over (Given, RehomingTree), and a set of     *)
(*    entities closed under their lists may go (TreeGone).                 *)
(*                                                                         *)
(* TreeInv says that such lists exist while no chain was spliced; that no  *)
(* entity is its own ancestor (Acyclic) is needed because an entity hands  *)
(* its children to its parent, which must not be one of them.  The lists   *)
(* are the kids of OrderedForest.                                          *)
(***************************************************************************)
EXTENDS Relationship, FiniteSetTheorems, SequenceTheorems, TLAPS

(* Induction over the naturals, for sets. *)
LEMMA Least == ASSUME NEW T \in SUBSET Nat, T # {} PROVE \E m \in T : \A n \in T : m <= n
<1>1. PICK m \in T : \A n \in T : ~(<<n, m>> \in OpToRel(<, Nat))
  BY NatLessThanWellFounded, WFMin
<1>2. ASSUME NEW n \in T PROVE m <= n
  <2>1. <<n, m>> \notin OpToRel(<, Nat)
    BY <1>1
  <2>2. n \in Nat /\ m \in Nat
    OBVIOUS
  <2>3. ~(n < m)
    BY <2>1, <2>2 DEF OpToRel
  <2> QED
    BY <2>2, <2>3
<1> QED
  BY <1>2

(* A set with 0 that goes from n - 1 to n has all of 0..N.                 *)
LEMMA Steps ==
  ASSUME NEW N \in Nat, NEW T, 0 \in T, \A n \in 1..N : n - 1 \in T => n \in T
  PROVE  0..N \subseteq T
<1> DEFINE Out == (0..N) \ T
<1> SUFFICES ASSUME Out # {} PROVE FALSE
  OBVIOUS
<1>0. Out \in SUBSET Nat
  OBVIOUS
<1>1. PICK m \in Out : \A n \in Out : m <= n
  <2> HIDE DEF Out
  <2> QED
    BY <1>0, Least
<1>2. m # 0
  OBVIOUS
<1>3. m \in 1..N /\ m - 1 \in 0..N /\ m - 1 \notin Out
  BY <1>1, <1>2
<1> QED
  BY <1>3

(* A function that is defined by recursion exists. *)
Recurs(f, N, start, F) == f = [n \in 0..N |-> IF n = 0 THEN start ELSE F[n][f[n - 1]]]

LEMMA Recursion ==
  ASSUME NEW N \in Nat, NEW S, NEW start \in S, NEW F \in [1..N -> [S -> S]]
  PROVE  \E f \in [0..N -> S] : Recurs(f, N, start, F)
<1> DEFINE T == {n \in 0..N : \E f \in [0..n -> S] : Recurs(f, n, start, F)}
<1>1. 0 \in T
  <2>1. [n \in 0..0 |-> start] \in [0..0 -> S]
    OBVIOUS
  <2>2. Recurs([n \in 0..0 |-> start], 0, start, F)
    BY DEF Recurs
  <2> QED
    BY <2>1, <2>2
<1>2. ASSUME NEW n \in 1..N, n - 1 \in T PROVE n \in T
  <2>1. PICK f \in [0..(n - 1) -> S] : Recurs(f, n - 1, start, F)
    BY <1>2
  <2> DEFINE g == [i \in 0..n |-> IF i = n THEN F[n][f[n - 1]] ELSE f[i]]
  <2>2. F[n][f[n - 1]] \in S
    OBVIOUS
  <2>3. g \in [0..n -> S]
    BY <2>2, SMTT(30), ZenonT(60)
  <2>4. ASSUME NEW i \in 0..n PROVE g[i] = IF i = 0 THEN start ELSE F[i][g[i - 1]]
    <3>1. CASE i = n
      <4>1. g[n] = F[n][f[n - 1]] /\ g[n - 1] = f[n - 1]
        BY SMTT(30), ZenonT(30)
      <4> QED
        BY <3>1, <4>1
    <3>2. CASE i # n
      <4>1. i \in 0..(n - 1) /\ g[i] = f[i]
        BY <3>2, SMTT(60)
      <4>2. f[i] = IF i = 0 THEN start ELSE F[i][f[i - 1]]
        BY <2>1, <4>1 DEF Recurs
      <4>3. i # 0 => g[i - 1] = f[i - 1]
        BY <3>2, SMTT(30), ZenonT(30)
      <4> QED
        BY <4>1, <4>2, <4>3
    <3> QED
      BY <3>1, <3>2
  <2>5. Recurs(g, n, start, F)
    BY <2>3, <2>4 DEF Recurs
  <2> QED
    BY <2>3, <2>5
<1>3. 0..N \subseteq T
  <2> HIDE DEF T
  <2> QED
    BY <1>1, <1>2, Steps
<1> QED
  BY <1>3
-----------------------------------------------------------------------------
(* The recursive definitions. *)

(* No chain, lineage or subtree is longer than this.                       *)
N == Cardinality(Entities)

(* Sets of entities are finite and no larger than N.                       *)
LEMMA Bounded ==
  /\ N \in Nat
  /\ \A set \in SUBSET Entities :
       IsFiniteSet(set) /\ Cardinality(set) \in Nat /\ Cardinality(set) <= N
BY EntitiesAssumption, FS_CardinalityType, FS_Subset DEF N

(* What a registry is; r stands for any, rel is the current one.           *)
Typed(r) == r \in [Entities -> Relation \cup {Absent}]

(* One step along the chain of siblings.                                   *)
NextOf(r, c) == IF Has(r, c) THEN r[c].next ELSE Null

(* Along starts at first and follows next.                                 *)
LEMMA AlongSteps ==
  ASSUME NEW r, Typed(r), NEW e, Has(r, e)
  PROVE  /\ Along(r, e) \in [0..N -> Links]
         /\ Along(r, e)[0] = r[e].first
         /\ \A n \in 1..N : Along(r, e)[n] = NextOf(r, Along(r, e)[n - 1])
<1> DEFINE next == [c \in Links |-> IF Has(r, c) THEN r[c].next ELSE Null]
           Good(g) == g = [n \in 0..N |-> IF n = 0 THEN r[e].first ELSE next[g[n - 1]]]
           F == [n \in 1..N |-> next]
           nth == Along(r, e)
<1>1. nth = CHOOSE g : Good(g)
  BY DEF Along, N
<1>2. r[e].first \in Links /\ next \in [Links -> Links]
  BY DEF Has, Typed, Relation, Links
<1>3. F \in [1..N -> [Links -> Links]]
  BY <1>2
<1>4. \E f \in [0..N -> Links] : Good(f)
  <2> HIDE DEF next, nth
  <2>1. PICK f \in [0..N -> Links] : Recurs(f, N, r[e].first, F)
    BY <1>2, <1>3, Bounded, Recursion
  <2>2. Good(f)
    BY <2>1, Bounded DEF Recurs
  <2> QED
    BY <2>2
<1>5. Good(nth)
  <2> HIDE DEF Good, nth
  <2> QED
    BY <1>1, <1>4
<1> HIDE DEF nth
<1>6. nth[0] = r[e].first
  BY <1>5, Bounded
<1>7. \A n \in 1..N : nth[n] = next[nth[n - 1]]
  <2> HIDE DEF next
  <2> QED
    BY <1>5, Bounded
<1>8. \A n \in 0..N : nth[n] \in Links
  <2> DEFINE T == {n \in 0..N : nth[n] \in Links}
  <2> HIDE DEF next
  <2>1. 0 \in T
    BY <1>2, <1>6, Bounded
  <2>2. \A n \in 1..N : n - 1 \in T => n \in T
    BY <1>2, <1>7, Bounded
  <2>3. 0..N \subseteq T
    <3> HIDE DEF T
    <3> QED
      BY <2>1, <2>2, Bounded, Steps
  <2> QED
    BY <2>3
<1>9. DOMAIN nth = 0..N
  BY <1>5
<1>10. nth \in [0..N -> Links]
  <2> HIDE DEF next, Good
  <2>1. nth = [n \in 0..N |-> nth[n]]
    BY <1>5 DEF Good
  <2> QED
    BY <1>8, <2>1
<1>11. \A n \in 1..N : nth[n] = NextOf(r, nth[n - 1])
  <2>1. \A n \in 1..N : n - 1 \in 0..N
    BY Bounded
  <2> QED
    BY <1>7, <1>8, <2>1 DEF NextOf
<1> QED
  BY <1>6, <1>10, <1>11 DEF nth

(* A sequence without repetitions.                                         *)
Distinct(w) == \A i, j \in DOMAIN w : w[i] = w[j] => i = j

(* A set that m distinct values run through has m elements.                *)
LEMMA CountOfRange ==
  ASSUME NEW m \in Nat, NEW f, \A i, j \in 1..m : f[i] = f[j] => i = j,
         NEW S, \A i \in 1..m : f[i] \in S, \A x \in S : \E i \in 1..m : x = f[i]
  PROVE  IsFiniteSet(S) /\ Cardinality(S) = m
<1> DEFINE g == [i \in 1..m |-> f[i]]
<1>1. g \in Bijection(1..m, S)
  BY DEF Bijection, Injection, Surjection, IsInjective
<1>2. ExistsBijection(1..m, S)
  BY <1>1 DEF ExistsBijection
<1> QED
  BY <1>2, FS_CountingElements, FS_NatBijection

(* No more entities are met than there were links before the first null. *)
LEMMA ChainInEntities ==
  ASSUME NEW r, Typed(r), NEW e, Has(r, e)
  PROVE  Chain(r, e) \in Seq(Entities)
<1> DEFINE nth == Along(r, e)
           met == {nth[n] : n \in DOMAIN nth} \ {Null}
           m == Cardinality(met)
<1>1. /\ nth \in [0..N -> Links]
      /\ \A n \in 1..N : nth[n] = NextOf(r, nth[n - 1])
  BY AlongSteps
<1>2. Chain(r, e) = [i \in 1..m |-> nth[i - 1]]
  BY DEF Chain
<1> HIDE DEF nth
<1>3. met \in SUBSET Entities
  BY <1>1 DEF Links
<1>4. m \in Nat /\ m <= N
  <2> HIDE DEF met
  <2> QED
    BY <1>3, Bounded
<1> SUFFICES ASSUME NEW k \in 0..(m - 1) PROVE nth[k] \in Entities
  <2> HIDE DEF met, m
  <2>1. \A i \in 1..m : i - 1 \in 0..(m - 1)
    BY <1>4
  <2>2. [i \in 1..m |-> nth[i - 1]] \in [1..m -> Entities]
    BY <2>1
  <2> QED
    BY <1>2, <1>4, <2>2, SeqDef
<1> SUFFICES ASSUME nth[k] = Null PROVE FALSE
  <2> HIDE DEF met, m
  <2>1. k \in 0..N
    BY <1>4, Bounded
  <2> QED
    BY <1>1, <2>1 DEF Links
<1>5. k \in 0..N /\ k < m
  <2> HIDE DEF met, m
  <2> QED
    BY <1>4, Bounded
<1>6. \A n \in 0..N : n < k \/ nth[n] = Null
  <2> DEFINE T == {n \in 0..N : n < k \/ nth[n] = Null}
  <2>1. 0 \in T
    BY <1>5, Bounded
  <2>2. ASSUME NEW n \in 1..N, n - 1 \in T PROVE n \in T
    <3>1. CASE n - 1 < k
      <4>1. n < k \/ n = k
        BY <1>5, <3>1, Bounded
      <4> QED
        BY <4>1, Bounded
    <3>2. CASE nth[n - 1] = Null
      BY <1>1, <3>2, NullAssumption, Bounded DEF NextOf, Has
    <3> QED
      BY <2>2, <3>1, <3>2
  <2>3. 0..N \subseteq T
    <3> HIDE DEF T
    <3> QED
      BY <2>1, <2>2, Bounded, Steps
  <2> QED
    BY <2>3
<1>7. met \subseteq {nth[n] : n \in 0..(k - 1)}
  <2> SUFFICES ASSUME NEW n \in 0..N, nth[n] # Null PROVE nth[n] \in {nth[i] : i \in 0..(k - 1)}
    BY <1>1
  <2>1. n \in 0..(k - 1)
    BY <1>5, <1>6, Bounded
  <2> QED
    BY <2>1
<1>8. Cardinality({nth[n] : n \in 0..(k - 1)}) <= k /\ IsFiniteSet({nth[n] : n \in 0..(k - 1)})
  <2> DEFINE S == 0..(k - 1)
             f == [n \in S |-> nth[n]]
             R == {nth[n] : n \in S}
  <2>1. f \in Surjection(S, R)
    BY DEF Surjection
  <2>2. IsFiniteSet(S) /\ Cardinality(S) = k
    <3>1. k \in Nat
      BY <1>5, Bounded
    <3>2. IsFiniteSet(0..(k - 1)) /\ Cardinality(0..(k - 1)) = IF 0 > k - 1 THEN 0 ELSE k - 1 - 0 + 1
      BY <3>1, FS_Interval
    <3> QED
      BY <3>1, <3>2
  <2> HIDE DEF S, f, R
  <2>3. IsFiniteSet(R) /\ Cardinality(R) <= Cardinality(S)
    BY <2>1, <2>2, FS_Surjection
  <2> QED
    BY <2>2, <2>3 DEF R, S
<1>9. m <= Cardinality({nth[n] : n \in 0..(k - 1)})
  <2> HIDE DEF met
  <2> QED
    BY <1>7, <1>8, FS_Subset
<1>10. Cardinality({nth[n] : n \in 0..(k - 1)}) \in Nat
  BY <1>8, FS_CardinalityType
<1> HIDE DEF met, m
<1> QED
  BY <1>4, <1>5, <1>8, <1>9, <1>10

(* The children a parent leads to, one after the other. *)
Leads(r, p, w) ==
  /\ w \in Seq(Entities)
  /\ Distinct(w)
  /\ r[p].first = IF Len(w) = 0 THEN Null ELSE w[1]
  /\ \A i \in DOMAIN w : Has(r, w[i]) => r[w[i]].next = IF i = Len(w) THEN Null ELSE w[i + 1]

(* The chain stops at the end of w, or at its first entity without a       *)
(* component.                                                              *)
LEMMA ChainUpTo ==
  ASSUME NEW r, Typed(r), NEW p, Has(r, p), NEW w, Leads(r, p, w),
         NEW m \in 0..Len(w), m = 0 => Len(w) = 0,
         \A i \in 1..(m - 1) : Has(r, w[i]),
         m = Len(w) \/ ~Has(r, w[m])
  PROVE  Chain(r, p) = [i \in 1..m |-> w[i]] /\ m \in Nat
<1> DEFINE nth == Along(r, p)
           met == {nth[n] : n \in DOMAIN nth} \ {Null}
<1>1. /\ nth \in [0..N -> Links]
      /\ nth[0] = r[p].first
      /\ \A n \in 1..N : nth[n] = NextOf(r, nth[n - 1])
  BY AlongSteps
<1>2. Chain(r, p) = [i \in 1..Cardinality(met) |-> nth[i - 1]]
  BY DEF Chain
<1> HIDE DEF nth
<1> HIDE DEF met
<1>3. PICK len \in Nat : /\ len = Len(w)
                        /\ DOMAIN w = 1..len
                        /\ \A i \in 1..len : w[i] \in Entities
  <2>1. w \in Seq(Entities)
    BY DEF Leads
  <2>2. /\ Len(w) \in Nat
        /\ DOMAIN w = 1..Len(w)
        /\ w \in [1..Len(w) -> Entities]
    BY <2>1, LenProperties
  <2> QED
    BY <2>2
<1>4. m \in Nat /\ m <= len /\ (m = len \/ ~Has(r, w[m])) /\ (m = 0 => len = 0)
  BY <1>3
<1>0. /\ m # 0 => r[p].first = w[1]
      /\ len = 0 => r[p].first = Null
      /\ \A i \in 1..len : Has(r, w[i]) => r[w[i]].next = IF i = len THEN Null ELSE w[i + 1]
      /\ \A i, j \in 1..len : w[i] = w[j] => i = j
  BY <1>3, <1>4, SMTT(60) DEF Leads, Distinct
<1>5. /\ IsFiniteSet({w[i] : i \in 1..m})
      /\ Cardinality({w[i] : i \in 1..m}) = m
  <2>1. \A i, j \in 1..m : w[i] = w[j] => i = j
    BY <1>0, <1>4
  <2> DEFINE S == {w[i] : i \in 1..m}
  <2>2. (\A i \in 1..m : w[i] \in S) /\ (\A x \in S : \E i \in 1..m : x = w[i])
    OBVIOUS
  <2> HIDE DEF S
  <2>3. IsFiniteSet(S) /\ Cardinality(S) = m
    BY <1>4, <2>1, <2>2, CountOfRange
  <2> QED
    BY <2>3 DEF S
<1>6. m <= N
  <2>1. {w[i] : i \in 1..m} \in SUBSET Entities
    BY <1>3, <1>4
  <2> QED
    BY <1>5, <2>1, Bounded
<1>7. \A n \in 0..N : nth[n] = IF n < m THEN w[n + 1] ELSE Null
  <2> DEFINE T == {n \in 0..N : nth[n] = IF n < m THEN w[n + 1] ELSE Null}
  <2>1. 0 \in T
    <3>1. CASE m = 0
      <4>1. nth[0] = Null
        <5>1. len = 0
          BY <1>4, <3>1
        <5> QED
          BY <1>0, <1>1, <5>1
      <4> QED
        BY <3>1, <4>1, Bounded
    <3>2. CASE m # 0
      <4>2. nth[0] = w[1] /\ 0 < m
        BY <1>0, <1>1, <1>4, <3>2
      <4> QED
        BY <4>2, Bounded
    <3> QED
      BY <3>1, <3>2
  <2>2. ASSUME NEW n \in 1..N, n - 1 \in T PROVE n \in T
    <3>1. nth[n] = NextOf(r, nth[n - 1]) /\ n \in Nat /\ n > 0
      BY <1>1, Bounded
    <3>2. CASE n < m
      <4>1. nth[n - 1] = w[n] /\ n \in 1..(m - 1) /\ n \in 1..len /\ n # len
        BY <1>3, <1>4, <2>2, <3>1, <3>2
      <4>2. Has(r, w[n]) /\ r[w[n]].next = w[n + 1]
        BY <1>0, <4>1
      <4> QED
        BY <3>1, <3>2, <4>1, <4>2 DEF NextOf
    <3>3. CASE n = m
      <4>1. nth[n - 1] = w[m] /\ m \in 1..len
        BY <1>3, <1>4, <2>2, <3>1, <3>3
      <4>2. NextOf(r, w[m]) = Null
        BY <1>0, <1>4, <4>1 DEF NextOf
      <4> QED
        BY <1>4, <3>1, <3>3, <4>1, <4>2
    <3>4. CASE n > m
      <4>1. nth[n - 1] = Null
        BY <1>4, <2>2, <3>1, <3>4
      <4> QED
        BY <1>4, <3>1, <3>4, <4>1, NullAssumption DEF NextOf, Has
    <3> QED
      BY <1>4, <3>1, <3>2, <3>3, <3>4
  <2>3. 0..N \subseteq T
    <3> HIDE DEF T
    <3> QED
      BY <2>1, <2>2, Bounded, Steps
  <2> QED
    BY <2>3
<1>8. met = {w[i] : i \in 1..m}
  <2>1. ASSUME NEW x \in met PROVE x \in {w[i] : i \in 1..m}
    <3>1. PICK n \in 0..N : x = nth[n] /\ nth[n] # Null
      BY <1>1 DEF met
    <3>2. x = w[n + 1] /\ n + 1 \in 1..m
      BY <1>4, <1>7, <3>1, Bounded
    <3> QED
      BY <3>2
  <2>2. ASSUME NEW i \in 1..m PROVE w[i] \in met
    <3>1. i - 1 \in 0..N /\ i - 1 < m
      BY <1>4, <1>6, Bounded
    <3>2. nth[i - 1] = w[i] /\ w[i] \in Entities
      BY <1>3, <1>4, <1>7, <3>1
    <3> QED
      BY <1>1, <3>1, <3>2, NullAssumption DEF met
  <2> HIDE DEF met
  <2> QED
    BY <2>1, <2>2
<1>9. Chain(r, p) = [i \in 1..m |-> nth[i - 1]]
  BY <1>2, <1>5, <1>8
<1>10. \A i \in 1..m : nth[i - 1] = w[i]
  <2>1. \A i \in 1..m : i - 1 \in 0..N /\ i - 1 < m /\ i - 1 + 1 = i
    BY <1>4, <1>6, Bounded
  <2> QED
    BY <1>7, <2>1
<1> QED
  BY <1>4, <1>9, <1>10

(* From one child to the next one. *)
LEMMA ChainSteps ==
  ASSUME NEW r, Typed(r), NEW e, Has(r, e)
  PROVE  /\ Len(Chain(r, e)) \in Nat
         /\ DOMAIN Chain(r, e) = 1..Len(Chain(r, e))
         /\ \A i \in 1..Len(Chain(r, e)) : Chain(r, e)[i] \in Entities
         /\ \A i \in 1..Len(Chain(r, e)) : i # Len(Chain(r, e)) =>
              Has(r, Chain(r, e)[i])
<1> DEFINE nth == Along(r, e)
           w == Chain(r, e)
           met == {nth[n] : n \in DOMAIN nth} \ {Null}
           m == Cardinality(met)
<1>1. /\ nth \in [0..N -> Links]
      /\ \A n \in 1..N : nth[n] = NextOf(r, nth[n - 1])
  BY AlongSteps
<1>2. w = [i \in 1..m |-> nth[i - 1]]
  BY DEF Chain
<1>3. w \in Seq(Entities)
  BY ChainInEntities
<1>4. m \in Nat /\ m <= N
  <2>1. met \in SUBSET Entities
    BY <1>1 DEF Links
  <2> HIDE DEF met
  <2> QED
    BY <2>1, Bounded
<1> HIDE DEF nth, w, met, m
<1>5. Len(w) = m /\ DOMAIN w = 1..m
  BY <1>2, <1>4
<1>6. \A i \in 1..m : w[i] \in Entities
  BY <1>3, <1>5
<1>7. ASSUME NEW i \in 1..m, i # m PROVE Has(r, w[i])
  <2>1. i \in 1..N /\ i + 1 \in 1..m /\ i - 1 + 1 = i
    BY <1>4, <1>7, Bounded
  <2>2. w[i] = nth[i - 1] /\ w[i + 1] = nth[i] /\ w[i + 1] \in Entities
    <3>1. w[i + 1] = nth[(i + 1) - 1]
      BY <1>2, <2>1
    <3>2. (i + 1) - 1 = i
      BY <1>4
    <3>3. w[i] = nth[i - 1]
      BY <1>2
    <3> QED
      BY <1>6, <2>1, <3>1, <3>2, <3>3
  <2>3. nth[i] = NextOf(r, nth[i - 1])
    BY <1>1, <2>1
  <2> QED
    BY <2>2, <2>3, NullAssumption DEF NextOf
<1> QED
  BY <1>4, <1>5, <1>6, <1>7 DEF w

(* The last element of a sequence and what is before it.                   *)
LEMMA EndsOf ==
  ASSUME NEW S, NEW w \in Seq(S), w # << >>
  PROVE  /\ Len(w) \in 1..Len(w)
         /\ Last(w) = w[Len(w)]
         /\ Front(w) \in Seq(S)
         /\ Len(Front(w)) = Len(w) - 1
         /\ \A i \in 1..Len(Front(w)) : Front(w)[i] = w[i]
<1>1. Len(w) \in Nat /\ Len(w) # 0
  BY EmptySeq
<1>2. Last(w) = w[Len(w)]
  BY DEF Last
<1>3. PICK n \in Nat : n = Len(w) - 1
  BY <1>1
<1>4. \A i \in 1..n : w[i] \in S
  BY <1>1, <1>3
<1>5. /\ SubSeq(w, 1, n) \in Seq(S)
      /\ Len(SubSeq(w, 1, n)) = IF 1 <= n THEN n - 1 + 1 ELSE 0
      /\ \A i \in 1..(n - 1 + 1) : SubSeq(w, 1, n)[i] = w[1 + i - 1]
  BY <1>4, SubSeqProperties
<1>6. Front(w) = SubSeq(w, 1, n)
  BY <1>3 DEF Front
<1>7. Len(Front(w)) = n
  BY <1>5, <1>6
<1>8. \A i \in 1..n : Front(w)[i] = w[i]
  <2>1. \A i \in 1..n : i \in 1..(n - 1 + 1) /\ 1 + i - 1 = i
    BY <1>3
  <2> QED
    BY <1>5, <1>6, <2>1
<1> QED
  BY <1>1, <1>2, <1>3, <1>5, <1>6, <1>7, <1>8

(* An enumeration that comes to its end has met entities with components. *)
LEMMA ChildrenHave ==
  ASSUME NEW r, Typed(r), NEW e, Has(r, e), ~Broken(r, e)
  PROVE  /\ Children(r, e) \in Seq(Entities)
         /\ Len(Children(r, e)) \in Nat
         /\ \A i \in 1..Len(Children(r, e)) : Has(r, Children(r, e)[i])
         /\ ~SelfLinked(r, e) => Children(r, e) = Chain(r, e)
<1>0. PICK w : w = Chain(r, e)
  OBVIOUS
<1>1. /\ Len(w) \in Nat
      /\ DOMAIN w = 1..Len(w)
      /\ \A i \in 1..Len(w) : w[i] \in Entities
      /\ \A i \in 1..Len(w) : i # Len(w) => Has(r, w[i])
  BY <1>0, ChainSteps
<1>2. w \in Seq(Entities)
  BY <1>0, ChainInEntities
<1>3. w # << >> => Has(r, Last(w))
  BY <1>0 DEF Broken
<1>4. CASE SelfLinked(r, e)
  <2>1. Children(r, e) = Front(w) /\ w # << >>
    BY <1>0, <1>4 DEF Children, SelfLinked
  <2>2. PICK f : f = Front(w)
    OBVIOUS
  <2>3. /\ f \in Seq(Entities) /\ Len(f) = Len(w) - 1 /\ \A i \in 1..Len(f) : f[i] = w[i]
        /\ Len(w) \in 1..Len(w)
    BY <1>2, <2>1, <2>2, EndsOf
  <2>4. Len(f) \in Nat /\ \A i \in 1..Len(f) : Has(r, f[i])
    <3>0. Len(w) \in Nat /\ Len(w) \in 1..Len(w) /\ Len(f) = Len(w) - 1
      BY <1>1, <2>3, ZenonT(60)
    <3>1. PICK m \in Nat : m = Len(f) /\ m + 1 = Len(w)
      <4> DEFINE m == Len(w) - 1
      <4>1. m \in Nat /\ m + 1 = Len(w) /\ m = Len(f)
        BY <3>0
      <4> QED
        BY <4>1, ZenonT(60)
    <3>2. ASSUME NEW i \in 1..m PROVE Has(r, f[i])
      <4>1. i \in 1..Len(w) /\ i # Len(w)
        BY <3>1, SMTT(30), ZenonT(60)
      <4>2. Has(r, w[i]) /\ f[i] = w[i]
        BY <1>1, <2>3, <3>1, <4>1, ZenonT(60)
      <4> QED
        BY <4>2
    <3> QED
      BY <3>1, <3>2, SMTT(30), ZenonT(60)
  <2> QED
    BY <1>4, <2>1, <2>2, <2>3, <2>4
<1>5. CASE ~SelfLinked(r, e)
  <2>1. Children(r, e) = w
    BY <1>0, <1>5, SMTT(30), ZenonT(60) DEF Children
  <2>2. ASSUME NEW i \in 1..Len(w) PROVE Has(r, w[i])
    <3>1. CASE i = Len(w)
      <4>1. w # << >>
        BY EmptySeq
      <4>2. Last(w) = w[i]
        BY <1>2, <3>1, <4>1, EndsOf
      <4> QED
        BY <1>3, <4>1, <4>2
    <3> QED
      BY <1>1, <3>1, SMTT(30), ZenonT(60)
  <2> QED
    BY <1>0, <1>1, <1>2, <2>1, <2>2, ZenonT(60)
<1> QED
  BY <1>4, <1>5

(* Children that all have components are enumerated; a missing one breaks  *)
(* the enumeration.                                                        *)
LEMMA LedChildren ==
  ASSUME NEW r, Typed(r), NEW p, Has(r, p), NEW w, Leads(r, p, w)
  PROVE  /\ (\A i \in DOMAIN w : Has(r, w[i])) =>
              Children(r, p) = w /\ ~Broken(r, p) /\ ~SelfLinked(r, p)
         /\ (\E i \in DOMAIN w : ~Has(r, w[i])) => Broken(r, p)
         /\ \A i \in 1..Len(Children(r, p)) : \E j \in DOMAIN w : Children(r, p)[i] = w[j]
<1>1. /\ Len(w) \in Nat
      /\ DOMAIN w = 1..Len(w)
      /\ w \in Seq(Entities)
      /\ w = [i \in 1..Len(w) |-> w[i]]
  BY DEF Leads
<1>2. \A i \in 1..Len(w) : w[i] \in Entities
  BY <1>1
<1>3. ASSUME \A i \in DOMAIN w : Has(r, w[i])
      PROVE  Children(r, p) = w /\ ~Broken(r, p) /\ ~SelfLinked(r, p)
  <2>1. Chain(r, p) = [i \in 1..Len(w) |-> w[i]]
    <3>1. Len(w) \in 0..Len(w) /\ \A i \in 1..(Len(w) - 1) : Has(r, w[i])
      BY <1>1, <1>3
    <3> QED
      BY <3>1, ChainUpTo
  <2>2. Chain(r, p) = w
    BY <1>1, <2>1
  <2>3. ASSUME w # << >> PROVE Has(r, Last(w)) /\ r[Last(w)].next = Null /\ Last(w) # Null
    <3>1. Len(w) \in 1..Len(w) /\ Last(w) = w[Len(w)]
      BY <1>1, <2>3 DEF Last
    <3>2. r[w[Len(w)]].next = Null
      BY <1>1, <1>3, <3>1 DEF Leads
    <3> QED
      BY <1>1, <1>2, <1>3, <3>1, <3>2, NullAssumption
  <2>4. ~SelfLinked(r, p)
    BY <2>2, <2>3 DEF SelfLinked
  <2>5. ~Broken(r, p)
    BY <2>2, <2>3 DEF Broken
  <2> QED
    BY <2>2, <2>4, <2>5 DEF Children
<1>4. ASSUME \E i \in DOMAIN w : ~Has(r, w[i])
      PROVE  /\ Broken(r, p)
             /\ \A i \in 1..Len(Children(r, p)) : \E j \in DOMAIN w : Children(r, p)[i] = w[j]
  <2> DEFINE T == {i \in 1..Len(w) : ~Has(r, w[i])}
  <2>1. T \in SUBSET Nat /\ T # {}
    BY <1>1, <1>4
  <2>2. PICK m \in T : \A n \in T : m <= n
    <3> HIDE DEF T
    <3> QED
      BY <2>1, Least
  <2>3. m \in 1..Len(w) /\ ~Has(r, w[m]) /\ m \in 0..Len(w)
    BY <1>1, <2>2
  <2>4. \A i \in 1..(m - 1) : Has(r, w[i])
    BY <1>1, <2>2, <2>3
  <2>5. Chain(r, p) = [i \in 1..m |-> w[i]]
    <3>1. m = 0 => Len(w) = 0
      BY <2>3
    <3> QED
      BY <2>3, <2>4, <3>1, ChainUpTo
  <2> HIDE DEF T
  <2>6. Chain(r, p) # << >> /\ Last(Chain(r, p)) = w[m]
    BY <1>1, <2>3, <2>5 DEF Last
  <2>7. Broken(r, p) /\ ~SelfLinked(r, p)
    BY <2>3, <2>6 DEF Broken, SelfLinked
  <2>8. Children(r, p) = [i \in 1..m |-> w[i]]
    BY <2>5, <2>7 DEF Children
  <2>9. Len(Children(r, p)) = m /\ \A i \in 1..m : Children(r, p)[i] = w[i] /\ i \in DOMAIN w
    BY <1>1, <2>3, <2>8
  <2> QED
    BY <2>7, <2>9
<1>5. ASSUME \A i \in DOMAIN w : Has(r, w[i])
      PROVE  \A i \in 1..Len(Children(r, p)) : \E j \in DOMAIN w : Children(r, p)[i] = w[j]
  <2>1. Children(r, p) = w
    BY <1>3, <1>5
  <2> QED
    BY <1>1, <2>1
<1> QED
  BY <1>3, <1>4, <1>5
-----------------------------------------------------------------------------
(* What the operations write, field by field. *)

(* The types of the fields of a component.                                 *)
LEMMA Fields ==
  ASSUME NEW r, Typed(r), NEW x
  PROVE  /\ Has(r, x) => /\ x \in Entities
                         /\ r[x] \in Relation
                         /\ r[x].child_count \in Nat
                         /\ r[x].parent \in Links
                         /\ r[x].first \in Links
                         /\ r[x].prev \in Links
                         /\ r[x].next \in Links
         /\ (x \in Entities /\ ~Has(r, x)) => r[x] = Absent
         /\ (x \in Entities /\ r[x] \in Relation) => Has(r, x)
         /\ ~Has(r, Null)
         /\ ParentOf(r, x) \in Links
         /\ ParentOf(r, x) # Null => Has(r, x)
BY AbsentAssumption, NullAssumption DEF Typed, Has, Relation, ParentOf, Links

(* A component as get_or_emplace leaves it. *)
Base(r, x) == IF Has(r, x) THEN r[x] ELSE RelationOf(Null)

(* s is r with a component for e.                                          *)
WithComponentAs(r, s, e) ==
  /\ Typed(s)
  /\ \A x \in Entities : Has(s, x) <=> Has(r, x) \/ x = e
  /\ \A x \in Entities : Has(s, x) => s[x] = Base(r, x)
  /\ \A x : ParentOf(s, x) = ParentOf(r, x)

(* get_or_emplace, field by field.                                         *)
LEMMA WithComponentFields ==
  ASSUME NEW r, Typed(r), NEW e \in Entities
  PROVE  WithComponentAs(r, WithComponent(r, e), e)
<1> DEFINE s == WithComponent(r, e)
<1>1. CASE Has(r, e)
  BY <1>1 DEF WithComponentAs, WithComponent, Base
<1>2. CASE ~Has(r, e)
  <2>1. s = [r EXCEPT ![e] = RelationOf(Null)]
    BY <1>2 DEF WithComponent
  <2>2. RelationOf(Null) \in Relation /\ RelationOf(Null).parent = Null
    BY DEF RelationOf, Relation, Links
  <2>3. Typed(s)
    BY <2>1, <2>2 DEF Typed
  <2>4. \A x \in Entities : s[x] = IF x = e THEN RelationOf(Null) ELSE r[x]
    BY <2>1 DEF Typed
  <2>5. RelationOf(Null) # Absent
    BY <2>2, AbsentAssumption
  <2>6. \A x \in Entities : Has(s, x) <=> Has(r, x) \/ x = e
    BY <2>4, <2>5 DEF Has
  <2>7. \A x \in Entities : Has(s, x) => s[x] = Base(r, x)
    BY <1>2, <2>4, <2>6 DEF Base
  <2>8. ASSUME NEW x PROVE ParentOf(s, x) = ParentOf(r, x)
    <3>1. CASE x \in Entities
      BY <1>2, <2>2, <2>4, <2>6, <3>1 DEF ParentOf
    <3>2. CASE x \notin Entities
      BY <3>2 DEF ParentOf, Has
    <3> QED
      BY <3>1, <3>2
  <2> HIDE DEF s
  <2> QED
    BY <2>3, <2>6, <2>7, <2>8 DEF WithComponentAs, s
<1> QED
  BY <1>1, <1>2

(* s is r after remove_child took child from self.                         *)
RemovedAs(r, s, self, child) ==
  /\ Typed(s)
  /\ \A x \in Entities : Has(s, x) <=> Has(r, x)
  /\ \A x \in Entities : Has(r, x) =>
       /\ s[x].child_count = IF x = self THEN r[x].child_count - 1 ELSE r[x].child_count
       /\ s[x].parent = IF x = child THEN Null ELSE r[x].parent
       /\ s[x].first = IF x = self /\ r[x].first = child THEN r[child].next ELSE r[x].first
       /\ s[x].prev = IF x = child \/ (r[child].prev = Null /\ x = r[child].next)
                      THEN Null ELSE r[x].prev
       /\ s[x].next = IF x = child THEN Null
                      ELSE IF x = r[child].prev THEN r[child].next ELSE r[x].next

(* The parent's own component when a child is removed. *)
OneLess(y, x, child, next) == y = [x EXCEPT !.first = IF @ = child THEN next ELSE @, !.child_count = @ - 1]

LEMMA OwnerFields ==
  ASSUME NEW x \in Relation, NEW child, NEW next \in Links, x.child_count - 1 \in Nat, NEW y, OneLess(y, x, child, next)
  PROVE  /\ y \in Relation
         /\ y.child_count = x.child_count - 1 /\ y.first = IF x.first = child THEN next ELSE x.first
         /\ y.parent = x.parent /\ y.prev = x.prev /\ y.next = x.next
BY DEF OneLess, Relation

(* forward_previous and collapse_child, field by field.                    *)
LEMMA RemoveChildFields ==
  ASSUME NEW r, Typed(r), NEW self, Has(r, self), NEW child, Has(r, child),
         r[self].child_count # 0,
         r[child].prev # Null => Has(r, r[child].prev),
         r[child].prev = Null /\ r[child].next # Null => Has(r, r[child].next)
  PROVE  RemovedAs(r, RemoveChild(r, self, child), self, child)
<1>0. PICK c : c = r[child]
  OBVIOUS
<1>1. /\ c \in Relation /\ c.prev \in Links /\ c.next \in Links
      /\ child \in Entities /\ self \in Entities
      /\ c.prev # Null => c.prev \in Entities
      /\ c.next # Null => c.next \in Entities
  BY <1>0, Fields DEF Links
<1> DEFINE chain == IF c.prev # Null THEN [r EXCEPT ![c.prev].next = c.next]
                    ELSE IF c.next # Null THEN [r EXCEPT ![c.next].prev = Null]
                    ELSE r
           owner == [chain EXCEPT
                       ![self].first = IF @ = child THEN c.next ELSE @,
                       ![self].child_count = @ - 1]
           s == [owner EXCEPT ![child] =
                   [@ EXCEPT !.parent = Null, !.prev = Null, !.next = Null]]
<1>2. RemoveChild(r, self, child) = s
  BY <1>0, SMTT(60) DEF RemoveChild
<1>3. /\ DOMAIN chain = Entities
      /\ \A x \in Entities : ~Has(r, x) => chain[x] = Absent
      /\ \A x \in Entities : Has(r, x) =>
           /\ chain[x] \in Relation
           /\ chain[x].child_count = r[x].child_count
           /\ chain[x].parent = r[x].parent
           /\ chain[x].first = r[x].first
           /\ chain[x].prev = IF c.prev = Null /\ x = c.next THEN Null ELSE r[x].prev
           /\ chain[x].next = IF x = c.prev THEN c.next ELSE r[x].next
  <2>1. DOMAIN r = Entities
    BY DEF Typed
  <2>2. CASE c.prev # Null
    <3>1. chain = [r EXCEPT ![c.prev].next = c.next]
      BY <2>2
    <3>2. \A x \in Entities : chain[x] = IF x = c.prev THEN [r[x] EXCEPT !.next = c.next] ELSE r[x]
      BY <2>1, <3>1
    <3>3. DOMAIN chain = Entities
      BY <2>1, <3>1
    <3>4. Has(r, c.prev)
      BY <1>0, <2>2
    <3> HIDE DEF chain
    <3> QED
      BY <1>1, <2>2, <3>2, <3>3, <3>4, Fields DEF Relation
  <2>3. CASE c.prev = Null /\ c.next # Null
    <3>1. chain = [r EXCEPT ![c.next].prev = Null]
      BY <2>3
    <3>2. \A x \in Entities : chain[x] = IF x = c.next THEN [r[x] EXCEPT !.prev = Null] ELSE r[x]
      BY <2>1, <3>1
    <3>3. DOMAIN chain = Entities
      BY <2>1, <3>1
    <3>4. Has(r, c.next) /\ Null \in Links
      BY <1>0, <2>3 DEF Links
    <3> HIDE DEF chain
    <3> QED
      BY <1>1, <2>3, <3>2, <3>3, <3>4, NullAssumption, Fields DEF Relation
  <2>4. CASE c.prev = Null /\ c.next = Null
    <3>1. chain = r
      BY <2>4
    <3> HIDE DEF chain
    <3> QED
      BY <1>1, <2>1, <2>4, <3>1, NullAssumption, Fields
  <2> QED
    BY <2>2, <2>3, <2>4, ZenonT(30), SMTT(30)
<1> HIDE DEF chain
<1>4. /\ DOMAIN owner = Entities
      /\ \A x \in Entities : x # self => owner[x] = chain[x]
      /\ owner[self] = [chain[self] EXCEPT
                          !.first = IF @ = child THEN c.next ELSE @, !.child_count = @ - 1]
  BY <1>1, <1>3
<1>5. r[self].child_count - 1 \in Nat
  BY Fields
<1>6. /\ owner[self] \in Relation
      /\ owner[self].child_count = r[self].child_count - 1
      /\ owner[self].parent = chain[self].parent
      /\ owner[self].first = IF r[self].first = child THEN c.next ELSE r[self].first
      /\ owner[self].prev = chain[self].prev
      /\ owner[self].next = chain[self].next
  <2>1. /\ chain[self] \in Relation
        /\ chain[self].child_count = r[self].child_count /\ chain[self].first = r[self].first
    BY <1>1, <1>3
  <2>2. c.next \in Links
    BY <1>1
  <2>3. /\ owner[self] \in Relation
        /\ owner[self].child_count = chain[self].child_count - 1
        /\ owner[self].first = IF chain[self].first = child THEN c.next ELSE chain[self].first
        /\ owner[self].parent = chain[self].parent /\ owner[self].prev = chain[self].prev /\ owner[self].next = chain[self].next
    <3> PICK x, y, next : x = chain[self] /\ y = owner[self] /\ next = c.next
      OBVIOUS
    <3>1. x \in Relation /\ next \in Links /\ x.child_count - 1 \in Nat
      BY <1>5, <2>1, <2>2
    <3>2. OneLess(y, x, child, next)
      BY <1>4, Zenon DEF OneLess
    <3>3. /\ y \in Relation
          /\ y.child_count = x.child_count - 1 /\ y.first = IF x.first = child THEN next ELSE x.first
          /\ y.parent = x.parent /\ y.prev = x.prev /\ y.next = x.next
      BY ONLY <3>1, <3>2, OwnerFields
    <3> QED
      BY <3>3, Zenon
  <2> QED
    BY ONLY <2>1, <2>3
<1> HIDE DEF owner
<1>7. /\ DOMAIN s = Entities
      /\ \A x \in Entities : x # child => s[x] = owner[x]
      /\ s[child] = [owner[child] EXCEPT !.parent = Null, !.prev = Null, !.next = Null]
      /\ s = [x \in Entities |-> s[x]]
  BY <1>1, <1>4
<1>8. /\ owner[child] \in Relation
      /\ Null \in Links
  BY <1>1, <1>3, <1>4, <1>6 DEF Links
<1>9. /\ s[child] \in Relation
      /\ s[child].child_count = owner[child].child_count
      /\ s[child].parent = Null
      /\ s[child].first = owner[child].first
      /\ s[child].prev = Null
      /\ s[child].next = Null
  <2>1. PICK o : o = owner[child]
    OBVIOUS
  <2>2. o \in Relation /\ s[child] = [o EXCEPT !.parent = Null, !.prev = Null, !.next = Null]
    BY <1>7, <1>8, <2>1
  <2> DEFINE t == [o EXCEPT !.parent = Null, !.prev = Null, !.next = Null]
  <2>3. /\ t \in Relation
        /\ t.child_count = o.child_count
        /\ t.parent = Null
        /\ t.first = o.first
        /\ t.prev = Null
        /\ t.next = Null
    <3>1. /\ o \in [child_count : Nat, parent : Links, first : Links, prev : Links, next : Links]
          /\ Null \in Links
      BY <1>8, <2>2 DEF Relation
    <3>2. t \in [child_count : Nat, parent : Links, first : Links, prev : Links, next : Links]
      BY <3>1
    <3>3. /\ t.child_count = o.child_count
          /\ t.parent = Null
          /\ t.first = o.first
          /\ t.prev = Null
          /\ t.next = Null
      BY <3>1
    <3> QED
      BY <3>2, <3>3 DEF Relation
  <2> HIDE DEF t
  <2>4. s[child] = t
    BY <2>2 DEF t
  <2> QED
    BY <2>1, <2>3, <2>4
<1> HIDE DEF s
<1>10. \A x \in Entities : /\ ~Has(r, x) => s[x] = Absent
                           /\ Has(r, x) => s[x] \in Relation
  BY <1>3, <1>4, <1>6, <1>7, <1>9
<1>11. Typed(s)
  BY <1>7, <1>10 DEF Typed
<1>12. \A x \in Entities : Has(s, x) <=> Has(r, x)
  BY <1>10, <1>11, Fields DEF Has
<1>13. ASSUME NEW x \in Entities, Has(r, x)
       PROVE  /\ s[x].child_count = IF x = self THEN r[x].child_count - 1 ELSE r[x].child_count
              /\ s[x].parent = IF x = child THEN Null ELSE r[x].parent
              /\ s[x].first = IF x = self /\ r[x].first = child THEN c.next ELSE r[x].first
              /\ s[x].prev = IF x = child \/ (c.prev = Null /\ x = c.next)
                             THEN Null ELSE r[x].prev
              /\ s[x].next = IF x = child THEN Null
                             ELSE IF x = c.prev THEN c.next ELSE r[x].next
  <2>1. /\ owner[x].child_count = IF x = self THEN r[x].child_count - 1 ELSE r[x].child_count
        /\ owner[x].parent = r[x].parent
        /\ owner[x].first = IF x = self /\ r[x].first = child THEN c.next ELSE r[x].first
        /\ owner[x].prev = IF c.prev = Null /\ x = c.next THEN Null ELSE r[x].prev
        /\ owner[x].next = IF x = c.prev THEN c.next ELSE r[x].next
    <3>1. CASE x = self
      BY <1>1, <1>3, <1>6, <1>13, <3>1
    <3>2. CASE x # self
      <4>1. owner[x] = chain[x]
        BY <1>4, <3>2
      <4> QED
        BY <1>3, <1>13, <3>2, <4>1
    <3> QED
      BY <3>1, <3>2
  <2>2. CASE x = child
    BY <1>9, <2>1, <2>2
  <2>3. CASE x # child
    BY <1>7, <2>1, <2>3
  <2> QED
    BY <2>2, <2>3
<1> QED
  BY <1>0, <1>2, <1>11, <1>12, <1>13 DEF RemovedAs

(* s is r after add_child put child behind the last child of self.         *)
LinkedAs(r, s, self, child) ==
  LET old == r[self].child_count
      last == Last(Children(r, self))
  IN  /\ Typed(s)
      /\ \A x \in Entities : Has(s, x) <=> Has(r, x) \/ x = child
      /\ \A x \in Entities : Has(s, x) =>
           /\ s[x].child_count = IF x = self THEN old + 1 ELSE Base(r, x).child_count
           /\ s[x].parent = IF x = child THEN self ELSE Base(r, x).parent
           /\ s[x].first = IF x = self /\ old = 0 THEN child ELSE Base(r, x).first
           /\ s[x].prev = IF x = child /\ old # 0 THEN last ELSE Base(r, x).prev
           /\ s[x].next = IF x # child /\ old # 0 /\ x = last THEN child ELSE Base(r, x).next

(* The tail of add_child, field by field.                                  *)
LEMMA LinkedFields ==
  ASSUME NEW r, Typed(r), NEW self, Has(r, self), NEW child \in Entities, child # self,
         r[self].child_count # 0 => Has(r, Last(Children(r, self)))
  PROVE  LinkedAs(r, Linked(r, self, child), self, child)
<1>0. PICK old, last : old = r[self].child_count /\ last = Last(Children(r, self))
  OBVIOUS
<1>1. self \in Entities /\ old \in Nat /\ (old # 0 => Has(r, last) /\ last \in Entities /\ last # Null)
  BY <1>0, Fields
<1> DEFINE kept == IF Has(r, child) THEN [r[child] EXCEPT !.parent = self]
                   ELSE RelationOf(self)
           placed == IF old = 0 THEN [r EXCEPT ![self].first = child, ![child] = kept]
                     ELSE [r EXCEPT ![last].next = child,
                                    ![child] = [kept EXCEPT !.prev = last]]
           s == [placed EXCEPT ![self].child_count = @ + 1]
<1>2. Linked(r, self, child) = s
  BY <1>0 DEF Linked
<1>3. /\ kept \in Relation
      /\ kept.child_count = Base(r, child).child_count
      /\ kept.parent = self
      /\ kept.first = Base(r, child).first
      /\ kept.prev = Base(r, child).prev
      /\ kept.next = Base(r, child).next
  <2>1. self \in Links /\ Null \in Links
    BY <1>1 DEF Links
  <2> QED
    BY <2>1, Fields DEF Base, RelationOf, Relation
<1> HIDE DEF kept
<1>4. /\ DOMAIN placed = Entities
      /\ \A x \in Entities : x # child /\ x # self /\ (old = 0 \/ x # last) => placed[x] = r[x]
      /\ placed[child] = IF old = 0 THEN kept ELSE [kept EXCEPT !.prev = last]
      /\ old = 0 => placed[self] = [r[self] EXCEPT !.first = child]
      /\ old # 0 /\ last # child => placed[last] = [r[last] EXCEPT !.next = child]
      /\ old # 0 /\ last # self => placed[self] = r[self]
  BY <1>1 DEF Typed
<1> HIDE DEF placed
<1>5. /\ placed[child] \in Relation
      /\ placed[child].child_count = kept.child_count
      /\ placed[child].parent = self
      /\ placed[child].first = kept.first
      /\ placed[child].prev = IF old = 0 THEN kept.prev ELSE last
      /\ placed[child].next = kept.next
  BY <1>1, <1>3, <1>4 DEF Relation, Links
<1>6. ASSUME NEW x \in Entities, Has(r, x), x # child
      PROVE  /\ placed[x] \in Relation
             /\ placed[x].child_count = r[x].child_count
             /\ placed[x].parent = r[x].parent
             /\ placed[x].first = IF x = self /\ old = 0 THEN child ELSE r[x].first
             /\ placed[x].prev = r[x].prev
             /\ placed[x].next = IF old # 0 /\ x = last THEN child ELSE r[x].next
  <2>0. r[x] \in Relation /\ child \in Links
    BY <1>6, Fields DEF Links
  <2>1. CASE old = 0 /\ x = self
    BY <1>4, <2>0, <2>1 DEF Relation
  <2>2. CASE old # 0 /\ x = last
    BY <1>4, <1>6, <2>0, <2>2 DEF Relation
  <2>3. CASE ~(old = 0 /\ x = self) /\ ~(old # 0 /\ x = last)
    BY <1>4, <1>6, <2>0, <2>3
  <2> QED
    BY <2>1, <2>2, <2>3
<1>7. \A x \in Entities : ~Has(r, x) /\ x # child => placed[x] = Absent
  BY <1>1, <1>4, Fields
<1>8. /\ s = [x \in Entities |-> s[x]]
      /\ \A x \in Entities : x # self => s[x] = placed[x]
      /\ s[self] = [placed[self] EXCEPT !.child_count = @ + 1]
  BY <1>1, <1>4
<1>9. /\ placed[self] \in Relation
      /\ placed[self].child_count = old
  BY <1>0, <1>1, <1>6
<1>10. /\ s[self] \in Relation
       /\ s[self].child_count = old + 1
       /\ s[self].parent = placed[self].parent
       /\ s[self].first = placed[self].first
       /\ s[self].prev = placed[self].prev
       /\ s[self].next = placed[self].next
  BY <1>1, <1>8, <1>9 DEF Relation
<1> HIDE DEF s
<1>11. \A x \in Entities : s[x] \in Relation \cup {Absent}
  BY <1>5, <1>6, <1>7, <1>8, <1>10
<1>12. Typed(s)
  BY <1>8, <1>11 DEF Typed
<1>13. \A x \in Entities : Has(s, x) <=> Has(r, x) \/ x = child
  BY <1>5, <1>6, <1>7, <1>8, <1>10, <1>12, AbsentAssumption DEF Has
<1>14. ASSUME NEW x \in Entities, Has(s, x)
       PROVE  /\ s[x].child_count = IF x = self THEN old + 1 ELSE Base(r, x).child_count
              /\ s[x].parent = IF x = child THEN self ELSE Base(r, x).parent
              /\ s[x].first = IF x = self /\ old = 0 THEN child ELSE Base(r, x).first
              /\ s[x].prev = IF x = child /\ old # 0 THEN last ELSE Base(r, x).prev
              /\ s[x].next = IF x # child /\ old # 0 /\ x = last THEN child ELSE Base(r, x).next
  <2>1. CASE x = child
    BY <1>3, <1>5, <1>8, <2>1
  <2>2. CASE x = self
    <3>1. Base(r, x) = r[x]
      BY <2>2 DEF Base
    <3> QED
      BY <1>1, <1>6, <1>10, <2>2, <3>1
  <2>3. CASE x # child /\ x # self
    <3>1. Has(r, x) /\ Base(r, x) = r[x]
      BY <1>13, <1>14, <2>3 DEF Base
    <3> QED
      BY <1>6, <1>8, <2>3, <3>1
  <2> QED
    BY <2>1, <2>2, <2>3
<1> QED
  BY <1>0, <1>2, <1>12, <1>13, <1>14 DEF LinkedAs
-----------------------------------------------------------------------------
(* Counting the children. *)

(* No parent counts fewer children than name it; nobody names an entity    *)
(* that lives without a component.                                         *)
Counted(r, live, exact) ==
  /\ Typed(r)
  /\ \A x \in Entities : Has(r, x) => x \in live
  /\ \A x \in Entities : ParentOf(r, x) \in live => Has(r, ParentOf(r, x))
  /\ \A p \in Entities : Has(r, p) =>
       /\ Cardinality(ChildrenOf(r, p)) <= r[p].child_count
       /\ exact => r[p].child_count = Cardinality(ChildrenOf(r, p))

(* How many children there are, and one less and one more.                 *)
LEMMA ChildrenCounted ==
  ASSUME NEW r, NEW p
  PROVE  /\ IsFiniteSet(ChildrenOf(r, p))
         /\ Cardinality(ChildrenOf(r, p)) \in Nat
         /\ \A c \in ChildrenOf(r, p) :
              /\ Cardinality(ChildrenOf(r, p)) # 0
              /\ Cardinality(ChildrenOf(r, p) \ {c}) = Cardinality(ChildrenOf(r, p)) - 1
         /\ \A c : c \notin ChildrenOf(r, p) =>
              Cardinality(ChildrenOf(r, p) \cup {c}) = Cardinality(ChildrenOf(r, p)) + 1
<1>1. ChildrenOf(r, p) \in SUBSET Entities
  BY DEF ChildrenOf
<1>2. IsFiniteSet(ChildrenOf(r, p)) /\ Cardinality(ChildrenOf(r, p)) \in Nat
  BY <1>1, Bounded
<1> QED
  BY <1>2, FS_AddElement, FS_RemoveElement, FS_EmptySet

(* A new component counts no children, and has none.                       *)
LEMMA CountedWithComponent ==
  ASSUME NEW r, NEW live \in SUBSET Entities, NEW exact, Counted(r, live, exact), NEW e \in live
  PROVE  Counted(WithComponent(r, e), live, exact)
<1>0. PICK s : s = WithComponent(r, e)
  OBVIOUS
<1>1. WithComponentAs(r, s, e)
  BY <1>0, WithComponentFields DEF Counted
<1>2. \A x : ParentOf(s, x) = ParentOf(r, x)
  BY <1>1 DEF WithComponentAs
<1>3. \A p : ChildrenOf(s, p) = ChildrenOf(r, p)
  BY <1>2 DEF ChildrenOf
<1>4. /\ Typed(s)
      /\ \A x \in Entities : Has(s, x) <=> Has(r, x) \/ x = e
      /\ \A x \in Entities : Has(s, x) => s[x] = Base(r, x)
  BY <1>1 DEF WithComponentAs
<1>5. ASSUME NEW p \in Entities, Has(s, p)
      PROVE  /\ Cardinality(ChildrenOf(r, p)) <= s[p].child_count
             /\ exact => s[p].child_count = Cardinality(ChildrenOf(r, p))
  <2>1. CASE Has(r, p)
    BY <1>4, <1>5, <2>1 DEF Counted, Base
  <2>2. CASE ~Has(r, p)
    <3>1. p \in live
      BY <1>4, <1>5, <2>2
    <3>2. ChildrenOf(r, p) = {}
      BY <2>2, <3>1 DEF Counted, ChildrenOf
    <3>3. s[p].child_count = 0
      BY <1>4, <1>5, <2>2 DEF Base, RelationOf
    <3> QED
      BY <3>2, <3>3, FS_EmptySet
  <2> QED
    BY <2>1, <2>2
<1>6. \A x \in Entities : Has(s, x) => x \in live
  BY <1>4 DEF Counted
<1>7. \A x \in Entities : ParentOf(s, x) \in live => Has(s, ParentOf(s, x))
  BY <1>2, <1>4 DEF Counted
<1> QED
  BY <1>0, <1>3, <1>4, <1>5, <1>6, <1>7 DEF Counted

(* Who is whose parent after remove_child.                                 *)
LEMMA RemovedParents ==
  ASSUME NEW r, NEW s, NEW self, NEW child, RemovedAs(r, s, self, child)
  PROVE  \A x : ParentOf(s, x) = IF x = child THEN Null ELSE ParentOf(r, x)
<1> SUFFICES ASSUME NEW x PROVE ParentOf(s, x) = IF x = child THEN Null ELSE ParentOf(r, x)
  OBVIOUS
<1>1. CASE x \in Entities
  BY <1>1 DEF RemovedAs, ParentOf
<1>2. CASE x \notin Entities
  BY <1>2 DEF ParentOf, Has
<1> QED
  BY <1>1, <1>2

(* remove_child takes one from the count and one from the children.        *)
LEMMA CountedRemoved ==
  ASSUME NEW r, NEW live \in SUBSET Entities, NEW exact, Counted(r, live, exact),
         NEW s, NEW child, Has(r, child), Has(r, ParentOf(r, child)),
         RemovedAs(r, s, ParentOf(r, child), child)
  PROVE  Counted(s, live, exact)
<1>0. PICK self : self = ParentOf(r, child)
  OBVIOUS
<1>1. /\ Typed(r) /\ Typed(s)
      /\ self \in Entities /\ child \in Entities /\ Has(r, self)
      /\ \A x \in Entities : Has(s, x) <=> Has(r, x)
      /\ \A x \in Entities : Has(r, x) =>
           s[x].child_count = IF x = self THEN r[x].child_count - 1 ELSE r[x].child_count
  BY <1>0 DEF RemovedAs, Counted, Has
<1>2. \A x : ParentOf(s, x) = IF x = child THEN Null ELSE ParentOf(r, x)
  BY RemovedParents
<1>3. /\ child \in ChildrenOf(r, self)
      /\ ChildrenOf(s, self) = ChildrenOf(r, self) \ {child}
  BY <1>0, <1>1, <1>2, NullAssumption DEF ChildrenOf
<1>4. \A p \in Entities : p # self => ChildrenOf(s, p) = ChildrenOf(r, p)
  BY <1>0, <1>2, NullAssumption DEF ChildrenOf
<1>5. ASSUME NEW p \in Entities, Has(r, p)
      PROVE  /\ Cardinality(ChildrenOf(s, p)) <= s[p].child_count
             /\ exact => s[p].child_count = Cardinality(ChildrenOf(s, p))
  <2>1. /\ r[p].child_count \in Nat
        /\ Cardinality(ChildrenOf(r, p)) <= r[p].child_count
        /\ exact => r[p].child_count = Cardinality(ChildrenOf(r, p))
    BY <1>1, <1>5, Fields DEF Counted
  <2>2. CASE p = self
    <3>1. Cardinality(ChildrenOf(s, p)) = Cardinality(ChildrenOf(r, p)) - 1
      BY <1>3, <2>2, ChildrenCounted
    <3> QED
      BY <1>1, <2>1, <2>2, <3>1, ChildrenCounted
  <2>3. CASE p # self
    BY <1>1, <1>4, <1>5, <2>1, <2>3
  <2> QED
    BY <2>2, <2>3
<1>6. \A x \in Entities : ParentOf(s, x) \in live => Has(s, ParentOf(s, x))
  BY <1>1, <1>2, NullAssumption DEF Counted
<1> QED
  BY <1>1, <1>5, <1>6 DEF Counted

(* Who is whose parent after add_child.                                    *)
LEMMA LinkedParents ==
  ASSUME NEW r, NEW s, NEW self, NEW child \in Entities, LinkedAs(r, s, self, child)
  PROVE  \A x : ParentOf(s, x) = IF x = child THEN self ELSE ParentOf(r, x)
<1> SUFFICES ASSUME NEW x PROVE ParentOf(s, x) = IF x = child THEN self ELSE ParentOf(r, x)
  OBVIOUS
<1>1. CASE x \in Entities
  <2>1. /\ Has(s, x) <=> Has(r, x) \/ x = child
        /\ Has(s, x) => s[x].parent = IF x = child THEN self ELSE Base(r, x).parent
    BY <1>1 DEF LinkedAs
  <2> QED
    BY <2>1 DEF ParentOf, Base
<1>2. CASE x \notin Entities
  BY <1>2 DEF ParentOf, Has
<1> QED
  BY <1>1, <1>2

(* add_child adds one to the count and one to the children.                *)
LEMMA CountedLinked ==
  ASSUME NEW r, NEW live \in SUBSET Entities, NEW exact, Counted(r, live, exact),
         NEW s, NEW self, NEW child \in live, Has(r, self), ParentOf(r, child) = Null,
         child # self, LinkedAs(r, s, self, child)
  PROVE  Counted(s, live, exact)
<1>1. /\ Typed(r) /\ Typed(s)
      /\ self \in Entities /\ child \in Entities
      /\ \A x \in Entities : Has(s, x) <=> Has(r, x) \/ x = child
      /\ \A x \in Entities : Has(s, x) =>
           s[x].child_count = IF x = self THEN r[self].child_count + 1 ELSE Base(r, x).child_count
  BY DEF LinkedAs, Counted, Has
<1>2. \A x : ParentOf(s, x) = IF x = child THEN self ELSE ParentOf(r, x)
  BY LinkedParents
<1>3. /\ child \notin ChildrenOf(r, self)
      /\ ChildrenOf(s, self) = ChildrenOf(r, self) \cup {child}
  BY <1>1, <1>2, NullAssumption DEF ChildrenOf
<1>4. \A p \in Entities : p # self => ChildrenOf(s, p) = ChildrenOf(r, p)
  BY <1>2, NullAssumption DEF ChildrenOf
<1>5. ASSUME NEW p \in Entities, Has(s, p)
      PROVE  /\ Cardinality(ChildrenOf(s, p)) <= s[p].child_count
             /\ exact => s[p].child_count = Cardinality(ChildrenOf(s, p))
  <2>1. ASSUME Has(r, p)
        PROVE  /\ r[p].child_count \in Nat
               /\ Cardinality(ChildrenOf(r, p)) <= r[p].child_count
               /\ exact => r[p].child_count = Cardinality(ChildrenOf(r, p))
    BY <1>1, <2>1, Fields DEF Counted
  <2>2. CASE p = self
    <3>1. Cardinality(ChildrenOf(s, p)) = Cardinality(ChildrenOf(r, p)) + 1
      BY <1>3, <2>2, ChildrenCounted
    <3> QED
      BY <1>1, <1>5, <2>1, <2>2, <3>1, ChildrenCounted
  <2>3. CASE p # self /\ Has(r, p)
    <3>1. s[p].child_count = r[p].child_count
      BY <1>1, <1>5, <2>3 DEF Base
    <3> QED
      BY <1>4, <2>1, <2>3, <3>1
  <2>4. CASE p # self /\ ~Has(r, p)
    <3>1. s[p].child_count = 0 /\ p \in live
      BY <1>1, <1>5, <2>4 DEF Base, RelationOf
    <3>2. ChildrenOf(r, p) = {}
      BY <2>4, <3>1 DEF Counted, ChildrenOf
    <3> QED
      BY <1>4, <2>4, <3>1, <3>2, FS_EmptySet
  <2> QED
    BY <2>2, <2>3, <2>4
<1>6. \A x \in Entities : ParentOf(s, x) \in live => Has(s, ParentOf(s, x))
  BY <1>1, <1>2 DEF Counted
<1>7. \A x \in Entities : Has(s, x) => x \in live
  BY <1>1 DEF Counted
<1> QED
  BY <1>1, <1>5, <1>6, <1>7 DEF Counted

(* Detaching a child whose links lead to components. *)
LEMMA DetachedSteps ==
  ASSUME NEW r, NEW live \in SUBSET Entities, NEW exact, Counted(r, live, exact),
         NEW child \in live,
         ParentOf(r, child) # Null =>
           /\ Has(r, ParentOf(r, child))
           /\ r[child].prev # Null => Has(r, r[child].prev)
           /\ r[child].prev = Null /\ r[child].next # Null => Has(r, r[child].next)
  PROVE  /\ ParentOf(r, child) # Null =>
              RemovedAs(r, Detached(r, child), ParentOf(r, child), child)
         /\ ParentOf(r, child) = Null => Detached(r, child) = r
         /\ Counted(Detached(r, child), live, exact)
         /\ ParentOf(Detached(r, child), child) = Null
         /\ \A x : Has(Detached(r, child), x) <=> Has(r, x)
<1>0. Typed(r)
  BY DEF Counted
<1>1. CASE ParentOf(r, child) = Null
  BY <1>1 DEF Detached
<1>2. CASE ParentOf(r, child) # Null
  <2>1. PICK self : self = ParentOf(r, child)
    OBVIOUS
  <2>2. PICK s : s = Detached(r, child)
    OBVIOUS
  <2>3. /\ Has(r, child) /\ self = r[child].parent /\ Has(r, self) /\ self \in Entities
        /\ s = RemoveChild(r, self, child)
    BY <1>0, <1>2, <2>1, <2>2, Fields DEF Detached, ParentOf
  <2>4. r[self].child_count # 0
    <3>1. child \in ChildrenOf(r, self)
      BY <2>1 DEF ChildrenOf
    <3>2. Cardinality(ChildrenOf(r, self)) <= r[self].child_count /\ r[self].child_count \in Nat
      BY <1>0, <2>3, Fields DEF Counted
    <3>3. Cardinality(ChildrenOf(r, self)) # 0 /\ Cardinality(ChildrenOf(r, self)) \in Nat
      BY <3>1, ChildrenCounted
    <3> QED
      BY <3>2, <3>3
  <2>5. RemovedAs(r, s, self, child)
    BY <1>0, <1>2, <2>3, <2>4, RemoveChildFields
  <2>6. Counted(s, live, exact)
    BY <2>1, <2>3, <2>5, CountedRemoved
  <2>7. ParentOf(s, child) = Null
    BY <2>5, RemovedParents
  <2>8. \A x : Has(s, x) <=> Has(r, x)
    BY <2>5 DEF RemovedAs, Has
  <2> QED
    BY <1>2, <2>1, <2>2, <2>5, <2>6, <2>7, <2>8
<1> QED
  BY <1>1, <1>2

(* The steps of set_parent, when it comes to its end and changes the tree. *)
LEMMA ParentedSteps ==
  ASSUME NEW r, NEW live \in SUBSET Entities, NEW exact, Counted(r, live, exact),
         NEW child \in live, NEW parent \in live, child # parent,
         ~Faults(r, child, parent),
         ~Contains(Children(WithComponent(r, parent), parent), child),
         NEW e0, e0 = WithComponent(r, parent),
         NEW after, after = Detached(e0, child)
  PROVE  /\ Counted(e0, live, exact) /\ Has(e0, parent) /\ ~Broken(e0, parent)
         /\ ParentOf(e0, child) # Null => RemovedAs(e0, after, ParentOf(e0, child), child)
         /\ ParentOf(e0, child) = Null => after = e0
         /\ ParentOf(e0, child) # Null =>
              /\ Has(e0, child) /\ Has(e0, ParentOf(e0, child))
              /\ e0[child].prev # Null => Has(e0, e0[child].prev)
              /\ e0[child].prev = Null /\ e0[child].next # Null => Has(e0, e0[child].next)
         /\ Counted(after, live, exact) /\ Has(after, parent)
         /\ ParentOf(after, child) = Null
         /\ \A x : Has(after, x) <=> Has(e0, x)
         /\ LinkedAs(after, Parented(r, child, parent), parent, child)
<1>1. Counted(e0, live, exact) /\ Typed(e0)
  <2>1. Counted(e0, live, exact)
    BY CountedWithComponent
  <2> QED
    BY <2>1 DEF Counted
<1>2. Has(e0, parent)
  BY WithComponentFields DEF WithComponentAs, Counted
<1>3. parent # Null /\ parent \in Entities /\ child \in Entities
  BY NullAssumption
<1>4. /\ ~Broken(e0, parent)
      /\ ParentOf(e0, child) # Null =>
           /\ e0[child].parent # Null => Has(e0, e0[child].parent)
           /\ e0[child].prev # Null => Has(e0, e0[child].prev)
           /\ e0[child].prev = Null /\ e0[child].next # Null => Has(e0, e0[child].next)
      /\ after[parent].child_count # 0 =>
           /\ Children(after, parent) # << >>
           /\ ~Broken(after, parent)
           /\ ~SelfLinked(after, parent)
  BY <1>3 DEF Faults
<1>5. ParentOf(e0, child) # Null => Has(e0, child) /\ e0[child].parent = ParentOf(e0, child)
  BY DEF ParentOf
<1>6. ParentOf(e0, child) # Null => Has(e0, ParentOf(e0, child))
  BY <1>4, <1>5
<1>7. /\ ParentOf(e0, child) # Null => RemovedAs(e0, after, ParentOf(e0, child), child)
      /\ ParentOf(e0, child) = Null => after = e0
      /\ Counted(after, live, exact)
      /\ ParentOf(after, child) = Null
      /\ \A x : Has(after, x) <=> Has(e0, x)
  BY <1>1, <1>4, <1>6, DetachedSteps
<1>8. Typed(after) /\ Has(after, parent)
  BY <1>2, <1>7 DEF Counted
<1>9. after[parent].child_count # 0 => Has(after, Last(Children(after, parent)))
  <2> SUFFICES ASSUME after[parent].child_count # 0
               PROVE  Has(after, Last(Children(after, parent)))
    OBVIOUS
  <2>1. PICK w : w = Children(after, parent)
    OBVIOUS
  <2>2. w \in Seq(Entities) /\ w # << >> /\ \A i \in 1..Len(w) : Has(after, w[i])
    BY <1>4, <1>8, <2>1, ChildrenHave
  <2>3. Len(w) \in 1..Len(w) /\ Last(w) = w[Len(w)]
    BY <2>2, EndsOf
  <2> QED
    BY <2>1, <2>2, <2>3
<1>10. Parented(r, child, parent) = Linked(after, parent, child)
  BY <1>3 DEF Parented
<1>11. LinkedAs(after, Linked(after, parent, child), parent, child)
  BY <1>3, <1>8, <1>9, LinkedFields
<1> QED
  BY <1>1, <1>2, <1>4, <1>5, <1>6, <1>7, <1>8, <1>10, <1>11

(* set_parent keeps the counts, if it comes to its end.                    *)
LEMMA ParentedCounted ==
  ASSUME NEW r, NEW live \in SUBSET Entities, NEW exact, Counted(r, live, exact),
         NEW child \in live, NEW parent \in live, ~Faults(r, child, parent)
  PROVE  /\ Counted(Parented(r, child, parent), live, exact)
         /\ \A x : Has(r, x) => Has(Parented(r, child, parent), x)
<1>1. PICK e0 : e0 = WithComponent(r, parent)
  OBVIOUS
<1>2. PICK after : after = Detached(e0, child)
  OBVIOUS
<1>3. parent # Null /\ parent \in Entities
  BY NullAssumption
<1>4. \A x : Has(r, x) => Has(e0, x)
  BY <1>1, WithComponentFields, SMTT(60) DEF WithComponentAs, Has, Counted
<1>5. CASE child = parent
  BY <1>5 DEF Parented
<1>6. CASE child # parent /\ Contains(Children(e0, parent), child)
  <2>1. Parented(r, child, parent) = e0
    BY <1>1, <1>3, <1>6 DEF Parented
  <2> QED
    BY <1>1, <1>4, <2>1, CountedWithComponent
<1>7. CASE child # parent /\ ~Contains(Children(e0, parent), child)
  <2>1. PICK s : s = Parented(r, child, parent)
    OBVIOUS
  <2>2. /\ Counted(after, live, exact) /\ Has(after, parent)
        /\ ParentOf(after, child) = Null
        /\ \A x : Has(after, x) <=> Has(e0, x)
        /\ LinkedAs(after, s, parent, child)
    BY <1>1, <1>2, <1>7, <2>1, ParentedSteps, SMTT(60)
  <2>3. Counted(s, live, exact)
    BY <1>7, <2>2, CountedLinked
  <2>4. \A x : Has(after, x) => Has(s, x)
    BY <2>2 DEF LinkedAs, Has
  <2> QED
    BY <1>4, <2>1, <2>2, <2>3, <2>4
<1> QED
  BY <1>5, <1>6, <1>7
-----------------------------------------------------------------------------
(* The two policies, step by step. *)

(* What the enumeration meets are entities.                                *)
LEMMA ChildrenInEntities ==
  ASSUME NEW r, Typed(r), NEW e, Has(r, e)
  PROVE  /\ Children(r, e) \in Seq(Entities)
         /\ Len(Children(r, e)) \in Nat
         /\ DOMAIN Children(r, e) = 1..Len(Children(r, e))
         /\ ToSet(Children(r, e)) \subseteq Entities
<1>1. Chain(r, e) \in Seq(Entities)
  BY ChainInEntities
<1>2. Children(r, e) \in Seq(Entities)
  <2>1. CASE SelfLinked(r, e)
    BY <1>1, <2>1, EndsOf DEF Children, SelfLinked
  <2>2. CASE ~SelfLinked(r, e)
    BY <1>1, <2>2 DEF Children
  <2> QED
    BY <2>1, <2>2
<1>3. PICK w : w = Children(r, e)
  OBVIOUS
<1>4. /\ Len(w) \in Nat
      /\ DOMAIN w = 1..Len(w)
      /\ \A i \in 1..Len(w) : w[i] \in Entities
  BY <1>2, <1>3
<1>5. ToSet(w) \subseteq Entities
  BY <1>4 DEF ToSet
<1> QED
  BY <1>2, <1>3, <1>4, <1>5

(* h are the registries while the children of e are moved one by one.      *)
RehomingAs(r, e, exact, h, list, home) ==
  /\ h[0] = [r |-> r, fault |-> Broken(r, e) \/ home \notin alive]
  /\ \A n \in 1..Len(list) : h[n] = Moved(h[n - 1], list[n], home)
  /\ \A n \in 0..Len(list) :
       /\ h[n] \in [r : [Entities -> Relation \cup {Absent}], fault : BOOLEAN]
       /\ Counted(h[n].r, alive, exact)
       /\ h[n].fault \/ (home \in alive /\ ~Broken(r, e))
       /\ \A x : Has(r, x) => Has(h[n].r, x)

(* Rehoming is defined by its steps, and every registry on the way is      *)
(* counted.                                                                *)
LEMMA RehomingSteps ==
  ASSUME alive \in SUBSET Entities, NEW r, NEW exact, Counted(r, alive, exact),
         NEW e, Has(r, e),
         NEW h, h = Rehoming(r, e), NEW list, list = Children(r, e),
         NEW home, home = HomeOf(r, e)
  PROVE  RehomingAs(r, e, exact, h, list, home)
<1>1. PICK L \in Nat : L = Len(list)
  BY ChildrenInEntities DEF Counted
<1> DEFINE All == [r : [Entities -> Relation \cup {Absent}], fault : BOOLEAN]
           Fine(acc) == /\ Counted(acc.r, alive, exact)
                        /\ acc.fault \/ (home \in alive /\ ~Broken(r, e))
                        /\ \A x : Has(r, x) => Has(acc.r, x)
           S == {acc \in All : Fine(acc)}
           F == [n \in 1..L |-> [acc \in S |-> Moved(acc, list[n], home)]]
           start == [r |-> r, fault |-> Broken(r, e) \/ home \notin alive]
           Good(g) == g = [n \in 0..L |-> IF n = 0 THEN start ELSE Moved(g[n - 1], list[n], home)]
<1>2. h = CHOOSE g : Good(g)
  BY <1>1 DEF Rehoming
<1>3. start \in S
  <2>1. start \in All
    BY DEF Counted, Typed
  <2>2. start.r = r /\ (start.fault \/ (home \in alive /\ ~Broken(r, e)))
    OBVIOUS
  <2>3. Fine(start)
    <3> HIDE DEF start
    <3> QED
      BY <2>2
  <2> HIDE DEF start, All, Fine
  <2> QED
    BY <2>1, <2>3
<1> HIDE DEF start
<1>4. ASSUME NEW n \in 1..L, NEW acc \in S PROVE Moved(acc, list[n], home) \in S
  <2>1. acc \in All /\ Fine(acc)
    OBVIOUS
  <2>2. CASE acc.fault \/ Faults(acc.r, list[n], home)
    <3>1. Moved(acc, list[n], home) = [acc EXCEPT !.fault = TRUE]
      BY <2>2 DEF Moved
    <3> DEFINE m == [acc EXCEPT !.fault = TRUE]
    <3>2. m \in All /\ m.r = acc.r /\ m.fault
      BY <2>1
    <3> HIDE DEF m
    <3>3. Fine(m)
      BY <2>1, <3>2
    <3> HIDE DEF All, Fine
    <3> QED
      BY <3>1, <3>2, <3>3 DEF m
  <2>3. CASE ~acc.fault /\ ~Faults(acc.r, list[n], home)
    <3>1. home \in alive /\ ~Broken(r, e)
      BY <2>1, <2>3
    <3>2. list[n] \in alive
      <4>1. Has(r, list[n])
        BY <1>1, <3>1, ChildrenHave DEF Counted
      <4> QED
        BY <4>1 DEF Counted, Has
    <3>3. PICK s : s = Parented(acc.r, list[n], home)
      OBVIOUS
    <3>4. Counted(s, alive, exact) /\ \A x : Has(acc.r, x) => Has(s, x)
      BY <2>1, <2>3, <3>1, <3>2, <3>3, ParentedCounted
    <3>5. Moved(acc, list[n], home) = [acc EXCEPT !.r = s]
      BY <2>3, <3>3 DEF Moved
    <3> DEFINE m == [acc EXCEPT !.r = s]
    <3>6. m \in All /\ m.r = s /\ m.fault = acc.fault
      BY <2>1, <3>4 DEF Counted, Typed
    <3> HIDE DEF m
    <3>7. Fine(m)
      BY <2>1, <3>1, <3>4, <3>6
    <3> HIDE DEF All, Fine
    <3> QED
      BY <3>5, <3>6, <3>7 DEF m
  <2> QED
    BY <2>2, <2>3
<1>5. F \in [1..L -> [S -> S]]
  <2> HIDE DEF S
  <2> QED
    BY <1>4
<1>6. PICK f \in [0..L -> S] : Recurs(f, L, start, F)
  <2> HIDE DEF S, F
  <2> QED
    BY <1>1, <1>3, <1>5, Recursion
<1>7. Good(f)
  <2>1. ASSUME NEW n \in 0..L PROVE f[n] = IF n = 0 THEN start ELSE Moved(f[n - 1], list[n], home)
    <3>1. CASE n = 0
      BY <1>6, <3>1 DEF Recurs
    <3>2. CASE n # 0
      <4>1. n \in 1..L /\ n - 1 \in 0..L
        BY <1>1, <3>2
      <4>2. f[n] = F[n][f[n - 1]] /\ f[n - 1] \in S
        <5> HIDE DEF S, F
        <5> QED
          BY <1>6, <3>2, <4>1 DEF Recurs
      <4> HIDE DEF S
      <4> QED
        BY <3>2, <4>1, <4>2
    <3> QED
      BY <3>1, <3>2, SMTT(30), ZenonT(30)
  <2> HIDE DEF S, F
  <2> QED
    BY <2>1
<1>8. Good(h)
  <2> HIDE DEF Good, S, F
  <2> QED
    BY <1>2, <1>7
<1>9. h[0] = start /\ \A n \in 1..L : h[n] = Moved(h[n - 1], list[n], home)
  BY <1>1, <1>8
<1>10. \A n \in 0..L : h[n] \in S
  <2> DEFINE T == {n \in 0..L : h[n] \in S}
  <2> HIDE DEF S, F
  <2>1. 0 \in T
    BY <1>1, <1>3, <1>9
  <2>2. \A n \in 1..L : n - 1 \in T => n \in T
    BY <1>1, <1>4, <1>9
  <2>3. 0..L \subseteq T
    <3> HIDE DEF T, Good
    <3> QED
      BY <1>1, <2>1, <2>2, Steps
  <2> QED
    BY <2>3
<1> QED
  <2>1. \A n \in 0..L : h[n] \in All /\ Fine(h[n])
    BY <1>10
  <2> HIDE DEF S, F, Good
  <2> QED
    BY <1>1, <1>9, <2>1 DEF start, RehomingAs

(* What is destroyed with e: e, and with any entity its children. *)
LEMMA Subtrees ==
  ASSUME NEW r, Typed(r), NEW e \in Entities, NEW D, D = Subtree(r, e)
  PROVE  /\ D \in SUBSET Entities
         /\ e \in D
         /\ \A x \in D : Has(r, x) => ToSet(Children(r, x)) \subseteq D
         /\ \A x \in D : x # e => \E y \in D : Has(r, y) /\ x \in ToSet(Children(r, y))
<1> DEFINE Step(B) == B \cup UNION {ToSet(Children(r, x)) : x \in {y \in B : Has(r, y)}}
           S == SUBSET Entities
           F == [n \in 1..N |-> [B \in S |-> Step(B)]]
           Good(g) == g = [n \in 0..N |-> IF n = 0 THEN {e} ELSE Step(g[n - 1])]
           down == Descent(r, e)
<1>0. N \in Nat
  BY Bounded
<1>1. down = CHOOSE g : Good(g)
  BY DEF Descent, N
<1>2. ASSUME NEW B \in S PROVE Step(B) \in S
  <2>1. \A x : Has(r, x) => ToSet(Children(r, x)) \subseteq Entities
    BY ChildrenInEntities
  <2> QED
    BY <2>1
<1>3. \A B, x : x \in Step(B) <=> x \in B \/ \E y \in B : Has(r, y) /\ x \in ToSet(Children(r, y))
  OBVIOUS
<1> HIDE DEF Step
<1>4. F \in [1..N -> [S -> S]]
  <2> HIDE DEF S
  <2> QED
    BY <1>2
<1>5. PICK f \in [0..N -> S] : Recurs(f, N, {e}, F)
  <2>1. {e} \in S
    OBVIOUS
  <2> HIDE DEF S, F
  <2> QED
    BY <1>0, <1>4, <2>1, Recursion
<1>6. Good(f)
  <2>1. ASSUME NEW n \in 0..N PROVE f[n] = IF n = 0 THEN {e} ELSE Step(f[n - 1])
    <3>1. CASE n = 0
      BY <1>5, <3>1 DEF Recurs
    <3>2. CASE n # 0
      <4>1. n \in 1..N /\ n - 1 \in 0..N
        BY <1>0, <3>2
      <4>2. f[n] = F[n][f[n - 1]] /\ f[n - 1] \in S
        <5> HIDE DEF S, F
        <5> QED
          BY <1>5, <3>2, <4>1 DEF Recurs
      <4> HIDE DEF S
      <4> QED
        BY <3>2, <4>1, <4>2
    <3> QED
      BY <3>1, <3>2
  <2> HIDE DEF S, F
  <2> QED
    BY <2>1
<1>7. Good(down)
  <2> HIDE DEF Good, S, F, down
  <2> QED
    BY <1>1, <1>6
<1> HIDE DEF down
<1>8. down[0] = {e} /\ \A n \in 1..N : down[n] = Step(down[n - 1])
  <2>1. \A n \in 0..N : down[n] = IF n = 0 THEN {e} ELSE Step(down[n - 1])
    <3> HIDE DEF S, F
    <3> QED
      BY <1>7
  <2>2. 0 \in 0..N /\ \A n \in 1..N : n \in 0..N /\ n # 0
    BY <1>0
  <2> QED
    BY <2>1, <2>2
<1> DEFINE Reached(B) == \A x \in B : x # e => \E y \in B : Has(r, y) /\ x \in ToSet(Children(r, y))
           Whole(B, n) == Cardinality(B) >= n + 1 \/ Step(B) = B
           T == {n \in 0..N : /\ down[n] \in SUBSET Entities
                              /\ e \in down[n]
                              /\ Reached(down[n])
                              /\ Whole(down[n], n)}
<1>9. 0 \in T
  <2>1. Cardinality({e}) = 1
    BY FS_Singleton
  <2>2. down[0] = {e} /\ 0 \in 0..N
    BY <1>0, <1>8
  <2>3. Whole(down[0], 0)
    BY <2>1, <2>2
  <2>4. Reached(down[0])
    BY <2>2
  <2> HIDE DEF Whole, Reached
  <2> QED
    BY <2>2, <2>3, <2>4
<1>10. ASSUME NEW n \in 1..N, n - 1 \in T PROVE n \in T
  <2>1. PICK B, C : B = down[n - 1] /\ C = down[n] /\ C = Step(B)
    BY <1>8
  <2>2. B \in SUBSET Entities /\ e \in B /\ Reached(B) /\ Whole(B, n - 1)
    BY <1>10, <2>1
  <2>3. C \in SUBSET Entities /\ B \subseteq C
    BY <1>2, <1>3, <2>1, <2>2
  <2>4. Reached(C)
    BY <1>3, <2>1, <2>2, <2>3
  <2>5. Whole(C, n)
    <3>1. CASE C = B
      BY <2>1, <3>1
    <3>2. CASE C # B
      <4>1. IsFiniteSet(C) /\ Cardinality(C) \in Nat /\ Cardinality(B) \in Nat
        BY <2>2, <2>3, Bounded
      <4>2. Cardinality(B) <= Cardinality(C) /\ Cardinality(B) # Cardinality(C)
        BY <2>3, <3>2, <4>1, FS_Subset
      <4>3. Cardinality(B) >= n
        BY <1>0, <2>1, <2>2, <3>2
      <4> QED
        BY <1>0, <4>1, <4>2, <4>3
    <3> QED
      BY <3>1, <3>2
  <2>6. Reached(down[n]) /\ Whole(down[n], n) /\ n \in 0..N
    BY <1>0, <2>1, <2>4, <2>5
  <2> HIDE DEF Whole, Reached
  <2> QED
    BY <2>1, <2>2, <2>3, <2>6
<1>11. N \in T
  <2> HIDE DEF T
  <2>1. 0..N \subseteq T
    BY <1>0, <1>9, <1>10, Steps
  <2> QED
    BY <1>0, <2>1
<1>12. D = down[N]
  BY DEF Subtree, N, down
<1>13. /\ D \in SUBSET Entities
       /\ e \in D
       /\ Reached(D)
       /\ Whole(D, N)
  BY <1>11, <1>12
<1>14. Step(D) = D
  <2>1. Cardinality(D) \in Nat /\ Cardinality(D) <= N
    BY <1>13, Bounded
  <2> QED
    BY <1>0, <1>13, <2>1
<1>15. \A x \in D : Has(r, x) => ToSet(Children(r, x)) \subseteq D
  BY <1>3, <1>14
<1> QED
  BY <1>13, <1>15
-----------------------------------------------------------------------------
(* The count of the children, for every number of entities. *)

(* s is r without the components of some entities.                         *)
GoneFrom(r, s, gone) == s = [x \in Entities |-> IF x \in gone THEN Absent ELSE r[x]]

(* Those that are left keep what they had.                                 *)
LEMMA GoneFields ==
  ASSUME NEW r, Typed(r), NEW gone \in SUBSET Entities, NEW s, GoneFrom(r, s, gone)
  PROVE  /\ Typed(s)
         /\ \A x : Has(s, x) <=> Has(r, x) /\ x \notin gone
         /\ \A x : Has(s, x) => s[x] = r[x]
         /\ \A x : ParentOf(s, x) = IF x \in gone THEN Null ELSE ParentOf(r, x)
<1>1. \A x \in Entities : s[x] = IF x \in gone THEN Absent ELSE r[x]
  BY DEF GoneFrom
<1>2. Typed(s)
  BY DEF GoneFrom, Typed
<1>3. \A x : Has(s, x) <=> Has(r, x) /\ x \notin gone
  BY <1>1 DEF Has
<1>4. \A x : Has(s, x) => s[x] = r[x]
  BY <1>1 DEF Has
<1> QED
  BY <1>2, <1>3, <1>4 DEF ParentOf

(* The counts survive a destruction that takes no child from a surviving   *)
(* parent.                                                                 *)
LEMMA CountedGone ==
  ASSUME NEW r, NEW live \in SUBSET Entities, NEW exact, Counted(r, live, exact),
         NEW gone \in SUBSET Entities, NEW s, GoneFrom(r, s, gone),
         NEW still, still => exact /\ ~Drops(r, gone)
  PROVE  Counted(s, live \ gone, still)
<1>1. Typed(r)
  BY DEF Counted
<1>2. /\ Typed(s)
      /\ \A x : Has(s, x) <=> Has(r, x) /\ x \notin gone
      /\ \A x : Has(s, x) => s[x] = r[x]
      /\ \A x : ParentOf(s, x) = IF x \in gone THEN Null ELSE ParentOf(r, x)
  BY <1>1, GoneFields
<1>3. ASSUME NEW p \in Entities, Has(s, p)
      PROVE  /\ Cardinality(ChildrenOf(s, p)) <= s[p].child_count
             /\ still => s[p].child_count = Cardinality(ChildrenOf(s, p))
  <2>1. /\ s[p] = r[p] /\ r[p].child_count \in Nat /\ p \notin gone
        /\ Cardinality(ChildrenOf(r, p)) <= r[p].child_count
        /\ exact => r[p].child_count = Cardinality(ChildrenOf(r, p))
    BY <1>1, <1>2, <1>3, Fields DEF Counted
  <2>2. ChildrenOf(s, p) \in SUBSET ChildrenOf(r, p)
    BY <1>2, NullAssumption DEF ChildrenOf
  <2>3. Cardinality(ChildrenOf(s, p)) <= Cardinality(ChildrenOf(r, p))
    BY <2>2, ChildrenCounted, FS_Subset
  <2>4. Cardinality(ChildrenOf(s, p)) \in Nat /\ Cardinality(ChildrenOf(r, p)) \in Nat
    BY ChildrenCounted
  <2>5. ASSUME still PROVE ChildrenOf(s, p) = ChildrenOf(r, p)
    <3>1. \A x \in gone : ParentOf(r, x) # p
      BY <2>1, <2>5, NullAssumption DEF Drops
    <3>2. ASSUME NEW x \in Entities PROVE x \in ChildrenOf(s, p) <=> x \in ChildrenOf(r, p)
      BY <1>2, <3>1, NullAssumption DEF ChildrenOf
    <3> QED
      BY <3>2 DEF ChildrenOf
  <2> QED
    BY <2>1, <2>3, <2>4, <2>5
<1>4. \A x \in Entities : Has(s, x) => x \in live \ gone
  BY <1>2 DEF Counted
<1>5. \A x \in Entities : ParentOf(s, x) \in live \ gone => Has(s, ParentOf(s, x))
  BY <1>2, NullAssumption DEF Counted
<1> QED
  BY <1>2, <1>3, <1>4, <1>5 DEF Counted

(* The inductive invariant of the counts.                                  *)
CountInv == TypeOK /\ Counted(rel, alive, ~dropped)

(* It holds of the empty registry.                                         *)
LEMMA CountInit == Init => CountInv
<1> SUFFICES ASSUME Init PROVE CountInv
  OBVIOUS
<1>1. TypeOK
  BY DEF Init, TypeOK
<1>2. /\ Typed(rel)
      /\ \A x : ~Has(rel, x)
  BY DEF Init, Typed, Has
<1>3. \A x : ParentOf(rel, x) = Null
  BY <1>2 DEF ParentOf
<1>4. Null \notin alive
  BY NullAssumption DEF Init
<1> QED
  BY <1>1, <1>2, <1>3, <1>4 DEF CountInv, Counted

(* set_parent keeps it.                                                    *)
LEMMA CountSetParent ==
  ASSUME CountInv, NEW child \in Entities, NEW parent \in Entities, SetParent(child, parent)
  PROVE  CountInv'
<1>1. /\ TypeOK
      /\ alive \in SUBSET Entities
      /\ Counted(rel, alive, ~dropped)
      /\ child \in alive /\ parent \in alive
  BY DEF CountInv, TypeOK, SetParent
<1>2. CASE Faults(rel, child, parent)
  BY <1>1, <1>2 DEF SetParent, Abort, CountInv, TypeOK, Counted
<1>3. CASE ~Faults(rel, child, parent)
  <2>1. rel' = Parented(rel, child, parent) /\ UNCHANGED <<alive, destroyChildren, aborted, dropped>>
    BY <1>3 DEF SetParent
  <2>2. Counted(rel', alive, ~dropped)
    BY <1>1, <1>3, <2>1, ParentedCounted
  <2>3. spliced' \in BOOLEAN
    BY <1>3 DEF SetParent
  <2>4. Typed(rel')
    BY <2>2 DEF Counted
  <2>5. TypeOK'
    BY <1>1, <2>1, <2>3, <2>4 DEF TypeOK, Typed
  <2> QED
    BY <2>1, <2>2, <2>5 DEF CountInv
<1> QED
  BY <1>2, <1>3

(* What is taken out of the registry by either policy. *)
LEMMA RehomedSteps ==
  ASSUME CountInv, NEW e, Has(rel, e),
         NEW result, result = Rehomed(rel, e)
  PROVE  /\ Counted(result.r, alive, ~dropped)
         /\ result.fault \in BOOLEAN
<1>1. PICK h, list, home : h = Rehoming(rel, e) /\ list = Children(rel, e) /\ home = HomeOf(rel, e)
  OBVIOUS
<1>2. alive \in SUBSET Entities /\ Counted(rel, alive, ~dropped) /\ Typed(rel)
  BY DEF CountInv, TypeOK, Counted
<1>3. Len(list) \in Nat
  BY <1>1, <1>2, ChildrenInEntities
<1>4. \A n \in 0..Len(list) :
        /\ h[n] \in [r : [Entities -> Relation \cup {Absent}], fault : BOOLEAN]
        /\ Counted(h[n].r, alive, ~dropped)
  <2>1. RehomingAs(rel, e, ~dropped, h, list, home)
    BY <1>1, <1>2, RehomingSteps
  <2> QED
    BY <2>1 DEF RehomingAs
<1>5. result = h[Len(list)] /\ Len(list) \in 0..Len(list)
  BY <1>1, <1>3 DEF Rehomed
<1> QED
  BY <1>4, <1>5

(* The destruction of an entity keeps it, under either policy.             *)
LEMMA CountDestroy ==
  ASSUME CountInv, NEW e \in Entities, Destroy(e)
  PROVE  CountInv'
<1>1. /\ TypeOK
      /\ alive \in SUBSET Entities
      /\ Counted(rel, alive, ~dropped)
      /\ Typed(rel)
      /\ UNCHANGED <<destroyChildren, spliced>>
  BY DEF CountInv, TypeOK, Destroy, Counted
<1> SUFFICES ASSUME NEW r, NEW gone \in SUBSET Entities,
                    Counted(r, alive, ~dropped),
                    GoneFrom(r, rel', gone), alive' = alive \ gone,
                    dropped' = (dropped \/ Drops(r, gone)),
                    aborted' \in BOOLEAN
             PROVE  CountInv'
  <2>1. CASE ~Has(rel, e) /\ alive' = alive \ {e} /\ UNCHANGED <<rel, aborted, dropped>>
    <3>1. rel[e] = Absent
      BY <2>1 DEF Has
    <3>2. GoneFrom(rel, rel', {e})
      BY <1>1, <2>1, <3>1 DEF GoneFrom, Typed
    <3>3. ~Drops(rel, {e})
      BY <2>1 DEF Drops, ParentOf
    <3>4. dropped' = (dropped \/ Drops(rel, {e})) /\ aborted' \in BOOLEAN
      BY <1>1, <2>1, <3>3 DEF TypeOK
    <3> QED
      BY <1>1, <2>1, <3>2, <3>4
  <2>2. CASE /\ aborted' = SubtreeFaults(rel, e)
             /\ LET gone == IF SubtreeFaults(rel, e) THEN {} ELSE Subtree(rel, e)
                IN  /\ alive' = alive \ gone
                    /\ rel' = [x \in Entities |-> IF x \in gone THEN Absent ELSE rel[x]]
                    /\ dropped' = (dropped \/ Drops(rel, gone))
    <3>1. PICK gone : gone = IF SubtreeFaults(rel, e) THEN {} ELSE Subtree(rel, e)
      OBVIOUS
    <3>2. gone \in SUBSET Entities
      BY <1>1, <3>1, Subtrees
    <3>3. /\ alive' = alive \ gone
          /\ GoneFrom(rel, rel', gone)
          /\ dropped' = (dropped \/ Drops(rel, gone))
      BY <2>2, <3>1 DEF GoneFrom
    <3>4. aborted' \in BOOLEAN
      BY <2>2 DEF SubtreeFaults
    <3> QED
      BY <1>1, <3>2, <3>3, <3>4
  <2>3. CASE /\ Has(rel, e)
             /\ LET result == Rehomed(rel, e)
                    gone   == IF result.fault THEN {} ELSE {e}
                IN  /\ aborted' = result.fault
                    /\ alive' = alive \ gone
                    /\ rel' = IF result.fault THEN rel ELSE [result.r EXCEPT ![e] = Absent]
                    /\ dropped' = (dropped \/ Drops(result.r, gone))
    <3>1. PICK result : result = Rehomed(rel, e)
      OBVIOUS
    <3>2. Counted(result.r, alive, ~dropped) /\ result.fault \in BOOLEAN /\ Typed(result.r)
      BY <2>3, <3>1, RehomedSteps DEF Counted
    <3>3. CASE result.fault
      <4>1. alive' = alive \ {} /\ rel' = rel /\ dropped' = (dropped \/ Drops(result.r, {})) /\ aborted' = result.fault
        BY <2>3, <3>1, <3>3
      <4>2. GoneFrom(rel, rel', {})
        BY <1>1, <4>1 DEF GoneFrom, Typed
      <4>3. ~Drops(rel, {}) /\ ~Drops(result.r, {})
        BY DEF Drops
      <4> QED
        BY <1>1, <3>2, <4>1, <4>2, <4>3
    <3>4. CASE ~result.fault
      <4>1. /\ alive' = alive \ {e}
            /\ rel' = [result.r EXCEPT ![e] = Absent]
            /\ dropped' = (dropped \/ Drops(result.r, {e}))
            /\ aborted' = result.fault
        BY <2>3, <3>1, <3>4
      <4>2. GoneFrom(result.r, rel', {e})
        BY <3>2, <4>1 DEF GoneFrom, Typed
      <4> QED
        BY <3>2, <4>1, <4>2
    <3> QED
      BY <3>3, <3>4
  <2> QED
    BY <2>1, <2>2, <2>3 DEF Destroy
<1>2. Counted(rel', alive \ gone, ~dropped')
  BY <1>1, CountedGone
<1>3. Counted(rel', alive', ~dropped') /\ Typed(rel')
  BY <1>2 DEF Counted
<1>4. dropped' \in BOOLEAN
  BY DEF Drops
<1>5. TypeOK'
  BY <1>1, <1>3, <1>4 DEF TypeOK, Typed
<1> QED
  BY <1>3, <1>5 DEF CountInv

(* Every step keeps it.                                                    *)
LEMMA CountStep == CountInv /\ [Next]_vars => CountInv'
<1> SUFFICES ASSUME CountInv, [Next]_vars PROVE CountInv'
  OBVIOUS
<1>1. ASSUME NEW child \in Entities, NEW parent \in Entities, SetParent(child, parent) PROVE CountInv'
  BY <1>1, CountSetParent
<1>2. ASSUME NEW child \in Entities, RemoveParent(child) PROVE CountInv'
  BY <1>2, CountSetParent, RootAssumption DEF RemoveParent
<1>3. ASSUME NEW e \in Entities, Destroy(e) PROVE CountInv'
  BY <1>3, CountDestroy
<1>4. CASE UNCHANGED vars
  BY <1>4 DEF vars, CountInv, TypeOK, Counted
<1> QED
  BY <1>1, <1>2, <1>3, <1>4 DEF Next

(* The registry holds what its types say: no count of children falls below *)
(* zero, and every link is an entity or null (relationship_component.hpp). *)
THEOREM TypeCorrect == Spec => []TypeOK
<1>1. CountInv => TypeOK
  BY DEF CountInv
<1> QED
  BY <1>1, CountInit, CountStep, PTL DEF Spec

(* Every parent counts exactly the entities that name it, however the      *)
(* chains of siblings were damaged, until an entity is destroyed that its  *)
(* parent survived (collapse_child, add_child, set_parent and both         *)
(* policies of relationship_destroyed_handler).                            *)
THEOREM ChildrenAreCounted == Spec => []CountMatchesParents
<1>1. CountInv => CountMatchesParents
  BY DEF CountInv, Counted, CountMatchesParents
<1> QED
  BY <1>1, CountInit, CountStep, PTL DEF Spec
-----------------------------------------------------------------------------
(* The tree behind the links: k has the list of every entity's children,   *)
(* the destroyed ones that were never taken out of it included.            *)

(* x is in a list of children.                                             *)
Listed(k, x) == \E p \in Entities : \E i \in 1..Len(k[p]) : k[p][i] = x

(* Only an entity with a component has children, and nobody is listed      *)
(* twice.                                                                  *)
Lists(r, k) ==
  /\ Typed(r)
  /\ k \in [Entities -> Seq(Entities)]
  /\ \A p \in Entities : Len(k[p]) # 0 => Has(r, p)
  /\ \A p, q \in Entities : \A i \in 1..Len(k[p]), j \in 1..Len(k[q]) :
       k[p][i] = k[q][j] => p = q /\ i = j

(* What a parent says of its list.                                         *)
Heads(r, k) ==
  \A p \in Entities : Has(r, p) =>
    /\ r[p].first = IF Len(k[p]) = 0 THEN Null ELSE k[p][1]
    /\ r[p].child_count = Len(k[p])

(* What a child says of its place in a list.                               *)
Members(r, k) ==
  \A p \in Entities : \A i \in 1..Len(k[p]) : Has(r, k[p][i]) =>
    /\ r[k[p][i]].parent = p
    /\ r[k[p][i]].prev = IF i = 1 THEN Null ELSE k[p][i - 1]
    /\ r[k[p][i]].next = IF i = Len(k[p]) THEN Null ELSE k[p][i + 1]

(* A member of a list, by its place.                                       *)
LEMMA MemberAt ==
  ASSUME NEW r, NEW k, Members(r, k), NEW q \in Entities, NEW y \in 1 .. Len(k[q]), NEW x, x = k[q][y], Has(r, x)
  PROVE  /\ r[x].parent = q
         /\ r[x].prev = IF y = 1 THEN Null ELSE k[q][y - 1]
         /\ r[x].next = IF y = Len(k[q]) THEN Null ELSE k[q][y + 1]
BY DEF Members

(* Who is in no list is linked to nobody.                                  *)
Loners(r, k) ==
  \A x \in Entities : Has(r, x) /\ ~Listed(k, x) =>
    r[x].parent = Null /\ r[x].prev = Null /\ r[x].next = Null

(* The root is valid and nobody's child, and a valid child has a           *)
(* component.                                                              *)
Living(r, k, live) ==
  /\ Root \in live
  /\ ~Listed(k, Root)
  /\ \A x \in live : Listed(k, x) => Has(r, x)

(* The lists k explain the registry r.                                     *)
Tree(r, k, live) ==
  Lists(r, k) /\ Heads(r, k) /\ Members(r, k) /\ Loners(r, k) /\ Living(r, k, live)

(* Nobody who was destroyed is still listed.                               *)
Complete(r, k) == \A x : Listed(k, x) => Has(r, x)

(* The types of a list.                                                    *)
LEMMA ListsOf ==
  ASSUME NEW r, NEW k, Lists(r, k), NEW p \in Entities
  PROVE  /\ k[p] \in Seq(Entities)
         /\ Len(k[p]) \in Nat
         /\ DOMAIN k[p] = 1..Len(k[p])
         /\ \A i \in 1..Len(k[p]) : k[p][i] \in Entities /\ k[p][i] # Null
<1>1. k[p] \in Seq(Entities)
  BY DEF Lists
<1>2. PICK w : w = k[p]
  OBVIOUS
<1>3. /\ Len(w) \in Nat
      /\ DOMAIN w = 1..Len(w)
      /\ \A i \in 1..Len(w) : w[i] \in Entities
  BY <1>1, <1>2
<1> QED
  BY <1>1, <1>2, <1>3, NullAssumption

(* The chain of a parent leads along its list, up to the first destroyed   *)
(* child.                                                                  *)
LEMMA Led ==
  ASSUME NEW r, NEW k, Lists(r, k), Heads(r, k), Members(r, k), NEW p, Has(r, p)
  PROVE  /\ Leads(r, p, k[p])
         /\ Broken(r, p) \/ /\ \A i \in 1..Len(k[p]) : Has(r, k[p][i])
                            /\ Children(r, p) = k[p]
                            /\ ~SelfLinked(r, p)
         /\ \A i \in 1..Len(Children(r, p)) : \E j \in 1..Len(k[p]) : Children(r, p)[i] = k[p][j]
         /\ (\A i \in 1..Len(k[p]) : Has(r, k[p][i])) => ~Broken(r, p)
<1>0. p \in Entities /\ Typed(r)
  BY DEF Has, Lists
<1>1. /\ k[p] \in Seq(Entities)
      /\ DOMAIN k[p] = 1..Len(k[p])
  BY <1>0, ListsOf
<1>2. Distinct(k[p])
  BY <1>0, <1>1 DEF Distinct, Lists
<1>3. Leads(r, p, k[p])
  BY <1>0, <1>1, <1>2 DEF Leads, Heads, Members
<1> QED
  BY <1>0, <1>1, <1>3, LedChildren

(* get_or_emplace leaves the lists as they are.                            *)
LEMMA TreeWithComponent ==
  ASSUME NEW r, NEW k, NEW live \in SUBSET Entities, Tree(r, k, live), NEW e \in live,
         NEW s, WithComponentAs(r, s, e)
  PROVE  Tree(s, k, live)
<1>0. Lists(r, k) /\ Heads(r, k) /\ Members(r, k) /\ Loners(r, k) /\ Living(r, k, live)
  BY DEF Tree
<1>1. /\ Typed(s)
      /\ \A x \in Entities : Has(s, x) <=> Has(r, x) \/ x = e
      /\ \A x \in Entities : Has(s, x) => s[x] = Base(r, x)
  BY DEF WithComponentAs
<1>2. Lists(s, k)
  BY <1>0, <1>1 DEF Lists
<1>3. Heads(s, k)
  BY <1>0, <1>1, SMTT(60) DEF Heads, Base, Lists, RelationOf
<1>4. \A p \in Entities : \A i \in 1..Len(k[p]) :
        Has(s, k[p][i]) => Has(r, k[p][i]) /\ s[k[p][i]] = r[k[p][i]]
  <2> SUFFICES ASSUME NEW p \in Entities, NEW i \in 1..Len(k[p]), Has(s, k[p][i])
               PROVE  Has(r, k[p][i]) /\ s[k[p][i]] = r[k[p][i]]
    OBVIOUS
  <2>1. k[p][i] \in Entities /\ Listed(k, k[p][i])
    BY <1>0, ListsOf DEF Listed
  <2>2. Has(r, k[p][i])
    BY <1>0, <1>1, <2>1 DEF Living
  <2> QED
    BY <1>1, <2>1, <2>2 DEF Base
<1>5. Members(s, k)
  BY <1>0, <1>4 DEF Members
<1>6. Loners(s, k)
  <2> SUFFICES ASSUME NEW x \in Entities, Has(s, x), ~Listed(k, x)
               PROVE  s[x].parent = Null /\ s[x].prev = Null /\ s[x].next = Null
    BY DEF Loners
  <2>1. s[x] = Base(r, x)
    BY <1>1
  <2> QED
    BY <1>0, <2>1 DEF Loners, Base, RelationOf
<1>7. Living(s, k, live)
  BY <1>0, <1>1 DEF Living
<1> QED
  BY <1>2, <1>3, <1>5, <1>6, <1>7 DEF Tree

(* Nothing is taken out of a list without x.                               *)
LEMMA WithoutNone ==
  ASSUME NEW S, NEW list \in Seq(S), NEW x, \A i \in 1..Len(list) : list[i] # x
  PROVE  Forest!Without(list, x) = list
<1>1. DOMAIN list = 1..Len(list)
  OBVIOUS
<1>2. x \notin Forest!ToSet(list)
  BY <1>1 DEF Forest!ToSet
<1> QED
  BY <1>2 DEF Forest!Without

(* s is list without its i-th element. *)
Shorter(list, s, S, i) ==
  /\ s \in Seq(S)
  /\ Len(list) - 1 \in Nat
  /\ Len(s) = Len(list) - 1
  /\ \A j \in 1..Len(list) - 1 : s[j] = list[IF j < i THEN j ELSE j + 1]

(* Without takes out the one place of an element.                          *)
LEMMA WithoutOne ==
  ASSUME NEW S, NEW list \in Seq(S), NEW i \in 1..Len(list),
         \A a, b \in 1..Len(list) : list[a] = list[b] => a = b
  PROVE  Shorter(list, Forest!Without(list, list[i]), S, i)
<1>0. PICK x : x = list[i]
  OBVIOUS
<1>1. /\ DOMAIN list = 1..Len(list)
      /\ Len(list) \in Nat
      /\ \A j \in 1..Len(list) : list[j] \in S
  OBVIOUS
<1>2. (CHOOSE n \in DOMAIN list : list[n] = x) = i
  BY <1>0, <1>1
<1>3. x \in Forest!ToSet(list)
  BY <1>0, <1>1 DEF Forest!ToSet
<1>4. Forest!Without(list, x) = [j \in 1..Len(list) - 1 |-> list[IF j < i THEN j ELSE j + 1]]
  BY <1>2, <1>3 DEF Forest!Without
<1>5. PICK n \in Nat : n = Len(list) - 1
  <2>1. Len(list) - 1 \in Nat
    BY <1>1
  <2> QED
    BY <2>1
<1>6. \A j \in 1..n : (IF j < i THEN j ELSE j + 1) \in 1..Len(list)
  BY <1>1, <1>5
<1> DEFINE f == [j \in 1..n |-> list[IF j < i THEN j ELSE j + 1]]
<1>7. f \in [1..n -> S]
  BY <1>1, <1>6
<1>8. f \in Seq(S) /\ Len(f) = n /\ \A j \in 1..n : f[j] = list[IF j < i THEN j ELSE j + 1]
  BY <1>5, <1>7, SeqDef
<1> HIDE DEF f
<1>9. Forest!Without(list, x) = f
  BY <1>4, <1>5 DEF f
<1> QED
  BY <1>0, <1>5, <1>8, <1>9 DEF Shorter

(* The lists without x.                                                    *)
Detach(k, x) == [p \in Entities |-> Forest!Without(k[p], x)]

(* m is k without the i-th child of q. *)
Shortened(k, m, q, i) ==
  /\ \A p \in Entities : p # q => m[p] = k[p]
  /\ Len(k[q]) - 1 \in Nat
  /\ Len(m[q]) = Len(k[q]) - 1
  /\ \A j \in 1..Len(k[q]) - 1 : m[q][j] = k[q][IF j < i THEN j ELSE j + 1]
  /\ m \in [Entities -> Seq(Entities)]
  /\ \A p, o \in Entities : \A a \in 1..Len(m[p]), b \in 1..Len(m[o]) :
       m[p][a] = m[o][b] => p = o /\ a = b
  /\ \A y : Listed(m, y) <=> Listed(k, y) /\ y # k[q][i]

(* The lists after a child left its list.                                  *)
LEMMA ListsDetached ==
  ASSUME NEW r, NEW k, Lists(r, k), NEW q \in Entities, NEW i \in 1..Len(k[q])
  PROVE  Shortened(k, Detach(k, k[q][i]), q, i)
<1>0. PICK x, m : x = k[q][i] /\ m = Detach(k, x)
  OBVIOUS
<1>1. /\ \A p \in Entities : k[p] \in Seq(Entities) /\ Len(k[p]) \in Nat
      /\ \A p, o \in Entities : \A a \in 1..Len(k[p]), b \in 1..Len(k[o]) :
           k[p][a] = k[o][b] => p = o /\ a = b
  <2>1. \A p \in Entities : k[p] \in Seq(Entities) /\ Len(k[p]) \in Nat
    BY ListsOf
  <2> QED
    BY <2>1 DEF Lists
<1>2. \A p \in Entities : m[p] = Forest!Without(k[p], x)
  BY <1>0 DEF Detach
<1>3. ASSUME NEW p \in Entities, p # q PROVE m[p] = k[p]
  <2>1. \A a \in 1..Len(k[p]) : k[p][a] # x
    BY <1>0, <1>1, <1>3
  <2>3. Forest!Without(k[p], x) = k[p]
    <3>1. k[p] \in Seq(Entities)
      BY <1>1
    <3> QED
      BY <2>1, <3>1, WithoutNone
  <2> QED
    BY <1>2, <2>3
<1>4. /\ m[q] \in Seq(Entities)
      /\ Len(m[q]) = Len(k[q]) - 1
      /\ Len(k[q]) - 1 \in Nat
      /\ \A j \in 1..Len(k[q]) - 1 : m[q][j] = k[q][IF j < i THEN j ELSE j + 1]
  <2>1. \A a, b \in 1..Len(k[q]) : k[q][a] = k[q][b] => a = b
    BY <1>1
  <2>2. Shorter(k[q], Forest!Without(k[q], k[q][i]), Entities, i)
    BY <1>1, <2>1, WithoutOne
  <2>3. Shorter(k[q], m[q], Entities, i)
    BY <1>0, <1>2, <2>2
  <2> QED
    BY <2>3 DEF Shorter
<1>5. PICK n \in Nat : n = Len(k[q]) /\ n - 1 \in Nat /\ Len(m[q]) = n - 1 /\ i \in 1..n
  BY <1>1, <1>4
<1>6. \A j \in 1..n - 1 : (IF j < i THEN j ELSE j + 1) \in 1..n /\ (IF j < i THEN j ELSE j + 1) # i
  BY <1>5
<1>7. m \in [Entities -> Seq(Entities)]
  <2>1. \A p \in Entities : m[p] \in Seq(Entities)
    BY <1>1, <1>3, <1>4
  <2>2. m = [p \in Entities |-> m[p]]
    BY <1>0 DEF Detach
  <2> QED
    BY <2>1, <2>2
<1>8. ASSUME NEW p \in Entities, NEW o \in Entities, NEW a \in 1..Len(m[p]), NEW b \in 1..Len(m[o]),
             m[p][a] = m[o][b]
      PROVE  p = o /\ a = b
  <2>1. CASE p # q /\ o # q
    BY <1>1, <1>3, <1>8, <2>1, SMTT(60)
  <2>2. CASE p = q /\ o # q
    <3>1. PICK c \in 1..n : m[p][a] = k[q][c]
      BY <1>4, <1>5, <1>6, <2>2
    <3>2. m[o] = k[o] /\ k[q][c] = k[o][b] /\ b \in 1..Len(k[o]) /\ c \in 1..Len(k[q])
      BY <1>3, <1>5, <1>8, <2>2, <3>1
    <3> QED
      BY <1>1, <2>2, <3>2
  <2>3. CASE p # q /\ o = q
    <3>1. PICK c \in 1..n : m[o][b] = k[q][c]
      BY <1>4, <1>5, <1>6, <2>3
    <3>2. m[p] = k[p] /\ k[q][c] = k[p][a] /\ a \in 1..Len(k[p]) /\ c \in 1..Len(k[q])
      BY <1>3, <1>5, <1>8, <2>3, <3>1
    <3> QED
      BY <1>1, <2>3, <3>2
  <2>4. CASE p = q /\ o = q
    <3>1. a \in 1..n - 1 /\ b \in 1..n - 1
      BY <1>5, <2>4
    <3>2. k[q][IF a < i THEN a ELSE a + 1] = k[q][IF b < i THEN b ELSE b + 1]
      BY <1>4, <1>5, <1>8, <2>4, <3>1
    <3>3. (IF a < i THEN a ELSE a + 1) = (IF b < i THEN b ELSE b + 1)
      BY <1>1, <1>5, <1>6, <3>1, <3>2, SMTT(60)
    <3> QED
      BY <1>5, <2>4, <3>1, <3>3
  <2> QED
    BY <2>1, <2>2, <2>3, <2>4
<1>9. ASSUME NEW y PROVE Listed(m, y) <=> Listed(k, y) /\ y # x
  <2>1. ASSUME Listed(m, y) PROVE Listed(k, y) /\ y # x
    <3>0. PICK p \in Entities : \E a \in 1..Len(m[p]) : m[p][a] = y
      BY <2>1 DEF Listed
    <3>1. PICK a \in 1..Len(m[p]) : m[p][a] = y
      BY <3>0
    <3>2. CASE p # q
      BY <1>0, <1>1, <1>3, <3>1, <3>2, SMTT(30), ZenonT(30) DEF Listed
    <3>3. CASE p = q
      <4>1. a \in 1..n - 1
        BY <1>5, <3>3
      <4>2. PICK c \in 1..n : c # i /\ k[q][c] = y
        BY <1>4, <1>5, <1>6, <3>1, <3>3, <4>1
      <4> QED
        BY <1>0, <1>1, <1>5, <4>2 DEF Listed
    <3> QED
      BY <3>2, <3>3
  <2>2. ASSUME Listed(k, y), y # x PROVE Listed(m, y)
    <3>0. PICK p \in Entities : \E a \in 1..Len(k[p]) : k[p][a] = y
      BY <2>2 DEF Listed
    <3>1. PICK a \in 1..Len(k[p]) : k[p][a] = y
      BY <3>0
    <3>2. CASE p # q
      BY <1>3, <3>1, <3>2 DEF Listed
    <3>3. CASE p = q
      <4>1. a \in 1..n /\ a # i
        BY <1>0, <1>5, <2>2, <3>1, <3>3
      <4>2. PICK j \in 1..n - 1 : (IF j < i THEN j ELSE j + 1) = a
        <5>1. CASE a < i
          <6>1. a \in 1..n - 1
            BY <1>5, <4>1, <5>1
          <6> QED
            BY <5>1, <6>1
        <5>2. CASE a > i
          <6>1. a - 1 \in 1..n - 1 /\ ~(a - 1 < i) /\ a - 1 + 1 = a
            BY <1>5, <4>1, <5>2
          <6> QED
            BY <6>1
        <5> QED
          BY <1>5, <4>1, <5>1, <5>2
      <4>3. m[q][j] = y /\ j \in 1..Len(m[q])
        BY <1>4, <1>5, <3>1, <3>3, <4>2
      <4> QED
        BY <4>3 DEF Listed
    <3> QED
      BY <3>2, <3>3
  <2> QED
    BY <2>1, <2>2
<1> QED
  BY <1>0, <1>3, <1>4, <1>7, <1>8, <1>9 DEF Shortened

(* An entity that is in no list leaves none.                               *)
LEMMA DetachNone ==
  ASSUME NEW r, NEW k, Lists(r, k), NEW x, ~Listed(k, x)
  PROVE  Detach(k, x) = k
<1>1. ASSUME NEW p \in Entities PROVE Forest!Without(k[p], x) = k[p]
  <2>1. k[p] \in Seq(Entities)
    BY ListsOf
  <2>2. \A i \in 1..Len(k[p]) : k[p][i] # x
    BY DEF Listed
  <2> QED
    BY <2>1, <2>2, WithoutNone
<1>2. k \in [Entities -> Seq(Entities)]
  BY DEF Lists
<1> QED
  BY <1>1, <1>2 DEF Detach

(* Where an entity with a parent stands. *)
LEMMA PlaceOf ==
  ASSUME NEW r, NEW k, NEW live, Tree(r, k, live), NEW x
  PROVE  /\ ParentOf(r, x) # Null =>
              /\ ParentOf(r, x) \in Entities
              /\ Has(r, ParentOf(r, x))
              /\ \E i \in 1..Len(k[ParentOf(r, x)]) : k[ParentOf(r, x)][i] = x
         /\ Listed(k, x) /\ Has(r, x) => ParentOf(r, x) # Null
         /\ \A p \in Entities : \A i \in 1..Len(k[p]) :
              k[p][i] = x /\ Has(r, x) => ParentOf(r, x) = p
<1>1. Lists(r, k) /\ Members(r, k) /\ Loners(r, k)
  BY DEF Tree
<1>2. \A p \in Entities : \A i \in 1..Len(k[p]) : k[p][i] = x /\ Has(r, x) => ParentOf(r, x) = p
  BY <1>1 DEF Members, ParentOf
<1>3. Listed(k, x) /\ Has(r, x) => ParentOf(r, x) # Null
  BY <1>2, NullAssumption DEF Listed
<1>4. ASSUME ParentOf(r, x) # Null
      PROVE  /\ ParentOf(r, x) \in Entities
             /\ Has(r, ParentOf(r, x))
             /\ \E i \in 1..Len(k[ParentOf(r, x)]) : k[ParentOf(r, x)][i] = x
  <2>1. Has(r, x) /\ x \in Entities /\ r[x].parent = ParentOf(r, x)
    BY <1>4 DEF ParentOf, Has
  <2>2. Listed(k, x)
    BY <1>1, <1>4, <2>1 DEF Loners
  <2>3. PICK p \in Entities : \E i \in 1..Len(k[p]) : k[p][i] = x
    BY <2>2 DEF Listed
  <2>4. PICK i \in 1..Len(k[p]) : k[p][i] = x
    BY <2>3
  <2>5. ParentOf(r, x) = p
    BY <1>2, <2>1, <2>4
  <2>6. Has(r, p)
    <3>1. Len(k[p]) \in Nat
      BY <1>1, ListsOf
    <3>2. Len(k[p]) # 0
      BY <3>1
    <3> QED
      BY <1>1, <3>2 DEF Lists
  <2> QED
    BY <2>4, <2>5, <2>6
<1> QED
  BY <1>2, <1>3, <1>4

(* remove_child for the first or the last child of a list.                 *)
LEMMA TreeDetached ==
  ASSUME NEW r, NEW k, NEW live \in SUBSET Entities, Tree(r, k, live), NEW child,
         ParentOf(r, child) # Null, NEW q, q = ParentOf(r, child),
         r[child].prev = Null \/ r[child].next = Null,
         NEW s, RemovedAs(r, s, q, child)
  PROVE  Tree(s, Detach(k, child), live)
<1>1. Lists(r, k) /\ Heads(r, k) /\ Members(r, k) /\ Loners(r, k) /\ Living(r, k, live)
  BY DEF Tree
<1>2. /\ q \in Entities /\ Has(r, q)
      /\ \E i \in 1..Len(k[q]) : k[q][i] = child
  BY PlaceOf
<1>3. PICK i \in 1..Len(k[q]) : k[q][i] = child
  BY <1>2
<1>4. PICK m : m = Detach(k, child)
  OBVIOUS
<1>5. /\ \A p \in Entities : p # q => m[p] = k[p]
      /\ Len(k[q]) - 1 \in Nat
      /\ Len(m[q]) = Len(k[q]) - 1
      /\ \A j \in 1..Len(k[q]) - 1 : m[q][j] = k[q][IF j < i THEN j ELSE j + 1]
      /\ m \in [Entities -> Seq(Entities)]
      /\ \A p, o \in Entities : \A a \in 1..Len(m[p]), b \in 1..Len(m[o]) :
           m[p][a] = m[o][b] => p = o /\ a = b
      /\ \A y : Listed(m, y) <=> Listed(k, y) /\ y # child
  <2>1. Lists(r, k)
    BY <1>1
  <2>2. Shortened(k, Detach(k, k[q][i]), q, i)
    BY <1>2, <2>1, ListsDetached
  <2>3. Shortened(k, m, q, i)
    BY <1>3, <1>4, <2>2
  <2> QED
    BY <1>3, <2>3 DEF Shortened
<1>6. PICK n \in Nat : n = Len(k[q]) /\ n - 1 \in Nat /\ i \in 1..n
  <2>1. Len(k[q]) \in Nat
    BY <1>1, <1>2, ListsOf
  <2> QED
    BY <1>5, <2>1
<1>18. n \in Nat /\ i \in 1..n /\ n - 1 \in Nat
  BY <1>6
<1>19. /\ Len(m[q]) = n - 1
       /\ \A j \in 1..n - 1 : m[q][j] = k[q][IF j < i THEN j ELSE j + 1]
  BY <1>5, <1>6
<1>7. \A p \in Entities : \A j \in 1..Len(k[p]) : k[p][j] \in Entities /\ k[p][j] # Null
  BY <1>1, ListsOf
<1>8. \A p, o \in Entities : \A a \in 1..Len(k[p]), b \in 1..Len(k[o]) :
        k[p][a] = k[o][b] => p = o /\ a = b
  BY <1>1 DEF Lists
<1>9. PICK c : c = r[child]
  OBVIOUS
<1>10. /\ Has(r, child)
       /\ c.prev = IF i = 1 THEN Null ELSE k[q][i - 1]
       /\ c.next = IF i = n THEN Null ELSE k[q][i + 1]
  <2>1. Has(r, child)
    BY DEF ParentOf
  <2> QED
    BY <1>1, <1>2, <1>3, <1>6, <1>9, <2>1 DEF Members
<1>11. i = 1 \/ i = n
  <2>1. i # 1 => i - 1 \in 1..Len(k[q])
    BY <1>6
  <2>2. i # n => i + 1 \in 1..Len(k[q])
    BY <1>6
  <2> QED
    BY <1>2, <1>7, <1>9, <1>10, <2>1, <2>2
<1>12. /\ Typed(s)
       /\ \A x \in Entities : Has(s, x) <=> Has(r, x)
       /\ \A x \in Entities : Has(r, x) =>
            /\ s[x].child_count = IF x = q THEN r[x].child_count - 1 ELSE r[x].child_count
            /\ s[x].parent = IF x = child THEN Null ELSE r[x].parent
            /\ s[x].first = IF x = q /\ r[x].first = child THEN c.next ELSE r[x].first
            /\ s[x].prev = IF x = child \/ (c.prev = Null /\ x = c.next)
                           THEN Null ELSE r[x].prev
            /\ s[x].next = IF x = child THEN Null
                           ELSE IF x = c.prev THEN c.next ELSE r[x].next
  BY <1>9 DEF RemovedAs
<1>13. Lists(s, m)
  <2>1. \A p \in Entities : Len(m[p]) # 0 => Has(s, p)
    BY <1>1, <1>2, <1>5, <1>12 DEF Lists
  <2> QED
    BY <1>5, <1>12, <2>1 DEF Lists
<1>14. Heads(s, m)
  <2> SUFFICES ASSUME NEW p \in Entities, Has(s, p)
               PROVE  /\ s[p].first = IF Len(m[p]) = 0 THEN Null ELSE m[p][1]
                      /\ s[p].child_count = Len(m[p])
    BY DEF Heads
  <2>1. /\ Has(r, p)
        /\ r[p].first = IF Len(k[p]) = 0 THEN Null ELSE k[p][1]
        /\ r[p].child_count = Len(k[p])
    BY <1>1, <1>12 DEF Heads
  <2>2. CASE p # q
    BY <1>5, <1>12, <2>1, <2>2
  <2>3. CASE p = q
    <3>1. s[p].child_count = Len(m[p])
      BY ONLY <1>5, <1>12, <2>1, <2>3, SMTT(30), ZenonT(60)
    <3>2. r[p].first = k[q][1] /\ 1 \in 1..Len(k[q])
      BY <1>6, <2>1, <2>3
    <3>3. CASE i = 1
      <4>1. s[p].first = c.next
        BY <1>3, <1>12, <2>1, <2>3, <3>2, <3>3
      <4>2. CASE n = 1
        BY <1>10, <1>18, <1>19, <2>3, <3>1, <3>3, <4>1, <4>2
      <4>3. CASE n # 1
        <5>1. Len(m[q]) # 0 /\ m[q][1] = k[q][2]
          <6>1. 1 \in 1..n - 1
            BY <1>18, <4>3
          <6>2. m[q][1] = k[q][IF 1 < i THEN 1 ELSE 1 + 1]
            BY <1>19, <6>1
          <6> QED
            BY <1>18, <1>19, <3>3, <4>3, <6>2
        <5> QED
          BY <1>10, <2>3, <3>1, <3>3, <4>1, <4>3, <5>1
      <4> QED
        BY <3>1, <4>2, <4>3
    <3>4. CASE i # 1
      <4>1. k[q][1] # child
        BY <1>2, <1>3, <1>8, <3>2, <3>4
      <4>2. s[p].first = k[q][1]
        BY <1>12, <2>1, <3>2, <4>1
      <4>3. 1 \in 1..n - 1 /\ 1 < i /\ n - 1 # 0
        BY <1>18, <3>4
      <4>4. m[q][1] = k[q][1] /\ Len(m[q]) # 0
        BY <1>19, <4>3
      <4> QED
        BY <2>3, <3>1, <4>2, <4>4
    <3> QED
      BY <3>3, <3>4
  <2> QED
    BY <2>2, <2>3
<1>15. Members(s, m)
  <2> SUFFICES ASSUME NEW p \in Entities, NEW j \in 1..Len(m[p]), Has(s, m[p][j])
               PROVE  /\ s[m[p][j]].parent = p
                      /\ s[m[p][j]].prev = IF j = 1 THEN Null ELSE m[p][j - 1]
                      /\ s[m[p][j]].next = IF j = Len(m[p]) THEN Null ELSE m[p][j + 1]
    BY DEF Members
  <2>1. CASE p # q
    <3>1. PICK x : x = k[p][j]
      OBVIOUS
    <3>2. /\ m[p] = k[p] /\ j \in 1..Len(k[p])
          /\ x \in Entities /\ Has(r, x) /\ m[p][j] = x
      BY <1>5, <1>7, <1>12, <2>1, <3>1
    <3>3. x # child /\ x # c.prev /\ x # c.next
      <4>1. i # 1 => i - 1 \in 1..Len(k[q])
        BY <1>6
      <4>2. i # n => i + 1 \in 1..Len(k[q])
        BY <1>6
      <4> QED
        BY <1>2, <1>3, <1>7, <1>8, <1>10, <2>1, <3>1, <3>2, <4>1, <4>2
    <3>4. /\ r[x].parent = p
          /\ r[x].prev = IF j = 1 THEN Null ELSE k[p][j - 1]
          /\ r[x].next = IF j = Len(k[p]) THEN Null ELSE k[p][j + 1]
      BY <1>1, <3>1, <3>2 DEF Members
    <3> QED
      BY <1>12, <3>2, <3>3, <3>4
  <2>2. CASE p = q /\ i = 1
    <3>1. PICK x : x = k[q][j + 1]
      OBVIOUS
    <3>0. j \in 1..n - 1
      BY <1>19, <2>2
    <3>2. /\ j \in 1..n - 1 /\ j + 1 \in 1..n /\ j \in 1..n /\ Len(m[q]) = n - 1 /\ ~(j < i)
          /\ j + 1 # 1 /\ j + 1 - 1 = j /\ j + 1 + 1 = j + 2
      BY <1>18, <1>19, <2>2, <3>0, SMTT(30), ZenonT(30)
    <3>3. m[q][j] = x
      BY <1>19, <3>1, <3>2
    <3>4. x \in Entities /\ Has(r, x) /\ x # child /\ x # Null
      BY <1>2, <1>3, <1>6, <1>7, <1>8, <1>12, <2>2, <3>1, <3>2, <3>3
    <3>5. /\ r[x].parent = q
          /\ r[x].prev = k[q][j]
          /\ r[x].next = IF j + 1 = n THEN Null ELSE k[q][j + 2]
      <4> PICK y : y = j + 1
        OBVIOUS
      <4>1. y \in 1 .. Len(k[q]) /\ q \in Entities /\ x = k[q][y] /\ Has(r, x) /\ Members(r, k)
        BY <1>1, <1>2, <1>6, <3>1, <3>2, <3>4
      <4>2. /\ r[x].parent = q
            /\ r[x].prev = IF y = 1 THEN Null ELSE k[q][y - 1]
            /\ r[x].next = IF y = Len(k[q]) THEN Null ELSE k[q][y + 1]
        BY ONLY <4>1, MemberAt
      <4>3. y - 1 = j /\ y + 1 = j + 2 /\ y # 1 /\ (y = Len(k[q]) <=> j + 1 = n)
        BY <1>6, <3>2
      <4> QED
        BY ONLY <4>2, <4>3
    <3>6. c.prev = Null
      BY <1>10, <2>2
    <3>7. s[x].parent = q /\ s[x].next = r[x].next
      BY <1>12, <3>4, <3>5, <3>6
    <3>8. s[x].next = IF j = Len(m[q]) THEN Null ELSE m[q][j + 1]
      <4>1. CASE j = Len(m[q])
        BY <1>6, <3>2, <3>5, <3>7, <4>1
      <4>2. CASE j # Len(m[q])
        <5>1. j + 1 \in 1..n - 1 /\ ~(j + 1 < i) /\ j + 1 + 1 = j + 2 /\ j + 1 # n
          BY <1>18, <2>2, <3>0, <3>2, <4>2
        <5>2. m[q][j + 1] = k[q][j + 2]
          BY <1>19, <5>1
        <5> QED
          BY <3>5, <3>7, <4>2, <5>1, <5>2
      <4> QED
        BY <4>1, <4>2
    <3>9. s[x].prev = IF j = 1 THEN Null ELSE m[q][j - 1]
      <4>1. CASE j = 1
        <5>1. i # n /\ c.next = k[q][2] /\ x = k[q][2]
          BY <1>6, <1>10, <2>2, <3>1, <3>2, <4>1
        <5> QED
          BY <1>12, <3>4, <3>6, <4>1, <5>1
      <4>2. CASE j # 1
        <5>1. j - 1 \in 1..n - 1 /\ ~(j - 1 < i) /\ j - 1 + 1 = j /\ j + 1 # 2
          BY <1>18, <2>2, <3>0, <4>2
        <5>2. m[q][j - 1] = k[q][j]
          BY <1>19, <5>1
        <5>3. x # c.next
          <6>1. CASE i = n
            BY <1>10, <3>4, <6>1
          <6>2. CASE i # n
            <7>0. 2 \in 1..n
              BY <1>18, <2>2, <6>2
            <7>1. c.next = k[q][2] /\ 2 \in 1..n
              BY <1>10, <2>2, <6>2, <7>0
            <7> QED
              BY <1>2, <1>6, <1>8, <3>1, <3>2, <5>1, <7>1
          <6> QED
            BY <6>1, <6>2
        <5> QED
          BY <1>12, <3>4, <3>5, <4>2, <5>2, <5>3
      <4> QED
        BY <4>1, <4>2
    <3> QED
      BY <2>2, <3>3, <3>7, <3>8, <3>9
  <2>3. CASE p = q /\ i = n /\ i # 1
    <3>1. PICK x : x = k[q][j]
      OBVIOUS
    <3>2. j \in 1..n - 1 /\ j \in 1..n /\ Len(m[q]) = n - 1 /\ j < i /\ j # n
      BY <1>5, <1>6, <2>3
    <3>3. m[q][j] = x
      BY <1>5, <1>6, <3>1, <3>2
    <3>4. x \in Entities /\ Has(r, x) /\ x # child /\ x # Null
      BY <1>2, <1>3, <1>6, <1>7, <1>8, <1>12, <2>3, <3>1, <3>2, <3>3, SMTT(30), ZenonT(30)
    <3>5. /\ r[x].parent = q
          /\ r[x].prev = IF j = 1 THEN Null ELSE k[q][j - 1]
          /\ r[x].next = k[q][j + 1]
      <4> PICK y : y = j
        OBVIOUS
      <4>1. y \in 1 .. Len(k[q]) /\ q \in Entities /\ x = k[q][y] /\ Has(r, x) /\ Members(r, k)
        BY <1>1, <1>2, <1>6, <3>1, <3>2, <3>4
      <4>2. /\ r[x].parent = q
            /\ r[x].prev = IF y = 1 THEN Null ELSE k[q][y - 1]
            /\ r[x].next = IF y = Len(k[q]) THEN Null ELSE k[q][y + 1]
        BY ONLY <4>1, MemberAt
      <4>3. y # Len(k[q]) /\ y = j
        BY <1>6, <3>2
      <4> QED
        BY ONLY <4>2, <4>3
    <3>6. c.next = Null /\ c.prev = k[q][n - 1] /\ n - 1 \in 1..n
      <4>1. n - 1 \in 1..n
        BY <1>18, <2>3
      <4> QED
        BY <1>10, <2>3, <4>1
    <3>7. s[x].parent = q /\ s[x].prev = r[x].prev
      BY <1>12, <3>4, <3>5, <3>6
    <3>8. s[x].prev = IF j = 1 THEN Null ELSE m[q][j - 1]
      <4>1. CASE j = 1
        BY <3>5, <3>7, <4>1
      <4>2. CASE j # 1
        <5>1. j - 1 \in 1..n - 1 /\ j - 1 < i
          BY <1>6, <3>2, <4>2
        <5>2. m[q][j - 1] = k[q][j - 1]
          BY <1>5, <1>6, <5>1
        <5> QED
          BY <3>5, <3>7, <4>2, <5>2
      <4> QED
        BY <4>1, <4>2
    <3>9. s[x].next = IF j = Len(m[q]) THEN Null ELSE m[q][j + 1]
      <4>1. CASE j = Len(m[q])
        <5>1. x = c.prev
          BY <3>1, <3>2, <3>6, <4>1
        <5> QED
          BY <1>12, <3>4, <3>6, <4>1, <5>1
      <4>2. CASE j # Len(m[q])
        <5>1. j + 1 \in 1..n - 1 /\ j + 1 < i /\ j # n - 1
          BY <1>6, <2>3, <3>2, <4>2
        <5>2. m[q][j + 1] = k[q][j + 1]
          BY <1>5, <1>6, <5>1
        <5>3. x # c.prev
          BY <1>2, <1>6, <1>8, <3>1, <3>2, <3>6, <5>1
        <5> QED
          BY <1>12, <3>4, <3>5, <4>2, <5>2, <5>3
      <4> QED
        BY <4>1, <4>2
    <3> QED
      BY <2>3, <3>3, <3>7, <3>8, <3>9
  <2> QED
    BY <1>11, <2>1, <2>2, <2>3
<1>16. Loners(s, m)
  <2> SUFFICES ASSUME NEW x \in Entities, Has(s, x), ~Listed(m, x)
               PROVE  s[x].parent = Null /\ s[x].prev = Null /\ s[x].next = Null
    BY DEF Loners
  <2>1. Has(r, x)
    BY <1>12
  <2>2. CASE x = child
    BY <1>12, <2>1, <2>2
  <2>3. CASE x # child
    <3>1. ~Listed(k, x)
      BY <1>5, <2>3
    <3>2. r[x].parent = Null /\ r[x].prev = Null /\ r[x].next = Null
      BY <1>1, <2>1, <3>1 DEF Loners
    <3>3. x # c.prev
      <4>1. CASE i = 1
        BY <1>10, <4>1, NullAssumption
      <4>2. CASE i # 1
        <5>1. i - 1 \in 1..Len(k[q])
          BY <1>6, <4>2
        <5>2. Listed(k, k[q][i - 1])
          BY <1>2, <5>1 DEF Listed
        <5> QED
          BY <1>10, <3>1, <4>2, <5>2
      <4> QED
        BY <4>1, <4>2
    <3> QED
      BY <1>12, <2>1, <2>3, <3>2, <3>3
  <2> QED
    BY <2>2, <2>3
<1>17. Living(s, m, live)
  BY <1>1, <1>5, <1>12 DEF Living
<1> QED
  BY <1>4, <1>13, <1>14, <1>15, <1>16, <1>17 DEF Tree

(* The lists with x as the last child of parent.                           *)
Attach(k, parent, x) == [k EXCEPT ![parent] = Append(@, x)]

(* m is k with x behind the last child of q. *)
Lengthened(k, m, q, x) ==
  /\ \A p \in Entities : p # q => m[p] = k[p]
  /\ Len(m[q]) = Len(k[q]) + 1
  /\ \A j \in 1..Len(k[q]) : m[q][j] = k[q][j]
  /\ m[q][Len(k[q]) + 1] = x
  /\ m \in [Entities -> Seq(Entities)]
  /\ \A p, o \in Entities : \A a \in 1..Len(m[p]), b \in 1..Len(m[o]) :
       m[p][a] = m[o][b] => p = o /\ a = b
  /\ \A y : Listed(m, y) <=> Listed(k, y) \/ y = x

(* The lists after a child joined one.                                     *)
LEMMA ListsAttached ==
  ASSUME NEW r, NEW k, Lists(r, k), NEW q \in Entities, NEW x \in Entities, ~Listed(k, x)
  PROVE  Lengthened(k, Attach(k, q, x), q, x)
<1>0. PICK m : m = Attach(k, q, x)
  OBVIOUS
<1>1. /\ \A p \in Entities : k[p] \in Seq(Entities) /\ Len(k[p]) \in Nat
      /\ \A p, o \in Entities : \A a \in 1..Len(k[p]), b \in 1..Len(k[o]) :
           k[p][a] = k[o][b] => p = o /\ a = b
      /\ k \in [Entities -> Seq(Entities)]
  <2>1. \A p \in Entities : k[p] \in Seq(Entities) /\ Len(k[p]) \in Nat
    BY ListsOf
  <2> QED
    BY <2>1 DEF Lists
<1>2. \A p \in Entities : p # q => m[p] = k[p]
  BY <1>0, <1>1 DEF Attach
<1>3. m[q] = Append(k[q], x)
  BY <1>0, <1>1 DEF Attach
<1>4. PICK n \in Nat : n = Len(k[q])
  BY <1>1
<1>5. /\ m[q] \in Seq(Entities)
      /\ Len(m[q]) = n + 1
      /\ \A j \in 1..n : m[q][j] = k[q][j]
      /\ m[q][n + 1] = x
  BY <1>1, <1>3, <1>4, AppendProperties
<1>6. m \in [Entities -> Seq(Entities)]
  <2>1. \A p \in Entities : m[p] \in Seq(Entities)
    BY <1>1, <1>2, <1>5
  <2>2. m = [p \in Entities |-> m[p]]
    BY <1>0, <1>1 DEF Attach
  <2> QED
    BY <2>1, <2>2
<1>7. \A p \in Entities : \A a \in 1..Len(m[p]) :
        \/ m[p][a] = x /\ p = q /\ a = n + 1
        \/ m[p][a] # x /\ a \in 1..Len(k[p]) /\ m[p][a] = k[p][a]
  <2> SUFFICES ASSUME NEW p \in Entities, NEW a \in 1..Len(m[p])
               PROVE  \/ m[p][a] = x /\ p = q /\ a = n + 1
                      \/ m[p][a] # x /\ a \in 1..Len(k[p]) /\ m[p][a] = k[p][a]
    OBVIOUS
  <2>1. CASE p # q
    <3>1. a \in 1..Len(k[p]) /\ m[p][a] = k[p][a]
      BY <1>2, <2>1
    <3> QED
      BY <3>1 DEF Listed
  <2>2. CASE p = q /\ a = n + 1
    BY <1>5, <2>2
  <2>3. CASE p = q /\ a # n + 1
    <3>1. a \in 1..n
      BY <1>4, <1>5, <2>3
    <3>2. a \in 1..Len(k[p]) /\ m[p][a] = k[p][a]
      BY <1>4, <1>5, <2>3, <3>1
    <3> QED
      BY <3>2 DEF Listed
  <2> QED
    BY <2>1, <2>2, <2>3
<1>8. ASSUME NEW p \in Entities, NEW o \in Entities, NEW a \in 1..Len(m[p]), NEW b \in 1..Len(m[o]),
             m[p][a] = m[o][b]
      PROVE  p = o /\ a = b
  <2>1. CASE m[p][a] = x
    <3>1. p = q /\ a = n + 1
      BY <1>7, <2>1
    <3>2. o = q /\ b = n + 1
      <4>1. m[o][b] = x
        BY <1>8, <2>1
      <4> QED
        BY <1>7, <4>1
    <3> QED
      BY <3>1, <3>2
  <2>2. CASE m[p][a] # x
    <3>1. a \in 1..Len(k[p]) /\ b \in 1..Len(k[o]) /\ k[p][a] = k[o][b]
      BY <1>7, <1>8, <2>2
    <3> QED
      BY <1>1, <3>1
  <2> QED
    BY <2>1, <2>2
<1>9. ASSUME NEW y PROVE Listed(m, y) <=> Listed(k, y) \/ y = x
  <2>1. ASSUME Listed(m, y) PROVE Listed(k, y) \/ y = x
    BY <1>7, <2>1 DEF Listed
  <2>2. ASSUME Listed(k, y) PROVE Listed(m, y)
    <3>0. PICK p \in Entities : \E a \in 1..Len(k[p]) : k[p][a] = y
      BY <2>2 DEF Listed
    <3>1. PICK a \in 1..Len(k[p]) : k[p][a] = y
      BY <3>0
    <3>2. CASE p # q
      BY <1>2, <3>1, <3>2 DEF Listed
    <3>3. CASE p = q
      <4>1. a \in 1..n + 1 /\ a \in 1..n
        BY <1>4, <3>3
      <4> QED
        BY <1>5, <3>1, <3>3, <4>1 DEF Listed
    <3> QED
      BY <3>2, <3>3
  <2>3. Listed(m, x)
    <3>1. n + 1 \in 1..n + 1
      BY <1>4
    <3> QED
      BY <1>5, <3>1 DEF Listed
  <2> QED
    BY <2>1, <2>2, <2>3
<1> QED
  BY <1>0, <1>2, <1>4, <1>5, <1>6, <1>8, <1>9 DEF Lengthened

(* The tail of add_child for an entity that is in no list.                 *)
LEMMA TreeLinked ==
  ASSUME NEW r, NEW k, NEW live \in SUBSET Entities, Tree(r, k, live), NEW child \in live,
         ~Listed(k, child), child # Root, NEW parent, Has(r, parent), child # parent,
         Len(k[parent]) # 0 => Last(Children(r, parent)) = k[parent][Len(k[parent])],
         NEW s, LinkedAs(r, s, parent, child)
  PROVE  Tree(s, Attach(k, parent, child), live)
<1>1. /\ Lists(r, k) /\ Typed(r) /\ Heads(r, k) /\ Members(r, k) /\ Loners(r, k)
      /\ Living(r, k, live)
  BY DEF Tree, Lists
<1>2. parent \in Entities /\ child \in Entities
  BY DEF Has
<1>3. PICK m, n : m = Attach(k, parent, child) /\ n = Len(k[parent])
  OBVIOUS
<1>4. Lengthened(k, m, parent, child)
  BY <1>1, <1>2, <1>3, ListsAttached
<1>5. /\ n \in Nat
      /\ Len(m[parent]) = n + 1
      /\ \A j \in 1..n : m[parent][j] = k[parent][j]
      /\ m[parent][n + 1] = child
  BY <1>1, <1>2, <1>3, <1>4, ListsOf DEF Lengthened
<1>6. /\ \A p \in Entities : p # parent => m[p] = k[p]
      /\ m \in [Entities -> Seq(Entities)]
      /\ \A p, o \in Entities : \A a \in 1..Len(m[p]), b \in 1..Len(m[o]) :
           m[p][a] = m[o][b] => p = o /\ a = b
      /\ \A y : Listed(m, y) <=> Listed(k, y) \/ y = child
  BY <1>4 DEF Lengthened
<1>7. PICK last : n # 0 => last = k[parent][n] /\ last = Last(Children(r, parent))
  BY <1>3
<1>8. r[parent].child_count = n
  BY <1>1, <1>2, <1>3 DEF Heads
<1>9. /\ Typed(s)
      /\ \A x \in Entities : Has(s, x) <=> Has(r, x) \/ x = child
      /\ \A x \in Entities : Has(s, x) =>
           /\ s[x].child_count = IF x = parent THEN n + 1 ELSE Base(r, x).child_count
           /\ s[x].parent = IF x = child THEN parent ELSE Base(r, x).parent
           /\ s[x].first = IF x = parent /\ n = 0 THEN child ELSE Base(r, x).first
           /\ s[x].prev = IF x = child /\ n # 0 THEN last ELSE Base(r, x).prev
           /\ s[x].next = IF x # child /\ n # 0 /\ x = last THEN child ELSE Base(r, x).next
  BY <1>7, <1>8 DEF LinkedAs
<1>10. \A p \in Entities : \A j \in 1..Len(k[p]) :
         k[p][j] \in Entities /\ k[p][j] # Null /\ Listed(k, k[p][j]) /\ k[p][j] # child
  BY <1>1, ListsOf DEF Listed
<1>11. \A p, o \in Entities : \A a \in 1..Len(k[p]), b \in 1..Len(k[o]) :
         k[p][a] = k[o][b] => p = o /\ a = b
  BY <1>1 DEF Lists
<1>12. Base(r, child).prev = Null /\ Base(r, child).next = Null
  <2>1. RelationOf(Null).prev = Null /\ RelationOf(Null).next = Null
    BY DEF RelationOf
  <2> QED
    BY <1>1, <1>2, <2>1 DEF Base, Loners
<1>13. Lists(s, m)
  <2>1. \A p \in Entities : Len(m[p]) # 0 => Has(s, p)
    BY <1>1, <1>2, <1>6, <1>9 DEF Lists
  <2> QED
    BY <1>6, <1>9, <2>1 DEF Lists
<1>14. Heads(s, m)
  <2> SUFFICES ASSUME NEW p \in Entities, Has(s, p)
               PROVE  /\ s[p].first = IF Len(m[p]) = 0 THEN Null ELSE m[p][1]
                      /\ s[p].child_count = Len(m[p])
    BY DEF Heads
  <2>1. CASE p = parent
    <3>1. s[p].child_count = Len(m[p]) /\ Len(m[p]) # 0
      BY <1>5, <1>9, <2>1
    <3>2. CASE n = 0
      <4>1. m[p][1] = child
        BY <1>5, <2>1, <3>2
      <4> QED
        BY <1>9, <2>1, <3>1, <3>2, <4>1
    <3>3. CASE n # 0
      <4>1. m[p][1] = k[p][1]
        BY <1>5, <2>1, <3>3
      <4>2. Base(r, p).first = k[p][1]
        BY <1>1, <1>2, <1>3, <2>1, <3>3 DEF Base, Heads
      <4> QED
        BY <1>9, <2>1, <3>1, <3>3, <4>1, <4>2
    <3> QED
      BY <3>2, <3>3
  <2>2. CASE p # parent
    <3>1. m[p] = k[p] /\ s[p].first = Base(r, p).first /\ s[p].child_count = Base(r, p).child_count
      BY <1>6, <1>9, <2>2
    <3>2. CASE Has(r, p)
      BY <1>1, <3>1, <3>2 DEF Base, Heads
    <3>3. CASE ~Has(r, p)
      <4>1. Len(k[p]) = 0
        BY <1>1, <3>3 DEF Lists
      <4> QED
        BY <3>1, <3>3, <4>1 DEF Base, RelationOf
    <3> QED
      BY <3>2, <3>3
  <2> QED
    BY <2>1, <2>2
<1>15. Members(s, m)
  <2> SUFFICES ASSUME NEW p \in Entities, NEW j \in 1..Len(m[p]), Has(s, m[p][j])
               PROVE  /\ s[m[p][j]].parent = p
                      /\ s[m[p][j]].prev = IF j = 1 THEN Null ELSE m[p][j - 1]
                      /\ s[m[p][j]].next = IF j = Len(m[p]) THEN Null ELSE m[p][j + 1]
    BY DEF Members
  <2>1. CASE p # parent
    <3>1. PICK x : x = k[p][j]
      OBVIOUS
    <3>2. m[p] = k[p] /\ j \in 1..Len(k[p]) /\ x \in Entities /\ x # child /\ m[p][j] = x
      BY <1>6, <1>10, <2>1, <3>1
    <3>3. Has(r, x) /\ Base(r, x) = r[x] /\ Has(s, x)
      BY <1>9, <3>2 DEF Base
    <3>4. n # 0 => x # last
      <4>1. n # 0 => n \in 1..Len(k[parent])
        BY <1>3, <1>5
      <4> QED
        BY <1>2, <1>7, <1>11, <2>1, <3>1, <3>2, <4>1
    <3>5. /\ r[x].parent = p
          /\ r[x].prev = IF j = 1 THEN Null ELSE k[p][j - 1]
          /\ r[x].next = IF j = Len(k[p]) THEN Null ELSE k[p][j + 1]
      BY <1>1, <3>1, <3>2, <3>3 DEF Members
    <3> QED
      BY <1>9, <3>2, <3>3, <3>4, <3>5
  <2>2. CASE p = parent /\ j # n + 1
    <3>1. PICK x : x = k[parent][j]
      OBVIOUS
    <3>0. j \in 1..n /\ j \in 1..Len(k[parent])
      BY <1>3, <1>5, <2>2
    <3>2. x \in Entities /\ x # child /\ m[p][j] = x
      BY <1>2, <1>5, <1>10, <2>2, <3>0, <3>1
    <3>3. Has(r, x) /\ Base(r, x) = r[x] /\ Has(s, x)
      BY <1>9, <3>2 DEF Base
    <3>5. /\ r[x].parent = parent
          /\ r[x].prev = IF j = 1 THEN Null ELSE k[parent][j - 1]
          /\ r[x].next = IF j = n THEN Null ELSE k[parent][j + 1]
      BY <1>1, <1>2, <1>3, <3>0, <3>1, <3>3 DEF Members
    <3>6. s[x].parent = p /\ s[x].prev = r[x].prev
      BY <1>9, <2>2, <3>2, <3>3, <3>5
    <3>7. s[x].prev = IF j = 1 THEN Null ELSE m[p][j - 1]
      <4>1. j # 1 => j - 1 \in 1..n
        BY <1>5, <3>0
      <4> QED
        BY <1>5, <2>2, <3>5, <3>6, <4>1
    <3>8. j # Len(m[p]) /\ n # 0
      BY <1>5, <2>2, <3>0
    <3>9. s[x].next = m[p][j + 1]
      <4>1. CASE j = n
        BY <1>5, <1>7, <1>9, <2>2, <3>1, <3>2, <3>3, <3>8, <4>1
      <4>2. CASE j # n
        <5>1. j + 1 \in 1..n /\ n \in 1..Len(k[parent])
          BY <1>3, <1>5, <3>0, <4>2
        <5>2. x # last
          BY <1>2, <1>7, <1>11, <3>0, <3>1, <3>8, <4>2, <5>1
        <5> QED
          BY <1>5, <1>9, <2>2, <3>2, <3>3, <3>5, <4>2, <5>1, <5>2
      <4> QED
        BY <4>1, <4>2
    <3> QED
      BY <3>2, <3>6, <3>7, <3>8, <3>9
  <2>3. CASE p = parent /\ j = n + 1
    <3>1. m[p][j] = child /\ j = Len(m[p]) /\ Has(s, child)
      BY <1>2, <1>5, <1>9, <2>3
    <3>2. s[child].parent = p /\ s[child].next = Null
      BY <1>2, <1>9, <1>12, <2>3, <3>1
    <3>3. s[child].prev = IF j = 1 THEN Null ELSE m[p][j - 1]
      <4>1. CASE n = 0
        BY <1>2, <1>9, <1>12, <2>3, <3>1, <4>1
      <4>2. CASE n # 0
        <5>1. n \in 1..n /\ j # 1 /\ j - 1 = n
          BY <1>5, <2>3, <4>2
        <5>2. m[p][j - 1] = k[parent][n]
          BY <1>5, <2>3, <5>1
        <5> QED
          BY <1>2, <1>7, <1>9, <3>1, <4>2, <5>1, <5>2
      <4> QED
        BY <4>1, <4>2
    <3> QED
      BY <3>1, <3>2, <3>3
  <2> QED
    BY <2>1, <2>2, <2>3
<1>16. Loners(s, m)
  <2> SUFFICES ASSUME NEW x \in Entities, Has(s, x), ~Listed(m, x)
               PROVE  s[x].parent = Null /\ s[x].prev = Null /\ s[x].next = Null
    BY DEF Loners
  <2>1. ~Listed(k, x) /\ x # child
    BY <1>6
  <2>2. Has(r, x) /\ Base(r, x) = r[x]
    BY <1>9, <2>1 DEF Base
  <2>3. n # 0 => x # last
    <3>1. n # 0 => n \in 1..Len(k[parent])
      BY <1>3, <1>5
    <3> QED
      BY <1>2, <1>7, <1>10, <2>1, <3>1
  <2> QED
    BY <1>1, <1>9, <2>1, <2>2, <2>3 DEF Loners
<1>17. Living(s, m, live)
  BY <1>1, <1>6, <1>9 DEF Living
<1> QED
  BY <1>3, <1>13, <1>14, <1>15, <1>16, <1>17 DEF Tree
-----------------------------------------------------------------------------
(* set_parent moves a child to the end of the parent's list, or leaves it  *)
(* in the list it is in already.                                           *)
LEMMA ListsMoved ==
  ASSUME NEW r, NEW k, NEW live \in SUBSET Entities, Tree(r, k, live), NEW child \in live,
         NEW parent \in Entities, NEW m, m = Detach(k, child),
         \A i \in 1..Len(k[parent]) : k[parent][i] # child
  PROVE  /\ ~Listed(m, child)
         /\ m[parent] = k[parent]
         /\ \A y : Listed(m, y) <=> Listed(k, y) /\ y # child
<1>1. Lists(r, k)
  BY DEF Tree
<1>2. CASE ~Listed(k, child)
  <2>1. m = k
    BY <1>1, <1>2, DetachNone
  <2> QED
    BY <1>2, <2>1
<1>3. CASE Listed(k, child)
  <2>1. PICK q \in Entities : \E i \in 1..Len(k[q]) : k[q][i] = child
    BY <1>3 DEF Listed
  <2>2. PICK i \in 1..Len(k[q]) : k[q][i] = child
    BY <2>1
  <2>3. Shortened(k, Detach(k, k[q][i]), q, i)
    BY <1>1, ListsDetached
  <2>4. Shortened(k, m, q, i)
    BY <2>2, <2>3
  <2>5. q # parent
    BY <2>2
  <2>6. \A y : Listed(m, y) <=> Listed(k, y) /\ y # child
    BY <2>2, <2>4 DEF Shortened
  <2>7. m[parent] = k[parent]
    BY <2>4, <2>5 DEF Shortened
  <2> QED
    BY <2>6, <2>7
<1> QED
  BY <1>2, <1>3

(* set_parent, if it splices no chain and comes to its end.                *)
LEMMA TreeParented ==
  ASSUME NEW r, NEW k, NEW live \in SUBSET Entities, NEW exact, Counted(r, live, exact),
         Tree(r, k, live), NEW child \in live, child # Root, NEW parent \in live, child # parent,
         ~Faults(r, child, parent),
         ~(/\ ParentOf(r, child) # Null
           /\ ~Contains(Children(WithComponent(r, parent), parent), child)
           /\ r[child].prev # Null
           /\ r[child].next # Null)
  PROVE  \/ /\ Tree(Parented(r, child, parent), k, live)
            /\ \E i \in 1..Len(k[parent]) : k[parent][i] = child
         \/ /\ Tree(Parented(r, child, parent), Attach(Detach(k, child), parent, child), live)
            /\ \A i \in 1..Len(k[parent]) : k[parent][i] # child
<1>0. parent # Null /\ parent \in Entities /\ child \in Entities
  BY NullAssumption
<1>1. PICK e0 : e0 = WithComponent(r, parent)
  OBVIOUS
<1>2. PICK after : after = Detached(e0, child)
  OBVIOUS
<1>3. Typed(r)
  BY DEF Counted
<1>4. WithComponentAs(r, e0, parent)
  BY <1>0, <1>1, <1>3, WithComponentFields
<1>5. Tree(e0, k, live)
  BY <1>4, TreeWithComponent
<1>6. Lists(e0, k) /\ Heads(e0, k) /\ Members(e0, k) /\ Living(e0, k, live)
  BY <1>5 DEF Tree
<1>7. Has(e0, parent)
  BY <1>0, <1>4 DEF WithComponentAs
<1>8. CASE Contains(Children(e0, parent), child)
  <2>1. Parented(r, child, parent) = e0
    BY <1>0, <1>1, <1>8 DEF Parented
  <2>2. \E i \in 1..Len(k[parent]) : k[parent][i] = child
    BY <1>6, <1>7, <1>8, Led, SMTT(60) DEF Contains
  <2> QED
    BY <1>5, <2>1, <2>2
<1>9. CASE ~Contains(Children(e0, parent), child)
  <2>1. /\ ~Broken(e0, parent)
        /\ ParentOf(e0, child) # Null => RemovedAs(e0, after, ParentOf(e0, child), child)
        /\ ParentOf(e0, child) = Null => after = e0
        /\ Has(after, parent)
        /\ \A x : Has(after, x) <=> Has(e0, x)
        /\ LinkedAs(after, Parented(r, child, parent), parent, child)
    BY <1>1, <1>2, <1>9, ParentedSteps
  <2>2. /\ \A i \in 1..Len(k[parent]) : Has(e0, k[parent][i])
        /\ Children(e0, parent) = k[parent]
    BY <1>6, <1>7, <2>1, Led
  <2>3. \A i \in 1..Len(k[parent]) : k[parent][i] # child
    BY <1>9, <2>2 DEF Contains
  <2>4. PICK m : m = Detach(k, child)
    OBVIOUS
  <2>5. ~Listed(m, child) /\ m[parent] = k[parent]
    BY <1>0, <1>5, <2>3, <2>4, ListsMoved
  <2>6. Tree(after, m, live)
    <3>1. CASE ParentOf(e0, child) = Null
      <4>1. ~Listed(k, child)
        BY <1>5, <1>6, <3>1, PlaceOf DEF Living
      <4>2. m = k
        BY <1>6, <2>4, <4>1, DetachNone
      <4> QED
        BY <1>5, <2>1, <3>1, <4>2
    <3>2. CASE ParentOf(e0, child) # Null
      <4>1. ParentOf(r, child) = ParentOf(e0, child)
        BY <1>4 DEF WithComponentAs
      <4>2. Has(r, child) /\ Has(e0, child)
        BY <3>2, <4>1 DEF ParentOf
      <4>3. e0[child] = r[child]
        BY <1>0, <1>4, <4>2 DEF WithComponentAs, Base
      <4>4. e0[child].prev = Null \/ e0[child].next = Null
        BY <1>1, <1>9, <3>2, <4>1, <4>3
      <4>5. RemovedAs(e0, after, ParentOf(e0, child), child)
        BY <2>1, <3>2
      <4> QED
        BY <1>5, <2>4, <3>2, <4>4, <4>5, TreeDetached
    <3> QED
      BY <3>1, <3>2
  <2>7. Len(k[parent]) # 0 => Last(Children(after, parent)) = k[parent][Len(k[parent])]
    <3>1. Lists(after, m) /\ Heads(after, m) /\ Members(after, m)
      BY <2>6 DEF Tree
    <3>2. \A i \in 1..Len(m[parent]) : Has(after, m[parent][i])
      BY <2>1, <2>2, <2>5
    <3>3. Children(after, parent) = k[parent]
      BY <2>1, <2>5, <3>1, <3>2, Led
    <3> QED
      BY <3>3 DEF Last
  <2>8. Tree(Parented(r, child, parent), Attach(m, parent, child), live)
    BY <2>1, <2>5, <2>6, <2>7, TreeLinked
  <2> QED
    BY <2>3, <2>4, <2>8
<1> QED
  BY <1>8, <1>9

(* In a tree whose listed entities all have components, set_parent comes   *)
(* to its end: it dereferences no missing component.                       *)
LEMMA NoFaults ==
  ASSUME NEW r, NEW k, NEW live \in SUBSET Entities, NEW exact, Counted(r, live, exact),
         Tree(r, k, live), Complete(r, k), NEW child \in live, NEW parent \in live, child # Root
  PROVE  ~Faults(r, child, parent)
<1>0. parent # Null /\ parent \in Entities /\ child \in Entities
  BY NullAssumption
<1>1. PICK e0 : e0 = WithComponent(r, parent)
  OBVIOUS
<1>2. PICK after : after = Detached(e0, child)
  OBVIOUS
<1>3. Typed(r)
  BY DEF Counted
<1>4. WithComponentAs(r, e0, parent)
  BY <1>0, <1>1, <1>3, WithComponentFields
<1>5. Tree(e0, k, live) /\ Counted(e0, live, exact)
  BY <1>1, <1>4, TreeWithComponent, CountedWithComponent
<1>6. Lists(e0, k) /\ Heads(e0, k) /\ Members(e0, k) /\ Typed(e0)
  BY <1>5 DEF Tree, Lists
<1>7. Has(e0, parent) /\ \A x : Listed(k, x) => Has(e0, x)
  BY <1>0, <1>4 DEF WithComponentAs, Complete, Has
<1>8. \A p \in Entities : \A i \in 1..Len(k[p]) : Has(e0, k[p][i])
  BY <1>7 DEF Listed
<1>9. ~Broken(e0, parent) /\ Children(e0, parent) = k[parent]
  BY <1>0, <1>6, <1>7, <1>8, Led
<1> SUFFICES ASSUME \A i \in 1..Len(k[parent]) : k[parent][i] # child
             PROVE  /\ ParentOf(e0, child) # Null =>
                         /\ e0[child].parent # Null => Has(e0, e0[child].parent)
                         /\ e0[child].prev # Null => Has(e0, e0[child].prev)
                         /\ e0[child].next # Null => Has(e0, e0[child].next)
                    /\ after[parent].child_count # 0 =>
                         /\ Children(after, parent) # << >>
                         /\ ~Broken(after, parent)
                         /\ ~SelfLinked(after, parent)
  BY <1>1, <1>2, <1>9 DEF Faults, Contains
<1>10. PICK q : q = ParentOf(e0, child)
  OBVIOUS
<1>11. ASSUME q # Null
       PROVE  /\ Has(e0, q) /\ q \in Entities /\ q # parent
              /\ Has(e0, child) /\ e0[child].parent = q
              /\ e0[child].prev # Null =>
                   Has(e0, e0[child].prev) /\ \E j \in 1..Len(k[q]) : k[q][j] = e0[child].prev
              /\ e0[child].next # Null => Has(e0, e0[child].next)
  <2>1. Has(e0, q) /\ q \in Entities /\ \E i \in 1..Len(k[q]) : k[q][i] = child
    BY <1>5, <1>10, <1>11, PlaceOf
  <2>2. PICK i \in 1..Len(k[q]) : k[q][i] = child
    BY <2>1
  <2>3. Has(e0, child) /\ e0[child].parent = q
    BY <1>10, <1>11 DEF ParentOf
  <2>4. /\ e0[child].prev = IF i = 1 THEN Null ELSE k[q][i - 1]
        /\ e0[child].next = IF i = Len(k[q]) THEN Null ELSE k[q][i + 1]
    BY <1>6, <2>1, <2>2, <2>3 DEF Members
  <2>5. Len(k[q]) \in Nat
    BY <1>6, <2>1, ListsOf
  <2>6. /\ i # 1 => i - 1 \in 1..Len(k[q])
        /\ i # Len(k[q]) => i + 1 \in 1..Len(k[q])
    BY <2>5
  <2> QED
    BY <1>8, <2>1, <2>2, <2>3, <2>4, <2>6
<1>12. /\ q # Null => RemovedAs(e0, after, q, child)
       /\ q = Null => after = e0
       /\ Counted(after, live, exact)
       /\ \A x : Has(after, x) <=> Has(e0, x)
  BY <1>2, <1>5, <1>10, <1>11, DetachedSteps, ZenonT(30), SMTT(30)
<1>13. Typed(after) /\ Has(after, parent)
  BY <1>7, <1>12 DEF Counted
<1>14. Leads(after, parent, k[parent]) /\ after[parent].child_count = Len(k[parent])
  <2>1. Leads(e0, parent, k[parent]) /\ e0[parent].child_count = Len(k[parent])
    BY <1>0, <1>6, <1>7, Led DEF Heads
  <2>2. CASE q = Null
    BY <1>12, <2>1, <2>2
  <2>3. CASE q # Null
    <3>1. after[parent].first = e0[parent].first /\ after[parent].child_count = e0[parent].child_count
      BY <1>0, <1>7, <1>11, <1>12, <2>3 DEF RemovedAs
    <3>2. ASSUME NEW j \in 1..Len(k[parent])
          PROVE  after[k[parent][j]].next = e0[k[parent][j]].next
      <4>1. PICK x : x = k[parent][j]
        OBVIOUS
      <4>2. x \in Entities /\ x # Null /\ Has(e0, x) /\ x # child
        BY <1>0, <1>6, <1>8, <4>1, ListsOf
      <4>3. x # e0[child].prev
        BY <1>0, <1>6, <1>11, <2>3, <4>1, <4>2 DEF Lists
      <4>4. after[x].next = e0[x].next
        BY <1>12, <2>3, <4>2, <4>3 DEF RemovedAs
      <4> QED
        BY <4>1, <4>4
    <3>3. DOMAIN k[parent] = 1..Len(k[parent])
      BY <1>0, <1>6, ListsOf
    <3>4. Leads(after, parent, k[parent])
      BY <1>12, <2>1, <3>1, <3>2, <3>3 DEF Leads
    <3> QED
      BY <2>1, <3>1, <3>4
  <2> QED
    BY <2>2, <2>3
<1>15. Children(after, parent) = k[parent] /\ ~Broken(after, parent) /\ ~SelfLinked(after, parent)
  <2>1. DOMAIN k[parent] = 1..Len(k[parent])
    BY <1>0, <1>6, ListsOf
  <2> QED
    BY <1>0, <1>8, <1>12, <1>13, <1>14, <2>1, LedChildren
<1>16. Len(k[parent]) # 0 => k[parent] # << >>
  BY EmptySeq
<1> QED
  BY <1>10, <1>11, <1>14, <1>15, <1>16
-----------------------------------------------------------------------------
(* The ancestors are closed under taking the parent. *)
LEMMA Lineages ==
  ASSUME NEW r, Typed(r), NEW e \in Entities, NEW D, D = Lineage(r, e)
  PROVE  /\ D \in SUBSET Entities
         /\ e \in D
         /\ \A x \in D : ParentOf(r, x) # Null => ParentOf(r, x) \in D
<1> DEFINE Step(B) == B \cup {ParentOf(r, x) : x \in B}
           S == SUBSET Links
           F == [n \in 1..N |-> [B \in S |-> Step(B)]]
           Good(g) == g = [n \in 0..N |-> IF n = 0 THEN {e} ELSE Step(g[n - 1])]
<1>0. N \in Nat
  BY Bounded
<1>1. PICK up : up = CHOOSE g : Good(g)
  OBVIOUS
<1>2. D = up[N] \ {Null}
  BY <1>1 DEF Lineage, N
<1>3. \A B \in S : Step(B) \in S
  BY Fields
<1>4. \A B, x : x \in Step(B) <=> x \in B \/ \E y \in B : x = ParentOf(r, y)
  OBVIOUS
<1> HIDE DEF Step
<1>5. F \in [1..N -> [S -> S]]
  <2> HIDE DEF S
  <2> QED
    BY <1>3
<1>6. PICK f \in [0..N -> S] : Recurs(f, N, {e}, F)
  <2>1. {e} \in S
    BY DEF Links
  <2> HIDE DEF S, F
  <2> QED
    BY <1>0, <1>5, <2>1, Recursion
<1>7. Good(f)
  <2>1. ASSUME NEW n \in 0..N PROVE f[n] = IF n = 0 THEN {e} ELSE Step(f[n - 1])
    <3>1. CASE n = 0
      BY <1>6, <3>1 DEF Recurs
    <3>2. CASE n # 0
      <4>1. n \in 1..N /\ n - 1 \in 0..N
        BY <1>0, <3>2
      <4>2. f[n] = F[n][f[n - 1]] /\ f[n - 1] \in S
        <5> HIDE DEF S, F
        <5> QED
          BY <1>6, <3>2, <4>1 DEF Recurs
      <4> HIDE DEF S
      <4> QED
        BY <3>2, <4>1, <4>2
    <3> QED
      BY <3>1, <3>2
  <2> HIDE DEF S, F
  <2> QED
    BY <2>1
<1>8. Good(up)
  <2> HIDE DEF Good, S, F
  <2> QED
    BY <1>1, <1>7
<1>9. up[0] = {e} /\ \A n \in 1..N : up[n] = Step(up[n - 1])
  <2>1. \A n \in 0..N : up[n] = IF n = 0 THEN {e} ELSE Step(up[n - 1])
    <3> HIDE DEF S, F
    <3> QED
      BY <1>8
  <2>2. 0 \in 0..N /\ \A n \in 1..N : n \in 0..N /\ n # 0
    BY <1>0
  <2> QED
    BY <2>1, <2>2
<1> HIDE DEF Good, F
<1> DEFINE Whole(B, n) == \/ Cardinality(B \ {Null}) >= n + 1
                          \/ Step(B) \ {Null} = B \ {Null}
           T == {n \in 0..N : up[n] \in S /\ e \in up[n] /\ Whole(up[n], n)}
<1>10. 0 \in T
  <2>1. Cardinality({e}) = 1 /\ {e} \ {Null} = {e} /\ {e} \in S
    BY FS_Singleton, NullAssumption DEF Links
  <2>2. up[0] = {e} /\ 0 \in 0..N
    BY <1>0, <1>9
  <2>3. Whole(up[0], 0)
    <3>1. Cardinality(up[0] \ {Null}) >= 0 + 1
      <4>1. up[0] \ {Null} = {e}
        BY <2>1, <2>2
      <4>2. Cardinality({e}) = 1
        BY FS_Singleton
      <4>3. Cardinality(up[0] \ {Null}) = 1
        BY <4>1, <4>2
      <4> QED
        BY <4>3
    <3> QED
      BY <3>1
  <2> HIDE DEF Whole, S
  <2> QED
    BY <2>1, <2>2, <2>3
<1>11. ASSUME NEW n \in 1..N, n - 1 \in T PROVE n \in T
  <2>1. PICK B, C : B = up[n - 1] /\ C = up[n] /\ C = Step(B)
    BY <1>9
  <2>2. B \in S /\ e \in B /\ Whole(B, n - 1)
    BY <1>11, <2>1
  <2>3. C \in S /\ B \subseteq C
    BY <1>3, <1>4, <2>1, <2>2
  <2>4. Whole(C, n)
    <3>1. CASE C \ {Null} = B \ {Null}
      <4>1. ParentOf(r, Null) = Null
        BY NullAssumption DEF ParentOf, Has
      <4>2. \A x \in Step(C) : x \in C \/ x = Null
        BY <1>4, <2>1, <3>1, <4>1
      <4>3. \A x \in C : x \in Step(C)
        BY <1>4
      <4> HIDE DEF S
      <4> QED
        BY <4>2, <4>3
    <3>2. CASE C \ {Null} # B \ {Null}
      <4>1. /\ B \ {Null} \in SUBSET Entities
            /\ C \ {Null} \in SUBSET Entities
            /\ B \ {Null} \in SUBSET (C \ {Null})
        BY <2>2, <2>3 DEF Links
      <4>2. PICK b, c : b = B \ {Null} /\ c = C \ {Null}
        OBVIOUS
      <4>3. IsFiniteSet(c) /\ Cardinality(c) \in Nat /\ Cardinality(b) \in Nat
        BY <4>1, <4>2, Bounded
      <4>4. Cardinality(b) <= Cardinality(c) /\ Cardinality(b) # Cardinality(c)
        BY <3>2, <4>1, <4>2, <4>3, FS_Subset
      <4>5. Cardinality(b) >= n
        BY <1>0, <2>1, <2>2, <3>2, <4>2
      <4> QED
        BY <1>0, <4>2, <4>3, <4>4, <4>5
    <3> QED
      BY <3>1, <3>2
  <2>5. Whole(up[n], n) /\ n \in 0..N
    BY <1>0, <2>1, <2>4
  <2> HIDE DEF Whole, S
  <2> QED
    BY <2>1, <2>2, <2>3, <2>5
<1>12. N \in T
  <2> HIDE DEF T
  <2>1. 0..N \subseteq T
    BY <1>0, <1>10, <1>11, Steps
  <2> QED
    BY <1>0, <2>1
<1>13. up[N] \in S /\ e \in up[N] /\ Whole(up[N], N)
  BY <1>12
<1>14. D \in SUBSET Entities /\ e \in D
  BY <1>2, <1>13, NullAssumption DEF Links
<1>15. Step(up[N]) \ {Null} = up[N] \ {Null}
  <2>1. Cardinality(D) \in Nat /\ Cardinality(D) <= N
    BY <1>14, Bounded
  <2> QED
    BY <1>0, <1>2, <1>13, <2>1
<1> QED
  BY <1>2, <1>4, <1>14, <1>15
-----------------------------------------------------------------------------
(* No entity is its own ancestor: every set has a member whose parent is   *)
(* not in it.                                                              *)
Acyclic(r) == \A S \in SUBSET Entities : S # {} => \E x \in S : ParentOf(r, x) \notin S

(* A parent that does not descend from the child makes no cycle.           *)
LEMMA AcyclicLinked ==
  ASSUME NEW r, Typed(r), Acyclic(r), NEW child, NEW parent \in Entities,
         child \notin Lineage(r, parent),
         NEW s, \A x : ParentOf(s, x) = IF x = child THEN parent ELSE ParentOf(r, x)
  PROVE  Acyclic(s)
<1> SUFFICES ASSUME NEW S \in SUBSET Entities, S # {}, \A x \in S : ParentOf(s, x) \in S
             PROVE  FALSE
  BY DEF Acyclic
<1>1. CASE child \notin S
  <2>1. \A x \in S : ParentOf(r, x) \in S
    BY <1>1
  <2> QED
    BY <2>1 DEF Acyclic
<1>2. CASE child \in S
  <2>1. PICK D : D = Lineage(r, parent)
    OBVIOUS
  <2>2. /\ D \in SUBSET Entities /\ parent \in D /\ child \notin D
        /\ \A x \in D : ParentOf(r, x) # Null => ParentOf(r, x) \in D
    BY <2>1, Lineages
  <2>3. parent \in S
    BY <1>2
  <2>4. \A x \in S \cap D : ParentOf(r, x) \in S \cap D
    <3> SUFFICES ASSUME NEW x \in S, x \in D PROVE ParentOf(r, x) \in S /\ ParentOf(r, x) \in D
      OBVIOUS
    <3>1. ParentOf(r, x) \in S
      BY <2>2
    <3>2. ParentOf(r, x) # Null
      BY <3>1, NullAssumption
    <3> QED
      BY <2>2, <3>1, <3>2
  <2>5. S \cap D \in SUBSET Entities /\ S \cap D # {}
    BY <2>2, <2>3
  <2> QED
    BY <2>4, <2>5 DEF Acyclic
<1> QED
  BY <1>1, <1>2

(* Losing parents makes no cycle.                                          *)
LEMMA AcyclicGone ==
  ASSUME NEW r, Acyclic(r), NEW s, \A x : ParentOf(s, x) = ParentOf(r, x) \/ ParentOf(s, x) = Null
  PROVE  Acyclic(s)
BY NullAssumption DEF Acyclic

(* Who is whose parent after set_parent.                                   *)
LEMMA ParentedParents ==
  ASSUME NEW r, NEW live \in SUBSET Entities, NEW exact, Counted(r, live, exact),
         NEW child \in live, NEW parent \in live, child # parent, ~Faults(r, child, parent),
         NEW s, s = Parented(r, child, parent)
  PROVE  \/ \A x : ParentOf(s, x) = ParentOf(r, x)
         \/ \A x : ParentOf(s, x) = IF x = child THEN parent ELSE ParentOf(r, x)
<1>1. PICK e0 : e0 = WithComponent(r, parent)
  OBVIOUS
<1>2. PICK after : after = Detached(e0, child)
  OBVIOUS
<1>3. WithComponentAs(r, e0, parent)
  BY <1>1, WithComponentFields DEF Counted
<1>4. \A x : ParentOf(e0, x) = ParentOf(r, x)
  BY <1>3 DEF WithComponentAs
<1>5. CASE Contains(Children(e0, parent), child)
  <2>1. s = e0
    BY <1>1, <1>5, NullAssumption DEF Parented
  <2> QED
    BY <1>4, <2>1
<1>6. CASE ~Contains(Children(e0, parent), child)
  <2>1. /\ ParentOf(e0, child) # Null => RemovedAs(e0, after, ParentOf(e0, child), child)
        /\ ParentOf(e0, child) = Null => after = e0
        /\ LinkedAs(after, s, parent, child)
    BY <1>1, <1>2, <1>6, ParentedSteps
  <2>2. \A x : x # child => ParentOf(after, x) = ParentOf(e0, x)
    BY <2>1, RemovedParents
  <2>3. \A x : ParentOf(s, x) = IF x = child THEN parent ELSE ParentOf(after, x)
    BY <2>1, LinkedParents
  <2> QED
    BY <1>4, <2>2, <2>3
<1> QED
  BY <1>5, <1>6
-----------------------------------------------------------------------------
(* The lists after some entities are destroyed.                            *)
Pruned(k, gone) == [p \in Entities |-> IF p \in gone THEN << >> ELSE k[p]]

(* A set of entities goes that has with an entity the list of its children. *)
LEMMA TreeGone ==
  ASSUME NEW r, NEW k, NEW live \in SUBSET Entities, Tree(r, k, live),
         NEW gone \in SUBSET Entities, Root \notin gone,
         \A p \in gone : \A i \in 1..Len(k[p]) : k[p][i] \in gone,
         NEW s, GoneFrom(r, s, gone)
  PROVE  Tree(s, Pruned(k, gone), live \ gone)
<1>1. /\ Lists(r, k) /\ Typed(r) /\ Heads(r, k) /\ Members(r, k) /\ Loners(r, k)
      /\ Living(r, k, live)
  BY DEF Tree, Lists
<1>2. /\ Typed(s)
      /\ \A x : Has(s, x) <=> Has(r, x) /\ x \notin gone
      /\ \A x : Has(s, x) => s[x] = r[x]
  BY <1>1, GoneFields
<1>3. PICK m : m = Pruned(k, gone)
  OBVIOUS
<1>4. /\ \A p \in Entities : p \notin gone => m[p] = k[p]
      /\ \A p \in gone : m[p] = << >> /\ Len(m[p]) = 0
  BY <1>3, EmptySeq DEF Pruned
<1>5. m \in [Entities -> Seq(Entities)]
  <2>1. ASSUME NEW p \in Entities PROVE m[p] \in Seq(Entities)
    <3>1. k[p] \in Seq(Entities)
      BY <1>1, ListsOf
    <3>2. m[p] = << >> \/ m[p] = k[p]
      BY <1>4
    <3> QED
      BY <3>1, <3>2, EmptySeq
  <2>2. m = [p \in Entities |-> m[p]]
    BY <1>3 DEF Pruned
  <2> QED
    BY <2>1, <2>2
<1>6. \A p \in Entities : \A i \in 1..Len(m[p]) :
        p \notin gone /\ i \in 1..Len(k[p]) /\ m[p][i] = k[p][i] /\ m[p] = k[p]
  BY <1>4
<1>7. Lists(s, m)
  <2>1. \A p \in Entities : Len(m[p]) # 0 => Has(s, p)
    BY <1>1, <1>2, <1>4 DEF Lists
  <2>2. ASSUME NEW p \in Entities, NEW q \in Entities, NEW i \in 1..Len(m[p]), NEW j \in 1..Len(m[q]),
               m[p][i] = m[q][j]
        PROVE  p = q /\ i = j
    <3>1. i \in 1..Len(k[p]) /\ j \in 1..Len(k[q]) /\ k[p][i] = k[q][j]
      BY <1>6, <2>2
    <3> QED
      BY <1>1, <3>1 DEF Lists
  <2> QED
    BY <1>2, <1>5, <2>1, <2>2 DEF Lists
<1>8. Heads(s, m)
  BY <1>1, <1>2, <1>4 DEF Heads
<1>9. Members(s, m)
  <2> SUFFICES ASSUME NEW p \in Entities, NEW i \in 1..Len(m[p]), Has(s, m[p][i])
               PROVE  /\ s[m[p][i]].parent = p
                      /\ s[m[p][i]].prev = IF i = 1 THEN Null ELSE m[p][i - 1]
                      /\ s[m[p][i]].next = IF i = Len(m[p]) THEN Null ELSE m[p][i + 1]
    BY DEF Members
  <2>1. m[p] = k[p] /\ i \in 1..Len(k[p]) /\ Has(r, k[p][i]) /\ s[k[p][i]] = r[k[p][i]]
    BY <1>2, <1>6
  <2> QED
    BY <1>1, <2>1 DEF Members
<1>10. \A x : Listed(m, x) => Listed(k, x)
  BY <1>6 DEF Listed
<1>11. \A x : Listed(k, x) /\ x \notin gone => Listed(m, x)
  BY <1>4 DEF Listed
<1>12. Loners(s, m)
  BY <1>1, <1>2, <1>11 DEF Loners
<1>13. Living(s, m, live \ gone)
  BY <1>1, <1>2, <1>10 DEF Living
<1> QED
  BY <1>3, <1>7, <1>8, <1>9, <1>12, <1>13 DEF Tree
-----------------------------------------------------------------------------
(* A function on 1..m is a sequence of length m.                           *)
LEMMA MappedSeq ==
  ASSUME NEW S, NEW m \in Nat, NEW g \in [1..m -> S]
  PROVE  g \in Seq(S) /\ Len(g) = m
<1>1. g \in Seq(S)
  BY SeqDef
<1>2. DOMAIN g = 1..m
  OBVIOUS
<1> QED
  BY <1>1, <1>2

(* Sequences with the same elements are the same.                          *)
LEMMA SameSeq ==
  ASSUME NEW S, NEW s \in Seq(S), NEW t \in Seq(S), Len(s) = Len(t),
         \A i \in 1..Len(s) : s[i] = t[i]
  PROVE  s = t
<1>1. s = [i \in 1..Len(s) |-> s[i]] /\ t = [i \in 1..Len(t) |-> t[i]]
  OBVIOUS
<1> QED
  BY <1>1

(* The lists after the first n children of e went to the end of home's.    *)
Given(k, e, home, n) ==
  [p \in Entities |->
     IF p = e THEN [i \in 1..(Len(k[e]) - n) |-> k[e][n + i]]
     ELSE IF p = home
          THEN [i \in 1..(Len(k[home]) + n) |->
                  IF i <= Len(k[home]) THEN k[home][i] ELSE k[e][i - Len(k[home])]]
          ELSE k[p]]

(* The same list by list; L and H are the lengths before.                  *)
GivenAs(k, g, e, home, n, L, H) ==
  /\ \A p \in Entities : g[p] \in Seq(Entities)
  /\ \A p \in Entities : p # e /\ p # home => g[p] = k[p]
  /\ Len(g[e]) = L - n
  /\ \A i \in 1..(L - n) : g[e][i] = k[e][n + i]
  /\ Len(g[home]) = H + n
  /\ \A i \in 1..H : g[home][i] = k[home][i]
  /\ \A i \in 1..n : g[home][H + i] = k[e][i]

LEMMA GivenOf ==
  ASSUME NEW r, NEW k, Lists(r, k), NEW e \in Entities, NEW home \in Entities, home # e,
         NEW L \in Nat, NEW H \in Nat, L = Len(k[e]), H = Len(k[home]),
         NEW n \in 0..L, NEW g, g = Given(k, e, home, n)
  PROVE  GivenAs(k, g, e, home, n, L, H)
<1>1. L \in Nat /\ H \in Nat /\ L = Len(k[e]) /\ H = Len(k[home])
  OBVIOUS
<1>2. /\ \A i \in 1..L : k[e][i] \in Entities
      /\ \A i \in 1..H : k[home][i] \in Entities
      /\ \A p \in Entities : k[p] \in Seq(Entities)
  BY <1>1, ListsOf
<1>3. n \in 0..L /\ n \in Nat
  BY <1>1
<1> DEFINE f == [i \in 1..(L - n) |-> k[e][n + i]]
           b == [i \in 1..(H + n) |-> IF i <= H THEN k[home][i] ELSE k[e][i - H]]
<1>4. g[e] = f /\ g[home] = b /\ \A p \in Entities : p # e /\ p # home => g[p] = k[p]
  BY <1>1 DEF Given
<1>5. f \in Seq(Entities) /\ Len(f) = L - n /\ \A i \in 1..(L - n) : f[i] = k[e][n + i]
  <2>1. L - n \in Nat /\ \A i \in 1..(L - n) : n + i \in 1..L
    BY <1>1, <1>3
  <2>2. f \in [1..(L - n) -> Entities]
    BY <1>2, <2>1
  <2>3. PICK m \in Nat : m = L - n
    BY <2>1
  <2>4. f \in Seq(Entities) /\ Len(f) = m
    <3> HIDE DEF f
    <3> QED
      BY <2>2, <2>3, MappedSeq
  <2> QED
    BY <2>3, <2>4
<1>6. b \in Seq(Entities) /\ Len(b) = H + n
      /\ \A i \in 1..(H + n) : b[i] = IF i <= H THEN k[home][i] ELSE k[e][i - H]
  <2>1. H + n \in Nat /\ \A i \in 1..(H + n) : (i <= H => i \in 1..H) /\ (~(i <= H) => i - H \in 1..L)
    BY <1>1, <1>3
  <2>2. b \in [1..(H + n) -> Entities]
    <3>1. ASSUME NEW i \in 1..(H + n)
          PROVE  (IF i <= H THEN k[home][i] ELSE k[e][i - H]) \in Entities
      BY <1>2, <2>1
    <3> QED
      BY <3>1
  <2>3. PICK m \in Nat : m = H + n
    BY <2>1
  <2>4. b \in Seq(Entities) /\ Len(b) = m
    <3> HIDE DEF b
    <3> QED
      BY <2>2, <2>3, MappedSeq
  <2> QED
    BY <2>3, <2>4
<1> HIDE DEF f, b
<1>7. \A i \in 1..H : b[i] = k[home][i]
  <2>1. \A i \in 1..H : i \in 1..(H + n) /\ i <= H
    BY <1>1, <1>3
  <2> QED
    BY <1>6, <2>1
<1>8. ASSUME NEW i \in 1..n PROVE b[H + i] = k[e][i]
  <2>1. PICK j : j = H + i
    OBVIOUS
  <2>2. j \in 1..(H + n) /\ ~(j <= H) /\ j - H = i
    BY <1>1, <1>3, <2>1
  <2> QED
    BY <1>6, <2>1, <2>2
<1>9. ASSUME NEW p \in Entities PROVE g[p] \in Seq(Entities)
  <2>1. CASE p = e
    BY <1>4, <1>5, <2>1
  <2>2. CASE p = home
    BY <1>4, <1>6, <2>2
  <2>3. CASE p # e /\ p # home
    BY <1>2, <1>4, <2>3
  <2> QED
    BY <2>1, <2>2, <2>3
<1> QED
  BY <1>1, <1>4, <1>5, <1>6, <1>7, <1>8, <1>9 DEF GivenAs

(* What is in the lists of g was in the lists of k, and changed its list   *)
(* only from e to home.                                                    *)
FromLists(k, g, e, home) ==
  \A p \in Entities : \A i \in 1..Len(g[p]) :
    \/ /\ p # e /\ i \in 1..Len(k[p]) /\ g[p][i] = k[p][i]
    \/ /\ p = e \/ p = home
       /\ \E j \in 1..Len(k[e]) : g[p][i] = k[e][j]

LEMMA GivenListed ==
  ASSUME NEW r, NEW k, Lists(r, k), NEW e \in Entities, NEW home \in Entities, home # e,
         NEW n \in 0..Len(k[e]), NEW g, g = Given(k, e, home, n)
  PROVE  FromLists(k, g, e, home)
<1> SUFFICES ASSUME NEW p \in Entities, NEW i \in 1..Len(g[p])
             PROVE  \/ /\ p # e /\ i \in 1..Len(k[p]) /\ g[p][i] = k[p][i]
                    \/ /\ p = e \/ p = home
                       /\ \E j \in 1..Len(k[e]) : g[p][i] = k[e][j]
  BY DEF FromLists
<1>1. PICK L \in Nat, H \in Nat : L = Len(k[e]) /\ H = Len(k[home])
  BY ListsOf
<1>2. n \in 0..L /\ n \in Nat
  BY <1>1
<1>3. /\ p # e /\ p # home => g[p] = k[p]
      /\ Len(g[e]) = L - n
      /\ \A a \in 1..(L - n) : g[e][a] = k[e][n + a]
      /\ Len(g[home]) = H + n
      /\ \A a \in 1..H : g[home][a] = k[home][a]
      /\ \A a \in 1..n : g[home][H + a] = k[e][a]
  <2>1. GivenAs(k, g, e, home, n, L, H)
    BY <1>1, <1>2, GivenOf
  <2> QED
    BY <2>1 DEF GivenAs
<1>4. CASE p = e
  <2>1. i \in 1..(L - n)
    BY <1>3, <1>4
  <2>2. n + i \in 1..L
    BY <1>1, <1>2, <2>1
  <2> QED
    BY <1>1, <1>3, <1>4, <2>1, <2>2
<1>5. CASE p = home /\ i <= H
  <2>1. i \in 1..(H + n)
    BY <1>3, <1>5
  <2>2. i \in 1..H
    BY <1>1, <1>2, <1>5, <2>1
  <2> QED
    BY <1>1, <1>3, <1>5, <2>2
<1>6. CASE p = home /\ ~(i <= H)
  <2>1. i \in 1..(H + n)
    BY <1>3, <1>6
  <2>2. PICK j \in 1..n : i = H + j
    <3>1. i - H \in 1..n /\ i = H + (i - H)
      BY <1>1, <1>2, <1>6, <2>1
    <3> QED
      BY <3>1
  <2>3. j \in 1..L
    BY <1>1, <1>2
  <2>4. g[home][i] = k[e][j]
    BY <1>3, <2>2
  <2> QED
    BY <1>1, <1>6, <2>3, <2>4
<1>7. CASE p # e /\ p # home
  BY <1>3, <1>7
<1> QED
  BY <1>4, <1>5, <1>6, <1>7

(* The first child that e still has goes to home. *)
LEMMA GivenNext ==
  ASSUME NEW r, NEW k, Lists(r, k), NEW e \in Entities, NEW home \in Entities, home # e,
         NEW n \in 1..Len(k[e]),
         NEW g, g = Given(k, e, home, n - 1), NEW s, Lists(s, g)
  PROVE  /\ 1 \in 1..Len(g[e]) /\ g[e][1] = k[e][n]
         /\ \A i \in 1..Len(g[home]) : g[home][i] # k[e][n]
         /\ Attach(Detach(g, k[e][n]), home, k[e][n]) = Given(k, e, home, n)
<1>1. PICK L \in Nat, H \in Nat : L = Len(k[e]) /\ H = Len(k[home])
  BY ListsOf
<1>2. n \in 1..L /\ n - 1 \in 0..L /\ n \in 0..L /\ n \in Nat /\ n - 1 \in Nat
  BY <1>1
<1>3. PICK child : child = k[e][n] /\ child \in Entities
  BY ListsOf
<1>4. /\ \A p \in Entities : g[p] \in Seq(Entities)
      /\ \A p \in Entities : p # e /\ p # home => g[p] = k[p]
      /\ Len(g[e]) = L - (n - 1)
      /\ \A i \in 1..(L - (n - 1)) : g[e][i] = k[e][(n - 1) + i]
      /\ Len(g[home]) = H + (n - 1)
      /\ \A i \in 1..H : g[home][i] = k[home][i]
      /\ \A i \in 1..(n - 1) : g[home][H + i] = k[e][i]
  <2>1. GivenAs(k, g, e, home, n - 1, L, H)
    BY <1>1, <1>2, GivenOf
  <2> QED
    BY <2>1 DEF GivenAs
<1>5. PICK t : t = Given(k, e, home, n)
  OBVIOUS
<1>6. /\ \A p \in Entities : t[p] \in Seq(Entities)
      /\ \A p \in Entities : p # e /\ p # home => t[p] = k[p]
      /\ Len(t[e]) = L - n
      /\ \A i \in 1..(L - n) : t[e][i] = k[e][n + i]
      /\ Len(t[home]) = H + n
      /\ \A i \in 1..H : t[home][i] = k[home][i]
      /\ \A i \in 1..n : t[home][H + i] = k[e][i]
  <2>1. GivenAs(k, t, e, home, n, L, H)
    BY <1>1, <1>2, <1>5, GivenOf
  <2> QED
    BY <2>1 DEF GivenAs
<1>7. 1 \in 1..Len(g[e]) /\ g[e][1] = child
  <2>1. 1 \in 1..(L - (n - 1)) /\ (n - 1) + 1 = n
    BY <1>1, <1>2
  <2> QED
    BY <1>3, <1>4, <2>1
<1>8. \A i \in 1..Len(g[home]) : g[home][i] # child
  BY <1>7, ZenonT(30), SMTT(30) DEF Lists
<1>9. PICK m : m = Detach(g, child)
  OBVIOUS
<1>10. Shortened(g, m, e, 1)
  <2>1. Shortened(g, Detach(g, g[e][1]), e, 1)
    BY <1>7, ListsDetached
  <2> QED
    BY <1>7, <1>9, <2>1
<1>11. /\ \A p \in Entities : p # e => m[p] = g[p]
       /\ Len(m[e]) = L - n
       /\ \A i \in 1..(L - n) : m[e][i] = k[e][n + i]
       /\ m \in [Entities -> Seq(Entities)]
  <2>1. (L - (n - 1)) - 1 = L - n
    BY <1>1, <1>2
  <2>2. /\ \A p \in Entities : p # e => m[p] = g[p]
        /\ Len(m[e]) = L - n
        /\ \A i \in 1..(L - n) : m[e][i] = g[e][IF i < 1 THEN i ELSE i + 1]
        /\ m \in [Entities -> Seq(Entities)]
    BY <1>4, <1>10, <2>1, ZenonT(30), SMTT(30) DEF Shortened
  <2>3. \A i \in 1..(L - n) : ~(i < 1) /\ i + 1 \in 1..(L - (n - 1)) /\ (n - 1) + (i + 1) = n + i
    BY <1>1, <1>2
  <2>4. ASSUME NEW i \in 1..(L - n) PROVE m[e][i] = k[e][n + i]
    <3>1. m[e][i] = g[e][i + 1]
      BY <2>2, <2>3
    <3>2. g[e][i + 1] = k[e][(n - 1) + (i + 1)]
      BY <1>4, <2>3
    <3> QED
      BY <2>3, <3>1, <3>2
  <2> QED
    BY <2>2, <2>4
<1>12. PICK a : a = Attach(m, home, child)
  OBVIOUS
<1>13. /\ \A p \in Entities : p # home => a[p] = m[p]
       /\ a[home] = Append(g[home], child)
       /\ a = [p \in Entities |-> a[p]]
  BY <1>11, <1>12 DEF Attach
<1>14. a[e] = t[e]
  <2>1. a[e] = m[e] /\ m[e] \in Seq(Entities)
    BY <1>11, <1>13
  <2>2. t[e] \in Seq(Entities)
    BY <1>6
  <2>3. \A i \in 1..Len(m[e]) : m[e][i] = t[e][i]
    BY <1>6, <1>11
  <2>4. Len(m[e]) = Len(t[e])
    BY <1>6, <1>11
  <2> QED
    BY <2>1, <2>2, <2>3, <2>4, SameSeq
<1>15. a[home] = t[home]
  <2>1. PICK w : w = g[home] /\ w \in Seq(Entities) /\ Len(w) = H + (n - 1)
    BY <1>4
  <2>2. /\ Append(w, child) \in Seq(Entities)
        /\ Len(Append(w, child)) = H + n
        /\ \A i \in 1..(H + (n - 1)) : Append(w, child)[i] = w[i]
        /\ Append(w, child)[H + n] = child
    <3>1. /\ Append(w, child) \in Seq(Entities)
          /\ Len(Append(w, child)) = Len(w) + 1
          /\ \A i \in 1..Len(w) : Append(w, child)[i] = w[i]
          /\ Append(w, child)[Len(w) + 1] = child
      BY <1>3, <2>1, AppendProperties
    <3>2. H + (n - 1) + 1 = H + n
      BY <1>1, <1>2
    <3> QED
      BY <2>1, <3>1, <3>2
  <2>3. PICK v : v = Append(w, child)
    OBVIOUS
  <2>4. ASSUME NEW i \in 1..(H + n) PROVE v[i] = t[home][i]
    <3>1. CASE i <= H
      <4>1. i \in 1..H /\ i \in 1..(H + (n - 1))
        BY <1>1, <1>2, <3>1
      <4> QED
        BY ONLY <1>4, <1>6, <2>1, <2>2, <2>3, <4>1, SMTT(30), ZenonT(60)
    <3>2. CASE i = H + n
      <4>1. n \in 1..n
        BY <1>2
      <4> QED
        BY <1>3, <1>6, <2>2, <2>3, <3>2, <4>1
    <3>3. CASE ~(i <= H) /\ i # H + n
      <4>1. PICK j \in 1..(n - 1) : i = H + j
        <5>1. i - H \in 1..(n - 1) /\ i = H + (i - H)
          BY <1>1, <1>2, <3>3, SMTT(30), ZenonT(30)
        <5> QED
          BY <5>1
      <4>2. j \in 1..n /\ i \in 1..(H + (n - 1))
        BY <1>1, <1>2, <4>1
      <4>3. t[home][i] = k[e][j]
        BY <1>6, <4>1, <4>2
      <4>4. v[i] = w[i] /\ w[i] = k[e][j]
        BY <1>4, <2>1, <2>2, <2>3, <4>1, <4>2
      <4> QED
        BY <4>3, <4>4
    <3> QED
      BY <3>1, <3>2, <3>3
  <2>5. t[home] \in Seq(Entities) /\ Len(t[home]) = H + n
    BY <1>6
  <2>6. v \in Seq(Entities) /\ Len(v) = H + n
    BY <2>2, <2>3
  <2>7. v = t[home]
    BY <2>4, <2>5, <2>6, SameSeq
  <2> QED
    BY <1>13, <2>1, <2>3, <2>7
<1>16. \A p \in Entities : a[p] = t[p]
  <2> SUFFICES ASSUME NEW p \in Entities PROVE a[p] = t[p]
    OBVIOUS
  <2>1. CASE p # e /\ p # home
    BY ONLY <1>4, <1>6, <1>11, <1>13, <2>1, ZenonT(60)
  <2> QED
    BY <1>14, <1>15, <2>1
<1>17. t = [p \in Entities |-> t[p]]
  BY <1>5 DEF Given
<1>18. a = t
  BY <1>13, <1>16, <1>17
<1> QED
  BY <1>3, <1>5, <1>7, <1>8, <1>9, <1>12, <1>18
-----------------------------------------------------------------------------
(* Before the first child is given away the lists are what they were.      *)
LEMMA GivenNone ==
  ASSUME NEW r, NEW k, Lists(r, k), NEW e \in Entities, NEW home \in Entities, home # e
  PROVE  Given(k, e, home, 0) = k
<1>1. PICK L \in Nat, H \in Nat : L = Len(k[e]) /\ H = Len(k[home])
  BY ListsOf
<1>2. PICK g : g = Given(k, e, home, 0)
  OBVIOUS
<1>3. 0 \in 0..L /\ L - 0 = L /\ H + 0 = H /\ \A i \in 1..L : 0 + i = i
  BY <1>1
<1>4. GivenAs(k, g, e, home, 0, L, H)
  BY <1>1, <1>2, <1>3, GivenOf
<1>5. /\ \A p \in Entities : g[p] \in Seq(Entities) /\ k[p] \in Seq(Entities)
      /\ \A p \in Entities : p # e /\ p # home => g[p] = k[p]
      /\ Len(g[e]) = L /\ \A i \in 1..L : g[e][i] = k[e][i]
      /\ Len(g[home]) = H /\ \A i \in 1..H : g[home][i] = k[home][i]
  <2>1. \A p \in Entities : k[p] \in Seq(Entities)
    BY ListsOf
  <2>2. \A i \in 1..L : g[e][i] = k[e][i]
    BY <1>3, <1>4 DEF GivenAs
  <2>3. Len(g[e]) = L /\ Len(g[home]) = H
    BY <1>3, <1>4 DEF GivenAs
  <2> QED
    BY <1>4, <2>1, <2>2, <2>3 DEF GivenAs
<1>6. g[e] = k[e]
  BY <1>1, <1>5, SameSeq, ZenonT(30), SMTT(30)
<1>7. g[home] = k[home]
  BY <1>1, <1>5, SameSeq, SMTT(30), ZenonT(30)
<1>8. \A p \in Entities : g[p] = k[p]
  BY <1>5, <1>6, <1>7
<1>9. k = [p \in Entities |-> k[p]] /\ g = [p \in Entities |-> g[p]]
  BY <1>2 DEF Lists, Given
<1> QED
  BY <1>2, <1>8, <1>9

(* Where the children go is an entity that is not among them. *)
LEMMA HomeIsApart ==
  ASSUME NEW r, NEW k, NEW live \in SUBSET Entities, NEW exact, Counted(r, live, exact),
         Tree(r, k, live), Acyclic(r), NEW e, Has(r, e), e # Root,
         NEW home, home = HomeOf(r, e)
  PROVE  /\ e \in live /\ home \in live /\ home # e
         /\ \A i \in 1..Len(k[e]) : Has(r, k[e][i]) => k[e][i] # home
         /\ home = ParentOf(r, e) \/ (home = Root /\ ParentOf(r, e) = Null)
<1>1. e \in Entities /\ e \in live
  BY DEF Has, Counted
<1>2. home = IF ParentOf(r, e) = Null THEN Root ELSE ParentOf(r, e)
  BY DEF HomeOf, ParentOf
<1>3. Root \in live /\ ~Listed(k, Root)
  BY DEF Tree, Living
<1>4. ParentOf(r, e) # Null => Has(r, ParentOf(r, e)) /\ ParentOf(r, e) \in Entities
  BY PlaceOf
<1>5. home \in live
  BY <1>2, <1>3, <1>4 DEF Counted
<1>6. CASE ParentOf(r, e) = Null
  <2>1. home = Root
    BY <1>2, <1>6
  <2>2. \A i \in 1..Len(k[e]) : k[e][i] # Root
    BY <1>1, <1>3 DEF Listed
  <2> QED
    BY <1>1, <1>5, <1>6, <2>1, <2>2
<1>7. CASE ParentOf(r, e) # Null
  <2>1. home = ParentOf(r, e) /\ home \in Entities
    BY <1>2, <1>4, <1>7
  <2>2. home # e
    <3>1. {e} \in SUBSET Entities /\ {e} # {}
      BY <1>1
    <3>2. \E x \in {e} : ParentOf(r, x) \notin {e}
      BY <3>1 DEF Acyclic
    <3> QED
      BY <2>1, <3>2
  <2>3. ASSUME NEW i \in 1..Len(k[e]), Has(r, k[e][i]), k[e][i] = home PROVE FALSE
    <3>1. ParentOf(r, home) = e
      BY <1>1, <2>3, PlaceOf
    <3>2. {e, home} \in SUBSET Entities /\ {e, home} # {}
      BY <1>1, <2>1
    <3>3. \E x \in {e, home} : ParentOf(r, x) \notin {e, home}
      BY <3>2 DEF Acyclic
    <3> QED
      BY <2>1, <3>1, <3>3
  <2> QED
    BY <1>1, <1>5, <2>1, <2>2, <2>3
<1> QED
  BY <1>6, <1>7

(* The children of e are given away one by one; as long as nothing faults  *)
(* the lists describe the registry, and nothing faults when every listed   *)
(* entity has a component.                                                 *)
LEMMA RehomingTree ==
  ASSUME alive \in SUBSET Entities, NEW r, NEW exact, Counted(r, alive, exact),
         NEW k, Tree(r, k, alive), Acyclic(r), NEW e, Has(r, e), e # Root,
         NEW home, home = HomeOf(r, e),
         NEW h, h = Rehoming(r, e), NEW list, list = Children(r, e)
  PROVE  /\ Complete(r, k) => ~h[Len(list)].fault
         /\ ~h[Len(list)].fault =>
              list = k[e] /\ Tree(h[Len(list)].r, Given(k, e, home, Len(k[e])), alive)
<1>0. /\ e \in Entities /\ e \in alive /\ home \in alive /\ home \in Entities /\ home # e
      /\ \A i \in 1..Len(k[e]) : Has(r, k[e][i]) => k[e][i] # home
  BY HomeIsApart
<1>1. /\ Lists(r, k) /\ Heads(r, k) /\ Members(r, k) /\ Typed(r)
      /\ Root \in alive /\ ~Listed(k, Root)
  BY DEF Tree, Lists, Living
<1>2. PICK L \in Nat : L = Len(list)
  BY <1>1, ChildrenInEntities
<1>3. /\ h[0] = [r |-> r, fault |-> Broken(r, e) \/ home \notin alive]
      /\ \A n \in 1..L : h[n] = Moved(h[n - 1], list[n], home)
      /\ \A n \in 0..L : h[n] \in [r : [Entities -> Relation \cup {Absent}], fault : BOOLEAN]
      /\ \A n \in 0..L : Counted(h[n].r, alive, exact)
      /\ \A n \in 0..L : h[n].fault \/ (home \in alive /\ ~Broken(r, e))
      /\ \A n \in 0..L : \A x : Has(r, x) => Has(h[n].r, x)
  <2>1. RehomingAs(r, e, exact, h, list, home)
    BY RehomingSteps
  <2> QED
    BY <1>2, <2>1 DEF RehomingAs
<1>4. Broken(r, e) \/ ((\A i \in 1..Len(k[e]) : Has(r, k[e][i])) /\ list = k[e])
  BY <1>1, Led
<1>5. Complete(r, k) => ~Broken(r, e)
  <2>1. Complete(r, k) => \A i \in 1..Len(k[e]) : Has(r, k[e][i])
    BY <1>0 DEF Complete, Listed
  <2> QED
    BY <1>1, <2>1, Led
<1> DEFINE P(n) == /\ Complete(r, k) => ~h[n].fault
                   /\ ~h[n].fault => list = k[e] /\ Tree(h[n].r, Given(k, e, home, n), alive)
           T == {n \in 0..L : P(n)}
<1>6. 0 \in T
  <2>1. h[0].r = r /\ h[0].fault = (Broken(r, e) \/ home \notin alive)
    BY <1>3
  <2>2. Given(k, e, home, 0) = k
    BY <1>0, <1>1, GivenNone
  <2>3. Complete(r, k) => ~h[0].fault
    BY <1>0, <1>5, <2>1
  <2>4. ~h[0].fault => list = k[e]
    BY <1>4, <2>1
  <2>5. Tree(h[0].r, Given(k, e, home, 0), alive)
    BY <2>1, <2>2
  <2>6. P(0)
    BY <2>3, <2>4, <2>5
  <2>7. 0 \in 0..L
    BY <1>2
  <2> QED
    BY <2>6, <2>7
<1>7. ASSUME NEW n \in 1..L, n - 1 \in T PROVE n \in T
  <2>1. n \in 0..L /\ n - 1 \in 0..L
    BY <1>2
  <2>2. P(n - 1)
    BY <1>7
  <2> HIDE DEF P
  <2> SUFFICES P(n)
    BY <2>1
  <2>3. PICK a, b : a = h[n - 1] /\ b = h[n]
    OBVIOUS
  <2>4. PICK child : child = list[n]
    OBVIOUS
  <2>5. b = IF a.fault \/ Faults(a.r, child, home) THEN [a EXCEPT !.fault = TRUE]
            ELSE [a EXCEPT !.r = Parented(a.r, child, home)]
    BY <1>3, <2>3, <2>4 DEF Moved
  <2>6. /\ a \in [r : [Entities -> Relation \cup {Absent}], fault : BOOLEAN]
        /\ Counted(a.r, alive, exact)
        /\ \A x : Has(r, x) => Has(a.r, x)
        /\ a.fault \/ ~Broken(r, e)
    BY <1>3, <2>1, <2>3
  <2>7. CASE a.fault
    <3>1. b.fault
      BY <2>5, <2>6, <2>7
    <3>2. ~Complete(r, k)
      BY <2>2, <2>3, <2>7 DEF P
    <3> QED
      BY <2>3, <3>1, <3>2 DEF P
  <2>8. CASE ~a.fault
    <3>1. PICK g : g = Given(k, e, home, n - 1)
      OBVIOUS
    <3>2. list = k[e] /\ Tree(a.r, g, alive)
      BY <2>2, <2>3, <2>8, <3>1 DEF P
    <3>3. \A i \in 1..Len(k[e]) : Has(r, k[e][i])
      BY <1>4, <2>6, <2>8
    <3>4. n \in 1..Len(k[e]) /\ n - 1 \in 0..Len(k[e]) /\ child = k[e][n] /\ Has(r, child) /\ Has(a.r, child)
      <4>1. Len(k[e]) = L
        BY <1>2, <3>2
      <4> QED
        BY <2>1, <2>4, <2>6, <3>2, <3>3, <4>1
    <3>5. child \in alive /\ child # Root /\ child # home
      <4>1. Listed(k, child)
        BY <1>0, <3>4 DEF Listed
      <4>2. child \in alive
        BY <3>4 DEF Counted, Has
      <4> QED
        BY <1>0, <1>1, <3>4, <4>1, <4>2
    <3>6. Lists(a.r, g) /\ Members(a.r, g)
      BY <3>2 DEF Tree
    <3>7. /\ 1 \in 1..Len(g[e]) /\ g[e][1] = child
          /\ \A i \in 1..Len(g[home]) : g[home][i] # child
          /\ Attach(Detach(g, child), home, child) = Given(k, e, home, n)
      BY <1>0, <1>1, <3>1, <3>4, <3>6, GivenNext
    <3>8. a.r[child].prev = Null
      BY <1>0, <3>4, <3>6, <3>7 DEF Members
    <3>9. Complete(r, k) => ~Faults(a.r, child, home)
      <4>1. \A x : Listed(g, x) => Listed(k, x)
        <5>1. FromLists(k, g, e, home)
          BY <1>0, <1>1, <3>1, <3>4, GivenListed
        <5> SUFFICES ASSUME NEW x, NEW p \in Entities, NEW i \in 1..Len(g[p]), g[p][i] = x
                     PROVE  \E q \in Entities : \E j \in 1..Len(k[q]) : k[q][j] = x
          BY DEF Listed
        <5>2. \/ i \in 1..Len(k[p]) /\ k[p][i] = x
              \/ \E j \in 1..Len(k[e]) : k[e][j] = x
          BY <5>1 DEF FromLists
        <5> QED
          BY <1>0, <5>2
      <4>2. Complete(r, k) => Complete(a.r, g)
        BY <2>6, <4>1 DEF Complete
      <4> QED
        BY <1>0, <2>6, <3>2, <3>5, <4>2, NoFaults
    <3>10. CASE Faults(a.r, child, home)
      <4>1. b.fault
        BY <2>5, <2>6, <3>10
      <4> QED
        BY <2>3, <3>9, <3>10, <4>1 DEF P
    <3>11. CASE ~Faults(a.r, child, home)
      <4>1. b.r = Parented(a.r, child, home) /\ b.fault = a.fault
        BY <2>5, <2>6, <2>8, <3>11
      <4>2. Tree(b.r, Attach(Detach(g, child), home, child), alive)
        BY <1>0, <2>6, <3>2, <3>5, <3>7, <3>8, <3>11, <4>1, TreeParented
      <4> QED
        BY <2>3, <2>8, <3>2, <3>7, <4>1, <4>2 DEF P
    <3> QED
      BY <3>10, <3>11
  <2> QED
    BY <2>7, <2>8
<1>8. L \in T
  <2> HIDE DEF T
  <2>1. 0..L \subseteq T
    BY <1>2, <1>6, <1>7, Steps
  <2> QED
    BY <1>2, <2>1
<1>9. P(L)
  BY <1>8
<1> QED
  BY <1>2, <1>9

(* In the rehomed registry every parent is the old one, or the new home of *)
(* a former child.                                                         *)
LEMMA AcyclicRehomed ==
  ASSUME NEW r, NEW k, NEW live \in SUBSET Entities, NEW exact, Counted(r, live, exact),
         Tree(r, k, live), Acyclic(r), NEW e, Has(r, e), e # Root,
         NEW home, home = HomeOf(r, e), \A i \in 1..Len(k[e]) : Has(r, k[e][i]),
         NEW s, Counted(s, live, exact),
         Tree(s, Given(k, e, home, Len(k[e])), live)
  PROVE  Acyclic(s) /\ \A i \in 1..Len(Given(k, e, home, Len(k[e]))[e]) : FALSE
<1>0. /\ e \in live /\ home \in live /\ home # e /\ e \in Entities /\ home \in Entities
      /\ \A i \in 1..Len(k[e]) : Has(r, k[e][i]) => k[e][i] # home
      /\ home = ParentOf(r, e) \/ (home = Root /\ ParentOf(r, e) = Null)
  BY HomeIsApart
<1>1. Lists(r, k) /\ ~Listed(k, Root)
  BY DEF Tree, Living
<1>2. PICK L \in Nat, H \in Nat : L = Len(k[e]) /\ H = Len(k[home])
  BY <1>0, <1>1, ListsOf
<1>3. L \in 0..L /\ L - L = 0
  BY <1>2
<1>4. PICK g : g = Given(k, e, home, L)
  OBVIOUS
<1>5. GivenAs(k, g, e, home, L, L, H)
  BY <1>0, <1>1, <1>2, <1>3, <1>4, GivenOf
<1>6. Len(g[e]) = 0
  BY <1>3, <1>5 DEF GivenAs
<1>7. Tree(s, g, live)
  BY <1>2, <1>4
<1>8. FromLists(k, g, e, home)
  BY <1>0, <1>1, <1>2, <1>3, <1>4, GivenListed
<1>9. ASSUME NEW x \in Entities, ParentOf(s, x) # Null
      PROVE  \/ /\ ParentOf(s, x) # e
                /\ \E i \in 1..Len(k[ParentOf(s, x)]) : k[ParentOf(s, x)][i] = x
             \/ /\ ParentOf(s, x) = home
                /\ \E j \in 1..Len(k[e]) : k[e][j] = x
  <2>1. PICK p \in Entities : p = ParentOf(s, x) /\ \E i \in 1..Len(g[p]) : g[p][i] = x
    BY <1>7, <1>9, PlaceOf
  <2>2. PICK i \in 1..Len(g[p]) : g[p][i] = x
    BY <2>1
  <2>3. p # e
    BY <1>6, <2>2
  <2> QED
    BY ONLY <1>8, <2>1, <2>2, <2>3, SMTT(30), ZenonT(60) DEF FromLists
<1>10. ASSUME NEW x \in Entities, ParentOf(s, x) # Null, Has(r, x)
       PROVE  ParentOf(s, x) = ParentOf(r, x) \/ (ParentOf(s, x) = home /\ ParentOf(r, x) = e)
  <2>1. PICK p : p = ParentOf(s, x)
    OBVIOUS
  <2>2. CASE p # e /\ \E i \in 1..Len(k[p]) : k[p][i] = x
    <3>1. p \in Entities
      BY <1>7, <1>10, <2>1, PlaceOf
    <3> QED
      BY <1>10, <2>1, <2>2, <3>1, PlaceOf
  <2>3. CASE p = home /\ \E j \in 1..Len(k[e]) : k[e][j] = x
    BY <1>0, <1>10, <2>1, <2>3, PlaceOf
  <2> QED
    BY <1>9, <1>10, <2>1, <2>2, <2>3
<1> SUFFICES Acyclic(s)
  BY <1>2, <1>4, <1>6
<1> SUFFICES ASSUME NEW S \in SUBSET Entities, S # {}, \A x \in S : ParentOf(s, x) \in S
             PROVE  FALSE
  BY DEF Acyclic
<1>11. \A x \in S : ParentOf(s, x) # Null
  BY NullAssumption
<1>12. \A x \in S : Has(s, x)
  BY <1>11 DEF ParentOf
<1>13. Root \notin S
  <2>1. ~Listed(g, Root)
    BY <1>7 DEF Tree, Living
  <2>2. ASSUME ParentOf(s, Root) # Null PROVE FALSE
    <3>1. PICK p : p = ParentOf(s, Root)
      OBVIOUS
    <3>2. p \in Entities /\ \E i \in 1..Len(g[p]) : g[p][i] = Root
      BY <1>7, <2>2, <3>1, PlaceOf
    <3> QED
      BY <2>1, <3>2 DEF Listed
  <2> QED
    BY <1>11, <2>2
<1>14. ASSUME NEW x \in S
       PROVE  \/ ParentOf(s, x) = ParentOf(r, x)
              \/ ParentOf(s, x) = home /\ ParentOf(r, x) = e
  <2>1. PICK p : p = ParentOf(s, x)
    OBVIOUS
  <2>2. p # Null /\ x \in Entities
    BY <1>11, <2>1
  <2>3. p \in Entities
    BY <1>7, <2>1, <2>2, PlaceOf
  <2>4. \E q \in Entities : \E i \in 1..Len(k[q]) : k[q][i] = x
    BY <1>0, <1>9, <2>1, <2>2, <2>3
  <2>5. x \in live /\ Listed(k, x)
    BY <1>12, <2>2, <2>4 DEF Counted, Listed
  <2>6. Has(r, x)
    BY <2>5 DEF Tree, Living
  <2> QED
    BY <1>10, <2>1, <2>2, <2>6
<1>15. CASE \A x \in S : ParentOf(s, x) = ParentOf(r, x)
  BY <1>15 DEF Acyclic
<1>16. CASE \E x \in S : ParentOf(s, x) = home /\ ParentOf(r, x) = e
  <2>1. home \in S /\ home # Root
    BY <1>13, <1>16
  <2>2. ParentOf(r, e) = home
    BY <1>0, <2>1
  <2>3. \A x \in S \cup {e} : ParentOf(r, x) \in S \cup {e}
    BY <1>14, <2>1, <2>2
  <2>4. S \cup {e} \in SUBSET Entities /\ S \cup {e} # {}
    BY <1>0
  <2> QED
    BY <2>3, <2>4 DEF Acyclic
<1> QED
  BY <1>14, <1>15, <1>16
-----------------------------------------------------------------------------
(* The children the enumerations meet: kids of OrderedForest.              *)
Kids(r) == [e \in Entities |-> IF Has(r, e) THEN Children(r, e) ELSE << >>]

(* When no listed entity lacks a component, the lists are the children the *)
(* enumeration meets.                                                      *)
LEMMA KidsOf ==
  ASSUME NEW r, NEW k, NEW live, Tree(r, k, live), Complete(r, k)
  PROVE  /\ Kids(r) = k
         /\ \A p : Has(r, p) => ~Broken(r, p) /\ ~SelfLinked(r, p) /\ Children(r, p) = k[p]
<1>1. Lists(r, k) /\ Heads(r, k) /\ Members(r, k)
  BY DEF Tree
<1>2. \A p \in Entities : \A i \in 1..Len(k[p]) : Has(r, k[p][i])
  BY DEF Complete, Listed
<1>3. ASSUME NEW p, Has(r, p)
      PROVE  ~Broken(r, p) /\ ~SelfLinked(r, p) /\ Children(r, p) = k[p]
  <2>1. p \in Entities
    BY <1>3 DEF Has
  <2> QED
    BY <1>1, <1>2, <1>3, <2>1, Led
<1>4. ASSUME NEW p \in Entities, ~Has(r, p) PROVE k[p] = << >>
  <2>1. Len(k[p]) = 0 /\ k[p] \in Seq(Entities)
    BY <1>1, <1>4, ListsOf DEF Lists
  <2> QED
    BY <2>1, EmptySeq
<1>5. k = [p \in Entities |-> k[p]]
  BY <1>1 DEF Lists
<1>6. Kids(r) = [p \in Entities |-> k[p]]
  BY <1>3, <1>4 DEF Kids
<1> QED
  BY <1>3, <1>5, <1>6

(* set_parent lists nobody who was destroyed.                              *)
LEMMA CompleteAttached ==
  ASSUME NEW r, NEW k, NEW live \in SUBSET Entities, Tree(r, k, live), Complete(r, k),
         NEW child \in live, NEW parent \in Entities,
         \A i \in 1..Len(k[parent]) : k[parent][i] # child,
         NEW s, \A x : Has(r, x) => Has(s, x),
         NEW g, g = Attach(Detach(k, child), parent, child), Tree(s, g, live)
  PROVE  Complete(s, g)
<1>1. PICK m : m = Detach(k, child)
  OBVIOUS
<1>2. m[parent] = k[parent] /\ \A y : Listed(m, y) => Listed(k, y)
  BY <1>1, ListsMoved
<1>3. m = [p \in Entities |-> m[p]]
  BY <1>1 DEF Detach
<1>4. /\ \A p \in Entities : p # parent => g[p] = m[p]
      /\ g[parent] = Append(m[parent], child)
  BY <1>1, <1>3 DEF Attach
<1>5. PICK w : w = k[parent] /\ w \in Seq(Entities) /\ Len(w) \in Nat
  BY ListsOf DEF Tree
<1>6. /\ Len(Append(w, child)) = Len(w) + 1
      /\ \A i \in 1..Len(w) : Append(w, child)[i] = w[i]
      /\ Append(w, child)[Len(w) + 1] = child
  BY <1>5, AppendProperties
<1>7. child \in Entities
  OBVIOUS
<1> SUFFICES ASSUME NEW p \in Entities, NEW i \in 1..Len(g[p]) PROVE Has(s, g[p][i])
  BY DEF Complete, Listed
<1>8. CASE p # parent
  <2>1. Listed(m, g[p][i])
    BY <1>4, <1>8 DEF Listed
  <2> QED
    BY <1>2, <2>1 DEF Complete
<1>9. CASE p = parent
  <2>1. i \in 1..(Len(w) + 1) /\ g[p][i] = Append(w, child)[i]
    BY <1>2, <1>4, <1>5, <1>6, <1>9
  <2>2. CASE i = Len(w) + 1
    <3>1. g[p][i] = child
      BY <1>6, <2>1, <2>2
    <3>2. Listed(g, child)
      BY <3>1 DEF Listed
    <3> QED
      BY <3>1, <3>2 DEF Tree, Living
  <2>3. CASE i # Len(w) + 1
    <3>1. i \in 1..Len(w)
      BY <1>5, <2>1, <2>3
    <3>2. g[p][i] = w[i]
      BY <1>6, <2>1, <3>1
    <3>3. Listed(k, g[p][i])
      BY <1>5, <3>1, <3>2 DEF Listed
    <3> QED
      BY <3>3 DEF Complete
  <2> QED
    BY <2>2, <2>3
<1> QED
  BY <1>8, <1>9

(* Destroying entities that no survivor has as children leaves none        *)
(* listed.                                                                 *)
LEMMA CompleteGone ==
  ASSUME NEW r, NEW k, NEW live, Tree(r, k, live), Complete(r, k),
         NEW gone \in SUBSET Entities, ~Drops(r, gone), NEW s, GoneFrom(r, s, gone)
  PROVE  Complete(s, Pruned(k, gone))
<1>1. Typed(r)
  BY DEF Tree, Lists
<1>2. \A x : Has(s, x) <=> Has(r, x) /\ x \notin gone
  BY <1>1, GoneFields
<1>3. PICK m : m = Pruned(k, gone)
  OBVIOUS
<1>4. \A p \in Entities : p \notin gone => m[p] = k[p]
  BY <1>3 DEF Pruned
<1>5. \A p \in gone : Len(m[p]) = 0
  BY <1>3, EmptySeq DEF Pruned
<1> SUFFICES ASSUME NEW p \in Entities, NEW i \in 1..Len(m[p]) PROVE Has(s, m[p][i])
  BY <1>3 DEF Complete, Listed
<1>6. p \notin gone /\ m[p] = k[p]
  BY <1>4, <1>5
<1>7. Has(r, k[p][i])
  BY <1>6 DEF Complete, Listed
<1>8. ParentOf(r, k[p][i]) = p
  BY <1>6, <1>7, PlaceOf
<1>9. p # Null
  BY NullAssumption
<1>10. k[p][i] \notin gone
  BY <1>6, <1>8, <1>9 DEF Drops
<1> QED
  BY <1>2, <1>6, <1>7, <1>10
-----------------------------------------------------------------------------
(* The inductive invariant: as long as no chain was spliced, lists of      *)
(* children exist that the registry describes, and no entity is its own    *)
(* ancestor.                                                               *)
Sound(k) ==
  /\ Tree(rel, k, alive)
  /\ Acyclic(rel)
  /\ ~dropped => ~aborted /\ Complete(rel, k)

(* With the counts, which hold of a spliced tree too.                      *)
TreeInv == CountInv /\ (~spliced => \E k : Sound(k))

(* It holds of the empty registry, where every list is empty.              *)
LEMMA TreeInit == Init => TreeInv /\ Kids(rel) = [e \in Entities |-> << >>]
<1> SUFFICES ASSUME Init PROVE TreeInv /\ Kids(rel) = [e \in Entities |-> << >>]
  OBVIOUS
<1>1. CountInv
  BY CountInit
<1>2. Typed(rel) /\ \A x : ~Has(rel, x)
  BY DEF Init, Typed, Has
<1>3. PICK k : k = [e \in Entities |-> << >>]
  OBVIOUS
<1>4. k \in [Entities -> Seq(Entities)] /\ \A p \in Entities : Len(k[p]) = 0
  BY <1>3, EmptySeq
<1>5. \A x : ~Listed(k, x)
  BY <1>4 DEF Listed
<1>6. Lists(rel, k)
  BY <1>2, <1>4 DEF Lists
<1>7. Heads(rel, k) /\ Members(rel, k) /\ Loners(rel, k)
  BY <1>2, <1>4 DEF Heads, Members, Loners
<1>8. Living(rel, k, alive)
  BY <1>5, RootAssumption DEF Living, Init
<1>9. Acyclic(rel)
  BY <1>2, NullAssumption DEF Acyclic, ParentOf
<1>10. Complete(rel, k)
  BY <1>5 DEF Complete
<1>11. ~aborted
  BY DEF Init
<1>12. Tree(rel, k, alive)
  BY <1>6, <1>7, <1>8 DEF Tree
<1>13. Sound(k)
  BY <1>9, <1>10, <1>11, <1>12 DEF Sound
<1>14. Kids(rel) = k
  BY <1>10, <1>12, KidsOf
<1> QED
  BY <1>1, <1>3, <1>13, <1>14 DEF TreeInv

(* The steps of the ordered forest, from lists to lists. *)
ListStep(k, g) ==
  \/ g = k
  \/ \E child, parent \in Entities :
       child # parent /\ g = Attach(Detach(k, child), parent, child)
  \/ \E gone \in SUBSET Entities :
       (\A p \in gone : \A i \in 1..Len(k[p]) : k[p][i] \in gone) /\ g = Pruned(k, gone)
  \/ \E e \in Entities : g = [k EXCEPT ![Root] = @ \o k[e], ![e] = << >>]

(* set_parent keeps the tree.                                              *)
LEMMA TreeSetParent ==
  ASSUME CountInv, NEW k, Sound(k), NEW child \in Entities, NEW parent \in Entities,
         SetParent(child, parent), ~spliced'
  PROVE  \E g : Sound(g)' /\ (~dropped' => ListStep(k, g))
<1>1. /\ alive \in SUBSET Entities /\ Counted(rel, alive, ~dropped) /\ Typed(rel)
      /\ child \in alive /\ parent \in alive /\ child # Root
      /\ child \notin Lineage(rel, parent)
  BY DEF CountInv, TypeOK, Counted, SetParent
<1>2. Tree(rel, k, alive) /\ Acyclic(rel)
  BY DEF Sound
<1>3. child # parent
  <2>1. PICK D : D = Lineage(rel, parent)
    OBVIOUS
  <2>2. parent \in D
    BY <1>1, <2>1, Lineages
  <2> QED
    BY <1>1, <2>1, <2>2
<1>4. ~dropped => ~Faults(rel, child, parent)
  BY <1>1, <1>2, NoFaults DEF Sound
<1>5. CASE Faults(rel, child, parent)
  <2>1. dropped /\ UNCHANGED <<rel, alive, dropped>>
    BY <1>4, <1>5 DEF SetParent, Abort
  <2>2. Sound(k)'
    BY <1>2, <2>1 DEF Sound, Tree, Acyclic
  <2> QED
    BY <2>1, <2>2
<1>6. CASE ~Faults(rel, child, parent)
  <2>1. /\ rel' = Parented(rel, child, parent)
        /\ UNCHANGED <<alive, aborted, dropped>>
        /\ ~Splices(child, parent)
    BY <1>6 DEF SetParent
  <2>2. ~(/\ ParentOf(rel, child) # Null
          /\ ~Contains(Children(WithComponent(rel, parent), parent), child)
          /\ rel[child].prev # Null
          /\ rel[child].next # Null)
    BY <2>1 DEF Splices
  <2>3. PICK s : s = Parented(rel, child, parent)
    OBVIOUS
  <2>4. \A x : Has(rel, x) => Has(s, x)
    BY <1>1, <1>6, <2>3, ParentedCounted
  <2>5. Acyclic(s)
    <3>1. \/ \A x : ParentOf(s, x) = ParentOf(rel, x)
          \/ \A x : ParentOf(s, x) = IF x = child THEN parent ELSE ParentOf(rel, x)
      BY <1>1, <1>3, <1>6, <2>3, ParentedParents
    <3>2. CASE \A x : ParentOf(s, x) = ParentOf(rel, x)
      BY <1>2, <3>2 DEF Acyclic
    <3>3. CASE \A x : ParentOf(s, x) = IF x = child THEN parent ELSE ParentOf(rel, x)
      BY <1>1, <1>2, <3>3, AcyclicLinked
    <3> QED
      BY <3>1, <3>2, <3>3
  <2>6. \/ /\ Tree(s, k, alive)
           /\ \E i \in 1..Len(k[parent]) : k[parent][i] = child
        \/ /\ Tree(s, Attach(Detach(k, child), parent, child), alive)
           /\ \A i \in 1..Len(k[parent]) : k[parent][i] # child
    BY <1>1, <1>2, <1>3, <1>6, <2>2, <2>3, TreeParented
  <2>7. CASE Tree(s, k, alive)
    <3>1. Complete(rel, k) => Complete(s, k)
      BY <2>4 DEF Complete
    <3>2. Sound(k)'
      BY <2>1, <2>3, <2>5, <2>7, <3>1 DEF Sound
    <3> QED
      BY <3>2 DEF ListStep
  <2>8. CASE /\ Tree(s, Attach(Detach(k, child), parent, child), alive)
             /\ \A i \in 1..Len(k[parent]) : k[parent][i] # child
    <3>1. PICK g : g = Attach(Detach(k, child), parent, child)
      OBVIOUS
    <3>2. Complete(rel, k) => Complete(s, g)
      BY <1>1, <1>2, <2>4, <2>8, <3>1, CompleteAttached
    <3>3. Sound(g)'
      BY <2>1, <2>3, <2>5, <2>8, <3>1, <3>2 DEF Sound
    <3>4. ListStep(k, g)
      BY <1>3, <3>1 DEF ListStep
    <3> QED
      BY <3>3, <3>4
  <2> QED
    BY <2>6, <2>7, <2>8
<1> QED
  BY <1>5, <1>6

(* What the destruction of entities leaves, whatever was done before it. *)
LEMMA SoundGone ==
  ASSUME alive \in SUBSET Entities, NEW r, NEW k, Tree(r, k, alive), Acyclic(r),
         ~dropped => Complete(r, k),
         NEW gone \in SUBSET Entities, Root \notin gone,
         \A p \in gone : \A i \in 1..Len(k[p]) : k[p][i] \in gone,
         GoneFrom(r, rel', gone), alive' = alive \ gone,
         dropped' = (dropped \/ Drops(r, gone)),
         ~dropped' => ~aborted'
  PROVE  Sound(Pruned(k, gone))'
<1>1. PICK g, s : g = Pruned(k, gone) /\ s = rel'
  OBVIOUS
<1>2. Tree(s, g, alive \ gone)
  BY <1>1, TreeGone
<1>3. Acyclic(s)
  <2>1. Typed(r)
    BY DEF Tree, Lists
  <2>2. \A x : ParentOf(s, x) = IF x \in gone THEN Null ELSE ParentOf(r, x)
    BY <1>1, <2>1, GoneFields
  <2>3. \A x : ParentOf(s, x) = ParentOf(r, x) \/ ParentOf(s, x) = Null
    BY <2>2
  <2> QED
    BY <2>3, AcyclicGone
<1>4. ~dropped' => Complete(s, g)
  <2>1. ASSUME ~dropped' PROVE Complete(s, g)
    <3>1. ~dropped /\ ~Drops(r, gone)
      BY <2>1
    <3> QED
      BY <1>1, <3>1, CompleteGone
  <2> QED
    BY <2>1
<1>5. Sound(g)'
  BY <1>1, <1>2, <1>3, <1>4 DEF Sound
<1> QED
  BY <1>1, <1>5
-----------------------------------------------------------------------------
(* Destroying the children recursively takes every listed child along. *)
LEMMA SubtreeClosed ==
  ASSUME NEW r, NEW k, NEW live \in SUBSET Entities, Tree(r, k, live), NEW e \in Entities, e # Root,
         NEW gone, gone = Subtree(r, e)
  PROVE  /\ gone \in SUBSET Entities
         /\ Root \notin gone
         /\ ~SubtreeFaults(r, e) => \A p \in gone : \A i \in 1..Len(k[p]) : k[p][i] \in gone
         /\ Complete(r, k) => ~SubtreeFaults(r, e)
<1>1. Lists(r, k) /\ Heads(r, k) /\ Members(r, k) /\ Typed(r) /\ ~Listed(k, Root)
  BY DEF Tree, Lists, Living
<1>2. /\ gone \in SUBSET Entities
      /\ e \in gone
      /\ \A x \in gone : Has(r, x) => ToSet(Children(r, x)) \subseteq gone
      /\ \A x \in gone : x # e => \E y \in gone : Has(r, y) /\ x \in ToSet(Children(r, y))
  BY <1>1, Subtrees
<1>3. ASSUME NEW y, Has(r, y)
      PROVE  ToSet(Children(r, y)) = {Children(r, y)[i] : i \in 1..Len(Children(r, y))}
  BY <1>1, <1>3, ChildrenInEntities DEF ToSet
<1>4. ASSUME NEW y, Has(r, y), NEW x \in ToSet(Children(r, y))
      PROVE  y \in Entities /\ \E j \in 1..Len(k[y]) : k[y][j] = x
  <2>1. y \in Entities
    BY <1>4 DEF Has
  <2>2. PICK i \in 1..Len(Children(r, y)) : x = Children(r, y)[i]
    BY <1>3, <1>4
  <2>3. \E j \in 1..Len(k[y]) : Children(r, y)[i] = k[y][j]
    BY <1>1, <1>4, Led
  <2> QED
    BY <2>1, <2>2, <2>3
<1>5. Root \notin gone
  BY <1>1, <1>2, <1>4 DEF Listed
<1>6. ASSUME ~SubtreeFaults(r, e), NEW p \in gone, NEW i \in 1..Len(k[p]) PROVE k[p][i] \in gone
  <2>1. Has(r, p)
    <3>1. p \in Entities
      BY <1>2
    <3>2. Len(k[p]) \in Nat
      BY <1>1, <3>1, ListsOf
    <3>3. Len(k[p]) # 0
      BY <3>2
    <3> QED
      BY <1>1, <3>1, <3>3 DEF Lists
  <2>2. ~Broken(r, p)
    BY <1>6, <2>1 DEF SubtreeFaults
  <2>3. Children(r, p) = k[p]
    BY <1>1, <2>1, <2>2, Led
  <2>4. k[p][i] \in ToSet(Children(r, p))
    BY <1>3, <2>1, <2>3
  <2> QED
    BY <1>2, <2>1, <2>4
<1>7. ASSUME Complete(r, k) PROVE ~SubtreeFaults(r, e)
  <2>1. \A x : Has(r, x) => ~Broken(r, x)
    BY <1>7, KidsOf
  <2>2. ASSUME NEW x, NEW y, Has(r, x), Has(r, y), x # y,
               NEW c \in ToSet(Children(r, x)), c \in ToSet(Children(r, y))
        PROVE  FALSE
    <3>1. x \in Entities /\ \E j \in 1..Len(k[x]) : k[x][j] = c
      BY <1>4, <2>2
    <3>2. y \in Entities /\ \E j \in 1..Len(k[y]) : k[y][j] = c
      BY <1>4, <2>2
    <3> QED
      BY <1>1, <2>2, <3>1, <3>2 DEF Lists
  <2> QED
    BY <2>1, <2>2 DEF SubtreeFaults
<1> QED
  BY <1>2, <1>5, <1>6, <1>7

(* The lists after the children of e went to the root and e was destroyed. *)
LEMMA Dissolved ==
  ASSUME NEW r, NEW k, Lists(r, k), NEW e \in Entities, e # Root
  PROVE  Pruned(Given(k, e, Root, Len(k[e])), {e}) = [k EXCEPT ![Root] = @ \o k[e], ![e] = << >>]
<1>1. PICK L \in Nat, H \in Nat : L = Len(k[e]) /\ H = Len(k[Root])
  BY ListsOf, RootAssumption
<1>2. PICK g : g = Given(k, e, Root, L)
  OBVIOUS
<1>3. GivenAs(k, g, e, Root, L, L, H)
  <2>1. L \in 0..L
    BY <1>1
  <2> QED
    BY <1>1, <1>2, <2>1, GivenOf, RootAssumption
<1>4. PICK t : t = [k EXCEPT ![Root] = @ \o k[e], ![e] = << >>]
  OBVIOUS
<1>5. k = [p \in Entities |-> k[p]]
  BY DEF Lists
<1>6. /\ t = [p \in Entities |-> t[p]]
      /\ t[e] = << >>
      /\ t[Root] = k[Root] \o k[e]
      /\ \A p \in Entities : p # e /\ p # Root => t[p] = k[p]
  BY <1>4, <1>5, RootAssumption
<1>7. PICK v, w : v = k[Root] /\ w = k[e] /\ v \in Seq(Entities) /\ w \in Seq(Entities)
                  /\ Len(v) = H /\ Len(w) = L
  BY <1>1, ListsOf, RootAssumption
<1>8. g[Root] = v \o w
  <2>1. PICK c : c = v \o w
    OBVIOUS
  <2>2. /\ c \in Seq(Entities)
        /\ Len(c) = H + L
        /\ \A i \in 1..(H + L) : c[i] = IF i <= H THEN v[i] ELSE w[i - H]
    <3>1. /\ v \o w \in Seq(Entities)
          /\ Len(v \o w) = Len(v) + Len(w)
          /\ \A i \in 1..(Len(v) + Len(w)) :
               (v \o w)[i] = IF i <= Len(v) THEN v[i] ELSE w[i - Len(v)]
      BY <1>7, ConcatProperties, ZenonT(60)
    <3> QED
      BY <1>7, <2>1, <3>1
  <2>3. /\ g[Root] \in Seq(Entities)
        /\ Len(g[Root]) = H + L
        /\ \A i \in 1..H : g[Root][i] = v[i]
        /\ \A i \in 1..L : g[Root][H + i] = w[i]
    BY <1>3, <1>7, RootAssumption DEF GivenAs
  <2>4. ASSUME NEW i \in 1..(H + L) PROVE g[Root][i] = c[i]
    <3>1. CASE i <= H
      <4>1. i \in 1..H
        BY <1>1, <3>1
      <4> QED
        BY <2>2, <2>3, <3>1, <4>1
    <3>2. CASE ~(i <= H)
      <4>1. PICK j \in 1..L : i = H + j /\ i - H = j
        <5>1. L \in Nat /\ H \in Nat /\ i \in 1..(H + L)
          OBVIOUS
        <5>2. i - H \in 1..L /\ i = H + (i - H)
          BY <3>2, <5>1
        <5> QED
          BY <5>2
      <4>2. g[Root][i] = w[j]
        BY <2>3, <4>1
      <4>3. c[i] = w[j]
        BY <2>2, <3>2, <4>1
      <4> QED
        BY <4>2, <4>3
    <3> QED
      BY <3>1, <3>2
  <2>5. g[Root] = c
    BY <2>2, <2>3, <2>4, SameSeq
  <2> QED
    BY <2>1, <2>5
<1>9. PICK m : m = Pruned(g, {e})
  OBVIOUS
<1>10. /\ m = [p \in Entities |-> m[p]]
       /\ m[e] = << >>
       /\ \A p \in Entities : p # e => m[p] = g[p]
  BY <1>9 DEF Pruned
<1>11. \A p \in Entities : p # e /\ p # Root => g[p] = k[p]
  BY <1>3 DEF GivenAs
<1>12. m[Root] = t[Root]
  BY <1>6, <1>7, <1>8, <1>10, RootAssumption
<1>13. \A p \in Entities : m[p] = t[p]
  <2> SUFFICES ASSUME NEW p \in Entities PROVE m[p] = t[p]
    OBVIOUS
  <2>1. CASE p = e
    BY <1>6, <1>10, <2>1
  <2>2. CASE p = Root
    BY <1>12, <2>2
  <2>3. CASE p # e /\ p # Root
    BY <1>6, <1>10, <1>11, <2>3
  <2> QED
    BY <2>1, <2>2, <2>3
<1>14. m = t
  BY <1>6, <1>10, <1>13
<1> QED
  BY <1>1, <1>2, <1>4, <1>9, <1>14

(* What a rehoming that comes to its end leaves.                           *)
LEMMA RehomedWhole ==
  ASSUME alive \in SUBSET Entities, NEW r, NEW exact, Counted(r, alive, exact),
         NEW e, Has(r, e), NEW result, result = Rehomed(r, e), ~result.fault
  PROVE  /\ Counted(result.r, alive, exact)
         /\ ~Broken(r, e)
         /\ \A x : Has(r, x) => Has(result.r, x)
<1>1. PICK h : h = Rehoming(r, e)
  OBVIOUS
<1>2. PICK list : list = Children(r, e)
  OBVIOUS
<1>3. PICK home : home = HomeOf(r, e)
  OBVIOUS
<1>4. PICK L \in Nat : L = Len(list)
  BY <1>2, ChildrenInEntities DEF Counted
<1>5. /\ \A n \in 0..L : Counted(h[n].r, alive, exact)
      /\ \A n \in 0..L : h[n].fault \/ (home \in alive /\ ~Broken(r, e))
      /\ \A n \in 0..L : \A x : Has(r, x) => Has(h[n].r, x)
  <2>1. RehomingAs(r, e, exact, h, list, home)
    BY <1>1, <1>2, <1>3, RehomingSteps
  <2> QED
    BY <1>4, <2>1 DEF RehomingAs
<1>6. result = h[L] /\ L \in 0..L
  BY <1>1, <1>2, <1>4 DEF Rehomed
<1> QED
  BY <1>5, <1>6

(* The destruction of an entity keeps the tree, under either policy.       *)
LEMMA TreeDestroy ==
  ASSUME CountInv, NEW k, Sound(k), NEW e \in Entities, Destroy(e), ~spliced'
  PROVE  \E g : Sound(g)' /\ (~dropped' => ListStep(k, g))
<1>1. /\ alive \in SUBSET Entities /\ Counted(rel, alive, ~dropped) /\ Typed(rel)
      /\ e \in alive /\ e # Root /\ ~aborted
  BY DEF CountInv, TypeOK, Counted, Destroy
<1>2. Tree(rel, k, alive) /\ Acyclic(rel) /\ (~dropped => Complete(rel, k))
  BY DEF Sound
<1>3. /\ Lists(rel, k) /\ Heads(rel, k) /\ Members(rel, k)
      /\ k \in [Entities -> Seq(Entities)]
  BY <1>2 DEF Tree, Lists
<1>4. rel = [x \in Entities |-> rel[x]]
  BY <1>1 DEF Typed
(* A set of entities goes, and the rest of the registry stays as it is. *)
<1>5. ASSUME NEW gone \in SUBSET Entities, Root \notin gone,
             \A p \in gone : \A i \in 1..Len(k[p]) : k[p][i] \in gone,
             GoneFrom(rel, rel', gone), alive' = alive \ gone,
             dropped' = (dropped \/ Drops(rel, gone)),
             ~dropped' => ~aborted'
      PROVE  \E g : Sound(g)' /\ (~dropped' => ListStep(k, g))
  <2>1. Sound(Pruned(k, gone))'
    BY <1>1, <1>2, <1>5, SoundGone
  <2>2. ListStep(k, Pruned(k, gone))
    BY <1>5 DEF ListStep
  <2> QED
    BY <2>1, <2>2
<1>6. CASE ~Has(rel, e)
  <2>1. alive' = alive \ {e} /\ rel' = rel /\ UNCHANGED <<aborted, dropped>>
    BY <1>6 DEF Destroy
  <2>2. GoneFrom(rel, rel', {e})
    <3>1. rel[e] = Absent
      BY <1>6 DEF Has
    <3>2. \A x \in Entities : rel[x] = IF x \in {e} THEN Absent ELSE rel[x]
      BY <3>1
    <3> QED
      BY <1>4, <2>1, <3>2 DEF GoneFrom
  <2>3. ~Drops(rel, {e})
    BY <1>6 DEF Drops, ParentOf
  <2>4. Len(k[e]) = 0
    BY <1>3, <1>6 DEF Lists
  <2>5. \A p \in {e} : \A i \in 1..Len(k[p]) : k[p][i] \in {e}
    BY <2>4
  <2>6. dropped' = (dropped \/ Drops(rel, {e})) /\ (~dropped' => ~aborted')
    BY <1>1, <2>1, <2>3 DEF CountInv, TypeOK
  <2>7. {e} \in SUBSET Entities /\ Root \notin {e}
    BY <1>1
  <2> QED
    BY <1>5, <2>1, <2>2, <2>5, <2>6, <2>7
<1>7. CASE Has(rel, e) /\ destroyChildren
  <2>1. PICK D : D = Subtree(rel, e)
    OBVIOUS
  <2>2. PICK gone : gone = IF SubtreeFaults(rel, e) THEN {} ELSE D
    OBVIOUS
  <2>3. /\ aborted' = SubtreeFaults(rel, e)
        /\ alive' = alive \ gone
        /\ rel' = [x \in Entities |-> IF x \in gone THEN Absent ELSE rel[x]]
        /\ dropped' = (dropped \/ Drops(rel, gone))
    BY <1>7, <2>1, <2>2 DEF Destroy
  <2>4. /\ D \in SUBSET Entities
        /\ Root \notin D
        /\ ~SubtreeFaults(rel, e) => \A p \in D : \A i \in 1..Len(k[p]) : k[p][i] \in D
        /\ Complete(rel, k) => ~SubtreeFaults(rel, e)
    BY <1>1, <1>2, <2>1, SubtreeClosed
  <2>5. /\ gone \in SUBSET Entities /\ Root \notin gone
        /\ \A p \in gone : \A i \in 1..Len(k[p]) : k[p][i] \in gone
    BY <2>2, <2>4
  <2>6. ~dropped' => ~aborted'
    BY <1>2, <2>3, <2>4
  <2>7. GoneFrom(rel, rel', gone)
    BY <2>3 DEF GoneFrom
  <2> QED
    BY <1>5, <2>3, <2>5, <2>6, <2>7
<1>8. CASE Has(rel, e) /\ ~destroyChildren
  <2>1. PICK h, list, home : h = Rehoming(rel, e) /\ list = Children(rel, e) /\ home = HomeOf(rel, e)
    OBVIOUS
  <2>2. PICK result : result = h[Len(list)] /\ result = Rehomed(rel, e)
    BY <2>1 DEF Rehomed
  <2>3. /\ Complete(rel, k) => ~result.fault
        /\ ~result.fault => list = k[e] /\ Tree(result.r, Given(k, e, home, Len(k[e])), alive)
    <3>1. /\ Complete(rel, k) => ~h[Len(list)].fault
          /\ ~h[Len(list)].fault =>
               list = k[e] /\ Tree(h[Len(list)].r, Given(k, e, home, Len(k[e])), alive)
      BY <1>1, <1>2, <1>8, <2>1, RehomingTree
    <3> QED
      BY <2>2, <3>1
  <2>4. PICK gone : gone = IF result.fault THEN {} ELSE {e}
    OBVIOUS
  <2>5. /\ aborted' = result.fault
        /\ alive' = alive \ gone
        /\ rel' = IF result.fault THEN rel ELSE [result.r EXCEPT ![e] = Absent]
        /\ dropped' = (dropped \/ Drops(result.r, gone))
    BY <1>8, <2>2, <2>4 DEF Destroy
  <2>6. CASE result.fault
    <3>1. gone = {}
      BY <2>4, <2>6
    <3>2. ~Drops(result.r, gone) /\ ~Drops(rel, gone)
      BY <3>1 DEF Drops
    <3>3. GoneFrom(rel, rel', gone)
      BY <1>4, <2>5, <2>6, <3>1 DEF GoneFrom
    <3>4. ~dropped' => ~aborted'
      BY <1>2, <2>3, <2>5, <2>6
    <3>5. dropped' = (dropped \/ Drops(rel, gone))
      BY <2>5, <3>2
    <3> QED
      BY <1>5, <2>5, <3>1, <3>3, <3>4, <3>5
  <2>7. CASE ~result.fault
    <3>1. PICK g : g = Given(k, e, home, Len(k[e]))
      OBVIOUS
    <3>2. gone = {e} /\ list = k[e] /\ Tree(result.r, g, alive)
      BY <2>3, <2>4, <2>7, <3>1
    <3>3. /\ home # e /\ home \in Entities
          /\ home = ParentOf(rel, e) \/ (home = Root /\ ParentOf(rel, e) = Null)
      BY <1>1, <1>2, <1>8, <2>1, HomeIsApart
    <3>4. Len(list) \in Nat
      BY <1>1, <1>8, <2>1, ChildrenInEntities
    <3>5. /\ Counted(result.r, alive, ~dropped)
          /\ ~Broken(rel, e)
          /\ \A x : Has(rel, x) => Has(result.r, x)
      BY <1>1, <1>8, <2>2, <2>7, RehomedWhole
    <3>6. \A i \in 1..Len(k[e]) : Has(rel, k[e][i])
      BY <1>3, <1>8, <3>5, Led
    <3>7. Acyclic(result.r) /\ \A i \in 1..Len(g[e]) : FALSE
      BY <1>1, <1>2, <1>8, <2>1, <3>1, <3>2, <3>5, <3>6, AcyclicRehomed
    <3>8. FromLists(k, g, e, home)
      <4>1. Len(k[e]) \in 0..Len(k[e])
        BY <3>2, <3>4
      <4> QED
        BY <1>3, <3>1, <3>3, <4>1, GivenListed
    <3>9. Complete(rel, k) => Complete(result.r, g)
      <4> SUFFICES ASSUME Complete(rel, k), NEW p \in Entities, NEW i \in 1..Len(g[p])
                   PROVE  Has(result.r, g[p][i])
        BY DEF Complete, Listed
      <4>1. \/ p # e /\ i \in 1..Len(k[p]) /\ g[p][i] = k[p][i]
            \/ \E j \in 1..Len(k[e]) : g[p][i] = k[e][j]
        BY <3>8 DEF FromLists
      <4>2. Has(rel, g[p][i])
        BY <3>6, <4>1 DEF Complete, Listed
      <4> QED
        BY <3>5, <4>2
    <3>10. GoneFrom(result.r, rel', {e})
      <4>1. rel' = [result.r EXCEPT ![e] = Absent]
        BY <2>5, <2>7
      <4>2. result.r = [x \in Entities |-> result.r[x]]
        BY <3>5 DEF Counted, Typed
      <4> QED
        BY <4>1, <4>2 DEF GoneFrom
    <3>11. Sound(Pruned(g, {e}))'
      <4>1. {e} \in SUBSET Entities /\ Root \notin {e}
        BY <1>1
      <4>2. \A p \in {e} : \A i \in 1..Len(g[p]) : g[p][i] \in {e}
        BY <3>7
      <4>3. ~dropped => Complete(result.r, g)
        BY <1>2, <3>9
      <4>4. ~dropped' => ~aborted'
        BY <2>5, <2>7
      <4> QED
        BY <1>1, <2>5, <3>2, <3>7, <3>10, <4>1, <4>2, <4>3, <4>4, SoundGone
    <3>12. ASSUME ~dropped' PROVE ListStep(k, Pruned(g, {e}))
      <4>1. ~Drops(result.r, {e})
        BY <2>5, <3>2, <3>12
      <4>2. ParentOf(result.r, e) = Null
        <5>1. {e} \in SUBSET Entities /\ {e} # {}
          OBVIOUS
        <5>2. \E x \in {e} : ParentOf(result.r, x) \notin {e}
          BY <3>7, <5>1 DEF Acyclic
        <5> QED
          BY <4>1, <5>2 DEF Drops
      <4>3. ~Listed(g, e)
        BY <1>8, <3>2, <3>5, <4>2, PlaceOf
      <4>4. home = Root
        <5> SUFFICES ASSUME ParentOf(rel, e) # Null, home = ParentOf(rel, e) PROVE FALSE
          BY <3>3, NullAssumption
        <5>1. \E i \in 1..Len(k[home]) : k[home][i] = e
          BY <1>2, PlaceOf
        <5>2. PICK i \in 1..Len(k[home]) : k[home][i] = e
          BY <5>1
        <5>3. PICK L \in Nat, H \in Nat : L = Len(k[e]) /\ H = Len(k[home])
          BY <1>3, <3>3, ListsOf
        <5>4. GivenAs(k, g, e, home, L, L, H)
          <6>1. L \in 0..L
            BY <5>3
          <6> QED
            BY <1>3, <3>1, <3>3, <5>3, <6>1, GivenOf
        <5>5. i \in 1..Len(g[home]) /\ g[home][i] = e
          <6>1. Len(g[home]) = H + L /\ i \in 1..H /\ g[home][i] = k[home][i]
            BY <5>2, <5>3, <5>4 DEF GivenAs
          <6>2. H \in Nat /\ L \in Nat /\ i \in 1..H
            BY <6>1
          <6>3. i \in 1..(H + L)
            BY <6>2
          <6> QED
            BY <5>2, <6>1, <6>3
        <5> QED
          BY <3>3, <4>3, <5>5 DEF Listed
      <4>5. Pruned(g, {e}) = [k EXCEPT ![Root] = @ \o k[e], ![e] = << >>]
        BY <1>1, <1>3, <3>1, <4>4, Dissolved
      <4> QED
        BY <4>5 DEF ListStep
    <3> QED
      BY <3>11, <3>12
  <2> QED
    BY <2>6, <2>7
<1> QED
  BY <1>6, <1>7, <1>8
-----------------------------------------------------------------------------
(* Every step keeps the tree, and is a step of the lists.                  *)
LEMMA TreeStep ==
  ASSUME TreeInv, [Next]_vars
  PROVE  /\ TreeInv'
         /\ ~spliced' => \E k, g : /\ Sound(k) /\ Sound(g)'
                                   /\ ~dropped' => ~dropped /\ ListStep(k, g)
<1>1. CountInv /\ CountInv'
  BY CountStep DEF TreeInv
<1> SUFFICES ASSUME ~spliced'
             PROVE  \E k, g : /\ Sound(k) /\ Sound(g)'
                              /\ ~dropped' => ~dropped /\ ListStep(k, g)
  BY <1>1 DEF TreeInv
<1>2. ASSUME NEW child \in Entities, NEW parent \in Entities, SetParent(child, parent)
      PROVE  \E k, g : /\ Sound(k) /\ Sound(g)'
                       /\ ~dropped' => ~dropped /\ ListStep(k, g)
  <2>1. ~spliced /\ dropped' = dropped
    BY <1>2 DEF SetParent, Abort
  <2>2. PICK k : Sound(k)
    BY <2>1 DEF TreeInv
  <2>3. PICK g : Sound(g)' /\ (~dropped' => ListStep(k, g))
    BY <1>1, <1>2, <2>2, TreeSetParent
  <2> QED
    BY <2>1, <2>2, <2>3
<1>3. ASSUME NEW child \in Entities, RemoveParent(child)
      PROVE  \E k, g : /\ Sound(k) /\ Sound(g)'
                       /\ ~dropped' => ~dropped /\ ListStep(k, g)
  BY <1>2, <1>3, RootAssumption DEF RemoveParent
<1>4. ASSUME NEW e \in Entities, Destroy(e)
      PROVE  \E k, g : /\ Sound(k) /\ Sound(g)'
                       /\ ~dropped' => ~dropped /\ ListStep(k, g)
  <2>1. ~spliced
    BY <1>4 DEF Destroy
  <2>2. ~dropped' => ~dropped
    BY <1>4 DEF Destroy
  <2>3. PICK k : Sound(k)
    BY <2>1 DEF TreeInv
  <2>4. PICK g : Sound(g)' /\ (~dropped' => ListStep(k, g))
    BY <1>1, <1>4, <2>3, TreeDestroy
  <2> QED
    BY <2>2, <2>3, <2>4
<1>5. CASE UNCHANGED vars
  <2>1. ~spliced /\ dropped' = dropped /\ rel' = rel /\ alive' = alive /\ aborted' = aborted
    BY <1>5 DEF vars
  <2>2. PICK k : Sound(k)
    BY <2>1 DEF TreeInv
  <2>3. Sound(k)'
    BY <2>1, <2>2 DEF Sound, Tree
  <2>4. ListStep(k, k)
    BY DEF ListStep
  <2> QED
    BY <2>1, <2>2, <2>3, <2>4
<1> QED
  BY <1>2, <1>3, <1>4, <1>5 DEF Next

(* The inductive invariant holds in every reachable state: as long as no   *)
(* chain was spliced the registry is explained by lists of children        *)
(* (service.cpp set_parent and relationship_destroyed_handler).            *)
THEOREM TreeIsKept == Spec => []TreeInv
<1>1. Init => TreeInv
  BY TreeInit
<1>2. TreeInv /\ [Next]_vars => TreeInv'
  BY TreeStep
<1> QED
  BY <1>1, <1>2, PTL DEF Spec

(* Every chain is sound in both directions while the tree is intact:       *)
(* add_child, remove_child, relationship_destroyed_handler.                *)
THEOREM ChainsAreSound == Spec => []IntactChainsAreSound
<1>1. TreeInv => IntactChainsAreSound
  <2> SUFFICES ASSUME NEW k, Sound(k), ~dropped
               PROVE  /\ ~aborted
                      /\ \A p \in Entities : Has(rel, p) => ChainIsSound(rel, p)
                      /\ \A e \in Entities : Has(rel, e) /\ rel[e].parent = Null =>
                           rel[e].prev = Null /\ rel[e].next = Null
    BY DEF TreeInv, IntactChainsAreSound, Intact
  <2>1. ~aborted /\ Tree(rel, k, alive) /\ Complete(rel, k)
    BY DEF Sound
  <2>2. Lists(rel, k) /\ Heads(rel, k) /\ Members(rel, k) /\ Loners(rel, k)
    BY <2>1 DEF Tree
  <2>3. ASSUME NEW p \in Entities, Has(rel, p) PROVE ChainIsSound(rel, p)
    <3>1. PICK w : w = k[p]
      OBVIOUS
    <3>2. Children(rel, p) = w /\ ~Broken(rel, p) /\ ~SelfLinked(rel, p)
      BY <2>1, <2>3, <3>1, KidsOf
    <3>3. DOMAIN w = 1..Len(w) /\ \A i \in 1..Len(w) : w[i] \in Entities
      BY <2>2, <3>1, ListsOf
    <3>4. \A i \in 1..Len(w) : Has(rel, w[i])
      BY <2>1, <3>1 DEF Complete, Listed
    <3>5. rel[p].child_count = Len(w)
      BY <2>2, <2>3, <3>1 DEF Heads
    <3>6. \A i \in DOMAIN w : rel[w[i]].prev = IF i = 1 THEN Null ELSE w[i - 1]
      BY <2>2, <3>1, <3>3, <3>4 DEF Members
    <3>7. \A i \in 1..Len(w) : ParentOf(rel, w[i]) = p
      BY <2>1, <3>1, <3>4, PlaceOf
    <3>8. ASSUME NEW c \in Entities, ParentOf(rel, c) = p PROVE \E i \in 1..Len(w) : w[i] = c
      <4>1. p # Null
        BY NullAssumption
      <4> QED
        BY <2>1, <3>1, <3>8, <4>1, PlaceOf
    <3>9. ToSet(w) = ChildrenOf(rel, p)
      <4>1. \A c : c \in ToSet(w) <=> \E i \in 1..Len(w) : w[i] = c
        BY <3>3 DEF ToSet
      <4>2. \A c : c \in ChildrenOf(rel, p) <=> c \in Entities /\ ParentOf(rel, c) = p
        BY DEF ChildrenOf
      <4> QED
        BY <3>3, <3>7, <3>8, <4>1, <4>2
    <3> QED
      BY <3>2, <3>5, <3>6, <3>9 DEF ChainIsSound
  <2>4. ASSUME NEW e \in Entities, Has(rel, e), rel[e].parent = Null
        PROVE  rel[e].prev = Null /\ rel[e].next = Null
    <3>1. ParentOf(rel, e) = Null
      BY <2>4 DEF ParentOf
    <3>2. ~Listed(k, e)
      BY <2>1, <2>4, <3>1, PlaceOf
    <3> QED
      BY <2>2, <2>4, <3>2 DEF Loners
  <2> QED
    BY <2>1, <2>3, <2>4
<1> QED
  BY <1>1, TreeIsKept, PTL

(* No survivor of a destruction has a destroyed parent, under either       *)
(* policy, while no chain was spliced: relationship_destroyed_handler.     *)
THEOREM ParentsSurvive == Spec => []ParentsAreAlive
<1>1. TreeInv => ParentsAreAlive
  <2> SUFFICES ASSUME TreeInv, NEW k, Sound(k), NEW e \in alive, ParentOf(rel, e) # Null
               PROVE  ParentOf(rel, e) \in alive
    BY DEF TreeInv, ParentsAreAlive
  <2>1. Has(rel, ParentOf(rel, e)) /\ ParentOf(rel, e) \in Entities
    BY PlaceOf DEF Sound
  <2> QED
    BY <2>1 DEF TreeInv, CountInv, Counted
<1> QED
  BY <1>1, TreeIsKept, PTL

(* A step of the lists is a step of the ordered forest.                    *)
LEMMA ForestStepOf ==
  ASSUME NEW k, NEW g, k = Kids(rel), g = Kids(rel'), ListStep(k, g)
  PROVE  Forest!Step
<1> DEFINE kids == [e \in Entities |-> IF Has(rel, e) THEN Children(rel, e) ELSE << >>]
<1>1. kids = k /\ kids' = g
  BY DEF Kids
<1>2. k = [p \in Entities |-> k[p]]
  BY DEF Kids
<1> HIDE DEF kids
<1>3. CASE g = k
  BY <1>1, <1>3 DEF Forest!Step, kids
<1>4. ASSUME NEW child \in Entities, NEW parent \in Entities,
             child # parent, g = Attach(Detach(k, child), parent, child)
      PROVE  Forest!Step
  <2>1. g = [p \in Entities |-> IF p = parent THEN Append(Forest!Without(k[p], child), child)
                                ELSE Forest!Without(k[p], child)]
    BY <1>4 DEF Attach, Detach
  <2>2. Forest!Move(child, parent)
    BY <1>1, <1>4, <2>1 DEF Forest!Move, kids
  <2> QED
    BY <2>2 DEF Forest!Step, Forest!Next
<1>5. ASSUME NEW gone \in SUBSET Entities, \A p \in gone : \A i \in 1..Len(k[p]) : k[p][i] \in gone,
             g = Pruned(k, gone)
      PROVE  Forest!Step
  <2>2. Forest!Prune(gone)
    BY <1>1, <1>5 DEF Forest!Prune, Forest!ToSet, Pruned, kids
  <2> QED
    BY <2>2 DEF Forest!Step, Forest!Next
<1>6. ASSUME NEW e \in Entities, g = [k EXCEPT ![Root] = @ \o k[e], ![e] = << >>]
      PROVE  Forest!Step
  <2>2. Forest!Dissolve(e)
    BY <1>1, <1>6 DEF Forest!Dissolve, kids
  <2> QED
    BY <2>2 DEF Forest!Step, Forest!Next
<1> QED
  BY <1>3, <1>4, <1>5, <1>6 DEF ListStep

(* Every step that leaves the tree intact is a step of the ordered forest: *)
(* set_parent, relationship_destroyed_handler.                             *)
THEOREM ImplementsOrderedForest == Spec => IntactStepsAreForestSteps
<1>1. Init => Forest!Init
  BY TreeInit DEF Forest!Init, Kids
<1>2. TreeInv /\ [Next]_vars => [Intact' => Forest!Step]_vars
  <2> SUFFICES ASSUME TreeInv, [Next]_vars, Intact' PROVE Forest!Step
    OBVIOUS
  <2>1. ~spliced' /\ ~dropped'
    BY DEF Intact
  <2>2. PICK k, g : Sound(k) /\ Sound(g)' /\ ~dropped /\ ListStep(k, g)
    BY <2>1, TreeStep
  <2>3. Kids(rel) = k
    BY <2>2, KidsOf DEF Sound
  <2>4. Kids(rel') = g
    <3>1. Tree(rel', g, alive') /\ Complete(rel', g)
      BY <2>1, <2>2 DEF Sound
    <3> QED
      BY <3>1, KidsOf
  <2> QED
    BY <2>2, <2>3, <2>4, ForestStepOf
<1> QED
  BY <1>1, <1>2, TreeIsKept, PTL DEF Spec, IntactStepsAreForestSteps
=============================================================================
