------------------------ MODULE TransformCacheProofs ------------------------
(***************************************************************************)
(* Theorems about TransformCache, for any set of entities, any ring and    *)
(* any matrices that callers pass.                                         *)
(*                                                                         *)
(* That a cached matrix is the product of all above is not said by the     *)
(* steps: they look at a parent or at the children.  So the invariant is   *)
(* local (Kept): an entity whose world matrix is valid has a parent whose  *)
(* matrix is valid, and its own is the product of that one and its local   *)
(* transform.  It follows that below an invalid entity all are invalid,    *)
(* which is why invalidate_world may turn back there.                      *)
(*                                                                         *)
(* All that is defined by recursion along the tree exists because the tree *)
(* has a bounded depth (Rooted), which set_parent keeps: it is not given a *)
(* descendant.                                                             *)
(***************************************************************************)
EXTENDS TransformCache, WellFoundedInduction, TLAPS

USE RootAssumption, RingAssumption

(* Induction over a measure, for sets. *)
LEMMA Least == ASSUME NEW T \in SUBSET Nat, T # {} PROVE \E m \in T : \A n \in T : m <= n
<1>1. PICK m \in T : \A n \in T : ~(<<n, m>> \in OpToRel(<, Nat))
  BY NatLessThanWellFounded, WFMin
<1>2. ASSUME NEW n \in T PROVE m <= n
  <2>1. <<n, m>> \notin OpToRel(<, Nat)
    BY <1>1
  <2>2. n \in Nat /\ m \in Nat
    OBVIOUS
  <2>3. ~(n < m)
    BY <2>1, <2>2 DEF OpToRel
  <2> QED
    BY <2>2, <2>3
<1> QED
  BY <1>2

Inductive(S, k, T) == \A x \in S : (\A y \in S : k[y] < k[x] => y \in T) => x \in T

LEMMA Measured ==
  ASSUME NEW S, NEW k \in [S -> Nat], NEW T, Inductive(S, k, T)
  PROVE  S \subseteq T
<1> SUFFICES ASSUME NEW z \in S, z \notin T PROVE FALSE
  OBVIOUS
<1> DEFINE Out == {k[x] : x \in S \ T}
<1>1. Out \in SUBSET Nat /\ Out # {}
  OBVIOUS
<1>2. PICK m \in Out : \A n \in Out : m <= n
  <2> HIDE DEF Out
  <2> QED
    BY <1>1, Least
<1>3. PICK x \in S \ T : k[x] = m
  OBVIOUS
<1>4. \A y \in S : k[y] < k[x] => y \in T
  <2> SUFFICES ASSUME NEW y \in S, k[y] < k[x], y \notin T PROVE FALSE
    OBVIOUS
  <2>1. k[y] \in Out /\ k[y] \in Nat /\ k[x] \in Nat
    OBVIOUS
  <2> HIDE DEF Out
  <2>2. k[x] <= k[y]
    BY <1>2, <1>3, <2>1
  <2> QED
    BY <2>1, <2>2
<1> QED
  BY <1>3, <1>4 DEF Inductive

(* A function that is defined by recursion exists: G gives the value at a  *)
(* place from a function, of which it uses the places of smaller measure.  *)
UsesSmaller(S, V, k, G) ==
  \A x \in S : \A f, g \in [S -> V] :
    (\A y \in S : k[y] < k[x] => f[y] = g[y]) => G[x][f] = G[x][g]
Solved(S, V, G) == \E f \in [S -> V] : \A x \in S : f[x] = G[x][f]

LEMMA Recursion ==
  ASSUME NEW S, NEW V, NEW v \in V, NEW N \in Nat, NEW k \in [S -> 0..N],
         NEW G \in [S -> [[S -> V] -> V]], UsesSmaller(S, V, k, G)
  PROVE  Solved(S, V, G)
<1> DEFINE Below(n) == \E f \in [S -> V] : \A x \in S : k[x] < n => f[x] = G[x][f]
           Places == [n \in Nat |-> n]
           T == {n \in Nat : Below(n)}
<1>1. ASSUME NEW n \in Nat, Below(n) PROVE Below(n + 1)
  <2>1. PICK f \in [S -> V] : \A x \in S : k[x] < n => f[x] = G[x][f]
    BY <1>1
  <2> DEFINE g == [x \in S |-> IF k[x] = n THEN G[x][f] ELSE f[x]]
  <2>2. g \in [S -> V]
    OBVIOUS
  <2>3. \A y \in S : k[y] < n => g[y] = f[y]
    OBVIOUS
  <2>4. \A x \in S : k[x] = n => g[x] = G[x][f]
    OBVIOUS
  <2> HIDE DEF g
  <2>5. ASSUME NEW x \in S, k[x] < n + 1 PROVE g[x] = G[x][g]
    <3>1. \A y \in S : k[y] < k[x] => f[y] = g[y]
      BY <2>3, <2>5
    <3>2. G[x][f] = G[x][g]
      BY <2>2, <3>1 DEF UsesSmaller
    <3>3. k[x] < n \/ k[x] = n
      <4>1. k[x] \in 0..N
        OBVIOUS
      <4>2. k[x] \in Int
        BY <4>1
      <4>3. \A i \in Int : i < n + 1 => i < n \/ i = n
        OBVIOUS
      <4> HIDE DEF Below, T, Places
      <4> QED
        BY <2>5, <4>2, <4>3
    <3> QED
      BY <2>1, <2>3, <2>4, <3>2, <3>3
  <2> QED
    BY <2>2, <2>5
<1>2. Below(0)
  <2>1. [x \in S |-> v] \in [S -> V]
    OBVIOUS
  <2>2. ASSUME NEW x \in S, k[x] < 0 PROVE FALSE
    <3>1. k[x] \in 0..N
      OBVIOUS
    <3> QED
      BY <2>2, <3>1
  <2> QED
    BY <2>1, <2>2
<1>3. Nat \subseteq T
  <2>1. Places \in [Nat -> Nat]
    OBVIOUS
  <2>2. ASSUME NEW n \in Nat, \A i \in Nat : Places[i] < Places[n] => i \in T PROVE n \in T
    <3>1. CASE n = 0
      BY <1>2, <3>1
    <3>2. CASE n # 0
      <4>1. n - 1 \in Nat /\ n - 1 < n /\ (n - 1) + 1 = n
        BY <3>2
      <4>2. Below(n - 1)
        BY <2>2, <4>1
      <4> HIDE DEF Below
      <4> QED
        BY <1>1, <4>1, <4>2
    <3> QED
      BY <3>1, <3>2
  <2> HIDE DEF Places, T
  <2>3. Inductive(Nat, Places, T)
    BY <2>2 DEF Inductive
  <2> QED
    BY <2>1, <2>3, Measured
<1>4. Below(N + 1)
  <2>1. N + 1 \in Nat
    OBVIOUS
  <2> HIDE DEF Below
  <2> QED
    BY <1>3, <2>1
<1>5. ASSUME NEW x \in S PROVE k[x] < N + 1
  <2>1. k[x] \in 0..N
    OBVIOUS
  <2> QED
    BY <2>1
<1> QED
  BY <1>4, <1>5 DEF Solved
-----------------------------------------------------------------------------
(* Trees. *)

Parents == [Entities -> Entities \cup {Null}]

(* No lineage is longer than N. *)
Ranked(parent, h, N) ==
  h \in [Entities -> 0..N] /\ \A x \in Entities : parent[x] # Null => h[parent[x]] < h[x]
Rooted(parent) == \E N \in Nat : \E h \in [Entities -> 0..N] : Ranked(parent, h, N)

(* Induction from the top down, and from below. *)
LEMMA FromTheTop ==
  ASSUME NEW parent \in Parents, Rooted(parent), NEW T,
         \A x \in Entities : parent[x] = Null \/ parent[x] \in T => x \in T
  PROVE  Entities \subseteq T
<1>0. PICK N \in Nat : \E h \in [Entities -> 0..N] : Ranked(parent, h, N)
  BY DEF Rooted
<1>1. PICK h \in [Entities -> 0..N] : Ranked(parent, h, N)
  BY <1>0
<1>2. h \in [Entities -> Nat]
  OBVIOUS
<1>3. \A x \in Entities : (\A y \in Entities : h[y] < h[x] => y \in T) => x \in T
  BY <1>1 DEF Ranked, Parents
<1>4. Inductive(Entities, h, T)
  BY <1>3 DEF Inductive
<1> QED
  BY <1>2, <1>4, Measured

LEMMA FromBelow ==
  ASSUME NEW parent \in Parents, Rooted(parent), NEW T,
         \A x \in Entities : (\A c \in Entities : parent[c] = x => c \in T) => x \in T
  PROVE  Entities \subseteq T
<1>0. PICK N \in Nat : \E h \in [Entities -> 0..N] : Ranked(parent, h, N)
  BY DEF Rooted
<1>1. PICK h \in [Entities -> 0..N] : Ranked(parent, h, N)
  BY <1>0
<1> DEFINE k == [x \in Entities |-> N - h[x]]
<1>2. k \in [Entities -> Nat]
  OBVIOUS
<1>3. \A x \in Entities : (\A y \in Entities : k[y] < k[x] => y \in T) => x \in T
  <2> SUFFICES ASSUME NEW x \in Entities, \A y \in Entities : k[y] < k[x] => y \in T
               PROVE  x \in T
    OBVIOUS
  <2>1. ASSUME NEW c \in Entities, parent[c] = x PROVE c \in T
    <3>1. h[x] < h[c]
      BY <1>1, <2>1 DEF Ranked
    <3>2. k[c] < k[x]
      <4>1. h[x] \in 0..N /\ h[c] \in 0..N
        OBVIOUS
      <4> QED
        BY <3>1, <4>1
    <3> QED
      BY <3>2
  <2> QED
    BY <2>1
<1> HIDE DEF k
<1>4. Inductive(Entities, k, T)
  BY <1>3 DEF Inductive
<1> QED
  BY <1>2, <1>4, Measured

(* Recursion from the top down: base at the top, step below. *)
Descending(parent, V, base, step) ==
  \E f \in [Entities -> V] : \A x \in Entities :
    f[x] = IF parent[x] = Null THEN base[x] ELSE step[x][f[parent[x]]]

LEMMA DownTheTree ==
  ASSUME NEW parent \in Parents, Rooted(parent), NEW V, NEW v \in V,
         NEW base \in [Entities -> V], NEW step \in [Entities -> [V -> V]]
  PROVE  Descending(parent, V, base, step)
<1>0. PICK N \in Nat : \E h \in [Entities -> 0..N] : Ranked(parent, h, N)
  BY DEF Rooted
<1>1. PICK h \in [Entities -> 0..N] : Ranked(parent, h, N)
  BY <1>0
<1> DEFINE G == [x \in Entities |-> [f \in [Entities -> V] |->
                  IF parent[x] = Null THEN base[x] ELSE step[x][f[parent[x]]]]]
<1>2. G \in [Entities -> [[Entities -> V] -> V]]
  BY DEF Parents
<1>3. \A x \in Entities : \A f \in [Entities -> V] :
        G[x][f] = IF parent[x] = Null THEN base[x] ELSE step[x][f[parent[x]]]
  OBVIOUS
<1> HIDE DEF G
<1>4. \A x \in Entities : \A f, g \in [Entities -> V] :
        (\A y \in Entities : h[y] < h[x] => f[y] = g[y]) => G[x][f] = G[x][g]
  BY <1>1, <1>3 DEF Ranked, Parents
<1>5. Solved(Entities, V, G)
  <2>1. UsesSmaller(Entities, V, h, G)
    BY <1>4 DEF UsesSmaller
  <2> QED
    BY <1>2, <2>1, Recursion
<1>6. PICK f \in [Entities -> V] : \A x \in Entities : f[x] = G[x][f]
  BY <1>5 DEF Solved
<1>7. \A x \in Entities : f[x] = IF parent[x] = Null THEN base[x] ELSE step[x][f[parent[x]]]
  BY <1>3, <1>6
<1> QED
  BY <1>7 DEF Descending

(* Recursion from below: an entity and what its children give, which is    *)
(* only the child itself for those in turned.                              *)
Ascending(parent, with, turned) ==
  \E f \in [Entities -> SUBSET Entities] : \A x \in Entities :
    f[x] = {x} \cup UNION {IF c \in turned THEN {c} ELSE f[c] :
                              c \in {d \in with \cap Entities : parent[d] = x}}

LEMMA UpTheTree ==
  ASSUME NEW parent \in Parents, Rooted(parent), NEW with, NEW turned
  PROVE  Ascending(parent, with, turned)
<1>0. PICK N \in Nat : \E h \in [Entities -> 0..N] : Ranked(parent, h, N)
  BY DEF Rooted
<1>1. PICK h \in [Entities -> 0..N] : Ranked(parent, h, N)
  BY <1>0
<1> DEFINE children(x) == {d \in with \cap Entities : parent[d] = x}
           G == [x \in Entities |-> [f \in [Entities -> SUBSET Entities] |->
                  {x} \cup UNION {IF c \in turned THEN {c} ELSE f[c] : c \in children(x)}]]
           k == [x \in Entities |-> N - h[x]]
<1>2. G \in [Entities -> [[Entities -> SUBSET Entities] -> SUBSET Entities]]
  <2> SUFFICES ASSUME NEW x \in Entities, NEW f \in [Entities -> SUBSET Entities]
               PROVE  {x} \cup UNION {IF c \in turned THEN {c} ELSE f[c] : c \in children(x)} \in SUBSET Entities
    OBVIOUS
  <2> QED
    OBVIOUS
<1>3. \A x \in Entities : \A f \in [Entities -> SUBSET Entities] :
        G[x][f] = {x} \cup UNION {IF c \in turned THEN {c} ELSE f[c] : c \in children(x)}
  OBVIOUS
<1>4. k \in [Entities -> 0..N]
  OBVIOUS
<1>5. \A x \in Entities : \A c \in children(x) : c \in Entities /\ k[c] < k[x]
  <2> SUFFICES ASSUME NEW x \in Entities, NEW c \in children(x) PROVE c \in Entities /\ k[c] < k[x]
    OBVIOUS
  <2>1. c \in Entities /\ h[x] < h[c]
    BY <1>1 DEF Ranked
  <2>2. h[x] \in 0..N /\ h[c] \in 0..N
    BY <2>1
  <2> QED
    BY <2>1, <2>2
<1> HIDE DEF G, k
<1>6. ASSUME NEW x \in Entities, NEW f \in [Entities -> SUBSET Entities], NEW g \in [Entities -> SUBSET Entities],
             \A y \in Entities : k[y] < k[x] => f[y] = g[y]
      PROVE  G[x][f] = G[x][g]
  <2>1. \A c \in children(x) : f[c] = g[c]
    BY <1>5, <1>6
  <2> DEFINE F == {IF c \in turned THEN {c} ELSE f[c] : c \in children(x)}
             E == {IF c \in turned THEN {c} ELSE g[c] : c \in children(x)}
  <2>2. F = E
    <3> HIDE DEF children
    <3>1. \A c \in children(x) : (IF c \in turned THEN {c} ELSE f[c]) = (IF c \in turned THEN {c} ELSE g[c])
      BY <2>1
    <3> QED
      BY <3>1
  <2>3. G[x][f] = {x} \cup UNION F /\ G[x][g] = {x} \cup UNION E
    BY <1>3
  <2> QED
    BY <2>2, <2>3
<1>7. Solved(Entities, SUBSET Entities, G)
  <2>1. {} \in SUBSET Entities
    OBVIOUS
  <2>2. UsesSmaller(Entities, SUBSET Entities, k, G)
    BY <1>6 DEF UsesSmaller
  <2> QED
    BY <1>2, <1>4, <2>1, <2>2, Recursion
<1>8. PICK f \in [Entities -> SUBSET Entities] : \A x \in Entities : f[x] = G[x][f]
  BY <1>7 DEF Solved
<1>9. \A x \in Entities : f[x] = {x} \cup UNION {IF c \in turned THEN {c} ELSE f[c] : c \in children(x)}
  BY <1>3, <1>8
<1> QED
  BY <1>9 DEF Ascending
-----------------------------------------------------------------------------
(* Matrices and components. *)

LEMMA Modulo == ASSUME NEW i \in Int PROVE i % Ring \in 0..Ring-1
OBVIOUS

LEMMA MatrixTypes ==
  /\ Identity \in Matrices
  /\ \A a \in Matrices : \A p \in 0..Ring-1 : Placed(a, p) \in 0..Ring-1
  /\ \A a, b \in Matrices : Product(a, b) \in Matrices
  /\ \A a \in Matrices : Inverse(a) \in Matrices
<1>1. Identity \in Matrices
  BY DEF Identity, Matrices
<1>2. ASSUME NEW a \in Matrices, NEW p \in 0..Ring-1 PROVE Placed(a, p) \in 0..Ring-1
  <2>1. a.at \in Int /\ p \in Int
    BY DEF Matrices
  <2>2. a.at - p \in Int /\ a.at + p \in Int
    BY <2>1
  <2>3. (a.at - p) % Ring \in 0..Ring-1 /\ (a.at + p) % Ring \in 0..Ring-1
    BY <2>2, Modulo
  <2> QED
    BY <2>3 DEF Placed
<1>3. ASSUME NEW a \in Matrices, NEW b \in Matrices PROVE Product(a, b) \in Matrices
  <2>1. b.at \in 0..Ring-1
    BY DEF Matrices
  <2>2. Placed(a, b.at) \in 0..Ring-1
    BY <1>2, <2>1
  <2> QED
    BY <2>2 DEF Product, Matrices
<1>4. ASSUME NEW a \in Matrices PROVE Inverse(a) \in Matrices
  <2>1. a.at \in 0..Ring-1 /\ a.turned \in BOOLEAN /\ a = [turned |-> a.turned, at |-> a.at]
    BY DEF Matrices
  <2>2. 0 - a.at \in Int
    BY <2>1
  <2>3. (0 - a.at) % Ring \in 0..Ring-1
    BY <2>2, Modulo
  <2>4. Inverse(a) = [turned |-> a.turned, at |-> IF a.turned THEN a.at ELSE (0 - a.at) % Ring]
    BY <2>1 DEF Inverse
  <2>5. (IF a.turned THEN a.at ELSE (0 - a.at) % Ring) \in 0..Ring-1
    BY <2>1, <2>3
  <2> QED
    BY <2>1, <2>4, <2>5 DEF Matrices
<1> QED
  BY <1>1, <1>2, <1>3, <1>4

Components == [local : Matrices, m : Matrices, w : Matrices, iw : Matrices, dirty : SUBSET Flags]

Typed(s) ==
  /\ s = [parent |-> s.parent, related |-> s.related, tf |-> s.tf]
  /\ s.parent \in Parents
  /\ s.related \subseteq Entities
  /\ DOMAIN s.tf \subseteq Entities
  /\ s.tf \in [DOMAIN s.tf -> Components]

LEMMA FreshType ==
  /\ Fresh \in Components
  /\ Fresh.local = Identity
  /\ Fresh.dirty = {"M", "W", "IW"}
BY MatrixTypes DEF Fresh, Components, Flags

LEMMA OfType ==
  ASSUME NEW s, Typed(s), NEW e
  PROVE  /\ Of(s, e) \in Components
         /\ LocalMatrix(s, e) \in Matrices
         /\ Has(s, e) => Of(s, e) = s.tf[e]
         /\ ~Has(s, e) => Of(s, e) = Fresh /\ Invalid(s, e, "M") /\ Invalid(s, e, "W") /\ Invalid(s, e, "IW")
<1>1. Of(s, e) \in Components
  BY FreshType DEF Of, Has, Typed
<1> QED
  BY <1>1, FreshType DEF Of, Has, LocalMatrix, Components, Invalid
-----------------------------------------------------------------------------
(* What is defined by recursion along the tree. *)

(* An entity with all above it. *)
LEMMA LineageSteps ==
  ASSUME NEW s, Typed(s), Rooted(s.parent)
  PROVE  \A e \in Entities :
           /\ Lineage(s, e) \in SUBSET Entities
           /\ Lineage(s, e) = {e} \cup IF s.parent[e] = Null THEN {} ELSE Lineage(s, s.parent[e])
<1> DEFINE Good(g) == g = [x \in Entities |-> {x} \cup IF s.parent[x] = Null THEN {} ELSE g[s.parent[x]]]
           up == CHOOSE g : Good(g)
           base == [x \in Entities |-> {x}]
           step == [x \in Entities |-> [v \in SUBSET Entities |-> {x} \cup v]]
<1>1. \A e : Lineage(s, e) = up[e]
  BY DEF Lineage
<1>2. s.parent \in Parents
  BY DEF Typed
<1>3. Descending(s.parent, SUBSET Entities, base, step)
  <2>1. base \in [Entities -> SUBSET Entities] /\ step \in [Entities -> [SUBSET Entities -> SUBSET Entities]]
        /\ {} \in SUBSET Entities
    OBVIOUS
  <2> HIDE DEF base, step
  <2> QED
    BY <1>2, <2>1, DownTheTree
<1>4. PICK f \in [Entities -> SUBSET Entities] : \A x \in Entities :
        f[x] = IF s.parent[x] = Null THEN base[x] ELSE step[x][f[s.parent[x]]]
  BY <1>3 DEF Descending
<1>5. \A x \in Entities : f[x] = {x} \cup IF s.parent[x] = Null THEN {} ELSE f[s.parent[x]]
  BY <1>2, <1>4 DEF Parents
<1>6. Good(f)
  BY <1>5
<1>7. Good(up)
  <2> HIDE DEF Good
  <2> QED
    BY <1>6
<1> HIDE DEF up
<1>8. \A x \in Entities : up[x] = {x} \cup IF s.parent[x] = Null THEN {} ELSE up[s.parent[x]]
  BY <1>7
<1>9. \A x \in Entities : up[x] \in SUBSET Entities
  <2> DEFINE T == {x \in Entities : up[x] \in SUBSET Entities}
  <2>1. \A x \in Entities : s.parent[x] = Null \/ s.parent[x] \in T => x \in T
    BY <1>8
  <2> HIDE DEF T
  <2>2. Entities \subseteq T
    BY <1>2, <2>1, FromTheTop
  <2> QED
    BY <2>2 DEF T
<1> QED
  BY <1>1, <1>8, <1>9

LEMMA LineageCloses ==
  ASSUME NEW s, Typed(s), Rooted(s.parent), NEW e \in Entities, NEW x \in Lineage(s, e), s.parent[x] # Null
  PROVE  s.parent[x] \in Lineage(s, e)
<1> DEFINE T == {y \in Entities : \A z \in Lineage(s, y) : s.parent[z] # Null => s.parent[z] \in Lineage(s, y)}
<1>1. s.parent \in Parents
  BY DEF Typed
<1>2. ASSUME NEW y \in Entities, s.parent[y] = Null \/ s.parent[y] \in T PROVE y \in T
  <2>1. Lineage(s, y) = {y} \cup IF s.parent[y] = Null THEN {} ELSE Lineage(s, s.parent[y])
    BY LineageSteps
  <2>2. s.parent[y] # Null => s.parent[y] \in Lineage(s, s.parent[y])
    BY <1>1, LineageSteps DEF Parents
  <2> QED
    BY <1>2, <2>1, <2>2
<1>3. Entities \subseteq T
  <2> HIDE DEF T
  <2> QED
    BY <1>1, <1>2, FromTheTop
<1> QED
  BY <1>3

(* The entities above whose world matrix is out of date, and the first     *)
(* that is not.                                                            *)
LEMMA ReachedSteps ==
  ASSUME NEW s, Typed(s), Rooted(s.parent)
  PROVE  \A e \in Entities :
           /\ Reached(s, e) \in SUBSET Entities
           /\ Reached(s, e) =
                {e} \cup IF s.parent[e] = Null \/ ~Invalid(s, e, "W") THEN {} ELSE Reached(s, s.parent[e])
<1> DEFINE Good(g) == g = [x \in Entities |-> {x} \cup IF s.parent[x] = Null \/ ~Invalid(s, x, "W") THEN {}
                                                       ELSE g[s.parent[x]]]
           up == CHOOSE g : Good(g)
           base == [x \in Entities |-> {x}]
           step == [x \in Entities |-> [v \in SUBSET Entities |-> {x} \cup IF ~Invalid(s, x, "W") THEN {} ELSE v]]
<1>1. \A e : Reached(s, e) = up[e]
  BY DEF Reached
<1>2. s.parent \in Parents
  BY DEF Typed
<1>3. Descending(s.parent, SUBSET Entities, base, step)
  <2>1. base \in [Entities -> SUBSET Entities] /\ step \in [Entities -> [SUBSET Entities -> SUBSET Entities]]
        /\ {} \in SUBSET Entities
    OBVIOUS
  <2> HIDE DEF base, step
  <2> QED
    BY <1>2, <2>1, DownTheTree
<1>4. PICK f \in [Entities -> SUBSET Entities] : \A x \in Entities :
        f[x] = IF s.parent[x] = Null THEN base[x] ELSE step[x][f[s.parent[x]]]
  BY <1>3 DEF Descending
<1>5. \A x \in Entities : f[x] = {x} \cup IF s.parent[x] = Null \/ ~Invalid(s, x, "W") THEN {} ELSE f[s.parent[x]]
  BY <1>2, <1>4, ZenonT(30), SMTT(30) DEF Parents
<1>6. Good(f)
  BY <1>5
<1>7. Good(up)
  <2> HIDE DEF Good
  <2> QED
    BY <1>6
<1> HIDE DEF up
<1>8. \A x \in Entities : up[x] = {x} \cup IF s.parent[x] = Null \/ ~Invalid(s, x, "W") THEN {} ELSE up[s.parent[x]]
  BY <1>7
<1>9. \A x \in Entities : up[x] \in SUBSET Entities
  <2> DEFINE T == {x \in Entities : up[x] \in SUBSET Entities}
  <2>1. \A x \in Entities : s.parent[x] = Null \/ s.parent[x] \in T => x \in T
    BY <1>8
  <2> HIDE DEF T
  <2>2. Entities \subseteq T
    BY <1>2, <2>1, FromTheTop
  <2> QED
    BY <2>2 DEF T
<1> QED
  BY <1>1, <1>8, <1>9

LEMMA ReachedCloses ==
  ASSUME NEW s, Typed(s), Rooted(s.parent), NEW e \in Entities, NEW x \in Reached(s, e),
         Invalid(s, x, "W"), s.parent[x] # Null
  PROVE  s.parent[x] \in Reached(s, e)
<1> DEFINE T == {y \in Entities : \A z \in Reached(s, y) : Invalid(s, z, "W") /\ s.parent[z] # Null
                                    => s.parent[z] \in Reached(s, y)}
<1>1. s.parent \in Parents
  BY DEF Typed
<1>2. ASSUME NEW y \in Entities, s.parent[y] = Null \/ s.parent[y] \in T PROVE y \in T
  <2>1. Reached(s, y) = {y} \cup IF s.parent[y] = Null \/ ~Invalid(s, y, "W") THEN {} ELSE Reached(s, s.parent[y])
    BY ReachedSteps
  <2>2. s.parent[y] # Null => s.parent[y] \in Reached(s, s.parent[y])
    BY <1>1, ReachedSteps DEF Parents
  <2> QED
    BY <1>2, <2>1, <2>2
<1>3. Entities \subseteq T
  <2> HIDE DEF T
  <2> QED
    BY <1>1, <1>2, FromTheTop
<1> QED
  BY <1>3

(* The product of the local transforms above. *)
LEMMA WorldSteps ==
  ASSUME NEW s, Typed(s), Rooted(s.parent)
  PROVE  \A e \in Entities :
           /\ World(s)[e] \in Matrices
           /\ World(s)[e] = IF s.parent[e] = Null THEN Of(s, e).local
                            ELSE Product(World(s)[s.parent[e]], Of(s, e).local)
<1> DEFINE Good(g) == g = [x \in Entities |-> IF s.parent[x] = Null THEN Of(s, x).local
                                              ELSE Product(g[s.parent[x]], Of(s, x).local)]
           w == CHOOSE g : Good(g)
           base == [x \in Entities |-> Of(s, x).local]
           step == [x \in Entities |-> [v \in Matrices |-> Product(v, Of(s, x).local)]]
<1>1. World(s) = w
  BY DEF World
<1>2. s.parent \in Parents
  BY DEF Typed
<1>0. \A x \in Entities : Of(s, x).local \in Matrices
  BY OfType DEF Components
<1>3. Descending(s.parent, Matrices, base, step)
  <2>1. base \in [Entities -> Matrices] /\ step \in [Entities -> [Matrices -> Matrices]] /\ Identity \in Matrices
    BY <1>0, MatrixTypes
  <2> HIDE DEF base, step
  <2> QED
    BY <1>2, <2>1, DownTheTree
<1>4. PICK f \in [Entities -> Matrices] : \A x \in Entities :
        f[x] = IF s.parent[x] = Null THEN base[x] ELSE step[x][f[s.parent[x]]]
  BY <1>3 DEF Descending
<1>5. \A x \in Entities : f[x] = IF s.parent[x] = Null THEN Of(s, x).local ELSE Product(f[s.parent[x]], Of(s, x).local)
  BY <1>2, <1>4 DEF Parents
<1>6. Good(f)
  BY <1>5
<1>7. Good(w)
  <2> HIDE DEF Good
  <2> QED
    BY <1>6
<1> HIDE DEF w
<1>8. \A x \in Entities : w[x] = IF s.parent[x] = Null THEN Of(s, x).local ELSE Product(w[s.parent[x]], Of(s, x).local)
  BY <1>7
<1>9. \A x \in Entities : w[x] \in Matrices
  <2> DEFINE T == {x \in Entities : w[x] \in Matrices}
  <2>1. \A x \in Entities : s.parent[x] = Null \/ s.parent[x] \in T => x \in T
    BY <1>0, <1>8, MatrixTypes
  <2> HIDE DEF T
  <2>2. Entities \subseteq T
    BY <1>2, <2>1, FromTheTop
  <2> QED
    BY <2>2 DEF T
<1> QED
  BY <1>1, <1>8, <1>9

(* What update_matrix computes. *)
LEMMA MatrixSteps ==
  ASSUME NEW s, Typed(s), Rooted(s.parent)
  PROVE  \A e \in Entities :
           /\ Matrix(s)[e] \in Matrices
           /\ Matrix(s)[e] = IF ~Invalid(s, e, "W") THEN Of(s, e).w
                             ELSE IF s.parent[e] = Null THEN LocalMatrix(s, e)
                             ELSE Product(Matrix(s)[s.parent[e]], LocalMatrix(s, e))
<1> DEFINE Good(g) == g = [x \in Entities |-> IF ~Invalid(s, x, "W") THEN Of(s, x).w
                                              ELSE IF s.parent[x] = Null THEN LocalMatrix(s, x)
                                              ELSE Product(g[s.parent[x]], LocalMatrix(s, x))]
           w == CHOOSE g : Good(g)
           base == [x \in Entities |-> IF ~Invalid(s, x, "W") THEN Of(s, x).w ELSE LocalMatrix(s, x)]
           step == [x \in Entities |-> [v \in Matrices |-> IF ~Invalid(s, x, "W") THEN Of(s, x).w
                                                           ELSE Product(v, LocalMatrix(s, x))]]
<1>1. Matrix(s) = w
  BY DEF Matrix
<1>2. s.parent \in Parents
  BY DEF Typed
<1>0. \A x \in Entities : LocalMatrix(s, x) \in Matrices /\ Of(s, x).w \in Matrices
  BY OfType DEF Components
<1>3. Descending(s.parent, Matrices, base, step)
  <2>1. base \in [Entities -> Matrices] /\ step \in [Entities -> [Matrices -> Matrices]] /\ Identity \in Matrices
    BY <1>0, MatrixTypes
  <2> HIDE DEF base, step
  <2> QED
    BY <1>2, <2>1, DownTheTree
<1>4. PICK f \in [Entities -> Matrices] : \A x \in Entities :
        f[x] = IF s.parent[x] = Null THEN base[x] ELSE step[x][f[s.parent[x]]]
  BY <1>3 DEF Descending
<1>5. \A x \in Entities : f[x] = IF ~Invalid(s, x, "W") THEN Of(s, x).w
                                 ELSE IF s.parent[x] = Null THEN LocalMatrix(s, x)
                                 ELSE Product(f[s.parent[x]], LocalMatrix(s, x))
  BY <1>2, <1>4 DEF Parents
<1>6. Good(f)
  BY <1>5
<1>7. Good(w)
  <2> HIDE DEF Good
  <2> QED
    BY <1>6
<1> HIDE DEF w
<1>8. \A x \in Entities : w[x] = IF ~Invalid(s, x, "W") THEN Of(s, x).w
                                 ELSE IF s.parent[x] = Null THEN LocalMatrix(s, x)
                                 ELSE Product(w[s.parent[x]], LocalMatrix(s, x))
  BY <1>7
<1>9. \A x \in Entities : w[x] \in Matrices
  <2> DEFINE T == {x \in Entities : w[x] \in Matrices}
  <2>1. \A x \in Entities : s.parent[x] = Null \/ s.parent[x] \in T => x \in T
    BY <1>0, <1>8, MatrixTypes
  <2> HIDE DEF T
  <2>2. Entities \subseteq T
    BY <1>2, <2>1, FromTheTop
  <2> QED
    BY <2>2 DEF T
<1> QED
  BY <1>1, <1>8, <1>9

(* invalidate_world enters the children of e and of all that it enters     *)
(* that are valid.                                                         *)
LEMMA EnteredSteps ==
  ASSUME NEW s, Typed(s), Rooted(s.parent)
  PROVE  \A e \in Entities :
           /\ Entered(s, e) \in SUBSET Entities
           /\ Entered(s, e) =
                {e} \cup UNION {IF Invalid(s, c, "W") THEN {c} ELSE Entered(s, c) : c \in ChildrenWith(s, e)}
<1> DEFINE Good(g) == g = [x \in Entities |->
                             {x} \cup UNION {IF Invalid(s, c, "W") THEN {c} ELSE g[c] : c \in ChildrenWith(s, x)}]
           down == CHOOSE g : Good(g)
           turned == {c \in Entities : Invalid(s, c, "W")}
<1>1. \A e : Entered(s, e) = down[e]
  BY DEF Entered
<1>2. s.parent \in Parents /\ DOMAIN s.tf \subseteq Entities
  BY DEF Typed
<1>3. Ascending(s.parent, DOMAIN s.tf, turned)
  <2> HIDE DEF turned
  <2> QED
    BY <1>2, UpTheTree
<1>4. PICK f \in [Entities -> SUBSET Entities] : \A x \in Entities :
        f[x] = {x} \cup UNION {IF c \in turned THEN {c} ELSE f[c] : c \in {d \in DOMAIN s.tf \cap Entities : s.parent[d] = x}}
  BY <1>3 DEF Ascending
<1>5. \A x \in Entities : f[x] = {x} \cup UNION {IF Invalid(s, c, "W") THEN {c} ELSE f[c] : c \in ChildrenWith(s, x)}
  <2> SUFFICES ASSUME NEW x \in Entities
               PROVE  f[x] = {x} \cup UNION {IF Invalid(s, c, "W") THEN {c} ELSE f[c] : c \in ChildrenWith(s, x)}
    OBVIOUS
  <2>1. ChildrenWith(s, x) = {d \in DOMAIN s.tf \cap Entities : s.parent[d] = x}
    BY <1>2 DEF ChildrenWith
  <2>2. \A c \in ChildrenWith(s, x) : c \in turned <=> Invalid(s, c, "W")
    BY <2>1
  <2> HIDE DEF turned
  <2>3. f[x] = {x} \cup UNION {IF c \in turned THEN {c} ELSE f[c] : c \in ChildrenWith(s, x)}
    BY <1>4, <2>1
  <2>4. {IF c \in turned THEN {c} ELSE f[c] : c \in ChildrenWith(s, x)}
          = {IF Invalid(s, c, "W") THEN {c} ELSE f[c] : c \in ChildrenWith(s, x)}
    <3>1. \A c \in ChildrenWith(s, x) :
            (IF c \in turned THEN {c} ELSE f[c]) = (IF Invalid(s, c, "W") THEN {c} ELSE f[c])
      BY <2>2
    <3> QED
      BY <3>1
  <2> QED
    BY <2>3, <2>4
<1>6. Good(f)
  BY <1>5
<1>7. Good(down)
  <2> HIDE DEF Good
  <2> QED
    BY <1>6
<1> HIDE DEF down
<1>8. \A x \in Entities : down[x] = {x} \cup UNION {IF Invalid(s, c, "W") THEN {c} ELSE down[c] : c \in ChildrenWith(s, x)}
  BY <1>7
<1>9. \A x \in Entities : down[x] \in SUBSET Entities
  <2> DEFINE T == {x \in Entities : down[x] \in SUBSET Entities}
  <2>1. ASSUME NEW x \in Entities, \A c \in Entities : s.parent[c] = x => c \in T PROVE x \in T
    <3>1. \A c \in ChildrenWith(s, x) : c \in Entities /\ down[c] \in SUBSET Entities
      BY <1>2, <2>1 DEF ChildrenWith
    <3> QED
      BY <1>8, <3>1
  <2> HIDE DEF T
  <2>2. Entities \subseteq T
    BY <1>2, <2>1, FromBelow
  <2> QED
    BY <2>2 DEF T
<1> QED
  BY <1>1, <1>8, <1>9

LEMMA EnteredCloses ==
  ASSUME NEW s, Typed(s), Rooted(s.parent), NEW e \in Entities, NEW x \in Entered(s, e),
         x = e \/ ~Invalid(s, x, "W"), NEW c \in ChildrenWith(s, x)
  PROVE  c \in Entered(s, e)
<1> DEFINE T == {y \in Entities : \A z \in Entered(s, y) : z = y \/ ~Invalid(s, z, "W")
                                    => ChildrenWith(s, z) \subseteq Entered(s, y)}
<1>1. s.parent \in Parents /\ DOMAIN s.tf \subseteq Entities
  BY DEF Typed
<1>2. ASSUME NEW y \in Entities, \A d \in Entities : s.parent[d] = y => d \in T PROVE y \in T
  <2>1. Entered(s, y) = {y} \cup UNION {IF Invalid(s, d, "W") THEN {d} ELSE Entered(s, d) : d \in ChildrenWith(s, y)}
    BY EnteredSteps
  <2>2. \A d \in ChildrenWith(s, y) : d \in Entities /\ d \in T /\ d \in Entered(s, d)
    BY <1>1, <1>2, EnteredSteps DEF ChildrenWith
  <2>3. ChildrenWith(s, y) \subseteq Entered(s, y)
    BY <2>1, <2>2
  <2> SUFFICES ASSUME NEW z \in Entered(s, y), z # y, ~Invalid(s, z, "W") PROVE ChildrenWith(s, z) \subseteq Entered(s, y)
    BY <2>3
  <2>4. PICK d \in ChildrenWith(s, y) : z \in (IF Invalid(s, d, "W") THEN {d} ELSE Entered(s, d))
    BY <2>1
  <2>5. ~Invalid(s, d, "W") /\ z \in Entered(s, d)
    BY <2>4
  <2>6. ChildrenWith(s, z) \subseteq Entered(s, d)
    BY <2>2, <2>5
  <2> QED
    BY <2>1, <2>5, <2>6
<1>3. Entities \subseteq T
  <2> HIDE DEF T
  <2> QED
    BY <1>1, <1>2, FromBelow
<1> QED
  BY <1>3
-----------------------------------------------------------------------------
(* Scenes whose valid matrices are right. *)

Current(s) ==
  \A x \in Entities :
    /\ ~Invalid(s, x, "M") => Of(s, x).m = Of(s, x).local
    /\ ~Invalid(s, x, "W") => Of(s, x).w = World(s)[x]
    /\ ~Invalid(s, x, "IW") => Of(s, x).iw = Inverse(World(s)[x])

(* An entity with a valid world matrix is in a relationship, and so is the *)
(* matrix of its parent, unless a view of that one is to come.             *)
Settled(s, views) ==
  \A x \in Entities :
    /\ ~Invalid(s, x, "W") =>
         /\ x \in s.related
         /\ s.parent[x] = Null \/ ~Invalid(s, s.parent[x], "W") \/ s.parent[x] \in views
    /\ ~Invalid(s, x, "IW") => ~Invalid(s, x, "W")

Sound(s) == Typed(s) /\ Rooted(s.parent) /\ Current(s) /\ Settled(s, {})

(* The world depends on the tree and on the local transforms. *)
LEMMA SameWorld ==
  ASSUME NEW s, NEW t, Typed(s), Typed(t), Rooted(s.parent), t.parent = s.parent,
         \A x \in Entities : Of(t, x).local = Of(s, x).local
  PROVE  \A x \in Entities : World(t)[x] = World(s)[x]
<1> DEFINE T == {x \in Entities : World(t)[x] = World(s)[x]}
<1>1. s.parent \in Parents /\ Rooted(t.parent)
  BY DEF Typed
<1>2. ASSUME NEW x \in Entities, s.parent[x] = Null \/ s.parent[x] \in T PROVE x \in T
  <2>1. World(s)[x] = IF s.parent[x] = Null THEN Of(s, x).local ELSE Product(World(s)[s.parent[x]], Of(s, x).local)
    BY WorldSteps
  <2>2. World(t)[x] = IF t.parent[x] = Null THEN Of(t, x).local ELSE Product(World(t)[t.parent[x]], Of(t, x).local)
    BY <1>1, WorldSteps
  <2> QED
    BY <1>2, <2>1, <2>2
<1>3. Entities \subseteq T
  <2> HIDE DEF T
  <2> QED
    BY <1>1, <1>2, FromTheTop
<1> QED
  BY <1>3

(* What update_matrix computes is what the matrix stands for. *)
LEMMA MatrixIsWorld ==
  ASSUME NEW s, Typed(s), Rooted(s.parent), Current(s)
  PROVE  \A x \in Entities : Matrix(s)[x] = World(s)[x] /\ LocalMatrix(s, x) = Of(s, x).local
<1> DEFINE T == {x \in Entities : Matrix(s)[x] = World(s)[x]}
<1>1. s.parent \in Parents
  BY DEF Typed
<1>2. \A x \in Entities : LocalMatrix(s, x) = Of(s, x).local
  BY DEF LocalMatrix, Current
<1>3. ASSUME NEW x \in Entities, s.parent[x] = Null \/ s.parent[x] \in T PROVE x \in T
  <2>1. World(s)[x] = IF s.parent[x] = Null THEN Of(s, x).local ELSE Product(World(s)[s.parent[x]], Of(s, x).local)
    BY WorldSteps
  <2>2. Matrix(s)[x] = IF ~Invalid(s, x, "W") THEN Of(s, x).w
                       ELSE IF s.parent[x] = Null THEN LocalMatrix(s, x)
                       ELSE Product(Matrix(s)[s.parent[x]], LocalMatrix(s, x))
    BY MatrixSteps
  <2>3. ~Invalid(s, x, "W") => Of(s, x).w = World(s)[x]
    BY DEF Current
  <2> QED
    BY <1>2, <1>3, <2>1, <2>2, <2>3
<1>4. Entities \subseteq T
  <2> HIDE DEF T
  <2> QED
    BY <1>1, <1>3, FromTheTop
<1> QED
  BY <1>2, <1>4

(* Views were constructed and destroyed. *)
Recomputed(s, views, t) ==
  /\ Typed(t)
  /\ t.parent = s.parent
  /\ s.related \cup views \subseteq t.related
  /\ DOMAIN s.tf \cup views \subseteq DOMAIN t.tf
  /\ \A x \in Entities : Of(t, x).local = Of(s, x).local
  /\ \A x \in Entities : Invalid(t, x, "EventFlag") <=> Invalid(s, x, "EventFlag")
  /\ \A x \in Entities \ views : Of(t, x) = Of(s, x)
  /\ \A x \in views :
       /\ Of(t, x).m = LocalMatrix(s, x)
       /\ Of(t, x).w = Matrix(s)[x]
       /\ Of(t, x).iw = IF Invalid(s, x, "IW") THEN Inverse(Matrix(s)[x]) ELSE Of(s, x).iw
       /\ ~Invalid(t, x, "M") /\ ~Invalid(t, x, "W") /\ ~Invalid(t, x, "IW")

LEMMA UpdatedFields ==
  ASSUME NEW s, Typed(s), Rooted(s.parent), NEW views \in SUBSET Entities
  PROVE  Recomputed(s, views, Updated(s, views, [x \in Entities |-> LocalMatrix(s, x)], Matrix(s)))
<1> DEFINE local == [x \in Entities |-> LocalMatrix(s, x)]
           world == Matrix(s)
           met == views \cup ({s.parent[x] : x \in views} \ {Null})
           t == Updated(s, views, local, world)
           Part(x) == IF x \notin views THEN Of(s, x)
                      ELSE [Of(s, x) EXCEPT
                              !.m = local[x],
                              !.w = world[x],
                              !.iw = IF Invalid(s, x, "IW") THEN Inverse(world[x]) ELSE @,
                              !.dirty = @ \ {"M", "W", "IW"}]
<1>1. s.parent \in Parents /\ met \subseteq Entities /\ DOMAIN s.tf \subseteq Entities /\ s.related \subseteq Entities
      /\ s = [parent |-> s.parent, related |-> s.related, tf |-> s.tf]
  BY DEF Typed, Parents
<1>2. t = [parent |-> s.parent, related |-> s.related \cup met, tf |-> [x \in DOMAIN s.tf \cup met |-> Part(x)]]
  <2>1. t = [s EXCEPT !.related = @ \cup met, !.tf = [x \in DOMAIN s.tf \cup met |-> Part(x)]]
    BY DEF Updated
  <2> HIDE DEF t, met, Part
  <2> QED
    BY <1>1, <2>1
<1>3. ASSUME NEW x \in Entities PROVE
        /\ Of(s, x) \in Components
        /\ local[x] = LocalMatrix(s, x) /\ local[x] \in Matrices /\ world[x] \in Matrices /\ Inverse(world[x]) \in Matrices
  <2>1. world[x] \in Matrices
    BY MatrixSteps
  <2>2. Inverse(world[x]) \in Matrices
    BY <2>1, MatrixTypes
  <2> QED
    BY <2>1, <2>2, OfType
<1> HIDE DEF t, met, local, world
<1>4. ASSUME NEW x \in views PROVE
        Part(x) = [local |-> Of(s, x).local, m |-> local[x], w |-> world[x],
                   iw |-> IF Invalid(s, x, "IW") THEN Inverse(world[x]) ELSE Of(s, x).iw,
                   dirty |-> Of(s, x).dirty \ {"M", "W", "IW"}]
  <2>1. Of(s, x) \in Components
    BY <1>3
  <2> QED
    BY <2>1 DEF Components
<1>5. \A x \in Entities : x \notin views => Part(x) = Of(s, x)
  OBVIOUS
<1> HIDE DEF Part
<1>6. \A x \in Entities : Part(x) \in Components
  <2> SUFFICES ASSUME NEW x \in Entities PROVE Part(x) \in Components
    OBVIOUS
  <2>1. CASE x \in views
    <3>1. Of(s, x).local \in Matrices /\ Of(s, x).iw \in Matrices /\ Of(s, x).dirty \ {"M", "W", "IW"} \in SUBSET Flags
      BY <1>3 DEF Components
    <3>2. (IF Invalid(s, x, "IW") THEN Inverse(world[x]) ELSE Of(s, x).iw) \in Matrices
      BY <1>3, <3>1
    <3> QED
      BY <1>3, <1>4, <2>1, <3>1, <3>2 DEF Components
  <2>2. CASE x \notin views
    BY <1>3, <1>5, <2>2
  <2> QED
    BY <2>1, <2>2
<1>7. t.parent = s.parent /\ t.related = s.related \cup met /\ t.tf = [x \in DOMAIN s.tf \cup met |-> Part(x)]
      /\ DOMAIN t.tf = DOMAIN s.tf \cup met /\ t = [parent |-> t.parent, related |-> t.related, tf |-> t.tf]
  BY <1>2
<1>8. Typed(t)
  <2>1. t.tf \in [DOMAIN t.tf -> Components]
    BY <1>1, <1>6, <1>7
  <2> QED
    BY <1>1, <1>7, <2>1 DEF Typed
<1>9. \A x \in Entities : Of(t, x) = Part(x)
  <2> SUFFICES ASSUME NEW x \in Entities PROVE Of(t, x) = Part(x)
    OBVIOUS
  <2>1. CASE x \in DOMAIN t.tf
    BY <1>7, <2>1 DEF Of, Has
  <2>2. CASE x \notin DOMAIN t.tf
    <3>1. x \notin views /\ x \notin DOMAIN s.tf
      BY <1>7, <2>2 DEF met
    <3> QED
      BY <1>5, <2>2, <3>1 DEF Of, Has
  <2> QED
    BY <2>1, <2>2
<1>10. \A x \in views :
        /\ Of(t, x).local = Of(s, x).local
        /\ Of(t, x).m = LocalMatrix(s, x)
        /\ Of(t, x).w = world[x]
        /\ Of(t, x).iw = IF Invalid(s, x, "IW") THEN Inverse(world[x]) ELSE Of(s, x).iw
        /\ Of(t, x).dirty = Of(s, x).dirty \ {"M", "W", "IW"}
  BY <1>3, <1>4, <1>9
<1>11. \A x \in views :
         /\ ~Invalid(t, x, "M") /\ ~Invalid(t, x, "W") /\ ~Invalid(t, x, "IW")
         /\ Invalid(t, x, "EventFlag") <=> Invalid(s, x, "EventFlag")
  BY <1>10 DEF Invalid
<1>12. \A x \in Entities \ views : Of(t, x) = Of(s, x) /\ (Invalid(t, x, "EventFlag") <=> Invalid(s, x, "EventFlag"))
  BY <1>5, <1>9 DEF Invalid
<1>13. views \subseteq met
  BY DEF met
<1>14. Recomputed(s, views, t)
  BY <1>7, <1>8, <1>10, <1>11, <1>12, <1>13 DEF Recomputed, world
<1> QED
  BY <1>14 DEF t, local, world

LEMMA RecomputedSound ==
  ASSUME NEW s, NEW t, NEW views \in SUBSET Entities,
         Typed(s), Rooted(s.parent), Current(s), Settled(s, views),
         \A x \in views : Invalid(s, x, "W") /\ s.parent[x] # Null => s.parent[x] \in views,
         Recomputed(s, views, t)
  PROVE  Sound(t) /\ \A x \in Entities : World(t)[x] = World(s)[x]
<1>1. Typed(t) /\ t.parent = s.parent /\ Rooted(t.parent) /\ s.parent \in Parents
  BY DEF Recomputed, Typed
<1>2. \A x \in Entities : World(t)[x] = World(s)[x]
  <2>1. \A x \in Entities : Of(t, x).local = Of(s, x).local
    BY DEF Recomputed
  <2> QED
    BY <1>1, <2>1, SameWorld
<1>3. \A x \in Entities : Matrix(s)[x] = World(s)[x] /\ LocalMatrix(s, x) = Of(s, x).local
  BY MatrixIsWorld
<1>4. Current(t)
  <2> SUFFICES ASSUME NEW x \in Entities PROVE
        /\ ~Invalid(t, x, "M") => Of(t, x).m = Of(t, x).local
        /\ ~Invalid(t, x, "W") => Of(t, x).w = World(t)[x]
        /\ ~Invalid(t, x, "IW") => Of(t, x).iw = Inverse(World(t)[x])
    BY DEF Current
  <2>1. CASE x \in views
    <3>1. Of(t, x).m = LocalMatrix(s, x) /\ Of(t, x).w = Matrix(s)[x] /\ Of(t, x).local = Of(s, x).local
          /\ Of(t, x).iw = IF Invalid(s, x, "IW") THEN Inverse(Matrix(s)[x]) ELSE Of(s, x).iw
      BY <2>1 DEF Recomputed
    <3>2. ~Invalid(s, x, "IW") => Of(s, x).iw = Inverse(World(s)[x])
      BY DEF Current
    <3> QED
      BY <1>2, <1>3, <3>1, <3>2
  <2>2. CASE x \notin views
    <3>1. Of(t, x) = Of(s, x)
      BY <2>2 DEF Recomputed
    <3> QED
      BY <1>2, <3>1 DEF Current, Invalid
  <2> QED
    BY <2>1, <2>2
<1>5. \A x \in Entities : ~Invalid(t, x, "W") <=> x \in views \/ ~Invalid(s, x, "W")
  BY DEF Recomputed, Invalid
<1>6. Settled(t, {})
  <2> SUFFICES ASSUME NEW x \in Entities PROVE
        /\ ~Invalid(t, x, "W") => x \in t.related /\ (t.parent[x] = Null \/ ~Invalid(t, t.parent[x], "W"))
        /\ ~Invalid(t, x, "IW") => ~Invalid(t, x, "W")
    BY DEF Settled
  <2>1. s.parent[x] = Null \/ s.parent[x] \in Entities
    BY <1>1 DEF Parents
  <2>2. ~Invalid(s, x, "W") => x \in s.related /\ (s.parent[x] = Null \/ ~Invalid(s, s.parent[x], "W") \/ s.parent[x] \in views)
    BY DEF Settled
  <2>3. ~Invalid(t, x, "W") => t.parent[x] = Null \/ ~Invalid(t, t.parent[x], "W")
    BY <1>1, <1>5, <2>1, <2>2
  <2>4. ~Invalid(t, x, "W") => x \in t.related
    BY <1>5, <2>2 DEF Recomputed
  <2>5. ~Invalid(t, x, "IW") => ~Invalid(t, x, "W")
    BY <1>5 DEF Settled, Recomputed, Invalid
  <2> QED
    BY <2>3, <2>4, <2>5
<1> QED
  BY <1>1, <1>2, <1>4, <1>6 DEF Sound
-----------------------------------------------------------------------------
(* Recalculating. *)

(* What has a component keeps it, with the flag that asks for an event,    *)
(* and asks for one when its local transform is another.                   *)
Grows(s, t) ==
  /\ DOMAIN s.tf \subseteq DOMAIN t.tf
  /\ \A x \in DOMAIN s.tf :
       /\ Invalid(s, x, "EventFlag") => Invalid(t, x, "EventFlag")
       /\ t.tf[x].local # s.tf[x].local => Invalid(t, x, "EventFlag")

LEMMA GrowsOn ==
  ASSUME NEW s, NEW t, NEW u, Grows(s, t), Grows(t, u)
  PROVE  Grows(s, u)
BY DEF Grows

LEMMA RecomputedGrows ==
  ASSUME NEW s, NEW t, NEW views, Typed(s), Recomputed(s, views, t)
  PROVE  Grows(s, t)
<1>1. DOMAIN s.tf \subseteq DOMAIN t.tf /\ DOMAIN s.tf \subseteq Entities
  BY DEF Recomputed, Typed
<1>2. ASSUME NEW x \in DOMAIN s.tf
      PROVE  t.tf[x].local = s.tf[x].local /\ (Invalid(t, x, "EventFlag") <=> Invalid(s, x, "EventFlag"))
  <2>1. Of(t, x) = t.tf[x] /\ Of(s, x) = s.tf[x]
    BY <1>1 DEF Of, Has
  <2>2. Of(t, x).local = Of(s, x).local /\ (Invalid(t, x, "EventFlag") <=> Invalid(s, x, "EventFlag"))
    BY <1>1 DEF Recomputed
  <2> QED
    BY <2>1, <2>2
<1> QED
  BY <1>1, <1>2 DEF Grows

(* What recalculating a sound scene gives. *)
Better(s, t, views) ==
  /\ Sound(t)
  /\ t.parent = s.parent
  /\ s.related \cup views \subseteq t.related
  /\ views \subseteq DOMAIN t.tf
  /\ Grows(s, t)
  /\ \A x \in Entities : World(t)[x] = World(s)[x]
  /\ \A x \in Entities : Of(t, x).local = Of(s, x).local
  /\ \A x \in views : t.tf[x].w = World(s)[x] /\ t.tf[x].iw = Inverse(World(s)[x])

LEMMA UpdatedBetter ==
  ASSUME NEW s, NEW views \in SUBSET Entities,
         Typed(s), Rooted(s.parent), Current(s), Settled(s, views),
         \A x \in views : Invalid(s, x, "W") /\ s.parent[x] # Null => s.parent[x] \in views
  PROVE  Better(s, Updated(s, views, [x \in Entities |-> LocalMatrix(s, x)], Matrix(s)), views)
<1> DEFINE t == Updated(s, views, [x \in Entities |-> LocalMatrix(s, x)], Matrix(s))
<1>1. Recomputed(s, views, t)
  BY UpdatedFields
<1> HIDE DEF t
<1>2. Sound(t) /\ \A x \in Entities : World(t)[x] = World(s)[x]
  BY <1>1, RecomputedSound
<1>3. Grows(s, t)
  BY <1>1, RecomputedGrows
<1>4. t.parent = s.parent /\ s.related \cup views \subseteq t.related /\ DOMAIN s.tf \cup views \subseteq DOMAIN t.tf
      /\ DOMAIN s.tf \subseteq Entities
  BY <1>1 DEF Recomputed, Typed
<1>5. \A x \in Entities : Of(t, x).local = Of(s, x).local
  BY <1>1 DEF Recomputed
<1>6. ASSUME NEW x \in views PROVE t.tf[x].w = World(s)[x] /\ t.tf[x].iw = Inverse(World(s)[x])
  <2>1. Of(t, x) = t.tf[x]
    BY <1>4 DEF Of, Has
  <2>2. ~Invalid(t, x, "W") /\ ~Invalid(t, x, "IW")
    BY <1>1 DEF Recomputed
  <2>3. Of(t, x).w = World(t)[x] /\ Of(t, x).iw = Inverse(World(t)[x])
    BY <1>2, <2>2 DEF Sound, Current
  <2> QED
    BY <1>2, <2>1, <2>3
<1>7. Better(s, t, views)
  BY <1>2, <1>3, <1>4, <1>5, <1>6 DEF Better
<1> QED
  BY <1>7 DEF t

LEMMA RecalculatedAllBetter ==
  ASSUME NEW s, Sound(s), NEW entities \in SUBSET Entities
  PROVE  /\ Better(s, RecalculatedAll(s, entities), UNION {Reached(s, x) : x \in entities})
         /\ entities \subseteq UNION {Reached(s, x) : x \in entities}
<1> DEFINE views == UNION {Reached(s, x) : x \in entities}
<1>1. Typed(s) /\ Rooted(s.parent) /\ Current(s) /\ Settled(s, {})
  BY DEF Sound
<1>2. Settled(s, views)
  BY <1>1 DEF Settled
<1>3. views \in SUBSET Entities /\ entities \subseteq views
  BY <1>1, ReachedSteps
<1>4. ASSUME NEW x \in views, Invalid(s, x, "W"), s.parent[x] # Null PROVE s.parent[x] \in views
  <2>1. PICK e \in entities : x \in Reached(s, e)
    OBVIOUS
  <2>2. s.parent[x] \in Reached(s, e)
    BY <1>1, <1>4, <2>1, ReachedCloses
  <2> QED
    BY <2>2
<1>5. RecalculatedAll(s, entities) = Updated(s, views, [x \in Entities |-> LocalMatrix(s, x)], Matrix(s))
  BY DEF RecalculatedAll
<1> HIDE DEF views
<1>6. Better(s, RecalculatedAll(s, entities), views)
  BY <1>1, <1>2, <1>3, <1>4, <1>5, UpdatedBetter
<1> QED
  BY <1>3, <1>6 DEF views

LEMMA RecalculatedBetter ==
  ASSUME NEW s, Sound(s), NEW e \in Entities
  PROVE  /\ Better(s, Recalculated(s, e), Reached(s, e))
         /\ e \in Reached(s, e)
<1>1. UNION {Reached(s, x) : x \in {e}} = Reached(s, e)
  OBVIOUS
<1>2. Better(s, RecalculatedAll(s, {e}), UNION {Reached(s, x) : x \in {e}})
      /\ {e} \subseteq UNION {Reached(s, x) : x \in {e}}
  BY RecalculatedAllBetter, SMTT(60)
<1> QED
  BY <1>1, <1>2 DEF Recalculated

(* Computing all above anew, valid or not, gives the same matrices. *)
LEMMA ForcedBetter ==
  ASSUME NEW s, Sound(s), NEW e \in Entities
  PROVE  Better(s, Forced(s, e), Lineage(s, e))
<1> DEFINE above == Lineage(s, e)
           out == [x \in DOMAIN s.tf |->
                    IF x \notin above THEN s.tf[x]
                    ELSE [s.tf[x] EXCEPT !.dirty = @ \cup {"M", "W", "IW"}]]
           u == [s EXCEPT !.tf = out]
<1>0. Forced(s, e) = Recalculated(u, e)
  BY DEF Forced
<1>1. Typed(s) /\ Rooted(s.parent) /\ Current(s) /\ Settled(s, {}) /\ s.parent \in Parents /\ DOMAIN s.tf \subseteq Entities
      /\ s = [parent |-> s.parent, related |-> s.related, tf |-> s.tf] /\ s.tf \in [DOMAIN s.tf -> Components]
      /\ above \in SUBSET Entities
  BY LineageSteps DEF Sound, Typed
<1>2. u = [parent |-> s.parent, related |-> s.related, tf |-> out]
  <2> HIDE DEF out
  <2> QED
    BY <1>1
<1>3. u.parent = s.parent /\ u.related = s.related /\ u.tf = out /\ DOMAIN u.tf = DOMAIN s.tf
      /\ u = [parent |-> u.parent, related |-> u.related, tf |-> u.tf]
  BY <1>2
<1> HIDE DEF above
<1>4. ASSUME NEW x \in DOMAIN s.tf PROVE
        /\ out[x] \in Components
        /\ out[x].local = s.tf[x].local /\ out[x].m = s.tf[x].m /\ out[x].w = s.tf[x].w /\ out[x].iw = s.tf[x].iw
        /\ out[x].dirty = IF x \in above THEN s.tf[x].dirty \cup {"M", "W", "IW"} ELSE s.tf[x].dirty
  <2>1. s.tf[x] \in Components
    BY <1>1
  <2>2. CASE x \in above
    <3>1. out[x] = [s.tf[x] EXCEPT !.dirty = @ \cup {"M", "W", "IW"}]
      BY <2>2
    <3>2. s.tf[x].dirty \cup {"M", "W", "IW"} \in SUBSET Flags
      BY <2>1 DEF Components, Flags
    <3> HIDE DEF out
    <3> QED
      BY <2>1, <2>2, <3>1, <3>2 DEF Components
  <2>3. CASE x \notin above
    BY <2>1, <2>3
  <2> QED
    BY <2>2, <2>3
<1>5. Typed(u)
  <2>1. u.tf \in [DOMAIN u.tf -> Components]
    BY <1>3, <1>4
  <2> QED
    BY <1>1, <1>3, <2>1, SMTT(30), ZenonT(30) DEF Typed
<1> HIDE DEF u, out
<1>6. ASSUME NEW x \in Entities PROVE
        /\ Of(u, x).local = Of(s, x).local /\ Of(u, x).m = Of(s, x).m /\ Of(u, x).w = Of(s, x).w /\ Of(u, x).iw = Of(s, x).iw
        /\ Invalid(u, x, "M") <=> Invalid(s, x, "M") \/ x \in above
        /\ Invalid(u, x, "W") <=> Invalid(s, x, "W") \/ x \in above
        /\ Invalid(u, x, "IW") <=> Invalid(s, x, "IW") \/ x \in above
        /\ Invalid(u, x, "EventFlag") <=> Invalid(s, x, "EventFlag")
  <2>1. CASE x \in DOMAIN s.tf
    <3>1. Of(u, x) = out[x] /\ Of(s, x) = s.tf[x]
      BY <1>3, <2>1 DEF Of, Has
    <3>2. Of(u, x).dirty = IF x \in above THEN Of(s, x).dirty \cup {"M", "W", "IW"} ELSE Of(s, x).dirty
      BY <1>4, <2>1, <3>1, ZenonT(30), SMTT(30)
    <3>3. /\ Of(u, x).local = Of(s, x).local /\ Of(u, x).m = Of(s, x).m
          /\ Of(u, x).w = Of(s, x).w /\ Of(u, x).iw = Of(s, x).iw
      BY <1>4, <2>1, <3>1, ZenonT(30), SMTT(30)
    <3>4. CASE x \in above
      BY <3>2, <3>3, <3>4 DEF Invalid
    <3>5. CASE x \notin above
      BY <3>2, <3>3, <3>5 DEF Invalid
    <3> QED
      BY <3>4, <3>5
  <2>2. CASE x \notin DOMAIN s.tf
    <3>1. Of(u, x) = Fresh /\ Of(s, x) = Fresh
      BY <1>3, <2>2 DEF Of, Has
    <3> QED
      BY <3>1, FreshType DEF Invalid
  <2> QED
    BY <2>1, <2>2
<1>7. \A x \in Entities : World(u)[x] = World(s)[x]
  BY <1>1, <1>3, <1>5, <1>6, SameWorld
<1>8. Current(u)
  BY <1>1, <1>6, <1>7 DEF Current
<1>9. \A x \in Entities : x \in above /\ s.parent[x] # Null => s.parent[x] \in above
  BY <1>1, LineageCloses DEF above
<1>10. Settled(u, above)
  <2> SUFFICES ASSUME NEW x \in Entities PROVE
        /\ ~Invalid(u, x, "W") => x \in u.related
             /\ (u.parent[x] = Null \/ ~Invalid(u, u.parent[x], "W") \/ u.parent[x] \in above)
        /\ ~Invalid(u, x, "IW") => ~Invalid(u, x, "W")
    BY DEF Settled
  <2>1. s.parent[x] = Null \/ s.parent[x] \in Entities
    BY <1>1 DEF Parents
  <2>2. ~Invalid(s, x, "W") => x \in s.related /\ (s.parent[x] = Null \/ ~Invalid(s, s.parent[x], "W"))
    BY <1>1 DEF Settled
  <2>3. ~Invalid(s, x, "IW") => ~Invalid(s, x, "W")
    BY <1>1 DEF Settled
  <2> QED
    BY <1>3, <1>6, <2>1, <2>2, <2>3
<1>11. Reached(u, e) = above
  <2> DEFINE T == {y \in Entities : y \in above => Reached(u, y) = Lineage(s, y)}
  <2>1. ASSUME NEW y \in Entities, s.parent[y] = Null \/ s.parent[y] \in T PROVE y \in T
    <3> SUFFICES ASSUME y \in above PROVE Reached(u, y) = Lineage(s, y)
      OBVIOUS
    <3>1. Invalid(u, y, "W")
      BY <1>6
    <3>2. Reached(u, y) = {y} \cup IF u.parent[y] = Null \/ ~Invalid(u, y, "W") THEN {} ELSE Reached(u, u.parent[y])
      BY <1>1, <1>3, <1>5, ReachedSteps
    <3>3. Lineage(s, y) = {y} \cup IF s.parent[y] = Null THEN {} ELSE Lineage(s, s.parent[y])
      BY <1>1, LineageSteps
    <3>4. s.parent[y] # Null => s.parent[y] \in above
      BY <1>9
    <3> QED
      BY <1>3, <2>1, <3>1, <3>2, <3>3, <3>4
  <2>2. Entities \subseteq T
    <3> HIDE DEF T
    <3> QED
      BY <1>1, <2>1, FromTheTop
  <2>3. e \in above
    BY <1>1, LineageSteps DEF above
  <2> QED
    BY <2>2, <2>3 DEF above
<1>12. Better(u, Recalculated(u, e), above)
  <2>1. UNION {Reached(u, x) : x \in {e}} = above
    BY <1>11
  <2>2. Recalculated(u, e) = Updated(u, above, [x \in Entities |-> LocalMatrix(u, x)], Matrix(u))
    BY <2>1 DEF Recalculated, RecalculatedAll
  <2>3. \A x \in above : Invalid(u, x, "W") /\ u.parent[x] # Null => u.parent[x] \in above
    BY <1>1, <1>3, <1>9
  <2>4. Better(u, Updated(u, above, [x \in Entities |-> LocalMatrix(u, x)], Matrix(u)), above)
    BY <1>1, <1>3, <1>5, <1>8, <1>10, <2>3, UpdatedBetter
  <2> QED
    BY <2>2, <2>4
<1> DEFINE t == Recalculated(u, e)
<1> HIDE DEF t
<1>13. Better(u, t, above)
  BY <1>12 DEF t
<1>14. Grows(s, u)
  <2>1. \A x \in DOMAIN s.tf : u.tf[x].local = s.tf[x].local /\ (Invalid(u, x, "EventFlag") <=> Invalid(s, x, "EventFlag"))
    BY <1>1, <1>3, <1>4, <1>6
  <2> QED
    BY <1>3, <2>1 DEF Grows
<1>15. Grows(s, t)
  <2>1. Grows(u, t)
    BY <1>13 DEF Better
  <2> QED
    BY <1>14, <2>1, GrowsOn
<1>16. \A x \in Entities : Of(t, x).local = Of(s, x).local
  BY <1>6, <1>13 DEF Better
<1>17. \A x \in Entities : World(t)[x] = World(s)[x]
  BY <1>7, <1>13 DEF Better
<1>18. \A x \in above : t.tf[x].w = World(s)[x] /\ t.tf[x].iw = Inverse(World(s)[x])
  BY <1>1, <1>7, <1>13 DEF Better
<1>19. Better(s, t, above)
  BY <1>3, <1>13, <1>15, <1>16, <1>17, <1>18 DEF Better
<1> QED
  BY <1>0, <1>19 DEF t, above
-----------------------------------------------------------------------------
(* Setting a local transform, with or without another parent. *)

(* e got another place and all that was made of its old one is out of date. *)
Stale(s, t, e, p, m) ==
  /\ Typed(t)
  /\ t.parent = [s.parent EXCEPT ![e] = p]
  /\ s.related \subseteq t.related
  /\ Of(t, e).local = m
  /\ ~Invalid(t, e, "M") => Of(t, e).m = m
  /\ Invalid(t, e, "W") /\ Invalid(t, e, "IW")
  /\ \A x \in Entities \ {e} :
       /\ Of(t, x).local = Of(s, x).local /\ Of(t, x).m = Of(s, x).m
       /\ Of(t, x).w = Of(s, x).w /\ Of(t, x).iw = Of(s, x).iw
       /\ Invalid(t, x, "M") <=> Invalid(s, x, "M")
       /\ ~Invalid(t, x, "W") => ~Invalid(s, x, "W") /\ (s.parent[x] = Null \/ ~Invalid(t, s.parent[x], "W"))
       /\ ~Invalid(t, x, "IW") => ~Invalid(t, x, "W") /\ ~Invalid(s, x, "IW")

LEMMA StaleSound ==
  ASSUME NEW s, Sound(s), NEW t, NEW e \in Entities, NEW p \in Entities \cup {Null}, NEW m \in Matrices,
         Rooted([s.parent EXCEPT ![e] = p]), Stale(s, t, e, p, m)
  PROVE  Sound(t)
<1>1. Typed(s) /\ Rooted(s.parent) /\ Current(s) /\ Settled(s, {}) /\ s.parent \in Parents
  BY DEF Sound, Typed
<1>2. Typed(t) /\ Rooted(t.parent) /\ t.parent = [s.parent EXCEPT ![e] = p] /\ s.related \subseteq t.related
  BY DEF Stale
<1>3. \A x \in Entities \ {e} : t.parent[x] = s.parent[x]
  BY <1>1, <1>2 DEF Parents
<1>4. \A x \in Entities : ~Invalid(t, x, "W") => World(t)[x] = World(s)[x]
  <2> DEFINE T == {x \in Entities : ~Invalid(t, x, "W") => World(t)[x] = World(s)[x]}
  <2>1. ASSUME NEW x \in Entities, s.parent[x] = Null \/ s.parent[x] \in T PROVE x \in T
    <3> SUFFICES ASSUME ~Invalid(t, x, "W") PROVE World(t)[x] = World(s)[x]
      OBVIOUS
    <3>1. x # e
      BY DEF Stale
    <3>2. Of(t, x).local = Of(s, x).local /\ (s.parent[x] = Null \/ ~Invalid(t, s.parent[x], "W"))
      BY <3>1 DEF Stale
    <3>3. s.parent[x] # Null => World(t)[s.parent[x]] = World(s)[s.parent[x]]
      BY <2>1, <3>2
    <3>4. World(s)[x] = IF s.parent[x] = Null THEN Of(s, x).local ELSE Product(World(s)[s.parent[x]], Of(s, x).local)
      BY <1>1, WorldSteps
    <3>5. World(t)[x] = IF t.parent[x] = Null THEN Of(t, x).local ELSE Product(World(t)[t.parent[x]], Of(t, x).local)
      BY <1>2, WorldSteps
    <3> QED
      BY <1>3, <3>1, <3>2, <3>3, <3>4, <3>5
  <2>2. Entities \subseteq T
    <3> HIDE DEF T
    <3> QED
      BY <1>1, <2>1, FromTheTop
  <2> QED
    BY <2>2
<1>5. Current(t)
  <2> SUFFICES ASSUME NEW x \in Entities PROVE
        /\ ~Invalid(t, x, "M") => Of(t, x).m = Of(t, x).local
        /\ ~Invalid(t, x, "W") => Of(t, x).w = World(t)[x]
        /\ ~Invalid(t, x, "IW") => Of(t, x).iw = Inverse(World(t)[x])
    BY DEF Current
  <2>1. CASE x = e
    BY <2>1 DEF Stale
  <2>2. CASE x # e
    <3>1. /\ Of(t, x).local = Of(s, x).local /\ Of(t, x).m = Of(s, x).m
          /\ Of(t, x).w = Of(s, x).w /\ Of(t, x).iw = Of(s, x).iw
          /\ Invalid(t, x, "M") <=> Invalid(s, x, "M")
          /\ ~Invalid(t, x, "W") => ~Invalid(s, x, "W")
          /\ ~Invalid(t, x, "IW") => ~Invalid(t, x, "W") /\ ~Invalid(s, x, "IW")
      BY <2>2 DEF Stale
    <3>2. /\ ~Invalid(s, x, "M") => Of(s, x).m = Of(s, x).local
          /\ ~Invalid(s, x, "W") => Of(s, x).w = World(s)[x]
          /\ ~Invalid(s, x, "IW") => Of(s, x).iw = Inverse(World(s)[x])
      BY <1>1 DEF Current
    <3> QED
      BY <1>4, <3>1, <3>2
  <2> QED
    BY <2>1, <2>2
<1>6. Settled(t, {})
  <2> SUFFICES ASSUME NEW x \in Entities PROVE
        /\ ~Invalid(t, x, "W") => x \in t.related /\ (t.parent[x] = Null \/ ~Invalid(t, t.parent[x], "W"))
        /\ ~Invalid(t, x, "IW") => ~Invalid(t, x, "W")
    BY DEF Settled
  <2>1. CASE x = e
    BY <2>1 DEF Stale
  <2>2. CASE x # e
    <3>1. /\ ~Invalid(t, x, "W") => ~Invalid(s, x, "W") /\ (s.parent[x] = Null \/ ~Invalid(t, s.parent[x], "W"))
          /\ ~Invalid(t, x, "IW") => ~Invalid(t, x, "W")
      BY <2>2 DEF Stale
    <3>2. ~Invalid(s, x, "W") => x \in s.related
      BY <1>1 DEF Settled
    <3> QED
      BY <1>2, <1>3, <2>2, <3>1, <3>2
  <2> QED
    BY <2>1, <2>2
<1> QED
  BY <1>2, <1>5, <1>6 DEF Sound

Moved(s, t, e, p, m) ==
  /\ Sound(t)
  /\ t.parent = [s.parent EXCEPT ![e] = p]
  /\ s.related \subseteq t.related
  /\ Grows(s, t)
  /\ Of(t, e).local = m
  /\ \A x \in Entities \ {e} : Of(t, x).local = Of(s, x).local

LEMMA SetLocalMoves ==
  ASSUME NEW s, Sound(s), NEW e \in DOMAIN s.tf, NEW p \in Entities \cup {Null}, NEW m \in Matrices,
         Rooted([s.parent EXCEPT ![e] = p])
  PROVE  Moved(s, SetLocal([s EXCEPT !.parent[e] = p], e, m), e, p, m)
<1> DEFINE r == [[s EXCEPT !.parent[e] = p] EXCEPT !.tf[e].local = m]
           flagged == [r EXCEPT !.tf[e].dirty = @ \cup {"M", "EventFlag"}]
           entered == Entered(flagged, e)
           marked == [flagged EXCEPT !.tf =
                       [x \in DOMAIN flagged.tf |->
                          IF x \notin entered THEN flagged.tf[x]
                          ELSE [flagged.tf[x] EXCEPT !.dirty = @ \cup {"W", "IW"}]]]
<1>0. SetLocal([s EXCEPT !.parent[e] = p], e, m)
        = IF Invalid(r, e, "W") THEN flagged ELSE RecalculatedAll(marked, entered \ {e})
  BY DEF SetLocal, Invalidated
<1>1. Typed(s) /\ Rooted(s.parent) /\ Current(s) /\ Settled(s, {}) /\ s.parent \in Parents /\ DOMAIN s.tf \subseteq Entities
      /\ s = [parent |-> s.parent, related |-> s.related, tf |-> s.tf] /\ s.tf \in [DOMAIN s.tf -> Components]
      /\ s.related \subseteq Entities /\ e \in Entities
  BY DEF Sound, Typed
<1> DEFINE parent == [s.parent EXCEPT ![e] = p]
           at == [s.tf EXCEPT ![e].local = m]
           tf == [at EXCEPT ![e].dirty = @ \cup {"M", "EventFlag"}]
<1>2. r = [parent |-> parent, related |-> s.related, tf |-> at]
  <2>1. [s EXCEPT !.parent[e] = p] = [parent |-> parent, related |-> s.related, tf |-> s.tf]
    BY <1>1
  <2> DEFINE q == [s EXCEPT !.parent[e] = p]
  <2>2. r = [q EXCEPT !.tf[e].local = m]
    OBVIOUS
  <2>3. q = [parent |-> parent, related |-> s.related, tf |-> s.tf]
    BY <2>1
  <2> HIDE DEF parent, q, r
  <2>4. q.tf = s.tf
    BY <2>3
  <2>5. [q EXCEPT !.tf[e].local = m] = [q EXCEPT !.tf = at]
    BY <2>4
  <2> HIDE DEF at
  <2>6. [q EXCEPT !.tf = at] = [parent |-> parent, related |-> s.related, tf |-> at]
    BY <2>3
  <2> QED
    BY <2>2, <2>5, <2>6
<1>3. flagged = [parent |-> parent, related |-> s.related, tf |-> tf]
  <2> HIDE DEF r, parent, at
  <2> QED
    BY <1>2, SMTT(30), ZenonT(30)
<1>4. s.tf[e] \in Components
  BY <1>1
<1>5. at = [s.tf EXCEPT ![e] = [s.tf[e] EXCEPT !.local = m]]
  BY <1>1
<1>6. tf = [at EXCEPT ![e] = [at[e] EXCEPT !.dirty = @ \cup {"M", "EventFlag"}]]
  <2> HIDE DEF at
  <2> QED
    BY <1>5
<1>7. tf \in [DOMAIN s.tf -> Components]
      /\ (\A x \in DOMAIN s.tf \ {e} : tf[x] = s.tf[x])
      /\ tf[e].local = m /\ tf[e].m = s.tf[e].m /\ tf[e].w = s.tf[e].w /\ tf[e].iw = s.tf[e].iw
      /\ tf[e].dirty = s.tf[e].dirty \cup {"M", "EventFlag"}
  <2>1. [s.tf[e] EXCEPT !.local = m] \in Components
    BY <1>4 DEF Components
  <2>2. at[e] = [s.tf[e] EXCEPT !.local = m]
    BY <1>1, <1>5
  <2>3. at \in [DOMAIN s.tf -> Components] /\ \A x \in DOMAIN s.tf \ {e} : at[x] = s.tf[x]
    BY <1>1, <1>5, <2>1
  <2> HIDE DEF at
  <2>4. at[e].local = m /\ at[e].m = s.tf[e].m /\ at[e].w = s.tf[e].w /\ at[e].iw = s.tf[e].iw /\ at[e].dirty = s.tf[e].dirty
    BY <1>4, <2>2 DEF Components
  <2>5. at[e] \in Components /\ at[e].dirty \cup {"M", "EventFlag"} \in SUBSET Flags
    BY <2>1, <2>2 DEF Components, Flags
  <2>6. [at[e] EXCEPT !.dirty = @ \cup {"M", "EventFlag"}] \in Components
    BY <2>5 DEF Components
  <2> HIDE DEF tf
  <2>7. tf[e] = [at[e] EXCEPT !.dirty = @ \cup {"M", "EventFlag"}] /\ tf \in [DOMAIN s.tf -> Components]
        /\ \A x \in DOMAIN s.tf \ {e} : tf[x] = at[x]
    BY <1>6, <2>3, <2>6
  <2>8. tf[e].local = at[e].local /\ tf[e].m = at[e].m /\ tf[e].w = at[e].w /\ tf[e].iw = at[e].iw
        /\ tf[e].dirty = at[e].dirty \cup {"M", "EventFlag"}
    BY <2>5, <2>7 DEF Components
  <2> QED
    BY <2>3, <2>4, <2>7, <2>8
<1>8. parent \in Parents /\ parent[e] = p /\ \A x \in Entities \ {e} : parent[x] = s.parent[x]
  BY <1>1 DEF Parents
<1>9. Rooted(parent)
  OBVIOUS
<1>10. Invalid(r, e, "W") <=> Invalid(s, e, "W")
  <2>1. r.tf = at /\ e \in DOMAIN at /\ at[e].dirty = s.tf[e].dirty
    <3>1. at[e] = [s.tf[e] EXCEPT !.local = m] /\ e \in DOMAIN at
      BY <1>1, <1>5
    <3>2. at[e].dirty = s.tf[e].dirty
      BY <1>4, <3>1 DEF Components
    <3> HIDE DEF r, at
    <3> QED
      BY <1>2, <3>1, <3>2
  <2> HIDE DEF r, at
  <2> QED
    BY <2>1 DEF Invalid, Of, Has
<1> HIDE DEF r, at, tf, parent
<1>11. flagged.parent = parent /\ flagged.related = s.related /\ flagged.tf = tf /\ DOMAIN flagged.tf = DOMAIN s.tf
       /\ flagged = [parent |-> flagged.parent, related |-> flagged.related, tf |-> flagged.tf]
  BY <1>3, <1>7, ZenonT(30), SMTT(30)
<1> HIDE DEF flagged
<1>12. Typed(flagged)
  BY <1>1, <1>7, <1>8, <1>11 DEF Typed
<1>13. ASSUME NEW x \in Entities PROVE
         /\ x # e => Of(flagged, x) = Of(s, x)
         /\ Of(flagged, x).local = IF x = e THEN m ELSE Of(s, x).local
         /\ Of(flagged, x).m = Of(s, x).m /\ Of(flagged, x).w = Of(s, x).w /\ Of(flagged, x).iw = Of(s, x).iw
         /\ Invalid(flagged, x, "M") <=> Invalid(s, x, "M") \/ x = e
         /\ Invalid(flagged, x, "W") <=> Invalid(s, x, "W")
         /\ Invalid(flagged, x, "IW") <=> Invalid(s, x, "IW")
         /\ Invalid(flagged, x, "EventFlag") <=> Invalid(s, x, "EventFlag") \/ x = e
  <2>1. CASE x = e
    <3>1. Of(flagged, e) = tf[e] /\ Of(s, e) = s.tf[e]
      BY <1>11 DEF Of, Has
    <3>2. Of(flagged, e).dirty = Of(s, e).dirty \cup {"M", "EventFlag"}
      BY <1>7, <3>1
    <3> QED
      BY <1>7, <2>1, <3>1, <3>2 DEF Invalid
  <2>2. CASE x # e
    <3>1. Of(flagged, x) = Of(s, x)
      BY <1>7, <1>11, <2>2 DEF Of, Has
    <3> QED
      BY <2>2, <3>1 DEF Invalid
  <2> QED
    BY <2>1, <2>2
<1>14. Grows(s, flagged)
  <2> SUFFICES ASSUME NEW x \in DOMAIN s.tf PROVE
        /\ Invalid(s, x, "EventFlag") => Invalid(flagged, x, "EventFlag")
        /\ flagged.tf[x].local # s.tf[x].local => Invalid(flagged, x, "EventFlag")
    BY <1>11 DEF Grows
  <2> QED
    BY <1>1, <1>7, <1>11, <1>13
<1>15. CASE Invalid(s, e, "W")
  <2>1. Stale(s, flagged, e, p, m)
    <3>1. ~Invalid(s, e, "IW") => ~Invalid(s, e, "W")
      BY <1>1 DEF Settled
    <3>2. Of(flagged, e).local = m /\ Invalid(flagged, e, "M") /\ Invalid(flagged, e, "W") /\ Invalid(flagged, e, "IW")
      BY <1>1, <1>13, <1>15, <3>1
    <3>3. ASSUME NEW x \in Entities \ {e} PROVE
            /\ Of(flagged, x).local = Of(s, x).local /\ Of(flagged, x).m = Of(s, x).m
            /\ Of(flagged, x).w = Of(s, x).w /\ Of(flagged, x).iw = Of(s, x).iw
            /\ Invalid(flagged, x, "M") <=> Invalid(s, x, "M")
            /\ ~Invalid(flagged, x, "W") => ~Invalid(s, x, "W") /\ (s.parent[x] = Null \/ ~Invalid(flagged, s.parent[x], "W"))
            /\ ~Invalid(flagged, x, "IW") => ~Invalid(flagged, x, "W") /\ ~Invalid(s, x, "IW")
      <4>1. /\ ~Invalid(s, x, "W") => s.parent[x] = Null \/ ~Invalid(s, s.parent[x], "W")
            /\ ~Invalid(s, x, "IW") => ~Invalid(s, x, "W")
        BY <1>1 DEF Settled
      <4>2. s.parent[x] = Null \/ s.parent[x] \in Entities
        BY <1>1 DEF Parents
      <4> QED
        BY <1>13, <4>1, <4>2
    <3> QED
      BY <1>11, <1>12, <3>2, <3>3 DEF Stale, parent
  <2>2. Sound(flagged)
    BY <1>1, <2>1, StaleSound
  <2>3. Moved(s, flagged, e, p, m)
    BY <1>1, <1>11, <1>13, <1>14, <2>2 DEF Moved, parent
  <2> QED
    BY <1>0, <1>10, <1>15, <2>3
<1>16. CASE ~Invalid(s, e, "W")
  <2> DEFINE mark == [x \in DOMAIN flagged.tf |->
                       IF x \notin entered THEN flagged.tf[x]
                       ELSE [flagged.tf[x] EXCEPT !.dirty = @ \cup {"W", "IW"}]]
  <2>1. entered \in SUBSET Entities /\ e \in entered
    BY <1>1, <1>9, <1>11, <1>12, EnteredSteps
  <2>2. \A x \in Entities : \A c \in Entities :
          x \in entered /\ (x = e \/ ~Invalid(flagged, x, "W")) /\ c \in DOMAIN s.tf /\ parent[c] = x => c \in entered
    <3> SUFFICES ASSUME NEW x \in Entities, NEW c \in Entities,
                        x \in entered, x = e \/ ~Invalid(flagged, x, "W"), c \in DOMAIN s.tf, parent[c] = x
                 PROVE  c \in entered
      OBVIOUS
    <3>1. c \in ChildrenWith(flagged, x)
      BY <1>11 DEF ChildrenWith
    <3> QED
      BY <1>1, <1>9, <1>11, <1>12, <3>1, EnteredCloses
  <2> HIDE DEF entered
  <2>3. marked = [parent |-> parent, related |-> s.related, tf |-> mark]
    <3>1. marked = [flagged EXCEPT !.tf = mark]
      OBVIOUS
    <3> HIDE DEF marked, mark
    <3> QED
      BY <1>11, <3>1
  <2>4. ASSUME NEW x \in DOMAIN s.tf PROVE
          /\ mark[x] \in Components
          /\ mark[x].local = tf[x].local /\ mark[x].m = tf[x].m /\ mark[x].w = tf[x].w /\ mark[x].iw = tf[x].iw
          /\ mark[x].dirty = IF x \in entered THEN tf[x].dirty \cup {"W", "IW"} ELSE tf[x].dirty
    <3>1. tf[x] \in Components
      BY <1>7
    <3>2. mark[x] = IF x \notin entered THEN tf[x] ELSE [tf[x] EXCEPT !.dirty = @ \cup {"W", "IW"}]
      BY <1>11
    <3> HIDE DEF mark
    <3>3. CASE x \in entered
      <4>1. tf[x].dirty \cup {"W", "IW"} \in SUBSET Flags
        BY <3>1 DEF Components, Flags
      <4> QED
        BY <3>1, <3>2, <3>3, <4>1 DEF Components
    <3>4. CASE x \notin entered
      BY <3>1, <3>2, <3>4
    <3> QED
      BY <3>3, <3>4
  <2>5. DOMAIN mark = DOMAIN s.tf /\ mark \in [DOMAIN s.tf -> Components]
    BY <1>11, <2>4
  <2> HIDE DEF mark
  <2>6. marked.parent = parent /\ marked.related = s.related /\ marked.tf = mark
        /\ marked = [parent |-> marked.parent, related |-> marked.related, tf |-> marked.tf]
    <3> HIDE DEF marked
    <3> QED
      BY <2>3
  <2> HIDE DEF marked
  <2>7. Typed(marked)
    BY <1>1, <1>8, <2>5, <2>6 DEF Typed
  <2>8. ASSUME NEW x \in Entities PROVE
          /\ Of(marked, x).local = Of(flagged, x).local /\ Of(marked, x).m = Of(flagged, x).m
          /\ Of(marked, x).w = Of(flagged, x).w /\ Of(marked, x).iw = Of(flagged, x).iw
          /\ Invalid(marked, x, "M") <=> Invalid(flagged, x, "M")
          /\ Invalid(marked, x, "W") <=> Invalid(flagged, x, "W") \/ x \in entered
          /\ Invalid(marked, x, "IW") <=> Invalid(flagged, x, "IW") \/ x \in entered
          /\ Invalid(marked, x, "EventFlag") <=> Invalid(flagged, x, "EventFlag")
    <3>1. CASE x \in DOMAIN s.tf
      <4>1. Of(marked, x) = mark[x] /\ Of(flagged, x) = tf[x]
        BY <1>11, <2>5, <2>6, <3>1 DEF Of, Has
      <4>2. Of(marked, x).dirty = IF x \in entered THEN Of(flagged, x).dirty \cup {"W", "IW"} ELSE Of(flagged, x).dirty
        BY <2>4, <3>1, <4>1
      <4>3. /\ Of(marked, x).local = Of(flagged, x).local /\ Of(marked, x).m = Of(flagged, x).m
            /\ Of(marked, x).w = Of(flagged, x).w /\ Of(marked, x).iw = Of(flagged, x).iw
        BY <2>4, <3>1, <4>1
      <4>4. CASE x \in entered
        BY <4>2, <4>3, <4>4 DEF Invalid
      <4>5. CASE x \notin entered
        BY <4>2, <4>3, <4>5 DEF Invalid
      <4> QED
        BY <4>4, <4>5
    <3>2. CASE x \notin DOMAIN s.tf
      <4>1. Of(marked, x) = Fresh /\ Of(flagged, x) = Fresh
        BY <1>11, <2>5, <2>6, <3>2 DEF Of, Has
      <4> QED
        BY <4>1, FreshType DEF Invalid
    <3> QED
      BY <3>1, <3>2
  <2>9. Stale(s, marked, e, p, m)
    <3>1. Of(marked, e).local = m /\ Invalid(marked, e, "M") /\ Invalid(marked, e, "W") /\ Invalid(marked, e, "IW")
      BY <1>1, <1>13, <2>1, <2>8
    <3>2. ASSUME NEW x \in Entities \ {e} PROVE
            /\ Of(marked, x).local = Of(s, x).local /\ Of(marked, x).m = Of(s, x).m
            /\ Of(marked, x).w = Of(s, x).w /\ Of(marked, x).iw = Of(s, x).iw
            /\ Invalid(marked, x, "M") <=> Invalid(s, x, "M")
            /\ ~Invalid(marked, x, "W") => ~Invalid(s, x, "W") /\ (s.parent[x] = Null \/ ~Invalid(marked, s.parent[x], "W"))
            /\ ~Invalid(marked, x, "IW") => ~Invalid(marked, x, "W") /\ ~Invalid(s, x, "IW")
      <4>1. /\ ~Invalid(s, x, "W") => s.parent[x] = Null \/ ~Invalid(s, s.parent[x], "W")
            /\ ~Invalid(s, x, "IW") => ~Invalid(s, x, "W")
        BY <1>1 DEF Settled
      <4>2. s.parent[x] = Null \/ s.parent[x] \in Entities
        BY <1>1 DEF Parents
      <4>3. ASSUME ~Invalid(marked, x, "W"), s.parent[x] # Null PROVE ~Invalid(marked, s.parent[x], "W")
        <5>1. x \notin entered /\ ~Invalid(s, x, "W") /\ ~Invalid(s, s.parent[x], "W") /\ s.parent[x] \in Entities
          BY <1>13, <2>8, <4>1, <4>2, <4>3
        <5>2. x \in DOMAIN s.tf
          BY <1>1, <5>1, OfType DEF Has
        <5>3. ~Invalid(flagged, s.parent[x], "W") /\ parent[x] = s.parent[x]
          BY <1>8, <1>13, <5>1
        <5>4. s.parent[x] \notin entered
          BY <2>2, <5>1, <5>2, <5>3
        <5> QED
          BY <2>8, <5>1, <5>3, <5>4
      <4> QED
        BY <1>13, <2>8, <4>1, <4>3
    <3> QED
      BY <2>6, <2>7, <3>1, <3>2 DEF Stale, parent
  <2>10. Sound(marked)
    BY <1>1, <2>9, StaleSound
  <2> DEFINE t == RecalculatedAll(marked, entered \ {e})
             views == UNION {Reached(marked, x) : x \in entered \ {e}}
  <2>11. Better(marked, t, views)
    <3> HIDE DEF t, views
    <3>1. entered \ {e} \in SUBSET Entities
      BY <2>1
    <3>2. Better(marked, RecalculatedAll(marked, entered \ {e}), UNION {Reached(marked, x) : x \in entered \ {e}})
      BY <2>10, <3>1, RecalculatedAllBetter
    <3> QED
      BY <3>2 DEF t, views
  <2>12. SetLocal([s EXCEPT !.parent[e] = p], e, m) = t
    BY <1>0, <1>10, <1>16
  <2> HIDE DEF t, views
  <2>13. Grows(flagged, marked)
    <3>1. \A x \in DOMAIN flagged.tf :
            marked.tf[x].local = flagged.tf[x].local /\ (Invalid(marked, x, "EventFlag") <=> Invalid(flagged, x, "EventFlag"))
      BY <1>1, <1>11, <2>4, <2>6, <2>8
    <3> QED
      BY <1>11, <2>5, <2>6, <3>1 DEF Grows
  <2>14. Grows(s, t)
    <3>1. Grows(marked, t)
      BY <2>11 DEF Better
    <3>2. Grows(s, marked)
      BY <1>14, <2>13, GrowsOn
    <3> QED
      BY <3>1, <3>2, GrowsOn
  <2>15. t.parent = parent /\ s.related \subseteq t.related /\ Sound(t) /\ \A x \in Entities : Of(t, x).local = Of(marked, x).local
    BY <2>6, <2>11 DEF Better
  <2>16. Of(t, e).local = m /\ \A x \in Entities \ {e} : Of(t, x).local = Of(s, x).local
    BY <1>1, <1>13, <2>8, <2>15
  <2>17. Moved(s, t, e, p, m)
    BY <2>14, <2>15, <2>16 DEF Moved, parent
  <2> QED
    BY <2>12, <2>17
<1> QED
  BY <1>15, <1>16
-----------------------------------------------------------------------------
(* Going to a place and back. *)

(* i is a number of turns around the ring, and i % Ring. *)
LEMMA Turns == ASSUME NEW i \in Int PROVE \E q \in Int : i = Ring * q + (i % Ring)
<1> DEFINE Rests == {n \in Nat : \E q \in Int : i = Ring * q + n}
<1>1. PICK j \in Nat : i = j \/ i = 0 - j
  OBVIOUS
<1>2. Rests # {}
  <2>1. CASE i = j
    <3>1. i = Ring * 0 + j /\ 0 \in Int
      BY <2>1
    <3>2. \E q \in Int : i = Ring * q + j
      BY <3>1, Zenon
    <3> QED
      BY <3>2
  <2>2. CASE i = 0 - j
    <3>1. Ring * j \in Nat /\ Ring * j >= j
      <4>1. PICK d \in Nat : Ring = d + 1
        <5>1. Ring - 1 \in Nat /\ Ring = (Ring - 1) + 1
          OBVIOUS
        <5> QED
          BY <5>1
      <4>2. (d + 1) * j = d * j + j
        OBVIOUS
      <4>3. d * j \in Nat
        OBVIOUS
      <4> QED
        BY <4>1, <4>2, <4>3
    <3>2. Ring * (0 - j) = 0 - Ring * j
      OBVIOUS
    <3>3. i = Ring * (0 - j) + (Ring * j - j) /\ Ring * j - j \in Nat /\ 0 - j \in Int
      BY <2>2, <3>1, <3>2
    <3> QED
      BY <3>3
  <2> QED
    BY <1>1, <2>1, <2>2
<1>3. PICK n \in Rests : \A k \in Rests : n <= k
  <2>1. Rests \in SUBSET Nat
    OBVIOUS
  <2> HIDE DEF Rests
  <2> QED
    BY <1>2, <2>1, Least
<1>4. PICK q \in Int : i = Ring * q + n
  OBVIOUS
<1>5. n < Ring
  <2> SUFFICES ASSUME ~(n < Ring) PROVE FALSE
    OBVIOUS
  <2>1. n \in Nat /\ n - Ring \in Nat
    OBVIOUS
  <2>2. Ring * (q + 1) = Ring * q + Ring
    OBVIOUS
  <2>3. i = Ring * (q + 1) + (n - Ring)
    BY <1>4, <2>1, <2>2
  <2>4. n - Ring \in Rests
    BY <2>1, <2>3
  <2>5. n <= n - Ring
    BY <1>3, <2>4
  <2> QED
    BY <2>1, <2>5
<1>6. n \in 0..Ring-1
  BY <1>5
<1>7. i % Ring = n
  <2> HIDE DEF Rests
  <2> QED
    BY <1>4, <1>6
<1> QED
  BY <1>4, <1>7

(* A rest is the only one. *)
LEMMA Rest == ASSUME NEW i \in Int, NEW q \in Int, NEW n \in 0..Ring-1, i = Ring * q + n PROVE i % Ring = n
OBVIOUS

(* What is a rest already may be added or not. *)
LEMMA RestOfSum ==
  ASSUME NEW i \in Int, NEW j \in Int
  PROVE  /\ (i + (j % Ring)) % Ring = (i + j) % Ring
         /\ (i - (j % Ring)) % Ring = (i - j) % Ring
<1>1. PICK q \in Int : j = Ring * q + (j % Ring)
  BY Turns
<1>2. j % Ring \in Int
  BY Modulo
<1>3. (i + (j % Ring)) % Ring = (i + j) % Ring
  <2>1. i + j \in Int /\ i + (j % Ring) \in Int
    BY <1>2
  <2>2. PICK r \in Int : i + j = Ring * r + ((i + j) % Ring)
    BY <2>1, Turns
  <2>3. (i + j) % Ring \in 0..Ring-1
    BY <2>1, Modulo
  <2>4. Ring * (r - q) = Ring * r - Ring * q
    OBVIOUS
  <2>5. i + (j % Ring) = Ring * (r - q) + ((i + j) % Ring)
    <3> DEFINE a == Ring * q
               b == Ring * r
               u == j % Ring
               v == (i + j) % Ring
    <3>1. a \in Int /\ b \in Int /\ u \in Int /\ v \in Int
      BY <1>2, <2>3
    <3>2. j = a + u /\ i + j = b + v
      BY <1>1, <2>2
    <3> HIDE DEF a, b, u, v
    <3>3. i + u = (b - a) + v
      BY <3>1, <3>2
    <3> QED
      BY <2>4, <3>3 DEF a, b, u, v
  <2>6. r - q \in Int
    OBVIOUS
  <2> QED
    BY <2>1, <2>3, <2>5, <2>6, Rest
<1>4. (i - (j % Ring)) % Ring = (i - j) % Ring
  <2>1. i - j \in Int /\ i - (j % Ring) \in Int
    BY <1>2
  <2>2. PICK r \in Int : i - j = Ring * r + ((i - j) % Ring)
    BY <2>1, Turns
  <2>3. (i - j) % Ring \in 0..Ring-1
    BY <2>1, Modulo
  <2>4. Ring * (r + q) = Ring * r + Ring * q
    OBVIOUS
  <2>5. i - (j % Ring) = Ring * (r + q) + ((i - j) % Ring)
    <3> DEFINE a == Ring * q
               b == Ring * r
               u == j % Ring
               v == (i - j) % Ring
    <3>1. a \in Int /\ b \in Int /\ u \in Int /\ v \in Int
      BY <1>2, <2>3
    <3>2. j = a + u /\ i - j = b + v
      BY <1>1, <2>2
    <3> HIDE DEF a, b, u, v
    <3>3. i - u = (b + a) + v
      BY <3>1, <3>2
    <3> QED
      BY <2>4, <3>3 DEF a, b, u, v
  <2>6. r + q \in Int
    OBVIOUS
  <2> QED
    BY <2>1, <2>3, <2>5, <2>6, Rest
<1> QED
  BY <1>3, <1>4

LEMMA Small == ASSUME NEW n \in 0..Ring-1 PROVE n % Ring = n
<1>1. n \in Int /\ n = Ring * 0 + n
  OBVIOUS
<1> QED
  BY <1>1, Rest

LEMMA PlacedBack ==
  ASSUME NEW a \in Matrices, NEW n \in 0..Ring-1
  PROVE  Placed(a, Placed(Inverse(a), n)) = n
<1> DEFINE c == a.at
<1>1. c \in 0..Ring-1 /\ c \in Int /\ n \in Int /\ a.turned \in BOOLEAN /\ a = [turned |-> a.turned, at |-> a.at]
  BY DEF Matrices
<1>2. n % Ring = n
  BY Small
<1>3. CASE a.turned
  <2>1. Inverse(a).at = c /\ Inverse(a).turned
    BY <1>1, <1>3 DEF Inverse
  <2>2. Placed(a, Placed(Inverse(a), n)) = (c - ((c - n) % Ring)) % Ring
    BY <1>3, <2>1 DEF Placed
  <2> HIDE DEF c
  <2>3. c - n \in Int
    BY <1>1
  <2>4. (c - ((c - n) % Ring)) % Ring = (c - (c - n)) % Ring
    BY <1>1, <2>3, RestOfSum
  <2>5. c - (c - n) = n
    BY <1>1
  <2> QED
    BY <1>2, <2>2, <2>4, <2>5
<1>4. CASE ~a.turned
  <2>1. Inverse(a).at = (0 - c) % Ring /\ ~Inverse(a).turned
    BY <1>1, <1>4 DEF Inverse
  <2>2. Placed(a, Placed(Inverse(a), n)) = (c + ((((0 - c) % Ring) + n) % Ring)) % Ring
    BY <1>4, <2>1 DEF Placed
  <2> HIDE DEF c
  <2> DEFINE d == (0 - c) % Ring
  <2>3. 0 - c \in Int /\ d \in Int
    <3>1. 0 - c \in Int
      BY <1>1
    <3> QED
      BY <3>1, Modulo
  <2>4. (c + n) + d = c + (d + n) /\ (c + n) + (0 - c) = n /\ c + n \in Int /\ d + n \in Int
    <3> HIDE DEF d
    <3> QED
      BY <1>1, <2>3
  <2>5. (c + ((d + n) % Ring)) % Ring = (c + (d + n)) % Ring
    <3> HIDE DEF d
    <3> QED
      BY <1>1, <2>4, RestOfSum
  <2>6. ((c + n) + d) % Ring = ((c + n) + (0 - c)) % Ring
    BY <2>3, <2>4, RestOfSum
  <2> QED
    BY <1>2, <2>2, <2>4, <2>5, <2>6
<1> QED
  BY <1>1, <1>3, <1>4

LEMMA ProductBack ==
  ASSUME NEW a \in Matrices, NEW b \in Matrices
  PROVE  Product(a, Product(Inverse(a), b)) = b
<1>1. a.turned \in BOOLEAN /\ b.turned \in BOOLEAN /\ b.at \in 0..Ring-1
      /\ b = [turned |-> b.turned, at |-> b.at] /\ a = [turned |-> a.turned, at |-> a.at]
  BY DEF Matrices
<1>2. Inverse(a).turned = a.turned
  BY <1>1 DEF Inverse
<1>3. Product(a, Product(Inverse(a), b))
        = [turned |-> a.turned # (a.turned # b.turned), at |-> Placed(a, Placed(Inverse(a), b.at))]
  BY <1>2 DEF Product
<1>4. (a.turned # (a.turned # b.turned)) = b.turned
  BY <1>1
<1> QED
  BY <1>1, <1>3, <1>4, PlacedBack
-----------------------------------------------------------------------------
(* Another parent. *)

LEMMA RootedCut ==
  ASSUME NEW parent \in Parents, Rooted(parent), NEW c \in Entities
  PROVE  Rooted([parent EXCEPT ![c] = Null])
<1>0. PICK N \in Nat : \E h \in [Entities -> 0..N] : Ranked(parent, h, N)
  BY DEF Rooted
<1>1. PICK h \in [Entities -> 0..N] : Ranked(parent, h, N)
  BY <1>0
<1>2. Ranked([parent EXCEPT ![c] = Null], h, N)
  BY <1>1 DEF Ranked, Parents
<1> QED
  BY <1>2 DEF Rooted

(* Under an entity that is not below it. *)
LEMMA RootedJoined ==
  ASSUME NEW s, Typed(s), Rooted(s.parent), NEW c \in Entities, NEW p \in Entities, c \notin Lineage(s, p)
  PROVE  Rooted([s.parent EXCEPT ![c] = p])
<1>0. PICK N \in Nat : \E h \in [Entities -> 0..N] : Ranked(s.parent, h, N)
  BY DEF Rooted
<1>1. PICK h \in [Entities -> 0..N] : Ranked(s.parent, h, N)
  BY <1>0
<1> DEFINE below(x) == c \in Lineage(s, x)
           k == [x \in Entities |-> IF below(x) THEN h[x] + h[p] + 1 ELSE h[x]]
           parent == [s.parent EXCEPT ![c] = p]
           M == N + N + 1
<1>2. s.parent \in Parents
  BY DEF Typed
<1>3. below(c) /\ ~below(p)
  BY LineageSteps
<1>4. \A x \in Entities : x # c /\ s.parent[x] # Null => (below(x) <=> below(s.parent[x]))
  BY LineageSteps
<1> HIDE DEF below
<1>5. M \in Nat /\ k \in [Entities -> 0..M]
  <2>1. \A x \in Entities : h[x] \in 0..N
    OBVIOUS
  <2>2. \A i, j \in 0..N : i + j + 1 \in 0..M /\ i \in 0..M
    OBVIOUS
  <2> HIDE DEF M
  <2>3. \A x \in Entities : (IF below(x) THEN h[x] + h[p] + 1 ELSE h[x]) \in 0..M
    BY <2>1, <2>2
  <2> QED
    BY <2>3 DEF M
<1>6. ASSUME NEW x \in Entities, parent[x] # Null PROVE k[parent[x]] < k[x]
  <2>1. CASE x = c
    <3>1. parent[x] = p /\ k[p] = h[p] /\ k[c] = h[c] + h[p] + 1
      BY <1>2, <1>3, <2>1 DEF Parents
    <3>2. h[p] \in 0..N /\ h[c] \in 0..N
      OBVIOUS
    <3> HIDE DEF k, parent
    <3> QED
      BY <2>1, <3>1, <3>2
  <2>2. CASE x # c
    <3>1. parent[x] = s.parent[x] /\ s.parent[x] \in Entities
      BY <1>2, <1>6, <2>2 DEF Parents
    <3>2. h[s.parent[x]] < h[x] /\ h[s.parent[x]] \in 0..N /\ h[x] \in 0..N /\ h[p] \in 0..N
      BY <1>1, <1>6, <3>1 DEF Ranked
    <3>3. k[x] = (IF below(x) THEN h[x] + h[p] + 1 ELSE h[x])
          /\ k[s.parent[x]] = (IF below(x) THEN h[s.parent[x]] + h[p] + 1 ELSE h[s.parent[x]])
      BY <1>4, <1>6, <2>2, <3>1
    <3> HIDE DEF k, parent
    <3> QED
      BY <3>1, <3>2, <3>3
  <2> QED
    BY <2>1, <2>2
<1>7. Ranked(parent, k, M)
  BY <1>5, <1>6 DEF Ranked
<1> HIDE DEF k, M
<1> QED
  BY <1>5, <1>7 DEF Rooted

(* Where things are after e was moved. *)
LEMMA MovedWorld ==
  ASSUME NEW s, Sound(s), NEW t, NEW e \in Entities, NEW p \in Entities \cup {Null}, NEW m \in Matrices, Moved(s, t, e, p, m)
  PROVE  /\ p = Null => World(t)[e] = m
         /\ p # Null => World(t)[e] = Product(World(s)[p], m)
<1>1. Typed(s) /\ Rooted(s.parent) /\ s.parent \in Parents /\ Typed(t) /\ Rooted(t.parent) /\ t.parent \in Parents
      /\ t.parent = [s.parent EXCEPT ![e] = p] /\ Of(t, e).local = m
      /\ \A x \in Entities \ {e} : Of(t, x).local = Of(s, x).local
  BY DEF Moved, Sound, Typed
<1>2. t.parent[e] = p /\ \A x \in Entities \ {e} : t.parent[x] = s.parent[x]
  BY <1>1 DEF Parents
<1>3. World(t)[e] = IF t.parent[e] = Null THEN Of(t, e).local ELSE Product(World(t)[t.parent[e]], Of(t, e).local)
  BY <1>1, WorldSteps
<1>4. ASSUME p # Null PROVE World(t)[p] = World(s)[p]
  <2>0. PICK N \in Nat : \E h \in [Entities -> 0..N] : Ranked(t.parent, h, N)
    BY <1>1 DEF Rooted
  <2>1. PICK h \in [Entities -> 0..N] : Ranked(t.parent, h, N)
    BY <2>0
  <2> DEFINE T == {x \in Entities : h[x] < h[e] => World(t)[x] = World(s)[x]}
  <2>2. ASSUME NEW x \in Entities, t.parent[x] = Null \/ t.parent[x] \in T PROVE x \in T
    <3> SUFFICES ASSUME h[x] < h[e] PROVE World(t)[x] = World(s)[x]
      OBVIOUS
    <3>1. h[x] \in Int /\ h[e] \in Int
      <4>1. h[x] \in 0..N /\ h[e] \in 0..N
        OBVIOUS
      <4> QED
        BY <4>1
    <3>2. x # e
      BY <3>1
    <3>3. t.parent[x] # Null => h[t.parent[x]] < h[e]
      <4> SUFFICES ASSUME t.parent[x] # Null PROVE h[t.parent[x]] < h[e]
        OBVIOUS
      <4>1. t.parent[x] \in Entities
        BY <1>1 DEF Parents
      <4>2. h[t.parent[x]] \in 0..N /\ h[t.parent[x]] < h[x]
        BY <2>1, <4>1 DEF Ranked
      <4> QED
        BY <3>1, <4>2
    <3>4. t.parent[x] # Null => World(t)[t.parent[x]] = World(s)[t.parent[x]]
      BY <2>2, <3>3
    <3>5. World(s)[x] = IF s.parent[x] = Null THEN Of(s, x).local ELSE Product(World(s)[s.parent[x]], Of(s, x).local)
      BY <1>1, WorldSteps
    <3>6. World(t)[x] = IF t.parent[x] = Null THEN Of(t, x).local ELSE Product(World(t)[t.parent[x]], Of(t, x).local)
      BY <1>1, WorldSteps
    <3> QED
      BY <1>1, <1>2, <3>2, <3>4, <3>5, <3>6
  <2>3. Entities \subseteq T
    <3> HIDE DEF T
    <3> QED
      BY <1>1, <2>2, FromTheTop
  <2>4. h[p] < h[e]
    BY <1>2, <1>4, <2>1 DEF Ranked
  <2> QED
    BY <1>4, <2>3, <2>4
<1> QED
  BY <1>1, <1>2, <1>3, <1>4

(* Nothing moves if e does not. *)
LEMMA MovedStays ==
  ASSUME NEW s, Sound(s), NEW t, NEW e \in Entities, NEW p \in Entities \cup {Null}, NEW m \in Matrices, Moved(s, t, e, p, m),
         World(t)[e] = World(s)[e]
  PROVE  \A x \in Entities : World(t)[x] = World(s)[x]
<1>1. Typed(s) /\ Rooted(s.parent) /\ s.parent \in Parents /\ Typed(t) /\ Rooted(t.parent) /\ t.parent \in Parents
      /\ t.parent = [s.parent EXCEPT ![e] = p]
      /\ \A x \in Entities \ {e} : Of(t, x).local = Of(s, x).local
  BY DEF Moved, Sound, Typed
<1>2. \A x \in Entities \ {e} : t.parent[x] = s.parent[x]
  BY <1>1 DEF Parents
<1> DEFINE T == {x \in Entities : World(t)[x] = World(s)[x]}
<1>3. ASSUME NEW x \in Entities, t.parent[x] = Null \/ t.parent[x] \in T PROVE x \in T
  <2>1. CASE x = e
    BY <2>1
  <2>2. CASE x # e
    <3>1. World(s)[x] = IF s.parent[x] = Null THEN Of(s, x).local ELSE Product(World(s)[s.parent[x]], Of(s, x).local)
      BY <1>1, WorldSteps
    <3>2. World(t)[x] = IF t.parent[x] = Null THEN Of(t, x).local ELSE Product(World(t)[t.parent[x]], Of(t, x).local)
      BY <1>1, WorldSteps
    <3> QED
      BY <1>1, <1>2, <1>3, <2>2, <3>1, <3>2
  <2> QED
    BY <2>1, <2>2
<1>4. Entities \subseteq T
  <2> HIDE DEF T
  <2> QED
    BY <1>1, <1>3, FromTheTop
<1> QED
  BY <1>4

-----------------------------------------------------------------------------
(* Setting a matrix, a position or an orientation in the world. *)

Shifted(s, t) ==
  /\ Sound(t)
  /\ t.parent = s.parent
  /\ s.related \subseteq t.related
  /\ Grows(s, t)

LEMMA SetLocalHere ==
  ASSUME NEW s, Sound(s), NEW e \in DOMAIN s.tf, NEW m \in Matrices
  PROVE  /\ Moved(s, SetLocal(s, e, m), e, s.parent[e], m)
         /\ Shifted(s, SetLocal(s, e, m))
<1> DEFINE p == s.parent[e]
<1>1. s = [parent |-> s.parent, related |-> s.related, tf |-> s.tf] /\ s.parent \in Parents /\ e \in Entities /\ Rooted(s.parent)
  BY DEF Sound, Typed
<1>2. p \in Entities \cup {Null}
  BY <1>1 DEF Parents
<1>3. [s.parent EXCEPT ![e] = p] = s.parent
  BY <1>1 DEF Parents
<1>4. [s EXCEPT !.parent[e] = p] = s
  <2>1. [s EXCEPT !.parent[e] = p] = [s EXCEPT !.parent = [s.parent EXCEPT ![e] = p]]
    OBVIOUS
  <2> HIDE DEF p
  <2>2. [s EXCEPT !.parent = s.parent] = s
    BY <1>1
  <2> QED
    BY <1>3, <2>1, <2>2
<1> HIDE DEF p
<1>5. Moved(s, SetLocal([s EXCEPT !.parent[e] = p], e, m), e, p, m)
  BY <1>1, <1>2, <1>3, SetLocalMoves
<1>6. Moved(s, SetLocal(s, e, m), e, p, m)
  BY <1>4, <1>5
<1>7. Shifted(s, SetLocal(s, e, m))
  BY <1>3, <1>6 DEF Moved, Shifted
<1> QED
  BY <1>6, <1>7 DEF p

(* Without a parent. *)
LEMMA SetAtTop ==
  ASSUME NEW s, Sound(s), NEW e \in DOMAIN s.tf, NEW m \in Matrices, s.parent[e] = Null
  PROVE  Shifted(s, SetLocal(s, e, m)) /\ World(SetLocal(s, e, m))[e] = m
<1>1. e \in Entities
  BY DEF Sound, Typed
<1> DEFINE t == SetLocal(s, e, m)
<1>2. Moved(s, t, e, Null, m) /\ Shifted(s, t)
  BY SetLocalHere
<1> HIDE DEF t
<1>3. World(t)[e] = m
  BY <1>1, <1>2, MovedWorld
<1> QED
  BY <1>2, <1>3 DEF t

(* Under a parent, after what is above was recalculated. *)
LEMMA SetBelow ==
  ASSUME NEW s, Sound(s), NEW e \in DOMAIN s.tf, NEW m \in Matrices, s.parent[e] # Null,
         NEW r, NEW views, Better(s, r, views)
  PROVE  Shifted(s, SetLocal(r, e, m)) /\ World(SetLocal(r, e, m))[e] = Product(World(s)[s.parent[e]], m)
<1>1. e \in Entities /\ s.parent[e] \in Entities
  BY DEF Sound, Typed, Parents
<1>2. Sound(r) /\ r.parent = s.parent /\ s.related \subseteq r.related /\ Grows(s, r)
      /\ (\A x \in Entities : World(r)[x] = World(s)[x])
  BY DEF Better
<1>3. e \in DOMAIN r.tf
  BY <1>2 DEF Grows
<1> DEFINE t == SetLocal(r, e, m)
<1>4. Moved(r, t, e, r.parent[e], m) /\ Shifted(r, t)
  BY <1>2, <1>3, SetLocalHere
<1> HIDE DEF t
<1>5. World(t)[e] = Product(World(r)[r.parent[e]], m)
  <2> DEFINE p == r.parent[e]
  <2>1. p \in Entities /\ p # Null /\ Moved(r, t, e, p, m)
    BY <1>1, <1>2, <1>4
  <2> HIDE DEF p
  <2>2. p \in Entities \cup {Null}
    BY <2>1
  <2>3. World(t)[e] = Product(World(r)[p], m)
    BY <1>1, <1>2, <2>1, <2>2, MovedWorld
  <2> QED
    BY <2>3 DEF p
<1>6. Grows(s, t)
  <2>1. Grows(r, t)
    BY <1>4 DEF Shifted
  <2> QED
    BY <1>2, <2>1, GrowsOn
<1>7. Shifted(s, t)
  BY <1>2, <1>4, <1>6 DEF Shifted
<1>8. World(t)[e] = Product(World(s)[s.parent[e]], m)
  BY <1>1, <1>2, <1>5
<1> QED
  BY <1>7, <1>8 DEF t

LEMMA SetMatrixArrives ==
  ASSUME NEW s, Sound(s), NEW e \in DOMAIN s.tf, NEW m \in Matrices
  PROVE  Shifted(s, SetMatrix(s, e, m)) /\ World(SetMatrix(s, e, m))[e] = m
<1> DEFINE p == s.parent[e]
           r == Recalculated(s, p)
<1>1. e \in Entities /\ (p = Null \/ p \in Entities) /\ Typed(s) /\ Rooted(s.parent)
  BY DEF Sound, Typed, Parents
<1>2. CASE p = Null
  <2>1. SetMatrix(s, e, m) = SetLocal(s, e, m)
    BY <1>2 DEF SetMatrix
  <2> QED
    BY <1>2, <2>1, SetAtTop
<1>3. CASE p # Null
  <2>1. SetMatrix(s, e, m) = SetLocal(r, e, Product(r.tf[p].iw, m))
    BY <1>3 DEF SetMatrix
  <2> HIDE DEF r, p
  <2>2. Better(s, r, Reached(s, p)) /\ p \in Reached(s, p)
    BY <1>1, <1>3, RecalculatedBetter DEF r
  <2>3. r.tf[p].iw = Inverse(World(s)[p])
    BY <2>2 DEF Better
  <2>4. World(s)[p] \in Matrices
    BY <1>1, <1>3, WorldSteps
  <2>5. Product(Inverse(World(s)[p]), m) \in Matrices
    BY <2>4, MatrixTypes
  <2> DEFINE l == Product(Inverse(World(s)[p]), m)
             t == SetLocal(r, e, l)
  <2>6. Shifted(s, t) /\ World(t)[e] = Product(World(s)[p], l)
    <3>1. l \in Matrices /\ s.parent[e] # Null /\ s.parent[e] = p
      BY <1>3, <2>5 DEF p
    <3> HIDE DEF l
    <3> QED
      BY <2>2, <3>1, SetBelow
  <2>7. Product(World(s)[p], l) = m
    BY <2>4, ProductBack
  <2> QED
    BY <2>1, <2>3, <2>6, <2>7
<1> QED
  BY <1>2, <1>3

LEMMA SetPositionArrives ==
  ASSUME NEW s, Sound(s), NEW e \in DOMAIN s.tf, NEW at \in 0..Ring-1
  PROVE  Shifted(s, SetPosition(s, e, at)) /\ World(SetPosition(s, e, at))[e].at = at
<1> DEFINE p == s.parent[e]
           f == Forced(s, p)
<1>1. e \in Entities /\ (p = Null \/ p \in Entities) /\ Typed(s) /\ Rooted(s.parent) /\ s.tf[e].local \in Matrices
  BY DEF Sound, Typed, Parents, Components
<1>2. ASSUME NEW n \in 0..Ring-1 PROVE
        [s.tf[e].local EXCEPT !.at = n] \in Matrices /\ [s.tf[e].local EXCEPT !.at = n].at = n
  BY <1>1 DEF Matrices
<1>3. CASE p = Null
  <2>1. SetPosition(s, e, at) = SetLocal(s, e, [s.tf[e].local EXCEPT !.at = at])
    BY <1>3 DEF SetPosition
  <2> DEFINE l == [s.tf[e].local EXCEPT !.at = at]
  <2>2. l \in Matrices /\ l.at = at
    BY <1>2
  <2> HIDE DEF l
  <2>3. Shifted(s, SetLocal(s, e, l)) /\ World(SetLocal(s, e, l))[e] = l
    BY <1>3, <2>2, SetAtTop
  <2> QED
    BY <2>1, <2>2, <2>3 DEF l
<1>4. CASE p # Null
  <2>1. SetPosition(s, e, at) = SetLocal(f, e, [s.tf[e].local EXCEPT !.at = Placed(f.tf[p].iw, at)])
    BY <1>4 DEF SetPosition
  <2> HIDE DEF f, p
  <2>2. Better(s, f, Lineage(s, p)) /\ p \in Lineage(s, p)
    BY <1>1, <1>4, ForcedBetter, LineageSteps DEF f
  <2>3. f.tf[p].iw = Inverse(World(s)[p])
    BY <2>2 DEF Better
  <2>4. World(s)[p] \in Matrices
    BY <1>1, <1>4, WorldSteps
  <2> DEFINE n == Placed(Inverse(World(s)[p]), at)
             l == [s.tf[e].local EXCEPT !.at = n]
             t == SetLocal(f, e, l)
  <2>5. n \in 0..Ring-1
    BY <2>4, MatrixTypes
  <2>6. l \in Matrices /\ l.at = n
    <3> HIDE DEF n
    <3> QED
      BY <1>2, <2>5
  <2>7. Shifted(s, t) /\ World(t)[e] = Product(World(s)[p], l)
    <3>1. s.parent[e] # Null /\ s.parent[e] = p
      BY <1>4 DEF p
    <3> HIDE DEF l
    <3> QED
      BY <2>2, <2>6, <3>1, SetBelow
  <2>8. Product(World(s)[p], l).at = Placed(World(s)[p], n)
    <3> HIDE DEF l, n
    <3> QED
      BY <2>6 DEF Product
  <2>9. Placed(World(s)[p], n) = at
    BY <2>4, PlacedBack
  <2> QED
    BY <2>1, <2>3, <2>7, <2>8, <2>9
<1> QED
  BY <1>3, <1>4

LEMMA SetBasisArrives ==
  ASSUME NEW s, Sound(s), NEW e \in DOMAIN s.tf, NEW turned \in BOOLEAN
  PROVE  Shifted(s, SetBasis(s, e, turned)) /\ World(SetBasis(s, e, turned))[e].turned = turned
<1> DEFINE p == s.parent[e]
           above == RecalculatedAll(s, Lineage(s, p))
<1>1. e \in Entities /\ (p = Null \/ p \in Entities) /\ Typed(s) /\ Rooted(s.parent) /\ s.tf[e].local \in Matrices
  BY DEF Sound, Typed, Parents, Components
<1>2. ASSUME NEW b \in BOOLEAN PROVE
        [s.tf[e].local EXCEPT !.turned = b] \in Matrices /\ [s.tf[e].local EXCEPT !.turned = b].turned = b
  BY <1>1 DEF Matrices
<1>3. CASE p = Null
  <2>1. SetBasis(s, e, turned) = SetLocal(s, e, [s.tf[e].local EXCEPT !.turned = turned])
    BY <1>3 DEF SetBasis
  <2> DEFINE l == [s.tf[e].local EXCEPT !.turned = turned]
  <2>2. l \in Matrices /\ l.turned = turned
    BY <1>2
  <2> HIDE DEF l
  <2>3. Shifted(s, SetLocal(s, e, l)) /\ World(SetLocal(s, e, l))[e] = l
    BY <1>3, <2>2, SetAtTop
  <2> QED
    BY <2>1, <2>2, <2>3 DEF l
<1>4. CASE p # Null
  <2>1. SetBasis(s, e, turned) = SetLocal(above, e, [s.tf[e].local EXCEPT !.turned = World(s)[p].turned # turned])
    BY <1>4 DEF SetBasis
  <2> DEFINE views == UNION {Reached(s, x) : x \in Lineage(s, p)}
  <2> HIDE DEF above, p
  <2>2. Better(s, above, views)
    <3>1. Lineage(s, p) \in SUBSET Entities
      BY <1>1, <1>4, LineageSteps
    <3> QED
      BY <3>1, RecalculatedAllBetter DEF above
  <2>3. World(s)[p] \in Matrices
    BY <1>1, <1>4, WorldSteps
  <2> DEFINE b == World(s)[p].turned # turned
             l == [s.tf[e].local EXCEPT !.turned = b]
             t == SetLocal(above, e, l)
  <2>4. b \in BOOLEAN /\ World(s)[p].turned \in BOOLEAN
    BY <2>3 DEF Matrices
  <2>5. l \in Matrices /\ l.turned = b
    <3>1. b \in BOOLEAN
      BY <2>4
    <3> HIDE DEF b
    <3> QED
      BY <1>2, <3>1
  <2> HIDE DEF views
  <2>6. Shifted(s, t) /\ World(t)[e] = Product(World(s)[p], l)
    <3>1. s.parent[e] # Null /\ s.parent[e] = p
      BY <1>4 DEF p
    <3> HIDE DEF l
    <3> QED
      BY <2>2, <2>5, <3>1, SetBelow
  <2>7. Product(World(s)[p], l).turned = (World(s)[p].turned # l.turned)
    BY DEF Product
  <2>8. (World(s)[p].turned # b) = turned
    BY <2>4
  <2> HIDE DEF b, l, t
  <2>9. World(t)[e].turned = turned
    BY <2>5, <2>6, <2>7, <2>8
  <2> QED
    BY <2>1, <2>6, <2>9 DEF t, l, b
<1> QED
  BY <1>3, <1>4
-----------------------------------------------------------------------------
(* Leaving a parent and joining another. *)

(* An entity that nothing valid was made of may be given another parent. *)
LEMMA Reparented ==
  ASSUME NEW s, Sound(s), NEW c \in Entities, NEW p \in Entities \cup {Null}, NEW related \in SUBSET Entities,
         s.related \subseteq related, Rooted([s.parent EXCEPT ![c] = p]), Invalid(s, c, "W"),
         NEW t, t = [parent |-> [s.parent EXCEPT ![c] = p], related |-> related, tf |-> s.tf]
  PROVE  Sound(t) /\ Grows(s, t)
<1>1. Typed(s) /\ Rooted(s.parent) /\ Current(s) /\ Settled(s, {}) /\ s.parent \in Parents /\ DOMAIN s.tf \subseteq Entities
      /\ s.tf \in [DOMAIN s.tf -> Components]
  BY DEF Sound, Typed
<1>2. t.parent = [s.parent EXCEPT ![c] = p] /\ t.related = related /\ t.tf = s.tf
      /\ t = [parent |-> t.parent, related |-> t.related, tf |-> t.tf] /\ t.parent \in Parents
  BY <1>1 DEF Parents
<1>3. Typed(t)
  BY <1>1, <1>2 DEF Typed
<1>4. \A x : Of(t, x) = Of(s, x)
  BY <1>2 DEF Of, Has
<1>5. \A x, flag : Invalid(t, x, flag) <=> Invalid(s, x, flag)
  BY <1>4 DEF Invalid
<1> DEFINE m == Of(s, c).local
<1>6. Stale(s, t, c, p, m)
  <2>1. /\ ~Invalid(s, c, "M") => Of(s, c).m = Of(s, c).local
        /\ ~Invalid(s, c, "IW") => ~Invalid(s, c, "W")
    BY <1>1 DEF Current, Settled
  <2>2. ASSUME NEW x \in Entities \ {c} PROVE
          /\ ~Invalid(t, x, "W") => ~Invalid(s, x, "W") /\ (s.parent[x] = Null \/ ~Invalid(t, s.parent[x], "W"))
          /\ ~Invalid(t, x, "IW") => ~Invalid(t, x, "W") /\ ~Invalid(s, x, "IW")
    BY <1>1, <1>5 DEF Settled
  <2> QED
    BY <1>2, <1>3, <1>4, <1>5, <2>1, <2>2 DEF Stale
<1>7. m \in Matrices
  BY <1>1, OfType DEF Components
<1>8. Sound(t)
  <2> HIDE DEF m
  <2> QED
    BY <1>6, <1>7, StaleSound
<1>9. Grows(s, t)
  BY <1>2, <1>5 DEF Grows
<1> QED
  BY <1>8, <1>9

LEMMA LeftKeeps ==
  ASSUME NEW s, Sound(s), NEW c \in Entities
  PROVE  /\ Sound(Left(s, c))
         /\ Left(s, c).parent = [s.parent EXCEPT ![c] = Null]
         /\ s.related \subseteq Left(s, c).related
         /\ Grows(s, Left(s, c))
         /\ Has(s, c) => \A x \in Entities : World(Left(s, c))[x] = World(s)[x]
<1>1. Typed(s) /\ Rooted(s.parent) /\ s.parent \in Parents /\ s.related \subseteq Entities
      /\ s = [parent |-> s.parent, related |-> s.related, tf |-> s.tf]
  BY DEF Sound, Typed
<1>2. Rooted([s.parent EXCEPT ![c] = Null])
  BY <1>1, RootedCut
<1>3. CASE s.parent[c] = Null
  <2>1. Left(s, c) = s
    BY <1>3 DEF Left
  <2>2. [s.parent EXCEPT ![c] = Null] = s.parent
    BY <1>1, <1>3 DEF Parents
  <2>3. Grows(s, s)
    BY DEF Grows
  <2> QED
    BY <2>1, <2>2, <2>3
<1>4. CASE s.parent[c] # Null /\ ~Has(s, c)
  <2> DEFINE t == [parent |-> [s.parent EXCEPT ![c] = Null], related |-> s.related, tf |-> s.tf]
  <2>1. Left(s, c) = [s EXCEPT !.parent[c] = Null]
    BY <1>4 DEF Left
  <2>2. [s EXCEPT !.parent[c] = Null] = t
    BY <1>1
  <2>3. Invalid(s, c, "W")
    BY <1>1, <1>4, OfType
  <2>4. Sound(t) /\ Grows(s, t)
    <3> HIDE DEF t
    <3>1. t = [parent |-> [s.parent EXCEPT ![c] = Null], related |-> s.related, tf |-> s.tf]
      BY DEF t
    <3> QED
      BY <1>1, <1>2, <2>3, <3>1, Reparented
  <2>5. t.parent = [s.parent EXCEPT ![c] = Null] /\ t.related = s.related
    OBVIOUS
  <2> QED
    BY <1>4, <2>1, <2>2, <2>4, <2>5
<1>5. CASE s.parent[c] # Null /\ Has(s, c)
  <2> DEFINE before == Recalculated(s, c)
             w == before.tf[c].w
             cut == [before EXCEPT !.parent[c] = Null]
             u == SetLocal(cut, c, w)
             t == Recalculated(u, c)
  <2>0. Better(s, before, Reached(s, c)) /\ c \in Reached(s, c)
    BY RecalculatedBetter
  <2> HIDE DEF before
  <2>1. Sound(before) /\ before.parent = s.parent /\ s.related \subseteq before.related /\ Grows(s, before)
        /\ (\A x \in Entities : World(before)[x] = World(s)[x]) /\ c \in DOMAIN before.tf /\ w = World(s)[c]
    BY <2>0 DEF Better
  <2>2. w \in Matrices
    BY <1>1, <2>1, WorldSteps
  <2>3. cut.parent[c] = Null
    <3>1. before.parent \in Parents /\ before = [parent |-> before.parent, related |-> before.related, tf |-> before.tf]
      BY <2>1 DEF Sound, Typed
    <3>2. cut = [parent |-> [before.parent EXCEPT ![c] = Null], related |-> before.related, tf |-> before.tf]
      BY <3>1
    <3>3. cut.parent = [before.parent EXCEPT ![c] = Null]
      BY <3>2
    <3> HIDE DEF cut
    <3> QED
      BY <3>1, <3>3 DEF Parents
  <2>4. SetMatrix(cut, c, w) = u
    <3> HIDE DEF cut, w
    <3> QED
      BY <2>3 DEF SetMatrix
  <2>5. Left(s, c) = t
    BY <1>5, <2>4 DEF Left, before
  <2>6. Moved(before, u, c, Null, w)
    <3> HIDE DEF w
    <3> QED
      BY <1>2, <2>1, <2>2, SetLocalMoves
  <2> HIDE DEF cut, u, w
  <2>7. World(u)[c] = w
    BY <2>1, <2>2, <2>6, MovedWorld
  <2>8. \A x \in Entities : World(u)[x] = World(before)[x]
    BY <2>1, <2>2, <2>6, <2>7, MovedStays
  <2>9. Sound(u) /\ u.parent = [s.parent EXCEPT ![c] = Null] /\ before.related \subseteq u.related /\ Grows(before, u)
    BY <2>1, <2>6 DEF Moved
  <2>10. Better(u, t, Reached(u, c))
    BY <2>9, RecalculatedBetter
  <2> HIDE DEF t
  <2>11. Sound(t) /\ t.parent = u.parent /\ u.related \subseteq t.related /\ Grows(u, t)
         /\ (\A x \in Entities : World(t)[x] = World(u)[x])
    BY <2>10 DEF Better
  <2>12. Grows(s, t)
    <3>1. Grows(s, u)
      BY <2>1, <2>9, GrowsOn
    <3> QED
      BY <2>11, <3>1, GrowsOn
  <2>13. \A x \in Entities : World(t)[x] = World(s)[x]
    BY <2>1, <2>8, <2>11
  <2>14. s.related \subseteq t.related
    BY <2>1, <2>9, <2>11
  <2> QED
    BY <2>5, <2>9, <2>11, <2>12, <2>13, <2>14
<1> QED
  BY <1>3, <1>4, <1>5

(* More entities are known to be related. *)
LEMMA KnownSound ==
  ASSUME NEW s, Sound(s), NEW p \in Entities, NEW t, t = [s EXCEPT !.related = @ \cup {p}]
  PROVE  /\ Sound(t) /\ Grows(s, t)
         /\ t.parent = s.parent /\ t.tf = s.tf /\ s.related \cup {p} \subseteq t.related
         /\ \A x \in Entities : World(t)[x] = World(s)[x]
<1>1. Typed(s) /\ Rooted(s.parent) /\ Current(s) /\ Settled(s, {}) /\ s.related \subseteq Entities
      /\ s = [parent |-> s.parent, related |-> s.related, tf |-> s.tf]
  BY DEF Sound, Typed
<1>2. t.parent = s.parent /\ t.related = s.related \cup {p} /\ t.tf = s.tf
      /\ t = [parent |-> t.parent, related |-> t.related, tf |-> t.tf]
  <2>1. t = [parent |-> s.parent, related |-> s.related \cup {p}, tf |-> s.tf]
    BY <1>1
  <2> QED
    BY <2>1
<1>3. Typed(t)
  BY <1>1, <1>2 DEF Typed
<1>4. \A x : Of(t, x) = Of(s, x)
  BY <1>2 DEF Of, Has
<1>5. \A x, flag : Invalid(t, x, flag) <=> Invalid(s, x, flag)
  BY <1>4 DEF Invalid
<1>6. \A x \in Entities : World(t)[x] = World(s)[x]
  BY ONLY <1>1, <1>2, <1>3, <1>4, SameWorld, SMTT(30), ZenonT(60)
<1>7. Current(t)
  BY ONLY <1>1, <1>4, <1>5, <1>6, SMTT(30), ZenonT(60) DEF Current
<1>8. Settled(t, {})
  BY <1>1, <1>2, <1>5 DEF Settled
<1>9. Grows(s, t)
  BY <1>2, <1>5 DEF Grows
<1> QED
  BY <1>1, <1>2, <1>3, <1>6, <1>7, <1>8, <1>9 DEF Sound

LEMMA JoinedKeeps ==
  ASSUME NEW s, Sound(s), NEW c \in Entities, NEW p \in Entities, Rooted([s.parent EXCEPT ![c] = p])
  PROVE  /\ Sound(Joined(s, c, p))
         /\ Joined(s, c, p).parent = [s.parent EXCEPT ![c] = p]
         /\ s.related \subseteq Joined(s, c, p).related
         /\ Grows(s, Joined(s, c, p))
         /\ c \in s.related /\ Has(s, c) /\ Has(s, p) => \A x \in Entities : World(Joined(s, c, p))[x] = World(s)[x]
<1>1. Typed(s) /\ Rooted(s.parent) /\ s.parent \in Parents /\ s.related \subseteq Entities /\ Settled(s, {})
      /\ s = [parent |-> s.parent, related |-> s.related, tf |-> s.tf]
  BY DEF Sound, Typed
<1>2. CASE ~(c \in s.related /\ Has(s, c))
  <2> DEFINE t == [parent |-> [s.parent EXCEPT ![c] = p], related |-> s.related \cup {c, p}, tf |-> s.tf]
  <2>1. Joined(s, c, p) = [s EXCEPT !.parent[c] = p, !.related = @ \cup {c, p}]
    BY <1>2 DEF Joined
  <2>2. [s EXCEPT !.parent[c] = p, !.related = @ \cup {c, p}] = t
    <3> DEFINE parent == [s.parent EXCEPT ![c] = p]
               related == s.related \cup {c, p}
    <3>1. [s EXCEPT !.parent[c] = p, !.related = @ \cup {c, p}] = [[s EXCEPT !.parent = parent] EXCEPT !.related = related]
      BY <1>1
    <3>2. t = [parent |-> parent, related |-> related, tf |-> s.tf]
      OBVIOUS
    <3> HIDE DEF t, parent, related
    <3> DEFINE b == [s EXCEPT !.parent = parent]
    <3>4. b = [parent |-> parent, related |-> s.related, tf |-> s.tf]
      BY <1>1
    <3> HIDE DEF b
    <3>5. [b EXCEPT !.related = related] = [parent |-> parent, related |-> related, tf |-> s.tf]
      BY <3>4
    <3>3. [[s EXCEPT !.parent = parent] EXCEPT !.related = related] = [parent |-> parent, related |-> related, tf |-> s.tf]
      BY <3>5 DEF b
    <3> QED
      BY <3>1, <3>2, <3>3
  <2>3. Invalid(s, c, "W")
    <3>1. CASE Has(s, c)
      BY <1>1, <1>2, <3>1 DEF Settled
    <3>2. CASE ~Has(s, c)
      BY <1>1, <3>2, OfType
    <3> QED
      BY <3>1, <3>2
  <2>4. Sound(t) /\ Grows(s, t)
    <3> DEFINE related == s.related \cup {c, p}
    <3>1. related \in SUBSET Entities /\ s.related \subseteq related
      BY <1>1
    <3>2. t = [parent |-> [s.parent EXCEPT ![c] = p], related |-> related, tf |-> s.tf]
      OBVIOUS
    <3> HIDE DEF t, related
    <3> QED
      BY <2>3, <3>1, <3>2, Reparented
  <2>5. t.parent = [s.parent EXCEPT ![c] = p] /\ s.related \subseteq t.related
    OBVIOUS
  <2> HIDE DEF t
  <2> QED
    BY <1>2, <2>1, <2>2, <2>4, <2>5
<1>3. CASE c \in s.related /\ Has(s, c)
  <2> DEFINE r == Recalculated(s, c)
             known == [r EXCEPT !.related = @ \cup {p}]
             under == IF Has(known, p) THEN Recalculated(known, p) ELSE known
             w == known.tf[c].w
             local == IF Has(known, p) THEN Product(under.tf[p].iw, w) ELSE w
             u == SetLocal([under EXCEPT !.parent[c] = p], c, local)
             t == Recalculated(u, c)
  <2>0. Joined(s, c, p) = t
    BY <1>3 DEF Joined
  <2>1. Better(s, r, Reached(s, c)) /\ c \in Reached(s, c)
    BY RecalculatedBetter
  <2> HIDE DEF r
  <2>2. Sound(r) /\ r.parent = s.parent /\ s.related \subseteq r.related /\ Grows(s, r)
        /\ (\A x \in Entities : World(r)[x] = World(s)[x]) /\ c \in DOMAIN r.tf /\ r.tf[c].w = World(s)[c]
    BY <2>1 DEF Better
  <2>3. /\ Sound(known) /\ Grows(r, known)
        /\ known.parent = r.parent /\ known.tf = r.tf /\ r.related \cup {p} \subseteq known.related
        /\ \A x \in Entities : World(known)[x] = World(r)[x]
    <3> DEFINE k == known
    <3>1. k = [r EXCEPT !.related = @ \cup {p}]
      OBVIOUS
    <3> HIDE DEF k
    <3>2. /\ Sound(k) /\ Grows(r, k)
          /\ k.parent = r.parent /\ k.tf = r.tf /\ r.related \cup {p} \subseteq k.related
          /\ \A x \in Entities : World(k)[x] = World(r)[x]
      BY <2>2, <3>1, KnownSound
    <3> QED
      BY <3>2 DEF k
  <2> HIDE DEF known
  <2>4. w = World(s)[c] /\ w \in Matrices
    BY <1>1, <2>2, <2>3, WorldSteps
  <2>5. /\ Sound(under) /\ Grows(known, under) /\ under.parent = s.parent /\ known.related \subseteq under.related
        /\ \A x \in Entities : World(under)[x] = World(s)[x]
        /\ Has(known, p) => under.tf[p].iw = Inverse(World(s)[p])
    <3>1. CASE Has(known, p)
      <4>1. under = Recalculated(known, p)
        BY <3>1
      <4> HIDE DEF under
      <4>2. Better(known, under, Reached(known, p)) /\ p \in Reached(known, p)
        BY <2>3, <4>1, RecalculatedBetter
      <4>3. /\ Sound(under) /\ Grows(known, under) /\ under.parent = known.parent /\ known.related \subseteq under.related
            /\ (\A x \in Entities : World(under)[x] = World(known)[x])
            /\ under.tf[p].iw = Inverse(World(known)[p])
        BY <4>2 DEF Better
      <4> QED
        BY <2>2, <2>3, <4>3
    <3>2. CASE ~Has(known, p)
      <4>1. under = known
        BY <3>2
      <4>2. Grows(known, known)
        BY DEF Grows
      <4> QED
        BY <2>2, <2>3, <3>2, <4>1, <4>2
    <3> QED
      BY <3>1, <3>2
  <2> HIDE DEF under, w
  <2>6. World(s)[p] \in Matrices
    BY <1>1, WorldSteps
  <2>7. /\ local \in Matrices
        /\ Has(known, p) => local = Product(Inverse(World(s)[p]), World(s)[c])
    BY <2>4, <2>5, <2>6, MatrixTypes
  <2> HIDE DEF local
  <2>8. Grows(s, under)
    <3>1. Grows(s, known)
      BY <2>2, <2>3, GrowsOn
    <3> QED
      BY <2>5, <3>1, GrowsOn
  <2>9. c \in DOMAIN under.tf
    BY <1>3, <2>8 DEF Grows, Has
  <2>10. Moved(under, u, c, p, local)
    BY <2>5, <2>7, <2>9, SetLocalMoves
  <2> HIDE DEF u
  <2>11. Sound(u) /\ u.parent = [s.parent EXCEPT ![c] = p] /\ under.related \subseteq u.related /\ Grows(under, u)
    BY <2>5, <2>10 DEF Moved
  <2>12. Better(u, t, Reached(u, c))
    BY <2>11, RecalculatedBetter
  <2> HIDE DEF t
  <2>13. Sound(t) /\ t.parent = u.parent /\ u.related \subseteq t.related /\ Grows(u, t)
         /\ (\A x \in Entities : World(t)[x] = World(u)[x])
    BY <2>12 DEF Better
  <2>14. Grows(s, t)
    <3>1. Grows(s, u)
      BY <2>8, <2>11, GrowsOn
    <3> QED
      BY <2>13, <3>1, GrowsOn
  <2>15. s.related \subseteq t.related
    BY <2>2, <2>3, <2>5, <2>11, <2>13
  <2>16. ASSUME Has(s, p) PROVE \A x \in Entities : World(t)[x] = World(s)[x]
    <3>1. Has(known, p)
      BY <2>2, <2>3, <2>16 DEF Grows, Has
    <3>2. World(u)[c] = Product(World(under)[p], local)
      <4>1. p \in Entities \cup {Null} /\ p # Null
        OBVIOUS
      <4> QED
        BY <2>5, <2>7, <2>10, <4>1, MovedWorld
    <3>3. World(s)[c] \in Matrices
      BY <2>4
    <3>4. World(u)[c] = World(s)[c]
      BY <2>5, <2>6, <2>7, <3>1, <3>2, <3>3, ProductBack
    <3>5. World(u)[c] = World(under)[c]
      BY <2>5, <3>4
    <3>6. \A x \in Entities : World(u)[x] = World(under)[x]
      <4>1. p \in Entities \cup {Null}
        OBVIOUS
      <4> QED
        BY <2>5, <2>7, <2>10, <3>5, <4>1, MovedStays
    <3> QED
      BY <2>5, <2>13, <3>6
  <2> QED
    BY <2>0, <2>11, <2>13, <2>14, <2>15, <2>16
<1> QED
  BY <1>2, <1>3
-----------------------------------------------------------------------------
(* The other operations on components. *)

(* Whatever was added, no matrix and none of the flags of matrices changed. *)
LEMMA SameSound ==
  ASSUME NEW s, Sound(s), NEW t, Typed(t), t.parent = s.parent, s.related \subseteq t.related,
         \A x \in Entities :
           /\ Of(t, x).local = Of(s, x).local /\ Of(t, x).m = Of(s, x).m
           /\ Of(t, x).w = Of(s, x).w /\ Of(t, x).iw = Of(s, x).iw
           /\ Invalid(t, x, "M") <=> Invalid(s, x, "M")
           /\ Invalid(t, x, "W") <=> Invalid(s, x, "W")
           /\ Invalid(t, x, "IW") <=> Invalid(s, x, "IW")
  PROVE  Sound(t)
<1>1. Typed(s) /\ Rooted(s.parent) /\ Rooted(t.parent) /\ Current(s) /\ Settled(s, {}) /\ s.parent \in Parents
  BY DEF Sound, Typed
<1>2. \A x \in Entities : World(t)[x] = World(s)[x]
  BY <1>1, SameWorld
<1>3. Current(t)
  BY <1>1, <1>2 DEF Current
<1>4. Settled(t, {})
  <2> SUFFICES ASSUME NEW x \in Entities PROVE
        /\ ~Invalid(t, x, "W") => x \in t.related /\ (t.parent[x] = Null \/ ~Invalid(t, t.parent[x], "W"))
        /\ ~Invalid(t, x, "IW") => ~Invalid(t, x, "W")
    BY DEF Settled
  <2>1. s.parent[x] = Null \/ s.parent[x] \in Entities
    BY <1>1 DEF Parents
  <2>2. /\ ~Invalid(s, x, "W") => x \in s.related /\ (s.parent[x] = Null \/ ~Invalid(s, s.parent[x], "W"))
        /\ ~Invalid(s, x, "IW") => ~Invalid(s, x, "W")
    BY <1>1 DEF Settled
  <2> QED
    BY <2>1, <2>2
<1> QED
  BY <1>1, <1>3, <1>4 DEF Sound

LEMMA EmplacedSound ==
  ASSUME NEW s, Sound(s), NEW met \in SUBSET Entities, NEW related \in SUBSET Entities, s.related \subseteq related,
         NEW t, t = [parent |-> s.parent, related |-> related, tf |-> Emplaced(s, met)]
  PROVE  Sound(t) /\ Grows(s, t)
<1>1. Typed(s) /\ DOMAIN s.tf \subseteq Entities /\ s.parent \in Parents
  BY DEF Sound, Typed
<1>2. t.parent = s.parent /\ t.related = related /\ t.tf = Emplaced(s, met)
      /\ t = [parent |-> t.parent, related |-> t.related, tf |-> t.tf]
  OBVIOUS
<1>3. t.tf = [x \in DOMAIN s.tf \cup met |-> Of(s, x)] /\ DOMAIN t.tf = DOMAIN s.tf \cup met
  BY <1>2 DEF Emplaced
<1>4. Typed(t)
  <2>1. t.tf \in [DOMAIN t.tf -> Components]
    BY <1>1, <1>3, OfType
  <2> QED
    BY <1>1, <1>2, <1>3, <2>1 DEF Typed
<1>5. \A x : Of(t, x) = Of(s, x)
  BY <1>3 DEF Of, Has
<1>6. \A x, flag : Invalid(t, x, flag) <=> Invalid(s, x, flag)
  BY <1>5 DEF Invalid
<1>7. Sound(t)
  BY <1>2, <1>4, <1>5, <1>6, SameSound
<1>8. Grows(s, t)
  <2>1. \A x \in DOMAIN s.tf : t.tf[x] = s.tf[x]
    BY <1>3 DEF Of, Has
  <2> QED
    BY <1>3, <1>6, <2>1 DEF Grows
<1> QED
  BY <1>7, <1>8

(* The flag that asks for an event is cleared. *)
LEMMA ClearedSound ==
  ASSUME NEW s, Sound(s), NEW e \in DOMAIN s.tf, NEW t, t = [s EXCEPT !.tf[e].dirty = @ \ {"EventFlag"}]
  PROVE  /\ Sound(t)
         /\ DOMAIN t.tf = DOMAIN s.tf
         /\ t.parent = s.parent
         /\ \A x \in DOMAIN s.tf \ {e} : t.tf[x] = s.tf[x]
<1>1. Typed(s) /\ DOMAIN s.tf \subseteq Entities /\ s.parent \in Parents /\ s.related \subseteq Entities
      /\ s = [parent |-> s.parent, related |-> s.related, tf |-> s.tf] /\ s.tf \in [DOMAIN s.tf -> Components]
      /\ s.tf[e] \in Components
  BY DEF Sound, Typed
<1> DEFINE tf == [s.tf EXCEPT ![e].dirty = @ \ {"EventFlag"}]
<1>2. t = [s EXCEPT !.tf = tf]
  OBVIOUS
<1>3. tf = [s.tf EXCEPT ![e] = [s.tf[e] EXCEPT !.dirty = @ \ {"EventFlag"}]]
  OBVIOUS
<1> HIDE DEF tf
<1>4. t = [parent |-> s.parent, related |-> s.related, tf |-> tf]
  BY <1>1, <1>2
<1>5. t.parent = s.parent /\ t.related = s.related /\ t.tf = tf /\ t = [parent |-> t.parent, related |-> t.related, tf |-> t.tf]
  <2> DEFINE u == [parent |-> s.parent, related |-> s.related, tf |-> tf]
  <2>1. u.parent = s.parent /\ u.related = s.related /\ u.tf = tf
    OBVIOUS
  <2>2. u = [parent |-> u.parent, related |-> u.related, tf |-> u.tf]
    OBVIOUS
  <2>3. t = u
    BY <1>4
  <2> HIDE DEF u
  <2> QED
    BY <2>1, <2>2, <2>3
<1>6. s.tf[e].dirty \ {"EventFlag"} \in SUBSET Flags
  BY <1>1 DEF Components
<1>7. [s.tf[e] EXCEPT !.dirty = @ \ {"EventFlag"}] \in Components
  BY <1>1, <1>6 DEF Components
<1>8. tf \in [DOMAIN s.tf -> Components] /\ DOMAIN tf = DOMAIN s.tf
      /\ (\A x \in DOMAIN s.tf \ {e} : tf[x] = s.tf[x])
      /\ tf[e] = [s.tf[e] EXCEPT !.dirty = @ \ {"EventFlag"}]
  BY <1>1, <1>3, <1>7
<1>9. tf[e].local = s.tf[e].local /\ tf[e].m = s.tf[e].m /\ tf[e].w = s.tf[e].w /\ tf[e].iw = s.tf[e].iw
      /\ tf[e].dirty = s.tf[e].dirty \ {"EventFlag"}
  BY <1>1, <1>8 DEF Components
<1>10. Typed(t)
  BY <1>1, <1>5, <1>8 DEF Typed
<1>11. ASSUME NEW x \in Entities PROVE
           /\ Of(t, x).local = Of(s, x).local /\ Of(t, x).m = Of(s, x).m
           /\ Of(t, x).w = Of(s, x).w /\ Of(t, x).iw = Of(s, x).iw
           /\ Invalid(t, x, "M") <=> Invalid(s, x, "M")
           /\ Invalid(t, x, "W") <=> Invalid(s, x, "W")
           /\ Invalid(t, x, "IW") <=> Invalid(s, x, "IW")
  <2>1. CASE x = e
    <3>1. Of(t, e) = tf[e] /\ Of(s, e) = s.tf[e]
      BY <1>5, <1>8 DEF Of, Has
    <3> QED
      BY <1>9, <2>1, <3>1 DEF Invalid
  <2>2. CASE x # e
    <3>1. Of(t, x) = Of(s, x)
      BY <1>5, <1>8, <2>2 DEF Of, Has
    <3> QED
      BY <3>1 DEF Invalid
  <2> QED
    BY <2>1, <2>2
<1>12. Sound(t)
  BY <1>5, <1>10, <1>11, SameSound, ZenonT(60)
<1> QED
  BY <1>5, <1>8, <1>12

(* The inverse is left for later. *)
LEMMA GetMatrixSound ==
  ASSUME NEW s, Sound(s), NEW e \in DOMAIN s.tf, NEW t,
         t = [Recalculated(s, e) EXCEPT !.tf[e] =
               [Recalculated(s, e).tf[e] EXCEPT !.iw = s.tf[e].iw, !.dirty = @ \cup (s.tf[e].dirty \cap {"IW"})]]
  PROVE  Sound(t) /\ Grows(s, t) /\ t.parent = s.parent
<1> DEFINE r == Recalculated(s, e)
           iw == s.tf[e].iw
           later == s.tf[e].dirty \cap {"IW"}
<1>1. Typed(s) /\ DOMAIN s.tf \subseteq Entities /\ Current(s) /\ Settled(s, {}) /\ s.tf[e] \in Components /\ e \in Entities
      /\ Rooted(s.parent)
  BY DEF Sound, Typed
<1>2. Recomputed(s, Reached(s, e), r) /\ e \in Reached(s, e)
  <2> DEFINE views == UNION {Reached(s, x) : x \in {e}}
  <2>1. views = Reached(s, e)
    OBVIOUS
  <2>2. Reached(s, e) \in SUBSET Entities /\ e \in Reached(s, e)
    BY <1>1, ReachedSteps
  <2>3. r = Updated(s, views, [x \in Entities |-> LocalMatrix(s, x)], Matrix(s))
    BY DEF Recalculated, RecalculatedAll
  <2> HIDE DEF views, r
  <2>4. Recomputed(s, Reached(s, e), Updated(s, Reached(s, e), [x \in Entities |-> LocalMatrix(s, x)], Matrix(s)))
    BY <1>1, <2>2, UpdatedFields
  <2> QED
    BY <2>1, <2>2, <2>3, <2>4
<1>3. Better(s, r, Reached(s, e))
  <2> HIDE DEF r
  <2> QED
    BY <1>1, RecalculatedBetter DEF r
<1>4. t = [r EXCEPT !.tf[e] = [r.tf[e] EXCEPT !.iw = iw, !.dirty = @ \cup later]]
  OBVIOUS
<1>5. iw \in Matrices /\ later \in SUBSET Flags /\ later \in SUBSET {"IW"} /\ ("IW" \in later <=> Invalid(s, e, "IW"))
  BY <1>1 DEF Components, Invalid, Of, Has
<1> HIDE DEF r, iw, later
<1>6. Sound(r) /\ Typed(r) /\ Rooted(r.parent) /\ Current(r) /\ Settled(r, {}) /\ r.parent = s.parent /\ Grows(s, r)
      /\ DOMAIN r.tf \subseteq Entities
      /\ r = [parent |-> r.parent, related |-> r.related, tf |-> r.tf] /\ r.tf \in [DOMAIN r.tf -> Components]
      /\ e \in DOMAIN r.tf /\ r.tf[e] \in Components /\ \A x \in Entities : World(r)[x] = World(s)[x]
  BY <1>2, <1>3 DEF Better, Sound, Typed
<1> DEFINE one == [r.tf[e] EXCEPT !.iw = iw, !.dirty = @ \cup later]
           tf == [r.tf EXCEPT ![e] = one]
<1>7. one \in Components /\ one.local = r.tf[e].local /\ one.m = r.tf[e].m /\ one.w = r.tf[e].w /\ one.iw = iw
      /\ one.dirty = r.tf[e].dirty \cup later
  <2>1. r.tf[e].dirty \cup later \in SUBSET Flags
    BY <1>5, <1>6 DEF Components
  <2> QED
    BY <1>5, <1>6, <2>1 DEF Components
<1>8. t = [parent |-> r.parent, related |-> r.related, tf |-> tf]
  <2>1. t = [r EXCEPT !.tf = tf]
    BY <1>4
  <2> HIDE DEF tf
  <2> QED
    BY <1>6, <2>1
<1>9. /\ tf \in [DOMAIN r.tf -> Components]
      /\ \A x \in DOMAIN r.tf \ {e} : tf[x] = r.tf[x]
      /\ tf[e].local = r.tf[e].local /\ tf[e].m = r.tf[e].m /\ tf[e].w = r.tf[e].w /\ tf[e].iw = iw
      /\ tf[e].dirty = r.tf[e].dirty \cup later
  <2> HIDE DEF one
  <2>1. tf[e] = one
    BY <1>6
  <2> QED
    BY <1>6, <1>7, <2>1
<1> HIDE DEF tf, one
<1>10. t.parent = r.parent /\ t.related = r.related /\ t.tf = tf /\ DOMAIN t.tf = DOMAIN r.tf
       /\ t = [parent |-> t.parent, related |-> t.related, tf |-> t.tf]
  <2> DEFINE u == [parent |-> r.parent, related |-> r.related, tf |-> tf]
  <2>1. u.parent = r.parent /\ u.related = r.related /\ u.tf = tf /\ u = [parent |-> u.parent, related |-> u.related, tf |-> u.tf]
    OBVIOUS
  <2>2. t = u
    BY <1>8
  <2>3. DOMAIN tf = DOMAIN r.tf
    BY <1>9
  <2> HIDE DEF u
  <2> QED
    BY <2>1, <2>2, <2>3
<1>11. Typed(t)
  BY <1>6, <1>9, <1>10 DEF Typed
<1>12. \A x \in Entities : x # e => Of(t, x) = Of(r, x)
  BY <1>9, <1>10 DEF Of, Has
<1>13. Of(t, e) = tf[e] /\ Of(r, e) = r.tf[e]
  BY <1>6, <1>9, <1>10, SMTT(30), ZenonT(30) DEF Of, Has
<1>14. /\ Of(t, e).dirty = Of(r, e).dirty \cup later
       /\ Of(t, e).local = Of(r, e).local /\ Of(t, e).m = Of(r, e).m /\ Of(t, e).w = Of(r, e).w /\ Of(t, e).iw = iw
  BY <1>9, <1>13
<1>15. /\ Invalid(t, e, "M") <=> Invalid(r, e, "M")
       /\ Invalid(t, e, "W") <=> Invalid(r, e, "W")
       /\ Invalid(t, e, "EventFlag") <=> Invalid(r, e, "EventFlag")
       /\ ~Invalid(t, e, "IW") => ~Invalid(s, e, "IW")
  BY <1>5, <1>14 DEF Invalid
<1>16. \A x \in Entities : World(t)[x] = World(r)[x]
  <2>1. \A x \in Entities : Of(t, x).local = Of(r, x).local
    BY <1>12, <1>14, SMTT(30), ZenonT(30)
  <2> QED
    BY ONLY <1>6, <1>10, <1>11, <2>1, SameWorld, SMTT(30), ZenonT(60)
<1>17. Current(t)
  <2> SUFFICES ASSUME NEW x \in Entities PROVE
        /\ ~Invalid(t, x, "M") => Of(t, x).m = Of(t, x).local
        /\ ~Invalid(t, x, "W") => Of(t, x).w = World(t)[x]
        /\ ~Invalid(t, x, "IW") => Of(t, x).iw = Inverse(World(t)[x])
    BY DEF Current
  <2>1. /\ ~Invalid(r, x, "M") => Of(r, x).m = Of(r, x).local
        /\ ~Invalid(r, x, "W") => Of(r, x).w = World(r)[x]
        /\ ~Invalid(r, x, "IW") => Of(r, x).iw = Inverse(World(r)[x])
        /\ ~Invalid(s, x, "IW") => Of(s, x).iw = Inverse(World(s)[x])
    BY <1>1, <1>6, SMTT(30), ZenonT(60) DEF Current
  <2>2. CASE x = e
    <3>1. Of(s, e).iw = iw
      BY DEF Of, Has, iw
    <3> QED
      BY <1>6, <1>14, <1>15, <1>16, <2>1, <2>2, <3>1, ZenonT(30), SMTT(30)
  <2>3. CASE x # e
    <3>1. Of(t, x) = Of(r, x)
      BY <1>12, <2>3
    <3> QED
      BY <1>16, <2>1, <3>1 DEF Invalid
  <2> QED
    BY <2>2, <2>3
<1>18. Settled(t, {})
  <2>1. \A x \in Entities : Invalid(t, x, "W") <=> Invalid(r, x, "W")
    BY <1>12, <1>15 DEF Invalid
  <2> SUFFICES ASSUME NEW x \in Entities PROVE
        /\ ~Invalid(t, x, "W") => x \in t.related /\ (t.parent[x] = Null \/ ~Invalid(t, t.parent[x], "W"))
        /\ ~Invalid(t, x, "IW") => ~Invalid(t, x, "W")
    BY DEF Settled
  <2>2. r.parent[x] = Null \/ r.parent[x] \in Entities
    BY <1>6 DEF Typed, Parents
  <2>3. /\ ~Invalid(r, x, "W") => x \in r.related /\ (r.parent[x] = Null \/ ~Invalid(r, r.parent[x], "W"))
        /\ ~Invalid(r, x, "IW") => ~Invalid(r, x, "W")
    BY <1>6 DEF Settled
  <2>4. ~Invalid(t, x, "IW") => ~Invalid(t, x, "W")
    <3>1. CASE x = e
      <4>1. ~Invalid(r, e, "W")
        BY <1>2 DEF Recomputed
      <4> QED
        BY <1>15, <3>1, <4>1
    <3>2. CASE x # e
      BY <1>12, <2>3, <3>2 DEF Invalid
    <3> QED
      BY <3>1, <3>2
  <2> QED
    BY <1>10, <2>1, <2>2, <2>3, <2>4
<1>19. Grows(s, t)
  <2>1. Grows(r, t)
    <3>1. ASSUME NEW x \in DOMAIN r.tf PROVE
            t.tf[x].local = r.tf[x].local /\ (Invalid(r, x, "EventFlag") => Invalid(t, x, "EventFlag"))
      <4>1. CASE x = e
        BY <1>9, <1>10, <1>15, <4>1
      <4>2. CASE x # e
        BY <1>6, <1>9, <1>10, <1>12, <4>2 DEF Invalid
      <4> QED
        BY <4>1, <4>2
    <3> QED
      BY <1>10, <3>1 DEF Grows
  <2> QED
    BY <1>6, <2>1, GrowsOn
<1> QED
  BY <1>6, <1>10, <1>11, <1>17, <1>18, <1>19 DEF Sound
-----------------------------------------------------------------------------
(* The invariant. *)

IInv ==
  /\ Sound(scene)
  /\ open \subseteq DOMAIN scene.tf
  /\ telling \in DOMAIN scene.tf \cup {Null}
  /\ untold \subseteq DOMAIN scene.tf
  /\ moves \in 0..MaxMoves
  /\ ChangesAreMarked

LEMMA Initially == ASSUME Init PROVE IInv
<1>1. PICK with \in SUBSET Entities :
        scene = [parent  |-> [e \in Entities |-> Null], related |-> {Root},
                 tf      |-> [e \in with \cup {Root} |-> Fresh]]
  BY DEF Init
<1> DEFINE tf == [e \in with \cup {Root} |-> Fresh]
           parent == [e \in Entities |-> Null]
<1>2. scene.parent = parent /\ scene.related = {Root} /\ scene.tf = tf /\ DOMAIN scene.tf = with \cup {Root}
      /\ scene = [parent |-> scene.parent, related |-> scene.related, tf |-> scene.tf]
  <2> DEFINE u == [parent |-> parent, related |-> {Root}, tf |-> tf]
  <2>1. u.parent = parent /\ u.related = {Root} /\ u.tf = tf /\ u = [parent |-> u.parent, related |-> u.related, tf |-> u.tf]
    OBVIOUS
  <2>2. scene = u
    BY <1>1
  <2>3. DOMAIN tf = with \cup {Root}
    OBVIOUS
  <2> HIDE DEF u, tf
  <2> QED
    BY <2>1, <2>2, <2>3
<1>3. Typed(scene)
  <2>1. tf \in [with \cup {Root} -> Components] /\ parent \in Parents
    BY FreshType DEF Parents
  <2> HIDE DEF tf, parent
  <2> QED
    BY <1>2, <2>1 DEF Typed
<1>4. Rooted(scene.parent)
  <2> DEFINE h == [e \in Entities |-> 0]
  <2>1. h \in [Entities -> 0..0] /\ 0 \in Nat
    OBVIOUS
  <2>2. Ranked(parent, h, 0)
    BY <2>1 DEF Ranked
  <2> HIDE DEF h, parent
  <2> QED
    BY <1>2, <2>1, <2>2 DEF Rooted
<1>5. ASSUME NEW x \in Entities PROVE Invalid(scene, x, "M") /\ Invalid(scene, x, "W") /\ Invalid(scene, x, "IW")
  <2>1. Of(scene, x) = Fresh
    BY <1>2 DEF Of, Has
  <2> QED
    BY <2>1, FreshType DEF Invalid
<1>6. Current(scene) /\ Settled(scene, {})
  BY <1>5 DEF Current, Settled
<1>7. open = {} /\ telling = Null /\ untold = {} /\ moves = 0
  BY DEF Init
<1> QED
  BY <1>3, <1>4, <1>6, <1>7, MaxMovesAssumption DEF IInv, Sound, ChangesAreMarked

LEMMA BecomesKeeps ==
  ASSUME IInv, NEW t, Becomes(t), Sound(t), Grows(scene, t)
  PROVE  /\ Sound(scene')
         /\ DOMAIN scene.tf \subseteq DOMAIN scene'.tf
         /\ untold' \subseteq DOMAIN scene'.tf
         /\ ChangesAreMarked'
<1>1. scene' = t /\ untold' = untold \cup {e \in DOMAIN scene.tf : t.tf[e].local # scene.tf[e].local}
  BY DEF Becomes
<1>2. DOMAIN scene.tf \subseteq DOMAIN t.tf /\ untold \subseteq DOMAIN scene.tf
  BY DEF Grows, IInv
<1>3. ASSUME NEW e \in untold' PROVE Invalid(t, e, "EventFlag")
  <2>1. CASE e \in untold
    <3>1. Invalid(scene, e, "EventFlag") /\ e \in DOMAIN scene.tf
      BY <1>2, <2>1 DEF IInv, ChangesAreMarked
    <3> QED
      BY <3>1 DEF Grows
  <2>2. CASE e \notin untold
    <3>1. e \in DOMAIN scene.tf /\ t.tf[e].local # scene.tf[e].local
      BY <1>1, <1>3, <2>2
    <3> QED
      BY <3>1 DEF Grows
  <2> QED
    BY <2>1, <2>2
<1>4. ChangesAreMarked'
  BY <1>1, <1>3 DEF ChangesAreMarked
<1>5. untold' \subseteq DOMAIN t.tf
  BY <1>1, <1>2
<1> QED
  BY <1>1, <1>2, <1>4, <1>5

LEMMA GivenType == ASSUME NEW m \in Given PROVE m \in Matrices /\ m.at \in 0..Ring-1 /\ m.turned \in BOOLEAN
BY GivenAssumption DEF Matrices

(* Where a set-parent leads. *)
LEMMA SetParentKeeps ==
  ASSUME IInv, NEW c \in Entities, NEW p \in Entities, SetParent(c, p)
  PROVE  /\ Becomes(scene')
         /\ Sound(scene') /\ Grows(scene, scene')
         /\ scene'.parent = [scene.parent EXCEPT ![c] = p]
         /\ c \in scene.related /\ Has(scene, c) /\ Has(scene, p)
              => \A x \in Entities : World(scene')[x] = World(scene)[x]
<1> DEFINE s == Left(scene, c)
           t == Joined(s, c, p)
<1>1. Becomes(t) /\ c \notin Lineage(scene, p)
  BY DEF SetParent
<1>2. Becomes(scene') /\ scene' = t
  BY <1>1 DEF Becomes
<1>3. Sound(scene) /\ Typed(scene) /\ Rooted(scene.parent) /\ scene.parent \in Parents
  BY DEF IInv, Sound, Typed
<1>4. /\ Sound(s) /\ s.parent = [scene.parent EXCEPT ![c] = Null] /\ scene.related \subseteq s.related /\ Grows(scene, s)
      /\ Has(scene, c) => \A x \in Entities : World(s)[x] = World(scene)[x]
  BY <1>3, LeftKeeps
<1> HIDE DEF s
<1>5. [s.parent EXCEPT ![c] = p] = [scene.parent EXCEPT ![c] = p]
  BY <1>3, <1>4 DEF Parents
<1>6. Rooted([s.parent EXCEPT ![c] = p])
  BY <1>1, <1>3, <1>5, RootedJoined
<1>7. /\ Sound(t) /\ t.parent = [s.parent EXCEPT ![c] = p] /\ Grows(s, t)
      /\ c \in s.related /\ Has(s, c) /\ Has(s, p) => \A x \in Entities : World(t)[x] = World(s)[x]
  BY <1>4, <1>6, JoinedKeeps
<1> HIDE DEF t
<1>8. Grows(scene, t)
  BY <1>4, <1>7, GrowsOn
<1>9. ASSUME c \in scene.related, Has(scene, c), Has(scene, p) PROVE \A x \in Entities : World(t)[x] = World(scene)[x]
  <2>1. c \in s.related /\ Has(s, c) /\ Has(s, p)
    BY <1>4, <1>9 DEF Grows, Has
  <2> QED
    BY <1>4, <1>7, <1>9, <2>1
<1> QED
  BY <1>2, <1>5, <1>7, <1>8, <1>9

LEMMA NextKeeps == ASSUME IInv, [Next]_vars PROVE IInv'
<1>0. /\ Sound(scene) /\ Typed(scene) /\ Rooted(scene.parent) /\ scene.parent \in Parents /\ scene.related \subseteq Entities
      /\ scene = [parent |-> scene.parent, related |-> scene.related, tf |-> scene.tf]
      /\ DOMAIN scene.tf \subseteq Entities
      /\ open \subseteq DOMAIN scene.tf /\ telling \in DOMAIN scene.tf \cup {Null}
      /\ untold \subseteq DOMAIN scene.tf /\ moves \in 0..MaxMoves /\ ChangesAreMarked
  BY DEF IInv, Sound, Typed
(* What every step to a sound scene that has all that was there keeps. *)
<1>1. ASSUME NEW t, Becomes(t), Sound(t), Grows(scene, t),
             open' \subseteq DOMAIN scene.tf, telling' = telling, moves' \in 0..MaxMoves
      PROVE  IInv'
  <2>1. Sound(scene') /\ DOMAIN scene.tf \subseteq DOMAIN scene'.tf /\ untold' \subseteq DOMAIN scene'.tf /\ ChangesAreMarked'
    BY <1>1, BecomesKeeps
  <2> QED
    BY <1>0, <1>1, <2>1 DEF IInv
<1>2. ASSUME NEW e \in Entities, Emplace(e) PROVE IInv'
  <2> DEFINE t == [scene EXCEPT !.tf = Emplaced(scene, {e})]
  <2>1. Becomes(t) /\ UNCHANGED <<open, telling, moves>>
    BY <1>2 DEF Emplace
  <2>2. t = [parent |-> scene.parent, related |-> scene.related, tf |-> Emplaced(scene, {e})]
    BY <1>0
  <2> HIDE DEF t
  <2>3. {e} \in SUBSET Entities
    OBVIOUS
  <2>4. Sound(t) /\ Grows(scene, t)
    BY <1>0, <2>2, <2>3, EmplacedSound
  <2> QED
    BY <1>0, <1>1, <2>1, <2>4
<1>3. ASSUME NEW e \in Entities, Open(e) PROVE IInv'
  <2> DEFINE met == {e, scene.parent[e]} \ {Null}
             related == scene.related \cup met
             t == [scene EXCEPT !.related = @ \cup met, !.tf = Emplaced(scene, met)]
  <2>1. Becomes(t) /\ open' = open \cup {e} /\ UNCHANGED <<telling, moves>> /\ e \in DOMAIN scene.tf
    BY <1>3 DEF Open, Has
  <2>2. t = [parent |-> scene.parent, related |-> related, tf |-> Emplaced(scene, met)]
    <3> DEFINE b == [scene EXCEPT !.related = related]
    <3>1. t = [b EXCEPT !.tf = Emplaced(scene, met)]
      OBVIOUS
    <3>2. b = [parent |-> scene.parent, related |-> related, tf |-> scene.tf]
      <4> HIDE DEF related
      <4> QED
        BY <1>0
    <3> HIDE DEF b, t, related, met
    <3> QED
      BY <3>1, <3>2
  <2>3. met \in SUBSET Entities
    BY <1>0 DEF Parents
  <2>4. related \in SUBSET Entities /\ scene.related \subseteq related
    BY <1>0, <2>3
  <2> HIDE DEF t, met, related
  <2>5. Sound(t) /\ Grows(scene, t)
    BY <1>0, <2>2, <2>3, <2>4, EmplacedSound
  <2>6. open' \subseteq DOMAIN scene.tf
    BY <1>0, <2>1
  <2> QED
    BY <1>0, <1>1, <2>1, <2>5, <2>6
<1>4. ASSUME NEW e \in Entities, Close(e) PROVE IInv'
  <2> DEFINE t == Recalculated(scene, e)
  <2>1. Becomes(t) /\ open' = open \ {e} /\ UNCHANGED <<telling, moves>>
    BY <1>4 DEF Close
  <2>2. Sound(t) /\ Grows(scene, t)
    BY <1>0, RecalculatedBetter DEF Better
  <2> HIDE DEF t
  <2>3. open' \subseteq DOMAIN scene.tf
    BY <1>0, <2>1
  <2> QED
    BY <1>0, <1>1, <2>1, <2>2, <2>3
<1>5. ASSUME NEW e \in Entities, GetMatrix(e) PROVE IInv'
  <2> DEFINE t == [Recalculated(scene, e) EXCEPT !.tf[e] =
                    [Recalculated(scene, e).tf[e] EXCEPT
                       !.iw = scene.tf[e].iw, !.dirty = @ \cup (scene.tf[e].dirty \cap {"IW"})]]
  <2>1. Becomes(t) /\ UNCHANGED <<open, telling, moves>> /\ e \in open
    BY <1>5 DEF GetMatrix
  <2>2. e \in DOMAIN scene.tf
    BY <1>0, <2>1, SMTT(30), ZenonT(30)
  <2>3. Sound(t) /\ Grows(scene, t)
    BY <1>0, <2>2, GetMatrixSound
  <2> HIDE DEF t
  <2> QED
    BY <1>0, <1>1, <2>1, <2>3
<1>6. ASSUME NEW e \in Entities, NEW m \in Given, Move(e, m) PROVE IInv'
  <2>1. e \in open /\ moves < MaxMoves /\ moves' = moves + 1 /\ UNCHANGED <<open, telling>>
        /\ \/ Becomes(SetLocal(scene, e, m)) \/ Becomes(SetMatrix(scene, e, m))
           \/ Becomes(SetPosition(scene, e, m.at)) \/ Becomes(SetBasis(scene, e, m.turned))
    BY <1>6 DEF Move
  <2>2. e \in DOMAIN scene.tf /\ moves' \in 0..MaxMoves /\ open' \subseteq DOMAIN scene.tf
    BY <1>0, <2>1, MaxMovesAssumption
  <2>3. m \in Matrices /\ m.at \in 0..Ring-1 /\ m.turned \in BOOLEAN
    BY GivenType
  <2>4. Shifted(scene, SetLocal(scene, e, m))
    BY <1>0, <2>2, <2>3, SetLocalHere
  <2>5. Shifted(scene, SetMatrix(scene, e, m))
    BY <1>0, <2>2, <2>3, SetMatrixArrives
  <2>6. Shifted(scene, SetPosition(scene, e, m.at))
    BY <1>0, <2>2, <2>3, SetPositionArrives
  <2>7. Shifted(scene, SetBasis(scene, e, m.turned))
    BY <1>0, <2>2, <2>3, SetBasisArrives
  <2>8. \E t : Becomes(t) /\ Shifted(scene, t)
    BY <2>1, <2>4, <2>5, <2>6, <2>7
  <2>9. PICK t : Becomes(t) /\ Shifted(scene, t)
    BY <2>8
  <2>10. Sound(t) /\ Grows(scene, t)
    BY <2>9 DEF Shifted
  <2> QED
    BY <1>1, <2>1, <2>2, <2>9, <2>10
<1>7. ASSUME NEW c \in Entities, NEW p \in Entities, SetParent(c, p) PROVE IInv'
  <2>1. Becomes(scene') /\ Sound(scene') /\ Grows(scene, scene')
    BY <1>7, SetParentKeeps
  <2>2. UNCHANGED <<open, telling, moves>>
    BY <1>7 DEF SetParent
  <2> QED
    BY <1>0, <1>1, <2>1, <2>2
<1>8. ASSUME NEW e \in Entities, Visit(e) PROVE IInv'
  <2> DEFINE t == [scene EXCEPT !.tf[e].dirty = @ \ {"EventFlag"}]
  <2>1. scene' = t /\ telling' = e /\ untold' = untold \ {e} /\ UNCHANGED <<open, moves>> /\ e \in DOMAIN scene.tf
    BY <1>8 DEF Visit, Has
  <2>2. Sound(t) /\ DOMAIN t.tf = DOMAIN scene.tf /\ \A x \in DOMAIN scene.tf \ {e} : t.tf[x] = scene.tf[x]
    BY <1>0, <2>1, ClearedSound
  <2> HIDE DEF t
  <2>3. \A x \in untold' : Invalid(t, x, "EventFlag")
    <3> SUFFICES ASSUME NEW x \in untold' PROVE Invalid(t, x, "EventFlag")
      OBVIOUS
    <3>1. x \in untold /\ x # e /\ x \in DOMAIN scene.tf /\ Invalid(scene, x, "EventFlag")
      BY <1>0, <2>1 DEF ChangesAreMarked
    <3>2. Of(t, x) = Of(scene, x)
      BY <2>2, <3>1 DEF Of, Has
    <3> QED
      BY <3>1, <3>2 DEF Invalid
  <2>4. ChangesAreMarked'
    BY <2>1, <2>3 DEF ChangesAreMarked
  <2> QED
    BY <1>0, <2>1, <2>2, <2>4 DEF IInv
<1>9. ASSUME Told PROVE IInv'
  <2>1. telling' = Null /\ UNCHANGED <<scene, open, untold, moves>>
    BY <1>9 DEF Told
  <2> QED
    BY <1>0, <2>1 DEF IInv, ChangesAreMarked
<1>10. ASSUME UNCHANGED vars PROVE IInv'
  BY <1>0, <1>10 DEF IInv, ChangesAreMarked, vars
<1> QED
  BY <1>2, <1>3, <1>4, <1>5, <1>6, <1>7, <1>8, <1>9, <1>10 DEF Next

LEMMA AlwaysIInv == Spec => []IInv
BY Initially, NextKeeps, PTL DEF Spec
-----------------------------------------------------------------------------
(* Every variable has its type. *)
THEOREM TypeCorrect == Spec => []TypeOK
<1>1. IInv => TypeOK
  <2> SUFFICES ASSUME IInv PROVE TypeOK
    OBVIOUS
  <2>1. Typed(scene) /\ open \subseteq DOMAIN scene.tf /\ telling \in DOMAIN scene.tf \cup {Null}
        /\ untold \subseteq DOMAIN scene.tf /\ moves \in 0..MaxMoves
    BY DEF IInv, Sound
  <2>2. \A e \in DOMAIN scene.tf : scene.tf[e] \in Components
    BY <2>1 DEF Typed
  <2> QED
    BY <2>1, <2>2 DEF TypeOK, Typed, Parents, Components
<1> QED
  BY <1>1, AlwaysIInv, PTL

(* A matrix that is not marked invalid is the product of the local         *)
(* transforms above it, however deep the tree is, whatever was moved and   *)
(* wherever it was attached (transform.cpp: invalidate_world,              *)
(* update_matrix; relationship_component.cpp: add_child, remove_child).    *)
THEOREM ValidMatricesAreCurrent == Spec => []CachesAreCurrent
<1>1. IInv => CachesAreCurrent
  <2> SUFFICES ASSUME IInv, NEW e \in DOMAIN scene.tf PROVE
        /\ ~Invalid(scene, e, "M") => scene.tf[e].m = scene.tf[e].local
        /\ ~Invalid(scene, e, "W") => scene.tf[e].w = World(scene)[e]
        /\ ~Invalid(scene, e, "IW") => scene.tf[e].iw = Inverse(World(scene)[e])
    BY DEF CachesAreCurrent
  <2>1. Current(scene) /\ e \in Entities
    BY DEF IInv, Sound, Typed
  <2>2. Of(scene, e) = scene.tf[e]
    BY DEF Of, Has
  <2> QED
    BY <2>1, <2>2 DEF Current
<1> QED
  BY <1>1, AlwaysIInv, PTL

(* An entity that moved since its last OnTransformChanged is marked for    *)
(* the next sweep (transform_component.hpp: on_flag; world.cpp:            *)
(* handle_transform_events).                                               *)
THEOREM MovedAreMarked == Spec => []ChangesAreMarked
<1>1. IInv => ChangesAreMarked
  BY DEF IInv
<1> QED
  BY <1>1, AlwaysIInv, PTL

(* A step that leaves the tree alone. *)
LEMMA TreeIsLeft ==
  ASSUME IInv, [Next]_vars, ~ \E c \in Entities, p \in Entities : SetParent(c, p)
  PROVE  scene'.parent = scene.parent
<1>0. /\ Sound(scene) /\ Typed(scene) /\ DOMAIN scene.tf \subseteq Entities /\ open \subseteq DOMAIN scene.tf
      /\ scene = [parent |-> scene.parent, related |-> scene.related, tf |-> scene.tf]
  BY DEF IInv, Sound, Typed
<1>1. ASSUME NEW e \in Entities, Emplace(e) PROVE scene'.parent = scene.parent
  <2>1. scene' = [scene EXCEPT !.tf = Emplaced(scene, {e})]
    BY <1>1 DEF Emplace, Becomes
  <2> QED
    BY <1>0, <2>1
<1>2. ASSUME NEW e \in Entities, Open(e) PROVE scene'.parent = scene.parent
  <2> DEFINE met == {e, scene.parent[e]} \ {Null}
  <2>1. scene' = [scene EXCEPT !.related = @ \cup met, !.tf = Emplaced(scene, met)]
    BY <1>2 DEF Open, Becomes
  <2> HIDE DEF met
  <2> QED
    BY <1>0, <2>1
<1>3. ASSUME NEW e \in Entities, Close(e) PROVE scene'.parent = scene.parent
  <2>1. scene' = Recalculated(scene, e)
    BY <1>3 DEF Close, Becomes
  <2> QED
    BY <1>0, <2>1, RecalculatedBetter DEF Better
<1>4. ASSUME NEW e \in Entities, GetMatrix(e) PROVE scene'.parent = scene.parent
  <2> DEFINE t == [Recalculated(scene, e) EXCEPT !.tf[e] =
                    [Recalculated(scene, e).tf[e] EXCEPT
                       !.iw = scene.tf[e].iw, !.dirty = @ \cup (scene.tf[e].dirty \cap {"IW"})]]
  <2>1. scene' = t /\ e \in DOMAIN scene.tf
    BY <1>0, <1>4, SMTT(30), ZenonT(30) DEF GetMatrix, Becomes
  <2>2. t.parent = scene.parent
    BY <1>0, <2>1, GetMatrixSound, ZenonT(30), SMTT(30)
  <2> HIDE DEF t
  <2> QED
    BY <2>1, <2>2
<1>5. ASSUME NEW e \in Entities, NEW m \in Given, Move(e, m) PROVE scene'.parent = scene.parent
  <2>1. e \in open
        /\ \/ scene' = SetLocal(scene, e, m) \/ scene' = SetMatrix(scene, e, m)
           \/ scene' = SetPosition(scene, e, m.at) \/ scene' = SetBasis(scene, e, m.turned)
    BY <1>5 DEF Move, Becomes
  <2>2. e \in DOMAIN scene.tf /\ m \in Matrices /\ m.at \in 0..Ring-1 /\ m.turned \in BOOLEAN
    BY <1>0, <2>1, GivenType
  <2>3. Shifted(scene, SetLocal(scene, e, m))
    BY <1>0, <2>2, SetLocalHere
  <2>4. Shifted(scene, SetMatrix(scene, e, m))
    BY <1>0, <2>2, SetMatrixArrives
  <2>5. Shifted(scene, SetPosition(scene, e, m.at))
    BY <1>0, <2>2, SetPositionArrives
  <2>6. Shifted(scene, SetBasis(scene, e, m.turned))
    BY <1>0, <2>2, SetBasisArrives
  <2>7. Shifted(scene, scene')
    BY <2>1, <2>3, <2>4, <2>5, <2>6
  <2> QED
    BY <2>7 DEF Shifted
<1>6. ASSUME NEW e \in Entities, Visit(e) PROVE scene'.parent = scene.parent
  <2> DEFINE t == [scene EXCEPT !.tf[e].dirty = @ \ {"EventFlag"}]
  <2>1. scene' = t /\ e \in DOMAIN scene.tf
    BY <1>6 DEF Visit, Has
  <2>2. t.parent = scene.parent
    BY <1>0, <2>1, ClearedSound
  <2> HIDE DEF t
  <2> QED
    BY <2>1, <2>2
<1>7. ASSUME Told \/ UNCHANGED vars PROVE scene'.parent = scene.parent
  BY <1>7 DEF Told, vars
<1> QED
  BY <1>1, <1>2, <1>3, <1>4, <1>5, <1>6, <1>7 DEF Next

(* An entity that changes its parent stays where it is in the world, with  *)
(* all below it (relationship_component.cpp: add_child, remove_child).     *)
THEOREM AttachedStay == Spec => AttachingKeepsTheWorld
<1>1. ASSUME IInv, [Next]_vars PROVE
        \A c \in scene.related \cap DOMAIN scene.tf :
          /\ scene'.parent[c] # scene.parent[c]
          /\ Has(scene, scene'.parent[c])
          => \A e \in DOMAIN scene.tf : World(scene')[e] = World(scene)[e]
  <2> SUFFICES ASSUME NEW c \in scene.related \cap DOMAIN scene.tf,
                      scene'.parent[c] # scene.parent[c], Has(scene, scene'.parent[c])
               PROVE  \A e \in DOMAIN scene.tf : World(scene')[e] = World(scene)[e]
    OBVIOUS
  <2>1. scene.parent \in Parents /\ DOMAIN scene.tf \subseteq Entities
    BY <1>1 DEF IInv, Sound, Typed
  <2>2. PICK d \in Entities, p \in Entities : SetParent(d, p)
    BY <1>1, TreeIsLeft
  <2>3. /\ scene'.parent = [scene.parent EXCEPT ![d] = p]
        /\ d \in scene.related /\ Has(scene, d) /\ Has(scene, p)
             => \A x \in Entities : World(scene')[x] = World(scene)[x]
    BY <1>1, <2>2, SetParentKeeps
  <2>4. d = c /\ scene'.parent[c] = p
    BY <2>1, <2>3 DEF Parents
  <2> QED
    BY <2>1, <2>3, <2>4 DEF Has
<1>2. ASSUME IInv, [Next]_vars PROVE
        [\A c \in scene.related \cap DOMAIN scene.tf :
           /\ scene'.parent[c] # scene.parent[c]
           /\ Has(scene, scene'.parent[c])
           => LET before == World(scene)
                  after  == World(scene)'
              IN  \A e \in DOMAIN scene.tf : after[e] = before[e]]_vars
  BY <1>1, <1>2
<1> QED
  BY <1>2, AlwaysIInv, PTL DEF Spec, AttachingKeepsTheWorld

(* Setting a matrix, a position or an orientation in the world gives just  *)
(* that (transform.cpp: set_matrix, set_position, set_basis).              *)
THEOREM MovesDoArrive == Spec => MovesArrive
<1>1. ASSUME IInv, [Next]_vars PROVE
        \A e \in open, m \in Given :
          moves' # moves =>
            /\ scene' = SetMatrix(scene, e, m) => World(scene')[e] = m
            /\ scene' = SetPosition(scene, e, m.at) => World(scene')[e].at = m.at
            /\ scene' = SetBasis(scene, e, m.turned) => World(scene')[e].turned = m.turned
  <2> SUFFICES ASSUME NEW e \in open, NEW m \in Given PROVE
            /\ scene' = SetMatrix(scene, e, m) => World(scene')[e] = m
            /\ scene' = SetPosition(scene, e, m.at) => World(scene')[e].at = m.at
            /\ scene' = SetBasis(scene, e, m.turned) => World(scene')[e].turned = m.turned
    OBVIOUS
  <2>1. Sound(scene) /\ e \in DOMAIN scene.tf /\ m \in Matrices /\ m.at \in 0..Ring-1 /\ m.turned \in BOOLEAN
    BY <1>1, GivenType DEF IInv
  <2>2. World(SetMatrix(scene, e, m))[e] = m
    BY <2>1, SetMatrixArrives
  <2>3. World(SetPosition(scene, e, m.at))[e].at = m.at
    BY <2>1, SetPositionArrives
  <2>4. World(SetBasis(scene, e, m.turned))[e].turned = m.turned
    BY <2>1, SetBasisArrives
  <2> QED
    BY <2>2, <2>3, <2>4
<1>2. ASSUME IInv, [Next]_vars PROVE
        [\A e \in open, m \in Given :
           moves' # moves =>
             LET arrived == World(scene)'[e]
             IN  /\ scene' = SetMatrix(scene, e, m) => arrived = m
                 /\ scene' = SetPosition(scene, e, m.at) => arrived.at = m.at
                 /\ scene' = SetBasis(scene, e, m.turned) => arrived.turned = m.turned]_vars
  BY <1>1, <1>2
<1> QED
  BY <1>2, AlwaysIInv, PTL DEF Spec, MovesArrive
=============================================================================
