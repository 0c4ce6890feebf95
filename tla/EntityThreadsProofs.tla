------------------------- MODULE EntityThreadsProofs -------------------------
(***************************************************************************)
(* Theorems about EntityThreads, for any number of threads, names, states  *)
(* and timers: its types, that a name has one linked thread at most, which *)
(* threads an update or a step may take away, and that sleepers are woken. *)
(*                                                                         *)
(* A set of threads is sound if its seats are distinct and below the next  *)
(* one and no two linked threads have one name.  Most operations only take *)
(* threads away, or change them without linking or moving them, which keeps*)
(* a set sound (Fewer, Altered); starting and linking threads are looked at*)
(* one by one.                                                             *)
(***************************************************************************)
EXTENDS EntityThreads, FiniteSetTheorems, TLAPS

Sound(set, next) ==
  /\ set \subseteq Thread
  /\ \A t \in set : t.seat < next
  /\ \A t, u \in set : t.seat = u.seat => t = u
  /\ \A t, u \in set : t.linked /\ u.linked /\ t.name = u.name /\ t.name \in Names => t = u

(* Threads that are taken away leave the others sound. *)
LEMMA Fewer ==
  ASSUME NEW old, NEW next, Sound(old, next), NEW new \in SUBSET old
  PROVE  Sound(new, next)
BY DEF Sound

(* Threads may change, if they keep seat and name and are not linked anew. *)
LEMMA Altered ==
  ASSUME NEW old, NEW next, Sound(old, next), NEW set \in SUBSET old,
         NEW f \in [set -> Thread],
         \A t \in set : /\ f[t].seat = t.seat
                        /\ f[t].name = t.name
                        /\ f[t].linked => t.linked
  PROVE  Sound((old \ set) \cup {f[t] : t \in set}, next)
<1> DEFINE new == (old \ set) \cup {f[t] : t \in set}
<1>1. new \subseteq Thread
  BY DEF Sound
<1>2. ASSUME NEW v \in new
      PROVE  \E t \in old : /\ v = IF t \in set THEN f[t] ELSE t
                            /\ v.seat = t.seat
                            /\ v.name = t.name
                            /\ v.linked => t.linked
  OBVIOUS
<1>3. ASSUME NEW v \in new, NEW w \in new, v.seat = w.seat
      PROVE  v = w
  <2>1. PICK t \in old : v = (IF t \in set THEN f[t] ELSE t) /\ v.seat = t.seat
    BY <1>2
  <2>2. PICK u \in old : w = (IF u \in set THEN f[u] ELSE u) /\ w.seat = u.seat
    BY <1>2
  <2>3. t = u
    BY <1>3, <2>1, <2>2 DEF Sound
  <2> QED
    BY <2>1, <2>2, <2>3
<1>4. ASSUME NEW v \in new, NEW w \in new, v.linked, w.linked, v.name = w.name, v.name \in Names
      PROVE  v = w
  <2>1. PICK t \in old : v.seat = t.seat /\ v.name = t.name /\ (v.linked => t.linked)
    BY <1>2
  <2>2. PICK u \in old : w.seat = u.seat /\ w.name = u.name /\ (w.linked => u.linked)
    BY <1>2
  <2>3. t = u
    BY <1>4, <2>1, <2>2, ZenonT(30), SMTT(30) DEF Sound
  <2> QED
    BY <1>3, <2>1, <2>2, <2>3
<1>5. \A v \in new : v.seat < next
  BY <1>2 DEF Sound
<1> QED
  BY <1>1, <1>3, <1>4, <1>5 DEF Sound

(* What a thread looks like after an operation changed one field of it. *)
LEMMA Fields ==
  ASSUME NEW t \in Thread
  PROVE  /\ \A cause \in {"no", "pause", "sleep", "stop"} :
              [t EXCEPT !.paused = cause] \in {u \in Thread : u.seat = t.seat /\ u.name = t.name /\ u.linked = t.linked}
         /\ \A b \in BOOLEAN, s \in States \cup {None} :
              [t EXCEPT !.detached = b, !.state = s] \in {u \in Thread : u.seat = t.seat /\ u.name = t.name /\ u.linked = t.linked}
         /\ \A b \in BOOLEAN :
              [t EXCEPT !.detached = b] \in {u \in Thread : u.seat = t.seat /\ u.name = t.name /\ u.linked = t.linked}
         /\ [t EXCEPT !.complete = TRUE] \in {u \in Thread : u.seat = t.seat /\ u.name = t.name /\ u.linked = t.linked}
         /\ [t EXCEPT !.linked = FALSE] \in {u \in Thread : u.seat = t.seat /\ u.name = t.name /\ ~u.linked}
         /\ [t EXCEPT !.linked = TRUE] \in {u \in Thread : u.seat = t.seat /\ u.name = t.name /\ u.linked}
BY ZenonT(60) DEF Thread

(* The threads a command finds are threads of the entity. *)
LEMMA FoundAreThreads ==
  /\ \A n, check_linked : Found(n, check_linked) \subseteq threads
  /\ \A names, check_linked : FoundIn(names, check_linked) \subseteq threads
BY DEF Found, FoundIn, Matching

(* If no linked thread of a name is found, there is none: the linked ones  *)
(* are one at most, so the first of them is found.                         *)
LEMMA LinkedAreFound ==
  ASSUME NEW next, Sound(threads, next), NEW u \in threads, u.linked, u.name \in Names
  PROVE  u \in Found(u.name, TRUE)
<1>1. u.name # None
  BY NamesAssumption, NoneAssumption
<1>2. u \in Matching(u.name, TRUE)
  BY <1>1 DEF Matching
<1>3. \A v \in Matching(u.name, TRUE) : v = u
  BY DEF Matching, Sound
<1>4. u.seat <= u.seat
  BY DEF Sound, Thread, Seats
<1> QED
  BY <1>2, <1>3, <1>4 DEF Found

(* Pausing, resuming and stopping. *)
LEMMA SuspendedSound ==
  ASSUME NEW next, Sound(threads, next), NEW set \in SUBSET threads,
         NEW cause \in {"no", "pause", "sleep", "stop"}
  PROVE  Sound((threads \ set) \cup {[t EXCEPT !.paused = cause] : t \in set}, next)
<1> DEFINE f == [t \in set |-> [t EXCEPT !.paused = cause]]
<1>1. ASSUME NEW t \in set
      PROVE  /\ [t EXCEPT !.paused = cause] \in Thread
             /\ [t EXCEPT !.paused = cause].seat = t.seat
             /\ [t EXCEPT !.paused = cause].name = t.name
             /\ [t EXCEPT !.paused = cause].linked = t.linked
  <2>1. t \in Thread
    BY DEF Sound
  <2> QED
    BY <2>1 DEF Thread
<1>2. /\ f \in [set -> Thread]
      /\ \A t \in set : f[t].seat = t.seat /\ f[t].name = t.name /\ (f[t].linked => t.linked)
  BY <1>1
<1>3. {f[t] : t \in set} = {[t EXCEPT !.paused = cause] : t \in set}
  OBVIOUS
<1> HIDE DEF f
<1>4. Sound((threads \ set) \cup {f[t] : t \in set}, next)
  BY <1>2, Altered
<1> QED
  BY <1>3, <1>4

LEMMA PausingSound ==
  ASSUME NEW next, Sound(threads, next), NEW set \in SUBSET threads,
         NEW cause \in {"no", "pause", "sleep", "stop"}
  PROVE  Sound(Pausing(set, cause), next) /\ Sound(Resuming(set), next)
<1>1. Pausing(set, cause) = (threads \ set) \cup {[t EXCEPT !.paused = cause] : t \in set}
  BY DEF Pausing, Change
<1>2. Resuming(set) = (threads \ set) \cup {[t EXCEPT !.paused = "no"] : t \in set}
  BY DEF Resuming, Change
<1>3. Sound((threads \ set) \cup {[t EXCEPT !.paused = cause] : t \in set}, next)
  BY SuspendedSound
<1>4. Sound((threads \ set) \cup {[t EXCEPT !.paused = "no"] : t \in set}, next)
  BY SuspendedSound
<1> QED
  BY <1>1, <1>2, <1>3, <1>4

LEMMA StoppedSound ==
  ASSUME NEW next, Sound(threads, next), NEW set \in SUBSET threads
  PROVE  Sound(Stopped(set), next)
<1> DEFINE staying == {u \in set : u.detached}
           others == threads \ (set \ staying)
           f == [t \in staying |-> [t EXCEPT !.linked = FALSE]]
<1>1. Sound(others, next)
  BY Fewer
<1>2. /\ f \in [staying -> Thread]
      /\ \A t \in staying : f[t].seat = t.seat /\ f[t].name = t.name /\ (f[t].linked => t.linked)
  BY Fields DEF Sound
<1>3. {f[t] : t \in staying} = {[t EXCEPT !.linked = FALSE] : t \in staying}
  OBVIOUS
<1>4. others \ staying = threads \ set /\ staying \in SUBSET others
  OBVIOUS
<1>5. Stopped(set) = (threads \ set) \cup {[t EXCEPT !.linked = FALSE] : t \in staying}
  BY DEF Stopped
<1> HIDE DEF f, others, staying
<1>6. Sound((others \ staying) \cup {f[t] : t \in staying}, next)
  BY <1>1, <1>2, <1>4, Altered
<1> QED
  BY <1>3, <1>4, <1>5, <1>6, SMTT(30), ZenonT(60)

(* The commands that change flags: attach, detach, unlink. *)
LEMMA AttachedSound ==
  ASSUME NEW next, Sound(threads, next), NEW set \in SUBSET threads, NEW state \in States \cup {None}
  PROVE  Sound(Change(set, LAMBDA t :
           [t EXCEPT !.detached = FALSE, !.state = IF state = None THEN @ ELSE state]), next)
<1> DEFINE f == [t \in set |-> [t EXCEPT !.detached = FALSE, !.state = IF state = None THEN @ ELSE state]]
<1>1. ASSUME NEW t \in set
      PROVE  /\ f[t] \in Thread
             /\ f[t].seat = t.seat /\ f[t].name = t.name /\ (f[t].linked => t.linked)
  <2>1. t \in Thread
    BY DEF Sound
  <2>2. (IF state = None THEN t.state ELSE state) \in States \cup {None}
    BY <2>1 DEF Thread
  <2>3. [t EXCEPT !.detached = FALSE, !.state = IF state = None THEN @ ELSE state]
        = [t EXCEPT !.detached = FALSE, !.state = IF state = None THEN t.state ELSE state]
    BY <2>1 DEF Thread
  <2>4. f[t] = [t EXCEPT !.detached = FALSE, !.state = IF state = None THEN @ ELSE state]
    BY SMTT(30), ZenonT(60)
  <2> HIDE DEF f
  <2> QED
    BY <2>1, <2>2, <2>3, <2>4, ZenonT(30), SMTT(30) DEF Thread
<1>2. f \in [set -> Thread]
  BY <1>1
<1>3. Change(set, LAMBDA t :
        [t EXCEPT !.detached = FALSE, !.state = IF state = None THEN @ ELSE state])
      = (threads \ set) \cup {f[t] : t \in set}
  BY DEF Change
<1> HIDE DEF f
<1> QED
  BY <1>1, <1>2, <1>3, Altered

LEMMA DetachedSound ==
  ASSUME NEW next, Sound(threads, next), NEW set \in SUBSET threads
  PROVE  /\ Sound(Change(set, LAMBDA t : [t EXCEPT !.detached = TRUE]), next)
         /\ Sound(Change(set, LAMBDA t : [t EXCEPT !.linked = FALSE]), next)
<1> DEFINE f == [t \in set |-> [t EXCEPT !.detached = TRUE]]
           g == [t \in set |-> [t EXCEPT !.linked = FALSE]]
<1>1. /\ f \in [set -> Thread]
      /\ \A t \in set : f[t].seat = t.seat /\ f[t].name = t.name /\ (f[t].linked => t.linked)
  BY Fields, ZenonT(60) DEF Sound
<1>2. /\ g \in [set -> Thread]
      /\ \A t \in set : g[t].seat = t.seat /\ g[t].name = t.name /\ (g[t].linked => t.linked)
  BY Fields DEF Sound
<1>3. Change(set, LAMBDA t : [t EXCEPT !.detached = TRUE]) = (threads \ set) \cup {f[t] : t \in set}
  BY DEF Change
<1>4. Change(set, LAMBDA t : [t EXCEPT !.linked = FALSE]) = (threads \ set) \cup {g[t] : t \in set}
  BY DEF Change
<1> HIDE DEF f, g
<1> QED
  BY <1>1, <1>2, <1>3, <1>4, Altered, SMTT(60)

(* A step leaves what its instruction leaves, or completes its thread. *)
LEMMA StepSound ==
  ASSUME NEW t \in threads, NEW set, Sound(set, nextSeat), Step(t, set)
  PROVE  Sound(threads', nextSeat')
<1>1. nextSeat' = nextSeat
  BY DEF Step
<1>2. CASE threads' = set
  BY <1>1, <1>2
<1>3. ASSUME NEW u \in set, threads' = (set \ {u}) \cup {[u EXCEPT !.complete = TRUE]}
      PROVE  Sound(threads', nextSeat')
  <2> DEFINE f == [v \in {u} |-> [v EXCEPT !.complete = TRUE]]
  <2>1. /\ f \in [{u} -> Thread]
        /\ \A v \in {u} : f[v].seat = v.seat /\ f[v].name = v.name /\ (f[v].linked => v.linked)
    <3>1. u \in Thread
      BY DEF Sound
    <3> QED
      BY <3>1 DEF Thread
  <2>2. {f[v] : v \in {u}} = {[u EXCEPT !.complete = TRUE]}
    OBVIOUS
  <2> HIDE DEF f
  <2>3. Sound((set \ {u}) \cup {f[v] : v \in {u}}, nextSeat)
    BY <2>1, Altered
  <2> QED
    BY <1>1, <1>3, <2>2, <2>3
<1> QED
  BY <1>2, <1>3 DEF Step

(* A thread is linked only when no other linked thread has its name. *)
LEMMA LinkingSound ==
  ASSUME NEW next, Sound(threads, next), NEW t \in threads,
         t.name \in Names => Found(t.name, TRUE) \subseteq {t}
  PROVE  Sound(Linking(t), next)
<1> DEFINE linked == [t EXCEPT !.linked = TRUE]
           new == (threads \ {t}) \cup {linked}
<1>1. Linking(t) = new
  BY SMTT(30), ZenonT(60) DEF Linking, Change
<1>2. linked \in Thread /\ linked.seat = t.seat /\ linked.name = t.name
  BY Fields DEF Sound
<1>3. ASSUME NEW u \in threads, u.linked, u.name = t.name, t.name \in Names
      PROVE  u = t
  BY <1>3, LinkedAreFound
<1> HIDE DEF linked
<1>4. new \subseteq Thread /\ \A u \in new : u.seat < next
  BY <1>2 DEF Sound
<1>5. \A u, v \in new : u.seat = v.seat => u = v
  BY <1>2 DEF Sound
<1>6. \A u, v \in new : u.linked /\ v.linked /\ u.name = v.name /\ u.name \in Names => u = v
  BY <1>2, <1>3 DEF Sound
<1> QED
  BY <1>1, <1>4, <1>5, <1>6 DEF Sound

(* How many elements of a set of numbers are below one of them. *)
LEMMA Ranks ==
  ASSUME NEW S \in SUBSET Nat, IsFiniteSet(S)
  PROVE  /\ Cardinality(S) \in Nat
         /\ \A n \in S : /\ Cardinality({m \in S : m < n}) \in Nat
                         /\ Cardinality({m \in S : m < n}) < Cardinality(S)
         /\ \A n, k \in S : n < k => Cardinality({m \in S : m < n}) < Cardinality({m \in S : m < k})
<1>1. \A T \in SUBSET S : IsFiniteSet(T) /\ Cardinality(T) \in Nat
  BY FS_Subset, FS_CardinalityType
<1>2. ASSUME NEW T \in SUBSET S, NEW U \in SUBSET T, NEW x \in T, x \notin U
      PROVE  Cardinality(U) < Cardinality(T)
  <2>1. Cardinality(U) <= Cardinality(T) /\ (Cardinality(T) = Cardinality(U) => T = U)
    BY <1>1, FS_Subset
  <2>2. T # U /\ Cardinality(U) \in Nat /\ Cardinality(T) \in Nat
    BY <1>1, <1>2
  <2> QED
    BY <2>1, <2>2
<1>3. \A n \in S : Cardinality({m \in S : m < n}) < Cardinality(S)
  <2> TAKE n \in S
  <2>1. {m \in S : m < n} \in SUBSET S /\ n \notin {m \in S : m < n} /\ S \in SUBSET S
    OBVIOUS
  <2> QED
    BY <1>2, <2>1
<1>4. \A n, k \in S : n < k => Cardinality({m \in S : m < n}) < Cardinality({m \in S : m < k})
  <2> SUFFICES ASSUME NEW n \in S, NEW k \in S, n < k
               PROVE  Cardinality({m \in S : m < n}) < Cardinality({m \in S : m < k})
    OBVIOUS
  <2>1. /\ {m \in S : m < k} \in SUBSET S
        /\ {m \in S : m < n} \in SUBSET {m \in S : m < k}
        /\ n \in {m \in S : m < k}
        /\ n \notin {m \in S : m < n}
    <3>1. n \in Nat /\ k \in Nat /\ \A m \in S : m \in Nat /\ (m < n => m < k)
      OBVIOUS
    <3>2. {m \in S : m < n} \subseteq {m \in S : m < k}
      BY <3>1
    <3> QED
      BY <3>1, <3>2
  <2> QED
    BY <1>2, <2>1
<1>5. \A n \in S : Cardinality({m \in S : m < n}) \in Nat
  BY <1>1
<1>6. Cardinality(S) \in Nat
  BY <1>1
<1> QED
  BY <1>3, <1>4, <1>5, <1>6

(* New threads take the next seats, in the order of their names. *)
LEMMA StartedSound ==
  ASSUME NEW old, nextSeat \in Nat \ {0}, Sound(old, nextSeat),
         NEW new \in SUBSET Names,
         NEW parent \in Parents \cup {None}, NEW state \in States \cup {None},
         new # {} => nextSeat + Cardinality(new) - 1 \in Seats,
         \A u \in old : u.linked => u.name \notin new
  PROVE  /\ Cardinality(new) \in Nat
         /\ Sound(old \cup {Fresh(nextSeat + Cardinality({m \in new : m < n}), n, parent, state) : n \in new},
                  nextSeat + Cardinality(new))
<1> DEFINE rank(n) == Cardinality({m \in new : m < n})
           started == {Fresh(nextSeat + rank(n), n, parent, state) : n \in new}
<1>1. /\ Cardinality(new) \in Nat
      /\ \A n \in new : rank(n) \in Nat /\ rank(n) < Cardinality(new)
      /\ \A n, k \in new : n < k => rank(n) < rank(k)
  <2>1. IsFiniteSet(new) /\ new \in SUBSET Nat
    BY NamesAssumption, FS_Subset
  <2> QED
    BY <2>1, Ranks
<1> HIDE DEF rank
<1>2. ASSUME NEW u \in started
      PROVE  \E n \in new : /\ u = Fresh(nextSeat + rank(n), n, parent, state)
                            /\ u \in Thread
                            /\ u.seat = nextSeat + rank(n)
                            /\ u.name = n
  <2>1. PICK n \in new : u = Fresh(nextSeat + rank(n), n, parent, state)
    OBVIOUS
  <2>2. nextSeat + rank(n) \in Seats
    BY <1>1, BoundsAssumption DEF Seats
  <2> QED
    BY <2>1, <2>2 DEF Fresh, Thread
<1> HIDE DEF started
<1>3. \A u \in started : u \in Thread /\ u.seat >= nextSeat /\ u.seat < nextSeat + Cardinality(new) /\ u.name \in new
  <2> TAKE u \in started
  <2>1. PICK n \in new : u \in Thread /\ u.seat = nextSeat + rank(n) /\ u.name = n
    BY <1>2
  <2> QED
    BY <1>1, <2>1
<1>4. ASSUME NEW u \in started, NEW v \in started, u.seat = v.seat \/ u.name = v.name
      PROVE  u = v
  <2>1. PICK n \in new : u = Fresh(nextSeat + rank(n), n, parent, state) /\ u.seat = nextSeat + rank(n) /\ u.name = n
    BY <1>2
  <2>2. PICK k \in new : v = Fresh(nextSeat + rank(k), k, parent, state) /\ v.seat = nextSeat + rank(k) /\ v.name = k
    BY <1>2
  <2>3. n \in Nat /\ k \in Nat /\ rank(n) \in Nat /\ rank(k) \in Nat
    BY <1>1, NamesAssumption
  <2>4. n = k
    BY <1>1, <1>4, <2>1, <2>2, <2>3
  <2> QED
    BY <2>1, <2>2, <2>4
<1>5. \A u \in old : u \in Thread /\ u.seat \in Nat /\ u.seat < nextSeat
  BY DEF Sound, Thread, Seats
<1>6. \A u \in started : u.seat \in Nat
  BY <1>3 DEF Thread, Seats
<1>7. old \cup started \subseteq Thread
  BY <1>3, <1>5
<1>8. \A u \in old \cup started : u.seat < nextSeat + Cardinality(new)
  BY <1>1, <1>3, <1>5
<1>9. \A u, v \in old \cup started : u.seat = v.seat => u = v
  <2>1. \A u, v \in old : u.seat = v.seat => u = v
    BY DEF Sound
  <2>2. \A u \in old, v \in started : u.seat < v.seat
    BY <1>3, <1>5, <1>6
  <2> QED
    BY <1>4, <1>5, <1>6, <2>1, <2>2
<1>10. \A u, v \in old \cup started : u.linked /\ v.linked /\ u.name = v.name /\ u.name \in Names => u = v
  <2>1. \A u, v \in old : u.linked /\ v.linked /\ u.name = v.name /\ u.name \in Names => u = v
    BY DEF Sound
  <2>2. \A u \in old, v \in started : u.linked => u.name # v.name
    BY <1>3
  <2> QED
    BY <1>4, <2>1, <2>2
<1>11. Sound(old \cup started, nextSeat + Cardinality(new))
  BY <1>7, <1>8, <1>9, <1>10 DEF Sound
<1> QED
  BY <1>1, <1>11 DEF started, rank

(* start_threads restarts the linked threads of the names, or refuses them,*)
(* and starts a thread for each of the other names.                        *)
LEMMA SpawnSound ==
  ASSUME Sound(threads, nextSeat), nextSeat \in Nat \ {0},
         NEW names \in SUBSET Names,
         NEW parent \in Parents \cup {None}, NEW state \in States \cup {None},
         NEW restart \in BOOLEAN, Spawn(names, parent, state, restart)
  PROVE  /\ Sound(threads', nextSeat')
         /\ nextSeat' \in Nat
         /\ nextSeat' = nextSeat \/ nextSeat' - 1 \in Seats
<1> DEFINE new == {n \in names : Found(n, TRUE) = {}}
           again == IF restart THEN FoundIn(names, TRUE) ELSE {}
           f == [t \in again |-> Fresh(t.seat, t.name, parent, state)]
           old == (threads \ again) \cup {f[t] : t \in again}
           started == {Fresh(nextSeat + Cardinality({m \in new : m < n}), n, parent, state) : n \in new}
<1>1. ASSUME NEW t \in again
      PROVE  t \in threads /\ t.linked
  BY DEF FoundIn, Found, Matching
<1>2. /\ f \in [again -> Thread]
      /\ \A t \in again : f[t].seat = t.seat /\ f[t].name = t.name
  <2>1. ASSUME NEW t \in again
        PROVE  /\ Fresh(t.seat, t.name, parent, state) \in Thread
               /\ Fresh(t.seat, t.name, parent, state).seat = t.seat
               /\ Fresh(t.seat, t.name, parent, state).name = t.name
    <3>1. t.seat \in Seats /\ t.name \in Names \cup {None}
      <4>1. t \in threads
        BY <1>1
      <4> HIDE DEF again
      <4> QED
        BY <4>1 DEF Sound, Thread
    <3> QED
      BY <3>1 DEF Fresh, Thread
  <2> QED
    BY <2>1
<1>3. threads' = old \cup started
  <2>1. Change(again, LAMBDA t : Fresh(t.seat, t.name, parent, state)) = old
    BY DEF Change
  <2> QED
    BY <2>1 DEF Spawn
<1>4. /\ nextSeat' = nextSeat + Cardinality(new)
      /\ new # {} => nextSeat + Cardinality(new) - 1 \in Seats
  BY DEF Spawn
<1>5. Sound(old, nextSeat)
  <2>1. again \in SUBSET threads
    BY <1>1
  <2> HIDE DEF again, f
  <2> QED
    BY <1>1, <1>2, <2>1, Altered
<1>6. ASSUME NEW u \in old, u.linked
      PROVE  u.name \notin new
  <2>1. PICK t \in threads : t.linked /\ t.name = u.name
    <3>1. CASE u \in threads
      BY <1>6, <3>1
    <3>2. ASSUME NEW t \in again, u = f[t]
          PROVE  \E v \in threads : v.linked /\ v.name = u.name
      <4>1. t \in threads /\ t.linked
        BY <1>1
      <4>2. u.name = t.name
        BY <1>2, <3>2
      <4> HIDE DEF again, f
      <4> QED
        BY <4>1, <4>2
    <3>3. u \in threads \/ \E t \in again : u = f[t]
      OBVIOUS
    <3> HIDE DEF again, f, old
    <3> QED
      BY <3>1, <3>2, <3>3
  <2>2. t.name \in Names => t \in Found(t.name, TRUE)
    BY <2>1, LinkedAreFound
  <2> QED
    BY <2>1, <2>2
<1>7. new \in SUBSET Names
  OBVIOUS
<1> HIDE DEF new, old
<1>8. Cardinality(new) \in Nat /\ Sound(old \cup started, nextSeat + Cardinality(new))
  BY <1>4, <1>5, <1>6, <1>7, StartedSound
<1>9. new = {} => Cardinality(new) = 0
  BY FS_EmptySet
<1> HIDE DEF started
<1> QED
  BY <1>3, <1>4, <1>8, <1>9

LEMMA SpawnFiberSound ==
  ASSUME Sound(threads, nextSeat), nextSeat \in Nat \ {0},
         NEW parent \in Parents \cup {None}, NEW state \in States \cup {None},
         NEW detached \in BOOLEAN, SpawnFiber(parent, state, detached)
  PROVE  Sound(threads', nextSeat') /\ nextSeat' \in Nat /\ nextSeat' - 1 \in Seats
<1> DEFINE fiber == [Fresh(nextSeat, None, parent, state) EXCEPT !.detached = detached]
<1>1. nextSeat \in Seats /\ threads' = threads \cup {fiber} /\ nextSeat' = nextSeat + 1
  BY DEF SpawnFiber
<1>2. fiber \in Thread /\ fiber.seat = nextSeat /\ fiber.name = None
  BY <1>1 DEF Fresh, Thread
<1>3. None \notin Names
  BY NamesAssumption, NoneAssumption
<1>4. \A t \in threads : t \in Thread /\ t.seat \in Nat /\ t.seat < nextSeat
  BY DEF Sound, Thread, Seats
<1> HIDE DEF fiber
<1>5. threads' \subseteq Thread /\ \A t \in threads' : t.seat < nextSeat + 1
  BY <1>1, <1>2, <1>4
<1>6. \A t, u \in threads' : t.seat = u.seat => t = u
  BY <1>1, <1>2, <1>4 DEF Sound
<1>7. \A t, u \in threads' : t.linked /\ u.linked /\ t.name = u.name /\ t.name \in Names => t = u
  BY <1>1, <1>2, <1>3 DEF Sound
<1> QED
  BY <1>1, <1>5, <1>6, <1>7 DEF Sound
-----------------------------------------------------------------------------
(* The inductive invariant: sound threads, and the types of the rest. *)
Rest ==
  /\ nextSeat \in 1 .. MaxThreads + 1
  /\ turn \in 0 .. MaxThreads \/ turn = None
  /\ timers \subseteq [name : Names, check_linked : Checks, by : Seats]
  /\ stops \subseteq [name : Names, check_linked : Checks]
  /\ updated \in BOOLEAN

Inductive == Sound(threads, nextSeat) /\ Rest

LEMMA InductiveIsEnough == Inductive => TypeOK /\ LinkedOnce
BY DEF Inductive, Sound, Rest, TypeOK, LinkedOnce

LEMMA NextOfSeat ==
  ASSUME NEW next \in Nat, next - 1 \in Seats
  PROVE  next \in 1 .. MaxThreads + 1
BY BoundsAssumption DEF Seats

LEMMA CommandsKeepIt == Inductive /\ Command => Inductive'
<1> SUFFICES ASSUME Inductive, Command PROVE Inductive'
  OBVIOUS
<1>1. Sound(threads, nextSeat) /\ nextSeat \in Nat \ {0}
  BY BoundsAssumption DEF Inductive, Rest
<1>2. \A names \in Targets : names \in SUBSET Names
  BY DEF Targets
<1>3. ASSUME Sound(threads', nextSeat), UNCHANGED <<nextSeat, turn, timers, stops, updated>>
      PROVE  Inductive'
  BY <1>3 DEF Inductive, Rest
<1>4. ASSUME NEW set \in SUBSET threads
      PROVE  Sound(Stopped(set), nextSeat)
  BY <1>1, StoppedSound
<1>5. ASSUME NEW parent \in Parents \cup {None}, NEW state \in States \cup {None},
             NEW names \in Targets, NEW restart \in BOOLEAN, Spawn(names, parent, state, restart)
      PROVE  Inductive'
  <2>1. /\ Sound(threads', nextSeat')
        /\ nextSeat' \in Nat
        /\ nextSeat' = nextSeat \/ nextSeat' - 1 \in Seats
    BY <1>1, <1>2, <1>5, SpawnSound
  <2>2. nextSeat' \in 1 .. MaxThreads + 1
    <3>1. nextSeat \in 1 .. MaxThreads + 1
      BY DEF Inductive, Rest
    <3> QED
      BY <2>1, <3>1, NextOfSeat
  <2>3. UNCHANGED <<turn, timers, stops, updated>>
    BY <1>5 DEF Spawn
  <2> QED
    BY <2>1, <2>2, <2>3 DEF Inductive, Rest
<1>6. ASSUME NEW parent \in Parents \cup {None}, NEW state \in States \cup {None},
             NEW detached \in BOOLEAN, SpawnFiber(parent, state, detached)
      PROVE  Inductive'
  <2>1. Sound(threads', nextSeat') /\ nextSeat' \in Nat /\ nextSeat' - 1 \in Seats
    BY <1>1, <1>6, SpawnFiberSound
  <2>2. nextSeat' \in 1 .. MaxThreads + 1
    BY <2>1, NextOfSeat
  <2>3. UNCHANGED <<turn, timers, stops>>
    BY <1>6 DEF SpawnFiber
  <2>4. updated' \in BOOLEAN
    BY <1>6 DEF SpawnFiber
  <2> QED
    BY <2>1, <2>2, <2>3, <2>4 DEF Inductive, Rest
<1>7. ASSUME NEW names \in Targets, NEW check_linked \in Checks, Stop(names, check_linked)
      PROVE  Inductive'
  BY <1>3, <1>4, <1>7, FoundAreThreads DEF Stop
<1>8. ASSUME NEW names \in Targets, NEW check_linked \in Checks,
             Pause(names, check_linked) \/ Resume(names, check_linked)
      PROVE  Inductive'
  <2>1. FoundIn(names, check_linked) \in SUBSET threads
    BY FoundAreThreads
  <2>2. /\ Sound(Pausing(FoundIn(names, check_linked), "pause"), nextSeat)
        /\ Sound(Resuming(FoundIn(names, check_linked)), nextSeat)
    BY <1>1, <2>1, PausingSound
  <2> QED
    BY <1>3, <1>8, <2>2 DEF Pause, Resume
<1>9. ASSUME NEW names \in Targets, NEW check_linked \in Checks, Detach(names, check_linked)
      PROVE  Inductive'
  <2>1. FoundIn(names, check_linked) \in SUBSET threads
    BY FoundAreThreads
  <2>2. Sound(threads', nextSeat)
    BY <1>1, <1>9, <2>1, DetachedSound DEF Detach
  <2> QED
    BY <1>3, <1>9, <2>2 DEF Detach
<1>10. ASSUME NEW names \in Targets, NEW check_linked \in Checks, NEW state \in States \cup {None},
              Attach(names, state, check_linked)
       PROVE  Inductive'
  <2>1. FoundIn(names, check_linked) \in SUBSET threads
    BY FoundAreThreads
  <2>2. Sound(threads', nextSeat)
    BY <1>1, <1>10, <2>1, AttachedSound DEF Attach
  <2> QED
    BY <1>3, <1>10, <2>2 DEF Attach
<1>11. ASSUME NEW names \in Targets, Unlink(names)
       PROVE  Inductive'
  <2>1. FoundIn(names, TRUE) \in SUBSET threads
    BY FoundAreThreads
  <2>2. Sound(threads', nextSeat)
    BY <1>1, <1>11, <2>1, DetachedSound DEF Unlink
  <2> QED
    BY <1>3, <1>11, <2>2 DEF Unlink
<1>12. ASSUME NEW s \in States, StopState(s)
       PROVE  Inductive'
  BY <1>3, <1>4, <1>12 DEF StopState
<1>13. CASE StopAll
  BY <1>3, <1>4, <1>13 DEF StopAll
<1> QED
  BY <1>5, <1>6, <1>7, <1>8, <1>9, <1>10, <1>11, <1>12, <1>13 DEF Command

LEMMA QueuedKeepIt == Inductive /\ Queued => Inductive'
<1> SUFFICES ASSUME Inductive, Queued PROVE Inductive'
  OBVIOUS
<1>1. Sound(threads, nextSeat)
  BY DEF Inductive
<1>2. ASSUME NEW timer \in timers, TimerFires(timer)
      PROVE  Inductive'
  <2>1. Sound(Resuming(Found(timer.name, timer.check_linked)), nextSeat)
    BY <1>1, FoundAreThreads, PausingSound
  <2> QED
    BY <1>2, <2>1 DEF TimerFires, Inductive, Rest
<1>3. ASSUME NEW stop \in stops, QueuedStop(stop)
      PROVE  Inductive'
  <2>1. Sound(Stopped(Found(stop.name, stop.check_linked)), nextSeat)
    BY <1>1, FoundAreThreads, StoppedSound
  <2> QED
    BY <1>3, <2>1 DEF QueuedStop, Inductive, Rest
<1>4. CASE EraseCompleted
  <2>1. threads' \in SUBSET threads /\ UNCHANGED <<nextSeat, turn, timers, stops>>
    BY <1>4 DEF EraseCompleted
  <2>2. updated' \in BOOLEAN
    BY <1>4 DEF EraseCompleted
  <2>3. Sound(threads', nextSeat)
    BY <1>1, <2>1, Fewer
  <2> QED
    BY <2>1, <2>2, <2>3 DEF Inductive, Rest
<1> QED
  BY <1>2, <1>3, <1>4 DEF Queued

LEMMA InstructionsKeepIt == Inductive /\ Instruction => Inductive'
<1> SUFFICES ASSUME Inductive, NEW t \in threads,
                    \/ StepPlain(t) \/ StepLink(t)
                    \/ \E check_linked \in Checks :
                         \/ StepStop(t, check_linked)
                         \/ \E name \in Names \cup {t.name} :
                              \/ StepSleep(t, name, check_linked)
                              \/ StepPause(t, name, check_linked)
                              \/ StepResume(t, name, check_linked)
             PROVE  Inductive'
  BY DEF Instruction
<1>1. Sound(threads, nextSeat) /\ t \in Thread
  BY DEF Inductive, Sound
<1>2. ASSUME NEW set, Sound(set, nextSeat), Step(t, set),
             timers' \subseteq [name : Names, check_linked : Checks, by : Seats],
             stops' \subseteq [name : Names, check_linked : Checks]
      PROVE  Inductive'
  <2>1. Sound(threads', nextSeat')
    BY <1>2, StepSound
  <2>2. nextSeat' = nextSeat /\ turn' = t.seat
    BY <1>2 DEF Step
  <2>3. updated' \in BOOLEAN
    BY <1>2 DEF Step
  <2>4. turn' \in 0 .. MaxThreads
    BY <1>1, <2>2, BoundsAssumption DEF Thread, Seats
  <2> QED
    BY <1>2, <2>1, <2>2, <2>3, <2>4 DEF Inductive, Rest
<1>3. /\ timers \subseteq [name : Names, check_linked : Checks, by : Seats]
      /\ stops \subseteq [name : Names, check_linked : Checks]
  BY DEF Inductive, Rest
<1>4. ASSUME NEW name, NEW check_linked, NEW cause \in {"no", "pause", "sleep", "stop"}
      PROVE  /\ Sound(Pausing(Found(name, check_linked), cause), nextSeat)
             /\ Sound(Resuming(Found(name, check_linked)), nextSeat)
  BY <1>1, FoundAreThreads, PausingSound
<1>5. CASE StepPlain(t)
  BY <1>1, <1>2, <1>3, <1>5 DEF StepPlain
<1>6. CASE StepLink(t)
  BY <1>1, <1>2, <1>3, <1>6, LinkingSound DEF StepLink
<1>7. ASSUME NEW check_linked \in Checks, StepStop(t, check_linked)
      PROVE  Inductive'
  <2>1. Sound(Pausing({t}, "stop"), nextSeat)
    BY <1>1, PausingSound
  <2>2. t.name \in Names
    BY <1>1, <1>7 DEF StepStop, Thread
  <2> QED
    BY <1>2, <1>3, <1>7, <2>1, <2>2 DEF StepStop
<1>8. ASSUME NEW check_linked \in Checks, NEW name \in Names \cup {t.name}, StepSleep(t, name, check_linked)
      PROVE  Inductive'
  <2>1. t.seat \in Seats /\ t.name \in Names \cup {None}
    BY <1>1 DEF Thread
  <2>2. timers' \subseteq [name : Names, check_linked : Checks, by : Seats]
    BY <1>3, <1>8, <2>1 DEF StepSleep
  <2> QED
    BY <1>2, <1>3, <1>4, <1>8, <2>2 DEF StepSleep
<1>9. ASSUME NEW check_linked \in Checks, NEW name \in Names \cup {t.name},
             StepPause(t, name, check_linked) \/ StepResume(t, name, check_linked)
      PROVE  Inductive'
  BY <1>2, <1>3, <1>4, <1>9 DEF StepPause, StepResume
<1> QED
  BY <1>5, <1>6, <1>7, <1>8, <1>9

LEMMA AlwaysInductive == Spec => []Inductive
<1>1. Init => Inductive
  <2> SUFFICES ASSUME Init PROVE Inductive
    OBVIOUS
  <2>1. updated \in BOOLEAN
    BY DEF Init
  <2> QED
    BY <2>1, BoundsAssumption DEF Init, Inductive, Rest, Sound
<1>2. Inductive /\ [Next]_vars => Inductive'
  <2> SUFFICES ASSUME Inductive, [Next]_vars PROVE Inductive'
    OBVIOUS
  <2>1. CASE BeginProgress \/ EndProgress
    BY <2>1, BoundsAssumption DEF BeginProgress, EndProgress, Inductive, Rest
  <2>2. CASE UNCHANGED vars
    BY <2>2 DEF vars, Inductive, Rest
  <2> QED
    BY <2>1, <2>2, CommandsKeepIt, QueuedKeepIt, InstructionsKeepIt DEF Next, Progress
<1> QED
  BY <1>1, <1>2, PTL DEF Spec

(* Types; every thread keeps a seat of its own, below the next one, through*)
(* all commands, steps and erasures.                                       *)
THEOREM TypeCorrect == Spec => []TypeOK
BY AlwaysInductive, InductiveIsEnough, PTL

(* entity_thread_flags.hpp:24: for any number of threads and names, and    *)
(* however they are started, unlinked, detached, stopped and linked again, *)
(* no two linked threads have one name.                                    *)
THEOREM OneLinkedInstance == Spec => []LinkedOnce
BY AlwaysInductive, InductiveIsEnough, PTL
-----------------------------------------------------------------------------
(* Which threads a step leaves: the seats that are taken. *)

Taken(set) == {t.seat : t \in set}

LEMMA ReplacedSeats ==
  ASSUME NEW old, NEW set \in SUBSET old, NEW f \in [set -> Thread], \A t \in set : f[t].seat = t.seat
  PROVE  Taken((old \ set) \cup {f[t] : t \in set}) = Taken(old)
<1> DEFINE new == (old \ set) \cup {f[t] : t \in set}
<1>1. \A v \in new : \E t \in old : v.seat = t.seat
  OBVIOUS
<1>2. \A t \in old : \E v \in new : v.seat = t.seat
  OBVIOUS
<1> QED
  BY <1>1, <1>2 DEF Taken

LEMMA PausingSeats ==
  ASSUME threads \subseteq Thread, NEW set \in SUBSET threads, NEW cause \in {"no", "pause", "sleep", "stop"}
  PROVE  Taken(Pausing(set, cause)) = Taken(threads) /\ Taken(Resuming(set)) = Taken(threads)
<1>1. ASSUME NEW c \in {"no", "pause", "sleep", "stop"}
      PROVE  Taken((threads \ set) \cup {[t EXCEPT !.paused = c] : t \in set}) = Taken(threads)
  <2> DEFINE f == [t \in set |-> [t EXCEPT !.paused = c]]
  <2>1. ASSUME NEW t \in set
        PROVE  [t EXCEPT !.paused = c] \in Thread /\ [t EXCEPT !.paused = c].seat = t.seat
    <3>1. t \in Thread
      OBVIOUS
    <3> QED
      BY <3>1 DEF Thread
  <2>4. f \in [set -> Thread] /\ \A t \in set : f[t].seat = t.seat
    BY <2>1
  <2>2. {f[t] : t \in set} = {[t EXCEPT !.paused = c] : t \in set}
    OBVIOUS
  <2> HIDE DEF f
  <2>3. Taken((threads \ set) \cup {f[t] : t \in set}) = Taken(threads)
    BY <2>4, ReplacedSeats
  <2> QED
    BY <2>2, <2>3
<1>2. Pausing(set, cause) = (threads \ set) \cup {[t EXCEPT !.paused = cause] : t \in set}
  BY DEF Pausing, Change
<1>3. Resuming(set) = (threads \ set) \cup {[t EXCEPT !.paused = "no"] : t \in set}
  BY DEF Resuming, Change
<1> QED
  BY <1>1, <1>2, <1>3

LEMMA StepSeats ==
  ASSUME NEW t \in threads, NEW set, Taken(set) = Taken(threads), Step(t, set)
  PROVE  Taken(threads') = Taken(threads)
<1>1. CASE threads' = set
  BY <1>1
<1>2. CASE \E u \in set : threads' = (set \ {u}) \cup {[u EXCEPT !.complete = TRUE]}
  <2>1. PICK u \in set : threads' = (set \ {u}) \cup {[u EXCEPT !.complete = TRUE]}
    BY <1>2
  <2>2. [u EXCEPT !.complete = TRUE].seat = u.seat
    OBVIOUS
  <2> QED
    BY <2>1, <2>2 DEF Taken
<1> QED
  BY <1>1, <1>2 DEF Step

LEMMA InstructionSeats == ASSUME Inductive, Instruction PROVE Taken(threads') = Taken(threads)
<1>0. threads \subseteq Thread
  BY DEF Inductive, Sound
<1>1. PICK t \in threads :
        \/ StepPlain(t) \/ StepLink(t)
        \/ \E check_linked \in Checks :
             \/ StepStop(t, check_linked)
             \/ \E name \in Names \cup {t.name} :
                  \/ StepSleep(t, name, check_linked)
                  \/ StepPause(t, name, check_linked)
                  \/ StepResume(t, name, check_linked)
  BY DEF Instruction
<1>2. Taken(Linking(t)) = Taken(threads)
  <2>1. Linking(t) = (threads \ {t}) \cup {[t EXCEPT !.linked = TRUE]}
    BY DEF Linking, Change
  <2>2. [t EXCEPT !.linked = TRUE].seat = t.seat
    BY <1>0 DEF Thread
  <2> QED
    BY <2>1, <2>2 DEF Taken
<1>3. ASSUME NEW name, NEW check_linked, NEW cause \in {"no", "pause", "sleep", "stop"}
      PROVE  /\ Taken(Pausing(Found(name, check_linked), cause)) = Taken(threads)
             /\ Taken(Resuming(Found(name, check_linked))) = Taken(threads)
  BY <1>0, FoundAreThreads, PausingSeats
<1>4. Taken(Pausing({t}, "stop")) = Taken(threads)
  BY <1>0, PausingSeats
<1> QED
  BY <1>1, <1>2, <1>3, <1>4, StepSeats DEF StepPlain, StepLink, StepStop, StepSleep, StepPause, StepResume

(* Whatever an instruction does, no thread joins or leaves the vector while *)
(* progress_threads iterates it (entity_system.cpp:1511).                   *)
THEOREM SteadyVector == Spec => SteadyInProgress
<1>1. Inductive /\ [Next]_vars => [turn # None => {t.seat : t \in threads'} = {t.seat : t \in threads}]_vars
  <2> SUFFICES ASSUME Inductive, Next, turn # None PROVE Taken(threads') = Taken(threads)
    BY DEF Taken
  <2>1. ~Command /\ ~Queued /\ ~BeginProgress
    BY ZenonT(30), SMTT(30) DEF Command, Queued, BeginProgress, Handling, Spawn, SpawnFiber, Stop, StopState, StopAll, Pause,
       Resume, Attach, Detach, Unlink, TimerFires, QueuedStop, EraseCompleted
  <2>2. CASE Instruction
    BY <2>2, InstructionSeats
  <2>3. CASE EndProgress
    BY <2>3 DEF EndProgress
  <2> QED
    BY <2>1, <2>2, <2>3 DEF Next, Progress
<1> QED
  BY <1>1, AlwaysInductive, PTL DEF Spec, SteadyInProgress

(* erase_completed_threads keeps a parent for any child that it keeps, and  *)
(* of the completed threads only linked ones.                               *)
LEMMA Erasing ==
  ASSUME updated, ~updated', [Next]_vars
  PROVE  threads' = {t \in threads : Keeps(t, threads')}
<1>1. EraseCompleted
  <2>1. updated' # updated
    OBVIOUS
  <2>2. ~Command
    <3>1. \A parent, state, names, restart : ~Spawn(names, parent, state, restart)
      BY <2>1 DEF Spawn
    <3>2. \A parent, state, detached : ~SpawnFiber(parent, state, detached)
      BY DEF SpawnFiber
    <3>3. \A names, check_linked : ~Stop(names, check_linked) /\ ~Pause(names, check_linked)
      BY <2>1 DEF Stop, Pause
    <3>4. \A names, check_linked : ~Resume(names, check_linked) /\ ~Detach(names, check_linked)
      BY <2>1 DEF Resume, Detach
    <3>5. \A names, state, check_linked : ~Attach(names, state, check_linked)
      BY <2>1 DEF Attach
    <3>6. /\ \A names : ~Unlink(names)
          /\ \A s : ~StopState(s)
          /\ ~StopAll
      BY <2>1 DEF Unlink, StopState, StopAll
    <3> QED
      BY <3>1, <3>2, <3>3, <3>4, <3>5, <3>6 DEF Command
  <2>4. ~Instruction
    <3>1. \A t, set : ~Step(t, set)
      BY DEF Step
    <3> QED
      BY <3>1, ZenonT(30), SMTT(30) DEF Instruction, StepPlain, StepLink, StepStop, StepSleep, StepPause, StepResume
  <2>5. ~BeginProgress /\ ~EndProgress
    BY <2>1 DEF BeginProgress, EndProgress
  <2>3. ~UNCHANGED vars
    BY <2>1 DEF vars
  <2> QED
    BY <2>1, <2>2, <2>3, <2>4, <2>5 DEF Next, Queued, Progress, TimerFires, QueuedStop
<1> QED
  BY <1>1 DEF EraseCompleted

(* entity_thread_component.cpp:556: a linked thread is erased only if no    *)
(* thread that stays claims it as its parent, wherever remove_if has moved  *)
(* the threads meanwhile.                                                   *)
THEOREM ParentsStay == Spec => ParentsOutlive
<1>1. [Next]_vars =>
        [updated /\ ~updated' =>
           \A t \in threads : t.linked /\ t \notin threads' => \A u \in threads' : u.parent # t.name]_vars
  <2> SUFFICES ASSUME [Next]_vars, updated, ~updated',
                      NEW t \in threads, t.linked, t \notin threads', NEW u \in threads'
               PROVE  u.parent # t.name
    OBVIOUS
  <2>1. ~Keeps(t, threads') /\ u \in threads
    BY Erasing
  <2>2. ~Claimed(t, threads')
    BY <2>1 DEF Keeps
  <2> QED
    BY <2>1, <2>2 DEF Claimed, StillSeen
<1> QED
  BY <1>1, PTL DEF Spec, ParentsOutlive

(* erase_completed_threads takes every completed thread that is not linked, *)
(* and none that is not complete.                                           *)
THEOREM CompletedLeave == Spec => CompletedGo
<1>1. [Next]_vars =>
        [updated /\ ~updated' =>
           /\ \A t \in threads' : t.complete => t.linked
           /\ \A t \in threads : ~t.complete => t \in threads']_vars
  BY Erasing DEF Keeps
<1> QED
  BY <1>1, PTL DEF Spec, CompletedGo

(* The threads that must not leave are in a set, changed or not. *)
Follow(set) == \A t \in threads : t.detached /\ ~t.complete => \E u \in set : u.seat = t.seat

LEMMA SeatsFollow == ASSUME NEW set, Taken(set) = Taken(threads) PROVE Follow(set)
<1> SUFFICES ASSUME NEW t \in threads PROVE \E u \in set : u.seat = t.seat
  BY DEF Follow
<1>1. t.seat \in Taken(set)
  BY DEF Taken
<1> QED
  BY <1>1 DEF Taken

LEMMA StoppedFollow ==
  ASSUME threads \subseteq Thread, NEW set \in SUBSET threads PROVE Follow(Stopped(set))
<1> SUFFICES ASSUME NEW t \in threads, t.detached PROVE \E u \in Stopped(set) : u.seat = t.seat
  BY DEF Follow
<1>1. CASE t \notin set
  BY <1>1 DEF Stopped
<1>2. CASE t \in set
  <2>1. [t EXCEPT !.linked = FALSE] \in Stopped(set)
    BY <1>2 DEF Stopped
  <2>2. t \in Thread
    OBVIOUS
  <2>3. [t EXCEPT !.linked = FALSE].seat = t.seat
    BY <2>2 DEF Thread
  <2> QED
    BY <2>1, <2>3
<1> QED
  BY <1>1, <1>2

LEMMA CommandsFollow == ASSUME Inductive, Command \/ Queued PROVE Follow(threads')
<1>0. threads \subseteq Thread
  BY DEF Inductive, Sound
<1>1. \A names, check_linked : FoundIn(names, check_linked) \subseteq threads /\ Found(names, check_linked) \subseteq threads
  BY FoundAreThreads
<1>2. ASSUME NEW set \in SUBSET threads, NEW f, NEW more, threads' = (threads \ set) \cup {f[t] : t \in set} \cup more,
             \A t \in set : f[t].seat = t.seat
      PROVE  Follow(threads')
  BY <1>2 DEF Follow
<1>3. ASSUME NEW names, NEW parent, NEW state, NEW restart, Spawn(names, parent, state, restart)
      PROVE  Follow(threads')
  <2> DEFINE again == IF restart THEN FoundIn(names, TRUE) ELSE {}
             f == [t \in again |-> Fresh(t.seat, t.name, parent, state)]
             new == {n \in names : Found(n, TRUE) = {}}
             more == {Fresh(nextSeat + Cardinality({m \in new : m < n}), n, parent, state) : n \in new}
  <2>1. threads' = (threads \ again) \cup {f[t] : t \in again} \cup more
    BY <1>3 DEF Spawn, Change
  <2>2. \A t \in again : f[t].seat = t.seat
    BY DEF Fresh
  <2>3. again \in SUBSET threads
    BY <1>1
  <2> HIDE DEF again, f, more
  <2> QED
    BY <1>2, <2>1, <2>2, <2>3, ZenonT(60)
<1>4. ASSUME NEW parent, NEW state, NEW detached, SpawnFiber(parent, state, detached) PROVE Follow(threads')
  BY <1>4 DEF SpawnFiber, Follow
<1>5. ASSUME NEW names, NEW check_linked,
             \/ Pause(names, check_linked)
             \/ Resume(names, check_linked)
      PROVE  Follow(threads')
  BY <1>0, <1>1, <1>5, PausingSeats, SeatsFollow DEF Pause, Resume
<1>6. ASSUME NEW names, NEW check_linked, Detach(names, check_linked) PROVE Follow(threads')
  <2> DEFINE set == FoundIn(names, check_linked)
             f == [t \in set |-> [t EXCEPT !.detached = TRUE]]
  <2>1. threads' = (threads \ set) \cup {f[t] : t \in set} \cup {}
    BY <1>6 DEF Detach, Change
  <2>2. set \in SUBSET threads
    BY <1>1
  <2>3. \A t \in set : f[t].seat = t.seat
    BY <1>0, <2>2 DEF Thread
  <2> HIDE DEF set, f
  <2> QED
    BY <1>2, <2>1, <2>2, <2>3, ZenonT(60)
<1>7. ASSUME NEW names, NEW check_linked, NEW state, Attach(names, state, check_linked) PROVE Follow(threads')
  <2> DEFINE set == FoundIn(names, check_linked)
             f == [t \in set |-> [t EXCEPT !.detached = FALSE, !.state = IF state = None THEN @ ELSE state]]
  <2>1. threads' = (threads \ set) \cup {f[t] : t \in set} \cup {}
    BY <1>7 DEF Attach, Change
  <2>2. set \in SUBSET threads
    BY <1>1
  <2>3. \A t \in set : f[t].seat = t.seat
    BY <1>0, <2>2, ZenonT(30), SMTT(30) DEF Thread
  <2> HIDE DEF set, f
  <2> QED
    BY <1>2, <2>1, <2>2, <2>3, ZenonT(60)
<1>8. ASSUME NEW names, Unlink(names) PROVE Follow(threads')
  <2> DEFINE set == FoundIn(names, TRUE)
             f == [t \in set |-> [t EXCEPT !.linked = FALSE]]
  <2>1. threads' = (threads \ set) \cup {f[t] : t \in set} \cup {}
    BY <1>8 DEF Unlink, Change
  <2>2. set \in SUBSET threads
    BY <1>1
  <2>3. \A t \in set : f[t].seat = t.seat
    BY <1>0, <2>2 DEF Thread
  <2> HIDE DEF set, f
  <2> QED
    BY <1>2, <2>1, <2>2, <2>3
<1>9. ASSUME NEW names, NEW check_linked, Stop(names, check_linked) PROVE Follow(threads')
  BY <1>0, <1>1, <1>9, StoppedFollow DEF Stop
<1>10. ASSUME NEW s, StopState(s) PROVE Follow(threads')
  <2>1. {t \in threads : t.state \in {s, None}} \in SUBSET threads
    OBVIOUS
  <2> QED
    BY <1>0, <1>10, <2>1, StoppedFollow DEF StopState
<1>11. CASE StopAll
  BY <1>0, <1>11, StoppedFollow DEF StopAll
<1>12. CASE \E timer \in timers : TimerFires(timer)
  BY <1>0, <1>1, <1>12, PausingSeats, SeatsFollow DEF TimerFires
<1>13. CASE \E stop \in stops : QueuedStop(stop)
  BY <1>0, <1>1, <1>13, StoppedFollow DEF QueuedStop
<1>14. CASE EraseCompleted
  BY <1>14 DEF EraseCompleted, Keeps, Follow
<1>15. CASE Command
  BY <1>3, <1>4, <1>5, <1>6, <1>7, <1>8, <1>9, <1>10, <1>11, <1>15 DEF Command
<1>16. CASE Queued
  BY <1>12, <1>13, <1>14, <1>16 DEF Queued
<1> QED
  BY <1>15, <1>16

(* entity_thread_flags.hpp:9: no command, timer, step or erasure takes a    *)
(* detached thread out of the vector before it is complete.                 *)
THEOREM DetachedStay == Spec => DetachedOutlive
<1>1. Inductive /\ [Next]_vars =>
        [\A t \in threads : t.detached /\ ~t.complete => \E u \in threads' : u.seat = t.seat]_vars
  <2> SUFFICES ASSUME Inductive, Next PROVE Follow(threads')
    BY DEF Follow
  <2>1. CASE Instruction
    BY <2>1, InstructionSeats, SeatsFollow
  <2>2. CASE BeginProgress \/ EndProgress
    BY <2>2 DEF BeginProgress, EndProgress, Follow
  <2> QED
    BY <2>1, <2>2, CommandsFollow DEF Next, Progress
<1> QED
  BY <1>1, AlwaysInductive, PTL DEF Spec, DetachedOutlive
-----------------------------------------------------------------------------
(* That sleepers wake is not inductive by what Found returns alone.  What  *)
(* stays true is that a timer waits for the name of the sleeper, and either*)
(* asks for the linked thread or the sleeper is the first of its name: no  *)
(* thread is ever added before another one.                                *)

Sleeps(t) == t.name \in Names /\ t.linked /\ t.paused = "sleep"
First(t, set) == \A u \in set : u.name = t.name => t.seat <= u.seat
Awaited(t, set, tms) == \E m \in tms : m.name = t.name /\ (m.check_linked \/ First(t, set))
Woken(set, tms) == \A t \in set : Sleeps(t) => Awaited(t, set, tms)

(* A step is tame if every thread after it was there before and sleeps only*)
(* if it did, or is a new one behind all others that does not sleep.       *)
Descends(v, t) == v.seat = t.seat /\ v.name = t.name
Tame(old, new) ==
  \A v \in new : \/ \E t \in old : Descends(v, t) /\ (Sleeps(v) => Sleeps(t))
                 \/ ~Sleeps(v) /\ \A t \in old : t.seat <= v.seat
Ordered(old, new) ==
  \A v \in new : (\E t \in old : Descends(v, t)) \/ (\A t \in old : t.seat <= v.seat)

(* The first thread of a name stays the first. *)
LEMMA FirstStays ==
  ASSUME NEW old, NEW new, Ordered(old, new), NEW t \in old, NEW v, Descends(v, t), First(t, old)
  PROVE  First(v, new)
<1> SUFFICES ASSUME NEW u \in new, u.name = v.name PROVE v.seat <= u.seat
  BY DEF First
<1>1. CASE \E w \in old : Descends(u, w)
  <2>1. PICK w \in old : Descends(u, w)
    BY <1>1
  <2>2. t.seat <= w.seat
    BY <2>1 DEF First, Descends
  <2> QED
    BY <2>1, <2>2 DEF Descends
<1>2. CASE \A w \in old : w.seat <= u.seat
  BY <1>2 DEF Descends
<1> QED
  BY <1>1, <1>2 DEF Ordered

(* A tame step is an ordered one. *)
LEMMA TameIsOrdered == ASSUME NEW old, NEW new, Tame(old, new) PROVE Ordered(old, new)
BY DEF Tame, Ordered

(* The timer that waited for a thread waits for what became of it. *)
LEMMA AwaitedStays ==
  ASSUME NEW old, NEW new, Ordered(old, new), NEW t \in old, NEW v, Descends(v, t), NEW tms,
         Awaited(t, old, tms), NEW more
  PROVE  Awaited(v, new, tms \cup more)
<1>1. PICK m \in tms : m.name = t.name /\ (m.check_linked \/ First(t, old))
  BY DEF Awaited
<1>2. First(t, old) => First(v, new)
  BY FirstStays
<1>3. m.name = v.name /\ (m.check_linked \/ First(v, new)) /\ m \in tms \cup more
  BY <1>1, <1>2 DEF Descends
<1> QED
  BY <1>3 DEF Awaited

(* So a tame step, the timers aside, leaves no sleeper without a timer. *)
LEMMA TameKeeps ==
  ASSUME NEW old, NEW new, Tame(old, new), NEW tms, Woken(old, tms)
  PROVE  Woken(new, tms)
<1> SUFFICES ASSUME NEW v \in new, Sleeps(v) PROVE Awaited(v, new, tms)
  BY DEF Woken
<1>1. PICK t \in old : Descends(v, t) /\ Sleeps(t)
  BY DEF Tame
<1>2. Awaited(t, old, tms)
  BY <1>1 DEF Woken
<1>3. Awaited(v, new, tms \cup {})
  BY <1>1, <1>2, TameIsOrdered, AwaitedStays
<1> QED
  BY <1>3

(* The usual change: some threads are replaced or taken away. *)
LEMMA ReplacedTame ==
  ASSUME NEW old, NEW set, NEW f, NEW new \in SUBSET ((old \ set) \cup {f[t] : t \in set}),
         set \subseteq old,
         \A t \in set : Descends(f[t], t) /\ (Sleeps(f[t]) => Sleeps(t))
  PROVE  Tame(old, new)
<1> SUFFICES ASSUME NEW v \in new
             PROVE  \E t \in old : Descends(v, t) /\ (Sleeps(v) => Sleeps(t))
  BY DEF Tame
<1>1. CASE v \in old
  BY <1>1 DEF Descends
<1>2. CASE v \in {f[t] : t \in set}
  <2>1. PICK t \in set : v = f[t]
    BY <1>2
  <2> QED
    BY <2>1
<1> QED
  BY <1>1, <1>2

(* The flags that decide whether a thread sleeps, after each change. *)
LEMMA SleepFields ==
  ASSUME NEW t \in Thread
  PROVE  /\ \A cause \in {"no", "pause", "sleep", "stop"} :
              /\ Descends([t EXCEPT !.paused = cause], t)
              /\ [t EXCEPT !.paused = cause].paused = cause
         /\ /\ Descends([t EXCEPT !.detached = TRUE], t)
            /\ Sleeps([t EXCEPT !.detached = TRUE]) => Sleeps(t)
         /\ /\ Descends([t EXCEPT !.linked = FALSE], t)
            /\ ~Sleeps([t EXCEPT !.linked = FALSE])
BY DEF Thread, Descends, Sleeps

(* Resuming, pausing for another reason and stopping are tame. *)
LEMMA SuspendedTame ==
  ASSUME threads \subseteq Thread, NEW set \in SUBSET threads
  PROVE  /\ Tame(threads, Resuming(set))
         /\ \A cause \in {"pause", "stop"} : Tame(threads, Pausing(set, cause))
<1>1. ASSUME NEW cause \in {"no", "pause", "stop"}
      PROVE  Tame(threads, (threads \ set) \cup {[t EXCEPT !.paused = cause] : t \in set})
  <2> DEFINE f == [t \in set |-> [t EXCEPT !.paused = cause]]
  <2>1. ASSUME NEW t \in set
        PROVE  Descends(f[t], t) /\ (Sleeps(f[t]) => Sleeps(t))
    <3>1. t \in Thread
      OBVIOUS
    <3>2. Descends([t EXCEPT !.paused = cause], t) /\ [t EXCEPT !.paused = cause].paused = cause
      BY <3>1 DEF Thread, Descends
    <3>3. f[t] = [t EXCEPT !.paused = cause]
      OBVIOUS
    <3> HIDE DEF f
    <3> QED
      BY <3>2, <3>3 DEF Sleeps
  <2>2. {f[t] : t \in set} = {[t EXCEPT !.paused = cause] : t \in set}
    OBVIOUS
  <2> HIDE DEF f
  <2>3. Tame(threads, (threads \ set) \cup {f[t] : t \in set})
    BY <2>1, ReplacedTame
  <2> QED
    BY <2>2, <2>3
<1>2. Resuming(set) = (threads \ set) \cup {[t EXCEPT !.paused = "no"] : t \in set}
  BY DEF Resuming, Change
<1>3. \A cause : Pausing(set, cause) = (threads \ set) \cup {[t EXCEPT !.paused = cause] : t \in set}
  BY DEF Pausing, Change
<1> QED
  BY <1>1, <1>2, <1>3

(* A thread that is stopped leaves, or stays without its link. *)
LEMMA StoppedTame ==
  ASSUME threads \subseteq Thread, NEW set \in SUBSET threads
  PROVE  Tame(threads, Stopped(set))
<1> DEFINE f == [t \in set |-> [t EXCEPT !.linked = FALSE]]
<1>1. ASSUME NEW t \in set
      PROVE  Descends(f[t], t) /\ (Sleeps(f[t]) => Sleeps(t))
  <2>1. t \in Thread
    OBVIOUS
  <2>2. Descends([t EXCEPT !.linked = FALSE], t) /\ ~Sleeps([t EXCEPT !.linked = FALSE])
    BY <2>1, SleepFields
  <2>3. f[t] = [t EXCEPT !.linked = FALSE]
    OBVIOUS
  <2> HIDE DEF f
  <2> QED
    BY <2>2, <2>3
<1>2. Stopped(set) \subseteq (threads \ set) \cup {f[t] : t \in set}
  BY DEF Stopped
<1> HIDE DEF f
<1> QED
  BY <1>1, <1>2, ReplacedTame

(* A command neither puts a linked thread to sleep nor places a thread     *)
(* before another one.                                                     *)
LEMMA CommandsTame == ASSUME Inductive, Command PROVE Tame(threads, threads')
<1>0. threads \subseteq Thread
  BY DEF Inductive, Sound
<1>1. \A names, check_linked : FoundIn(names, check_linked) \in SUBSET threads
  BY FoundAreThreads
<1>2. ASSUME NEW seat, NEW name, NEW parent, NEW state
      PROVE  /\ ~Sleeps(Fresh(seat, name, parent, state))
             /\ Fresh(seat, name, parent, state).seat = seat
             /\ Fresh(seat, name, parent, state).name = name
  BY DEF Sleeps, Fresh
<1>3. ASSUME NEW names \in Targets, NEW parent, NEW state, NEW restart, Spawn(names, parent, state, restart)
      PROVE  Tame(threads, threads')
  <2> DEFINE new == {n \in names : Found(n, TRUE) = {}}
             rank(n) == Cardinality({m \in new : m < n})
  <2>1. \A n \in new : rank(n) \in Nat
    <3>1. IsFiniteSet(new) /\ new \in SUBSET Nat
      <4>1. names \in SUBSET Names /\ new \in SUBSET names
        BY DEF Targets
      <4>2. IsFiniteSet(Names) /\ Names \in SUBSET Nat
        BY NamesAssumption
      <4> QED
        BY ONLY <4>1, <4>2, FS_Subset
    <3> QED
      BY <3>1, Ranks
  <2>2. \A t \in threads : t.seat \in Nat /\ t.seat < nextSeat
    BY <1>0 DEF Inductive, Sound, Thread, Seats
  <2>3. nextSeat \in Nat
    BY BoundsAssumption DEF Inductive, Rest
  <2> SUFFICES ASSUME NEW v \in threads'
               PROVE  \/ \E t \in threads : Descends(v, t) /\ (Sleeps(v) => Sleeps(t))
                      \/ ~Sleeps(v) /\ \A t \in threads : t.seat <= v.seat
    BY DEF Tame
  <2>4. \/ v \in threads
        \/ \E t \in threads : v = Fresh(t.seat, t.name, parent, state)
        \/ \E n \in new : v = Fresh(nextSeat + rank(n), n, parent, state)
    <3>1. (IF restart THEN FoundIn(names, TRUE) ELSE {}) \in SUBSET threads
      BY <1>1
    <3> QED
      BY <1>3, <3>1 DEF Spawn, Change
  <2> HIDE DEF rank, new
  <2>5. CASE v \in threads
    BY <2>5 DEF Descends
  <2>6. CASE \E t \in threads : v = Fresh(t.seat, t.name, parent, state)
    BY <1>2, <2>6 DEF Descends
  <2>7. CASE \E n \in new : v = Fresh(nextSeat + rank(n), n, parent, state)
    <3>1. PICK n \in new : v = Fresh(nextSeat + rank(n), n, parent, state)
      BY <2>7
    <3>2. ~Sleeps(v) /\ v.seat = nextSeat + rank(n)
      BY <1>2, <3>1
    <3>3. \A t \in threads : t.seat <= v.seat
      BY <2>1, <2>2, <2>3, <3>2
    <3> QED
      BY <3>2, <3>3
  <2> QED
    BY <2>4, <2>5, <2>6, <2>7
<1>4. ASSUME NEW parent, NEW state, NEW detached, SpawnFiber(parent, state, detached)
      PROVE  Tame(threads, threads')
  <2> DEFINE fiber == [Fresh(nextSeat, None, parent, state) EXCEPT !.detached = detached]
  <2>1. ~Sleeps(fiber) /\ fiber.seat = nextSeat
    BY DEF Fresh, Sleeps
  <2>2. threads' = threads \cup {fiber}
    BY <1>4 DEF SpawnFiber
  <2>3. \A t \in threads : t.seat <= nextSeat
    BY <1>0, BoundsAssumption DEF Inductive, Rest, Sound, Thread, Seats
  <2> HIDE DEF fiber
  <2> QED
    BY <2>1, <2>2, <2>3 DEF Tame, Descends
<1>5. ASSUME NEW names, NEW check_linked, Pause(names, check_linked) \/ Resume(names, check_linked)
      PROVE  Tame(threads, threads')
  BY <1>0, <1>1, <1>5, SuspendedTame DEF Pause, Resume
<1>6. ASSUME NEW names, NEW check_linked, Detach(names, check_linked) PROVE Tame(threads, threads')
  <2> DEFINE set == FoundIn(names, check_linked)
             f == [t \in set |-> [t EXCEPT !.detached = TRUE]]
  <2>1. threads' = (threads \ set) \cup {f[t] : t \in set}
    BY <1>6 DEF Detach, Change
  <2>2. set \in SUBSET threads
    BY <1>1
  <2>3. \A t \in set : Descends(f[t], t) /\ (Sleeps(f[t]) => Sleeps(t))
    BY <1>0, <2>2, SleepFields
  <2> HIDE DEF set, f
  <2> QED
    BY <2>1, <2>2, <2>3, ReplacedTame
<1>7. ASSUME NEW names, NEW check_linked, NEW state, Attach(names, state, check_linked)
      PROVE  Tame(threads, threads')
  <2> DEFINE set == FoundIn(names, check_linked)
             f == [t \in set |-> [t EXCEPT !.detached = FALSE, !.state = IF state = None THEN @ ELSE state]]
  <2>1. threads' = (threads \ set) \cup {f[t] : t \in set}
    BY <1>7 DEF Attach, Change
  <2>2. set \in SUBSET threads
    BY <1>1
  <2>3. ASSUME NEW t \in set
        PROVE  Descends(f[t], t) /\ (Sleeps(f[t]) => Sleeps(t))
    <3>1. t \in Thread
      BY <1>0, <2>2
    <3>2. f[t] = [t EXCEPT !.detached = FALSE, !.state = IF state = None THEN t.state ELSE state]
      BY <3>1 DEF Thread
    <3> HIDE DEF f, set
    <3>3. /\ f[t].seat = t.seat /\ f[t].name = t.name
          /\ f[t].linked = t.linked /\ f[t].paused = t.paused
      BY <3>1, <3>2 DEF Thread
    <3> QED
      BY <3>3 DEF Descends, Sleeps
  <2> HIDE DEF set, f
  <2> QED
    BY <2>1, <2>2, <2>3, ReplacedTame
<1>8. ASSUME NEW names, Unlink(names) PROVE Tame(threads, threads')
  <2> DEFINE set == FoundIn(names, TRUE)
             f == [t \in set |-> [t EXCEPT !.linked = FALSE]]
  <2>1. threads' = (threads \ set) \cup {f[t] : t \in set}
    BY <1>8 DEF Unlink, Change
  <2>2. set \in SUBSET threads
    BY <1>1
  <2>3. \A t \in set : Descends(f[t], t) /\ (Sleeps(f[t]) => Sleeps(t))
    BY <1>0, <2>2, SleepFields
  <2> HIDE DEF set, f
  <2> QED
    BY <2>1, <2>2, <2>3, ReplacedTame
<1>9. ASSUME NEW names, NEW check_linked, Stop(names, check_linked) PROVE Tame(threads, threads')
  BY <1>0, <1>1, <1>9, StoppedTame DEF Stop
<1>10. ASSUME NEW s, StopState(s) PROVE Tame(threads, threads')
  <2>1. {t \in threads : t.state \in {s, None}} \in SUBSET threads
    OBVIOUS
  <2> QED
    BY <1>0, <1>10, <2>1, StoppedTame DEF StopState
<1>11. CASE StopAll
  BY <1>0, <1>11, StoppedTame DEF StopAll
<1> QED
  BY <1>3, <1>4, <1>5, <1>6, <1>7, <1>8, <1>9, <1>10, <1>11 DEF Command

(* The timers are touched by sleeping and by firing alone. *)
LEMMA CommandsKeepTimers == ASSUME Command PROVE UNCHANGED timers
<1>1. \A parent, state, names, restart : Spawn(names, parent, state, restart) => UNCHANGED timers
  BY DEF Spawn
<1>2. \A parent, state, detached : SpawnFiber(parent, state, detached) => UNCHANGED timers
  BY DEF SpawnFiber
<1>3. \A names, check_linked : Stop(names, check_linked) \/ Pause(names, check_linked) => UNCHANGED timers
  BY DEF Stop, Pause
<1>4. \A names, check_linked : Resume(names, check_linked) \/ Detach(names, check_linked) => UNCHANGED timers
  BY DEF Resume, Detach
<1>5. \A names, state, check_linked : Attach(names, state, check_linked) => UNCHANGED timers
  BY DEF Attach
<1>6. /\ \A names : Unlink(names) => UNCHANGED timers
      /\ \A s : StopState(s) => UNCHANGED timers
      /\ StopAll => UNCHANGED timers
  BY DEF Unlink, StopState, StopAll
<1> QED
  BY <1>1, <1>2, <1>3, <1>4, <1>5, <1>6 DEF Command

(* A timer that waits for a linked sleeper will find it and no other. *)
LEMMA AwaitedIsFound ==
  ASSUME Inductive, NEW t \in threads, Sleeps(t), NEW m \in timers,
         m.name = t.name, m.check_linked \/ First(t, threads)
  PROVE  Found(m.name, m.check_linked) = {t}
<1>1. t.name # None
  BY NamesAssumption, NoneAssumption DEF Sleeps
<1>2. t \in Matching(m.name, m.check_linked)
  BY <1>1 DEF Matching, Sleeps
<1>3. \A u \in threads : u.seat \in Nat /\ (u.seat = t.seat => u = t)
  BY DEF Inductive, Sound, Thread, Seats
<1>4. ASSUME NEW u \in Matching(m.name, m.check_linked) PROVE u \in threads /\ t.seat <= u.seat
  <2>1. u \in threads /\ u.name = t.name /\ (m.check_linked => u.linked)
    BY DEF Matching
  <2>2. CASE m.check_linked
    <3>1. u = t
      BY <2>1, <2>2 DEF Inductive, Sound, Sleeps
    <3> QED
      BY <1>3, <2>1, <3>1
  <2>3. CASE First(t, threads)
    BY <2>1, <2>3 DEF First
  <2> QED
    BY <2>1, <2>2, <2>3
<1>5. t \in Found(m.name, m.check_linked)
  BY <1>2, <1>4 DEF Found
<1>6. ASSUME NEW u \in Found(m.name, m.check_linked) PROVE u = t
  <2>1. u.seat <= t.seat /\ u \in Matching(m.name, m.check_linked)
    BY <1>2 DEF Found
  <2> QED
    BY <1>3, <1>4, <2>1
<1> QED
  BY <1>5, <1>6

(* A timer that fires wakes the thread it finds; another sleeper has another*)
(* timer, since a timer finds one thread only.                             *)
LEMMA TimersWake ==
  ASSUME Inductive, Woken(threads, timers), NEW m \in timers, TimerFires(m)
  PROVE  Woken(threads, timers)'
<1> DEFINE set == Found(m.name, m.check_linked)
<1>0. threads \subseteq Thread /\ set \in SUBSET threads
  BY FoundAreThreads DEF Inductive, Sound
<1>1. threads' = Resuming(set) /\ timers' = timers \ {m}
  BY DEF TimerFires
<1>2. Tame(threads, threads')
  BY <1>0, <1>1, SuspendedTame
<1> SUFFICES ASSUME NEW v \in threads', Sleeps(v) PROVE Awaited(v, threads', timers')
  BY DEF Woken, Sleeps, Awaited, First
<1>3. v \in threads \ set
  <2>1. \A t \in set : ~Sleeps([t EXCEPT !.paused = "no"])
    <3> TAKE t \in set
    <3>1. t \in Thread
      BY <1>0
    <3>2. [t EXCEPT !.paused = "no"].paused = "no"
      BY <3>1, SleepFields
    <3> QED
      BY <3>2 DEF Sleeps
  <2>2. v \in (threads \ set) \cup {[t EXCEPT !.paused = "no"] : t \in set}
    BY <1>1 DEF Resuming, Change
  <2> HIDE DEF set
  <2> QED
    BY <2>1, <2>2
<1>4. PICK k \in timers : k.name = v.name /\ (k.check_linked \/ First(v, threads))
  BY <1>3 DEF Woken, Awaited
<1>5. k # m
  <2>1. Found(k.name, k.check_linked) = {v}
    BY <1>3, <1>4, AwaitedIsFound
  <2> QED
    BY <1>3, <2>1
<1>6. Awaited(v, threads, timers')
  BY <1>1, <1>4, <1>5 DEF Awaited
<1>7. Awaited(v, threads', timers' \cup {})
  BY <1>2, <1>3, <1>6, TameIsOrdered, AwaitedStays DEF Descends
<1> QED
  BY <1>7

(* A step of a thread, with what its instruction leaves. *)
LEMMA StepKeepsWoken ==
  ASSUME NEW t \in threads, NEW set, set \subseteq Thread, Step(t, set), Woken(set, timers')
  PROVE  Woken(threads', timers')
<1>1. CASE threads' = set
  BY <1>1
<1>2. CASE \E u \in set : threads' = (set \ {u}) \cup {[u EXCEPT !.complete = TRUE]}
  <2>1. PICK u \in set : threads' = (set \ {u}) \cup {[u EXCEPT !.complete = TRUE]}
    BY <1>2
  <2> DEFINE f == [v \in {u} |-> [v EXCEPT !.complete = TRUE]]
  <2>2. threads' = (set \ {u}) \cup {f[v] : v \in {u}}
    BY <2>1
  <2>3. \A v \in {u} : Descends(f[v], v) /\ (Sleeps(f[v]) => Sleeps(v))
    <3>1. u \in Thread
      OBVIOUS
    <3>2. f[u] = [u EXCEPT !.complete = TRUE]
      OBVIOUS
    <3>3. /\ Descends([u EXCEPT !.complete = TRUE], u)
          /\ Sleeps([u EXCEPT !.complete = TRUE]) => Sleeps(u)
      BY <3>1 DEF Thread, Descends, Sleeps
    <3> HIDE DEF f
    <3> QED
      BY <3>2, <3>3
  <2> DEFINE one == {u}
  <2>4. /\ one \subseteq set
        /\ threads' \in SUBSET ((set \ one) \cup {f[v] : v \in one})
        /\ \A v \in one : Descends(f[v], v) /\ (Sleeps(f[v]) => Sleeps(v))
    BY <2>2, <2>3
  <2> HIDE DEF f, one
  <2>5. Tame(set, threads')
    BY <2>4, ReplacedTame
  <2> QED
    BY <2>5, TameKeeps
<1> QED
  BY <1>1, <1>2 DEF Step

(* Falling asleep: the resume that is timed waits for the thread that is   *)
(* found now.                                                              *)
LEMMA SleepKeepsWoken ==
  ASSUME Inductive, Woken(threads, timers), NEW t \in threads, NEW name \in Names, NEW check_linked \in BOOLEAN,
         NEW m, m.name = name, m.check_linked = check_linked
  PROVE  Woken(Pausing(Found(name, check_linked), "sleep"), timers \cup {m})
<1> DEFINE set == Found(name, check_linked)
           new == Pausing(set, "sleep")
<1>0. threads \subseteq Thread /\ set \in SUBSET threads
  BY FoundAreThreads DEF Inductive, Sound
<1>1. new = (threads \ set) \cup {[u EXCEPT !.paused = "sleep"] : u \in set}
  BY DEF Pausing, Change
<1>2. \A u \in set : Descends([u EXCEPT !.paused = "sleep"], u)
  BY <1>0, SleepFields
<1>3. \A u \in set : u.name = name /\ (~check_linked => First(u, threads))
  <2> TAKE u \in set
  <2>1. u \in Matching(name, check_linked) /\ \A w \in Matching(name, check_linked) : u.seat <= w.seat
    BY DEF Found
  <2>2. u.name = name /\ name # None
    BY <2>1 DEF Matching
  <2>3. ASSUME ~check_linked, NEW w \in threads, w.name = u.name PROVE u.seat <= w.seat
    <3>1. w \in Matching(name, check_linked)
      BY <2>2, <2>3 DEF Matching
    <3> QED
      BY <2>1, <3>1
  <2> QED
    BY <2>2, <2>3 DEF First
<1> HIDE DEF new, set
<1>4. Ordered(threads, new)
  <2>1. \A v \in threads \ set : Descends(v, v)
    BY DEF Descends
  <2> QED
    BY <1>0, <1>1, <1>2, <2>1 DEF Ordered
<1> SUFFICES ASSUME NEW v \in new, Sleeps(v) PROVE Awaited(v, new, timers \cup {m})
  BY DEF Woken, new, set
<1>5. CASE v \in threads \ set
  <2>1. Awaited(v, threads, timers)
    BY <1>5 DEF Woken
  <2> QED
    BY <1>4, <1>5, <2>1, AwaitedStays DEF Descends
<1>6. CASE \E u \in set : v = [u EXCEPT !.paused = "sleep"]
  <2>1. PICK u \in set : v = [u EXCEPT !.paused = "sleep"]
    BY <1>6
  <2>2. Descends(v, u) /\ u \in threads
    BY <1>0, <1>2, <2>1
  <2>3. ~check_linked => First(v, new)
    BY <1>3, <1>4, <2>2, FirstStays
  <2>4. m.name = v.name
    BY <1>3, <2>1, <2>2 DEF Descends
  <2> QED
    BY <2>3, <2>4 DEF Awaited
<1> QED
  BY <1>1, <1>5, <1>6

(* The instructions; only Sleep puts a linked thread to sleep, and a thread*)
(* that sleeps does not link itself.                                       *)
LEMMA InstructionsWake ==
  ASSUME Inductive, Woken(threads, timers), Instruction
  PROVE  Woken(threads', timers')
<1>0. threads \subseteq Thread
  BY DEF Inductive, Sound
<1>1. PICK t \in threads :
        \/ StepPlain(t) \/ StepLink(t)
        \/ \E check_linked \in Checks :
             \/ StepStop(t, check_linked)
             \/ \E name \in Names \cup {t.name} :
                  \/ StepSleep(t, name, check_linked)
                  \/ StepPause(t, name, check_linked)
                  \/ StepResume(t, name, check_linked)
  BY DEF Instruction
<1>2. CASE StepPlain(t)
  BY <1>0, <1>2, StepKeepsWoken DEF StepPlain
<1>3. CASE StepLink(t)
  <2> DEFINE f == [u \in {t} |-> [u EXCEPT !.linked = TRUE]]
  <2>1. Step(t, Linking(t)) /\ timers' = timers /\ ~Suspended(t)
    BY <1>3 DEF StepLink, Step
  <2>2. Linking(t) = (threads \ {t}) \cup {f[u] : u \in {t}}
    BY DEF Linking, Change
  <2>3. f[t] = [t EXCEPT !.linked = TRUE] /\ t \in Thread
    BY <1>0, SMTT(30), ZenonT(60)
  <2>4. [t EXCEPT !.linked = TRUE] \in Thread
    BY <2>3, Fields
  <2> HIDE DEF f
  <2>5. Descends([t EXCEPT !.linked = TRUE], t) /\ [t EXCEPT !.linked = TRUE].paused = t.paused
    BY <2>3 DEF Thread, Descends
  <2>6. Descends(f[t], t) /\ f[t].paused = t.paused
    BY <2>3, <2>5
  <2>7. ~Sleeps(f[t])
    BY <2>1, <2>6 DEF Sleeps, Suspended
  <2> DEFINE one == {t}
  <2>8. /\ one \subseteq threads
         /\ Linking(t) \in SUBSET ((threads \ one) \cup {f[u] : u \in one})
         /\ \A u \in one : Descends(f[u], u) /\ (Sleeps(f[u]) => Sleeps(u))
    BY <2>2, <2>6, <2>7
  <2> HIDE DEF one
  <2>9. Tame(threads, Linking(t))
    BY <2>8, ReplacedTame
  <2>10. Linking(t) \subseteq Thread
    BY <1>0, <2>2, <2>3, <2>4
  <2>11. Woken(Linking(t), timers')
    BY <2>1, <2>9, TameKeeps
  <2> QED
    BY <2>1, <2>10, <2>11, StepKeepsWoken
<1>4. ASSUME NEW set \in SUBSET threads, NEW cause \in {"no", "pause", "sleep", "stop"}
      PROVE  Pausing(set, cause) \subseteq Thread /\ Resuming(set) \subseteq Thread
  BY <1>0, <1>4, PausingSound DEF Inductive, Sound
<1>5. ASSUME NEW set \in SUBSET threads, NEW cause \in {"pause", "stop"}, timers' = timers,
             Step(t, Pausing(set, cause)) \/ Step(t, Resuming(set))
      PROVE  Woken(threads', timers')
  <2>1. Tame(threads, Pausing(set, cause)) /\ Tame(threads, Resuming(set))
    BY <1>0, SuspendedTame
  <2>2. Woken(Pausing(set, cause), timers') /\ Woken(Resuming(set), timers')
    BY <1>5, <2>1, TameKeeps
  <2> QED
    BY <1>4, <1>5, <2>2, StepKeepsWoken
<1>6. ASSUME NEW check_linked \in Checks, StepStop(t, check_linked) PROVE Woken(threads', timers')
  BY <1>5, <1>6 DEF StepStop
<1>7. ASSUME NEW check_linked \in Checks, NEW name \in Names \cup {t.name},
             StepPause(t, name, check_linked) \/ StepResume(t, name, check_linked)
      PROVE  Woken(threads', timers')
  <2>1. Found(name, check_linked) \in SUBSET threads
    BY FoundAreThreads
  <2> QED
    BY <1>5, <1>7, <2>1 DEF StepPause, StepResume
<1>8. ASSUME NEW check_linked \in Checks, NEW name \in Names \cup {t.name},
             StepSleep(t, name, check_linked)
      PROVE  Woken(threads', timers')
  <2> DEFINE set == Pausing(Found(name, check_linked), "sleep")
  <2>1. Step(t, set) /\ set \subseteq Thread
    BY <1>4, <1>8, FoundAreThreads DEF StepSleep
  <2>2. CASE name = None
    <3>1. Found(name, check_linked) = {}
      BY <2>2 DEF Found, Matching
    <3>2. set = threads
      BY <3>1 DEF Pausing, Change
    <3>3. timers' = timers
      BY <1>8, <2>2 DEF StepSleep
    <3> QED
      BY <2>1, <3>2, <3>3, StepKeepsWoken
  <2>3. CASE name # None
    <3> DEFINE m == [name |-> name, check_linked |-> check_linked, by |-> t.seat]
    <3>1. name \in Names
      BY <1>0, <2>3 DEF Thread
    <3>2. timers' = timers \cup {m}
      BY <1>8, <2>3 DEF StepSleep
    <3>3. m.name = name /\ m.check_linked = check_linked /\ check_linked \in BOOLEAN
      BY ChecksAssumption
    <3> HIDE DEF m
    <3>4. Woken(set, timers')
      BY <3>1, <3>2, <3>3, SleepKeepsWoken
    <3> QED
      BY <2>1, <3>4, StepKeepsWoken
  <2> QED
    BY <2>2, <2>3
<1> QED
  BY <1>1, <1>2, <1>3, <1>6, <1>7, <1>8

(* What was queued: timed resumes, stops, the erasure of completed threads.*)
LEMMA QueuedWake ==
  ASSUME Inductive, Woken(threads, timers), Queued
  PROVE  Woken(threads', timers')
<1>0. threads \subseteq Thread
  BY DEF Inductive, Sound
<1>1. ASSUME NEW m \in timers, TimerFires(m) PROVE Woken(threads', timers')
  BY <1>1, TimersWake
<1>2. ASSUME NEW stop \in stops, QueuedStop(stop) PROVE Woken(threads', timers')
  <2>1. Found(stop.name, stop.check_linked) \in SUBSET threads
    BY FoundAreThreads
  <2>2. threads' = Stopped(Found(stop.name, stop.check_linked)) /\ timers' = timers
    BY <1>2 DEF QueuedStop
  <2>3. Tame(threads, threads')
    BY <1>0, <2>1, <2>2, StoppedTame
  <2> QED
    BY <2>2, <2>3, TameKeeps
<1>3. CASE EraseCompleted
  <2>1. threads' \subseteq threads /\ timers' = timers
    BY <1>3 DEF EraseCompleted
  <2>2. Tame(threads, threads')
    BY <2>1 DEF Tame, Descends
  <2> QED
    BY <2>1, <2>2, TameKeeps
<1> QED
  BY <1>1, <1>2, <1>3 DEF Queued

(* entity_system.cpp:2195, Sleep: whatever is started, stopped, unlinked,  *)
(* restarted or erased while a linked thread of the descriptor sleeps, one *)
(* of the resumes that are timed will find that very thread.               *)
THEOREM SleepersAreWoken == Spec => []SleepersWake
<1>1. Init => Woken(threads, timers)
  BY DEF Init, Woken
<1>2. Inductive /\ Woken(threads, timers) /\ [Next]_vars => Woken(threads, timers)'
  <2> SUFFICES ASSUME Inductive, Woken(threads, timers), [Next]_vars PROVE Woken(threads', timers')
    BY DEF Woken, Sleeps, Awaited, First
  <2>1. CASE Command
    BY <2>1, CommandsTame, CommandsKeepTimers, TameKeeps
  <2>2. CASE BeginProgress \/ EndProgress \/ UNCHANGED vars
    BY <2>2 DEF BeginProgress, EndProgress, vars
  <2> QED
    BY <2>1, <2>2, QueuedWake, InstructionsWake DEF Next, Progress
<1>3. Inductive /\ Woken(threads, timers) => SleepersWake
  <2> SUFFICES ASSUME Inductive, Woken(threads, timers), NEW t \in threads, Sleeps(t)
               PROVE  \E m \in timers : Found(m.name, m.check_linked) = {t}
    BY DEF SleepersWake, Sleeps
  <2>1. PICK m \in timers : m.name = t.name /\ (m.check_linked \/ First(t, threads))
    BY DEF Woken, Awaited
  <2> QED
    BY <2>1, AwaitedIsFound
<1> QED
  BY <1>1, <1>2, <1>3, AlwaysInductive, PTL DEF Spec
=============================================================================
